------------------------------- MODULE World --------------------------------
\* The ranks of the four-node recipe; both transports refuse any other number.
EXTENDS Naturals

Rank == 0..3
=============================================================================
