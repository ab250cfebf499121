------------------------------- MODULE MCRing -------------------------------
EXTENDS RingRuntime

RS(rows) == [kind |-> "RS", rows |-> rows]
AG(rows) == [kind |-> "AG", rows |-> rows]

\* Local work fails during the construction.
Build == [calls |-> <<>>, maxRows |-> 4, crMax |-> 1, nslot |-> 2, grid |-> 1, late |-> 0, free |-> {}]
\* A receive area and the staging slots are used again, one rank at any speed.
Reuse == [calls |-> <<AG(4), RS(4), AG(4)>>, maxRows |-> 4, crMax |-> 1,
          nslot |-> 2, grid |-> 1, late |-> 0, free |-> {0}]
\* Several chunks, CTAs and slots.
Wide == [calls |-> <<RS(8), AG(8), RS(12)>>, maxRows |-> 12, crMax |-> 1,
         nslot |-> 3, grid |-> 2, late |-> 0, free |-> {}]
Long == [calls |-> <<RS(36), AG(36), RS(16)>>, maxRows |-> 36, crMax |-> 2,
         nslot |-> 2, grid |-> 1, late |-> 0, free |-> {}]
\* A wait gives up while the write is on its way.
Late == [calls |-> <<RS(4)>>, maxRows |-> 4, crMax |-> 1,
         nslot |-> 2, grid |-> 1, late |-> 1, free |-> {}]

MCScenarios == {Build, Reuse, Wide, Long, Late}
MCStages == <<"preflight", "create", "settings", "connect">>
=============================================================================
