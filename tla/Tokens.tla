------------------------------- MODULE Tokens -------------------------------
(***************************************************************************)
(* Arithmetic on token positions shared by the scheduling modules.         *)
(***************************************************************************)
EXTENDS Integers

CONSTANT Block   \* scheduler.block_size: the KDA (mamba) block, 2304 tokens on TP4

ASSUME BlockAssumption == Block \in Nat \ {0}

Least(a, b) == IF a <= b THEN a ELSE b
Most(a, b)  == IF a >= b THEN a ELSE b

\* n // unit * unit
FloorTo(n, unit) == (n \div unit) * unit

\* is_prefilling's boundary: a resumed request replays its output as well.
PrefillEnd(prompt, tokens) == Most(prompt, tokens - 1)
=============================================================================
