------------------------------ MODULE Lockstep ------------------------------
(***************************************************************************)
(* What both transports promise about progress: each participant enters    *)
(* the collective operations in order and leaves operation n only when     *)
(* every participant has entered it, because the result of n needs a       *)
(* contribution of each.  A participant may have at most Window operations *)
(* entered and not left: the chunks of one launch of the lean all-reduce,  *)
(* the one call of the prefill ring.                                       *)
(*                                                                         *)
(* Buffers are reused by operation number modulo their count (the send and *)
(* receive slots of the all-reduce, the two receive areas of the ring)     *)
(* with no acknowledgement of their own.  SlotsSuffice is the argument     *)
(* that makes this safe.                                                   *)
(***************************************************************************)
EXTENDS Naturals

CONSTANTS
  Party,      \* the participants
  Window,     \* operations a participant may have entered and not left
  Buffers     \* buffers that the operation number selects from

\* lean_tp4.py refuses a proxy with fewer than 2 * MAX_CHUNKS slots; the ring
\* has two parities for one call at a time.
ASSUME WindowAssumption == Window \in Nat \ {0}
ASSUME BuffersAssumption == Buffers \in Nat /\ Buffers >= 2 * Window

VARIABLES
  entered,    \* the last operation each participant has contributed to
  left        \* the last operation each participant has the result of

lockstepVars == <<entered, left>>

LockstepInit ==
  /\ entered = [p \in Party |-> 0]
  /\ left = [p \in Party |-> 0]

\* The contribution to the next operation is staged.
Enter(p) ==
  /\ entered[p] < left[p] + Window
  /\ entered' = [entered EXCEPT ![p] = @ + 1]
  /\ UNCHANGED left

\* The result of the next operation is complete.
Leave(p) ==
  /\ left[p] < entered[p]
  /\ \A q \in Party : entered[q] > left[p]
  /\ left' = [left EXCEPT ![p] = @ + 1]
  /\ UNCHANGED entered

LockstepNext == \E p \in Party : Enter(p) \/ Leave(p)

LockstepSpec == LockstepInit /\ [][LockstepNext]_lockstepVars

LockstepTypeOK ==
  /\ entered \in [Party -> Nat]
  /\ left \in [Party -> Nat]

\* Nobody has the result of an operation that somebody has not entered.
NoEarlyResult == \A p, q \in Party : left[p] <= entered[q]

\* When a participant enters an operation, every participant has left the
\* one before it in the same buffer: the overwrite is safe at both ends.
SlotsSuffice ==
  \A p, q \in Party : entered[p] <= left[q] + Buffers
=============================================================================
