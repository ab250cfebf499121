----------------------------- MODULE MCServing -----------------------------
(***************************************************************************)
(* TLC instances of ServingScheduler: a prompt of several chunks, a prompt *)
(* of a few blocks that may hit the prefix cache, and a short one. The     *)
(* long request fills the context, and its drafts are cut off at the end.  *)
(***************************************************************************)
EXTENDS ServingScheduler

CONSTANTS long, mid, short

MCSelectors == {[repay |-> TRUE, burst |-> 0]}
MCPrompt == [r \in Request |-> CASE r = long -> 25 [] r = mid -> 9 [] OTHER -> 3]
MCMaxOut == [r \in Request |-> CASE r = mid -> 3 [] OTHER -> 4]
=============================================================================
