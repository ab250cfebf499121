-------------------------- MODULE SaturationGrowth --------------------------
(***************************************************************************)
(* How far a batch of decoders is verified                                 *)
(* (src/tp4/glm53_speedup/policy.py, class SaturationGrowth and the parts  *)
(* of Policy that call it in saturation mode).                             *)
(*                                                                         *)
(* Every uniform decode step asks choose() for a verification depth; the   *)
(* acceptance of every request of the step comes back through observe().   *)
(* The depth grows past BaseK only on evidence: Required steps in a row in *)
(* which every member of the same batch had all its drafts accepted.       *)
(***************************************************************************)
EXTENDS Requests, Naturals

CONSTANTS
  BaseK,      \* the depth of the baseline policy, 4
  TopK,       \* the largest depth, 7
  Required    \* REQUIRED, 8

ASSUME GrowthAssumption ==
  /\ BaseK \in Nat \ {0} /\ TopK \in Nat /\ BaseK <= TopK
  /\ Required \in Nat \ {0}

VARIABLES
  cap,        \* the depth the evidence allows
  members,    \* the batch the evidence is about
  streaks,    \* full acceptances in a row, by member
  pending,    \* members whose observation is due
  active,     \* choose has opened a turn
  rejected    \* a larger depth has just been withdrawn

growthVars == <<cap, members, streaks, pending, active, rejected>>

NoStreaks == [r \in Request |-> 0]

GrowthInit ==
  /\ cap = BaseK /\ members = {} /\ streaks = NoStreaks
  /\ pending = {} /\ active = FALSE /\ rejected = FALSE

\* reset(), called by discard, by retain when a member has gone, and for a
\* mixed or unsupported batch.
GrowthReset ==
  /\ cap' = BaseK /\ members' = {} /\ streaks' = NoStreaks
  /\ pending' = {} /\ active' = FALSE /\ rejected' = FALSE

-----------------------------------------------------------------------------
\* Mutant of Restart: missing feedback keeps the larger depth.
RestartChangedOnly(m, base) == m # members \/ base < BaseK

\* choose() starts from nothing: another batch, a cautious baseline, or
\* feedback that is missing at a larger depth.
Restart(m, base) ==
  \/ m # members
  \/ base < BaseK
  \/ pending # {} /\ cap > BaseK

\* Mutant of StreaksKept: an unobserved member keeps its streak.
StreaksKeptAll(m, base) == IF Restart(m, base) THEN NoStreaks ELSE streaks

\* Unobserved members cannot carry consecutive-success evidence forward.
StreaksKept(m, base) ==
  IF Restart(m, base) THEN NoStreaks
  ELSE [r \in Request |-> IF r \in pending THEN 0 ELSE streaks[r]]

Grows(m, kept, from) ==
  from < TopK /\ m # {} /\ \A r \in m : kept[r] >= Required

\* choose(members, baseline_k); the depth it returns is Depth(m, base).
Depth(m, base) ==
  LET from == IF Restart(m, base) THEN BaseK ELSE cap
  IN  IF base < BaseK THEN base
      ELSE IF Grows(m, StreaksKept(m, base), from) THEN from + 1 ELSE from

GrowthChoose(m, base) ==
  LET from == IF Restart(m, base) THEN BaseK ELSE cap
      kept == StreaksKept(m, base)
  IN  /\ members' = m
      /\ rejected' = FALSE
      /\ IF base < BaseK
         THEN /\ cap' = from /\ streaks' = kept
              /\ pending' = {} /\ active' = FALSE
         ELSE /\ cap' = Depth(m, base)
              /\ streaks' = IF Grows(m, kept, from) THEN NoStreaks ELSE kept
              /\ pending' = m /\ active' = TRUE

-----------------------------------------------------------------------------
\* A broken streak; at a larger depth the whole batch falls back.
Broken(r) ==
  IF cap > BaseK
  THEN /\ cap' = BaseK /\ streaks' = NoStreaks /\ pending' = {}
       /\ active' = FALSE /\ rejected' = TRUE
       /\ UNCHANGED members
  ELSE /\ streaks' = [streaks EXCEPT ![r] = 0]
       /\ pending' = pending \ {r}
       /\ UNCHANGED <<cap, members, active, rejected>>

\* The observation r owes, with every draft accepted.
Clean(r, proposed, accepted) ==
  r \in pending /\ proposed = cap /\ accepted = proposed

\* observe(rid, proposed, accepted)
GrowthObserve(r, proposed, accepted) ==
  IF ~active \/ r \notin members THEN UNCHANGED growthVars
  ELSE IF ~Clean(r, proposed, accepted) THEN Broken(r)
  ELSE /\ streaks' = [streaks EXCEPT
                        ![r] = IF @ < Required THEN @ + 1 ELSE Required]
       /\ pending' = pending \ {r}
       /\ UNCHANGED <<cap, members, active, rejected>>
=============================================================================
