----------------------------- MODULE OpenGrowth -----------------------------
(***************************************************************************)
(* The growth policy under arbitrary batches and arbitrary feedback:       *)
(* observations may be missing, late, duplicated, for another depth or for *)
(* a request of another batch; requests leave at any time.                 *)
(***************************************************************************)
EXTENDS SaturationGrowth

VARIABLES
  depth,      \* the depth of the current turn, 0 before the first
  batch,      \* the batch of the current turn
  fed,        \* history: what came back for each member of this turn,
              \* "none", "full" (once, all accepted) or "bad"
  proven,     \* history: consecutive turns before this one with this batch
              \* and this depth that each member ended "full"
  lost        \* history: the previous turn ran deeper than BaseK, and some
              \* feedback was not "full" or the batch is not the same

vars == <<growthVars, depth, batch, fed, proven, lost>>

Init ==
  /\ GrowthInit
  /\ depth = 0
  /\ batch = {}
  /\ fed = [r \in Request |-> "none"]
  /\ proven = NoStreaks
  /\ lost = FALSE

\* Consecutive full turns up to and including the one that ends now.
ProvenNow(r) ==
  IF r \in batch /\ fed[r] = "full"
  THEN (IF proven[r] < Required THEN proven[r] + 1 ELSE Required) ELSE 0

\* choose for a uniform batch m of decoders, base being the baseline's depth.
Turn(m, base) ==
  /\ GrowthChoose(m, base)
  /\ depth' = Depth(m, base)
  /\ batch' = m
  /\ fed' = [r \in Request |-> "none"]
  /\ proven' = [r \in Request |->
                  IF m = batch /\ depth' = depth THEN ProvenNow(r) ELSE 0]
  /\ lost' = (depth > BaseK /\ (m # batch \/ \E r \in batch : fed[r] # "full"))

\* A mixed batch, discard of a stale request, or a member that has gone.
Drop ==
  /\ GrowthReset
  /\ depth' = 0
  /\ batch' = {}
  /\ fed' = [r \in Request |-> "none"]
  /\ proven' = NoStreaks
  /\ lost' = FALSE

Feedback(r, proposed, accepted) ==
  /\ GrowthObserve(r, proposed, accepted)
  /\ fed' = [fed EXCEPT ![r] =
               IF @ = "none" /\ proposed = depth /\ accepted = depth
               THEN "full" ELSE "bad"]
  /\ UNCHANGED <<depth, batch, proven, lost>>

Next ==
  \/ \E m \in (SUBSET Request) \ {{}}, base \in 1..BaseK : Turn(m, base)
  \/ Drop
  \/ \E r \in Request, proposed \in 1..TopK : \E accepted \in 0..proposed :
       Feedback(r, proposed, accepted)

Spec == Init /\ [][Next]_vars

-----------------------------------------------------------------------------
\* The type invariant.
TypeOK ==
  /\ cap \in BaseK..TopK
  /\ pending \subseteq members /\ members \subseteq Request
  /\ streaks \in [Request -> 0..Required]
  /\ active \in BOOLEAN /\ rejected \in BOOLEAN
  /\ depth \in 0..TopK /\ batch \subseteq Request
  /\ fed \in [Request -> {"none", "full", "bad"}]
  /\ proven \in [Request -> 0..Required]
  /\ lost \in BOOLEAN

\* A batch is verified deeper than before, and deeper than BaseK, only when
\* each of its members has just ended Required turns in a row of this very
\* batch at the old depth with one observation, all drafts accepted
\* ("Missing, duplicate or censored observations break its streak.
\* Membership changes and fallback discard all evidence").
GrowthEarned ==
  [][depth' > depth /\ depth' > BaseK =>
       /\ batch' = batch /\ depth' = depth + 1
       /\ \A r \in batch : ProvenNow(r) = Required]_vars

\* "A failed larger-K probe returns to K4 immediately": after a turn deeper
\* than BaseK that did not end with one full acceptance from every member,
\* or that the batch did not survive, the next turn is not deeper than BaseK.
FailureWithdraws == lost => depth <= BaseK
=============================================================================
