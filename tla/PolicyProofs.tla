---------------------------- MODULE PolicyProofs ----------------------------
(***************************************************************************)
(* Proofs about the acceptance policy, for every set of requests, depths,  *)
(* streak lengths, override files and number of writes.                    *)
(*                                                                         *)
(* First SaturationGrowth under arbitrary batches and feedback             *)
(* (OpenGrowth).  The properties speak of the history, the code of streaks *)
(* and pending, and EvidenceInv ties them together: while a turn is open,  *)
(* a member that still owes its observation has got none, and has no       *)
(* longer a streak than the turns it has proven; a member that has been    *)
(* observed has either lost its streak, or been observed once, in full.    *)
(* Above BaseK the first alternative is impossible, because it closes the  *)
(* turn.                                                                   *)
(*                                                                         *)
(* Then PolicyBridge, which does to the growth policy only what OpenGrowth *)
(* allows, so that its theorems hold there too.  The override is safe      *)
(* because a stamp names one content (FilesInv), so a chain of equal       *)
(* stamps leads from the settings in force back to one file (ReaderInv,    *)
(* InForceInv).  The depth of mode ema moves only on agreement because     *)
(* pending_count never runs ahead of the decisions that agreed (CountInv). *)
(***************************************************************************)
EXTENDS PolicyBridge, TLAPS

MemberInv(r) ==
  /\ r \in pending => fed[r] = "none" /\ streaks[r] <= proven[r]
  /\ r \notin pending => \/ streaks[r] = 0 /\ cap = BaseK
                         \/ fed[r] = "full" /\ streaks[r] <= ProvenNow(r)

\* The inductive invariant.
EvidenceInv ==
  IF active
  THEN /\ depth = cap /\ batch = members
       /\ \A r \in members : MemberInv(r)
  ELSE cap = BaseK /\ pending = {} /\ streaks = NoStreaks

IInv == TypeOK /\ FailureWithdraws /\ EvidenceInv

LEMMA GrowthInitIInv == Init => IInv
<1> SUFFICES ASSUME Init PROVE IInv
  OBVIOUS
<1>1. TypeOK
  <2>1. fed \in [Request -> {"none", "full", "bad"}]
    BY DEF Init
  <2>2. NoStreaks \in [Request -> 0..Required]
    BY GrowthAssumption DEF NoStreaks
  <2>3. active \in BOOLEAN /\ rejected \in BOOLEAN /\ lost \in BOOLEAN
    BY Zenon DEF Init, GrowthInit
  <2> QED BY <2>1, <2>2, <2>3, GrowthAssumption DEF Init, GrowthInit, TypeOK
<1>2. ~lost /\ ~active /\ cap = BaseK /\ pending = {} /\ streaks = NoStreaks
  BY Zenon DEF Init, GrowthInit
<1> QED BY <1>1, <1>2, Zenon DEF IInv, FailureWithdraws, EvidenceInv

LEMMA GrowthDropIInv == ASSUME IInv, Drop PROVE IInv'
<1>1. TypeOK'
  <2>1. fed' \in [Request -> {"none", "full", "bad"}]
    BY DEF Drop
  <2>2. NoStreaks \in [Request -> 0..Required]
    BY GrowthAssumption DEF NoStreaks
  <2>3. active' \in BOOLEAN /\ rejected' \in BOOLEAN /\ lost' \in BOOLEAN
    BY Zenon DEF Drop, GrowthReset
  <2> QED BY <2>1, <2>2, <2>3, GrowthAssumption DEF Drop, GrowthReset, TypeOK
<1>2. ~lost' /\ ~active' /\ cap' = BaseK /\ pending' = {} /\ streaks' = NoStreaks
  BY Zenon DEF Drop, GrowthReset
<1> QED BY <1>1, <1>2, Zenon DEF IInv, FailureWithdraws, EvidenceInv, NoStreaks

\* What a turn inherits: nothing after a restart, and otherwise no streak
\* that the history has not proven.
LEMMA KeptProven ==
  ASSUME IInv, NEW m \in (SUBSET Request) \ {{}}, NEW base \in 1..BaseK
  PROVE  /\ StreaksKept(m, base) \in [Request -> 0..Required]
         /\ Restart(m, base) \/ ~active => StreaksKept(m, base) = NoStreaks
         /\ ~Restart(m, base) /\ active =>
              /\ m = batch /\ depth = cap
              /\ \A r \in m : StreaksKept(m, base)[r] <= ProvenNow(r)
<1> USE GrowthAssumption
<1>1. StreaksKept(m, base) \in [Request -> 0..Required]
  BY DEF StreaksKept, NoStreaks, IInv, TypeOK
<1>2. Restart(m, base) \/ ~active => StreaksKept(m, base) = NoStreaks
  BY DEF StreaksKept, NoStreaks, IInv, EvidenceInv, TypeOK
<1>3. ASSUME ~Restart(m, base), active
      PROVE  /\ m = batch /\ depth = cap
             /\ \A r \in m : StreaksKept(m, base)[r] <= ProvenNow(r)
  <2>1. m = members /\ m = batch /\ depth = cap
    BY <1>3 DEF Restart, IInv, EvidenceInv
  <2>2. ASSUME NEW r \in m PROVE StreaksKept(m, base)[r] <= ProvenNow(r)
    <3>1. r \in Request /\ MemberInv(r) /\ ProvenNow(r) \in 0..Required
      BY <1>3, <2>1 DEF IInv, EvidenceInv, TypeOK, ProvenNow
    <3>2. StreaksKept(m, base)[r] = IF r \in pending THEN 0 ELSE streaks[r]
      BY <1>3, <3>1 DEF StreaksKept
    <3> QED BY <3>1, <3>2 DEF MemberInv
  <2> QED BY <2>1, <2>2
<1> QED BY <1>1, <1>2, <1>3

\* A turn deepens only on streaks that the history has proven.
LEMMA DeepenProven ==
  ASSUME IInv, NEW m \in (SUBSET Request) \ {{}}, NEW base \in 1..BaseK,
         Depth(m, base) > BaseK
  PROVE  /\ active /\ m = batch /\ m = members /\ base = BaseK /\ ~Restart(m, base)
         /\ \/ Depth(m, base) = depth
            \/ /\ Depth(m, base) = depth + 1
               /\ \A r \in batch : ProvenNow(r) = Required
<1> USE GrowthAssumption
<1>1. base = BaseK
  BY DEF Depth
<1>2. ~Restart(m, base)
  <2> SUFFICES ASSUME Restart(m, base) PROVE FALSE
    OBVIOUS
  <2>1. Grows(m, StreaksKept(m, base), BaseK)
    BY <1>1 DEF Depth
  <2>2. StreaksKept(m, base) = NoStreaks
    BY KeptProven
  <2> QED BY <2>1, <2>2 DEF Grows, NoStreaks
<1>3. active
  <2> SUFFICES ASSUME ~active PROVE FALSE
    OBVIOUS
  <2>1. cap = BaseK
    BY DEF IInv, EvidenceInv
  <2>2. Grows(m, StreaksKept(m, base), BaseK)
    BY <1>1, <1>2, <2>1 DEF Depth
  <2>3. StreaksKept(m, base) = NoStreaks
    BY KeptProven
  <2> QED BY <2>2, <2>3 DEF Grows, NoStreaks
<1>4. m = batch /\ m = members /\ depth = cap /\ cap \in Nat
  <2>1. m = batch /\ depth = cap
    BY <1>2, <1>3, KeptProven
  <2>2. m = members
    BY <1>2 DEF Restart
  <2> QED BY <2>1, <2>2 DEF IInv, TypeOK
<1>5. CASE Grows(m, StreaksKept(m, base), cap)
  <2>1. Depth(m, base) = depth + 1
    BY <1>1, <1>2, <1>4, <1>5 DEF Depth
  <2>2. ASSUME NEW r \in batch PROVE ProvenNow(r) = Required
    <3>1. StreaksKept(m, base)[r] >= Required /\ StreaksKept(m, base)[r] <= ProvenNow(r)
      BY <1>2, <1>3, <1>4, <1>5, KeptProven DEF Grows
    <3>2. StreaksKept(m, base)[r] \in 0..Required
      BY <1>4, KeptProven DEF IInv, TypeOK
    <3>3. ProvenNow(r) \in 0..Required
      BY <1>4 DEF IInv, TypeOK, ProvenNow
    <3> QED BY <3>1, <3>2, <3>3
  <2> QED BY <1>1, <1>2, <1>3, <1>4, <2>1, <2>2
<1>6. CASE ~Grows(m, StreaksKept(m, base), cap)
  BY <1>1, <1>2, <1>3, <1>4, <1>6 DEF Depth
<1> QED BY <1>5, <1>6

-----------------------------------------------------------------------------
\* choose keeps the invariant: a turn opens with streaks that are proven, and
\* a turn after a failure is not deeper than BaseK.
LEMMA GrowthTurnIInv ==
  ASSUME IInv, NEW m \in (SUBSET Request) \ {{}}, NEW base \in 1..BaseK,
         Turn(m, base)
  PROVE  IInv'
<1> USE GrowthAssumption
<1> DEFINE from == IF Restart(m, base) THEN BaseK ELSE cap
           kept == StreaksKept(m, base)
           grown == IF Grows(m, kept, from) THEN NoStreaks ELSE kept
<1>1. /\ kept \in [Request -> 0..Required]
      /\ Restart(m, base) \/ ~active => kept = NoStreaks
      /\ ~Restart(m, base) /\ active =>
           /\ m = batch /\ depth = cap
           /\ \A r \in m : kept[r] <= ProvenNow(r)
  BY KeptProven
<1>2. NoStreaks \in [Request -> 0..Required]
  BY DEF NoStreaks
<1>3. from \in BaseK..TopK
  BY DEF IInv, TypeOK
<1>4. /\ members' = m /\ rejected' = FALSE /\ batch' = m
      /\ depth' = Depth(m, base)
      /\ fed' = [r \in Request |-> "none"]
  BY DEF Turn, GrowthChoose
<1>7. /\ cap' \in BaseK..TopK /\ depth' \in 0..TopK
      /\ streaks' \in [Request -> 0..Required]
      /\ pending' \subseteq m
      /\ active' \in BOOLEAN
  <2>1. CASE base < BaseK
    <3>1. cap' = from /\ streaks' = kept /\ pending' = {} /\ active' = FALSE
      BY <2>1 DEF Turn, GrowthChoose
    <3>2. depth' = base
      BY <1>4, <2>1 DEF Depth
    <3>3. active' \in BOOLEAN
      BY <3>1, Zenon
    <3> QED BY <1>1, <1>3, <3>1, <3>2, <3>3
  <2>2. CASE ~(base < BaseK)
    <3>1. cap' = Depth(m, base) /\ streaks' = grown /\ pending' = m /\ active' = TRUE
      BY <2>2 DEF Turn, GrowthChoose
    <3>2. Depth(m, base) \in BaseK..TopK
      BY <1>3, <2>2 DEF Depth, Grows
    <3>3. grown \in [Request -> 0..Required]
      BY <1>1, <1>2
    <3>4. active' \in BOOLEAN
      BY <3>1, Zenon
    <3> QED BY <1>4, <3>1, <3>2, <3>3, <3>4
  <2> QED BY <2>1, <2>2
<1>8. ASSUME NEW r \in Request PROVE ProvenNow(r) \in 0..Required
  BY DEF ProvenNow, IInv, TypeOK
<1>9. proven' \in [Request -> 0..Required]
  BY <1>8 DEF Turn
<1>10. TypeOK'
  <2>1. fed' \in [Request -> {"none", "full", "bad"}]
    BY <1>4
  <2>2. rejected' \in BOOLEAN /\ lost' \in BOOLEAN
    BY <1>4, Zenon DEF Turn
  <2> QED BY <1>4, <1>7, <1>9, <2>1, <2>2 DEF TypeOK
<1>11. FailureWithdraws'
  <2> SUFFICES ASSUME lost', depth' > BaseK PROVE FALSE
    BY <1>7 DEF FailureWithdraws
  <2>1. /\ active /\ m = batch /\ m = members /\ base = BaseK
        /\ ~Restart(m, base)
    BY <1>4, DeepenProven
  <2>2. depth > BaseK /\ \E r \in batch : fed[r] # "full"
    BY <2>1 DEF Turn
  <2>3. cap > BaseK /\ pending = {}
    BY <2>1, <2>2 DEF Restart, IInv, EvidenceInv
  <2>4. PICK r \in members : fed[r] # "full"
    BY <2>1, <2>2
  <2>5. MemberInv(r)
    BY <2>1, <2>4 DEF IInv, EvidenceInv
  <2> QED BY <2>3, <2>4, <2>5 DEF MemberInv
<1>12. EvidenceInv'
  <2>1. CASE base < BaseK
    <3>1. Restart(m, base) /\ kept = NoStreaks
      BY <1>1, <2>1 DEF Restart
    <3>2. cap' = BaseK /\ streaks' = NoStreaks /\ pending' = {} /\ active' = FALSE
      BY <2>1, <3>1 DEF Turn, GrowthChoose
    <3>3. ~active'
      BY <3>2, Zenon
    <3> QED BY <3>2, <3>3, Zenon DEF EvidenceInv, NoStreaks
  <2>2. CASE ~(base < BaseK)
    <3>1. cap' = Depth(m, base) /\ streaks' = grown /\ pending' = m /\ active' = TRUE
      BY <2>2 DEF Turn, GrowthChoose
    <3>2. ASSUME NEW r \in m PROVE streaks'[r] <= proven'[r]
      <4>1. r \in Request /\ proven'[r] \in 0..Required
        BY <1>9
      <4>2. CASE streaks' = NoStreaks
        BY <4>1, <4>2 DEF NoStreaks
      <4>3. CASE streaks' # NoStreaks
        <5>1. streaks' = kept /\ ~Grows(m, kept, from) /\ ~Restart(m, base) /\ active
          BY <1>1, <3>1, <4>3
        <5>2. m = batch /\ depth = cap /\ kept[r] <= ProvenNow(r)
          BY <1>1, <5>1
        <5>3. depth' = depth
          BY <1>4, <2>2, <5>1, <5>2 DEF Depth
        <5>4. proven'[r] = ProvenNow(r)
          BY <4>1, <5>2, <5>3 DEF Turn
        <5> QED BY <5>1, <5>2, <5>4
      <4> QED BY <4>2, <4>3
    <3>3. \A r \in m : fed'[r] = "none"
      BY <1>4
    <3>4. \A r \in members' : MemberInv(r)'
      BY <1>4, <3>1, <3>2, <3>3 DEF MemberInv
    <3>5. active'
      BY <3>1, Zenon
    <3>6. depth' = cap' /\ batch' = members'
      BY <1>4, <3>1
    <3> QED BY <3>4, <3>5, <3>6, Zenon DEF EvidenceInv
  <2> QED BY <2>1, <2>2
<1> QED BY <1>10, <1>11, <1>12 DEF IInv

\* observe keeps the invariant: a full observation adds to the streak and to
\* the history alike, and any other one ends the streak.
LEMMA GrowthFeedbackIInv ==
  ASSUME IInv, NEW r \in Request, NEW proposed \in 1..TopK,
         NEW accepted \in 0..proposed, Feedback(r, proposed, accepted)
  PROVE  IInv'
<1> USE GrowthAssumption
<1>1. /\ UNCHANGED <<depth, batch, proven, lost>>
      /\ GrowthObserve(r, proposed, accepted)
      /\ fed' = [fed EXCEPT ![r] =
                   IF @ = "none" /\ proposed = depth /\ accepted = depth
                   THEN "full" ELSE "bad"]
  BY DEF Feedback
<1>2. fed' \in [Request -> {"none", "full", "bad"}]
  BY <1>1 DEF IInv, TypeOK
<1>3. FailureWithdraws'
  BY <1>1 DEF FailureWithdraws, IInv
<1>4. ASSUME NEW q \in Request, q # r, MemberInv(q),
             cap' = cap, pending' = pending \/ pending' = pending \ {r},
             streaks'[q] = streaks[q]
      PROVE  MemberInv(q)'
  <2>1. fed'[q] = fed[q]
    BY <1>1, <1>4 DEF IInv, TypeOK
  <2> QED BY <1>1, <1>4, <2>1 DEF MemberInv, ProvenNow
<1>5. CASE ~active \/ r \notin members
  <2>1. /\ cap' = cap /\ members' = members /\ streaks' = streaks
        /\ pending' = pending /\ active' = active /\ rejected' = rejected
    BY <1>1, <1>5 DEF GrowthObserve, growthVars
  <2>2. TypeOK'
    BY <1>1, <1>2, <2>1 DEF IInv, TypeOK
  <2>3. ASSUME active, NEW q \in members PROVE MemberInv(q)'
    <3>1. q # r /\ q \in Request /\ MemberInv(q)
      BY <1>5, <2>3 DEF IInv, TypeOK, EvidenceInv
    <3> QED BY <1>4, <2>1, <3>1
  <2>4. EvidenceInv'
    BY <1>1, <2>1, <2>3 DEF IInv, EvidenceInv, NoStreaks
  <2> QED BY <1>3, <2>2, <2>4 DEF IInv
<1>6. CASE /\ active /\ r \in members
           /\ ~Clean(r, proposed, accepted) /\ cap > BaseK
  <2>1. /\ cap' = BaseK /\ streaks' = NoStreaks /\ pending' = {}
        /\ active' = FALSE /\ rejected' = TRUE /\ members' = members
    BY <1>1, <1>6 DEF GrowthObserve, Broken
  <2>2. TypeOK'
    <3>1. streaks' \in [Request -> 0..Required]
      BY <2>1 DEF NoStreaks
    <3>2. active' \in BOOLEAN /\ rejected' \in BOOLEAN
      BY <2>1, Zenon
    <3> QED BY <1>1, <1>2, <2>1, <3>1, <3>2 DEF IInv, TypeOK
  <2>3. ~active'
    BY <2>1, Zenon
  <2>4. EvidenceInv'
    BY <2>1, <2>3, Zenon DEF EvidenceInv, NoStreaks
  <2> QED BY <1>3, <2>2, <2>4 DEF IInv
<1>7. CASE /\ active /\ r \in members
           /\ ~Clean(r, proposed, accepted) /\ ~(cap > BaseK)
  <2>1. /\ streaks' = [streaks EXCEPT ![r] = 0] /\ pending' = pending \ {r}
        /\ cap' = cap /\ members' = members
        /\ active' = active /\ rejected' = rejected
    BY <1>1, <1>7 DEF GrowthObserve, Broken
  <2>2. TypeOK'
    <3>1. streaks' \in [Request -> 0..Required]
      BY <2>1 DEF IInv, TypeOK
    <3> QED BY <1>1, <1>2, <2>1, <3>1 DEF IInv, TypeOK
  <2>3. ASSUME NEW q \in members PROVE MemberInv(q)'
    <3>1. q \in Request /\ MemberInv(q)
      BY <1>7 DEF IInv, TypeOK, EvidenceInv
    <3>2. CASE q = r
      BY <1>7, <2>1, <3>1, <3>2 DEF MemberInv, IInv, TypeOK
    <3>3. CASE q # r
      <4>1. streaks'[q] = streaks[q]
        BY <2>1, <3>1, <3>3 DEF IInv, TypeOK
      <4> QED BY <1>4, <2>1, <3>1, <3>3, <4>1
    <3> QED BY <3>2, <3>3
  <2>4. EvidenceInv'
    BY <1>1, <1>7, <2>1, <2>3 DEF IInv, EvidenceInv
  <2> QED BY <1>3, <2>2, <2>4 DEF IInv
<1>8. CASE active /\ r \in members /\ Clean(r, proposed, accepted)
  <2>1. /\ streaks' = [streaks EXCEPT
                         ![r] = IF @ < Required THEN @ + 1 ELSE Required]
        /\ pending' = pending \ {r}
        /\ cap' = cap /\ members' = members
        /\ active' = active /\ rejected' = rejected
    BY <1>1, <1>8 DEF GrowthObserve
  <2>2. TypeOK'
    <3>1. streaks' \in [Request -> 0..Required]
      BY <2>1 DEF IInv, TypeOK
    <3> QED BY <1>1, <1>2, <2>1, <3>1 DEF IInv, TypeOK
  <2>3. ASSUME NEW q \in members PROVE MemberInv(q)'
    <3>1. q \in Request /\ MemberInv(q)
      BY <1>8 DEF IInv, TypeOK, EvidenceInv
    <3>2. CASE q = r
      <4>1. /\ r \in pending /\ fed[r] = "none" /\ streaks[r] <= proven[r]
            /\ proposed = depth /\ accepted = depth /\ r \in batch
        BY <1>8, <3>1, <3>2 DEF Clean, MemberInv, IInv, EvidenceInv
      <4>2. fed'[r] = "full"
        BY <1>1, <4>1 DEF IInv, TypeOK
      <4>3. streaks'[r] <= ProvenNow(r)'
        BY <1>1, <2>1, <4>1, <4>2 DEF ProvenNow, IInv, TypeOK
      <4> QED BY <2>1, <3>2, <4>2, <4>3 DEF MemberInv
    <3>3. CASE q # r
      <4>1. streaks'[q] = streaks[q]
        BY <2>1, <3>1, <3>3 DEF IInv, TypeOK
      <4> QED BY <1>4, <2>1, <3>1, <3>3, <4>1
    <3> QED BY <3>2, <3>3
  <2>4. EvidenceInv'
    BY <1>1, <1>8, <2>1, <2>3 DEF IInv, EvidenceInv
  <2> QED BY <1>3, <2>2, <2>4 DEF IInv
<1> QED BY <1>5, <1>6, <1>7, <1>8

LEMMA GrowthStutterIInv == ASSUME IInv, UNCHANGED vars PROVE IInv'
  BY DEF vars, growthVars, IInv, TypeOK, FailureWithdraws, EvidenceInv,
         MemberInv, ProvenNow, NoStreaks

-----------------------------------------------------------------------------
\* The evidence of SaturationGrowth is never more than the history supports,
\* whatever batches choose() is given and whatever observe() is told.
THEOREM GrowthInvariant == Spec => []IInv
<1>1. IInv /\ [Next]_vars => IInv'
  <2> SUFFICES ASSUME IInv, [Next]_vars PROVE IInv'
    OBVIOUS
  <2>1. CASE \E m \in (SUBSET Request) \ {{}}, base \in 1..BaseK : Turn(m, base)
    BY <2>1, GrowthTurnIInv
  <2>2. CASE Drop
    BY <2>2, GrowthDropIInv
  <2>3. CASE \E r \in Request, proposed \in 1..TopK :
               \E accepted \in 0..proposed : Feedback(r, proposed, accepted)
    BY <2>3, GrowthFeedbackIInv
  <2>4. CASE UNCHANGED vars
    BY <2>4, GrowthStutterIInv
  <2> QED BY <2>1, <2>2, <2>3, <2>4 DEF Next
<1> QED BY <1>1, GrowthInitIInv, PTL DEF Spec

\* The depth stays between BaseK and TopK and the fields keep their types.
THEOREM GrowthTypeCorrect == Spec => []TypeOK
<1>1. IInv => TypeOK
  BY DEF IInv
<1> QED BY <1>1, GrowthInvariant, PTL

\* choose() returns no more than BaseK after a deeper turn that some member
\* did not end with exactly one full acceptance, or whose batch has changed.
THEOREM GrowthFailureWithdraws == Spec => []FailureWithdraws
<1>1. IInv => FailureWithdraws
  BY DEF IInv
<1> QED BY <1>1, GrowthInvariant, PTL

\* choose() deepens one step at a time, and only for a batch each of whose
\* members has just ended Required full turns in a row at the old depth.
THEOREM GrowthIsEarned == Spec => GrowthEarned
<1> DEFINE Earned == depth' > depth /\ depth' > BaseK =>
             /\ batch' = batch /\ depth' = depth + 1
             /\ \A r \in batch : ProvenNow(r) = Required
<1>1. IInv /\ [Next]_vars => [Earned]_vars
  <2> SUFFICES ASSUME IInv, Next, depth' > depth, depth' > BaseK
               PROVE  /\ batch' = batch /\ depth' = depth + 1
                      /\ \A r \in batch : ProvenNow(r) = Required
    OBVIOUS
  <2> USE GrowthAssumption
  <2>1. ASSUME NEW m \in (SUBSET Request) \ {{}}, NEW base \in 1..BaseK,
               Turn(m, base)
        PROVE  /\ batch' = batch /\ depth' = depth + 1
               /\ \A r \in batch : ProvenNow(r) = Required
    <3>1. batch' = m /\ depth' = Depth(m, base)
      BY <2>1 DEF Turn
    <3>2. depth' # depth
      BY DEF IInv, TypeOK
    <3>3. Depth(m, base) > BaseK
      BY <3>1
    <3>4. /\ m = batch
          /\ \/ Depth(m, base) = depth
             \/ /\ Depth(m, base) = depth + 1
                /\ \A r \in batch : ProvenNow(r) = Required
      BY <3>3, DeepenProven
    <3> QED BY <3>1, <3>2, <3>4, Zenon
  <2>2. ~Drop
    BY DEF Drop
  <2>3. ASSUME NEW r \in Request, NEW proposed \in 1..TopK,
               NEW accepted \in 0..proposed, Feedback(r, proposed, accepted)
        PROVE  FALSE
    BY <2>3 DEF Feedback, IInv, TypeOK
  <2> QED BY <2>1, <2>2, <2>3 DEF Next
<1> QED BY <1>1, GrowthInvariant, PTL DEF Spec, GrowthEarned

-----------------------------------------------------------------------------
(***************************************************************************)
(* The growth policy in the bridge.                                        *)
(***************************************************************************)

\* A batch that is to stay is there.
BatchInv == batch_of \subseteq Request /\ (steady => batch_of # {})

LEMMA BatchesAre == ASSUME BatchInv PROVE Batches \subseteq (SUBSET Request) \ {{}}
  BY BridgeAssumption DEF BatchInv, Batches

LEMMA BatchKept == ASSUME BatchInv, [BridgeNext]_allVars PROVE BatchInv'
<1> USE DEF bridgeVars, emaVars
<1>1. CASE UNCHANGED allVars
  BY <1>1 DEF allVars, BatchInv
<1>2. CASE Tick \/ Edit
  BY <1>2 DEF Tick, Edit, BatchInv
<1>3. CASE BeSteady
  BY <1>3 DEF BeSteady, BatchInv
<1>4. CASE Due \/ PollEnds \/ Finish
  BY <1>4 DEF Due, PollEnds, Finish, BatchInv
<1>5. CASE Poll
  BY <1>5 DEF Poll, Configured, EmaReconfigure, BatchInv
<1>6. ASSUME NEW gone \in SUBSET Request, NEW evicted \in SUBSET Request, Retain(gone, evicted)
      PROVE  BatchInv'
  BY <1>6 DEF Retain, EmaForget, BatchInv
<1>7. ASSUME NEW m \in Batches, ChooseFull(m) PROVE BatchInv'
  BY <1>7 DEF ChooseFull, BatchInv
<1>8. ASSUME NEW m \in Batches, NEW base \in 1..BaseK, Choose(m, base) PROVE BatchInv'
  <2>1. m \in (SUBSET Request) \ {{}} /\ steady' = steady
    BY <1>8, BatchesAre DEF Choose
  <2>2. batch_of' = batch_of \/ batch_of' = m
    BY <1>8 DEF Choose, EmaChoose, ForcedChoose
  <2> QED BY <2>1, <2>2 DEF BatchInv
<1>9. ASSUME NEW r \in Request, NEW proposed \in 1..MaxK, NEW accepted \in 0..proposed,
             Observe(r, proposed, accepted)
      PROVE  BatchInv'
  BY <1>9 DEF Observe, EmaObserve, BatchInv
<1>10. ASSUME NEW r \in Request, Stale(r) PROVE BatchInv'
  BY <1>10 DEF Stale, EmaForget, BatchInv
<1> QED
  BY <1>1, <1>2, <1>3, <1>4, <1>5, <1>6, <1>7, <1>8, <1>9, <1>10 DEF BridgeNext, Engine

\* A step of the bridge is one of OpenGrowth, or leaves the growth policy alone.
LEMMA StepGrows == ASSUME BatchInv, [BridgeNext]_allVars PROVE [Next]_vars
<1> USE DEF growthSide, vars
<1>1. CASE UNCHANGED allVars
  BY <1>1, Zenon DEF allVars
<1>2. CASE Tick \/ Edit \/ BeSteady
  BY <1>2, Zenon DEF Tick, Edit, BeSteady
<1>3. CASE Due \/ PollEnds \/ Finish
  BY <1>3, Zenon DEF Due, PollEnds, Finish
<1>4. CASE Poll
  BY <1>4, Zenon DEF Poll, Configured, Next
<1>5. ASSUME NEW gone \in SUBSET Request, NEW evicted \in SUBSET Request, Retain(gone, evicted)
      PROVE  [Next]_vars
  BY <1>5, Zenon DEF Retain, Next
<1>6. ASSUME NEW m \in Batches, ChooseFull(m) PROVE [Next]_vars
  BY <1>6, Zenon DEF ChooseFull, Next
<1>7. ASSUME NEW m \in Batches, NEW base \in 1..BaseK, Choose(m, base) PROVE [Next]_vars
  <2>1. UNCHANGED growthSide \/ Turn(m, base)
    BY <1>7, Zenon DEF Choose
  <2>2. m \in (SUBSET Request) \ {{}}
    BY BatchesAre
  <2> QED BY <2>1, <2>2, Zenon DEF Next
<1>8. ASSUME NEW r \in Request, NEW proposed \in 1..MaxK, NEW accepted \in 0..proposed,
             Observe(r, proposed, accepted)
      PROVE  [Next]_vars
  <2>1. proposed \in 1..TopK
    BY BridgeAssumption
  <2> QED BY <1>8, <2>1, Zenon DEF Observe, Next
<1>9. ASSUME NEW r \in Request, Stale(r) PROVE [Next]_vars
  BY <1>9, Zenon DEF Stale, Next
<1> QED BY <1>1, <1>2, <1>3, <1>4, <1>5, <1>6, <1>7, <1>8, <1>9, Zenon DEF BridgeNext, Engine

\* The bridge implements OpenGrowth: whatever it does between two calls of the
\* growth policy, the policy's state is only touched by choose, observe,
\* discard and configure, as OpenGrowth has them.
THEOREM BridgeImplementsGrowth == BridgeSpec => Spec
<1>1. BridgeInit => BatchInv /\ Init
  BY Zenon DEF BridgeInit, EmaInit, BatchInv
<1>2. BatchInv /\ [BridgeNext]_allVars => BatchInv' /\ [Next]_vars
  BY BatchKept, StepGrows
<1> QED BY <1>1, <1>2, PTL DEF BridgeSpec, Spec

\* The growth policy keeps its types inside the bridge.
THEOREM PolicyTypeOK == BridgeSpec => []TypeOK
  BY BridgeImplementsGrowth, GrowthTypeCorrect, PTL

\* After a deeper turn that failed, the bridge's next saturation turn is not
\* deeper than BaseK ("A failed larger-K probe returns to K4 immediately").
THEOREM PolicyFailureWithdraws == BridgeSpec => []FailureWithdraws
  BY BridgeImplementsGrowth, GrowthFailureWithdraws, PTL

\* Depth beyond BaseK is earned by the very batch that is verified.
THEOREM PolicyGrowthEarned == BridgeSpec => GrowthEarned
  BY BridgeImplementsGrowth, GrowthIsEarned, PTL

-----------------------------------------------------------------------------
(* The override file. *)

Contents == Content \cup {Torn, FirstContent}
FileRecord == [stamp : Nat, content : Contents]

\* No two files, and no two states of one file, have the same stamp: a stamp
\* names the content of one write.
FilesInv ==
  /\ written \in Seq(Contents) /\ inode \in Seq(FileRecord)
  /\ path \in 0..Len(inode) /\ hidden \in 0..Len(inode)
  /\ \A i \in 1..Len(inode) :
       /\ inode[i].stamp \in 1..Writes
       /\ inode[i].content = written[inode[i].stamp]

\* The settings in force are those of the remembered stamp.
InForceInv ==
  /\ stamp \in 0..Writes
  /\ stamp # 0 => /\ Valid(written[stamp])
                  /\ mode = written[stamp].mode /\ prefill_cap = written[stamp].cap

\* What has been read belongs to the stamp that was seen before, as soon as the
\* stamp after reading is the same.
ReaderInv ==
  /\ reader \in {"idle", "stat", "open", "read", "fstat", "path", "commit", "done"}
  /\ opened \in 0..Len(inode) /\ before \in 0..Writes
  /\ reader \in {"read", "fstat", "path", "commit"} => opened # 0 /\ before # 0
  /\ reader = "fstat" /\ inode[opened].stamp = before => raw = written[before]
  /\ reader \in {"path", "commit"} => raw = written[before]

\* During a poll, what the path leads to has been met.
MetInv == reader # "idle" /\ path # 0 => inode[path].content \in met

OverrideInv == FilesInv /\ InForceInv /\ ReaderInv /\ MetInv /\ PollReadsTheFile

LEMMA OverrideStarts == BridgeInit => OverrideInv
<1> SUFFICES ASSUME BridgeInit PROVE OverrideInv
  OBVIOUS
<1>1. /\ written = <<FirstContent>>
      /\ inode = <<[stamp |-> 1, content |-> FirstContent]>>
      /\ path = 1 /\ hidden = 0 /\ stamp = 0
      /\ reader = "idle" /\ opened = 0 /\ before = 0
  BY DEF BridgeInit, OverrideInit
<1>2. FilesInv
  <2>1. FirstContent \in Contents /\ [stamp |-> 1, content |-> FirstContent] \in FileRecord
    BY DEF Contents, FileRecord
  <2> QED BY <1>1, <2>1 DEF FilesInv, Writes
<1>3. InForceInv /\ ReaderInv
  BY <1>1 DEF InForceInv, ReaderInv, Writes
<1>4. MetInv /\ PollReadsTheFile
  BY <1>1 DEF MetInv, PollReadsTheFile
<1> QED BY <1>2, <1>3, <1>4 DEF OverrideInv

\* What the invariant needs to know of a change of the file: the writes are
\* only added to, the inodes keep their stamps or get a new one.
LEMMA WriteKeeps ==
  ASSUME OverrideInv, UNCHANGED <<inForceVars, readVars>>,
         FilesInv', MetInv', met \subseteq met' \/ reader = "idle",
         Writes <= Writes',
         \A n \in 1..Writes : written'[n] = written[n],
         Len(inode) <= Len(inode'),
         \A i \in 1..Len(inode) :
           inode'[i] = inode[i] \/ inode'[i].stamp > Writes
  PROVE  OverrideInv'
<1>0. Writes \in Nat /\ Writes' \in Nat /\ Len(inode) \in Nat /\ Len(inode') \in Nat
  BY DEF OverrideInv, FilesInv, Writes
<1>1. InForceInv'
  <2>1. UNCHANGED <<stamp, mode, prefill_cap>> /\ stamp \in 0..Writes
    BY DEF inForceVars, OverrideInv, InForceInv
  <2>2. stamp # 0 => written'[stamp] = written[stamp]
    BY <1>0, <2>1
  <2> QED BY <1>0, <2>1, <2>2 DEF OverrideInv, InForceInv, Valid
<1>2. ReaderInv'
  <2>1. UNCHANGED <<reader, opened, before, raw>>
    BY DEF readVars
  <2>2. opened \in 0..Len(inode) /\ before \in 0..Writes
    BY DEF OverrideInv, ReaderInv
  <2>3. before # 0 => written'[before] = written[before]
    BY <1>0, <2>2
  <2>4. opened # 0 /\ inode'[opened].stamp = before => inode[opened].stamp = before
    BY <1>0, <2>2
  <2> QED BY <1>0, <2>1, <2>2, <2>3, <2>4 DEF OverrideInv, ReaderInv
<1>3. PollReadsTheFile'
  BY DEF inForceVars, readVars, OverrideInv, PollReadsTheFile, InForce
<1> QED BY <1>1, <1>2, <1>3 DEF OverrideInv

LEMMA EditKeeps == ASSUME OverrideInv, Write PROVE OverrideInv'
<1>0. /\ written \in Seq(Contents) /\ inode \in Seq(FileRecord)
      /\ path \in 0..Len(inode) /\ hidden \in 0..Len(inode)
      /\ Writes \in Nat /\ Len(inode) \in Nat
      /\ \A i \in 1..Len(inode) :
           /\ inode[i].stamp \in 1..Writes
           /\ inode[i].content = written[inode[i].stamp]
  BY DEF OverrideInv, FilesInv, Writes
<1>1. ASSUME NEW c \in Contents, Replace(c) PROVE OverrideInv'
  <2> DEFINE f == [stamp |-> Writes + 1, content |-> c]
  <2>1. f \in FileRecord
    BY <1>0 DEF FileRecord
  <2>2. /\ inode' = Append(inode, f) /\ written' = Append(written, c)
        /\ path' = Len(inode) + 1 /\ hidden' = hidden
        /\ UNCHANGED <<inForceVars, readVars>>
        /\ met' = IF reader = "idle" THEN {} ELSE met \cup {c}
    BY <1>1 DEF Replace, Lead
  <2>3. /\ inode' \in Seq(FileRecord) /\ Len(inode') = Len(inode) + 1
        /\ inode'[Len(inode) + 1] = f
        /\ \A i \in 1..Len(inode) : inode'[i] = inode[i]
    BY <1>0, <2>1, <2>2
  <2>4. /\ written' \in Seq(Contents) /\ Writes' = Writes + 1
        /\ written'[Writes + 1] = c
        /\ \A n \in 1..Writes : written'[n] = written[n]
    BY <1>0, <2>2 DEF Writes
  <2>5. FilesInv'
    <3>1. \A i \in 1..Len(inode') :
            /\ inode'[i].stamp \in 1..Writes'
            /\ inode'[i].content = written'[inode'[i].stamp]
      <4> SUFFICES ASSUME NEW i \in 1..Len(inode')
                   PROVE  /\ inode'[i].stamp \in 1..Writes'
                          /\ inode'[i].content = written'[inode'[i].stamp]
        OBVIOUS
      <4>1. CASE i = Len(inode) + 1
        BY <1>0, <2>3, <2>4, <4>1
      <4>2. CASE i \in 1..Len(inode)
        <5>1. inode'[i] = inode[i]
          BY <2>3, <4>2
        <5>2. /\ inode[i].stamp \in 1..Writes
              /\ inode[i].content = written[inode[i].stamp]
          BY <1>0, <4>2
        <5>3. written'[inode[i].stamp] = written[inode[i].stamp]
          BY <2>4, <5>2
        <5> HIDE DEF f
        <5> QED BY <1>0, <2>4, <5>1, <5>2, <5>3
      <4> QED BY <1>0, <2>3, <4>1, <4>2
    <3>2. path' \in 0..Len(inode') /\ hidden' \in 0..Len(inode')
      BY <1>0, <2>2, <2>3
    <3> QED BY <2>3, <2>4, <3>1, <3>2 DEF FilesInv
  <2>6. MetInv'
    BY <1>0, <2>2, <2>3 DEF MetInv, readVars
  <2>7. /\ met \subseteq met' \/ reader = "idle"
        /\ Writes <= Writes' /\ Len(inode) <= Len(inode')
    BY <1>0, <2>2, <2>3, <2>4
  <2> HIDE DEF f
  <2> QED BY <2>2, <2>3, <2>4, <2>5, <2>6, <2>7, WriteKeeps
<1>2. ASSUME NEW c \in Contents, Rewrite(c) PROVE OverrideInv'
  <2> DEFINE f == [stamp |-> Writes + 1, content |-> c]
  <2>1. f \in FileRecord
    BY <1>0 DEF FileRecord
  <2>2. /\ path \in 1..Len(inode)
        /\ inode' = [inode EXCEPT ![path] = f] /\ written' = Append(written, c)
        /\ path' = path /\ hidden' = hidden
        /\ UNCHANGED <<inForceVars, readVars>>
        /\ met' = IF reader = "idle" THEN {} ELSE met \cup {c}
    BY <1>0, <1>2 DEF Rewrite, Lead
  <2>3. /\ inode' \in Seq(FileRecord) /\ Len(inode') = Len(inode)
        /\ inode'[path] = f
        /\ \A i \in 1..Len(inode) : i # path => inode'[i] = inode[i]
    BY <1>0, <2>1, <2>2
  <2>4. /\ written' \in Seq(Contents) /\ Writes' = Writes + 1
        /\ written'[Writes + 1] = c
        /\ \A n \in 1..Writes : written'[n] = written[n]
    BY <1>0, <2>2 DEF Writes
  <2>5. FilesInv'
    <3>1. \A i \in 1..Len(inode') :
            /\ inode'[i].stamp \in 1..Writes'
            /\ inode'[i].content = written'[inode'[i].stamp]
      <4> SUFFICES ASSUME NEW i \in 1..Len(inode)
                   PROVE  /\ inode'[i].stamp \in 1..Writes'
                          /\ inode'[i].content = written'[inode'[i].stamp]
        BY <2>3
      <4>1. CASE i = path
        BY <1>0, <2>3, <2>4, <4>1
      <4>2. CASE i # path
        BY <1>0, <2>3, <2>4, <4>2
      <4> QED BY <4>1, <4>2
    <3> QED BY <1>0, <2>2, <2>3, <2>4, <3>1 DEF FilesInv
  <2>6. MetInv'
    BY <1>0, <2>2, <2>3 DEF MetInv, readVars
  <2>7. \A i \in 1..Len(inode) : inode'[i] = inode[i] \/ inode'[i].stamp > Writes
    BY <1>0, <2>3
  <2>8. /\ met \subseteq met' \/ reader = "idle"
        /\ Writes <= Writes' /\ Len(inode) <= Len(inode')
    BY <1>0, <2>2, <2>3, <2>4
  <2> HIDE DEF f
  <2> QED BY <2>2, <2>4, <2>5, <2>6, <2>7, <2>8, WriteKeeps
<1>3. ASSUME NEW i \in 0..Len(inode), UNCHANGED <<inode, written, inForceVars, readVars>>,
             path' = i, hidden' \in 0..Len(inode),
             met' = IF reader = "idle" THEN {} ELSE met \cup Found(i)
      PROVE  OverrideInv'
  <2>1. FilesInv'
    BY <1>0, <1>3 DEF FilesInv, Writes
  <2>2. MetInv'
    BY <1>0, <1>3 DEF MetInv, readVars, Found
  <2>3. Writes' = Writes
    BY <1>3 DEF Writes
  <2> QED BY <1>0, <1>3, <2>1, <2>2, <2>3, WriteKeeps
<1>4. CASE Vanish
  <2>1. Found(0) = {}
    BY DEF Found
  <2> QED BY <1>0, <1>3, <1>4, <2>1 DEF Vanish, Lead
<1>5. CASE Reappear
  BY <1>0, <1>3, <1>5 DEF Reappear, Lead
<1> QED BY <1>1, <1>2, <1>4, <1>5 DEF Write, Contents

\* A poll that ends changes what is in force, and what it leaves is off, or the
\* file that the path has led to.
LEMMA PollEndsWell ==
  ASSUME OverrideInv, UNCHANGED <<fileVars, opened, before, raw, met>>,
         reader # "idle", reader' = "done",
         InForceInv',
         \/ InForce' = Off
         \/ \E c \in met : Valid(c) /\ InForce' = [mode |-> c.mode, cap |-> c.cap]
  PROVE  OverrideInv'
<1>1. FilesInv'
  BY DEF OverrideInv, FilesInv, fileVars, Writes
<1>2. ReaderInv'
  BY DEF OverrideInv, ReaderInv, fileVars, Writes
<1>3. MetInv'
  BY DEF OverrideInv, MetInv, fileVars
<1>4. PollReadsTheFile'
  BY DEF PollReadsTheFile
<1> QED BY <1>1, <1>2, <1>3, <1>4 DEF OverrideInv

LEMMA FailKeeps ==
  ASSUME OverrideInv, PollFails, reader # "idle", UNCHANGED <<fileVars, met>>
  PROVE  OverrideInv'
<1>1. stamp' = 0 /\ InForce' = Off /\ reader' = "done" /\ UNCHANGED <<opened, before, raw>>
  BY DEF PollFails, Forgotten, Withdrawn, InForce, Off
<1>2. Writes' \in Nat
  BY DEF OverrideInv, FilesInv, fileVars, Writes
<1>3. InForceInv'
  BY <1>1, <1>2 DEF InForceInv
<1> QED BY <1>1, <1>3, PollEndsWell

\* A system call of a poll that goes on.
LEMMA CallKeeps ==
  ASSUME OverrideInv, UNCHANGED <<fileVars, inForceVars>>, ReaderInv', MetInv',
         reader' # "done"
  PROVE  OverrideInv'
<1>1. FilesInv'
  BY DEF OverrideInv, FilesInv, fileVars, Writes
<1>2. InForceInv'
  BY DEF OverrideInv, InForceInv, fileVars, inForceVars, Writes
<1> QED BY <1>1, <1>2 DEF OverrideInv, PollReadsTheFile

LEMMA PollKeeps == ASSUME OverrideInv, PollStep PROVE OverrideInv'
<1>0. /\ path \in 0..Len(inode) /\ Len(inode) \in Nat /\ Writes \in Nat
      /\ opened \in 0..Len(inode) /\ before \in 0..Writes /\ stamp \in 0..Writes
      /\ \A i \in 1..Len(inode) :
           /\ inode[i].stamp \in 1..Writes
           /\ inode[i].content = written[inode[i].stamp]
  BY DEF OverrideInv, FilesInv, InForceInv, ReaderInv, Writes
<1>1. CASE PollFails /\ reader # "idle" /\ UNCHANGED <<fileVars, met>>
  BY <1>1, FailKeeps
<1>2. ASSUME reader = "stat", path # 0, UNCHANGED <<fileVars, met>>,
             reader' = IF inode[path].stamp = stamp THEN "done" ELSE "open",
             UNCHANGED <<inForceVars, opened, before, raw>>
      PROVE  OverrideInv'
  <2>1. CASE inode[path].stamp = stamp
    <3>1. stamp # 0 /\ inode[path].content = written[stamp]
      BY <1>0, <1>2, <2>1
    <3>2. inode[path].content \in met
      BY <1>2 DEF OverrideInv, MetInv
    <3>3. /\ Valid(written[stamp])
          /\ InForce = [mode |-> written[stamp].mode, cap |-> written[stamp].cap]
      BY <3>1 DEF OverrideInv, InForceInv, InForce
    <3>4. InForce' = InForce /\ InForceInv'
      BY <1>2 DEF inForceVars, InForce, OverrideInv, InForceInv, fileVars, Writes
    <3> QED BY <1>2, <2>1, <3>1, <3>2, <3>3, <3>4, PollEndsWell
  <2>2. CASE inode[path].stamp # stamp
    <3>1. ReaderInv' /\ MetInv'
      BY <1>2, <2>2 DEF OverrideInv, ReaderInv, MetInv, fileVars, Writes
    <3> QED BY <1>2, <2>2, <3>1, CallKeeps
  <2> QED BY <2>1, <2>2
<1>3. ASSUME reader = "open", path # 0, UNCHANGED <<fileVars, met, inForceVars, raw>>,
             opened' = path, before' = inode[path].stamp, reader' = "read"
      PROVE  OverrideInv'
  <2>1. inode[path].stamp \in 1..Writes
    BY <1>0, <1>3
  <2>2. ReaderInv' /\ MetInv'
    BY <1>0, <1>3, <2>1 DEF OverrideInv, ReaderInv, MetInv, fileVars, Writes
  <2> QED BY <1>3, <2>2, CallKeeps
<1>4. CASE Read
  <2>1. opened \in 1..Len(inode) /\ before # 0
    BY <1>0, <1>4 DEF Read, OverrideInv, ReaderInv
  <2>2. inode[opened].stamp = before => raw' = written[before]
    BY <1>0, <1>4, <2>1 DEF Read
  <2>3. ReaderInv' /\ MetInv'
    BY <1>0, <1>4, <2>1, <2>2 DEF Read, OverrideInv, ReaderInv, MetInv, fileVars, Writes
  <2> QED BY <1>4, <2>3, CallKeeps DEF Read
<1>5. ASSUME reader = "fstat", SameFile(opened), reader' = "path",
             UNCHANGED <<fileVars, met, inForceVars, opened, before, raw>>
      PROVE  OverrideInv'
  <2>1. ReaderInv' /\ MetInv'
    BY <1>5 DEF SameFile, OverrideInv, ReaderInv, MetInv, fileVars, Writes
  <2> QED BY <1>5, <2>1, CallKeeps
<1>6. ASSUME reader = "path", reader' = "commit",
             UNCHANGED <<fileVars, met, inForceVars, opened, before, raw>>
      PROVE  OverrideInv'
  <2>1. ReaderInv' /\ MetInv'
    BY <1>6 DEF OverrideInv, ReaderInv, MetInv, fileVars, Writes
  <2> QED BY <1>6, <2>1, CallKeeps
<1>7. ASSUME reader = "commit", Valid(raw), SameFile(path), reader' = "done",
             mode' = raw.mode, prefill_cap' = raw.cap, stamp' = before,
             UNCHANGED <<fileVars, met, opened, before, raw>>
      PROVE  OverrideInv'
  <2>1. raw = written[before] /\ before # 0
    BY <1>7 DEF OverrideInv, ReaderInv
  <2>2. inode[path].content = raw /\ path # 0
    BY <1>0, <1>7, <2>1 DEF SameFile
  <2>3. raw \in met
    BY <1>7, <2>2 DEF OverrideInv, MetInv
  <2>4. InForce' = [mode |-> raw.mode, cap |-> raw.cap]
    BY <1>7 DEF InForce
  <2>5. InForceInv'
    BY <1>0, <1>7, <2>1 DEF InForceInv, fileVars, Writes
  <2> QED BY <1>7, <2>3, <2>4, <2>5, PollEndsWell
<1> QED
  BY <1>1, <1>2, <1>3, <1>4, <1>5, <1>6, <1>7
  DEF PollStep, Stat, Open, Fstat, StatPath, Commit

LEMMA OverrideKept == ASSUME OverrideInv, [BridgeNext]_allVars PROVE OverrideInv'
<1> USE DEF overrideVars, fileVars, inForceVars, readVars
<1>1. CASE UNCHANGED overrideVars
  BY <1>1 DEF OverrideInv, FilesInv, InForceInv, ReaderInv, MetInv, PollReadsTheFile, InForce, Writes
<1>2. CASE Edit
  BY <1>2, EditKeeps DEF Edit
<1>3. CASE Due
  <2>1. ReaderInv' /\ MetInv'
    BY <1>3 DEF Due, PollStarts, Found, OverrideInv, ReaderInv, MetInv, Writes
  <2> QED BY <1>3, <2>1, CallKeeps DEF Due, PollStarts
<1>4. CASE Poll
  BY <1>4, PollKeeps DEF Poll
<1>5. CASE PollEnds
  <2>1. Writes \in Nat /\ Len(inode) \in Nat
    BY DEF OverrideInv, FilesInv, Writes
  <2>2. ReaderInv' /\ MetInv'
    BY <1>5, <2>1 DEF PollEnds, PollReturns, ReaderInv, MetInv, Writes
  <2> QED BY <1>5, <2>2, CallKeeps DEF PollEnds, PollReturns
<1>6. CASE Tick \/ BeSteady \/ Finish
  BY <1>1, <1>6 DEF Tick, BeSteady, Finish
<1>7. CASE \E gone, evicted \in SUBSET Request : Retain(gone, evicted)
  BY <1>1, <1>7 DEF Retain
<1>8. CASE \E m \in Batches : ChooseFull(m)
  BY <1>1, <1>8 DEF ChooseFull
<1>9. CASE \E m \in Batches, base \in 1..BaseK : Choose(m, base)
  BY <1>1, <1>9 DEF Choose
<1>10. CASE \E r \in Request, proposed \in 1..MaxK :
              \E accepted \in 0..proposed : Observe(r, proposed, accepted)
  BY <1>1, <1>10 DEF Observe
<1>11. CASE \E r \in Request : Stale(r)
  BY <1>1, <1>11 DEF Stale
<1>12. CASE UNCHANGED allVars
  BY <1>1, <1>12 DEF allVars
<1> QED
  BY <1>2, <1>3, <1>4, <1>5, <1>6, <1>7, <1>8, <1>9, <1>10, <1>11, <1>12, Zenon
  DEF BridgeNext, Engine

LEMMA OverrideInvariant == BridgeSpec => []OverrideInv
<1>1. OverrideInv /\ [BridgeNext]_allVars => OverrideInv'
  BY OverrideKept
<1> QED BY <1>1, OverrideStarts, PTL DEF BridgeSpec

\* Whoever replaces, rewrites, removes or puts back the override file while it
\* is read, and however often: what a poll leaves in force is off, or one whole
\* valid file that the path led to during the poll ("a missing/truncated file
\* cannot leave an old experimental mode on").
THEOREM PollsReadTheFile == BridgeSpec => []PollReadsTheFile
<1>1. OverrideInv => PollReadsTheFile
  BY DEF OverrideInv
<1> QED BY <1>1, OverrideInvariant, PTL

\* The remembered stamp is that of the settings in force, so the early return
\* of refresh on an unchanged stamp keeps the settings of that very file.
THEOREM StampsTellSettings == BridgeSpec => []StampTellsSettings
<1>1. OverrideInv => StampTellsSettings
  BY DEF OverrideInv, InForceInv, StampTellsSettings, InForce
<1> QED BY <1>1, OverrideInvariant, PTL

-----------------------------------------------------------------------------
(* The depth of mode ema. *)

\* pending_count counts no more decisions than have agreed on pending_k.
CountInv ==
  /\ agreed = [k |-> agreed.k, n |-> agreed.n] /\ agreed.n \in 0..Confirm
  /\ pending_count \in 0..(Confirm - 1)
  /\ pending_count > 0 => agreed.k = pending_k /\ agreed.n >= pending_count

LEMMA MinOfTwo ==
  ASSUME NEW a \in Nat, NEW b \in Nat
  PROVE  Min({a, b}) = IF a <= b THEN a ELSE b
<1>1. /\ Min({a, b}) \in {a, b}
      /\ \A y \in {a, b} : Min({a, b}) <= y
  <2>1. \E x \in {a, b} : \A y \in {a, b} : x <= y
    <3>1. CASE a <= b
      BY <3>1
    <3>2. CASE ~(a <= b)
      BY <3>2
    <3> QED BY <3>1, <3>2
  <2> QED BY <2>1 DEF Min
<1> QED BY <1>1

\* What a step may do to the depth and what it must have agreed on for that.
DepthStep ==
  /\ CountInv'
  /\ current_k' # current_k =>
       \/ batch_of' # batch_of \/ mode' # mode
       \/ agreed' = [k |-> current_k', n |-> Confirm]

\* A decision in mode ema.
LEMMA EmaDecides ==
  ASSUME CountInv, NEW m, EmaChoose(m), agreed' = Agreed(m)
  PROVE  DepthStep
<1> DEFINE want == Desired(m)
           current == IF StartOver(m) THEN MaxK ELSE current_k
           pend == IF StartOver(m) THEN MaxK ELSE pending_k
           count == IF StartOver(m) THEN 0 ELSE pending_count
<1>0. Confirm \in Nat \ {0}
  BY EmaAssumption
<1>1. CASE ~Decides(m)
  <2>1. /\ current_k' = current /\ pending_k' = pend /\ pending_count' = count
        /\ batch_of' = m
        /\ agreed' = IF StartOver(m) THEN [k |-> MaxK, n |-> 0] ELSE agreed
    BY <1>1 DEF EmaChoose, Agreed
  <2>2. CASE StartOver(m)
    BY <1>0, <2>1, <2>2 DEF CountInv, DepthStep, StartOver
  <2>3. CASE ~StartOver(m)
    BY <2>1, <2>3 DEF CountInv, DepthStep
  <2> QED BY <2>2, <2>3
<1>2. CASE Decides(m)
  <2>1. /\ batch_of' = m
        /\ Settle(want, current, pend, count)
        /\ agreed' = IF ~StartOver(m) /\ want = agreed.k
                     THEN [agreed EXCEPT !.n = Min({@ + 1, Confirm})]
                     ELSE [k |-> want, n |-> 1]
    BY <1>2 DEF EmaChoose, Agreed
  <2>2. agreed.n \in 0..Confirm /\ pending_count \in 0..(Confirm - 1)
    BY DEF CountInv
  <2>3. Min({agreed.n + 1, Confirm}) = IF agreed.n + 1 <= Confirm THEN agreed.n + 1 ELSE Confirm
    BY <1>0, <2>2, MinOfTwo
  <2>4. /\ agreed'.k = want /\ agreed' = [k |-> want, n |-> agreed'.n]
        /\ agreed'.n \in 1..Confirm
        /\ ~StartOver(m) /\ want = agreed.k =>
             agreed'.n = IF agreed.n + 1 <= Confirm THEN agreed.n + 1 ELSE Confirm
    <3>1. agreed = [k |-> agreed.k, n |-> agreed.n]
      BY DEF CountInv
    <3> HIDE DEF want
    <3>2. CASE ~StartOver(m) /\ want = agreed.k
      BY <1>0, <2>1, <2>2, <2>3, <3>1, <3>2
    <3>3. CASE ~(~StartOver(m) /\ want = agreed.k)
      BY <1>0, <2>1, <3>3
    <3> QED BY <3>2, <3>3
  <2>5. CASE StartOver(m)
    <3>1. count = 0 /\ batch_of' # batch_of
      BY <2>1, <2>5 DEF StartOver
    <3>2. pending_count' \in 0..(Confirm - 1) /\ pending_count' <= 1
      BY <1>0, <2>1, <3>1 DEF Settle, Agreements
    <3>3. pending_count' > 0 => pending_k' = want
      BY <1>0, <2>1, <3>1 DEF Settle, Agreements
    <3> HIDE DEF want, count
    <3> QED BY <1>0, <2>4, <3>1, <3>2, <3>3 DEF CountInv, DepthStep
  <2>6. CASE ~StartOver(m)
    <3>1. CASE want = current_k
      <4>1. current_k' = current_k /\ pending_count' = 0
        BY <1>0, <2>1, <2>6, <3>1 DEF Settle, Agreements
      <4> HIDE DEF want
      <4> QED BY <1>0, <2>4, <4>1 DEF CountInv, DepthStep
    <3>2. CASE want # current_k
      <4> DEFINE n == IF want = pending_k THEN pending_count + 1 ELSE 1
      <4>1. /\ pending_k' = want
            /\ current_k' = IF n >= Confirm THEN want ELSE current_k
            /\ pending_count' = IF n >= Confirm THEN 0 ELSE n
        BY <2>1, <2>6, <3>2 DEF Settle, Agreements
      <4>2. n \in 1..Confirm
        BY <1>0, <2>2
      <4>3. agreed'.n >= n
        <5>1. CASE want = pending_k /\ pending_count > 0
          <6>1. want = agreed.k /\ agreed.n >= pending_count
            BY <5>1 DEF CountInv
          <6> QED BY <1>0, <2>2, <2>4, <2>6, <5>1, <6>1
        <5>2. CASE ~(want = pending_k /\ pending_count > 0)
          BY <2>2, <2>4, <5>2
        <5> QED BY <5>1, <5>2
      <4> HIDE DEF want, n
      <4>4. n >= Confirm => agreed' = [k |-> want, n |-> Confirm]
        <5>1. n >= Confirm => agreed'.n = Confirm
          BY <1>0, <2>4, <4>2, <4>3
        <5> QED BY <2>4, <5>1
      <4>5. CountInv'
        BY <1>0, <2>4, <4>1, <4>2, <4>3 DEF CountInv
      <4> QED BY <4>1, <4>4, <4>5 DEF DepthStep
    <3> QED BY <3>1, <3>2
  <2> QED BY <2>5, <2>6
<1> QED BY <1>1, <1>2

LEMMA DepthKept == ASSUME CountInv, [BridgeNext]_allVars PROVE DepthStep
<1> USE DEF emaVars, bridgeVars
<1>0. Confirm \in Nat \ {0}
  BY EmaAssumption
<1>1. CASE UNCHANGED <<current_k, pending_k, pending_count, agreed>>
  BY <1>1 DEF CountInv, DepthStep
<1>2. CASE /\ pending_count' = 0 /\ agreed' = [k |-> MaxK, n |-> 0]
           /\ batch_of' # batch_of \/ mode' # mode
  BY <1>0, <1>2 DEF CountInv, DepthStep
<1>3. CASE Poll
  BY <1>1, <1>2, <1>3 DEF Poll, Configured, EmaReconfigure
<1>4. CASE \E m \in Batches, base \in 1..BaseK : Choose(m, base)
  <2>1. PICK m \in Batches, base \in 1..BaseK : Choose(m, base)
    BY <1>4
  <2>2. \/ UNCHANGED <<emaVars, agreed>>
        \/ ForcedChoose(m) /\ agreed' = IF StartOver(m) THEN [k |-> MaxK, n |-> 0] ELSE agreed
        \/ EmaChoose(m) /\ agreed' = Agreed(m)
    BY <2>1, Zenon DEF Choose
  <2>3. CASE UNCHANGED <<emaVars, agreed>>
    BY <1>1, <2>3
  <2>4. CASE ForcedChoose(m) /\ agreed' = IF StartOver(m) THEN [k |-> MaxK, n |-> 0] ELSE agreed
    BY <1>1, <1>2, <2>4 DEF ForcedChoose, StartOver
  <2>5. CASE EmaChoose(m) /\ agreed' = Agreed(m)
    BY <2>5, EmaDecides
  <2> QED BY <2>2, <2>3, <2>4, <2>5
<1>5. CASE Tick \/ Edit \/ BeSteady \/ Due \/ PollEnds \/ Finish
  BY <1>1, <1>5 DEF Tick, Edit, BeSteady, Due, PollEnds, Finish
<1>6. CASE \E gone, evicted \in SUBSET Request : Retain(gone, evicted)
  BY <1>1, <1>6 DEF Retain, EmaForget
<1>7. CASE \E m \in Batches : ChooseFull(m)
  BY <1>1, <1>7 DEF ChooseFull
<1>8. CASE \E r \in Request, proposed \in 1..MaxK :
             \E accepted \in 0..proposed : Observe(r, proposed, accepted)
  BY <1>1, <1>8 DEF Observe, EmaObserve
<1>9. CASE \E r \in Request : Stale(r)
  BY <1>1, <1>9 DEF Stale, EmaForget
<1>10. CASE UNCHANGED allVars
  BY <1>1, <1>10 DEF allVars
<1> QED BY <1>3, <1>4, <1>5, <1>6, <1>7, <1>8, <1>9, <1>10, Zenon DEF BridgeNext, Engine

\* The depth of a batch moves only when the last Confirm decisions about this
\* very batch agreed on the new depth, for every Confirm, ProbeEvery and Warmup.
THEOREM DepthIsConfirmed == BridgeSpec => DepthConfirmed
<1>1. BridgeInit => CountInv
  BY EmaAssumption DEF BridgeInit, EmaInit, CountInv
<1>2. CountInv /\ [BridgeNext]_allVars => CountInv'
  BY DepthKept DEF DepthStep
<1>3. CountInv /\ [BridgeNext]_allVars =>
        [current_k' # current_k =>
           \/ batch_of' # batch_of \/ mode' # mode
           \/ agreed' = [k |-> current_k', n |-> Confirm]]_allVars
  BY DepthKept DEF DepthStep
<1> QED BY <1>1, <1>2, <1>3, PTL DEF BridgeSpec, DepthConfirmed
=============================================================================
