------------------------- MODULE SchedulerProofs -------------------------
(***************************************************************************)
(* Proofs about the two planners and the engine step.                      *)
(*                                                                         *)
(* SplitCadence, for every set of requests, every choice of the two        *)
(* selectors and every scheduler around the cadence.  None of the four     *)
(* safety properties is inductive: each speaks of a history of turns, and  *)
(* only the debts the code keeps (owed_decode, first_debt, burst_owed,     *)
(* burst_run) connect one turn with the next.  BeatInv states that         *)
(* connection.                                                             *)
(*                                                                         *)
(* FairPrefill, for every finite set of requests, every budget and block,  *)
(* and every scheduler around the planner.  That a long prefill is passed  *)
(* over by fewer plans than there are requests rests on its place in the   *)
(* queue: a plan that passes over it grants tokens to a request in front   *)
(* of it, which then goes to the end.  TurnInv states that.                *)
(*                                                                         *)
(* ServingScheduler, for every finite set of requests. CoreInv relates the *)
(* queues, the tokens and the blocks of every request at every point of    *)
(* the step; it gives the types, NothingMislaid and the refinement of      *)
(* RequestLifecycle. HeldInv adds what the prefills of a step share.       *)
(* BudgetInv adds what the budgets still owe to the decoders the loop has  *)
(* not come to, and ServedInv and MissedInv what follows from it for the   *)
(* decoders.                                                               *)
(***************************************************************************)
EXTENDS OpenCadence, OpenFair, ServingScheduler, FiniteSetTheorems, SequenceTheorems,
        WellFoundedInduction, TLAPS

Tracking == first_token_repay \/ first_content_burst > 0

\* What the debts know of the history variables.
DebtInv ==
  /\ withheld \subseteq owed_decode
  /\ known_decoders = IF Tracking THEN decoder_ids ELSE {}
  /\ first_token_repay => decoder_ids \subseteq offered \cup first_debt
  /\ first_debt \subseteq fresh
  /\ ~first_token_repay => first_debt = {}

\* What the content burst knows of the history variables.
BurstInv ==
  /\ converted = burst_run
  /\ first_content_burst = 0 => DOMAIN burst_owed = {}
  /\ \A r \in DOMAIN burst_owed : r \in Thinking /\ spent[r] <= burst_owed[r]

\* What begin has established for the step it planned.
PlannedInv ==
  stage = "planned" =>
    /\ phase \in {"prefill", "mixed"} => owed_decode = {}
    /\ phase = "prefill" => first_debt = {}
    /\ reason = "first-token-repay" => phase = "decode" /\ first_debt # {}
    /\ reason = "first-content-burst" =>
         /\ phase = "decode"
         /\ burst_run < first_content_burst
         /\ DOMAIN burst_owed # {}
         /\ \A r \in DOMAIN burst_owed : burst_owed[r] < first_content_burst

\* The inductive invariant.
BeatInv == BeatTypeOK /\ DebtInv /\ BurstInv /\ PlannedInv

-----------------------------------------------------------------------------
\* The selectors are read once, at import.
LEMMA BeginKeepsSelectors ==
  ASSUME NEW v, BeatBegin(v)
  PROVE  /\ first_token_repay' = first_token_repay
         /\ first_content_burst' = first_content_burst
  BY DEF BeatBegin, CadenceBegin, selectorVars

LEMMA ObserveKeepsSelectors ==
  ASSUME NEW served, BeatObserve(served)
  PROVE  /\ first_token_repay' = first_token_repay
         /\ first_content_burst' = first_content_burst
  BY DEF BeatObserve, CadenceObserve, selectorVars

\* The initial state has no debts and no history.
LEMMA InitIInv == BeatInit => BeatInv
  BY SelectorAssumption
     DEF BeatInit, CadenceInit, BeatInv, BeatTypeOK, DebtInv, BurstInv, PlannedInv

\* What _track_new_decoders leaves in burst_owed.
LEMMA BeginBurst ==
  ASSUME BeatInv, NEW v \in Views, BeatBegin(v)
  PROVE  /\ DOMAIN burst_owed' \subseteq Decoders(v)
         /\ burst_owed' \in [DOMAIN burst_owed' -> 0..first_content_burst]
         /\ first_content_burst = 0 => DOMAIN burst_owed' = {}
         /\ \A r \in DOMAIN burst_owed' :
              /\ r \in Thinking
              /\ burst_owed'[r] < first_content_burst
              /\ spent'[r] <= burst_owed'[r]
<1> USE SelectorAssumption DEF BeatInv, BeatTypeOK, DebtInv, BurstInv
<1>1. burst_owed' = TrackedBurst(v)
  BY DEF BeatBegin, CadenceBegin
<1>2. spent' = [r \in Request |-> IF r \in Decoders(v) \cap decoder_ids
                                  THEN spent[r] ELSE 0]
  BY DEF BeatBegin
<1>3. Decoders(v) \subseteq Request
  BY DEF Decoders, Views
<1>4. CASE first_content_burst = 0
  BY <1>1, <1>4 DEF TrackedBurst
<1>5. CASE first_content_burst # 0
  <2> DEFINE new  == {r \in Decoders(v) \ known_decoders :
                        r \in Thinking /\ r \notin v.content}
             kept == {r \in DOMAIN burst_owed :
                        /\ r \in Decoders(v)
                        /\ burst_owed[r] < first_content_burst
                        /\ r \notin v.content}
  <2>1. burst_owed' = [r \in new \cup kept |->
                         IF r \in new THEN 0 ELSE burst_owed[r]]
    BY <1>1, <1>5 DEF TrackedBurst
  <2>2. known_decoders = decoder_ids
    BY <1>5 DEF Tracking
  <2>3. DOMAIN burst_owed' = new \cup kept
    BY <2>1
  <2>4. ASSUME NEW r \in new
        PROVE  r \in Thinking /\ burst_owed'[r] = 0 /\ spent'[r] = 0
    BY <2>1, <2>2, <1>2, <1>3
  <2>5. ASSUME NEW r \in kept, r \notin new
        PROVE  /\ r \in Thinking /\ burst_owed'[r] = burst_owed[r]
               /\ burst_owed[r] \in 0..first_content_burst
               /\ burst_owed[r] < first_content_burst
               /\ spent'[r] = spent[r] /\ spent[r] <= burst_owed[r]
    BY <2>1, <2>5, <1>2, <1>3
  <2>6. new \cup kept \subseteq Decoders(v)
    OBVIOUS
  <2>7. ASSUME NEW r \in new \cup kept
        PROVE  /\ r \in Thinking
               /\ burst_owed'[r] \in 0..first_content_burst
               /\ burst_owed'[r] < first_content_burst
               /\ spent'[r] <= burst_owed'[r]
    <3> HIDE DEF new, kept
    <3> QED BY <1>5, <2>4, <2>5
  <2> HIDE DEF new, kept
  <2>8. burst_owed' \in [new \cup kept -> 0..first_content_burst]
    BY <2>1, <2>7
  <2> QED BY <1>5, <2>3, <2>6, <2>7, <2>8
<1> QED BY <1>4, <1>5

\* begin of cadence.py preserves the invariant.
LEMMA BeginIInv ==
  ASSUME BeatInv, NEW v \in Views, BeatBegin(v)
  PROVE  BeatInv'
<1> USE SelectorAssumption
<1>0. /\ first_token_repay' = first_token_repay
      /\ first_content_burst' = first_content_burst
  BY BeginKeepsSelectors
<1> USE <1>0
<1>1. Decoders(v) \subseteq Request /\ v.prefilling \subseteq Request
      /\ v.running \subseteq Request
  BY DEF Views, Decoders
<1>2. /\ DOMAIN burst_owed' \subseteq Decoders(v)
      /\ burst_owed' \in [DOMAIN burst_owed' -> 0..first_content_burst]
      /\ first_content_burst = 0 => DOMAIN burst_owed' = {}
      /\ \A r \in DOMAIN burst_owed' :
           /\ r \in Thinking
           /\ burst_owed'[r] < first_content_burst
           /\ spent'[r] <= burst_owed'[r]
  BY BeginBurst
<1>3. BeatTypeOK'
  <2>1. burst_run' \in 0..first_content_burst /\ converted' \in Nat
    BY DEF BeatInv, BeatTypeOK, BeatBegin, CadenceBegin, TrackedRun
  <2>2. first_debt' \subseteq Decoders(v)
    BY DEF BeatInv, BeatTypeOK, DebtInv, BeatBegin, CadenceBegin, TrackedDebt
  <2>3. known_decoders' \subseteq Decoders(v)
    <3>1. CASE Tracking
      BY <3>1 DEF Tracking, BeatBegin, CadenceBegin
    <3>2. CASE ~Tracking
      BY <3>2 DEF Tracking, BeatBegin, CadenceBegin, BeatInv, DebtInv
    <3> QED BY <3>1, <3>2
  <2>4. /\ phase' \in {"mixed", "prefill", "decode"}
        /\ reason' \in {"repay-prefill-offer", "no-eligible-running-pair",
                        "first-token-repay", "first-content-burst",
                        "one-known-nonfinal-running-prefill"}
        /\ allowed' \subseteq Request
    BY <1>1 DEF BeatBegin, CadenceBegin, Choose
  <2>5. spent' \in [Request -> 0..first_content_burst]
    BY DEF BeatInv, BeatTypeOK, BeatBegin
  <2> QED BY <1>1, <1>2, <2>1, <2>2, <2>3, <2>4, <2>5
          DEF BeatInv, BeatTypeOK, BeatBegin, CadenceBegin
<1>4. DebtInv'
  <2>1. withheld' \subseteq owed_decode'
    BY DEF BeatInv, DebtInv, BeatBegin, CadenceBegin
  <2>2. known_decoders' = IF Tracking THEN decoder_ids' ELSE {}
    BY DEF BeatInv, DebtInv, Tracking, BeatBegin, CadenceBegin
  <2>3. first_token_repay => decoder_ids' \subseteq offered' \cup first_debt'
    BY DEF BeatInv, DebtInv, Tracking, BeatBegin, CadenceBegin, TrackedDebt
  <2>4. first_debt' \subseteq fresh'
    BY DEF BeatInv, DebtInv, Tracking, BeatBegin, CadenceBegin, TrackedDebt
  <2>5. ~first_token_repay => first_debt' = {}
    BY DEF BeatInv, DebtInv, BeatBegin, CadenceBegin, TrackedDebt
  <2> QED BY <2>1, <2>2, <2>3, <2>4, <2>5 DEF DebtInv, Tracking
<1>5. BurstInv'
  <2>1. converted' = burst_run'
    BY DEF BeatInv, BeatTypeOK, BurstInv, BeatBegin, CadenceBegin, TrackedRun
  <2> QED BY <1>2, <2>1 DEF BurstInv
<1>6. PlannedInv'
  BY <1>2 DEF PlannedInv, BeatBegin, CadenceBegin, Choose
<1> QED BY <1>3, <1>4, <1>5, <1>6 DEF BeatInv

\* observe of cadence.py preserves the invariant.
LEMMA ObserveIInv ==
  ASSUME BeatInv, NEW served \in SUBSET Request, BeatObserve(served)
  PROVE  BeatInv'
<1> USE SelectorAssumption
<1>0. /\ first_token_repay' = first_token_repay
      /\ first_content_burst' = first_content_burst
  BY ObserveKeepsSelectors
<1> USE <1>0
<1>1. /\ stage = "planned" /\ stage' = "idle"
      /\ decoder_ids' = decoder_ids /\ known_decoders' = known_decoders
      /\ phase' = phase /\ reason' = reason /\ allowed' = allowed
      /\ owed_decode' = OwedAfter(served) /\ first_debt' = DebtAfter(served)
  BY DEF BeatObserve, CadenceObserve
<1>2. /\ DOMAIN burst_owed' = DOMAIN burst_owed
      /\ burst_owed' \in [DOMAIN burst_owed -> 0..first_content_burst]
      /\ burst_run' \in 0..first_content_burst
      /\ spent' \in [Request -> 0..first_content_burst]
      /\ converted' = burst_run'
      /\ \A r \in DOMAIN burst_owed : spent'[r] <= burst_owed'[r]
  <2> USE DEF BeatInv, BeatTypeOK, BurstInv
  <2>1. CASE reason = "first-content-burst"
    <3>1. /\ burst_run < first_content_burst
          /\ \A r \in DOMAIN burst_owed : burst_owed[r] < first_content_burst
          /\ phase = "decode"
      BY <1>1, <2>1 DEF PlannedInv
    <3>2. /\ burst_owed' = [r \in DOMAIN burst_owed |-> burst_owed[r] + 1]
          /\ burst_run' = burst_run + 1 /\ converted' = converted + 1
      BY <2>1, <3>1 DEF BeatObserve, CadenceObserve
    <3>3. spent' = [r \in Request |->
                      IF r \in decoder_ids /\ spent[r] < first_content_burst
                      THEN spent[r] + 1 ELSE spent[r]]
      BY <2>1 DEF BeatObserve
    <3>4. /\ spent' \in [Request -> 0..first_content_burst]
          /\ \A r \in Request : spent'[r] <= spent[r] + 1
      <4>1. ASSUME NEW r \in Request
            PROVE  /\ spent'[r] \in 0..first_content_burst
                   /\ spent'[r] <= spent[r] + 1
        <5>1. spent[r] \in 0..first_content_burst
          OBVIOUS
        <5>2. spent'[r] = IF r \in decoder_ids /\ spent[r] < first_content_burst
                          THEN spent[r] + 1 ELSE spent[r]
          BY <3>3
        <5> QED BY <5>1, <5>2, SMTT(40)
      <4> QED BY <3>3, <4>1
    <3>5. ASSUME NEW r \in DOMAIN burst_owed
          PROVE  spent'[r] <= burst_owed'[r]
      <4>1. r \in Request /\ spent[r] \in Nat /\ burst_owed[r] \in Nat
        OBVIOUS
      <4> QED BY <3>2, <3>4, <4>1
    <3>6. burst_owed' \in [DOMAIN burst_owed -> 0..first_content_burst]
      <4>1. ASSUME NEW r \in DOMAIN burst_owed
            PROVE  burst_owed[r] + 1 \in 0..first_content_burst
        <5>1. /\ burst_owed[r] \in 0..first_content_burst
              /\ burst_owed[r] < first_content_burst
              /\ first_content_burst \in Nat
          BY <3>1
        <5> HIDE DEF BeatInv
        <5> QED BY <5>1
      <4> QED BY <3>2, <4>1
    <3> QED BY <3>1, <3>2, <3>4, <3>5, <3>6
  <2>2. CASE reason # "first-content-burst"
    <3>1. burst_owed' = burst_owed /\ spent' = spent
      BY <2>2 DEF BeatObserve, CadenceObserve
    <3>2. burst_run' = IF first_content_burst > 0 /\ phase = "prefill"
                       THEN 0 ELSE burst_run
      BY <2>2 DEF BeatObserve, CadenceObserve
    <3>3. converted' = IF phase = "prefill" THEN 0 ELSE converted
      BY <2>2 DEF BeatObserve
    <3> QED BY <3>1, <3>2, <3>3
  <2> QED BY <2>1, <2>2
<1>3. OwedAfter(served) \subseteq decoder_ids
      /\ DebtAfter(served) \subseteq first_debt
  BY DEF OwedAfter, DebtAfter, BeatInv, BeatTypeOK
<1>4. BeatTypeOK'
  <2>1. /\ first_token_repay' \in BOOLEAN /\ first_content_burst' \in 0..16
        /\ first_token_repay' => first_content_burst' = 0
    BY DEF BeatInv, BeatTypeOK
  <2>2. /\ withheld' \subseteq decoder_ids /\ offered' \subseteq decoder_ids
        /\ fresh' \subseteq decoder_ids
    BY DEF BeatObserve, BeatInv, BeatTypeOK
  <2> QED BY <1>1, <1>2, <1>3, <2>1, <2>2 DEF BeatObserve, BeatInv, BeatTypeOK, BurstInv
<1>5. DebtInv'
  <2> USE DEF BeatInv, BeatTypeOK, DebtInv
  <2>1. withheld' \subseteq owed_decode'
    BY <1>1 DEF BeatObserve, OwedAfter, PlannedInv
  <2>2. first_token_repay => decoder_ids' \subseteq offered' \cup first_debt'
    <3>1. CASE phase = "prefill"
      BY <1>1, <3>1 DEF BeatObserve, DebtAfter, PlannedInv
    <3>2. CASE phase = "decode"
      BY <1>1, <3>2 DEF BeatObserve
    <3>3. CASE phase = "mixed"
      <4>1. reason # "first-token-repay"
        BY <1>1, <3>3 DEF PlannedInv
      <4> QED BY <1>1, <3>3, <4>1 DEF BeatObserve, DebtAfter
    <3> QED BY <3>1, <3>2, <3>3
  <2>3. first_debt' \subseteq fresh'
    BY <1>1, <1>3 DEF BeatObserve, DebtAfter, PlannedInv
  <2>4. ~first_token_repay => first_debt' = {}
    BY <1>1, <1>3
  <2> QED BY <1>1, <2>1, <2>2, <2>3, <2>4 DEF Tracking
<1>6. BurstInv'
  BY <1>2 DEF BeatInv, BurstInv
<1>7. PlannedInv'
  BY <1>1 DEF PlannedInv
<1> QED BY <1>4, <1>5, <1>6, <1>7 DEF BeatInv

\* Steps that change nothing preserve the invariant.
LEMMA StutterIInv == BeatInv /\ UNCHANGED beatVars => BeatInv'
  BY DEF beatVars, cadenceVars, selectorVars, BeatInv, BeatTypeOK, DebtInv, BurstInv, PlannedInv,
         Tracking

-----------------------------------------------------------------------------
\* The inductive invariant holds in every reachable state, under every
\* scheduler (cadence.py, begin and observe in any alternation).
THEOREM CadenceInvariant == BeatSpec => []BeatInv
<1>1. BeatInv /\ [BeatNext]_beatVars => BeatInv'
  BY BeginIInv, ObserveIInv, StutterIInv DEF BeatNext
<1> QED BY InitIInv, <1>1, PTL DEF BeatSpec

\* Type correctness of the cadence's state.
THEOREM CadenceTypeCorrect == BeatSpec => []BeatTypeOK
<1>1. BeatInv => BeatTypeOK
  BY DEF BeatInv
<1> QED BY CadenceInvariant, <1>1, PTL

\* No decoder is passed over by two prefill-only steps without a turn in
\* between (cadence.py, owed_decode).
THEOREM CadenceNoDoubleWithhold == BeatSpec => []NoDoubleWithhold
<1>1. BeatInv => NoDoubleWithhold
  BY DEF BeatInv, DebtInv, PlannedInv, NoDoubleWithhold
<1> QED BY CadenceInvariant, <1>1, PTL

\* Under first-token repay a new decoder has a turn before any prefill-only
\* step (cadence.py, first_debt).
THEOREM CadenceFirstTurn == BeatSpec => []FirstTurnBeforePrefill
<1>1. BeatInv => FirstTurnBeforePrefill
  BY DEF BeatInv, DebtInv, PlannedInv, FirstTurnBeforePrefill
<1> QED BY CadenceInvariant, <1>1, PTL

\* The first-token debt converts at most one turn per wave of new decoders.
THEOREM CadenceRepayOnce == BeatSpec => []RepayOncePerWave
<1>1. BeatInv => RepayOncePerWave
  BY DEF BeatInv, DebtInv, PlannedInv, RepayOncePerWave
<1> QED BY CadenceInvariant, <1>1, PTL

\* The content burst is bounded per decoder and between two prefill-only
\* steps (cadence.py, burst_owed and burst_run).
THEOREM CadenceBurstBounded == BeatSpec => []BurstBounded
<1>1. BeatInv => BurstBounded
  <2> SUFFICES ASSUME BeatInv PROVE BurstBounded
    OBVIOUS
  <2>1. converted <= first_content_burst
    BY SelectorAssumption DEF BeatInv, BeatTypeOK, BurstInv
  <2>2. ASSUME stage = "planned", reason = "first-content-burst"
        PROVE  \E r \in decoder_ids : r \in Thinking /\ spent[r] < first_content_burst
    <3>1. PICK r \in DOMAIN burst_owed : burst_owed[r] < first_content_burst
      BY <2>2 DEF BeatInv, PlannedInv
    <3>2. r \in decoder_ids /\ r \in Thinking /\ spent[r] <= burst_owed[r]
          /\ spent[r] \in Nat /\ burst_owed[r] \in Nat
      BY <3>1, SelectorAssumption DEF BeatInv, BeatTypeOK, BurstInv
    <3>3. first_content_burst \in Nat
      BY DEF BeatInv, BeatTypeOK
    <3> QED BY <3>1, <3>2, <3>3
  <2> QED BY <2>1, <2>2 DEF BurstBounded
<1> QED BY CadenceInvariant, <1>1, PTL

-----------------------------------------------------------------------------
\* The operators on queues of FairPrefill.

\* A set of numbers has a least one.
LEMMA LeastExists ==
  ASSUME NEW T, T \subseteq Nat, T # {}
  PROVE  \E x \in T : \A y \in T : x <= y
<1>1. PICK x \in T : \A y \in T : ~ (<<y, x>> \in OpToRel(<, Nat))
  BY NatLessThanWellFounded, WFMin
<1>2. \A y \in T : ~(y < x)
  BY <1>1 DEF OpToRel
<1> QED BY <1>2

\* A set with 0 that goes on from every number below n has all up to n.
LEMMA UpTo ==
  ASSUME NEW n \in Nat, NEW G, 0 \in G, \A m \in 0..n : m < n /\ m \in G => m + 1 \in G
  PROVE  \A m \in 0..n : m \in G
<1> DEFINE B == {m \in 0..n : m \notin G}
<1> SUFFICES ASSUME B # {} PROVE FALSE
  OBVIOUS
<1>1. PICK x \in B : \A y \in B : x <= y
  <2>1. B \subseteq Nat
    OBVIOUS
  <2> HIDE DEF B
  <2> QED BY <2>1, LeastExists
<1>2. x \in Nat /\ x # 0
  BY <1>1
<1>3. x - 1 \in 0..n /\ x - 1 < n /\ x - 1 \in G
  BY <1>1, <1>2
<1>4. (x - 1) + 1 \in G
  BY <1>3
<1> QED BY <1>1, <1>2, <1>4

\* The filter of the first m members.
Filters(s, ids, m, g) ==
  /\ g \in [0..m -> Seq(ToSet(s))]
  /\ g[0] = <<>>
  /\ \A k \in 1..m : g[k] = IF s[k] \in ids THEN Append(g[k - 1], s[k]) ELSE g[k - 1]

\* p gives the places that the members of t have among the first m of s.
Places(s, ids, m, t, p) ==
  /\ p \in [1..Len(t) -> 1..m]
  /\ \A i \in 1..Len(t) : t[i] = s[p[i]] /\ s[p[i]] \in ids
  /\ \A i, j \in 1..Len(t) : i < j => p[i] < p[j]
  /\ \A j \in 1..m : s[j] \in ids => \E i \in 1..Len(t) : p[i] = j

\* The recursion of Only has a solution.
LEMMA FilterExists ==
  ASSUME NEW S, NEW s \in Seq(S), NEW ids
  PROVE  \E g : Filters(s, ids, Len(s), g)
<1> DEFINE G == {m \in 0..Len(s) : \E g : Filters(s, ids, m, g)}
<1>1. \A k \in 1..Len(s) : s[k] \in ToSet(s)
  BY DEF ToSet
<1>2. 0 \in G
  <2>1. Filters(s, ids, 0, [k \in 0..0 |-> <<>>])
    BY DEF Filters
  <2> QED BY <2>1
<1>3. ASSUME NEW m \in 0..Len(s), m < Len(s), m \in G
      PROVE  m + 1 \in G
  <2>1. PICK g : Filters(s, ids, m, g)
    BY <1>3
  <2> DEFINE a == IF s[m + 1] \in ids THEN Append(g[m], s[m + 1]) ELSE g[m]
             h == [k \in 0..m + 1 |-> IF k = m + 1 THEN a ELSE g[k]]
  <2>2. a \in Seq(ToSet(s))
    <3>1. g[m] \in Seq(ToSet(s)) /\ s[m + 1] \in ToSet(s)
      BY <1>1, <1>3, <2>1 DEF Filters
    <3> QED BY <3>1
  <2>3. h \in [0..m + 1 -> Seq(ToSet(s))]
    BY <2>1, <2>2 DEF Filters
  <2>4. h[0] = <<>>
    BY <2>1 DEF Filters
  <2>5. ASSUME NEW k \in 1..m + 1
        PROVE  h[k] = IF s[k] \in ids THEN Append(h[k - 1], s[k]) ELSE h[k - 1]
    <3>1. CASE k = m + 1
      <4>1. h[k] = a /\ h[k - 1] = g[m]
        BY <3>1
      <4> QED BY <3>1, <4>1
    <3>2. CASE k \in 1..m
      <4>1. h[k] = g[k] /\ h[k - 1] = g[k - 1]
        BY <3>2
      <4>2. g[k] = IF s[k] \in ids THEN Append(g[k - 1], s[k]) ELSE g[k - 1]
        BY <2>1, <3>2 DEF Filters
      <4> QED BY <4>1, <4>2
    <3> QED BY <3>1, <3>2
  <2>6. Filters(s, ids, m + 1, h)
    <3> HIDE DEF h
    <3> QED BY <2>3, <2>4, <2>5 DEF Filters
  <2>7. m + 1 \in 0..Len(s)
    BY <1>3
  <2> QED BY <2>6, <2>7
<1>4. Len(s) \in Nat
  OBVIOUS
<1>5. \A m \in 0..Len(s) : m \in G
  <2> HIDE DEF G
  <2> QED BY <1>2, <1>3, <1>4, UpTo
<1> QED BY <1>4, <1>5

\* Only is the last of the filters.
LEMMA OnlyFilters ==
  ASSUME NEW S, NEW s \in Seq(S), NEW ids
  PROVE  \E g : Filters(s, ids, Len(s), g) /\ Only(s, ids) = g[Len(s)]
<1> DEFINE Next1(f, n) == IF n = 0 THEN <<>>
                          ELSE IF s[n] \in ids THEN Append(f[n - 1], s[n]) ELSE f[n - 1]
           Solves(f) == f = [n \in 0..Len(s) |-> Next1(f, n)]
           only == CHOOSE f : Solves(f)
<1>1. PICK g : Filters(s, ids, Len(s), g)
  BY FilterExists
<1>2. Len(s) \in Nat
  OBVIOUS
<1>3. \A n \in 0..Len(s) : g[n] = Next1(g, n)
  <2> TAKE n \in 0..Len(s)
  <2>1. CASE n = 0
    BY <1>1, <2>1 DEF Filters
  <2>2. CASE n \in 1..Len(s)
    BY <1>1, <2>2 DEF Filters
  <2> QED BY <1>2, <2>1, <2>2
<1>4. Solves(g)
  <2>1. g = [n \in 0..Len(s) |-> g[n]]
    BY <1>1 DEF Filters
  <2> HIDE DEF Next1
  <2> QED BY <1>3, <2>1
<1>5. Solves(only)
  <2> HIDE DEF Solves
  <2> QED BY <1>4
<1>6. \A n \in 0..Len(s) : only[n] = Next1(only, n)
  <2> HIDE DEF only, Next1
  <2> QED BY <1>5
<1>7. \A n \in 0..Len(s) : only[n] = g[n]
  <2> HIDE DEF only
  <2> DEFINE G == {n \in 0..Len(s) : only[n] = g[n]}
  <2>1. 0 \in G
    BY <1>2, <1>3, <1>6
  <2>2. ASSUME NEW m \in 0..Len(s), m < Len(s), m \in G
        PROVE  m + 1 \in G
    <3>1. m + 1 \in 0..Len(s) /\ m + 1 # 0 /\ (m + 1) - 1 = m
      BY <1>2, <2>2
    <3>2. only[m + 1] = Next1(only, m + 1) /\ g[m + 1] = Next1(g, m + 1)
      <4> HIDE DEF Next1
      <4> QED BY <1>3, <1>6, <3>1
    <3> QED BY <2>2, <3>1, <3>2
  <2>3. \A m \in 0..Len(s) : m \in G
    <3> HIDE DEF G
    <3> QED BY <1>2, <2>1, <2>2, UpTo
  <2> QED BY <2>3
<1>8. Only(s, ids) = only[Len(s)]
  BY DEF Only
<1>9. Only(s, ids) = g[Len(s)]
  <2> HIDE DEF only
  <2> QED BY <1>2, <1>7, <1>8
<1> QED BY <1>1, <1>9

\* One more member.
LEMMA PlacesGrow ==
  ASSUME NEW S, NEW s \in Seq(S), NEW ids, NEW m \in Nat, m < Len(s),
         NEW t \in Seq(S), NEW p, Places(s, ids, m, t, p)
  PROVE  \E q : Places(s, ids, m + 1, IF s[m + 1] \in ids THEN Append(t, s[m + 1]) ELSE t, q)
<1>1. m + 1 \in 1..Len(s) /\ Len(t) \in Nat /\ Len(s) \in Nat
  OBVIOUS
<1>2. CASE s[m + 1] \notin ids
  <2>1. Places(s, ids, m + 1, t, p)
    <3>1. p \in [1..Len(t) -> 1..m + 1]
      BY <1>1 DEF Places
    <3>2. \A j \in 1..m + 1 : s[j] \in ids => \E i \in 1..Len(t) : p[i] = j
      <4> TAKE j \in 1..m + 1
      <4>1. j = m + 1 \/ j \in 1..m
        BY <1>1
      <4> QED BY <1>2, <4>1 DEF Places
    <3> QED BY <3>1, <3>2 DEF Places
  <2> QED BY <1>2, <2>1
<1>3. CASE s[m + 1] \in ids
  <2> DEFINE n == Len(t) + 1
             u == Append(t, s[m + 1])
             q == [i \in 1..n |-> IF i = n THEN m + 1 ELSE p[i]]
  <2>1. /\ s[m + 1] \in S /\ u \in Seq(S) /\ Len(u) = n /\ u[n] = s[m + 1]
        /\ \A i \in 1..Len(t) : u[i] = t[i]
    BY <1>1
  <2>2. n \in Nat /\ n \in 1..n /\ \A i \in 1..n : i = n \/ (i \in 1..Len(t) /\ i < n)
    BY <1>1
  <2>3. q[n] = m + 1 /\ \A i \in 1..Len(t) : q[i] = p[i] /\ p[i] \in 1..m
    <3>1. \A i \in 1..Len(t) : i \in 1..n /\ i # n
      BY <1>1
    <3>2. \A i \in 1..Len(t) : p[i] \in 1..m
      BY DEF Places
    <3> QED BY <2>2, <3>1, <3>2
  <2>4. q \in [1..n -> 1..m + 1]
    <3>1. \A i \in 1..n : q[i] \in 1..m + 1
      <4> HIDE DEF q, n
      <4>1. m + 1 \in 1..m + 1 /\ \A x \in 1..m : x \in 1..m + 1
        OBVIOUS
      <4> QED BY <2>2, <2>3, <4>1
    <3>2. q = [i \in 1..n |-> q[i]]
      OBVIOUS
    <3> HIDE DEF q, n
    <3> QED BY <3>1, <3>2
  <2> HIDE DEF q, n, u
  <2>5. \A i \in 1..n : u[i] = s[q[i]] /\ s[q[i]] \in ids
    BY <2>1, <2>2, <2>3, <1>3 DEF Places
  <2>6. \A i, j \in 1..n : i < j => q[i] < q[j]
    <3> SUFFICES ASSUME NEW i \in 1..n, NEW j \in 1..n, i < j PROVE q[i] < q[j]
      OBVIOUS
    <3>1. i \in 1..Len(t)
      BY <2>2
    <3>2. CASE j = n
      BY <1>1, <2>3, <3>1, <3>2
    <3>3. CASE j \in 1..Len(t)
      BY <2>3, <3>1, <3>3 DEF Places
    <3> QED BY <2>2, <3>2, <3>3
  <2>7. \A j \in 1..m + 1 : s[j] \in ids => \E i \in 1..n : q[i] = j
    <3> SUFFICES ASSUME NEW j \in 1..m + 1, s[j] \in ids PROVE \E i \in 1..n : q[i] = j
      OBVIOUS
    <3>1. CASE j = m + 1
      BY <2>2, <2>3, <3>1
    <3>2. CASE j \in 1..m
      <4>1. PICK i \in 1..Len(t) : p[i] = j
        BY <3>2 DEF Places
      <4>2. i \in 1..n
        BY <1>1 DEF n
      <4> QED BY <2>3, <4>1, <4>2
    <3> QED BY <1>1, <3>1, <3>2
  <2>8. Places(s, ids, m + 1, u, q)
    BY <2>1, <2>4, <2>5, <2>6, <2>7 DEF Places
  <2> QED BY <1>3, <2>8 DEF u
<1> QED BY <1>2, <1>3

\* Only keeps the members of s that are in ids, in their order.
LEMMA OnlyIs ==
  ASSUME NEW S, NEW s \in Seq(S), NEW ids
  PROVE  /\ Only(s, ids) \in Seq(ToSet(s))
         /\ \E p : Places(s, ids, Len(s), Only(s, ids), p)
<1>1. PICK g : Filters(s, ids, Len(s), g) /\ Only(s, ids) = g[Len(s)]
  BY OnlyFilters
<1>2. Len(s) \in Nat /\ ToSet(s) \subseteq S
  BY DEF ToSet
<1>3. s \in Seq(ToSet(s))
  BY DEF ToSet
<1> DEFINE G == {m \in 0..Len(s) : \E p : Places(s, ids, m, g[m], p)}
<1>4. 0 \in G
  <2>1. Places(s, ids, 0, <<>>, <<>>)
    BY DEF Places
  <2> QED BY <1>1, <1>2, <2>1 DEF Filters
<1>5. ASSUME NEW m \in 0..Len(s), m < Len(s), m \in G
      PROVE  m + 1 \in G
  <2>1. PICK p : Places(s, ids, m, g[m], p)
    BY <1>5
  <2>2. m + 1 \in 1..Len(s) /\ (m + 1) - 1 = m /\ m \in Nat
    BY <1>2, <1>5
  <2>3. g[m] \in Seq(ToSet(s))
    BY <1>1 DEF Filters
  <2>4. g[m + 1] = IF s[m + 1] \in ids THEN Append(g[m], s[m + 1]) ELSE g[m]
    BY <1>1, <2>2 DEF Filters
  <2>5. \E q : Places(s, ids, m + 1, g[m + 1], q)
    BY <1>3, <1>5, <2>1, <2>2, <2>3, <2>4, PlacesGrow
  <2> QED BY <1>2, <2>2, <2>5
<1>6. \A m \in 0..Len(s) : m \in G
  <2> HIDE DEF G
  <2> QED BY <1>2, <1>4, <1>5, UpTo
<1>7. g[Len(s)] \in Seq(ToSet(s))
  BY <1>1, <1>2 DEF Filters
<1> QED BY <1>1, <1>2, <1>6, <1>7

-----------------------------------------------------------------------------
\* x comes before y in q.
Ahead(q, x, y) == \E i, j \in DOMAIN q : i < j /\ q[i] = x /\ q[j] = y

\* Nothing is twice in q.
Once(q) == \A i, j \in DOMAIN q : q[i] = q[j] => i = j

\* The members of a filtered sequence.
LEMMA OnlyMembers ==
  ASSUME NEW S, NEW s \in Seq(S), NEW ids
  PROVE  /\ Only(s, ids) \in Seq(S)
         /\ ToSet(Only(s, ids)) = ToSet(s) \cap ids
<1> DEFINE t == Only(s, ids)
<1>1. t \in Seq(ToSet(s)) /\ ToSet(s) \subseteq S
  BY OnlyIs DEF ToSet
<1>2. PICK p : Places(s, ids, Len(s), t, p)
  BY OnlyIs
<1> HIDE DEF t
<1>3. DOMAIN t = 1..Len(t) /\ DOMAIN s = 1..Len(s)
  BY <1>1
<1>4. ASSUME NEW x \in ToSet(t) PROVE x \in ToSet(s) \cap ids
  BY <1>2, <1>3 DEF ToSet, Places
<1>5. ASSUME NEW x \in ToSet(s), x \in ids PROVE x \in ToSet(t)
  <2>1. PICK j \in 1..Len(s) : s[j] = x
    BY <1>3 DEF ToSet
  <2>2. PICK i \in 1..Len(t) : p[i] = j
    BY <1>2, <1>5, <2>1 DEF Places
  <2> QED BY <1>2, <1>3, <2>1, <2>2 DEF ToSet, Places
<1> QED BY <1>1, <1>4, <1>5 DEF t

\* A filter keeps the order, and makes no copies.
LEMMA OnlyKeepsOrder ==
  ASSUME NEW S, NEW s \in Seq(S), NEW ids
  PROVE  /\ Once(s) => Once(Only(s, ids))
         /\ \A x, y : Ahead(Only(s, ids), x, y) => Ahead(s, x, y)
         /\ \A x, y \in ids : Ahead(s, x, y) => Ahead(Only(s, ids), x, y)
<1> DEFINE t == Only(s, ids)
<1>1. t \in Seq(ToSet(s))
  BY OnlyIs
<1>2. PICK p : Places(s, ids, Len(s), t, p)
  BY OnlyIs
<1> HIDE DEF t
<1>3. DOMAIN t = 1..Len(t) /\ DOMAIN s = 1..Len(s) /\ Len(t) \in Nat /\ Len(s) \in Nat
  BY <1>1
<1>4. \A i \in 1..Len(t) : p[i] \in 1..Len(s) /\ t[i] = s[p[i]]
  BY <1>2 DEF Places
<1>5. \A i, j \in 1..Len(t) : i < j <=> p[i] < p[j]
  <2> TAKE i, j \in 1..Len(t)
  <2>1. i < j \/ i = j \/ j < i
    BY <1>3
  <2>2. p[i] \in Nat /\ p[j] \in Nat
    BY <1>3, <1>4
  <2> QED BY <1>2, <2>1, <2>2 DEF Places
<1>6. ASSUME Once(s) PROVE Once(t)
  <2> SUFFICES ASSUME NEW i \in 1..Len(t), NEW j \in 1..Len(t), t[i] = t[j] PROVE i = j
    BY <1>3 DEF Once
  <2>1. p[i] = p[j]
    BY <1>3, <1>4, <1>6 DEF Once
  <2> QED BY <1>3, <1>4, <1>5, <2>1
<1>7. ASSUME NEW x, NEW y, Ahead(t, x, y) PROVE Ahead(s, x, y)
  BY <1>3, <1>4, <1>5, <1>7 DEF Ahead
<1>8. ASSUME NEW x \in ids, NEW y \in ids, Ahead(s, x, y) PROVE Ahead(t, x, y)
  <2>1. PICK i \in 1..Len(s), j \in 1..Len(s) : i < j /\ s[i] = x /\ s[j] = y
    BY <1>3, <1>8 DEF Ahead
  <2>2. PICK a \in 1..Len(t) : p[a] = i
    BY <1>2, <2>1 DEF Places
  <2>3. PICK b \in 1..Len(t) : p[b] = j
    BY <1>2, <2>1 DEF Places
  <2>4. a < b /\ t[a] = x /\ t[b] = y
    BY <1>4, <1>5, <2>1, <2>2, <2>3
  <2> QED BY <1>3, <2>4 DEF Ahead
<1> QED BY <1>6, <1>7, <1>8 DEF t

\* One sequence after another.
LEMMA JoinIs ==
  ASSUME NEW S, NEW a \in Seq(S), NEW b \in Seq(S)
  PROVE  /\ a \o b \in Seq(S)
         /\ ToSet(a \o b) = ToSet(a) \cup ToSet(b)
         /\ Once(a) /\ Once(b) /\ ToSet(a) \cap ToSet(b) = {} => Once(a \o b)
         /\ \A x, y : Ahead(a \o b, x, y) =>
              Ahead(a, x, y) \/ Ahead(b, x, y) \/ (x \in ToSet(a) /\ y \in ToSet(b))
         /\ \A x, y : Ahead(a, x, y) => Ahead(a \o b, x, y)
         /\ a # <<>> => Head(a \o b) = Head(a)
<1> DEFINE c == a \o b
<1>1. c \in Seq(S) /\ Len(c) = Len(a) + Len(b) /\ Len(a) \in Nat /\ Len(b) \in Nat
  OBVIOUS
<1>2. DOMAIN a = 1..Len(a) /\ DOMAIN b = 1..Len(b) /\ DOMAIN c = 1..Len(c)
  BY <1>1
<1>3. \A i \in 1..Len(a) : i \in 1..Len(c) /\ c[i] = a[i]
  BY <1>1
<1>4. \A i \in 1..Len(b) : Len(a) + i \in 1..Len(c) /\ c[Len(a) + i] = b[i]
  BY <1>1
<1>5. \A i \in 1..Len(c) : i \in 1..Len(a) \/ (i - Len(a) \in 1..Len(b) /\ c[i] = b[i - Len(a)])
  BY <1>1
<1> HIDE DEF c
<1>6. ToSet(c) = ToSet(a) \cup ToSet(b)
  <2>1. ASSUME NEW x \in ToSet(c) PROVE x \in ToSet(a) \cup ToSet(b)
    BY <1>2, <1>3, <1>5 DEF ToSet
  <2>2. ASSUME NEW x \in ToSet(a) PROVE x \in ToSet(c)
    BY <1>2, <1>3 DEF ToSet
  <2>3. ASSUME NEW x \in ToSet(b) PROVE x \in ToSet(c)
    BY <1>2, <1>4 DEF ToSet
  <2> QED BY <2>1, <2>2, <2>3
<1>7. ASSUME Once(a), Once(b), ToSet(a) \cap ToSet(b) = {} PROVE Once(c)
  <2> SUFFICES ASSUME NEW i \in 1..Len(c), NEW j \in 1..Len(c), c[i] = c[j] PROVE i = j
    BY <1>2 DEF Once
  <2>1. \A k \in 1..Len(a) : a[k] \in ToSet(a)
    BY <1>2 DEF ToSet
  <2>2. \A k \in 1..Len(b) : b[k] \in ToSet(b)
    BY <1>2 DEF ToSet
  <2>3. CASE i \in 1..Len(a) /\ j \in 1..Len(a)
    BY <1>2, <1>3, <1>7, <2>3 DEF Once
  <2>4. CASE i - Len(a) \in 1..Len(b) /\ c[i] = b[i - Len(a)] /\ j - Len(a) \in 1..Len(b) /\ c[j] = b[j - Len(a)]
    <3>1. i - Len(a) = j - Len(a)
      BY <1>2, <1>7, <2>4 DEF Once
    <3> QED BY <1>1, <3>1
  <2>5. ~(i \in 1..Len(a) /\ j - Len(a) \in 1..Len(b) /\ c[j] = b[j - Len(a)])
    BY <1>3, <1>7, <2>1, <2>2
  <2>6. ~(j \in 1..Len(a) /\ i - Len(a) \in 1..Len(b) /\ c[i] = b[i - Len(a)])
    BY <1>3, <1>7, <2>1, <2>2
  <2> QED BY <1>5, <2>3, <2>4, <2>5, <2>6
<1>8. ASSUME NEW x, NEW y, Ahead(c, x, y)
      PROVE  Ahead(a, x, y) \/ Ahead(b, x, y) \/ (x \in ToSet(a) /\ y \in ToSet(b))
  <2>1. PICK i \in 1..Len(c), j \in 1..Len(c) : i < j /\ c[i] = x /\ c[j] = y
    BY <1>2, <1>8 DEF Ahead
  <2>2. CASE j \in 1..Len(a)
    <3>1. i \in 1..Len(a)
      BY <2>1, <2>2
    <3> QED BY <1>2, <1>3, <2>1, <2>2, <3>1 DEF Ahead
  <2>3. CASE j - Len(a) \in 1..Len(b) /\ c[j] = b[j - Len(a)]
    <3>1. y \in ToSet(b)
      BY <1>2, <2>1, <2>3 DEF ToSet
    <3>2. CASE i \in 1..Len(a)
      <4>1. x \in ToSet(a)
        BY <1>2, <1>3, <2>1, <3>2 DEF ToSet
      <4> QED BY <3>1, <4>1
    <3>3. CASE i - Len(a) \in 1..Len(b) /\ c[i] = b[i - Len(a)]
      <4>1. i - Len(a) < j - Len(a)
        BY <1>1, <2>1
      <4> QED BY <1>2, <2>1, <2>3, <3>3, <4>1 DEF Ahead
    <3> QED BY <1>5, <3>2, <3>3
  <2> QED BY <1>5, <2>2, <2>3
<1>9. ASSUME NEW x, NEW y, Ahead(a, x, y) PROVE Ahead(c, x, y)
  BY <1>2, <1>3, <1>9 DEF Ahead
<1>10. ASSUME a # <<>> PROVE Head(c) = Head(a)
  <2>1. 1 \in 1..Len(a) /\ c # <<>>
    BY <1>1, <1>10
  <2> QED BY <1>3, <2>1, <1>1
<1> QED BY <1>1, <1>6, <1>7, <1>8, <1>9, <1>10 DEF c

\* The head comes before the others.
LEMMA HeadLeads ==
  ASSUME NEW S, NEW t \in Seq(S), NEW r \in ToSet(t)
  PROVE  /\ t # <<>> /\ Head(t) \in ToSet(t)
         /\ r = Head(t) \/ Ahead(t, Head(t), r)
<1>1. PICK i \in 1..Len(t) : t[i] = r
  BY DEF ToSet
<1>2. 1 \in 1..Len(t) /\ t # <<>> /\ Head(t) = t[1] /\ DOMAIN t = 1..Len(t)
  BY <1>1
<1>3. i = 1 \/ 1 < i
  BY <1>1
<1> QED BY <1>1, <1>2, <1>3 DEF ToSet, Ahead

\* The others stay when the head goes.
LEMMA TailIs ==
  ASSUME NEW S, NEW t \in Seq(S), t # <<>>, Once(t)
  PROVE  /\ SubSeq(t, 2, Len(t)) \in Seq(S) /\ Once(SubSeq(t, 2, Len(t)))
         /\ ToSet(SubSeq(t, 2, Len(t))) = ToSet(t) \ {Head(t)}
<1> DEFINE u == SubSeq(t, 2, Len(t))
<1>1. /\ u \in Seq(S) /\ Len(u) = Len(t) - 1 /\ Len(t) \in Nat /\ Len(t) > 0
      /\ Head(t) = t[1]
  <2>1. Len(t) \in Nat /\ Len(t) # 0 /\ Head(t) = t[1]
    OBVIOUS
  <2>2. u \in Seq(S) /\ Len(u) = Len(t) - 1
    <3>1. \A i \in 2..Len(t) : t[i] \in S
      BY <2>1
    <3>2. /\ u \in Seq(S)
          /\ Len(u) = IF 2 <= Len(t) THEN Len(t) - 2 + 1 ELSE 0
      BY <2>1, <3>1, SubSeqProperties
    <3> HIDE DEF u
    <3>3. PICK n \in Nat : n = Len(t) /\ n # 0
      BY <2>1
    <3>4. Len(u) = n - 1
      <4>1. CASE 2 <= n
        BY <3>2, <3>3, <4>1
      <4>2. CASE n = 1
        BY <3>2, <3>3, <4>2
      <4> QED BY <3>3, <4>1, <4>2
    <3> QED BY <3>2, <3>3, <3>4
  <2> HIDE DEF u
  <2> QED BY <2>1, <2>2
<1>2. \A i \in 1..Len(u) : i + 1 \in 1..Len(t) /\ u[i] = t[i + 1]
  BY <1>1
<1> HIDE DEF u
<1>3. DOMAIN t = 1..Len(t) /\ DOMAIN u = 1..Len(u) /\ 1 \in 1..Len(t) /\ Len(u) \in Nat
  BY <1>1
<1>4. Once(u)
  <2> SUFFICES ASSUME NEW i \in 1..Len(u), NEW j \in 1..Len(u), u[i] = u[j] PROVE i = j
    BY <1>3 DEF Once
  <2>1. i + 1 = j + 1
    BY <1>2, <1>3 DEF Once
  <2> QED BY <2>1
<1>5. ASSUME NEW x \in ToSet(u) PROVE x \in ToSet(t) \ {Head(t)}
  <2>1. PICK i \in 1..Len(u) : u[i] = x
    BY <1>3 DEF ToSet
  <2>2. i + 1 \in 1..Len(t) /\ t[i + 1] = x /\ i + 1 # 1
    BY <1>2, <2>1
  <2>3. x # t[1]
    BY <1>3, <2>2 DEF Once
  <2> QED BY <1>1, <1>3, <2>2, <2>3 DEF ToSet
<1>6. ASSUME NEW x \in ToSet(t), x # Head(t) PROVE x \in ToSet(u)
  <2>1. PICK i \in 1..Len(t) : t[i] = x
    BY <1>3 DEF ToSet
  <2>2. i - 1 \in 1..Len(u) /\ (i - 1) + 1 = i
    BY <1>1, <1>6, <2>1
  <2> QED BY <1>2, <1>3, <2>1, <2>2 DEF ToSet
<1> QED BY <1>1, <1>4, <1>5, <1>6 DEF u

\* The orders in which some requests can stand.
LEMMA ArrangementsAre ==
  ASSUME NEW S, IsFiniteSet(S), NEW q
  PROVE  q \in Arrangements(S) <=> q \in Seq(S) /\ Once(q)
<1>1. ASSUME q \in Arrangements(S) PROVE q \in Seq(S) /\ Once(q)
  <2>1. PICK n \in 0..Cardinality(S) : q \in [1..n -> S]
    BY <1>1 DEF Arrangements
  <2>2. n \in Nat
    BY <2>1, FS_CardinalityType
  <2> QED BY <1>1, <2>1, <2>2 DEF Arrangements, Once
<1>2. ASSUME q \in Seq(S), Once(q) PROVE q \in Arrangements(S)
  <2>1. q \in [1..Len(q) -> S] /\ Len(q) \in Nat
    BY <1>2
  <2>2. q \in Injection(1..Len(q), S)
    BY <1>2, <2>1 DEF Injection, IsInjective, Once
  <2>3. Cardinality(1..Len(q)) = Len(q)
    <3>1. Cardinality(1..Len(q)) = IF 1 > Len(q) THEN 0 ELSE Len(q) - 1 + 1
      BY <2>1, FS_Interval
    <3> QED BY <2>1, <3>1
  <2>4. Len(q) \in 0..Cardinality(S)
    BY <2>1, <2>2, <2>3, FS_Injection, FS_CardinalityType
  <2> QED BY <1>2, <2>1, <2>4 DEF Arrangements, Once
<1> QED BY <1>1, <1>2

-----------------------------------------------------------------------------
\* The requests in front of r.
Before(q, r) == {x \in ToSet(q) : Ahead(q, x, r)}

\* The numbers of the planner and of the requests.
TurnNumbers ==
  /\ start \in [Request -> Nat] /\ end \in [Request -> Nat]
  /\ budget \in Int /\ inputs \in Int
  /\ view.start \in [Request -> Nat] /\ view.end \in [Request -> Nat]
  /\ ToSet(view.prefills) \subseteq Request
  /\ view.decoders \in Nat
  /\ passedLong \in [Request -> Nat]

\* The long prefills that were passed over before and could be granted now.
Protected == eligible_long \cap deferred_long

\* No token has been granted: the head is the first protected request.
Unspent ==
  /\ grants = [r \in Request |-> 0]
  /\ eligible_long # {} => budget = PlanBudget(view, cap) /\ inputs = PlanInputs(view)
  /\ eligible_long \subseteq EligibleLong(view, cap)
  /\ eligible_long \subseteq ToSet(order)
  /\ \A r \in Protected :
        /\ Head(order) \in Protected
        /\ r = Head(order) \/ Ahead(queue, Head(order), r)

\* Some request has a grant, and no protected one is in front of it.
Taken ==
  \E x \in ToSet(queue) :
    grants[x] > 0 /\ \A r \in Protected : r = x \/ Ahead(queue, x, r)

PlanInv ==
  turn # "idle" =>
    /\ eligible_long \subseteq ToSet(queue)
    /\ ToSet(order) \subseteq ToSet(queue)
    /\ \A r \in ToSet(order) : grants[r] = 0
    /\ Unspent \/ Taken
    /\ turn = "planned" => order = <<>>

\* A request that was passed over is remembered, and has moved up as often.
WaitInv ==
  \A r \in Request :
    passedLong[r] > 0 =>
      /\ r \in deferred_long
      /\ passedLong[r] + Cardinality(Before(queue, r)) < Cardinality(Request)

\* The inductive invariant of TurnSpec.
TurnInv == TurnTypeOK /\ TurnNumbers /\ PlanInv /\ WaitInv

\* What a queue in TurnTypeOK is.
LEMMA QueueIs ==
  ASSUME TurnTypeOK
  PROVE  /\ queue \in Seq(Request) /\ Once(queue) /\ ToSet(queue) \subseteq Request
         /\ order \in Seq(Request) /\ Once(order) /\ ToSet(order) \subseteq Request
<1>1. queue \in Seq(Request) /\ Once(queue) /\ order \in Seq(Request) /\ Once(order)
  BY RequestAssumption, ArrangementsAre DEF TurnTypeOK
<1> QED BY <1>1 DEF ToSet

\* Fewer are in front of a request when nobody has got in front of it.
LEMMA BeforeShrinks ==
  ASSUME NEW q, NEW u, NEW r, ToSet(q) \subseteq Request, ToSet(u) \subseteq Request,
         Before(u, r) \subseteq Before(q, r)
  PROVE  /\ Cardinality(Before(u, r)) \in Nat /\ Cardinality(Before(q, r)) \in Nat
         /\ Cardinality(Before(u, r)) <= Cardinality(Before(q, r))
         /\ (\E x \in Before(q, r) : x \notin Before(u, r))
              => Cardinality(Before(u, r)) < Cardinality(Before(q, r))
<1>1. Before(q, r) \subseteq Request
  BY DEF Before
<1>2. IsFiniteSet(Before(q, r))
  BY <1>1, RequestAssumption, FS_Subset
<1>3. /\ IsFiniteSet(Before(u, r)) /\ Cardinality(Before(u, r)) <= Cardinality(Before(q, r))
      /\ Cardinality(Before(q, r)) = Cardinality(Before(u, r)) => Before(q, r) = Before(u, r)
  BY <1>2, FS_Subset
<1>4. Cardinality(Before(u, r)) \in Nat /\ Cardinality(Before(q, r)) \in Nat
  BY <1>2, <1>3, FS_CardinalityType
<1> QED BY <1>3, <1>4

\* The grants are numbers of tokens.
LEMMA AllowanceIs ==
  ASSUME NEW w, w.start \in [Request -> Nat], w.end \in [Request -> Nat],
         NEW r \in Request, NEW b \in Int, NEW i \in Int
  PROVE  AllowanceFor(w, r, b, i) \in Nat
<1>1. PICK s \in Nat, e \in Nat : s = w.start[r] /\ e = w.end[r]
  OBVIOUS
<1>2. DraftSlots \in Nat
  BY FairAssumption
<1>3. PICK raw \in Int : raw = Least(Least(b, i - DraftSlots), Most(0, e - s))
  <2>1. i - DraftSlots \in Int /\ e - s \in Int
    BY <1>2
  <2>2. PICK free \in Int, left \in Int : free = i - DraftSlots /\ left = e - s
    BY <2>1
  <2>3. PICK x \in Int, y \in Int : x = Least(b, free) /\ y = Most(0, left)
    <3>1. Least(b, free) \in Int
      BY DEF Least
    <3>2. Most(0, left) \in Int
      BY DEF Most
    <3> QED BY <3>1, <3>2
  <2>4. Least(Least(b, free), Most(0, left)) \in Int
    BY <2>3 DEF Least
  <2> QED BY <2>2, <2>4
<1>4. FloorTo(s + raw, Block) - s \in Int
  BY BlockAssumption DEF FloorTo
<1>5. PICK f \in Int : f = FloorTo(s + raw, Block) - s
  BY <1>4
<1>6. AllowanceFor(w, r, b, i) = Most(0, IF s + raw < e THEN f ELSE raw)
  BY <1>1, <1>3, <1>5 DEF AllowanceFor
<1> QED BY <1>6 DEF Most

LEMMA BudgetIs ==
  ASSUME NEW w, w.decoders \in Nat, NEW c \in Nat
  PROVE  PlanBudget(w, c) \in Int /\ PlanInputs(w) \in Int
<1>1. {K, DraftSlots, MaxScheduled, MaxBatched} \subseteq Nat
  BY FairAssumption
<1>2. DecodeReserved(w) \in Nat
  BY <1>1 DEF DecodeReserved
<1>3. MaxScheduled - DecodeReserved(w) \in Int /\ w.decoders * DraftSlots \in Nat
  BY <1>1, <1>2
<1> QED BY <1>1, <1>2, <1>3 DEF PlanBudget, PlanInputs, Least

-----------------------------------------------------------------------------
\* The known prefills, in the order of the queue, and the new ones behind them.
LEMMA QueuedIs ==
  ASSUME TurnTypeOK, NEW w, w.prefills \in Seq(Request), Once(w.prefills)
  PROVE  /\ Queued(w) \in Seq(Request) /\ Once(Queued(w))
         /\ ToSet(Queued(w)) = ToSet(w.prefills)
         /\ \A x, r : r \in ToSet(queue) /\ Ahead(Queued(w), x, r) => Ahead(queue, x, r)
<1> DEFINE ids == ToSet(w.prefills)
           a == Only(queue, ids)
           b == Only(w.prefills, ids \ ToSet(queue))
<1>1. queue \in Seq(Request) /\ Once(queue)
  BY QueueIs
<1>2. a \in Seq(Request) /\ ToSet(a) = ToSet(queue) \cap ids /\ Once(a)
      /\ \A x, y : Ahead(a, x, y) => Ahead(queue, x, y)
  BY <1>1, OnlyMembers, OnlyKeepsOrder
<1>3. b \in Seq(Request) /\ ToSet(b) = ids \ ToSet(queue) /\ Once(b)
  <2>1. ToSet(b) = ids \cap (ids \ ToSet(queue))
    BY OnlyMembers
  <2> QED BY <2>1, OnlyMembers, OnlyKeepsOrder
<1>4. \A x, y : Ahead(b, x, y) => y \in ToSet(b)
  BY DEF Ahead, ToSet
<1>5. Queued(w) = a \o b
  BY DEF Queued
<1> HIDE DEF a, b
<1>6. /\ a \o b \in Seq(Request) /\ ToSet(a \o b) = ToSet(a) \cup ToSet(b) /\ Once(a \o b)
      /\ \A x, y : Ahead(a \o b, x, y) =>
            Ahead(a, x, y) \/ Ahead(b, x, y) \/ (x \in ToSet(a) /\ y \in ToSet(b))
  <2>1. ToSet(a) \cap ToSet(b) = {}
    BY <1>2, <1>3
  <2> QED BY <1>2, <1>3, <2>1, JoinIs
<1> QED BY <1>2, <1>3, <1>4, <1>5, <1>6

\* The protected prefills are first in line, in the order of the queue.
LEMMA GrantOrderIs ==
  ASSUME NEW w, NEW c, NEW q \in Seq(Request), Once(q), ToSet(q) = ToSet(w.prefills)
  PROVE  /\ GrantOrder(w, c, q) \in Seq(Request) /\ Once(GrantOrder(w, c, q))
         /\ ToSet(GrantOrder(w, c, q)) = ToSet(q)
         /\ \A r \in (deferred_long \cap ToSet(q)) \cap EligibleLong(w, c) :
               /\ Head(GrantOrder(w, c, q)) \in (deferred_long \cap ToSet(q)) \cap EligibleLong(w, c)
               /\ r = Head(GrantOrder(w, c, q)) \/ Ahead(q, Head(GrantOrder(w, c, q)), r)
<1> DEFINE ids == ToSet(w.prefills)
           tails == {r \in ids : TerminalTail(w, r, c)}
           prot == (deferred_long \cap ids) \cap EligibleLong(w, c)
           a == Only(q, prot)
           b == Only(q, tails)
           d == Only(q, ids \ (prot \cup tails))
<1>1. prot \cap tails = {} /\ prot \subseteq ids /\ tails \subseteq ids
  BY DEF EligibleLong
<1>2. /\ a \in Seq(Request) /\ ToSet(a) = prot /\ Once(a)
      /\ \A x, y : Ahead(a, x, y) => Ahead(q, x, y)
  <2>1. ToSet(a) = ToSet(q) \cap prot
    BY OnlyMembers
  <2> QED BY <1>1, <2>1, OnlyMembers, OnlyKeepsOrder
<1>3. b \in Seq(Request) /\ ToSet(b) = tails /\ Once(b)
  <2>1. ToSet(b) = ToSet(q) \cap tails
    BY OnlyMembers
  <2> QED BY <1>1, <2>1, OnlyMembers, OnlyKeepsOrder
<1>4. d \in Seq(Request) /\ ToSet(d) = ids \ (prot \cup tails) /\ Once(d)
  <2>1. ToSet(d) = ToSet(q) \cap (ids \ (prot \cup tails))
    BY OnlyMembers
  <2> QED BY <2>1, OnlyMembers, OnlyKeepsOrder
<1>5. GrantOrder(w, c, q) = a \o b \o d
  BY DEF GrantOrder
<1> HIDE DEF a, b, d, prot, tails
<1>6. /\ a \o b \in Seq(Request) /\ Once(a \o b) /\ ToSet(a \o b) = prot \cup tails
      /\ a # <<>> => Head(a \o b) = Head(a)
  BY <1>1, <1>2, <1>3, JoinIs
<1>7. /\ a \o b \o d \in Seq(Request) /\ Once(a \o b \o d) /\ ToSet(a \o b \o d) = ids
      /\ a \o b # <<>> => Head(a \o b \o d) = Head(a \o b)
  <2>1. ToSet(a \o b) \cap ToSet(d) = {} /\ ToSet(a \o b) \cup ToSet(d) = ids
    BY <1>1, <1>4, <1>6
  <2> QED BY <1>4, <1>6, <2>1, JoinIs
<1>8. ASSUME NEW r \in prot
      PROVE  /\ Head(a \o b \o d) \in prot
             /\ r = Head(a \o b \o d) \/ Ahead(q, Head(a \o b \o d), r)
  <2>1. /\ a # <<>> /\ Head(a) \in prot
        /\ r = Head(a) \/ Ahead(a, Head(a), r)
    BY <1>2, <1>8, HeadLeads
  <2>2. r \in ToSet(a \o b)
    BY <1>6
  <2>3. a \o b # <<>>
    BY <1>6, <2>2, HeadLeads
  <2> QED BY <1>2, <1>6, <1>7, <2>1, <2>3
<1> QED BY <1>5, <1>7, <1>8 DEF prot

-----------------------------------------------------------------------------
\* The initial state has no queue and no history.
LEMMA InitTurn == TurnInit => TurnInv
<1> SUFFICES ASSUME TurnInit PROVE TurnInv
  OBVIOUS
<1>1. <<>> \in Arrangements(Request)
  <2>1. <<>> \in Seq(Request) /\ Once(<<>>)
    BY DEF Once
  <2> QED BY <2>1, RequestAssumption, ArrangementsAre
<1>2. TurnTypeOK
  BY <1>1 DEF TurnInit, FairInit, TurnTypeOK
<1>3. TurnNumbers
  BY DEF TurnInit, FairInit, TurnNumbers, NoView, ToSet
<1>4. PlanInv /\ WaitInv
  BY DEF TurnInit, PlanInv, WaitInv
<1> QED BY <1>2, <1>3, <1>4 DEF TurnInv

\* Between the steps the requests may change as they like.
LEMMA ArriveTurn ==
  ASSUME TurnInv, NEW r \in Request, NEW span \in Spans, Arrive(r, span)
  PROVE  TurnInv'
<1>1. span[1] \in Nat /\ span[2] \in Nat
  BY TurnAssumption
<1>2. TurnTypeOK'
  BY DEF Arrive, fairVars, TurnInv, TurnTypeOK
<1>3. TurnNumbers'
  BY <1>1 DEF Arrive, fairVars, TurnInv, TurnNumbers
<1>4. PlanInv' /\ WaitInv'
  BY DEF Arrive, fairVars, TurnInv, PlanInv, WaitInv
<1> QED BY <1>2, <1>3, <1>4 DEF TurnInv

LEMMA EvictTurn ==
  ASSUME TurnInv, NEW r \in Request, Evict(r)
  PROVE  TurnInv'
<1>1. TurnTypeOK'
  BY DEF Evict, fairVars, TurnInv, TurnTypeOK
<1>2. TurnNumbers'
  BY DEF Evict, fairVars, TurnInv, TurnNumbers
<1>3. PlanInv' /\ WaitInv'
  BY DEF Evict, fairVars, TurnInv, PlanInv, WaitInv
<1> QED BY <1>1, <1>2, <1>3 DEF TurnInv

\* A decode-only step keeps the queue and what it remembers.
LEMMA DecodeTurnKeeps ==
  ASSUME TurnInv, DecodeTurn
  PROVE  TurnInv'
<1>1. <<>> \in Arrangements(Request)
  <2>1. <<>> \in Seq(Request) /\ Once(<<>>)
    BY DEF Once
  <2> QED BY <2>1, RequestAssumption, ArrangementsAre
<1>2. TurnTypeOK'
  BY <1>1 DEF DecodeTurn, FairDefer, TurnInv, TurnTypeOK
<1>3. TurnNumbers'
  BY DEF DecodeTurn, FairDefer, TurnInv, TurnNumbers
<1>4. PlanInv' /\ WaitInv'
  BY DEF DecodeTurn, FairDefer, TurnInv, PlanInv, WaitInv
<1> QED BY <1>2, <1>3, <1>4 DEF TurnInv

\* The grant loop has ended.
LEMMA PlanDoneTurn ==
  ASSUME TurnInv, PlanDone
  PROVE  TurnInv'
<1>1. TurnTypeOK'
  BY DEF PlanDone, fairVars, TurnInv, TurnTypeOK
<1>2. TurnNumbers'
  BY DEF PlanDone, fairVars, TurnInv, TurnNumbers
<1>3. WaitInv'
  BY DEF PlanDone, fairVars, TurnInv, WaitInv
<1>4. Unspent' = Unspent /\ Taken' = Taken
  BY DEF PlanDone, fairVars, Unspent, Taken, Protected
<1>5. PlanInv'
  BY <1>4 DEF PlanDone, fairVars, TurnInv, PlanInv
<1> QED BY <1>1, <1>2, <1>3, <1>5 DEF TurnInv

\* Steps that change nothing preserve the invariant.
LEMMA StutterTurn == TurnInv /\ UNCHANGED turnVars => TurnInv'
  BY DEF turnVars, fairVars, TurnInv, TurnTypeOK, TurnNumbers, PlanInv, WaitInv, Unspent,
         Taken, Protected

\* A plan only moves requests up, and nobody has a grant yet.
LEMMA PlanTurnKeeps ==
  ASSUME TurnInv, NEW d \in 0..MaxDecoders, NEW p \in Arrangements(Prefilling), NEW c \in Caps,
         PlanTurn(d, p, c)
  PROVE  TurnInv'
<1> DEFINE w == [decoders |-> d, prefills |-> p, start |-> start, end |-> end]
           contended == c > 0 /\ (w.decoders > 0 \/ Len(w.prefills) > 1)
           q == IF c > 0 THEN Queued(w) ELSE <<>>
<1>1. /\ turn = "idle" /\ turn' = "planning" /\ view' = w /\ cap' = c
      /\ start' = start /\ end' = end
      /\ passedLong' = [r \in Request |-> IF r \in ToSet(p) /\ c > 0 THEN passedLong[r] ELSE 0]
  BY DEF PlanTurn
<1>2. /\ queue' = q
      /\ deferred_long' = deferred_long \cap ToSet(q)
      /\ granting' = contended
      /\ grants' = [r \in Request |-> 0]
      /\ eligible_long' = IF contended THEN EligibleLong(w, c) ELSE {}
      /\ order' = IF contended THEN GrantOrder(w, c, q) ELSE <<>>
      /\ budget' = IF contended THEN PlanBudget(w, c) ELSE 0
      /\ inputs' = IF contended THEN PlanInputs(w) ELSE 0
  BY DEF PlanTurn, FairPlan
<1>3. /\ w.prefills = p /\ w.decoders = d /\ w.start = start /\ w.end = end
      /\ d \in Nat /\ c \in Nat
  BY TurnAssumption
<1>4. p \in Seq(Request) /\ Once(p) /\ ToSet(p) \subseteq Request
  <2>1. Prefilling \subseteq Request
    BY DEF Prefilling
  <2>2. IsFiniteSet(Prefilling)
    BY <2>1, RequestAssumption, FS_Subset
  <2>3. p \in Seq(Prefilling) /\ Once(p)
    BY <2>2, ArrangementsAre
  <2>4. p \in Seq(Request)
    BY <2>1, <2>3
  <2> QED BY <2>3, <2>4 DEF ToSet
<1>5. <<>> \in Seq(Request) /\ Once(<<>>) /\ ToSet(<<>>) = {}
  BY DEF Once, ToSet
<1> HIDE DEF w
<1>6. /\ Queued(w) \in Seq(Request) /\ Once(Queued(w)) /\ ToSet(Queued(w)) = ToSet(p)
      /\ \A x, r : r \in ToSet(queue) /\ Ahead(Queued(w), x, r) => Ahead(queue, x, r)
  BY <1>3, <1>4, QueuedIs DEF TurnInv
<1>7. q \in Seq(Request) /\ Once(q) /\ ToSet(q) \subseteq Request
  BY <1>4, <1>5, <1>6
<1>8. EligibleLong(w, c) \subseteq ToSet(p)
  BY <1>3 DEF EligibleLong
<1> HIDE DEF q, contended
<1>9. contended => c > 0
  BY DEF contended
<1>10. c > 0 => q = Queued(w)
  BY DEF q
<1>11. contended =>
         /\ GrantOrder(w, c, q) \in Seq(Request) /\ Once(GrantOrder(w, c, q))
         /\ ToSet(GrantOrder(w, c, q)) = ToSet(q)
         /\ \A r \in (deferred_long \cap ToSet(q)) \cap EligibleLong(w, c) :
               /\ Head(GrantOrder(w, c, q)) \in (deferred_long \cap ToSet(q)) \cap EligibleLong(w, c)
               /\ r = Head(GrantOrder(w, c, q)) \/ Ahead(q, Head(GrantOrder(w, c, q)), r)
  BY <1>3, <1>6, <1>7, <1>9, <1>10, GrantOrderIs
<1>12. TurnTypeOK'
  <2>1. queue' \in Arrangements(Request)
    BY <1>2, <1>7, RequestAssumption, ArrangementsAre
  <2>2. order' \in Seq(Request) /\ Once(order')
    BY <1>2, <1>5, <1>11
  <2>3. order' \in Arrangements(Request)
    BY <2>2, RequestAssumption, ArrangementsAre
  <2>4. deferred_long' \subseteq ToSet(queue')
    BY <1>2
  <2>5. eligible_long' \subseteq Request
    BY <1>2, <1>4, <1>8
  <2>6. granting' \in BOOLEAN
    BY <1>2 DEF contended
  <2>7. grants' \in [Request -> Nat]
    BY <1>2
  <2> QED BY <1>1, <2>1, <2>3, <2>4, <2>5, <2>6, <2>7 DEF TurnTypeOK
<1>13. TurnNumbers'
  <2>1. budget' \in Int /\ inputs' \in Int
    <3>1. PlanBudget(w, c) \in Int /\ PlanInputs(w) \in Int
      BY <1>3, BudgetIs
    <3> QED BY <1>2, <3>1
  <2>2. passedLong' \in [Request -> Nat]
    BY <1>1 DEF TurnInv, TurnNumbers
  <2>3. start \in [Request -> Nat] /\ end \in [Request -> Nat]
    BY DEF TurnInv, TurnNumbers
  <2> QED BY <1>1, <1>3, <1>4, <2>1, <2>2, <2>3 DEF TurnNumbers
<1>14. PlanInv'
  <2>1. eligible_long' \subseteq ToSet(queue')
    BY <1>2, <1>6, <1>8, <1>9, <1>10
  <2>2. ToSet(order') \subseteq ToSet(queue')
    BY <1>2, <1>5, <1>11
  <2>3. \A r \in ToSet(order') : grants'[r] = 0
    BY <1>2, <1>7, <2>2
  <2>4. Unspent'
    <3>1. eligible_long' # {} => budget' = PlanBudget(view, cap)' /\ inputs' = PlanInputs(view)'
      BY <1>1, <1>2
    <3>2. eligible_long' \subseteq EligibleLong(view, cap)'
      BY <1>1, <1>2
    <3>3. eligible_long' \subseteq ToSet(order')
      BY <1>2, <1>6, <1>8, <1>9, <1>10, <1>11
    <3>4. \A r \in Protected' :
            /\ Head(order') \in Protected'
            /\ r = Head(order') \/ Ahead(queue', Head(order'), r)
      BY <1>2, <1>11 DEF Protected
    <3> QED BY <1>2, <3>1, <3>2, <3>3, <3>4 DEF Unspent
  <2> QED BY <1>1, <2>1, <2>2, <2>3, <2>4 DEF PlanInv
<1>15. WaitInv'
  <2> SUFFICES ASSUME NEW r \in Request, passedLong'[r] > 0
               PROVE  /\ r \in deferred_long'
                      /\ passedLong'[r] + Cardinality(Before(queue', r)) < Cardinality(Request)
    BY DEF WaitInv
  <2>1. r \in ToSet(p) /\ c > 0 /\ passedLong'[r] = passedLong[r]
    BY <1>1
  <2>2. r \in deferred_long /\ passedLong[r] + Cardinality(Before(queue, r)) < Cardinality(Request)
    BY <2>1 DEF TurnInv, WaitInv
  <2>3. r \in ToSet(queue)
    BY <2>2 DEF TurnInv, TurnTypeOK
  <2>4. Before(q, r) \subseteq Before(queue, r)
    <3>1. ASSUME NEW x \in Before(q, r) PROVE Ahead(queue, x, r)
      BY <1>6, <1>10, <2>1, <2>3, <3>1 DEF Before
    <3>2. \A x : Ahead(queue, x, r) => x \in ToSet(queue)
      BY DEF Ahead, ToSet
    <3> QED BY <3>1, <3>2 DEF Before
  <2>5. /\ Cardinality(Before(q, r)) \in Nat /\ Cardinality(Before(queue, r)) \in Nat
        /\ Cardinality(Before(q, r)) <= Cardinality(Before(queue, r))
    BY <1>7, <2>4, BeforeShrinks, QueueIs DEF TurnInv
  <2>6. passedLong[r] \in Nat /\ Cardinality(Request) \in Nat
    BY RequestAssumption, FS_CardinalityType DEF TurnInv, TurnNumbers
  <2>7. passedLong[r] + Cardinality(Before(q, r)) < Cardinality(Request)
    BY <2>2, <2>5, <2>6
  <2>8. r \in deferred_long'
    BY <1>2, <1>6, <1>10, <2>1, <2>2
  <2> QED BY <1>2, <2>1, <2>7, <2>8
<1> QED BY <1>12, <1>13, <1>14, <1>15 DEF TurnInv

\* A grant: the first request that gets tokens is in front of every
\* protected one.
LEMMA GrantTurnKeeps ==
  ASSUME TurnInv, GrantTurn
  PROVE  TurnInv'
<1> DEFINE h == Head(order)
           a == AllowanceFor(view, h, budget, inputs)
<1>1. /\ turn = "planning" /\ order # <<>>
      /\ order' = SubSeq(order, 2, Len(order))
      /\ grants' = [grants EXCEPT ![h] = a]
      /\ budget' = budget - a
      /\ inputs' = IF a > 0 THEN inputs - (a + DraftSlots) ELSE inputs
      /\ UNCHANGED <<queue, deferred_long, eligible_long, granting, turn, view, cap, start, end,
                     passedLong>>
  BY DEF GrantTurn, FairGrant
<1>2. order \in Seq(Request) /\ Once(order) /\ ToSet(order) \subseteq Request
  BY QueueIs DEF TurnInv
<1>3. /\ order' \in Seq(Request) /\ Once(order') /\ ToSet(order') = ToSet(order) \ {h}
      /\ h \in ToSet(order) /\ h \in Request
  <2>1. h \in ToSet(order)
    <3>1. 1 \in 1..Len(order) /\ h = order[1] /\ DOMAIN order = 1..Len(order)
      BY <1>1, <1>2
    <3> QED BY <3>1 DEF ToSet
  <2> QED BY <1>1, <1>2, <2>1, TailIs
<1>4. a \in Nat
  BY <1>3, AllowanceIs DEF TurnInv, TurnNumbers
<1>5. h \in ToSet(queue) /\ grants[h] = 0 /\ grants \in [Request -> Nat]
  BY <1>1, <1>3 DEF TurnInv, PlanInv, TurnTypeOK
<1> HIDE DEF h, a
<1>6. TurnTypeOK'
  <2>1. order' \in Arrangements(Request)
    BY <1>3, RequestAssumption, ArrangementsAre
  <2>2. grants' \in [Request -> Nat]
    BY <1>1, <1>4, <1>5
  <2> QED BY <1>1, <2>1, <2>2 DEF TurnInv, TurnTypeOK
<1>7. TurnNumbers'
  <2>1. budget' \in Int
    BY <1>1, <1>4 DEF TurnInv, TurnNumbers
  <2>2. inputs' \in Int
    BY <1>1, <1>4, FairAssumption DEF TurnInv, TurnNumbers
  <2> QED BY <1>1, <2>1, <2>2 DEF TurnInv, TurnNumbers
<1>8. WaitInv'
  BY <1>1 DEF TurnInv, WaitInv
<1>9. PlanInv'
  <2>1. /\ eligible_long \subseteq ToSet(queue) /\ ToSet(order) \subseteq ToSet(queue)
        /\ \A r \in ToSet(order) : grants[r] = 0
        /\ Unspent \/ Taken
    BY <1>1 DEF TurnInv, PlanInv
  <2>2. \A r \in ToSet(order') : grants'[r] = 0
    BY <1>1, <1>2, <1>3, <1>5, <2>1
  <2>3. Protected' = Protected
    BY <1>1 DEF Protected
  <2>4. CASE Taken
    <3>1. PICK x \in ToSet(queue) :
            grants[x] > 0 /\ \A r \in Protected : r = x \/ Ahead(queue, x, r)
      BY <2>4 DEF Taken
    <3>2. grants'[x] = grants[x]
      <4>1. x # h /\ x \in Request
        BY <1>5, <3>1, QueueIs DEF TurnInv
      <4> QED BY <1>1, <1>5, <4>1
    <3>3. Taken'
      BY <1>1, <2>3, <3>1, <3>2 DEF Taken
    <3> QED BY <1>1, <1>3, <2>1, <2>2, <3>3 DEF PlanInv
  <2>5. CASE Unspent /\ a > 0
    <3>1. grants'[h] = a
      BY <1>1, <1>3, <1>5
    <3>2. \A r \in Protected : r = h \/ Ahead(queue, h, r)
      BY <2>5, Zenon DEF Unspent, h
    <3>3. Taken'
      BY <1>1, <1>5, <2>3, <2>5, <3>1, <3>2 DEF Taken
    <3> QED BY <1>1, <1>3, <2>1, <2>2, <3>3 DEF PlanInv
  <2>6. CASE Unspent /\ a = 0
    <3>1. grants' = grants /\ grants = [r \in Request |-> 0]
      BY <1>1, <1>5, <2>6 DEF Unspent
    <3>2. budget' = budget /\ inputs' = inputs
      BY <1>1, <2>6 DEF TurnInv, TurnNumbers
    <3>3. h \notin eligible_long
      <4> SUFFICES ASSUME h \in eligible_long PROVE FALSE
        OBVIOUS
      <4>1. budget = PlanBudget(view, cap) /\ inputs = PlanInputs(view)
            /\ h \in EligibleLong(view, cap)
        BY <2>6 DEF Unspent
      <4>2. AllowanceFor(view, h, PlanBudget(view, cap), PlanInputs(view)) > 0
        BY <4>1 DEF EligibleLong
      <4> QED BY <2>6, <4>1, <4>2 DEF a
    <3>4. Protected = {}
      <4>1. \A r \in Protected : h \in Protected
        BY <2>6, Zenon DEF Unspent, h
      <4> QED BY <3>3, <4>1 DEF Protected
    <3>5. /\ PlanBudget(view, cap)' = PlanBudget(view, cap) /\ PlanInputs(view)' = PlanInputs(view)
          /\ EligibleLong(view, cap)' = EligibleLong(view, cap)
      BY <1>1
    <3>6. eligible_long \subseteq ToSet(order')
      BY <1>3, <2>6, <3>3 DEF Unspent
    <3>7. Unspent'
      BY <1>1, <2>3, <2>6, <3>1, <3>2, <3>4, <3>5, <3>6 DEF Unspent
    <3> QED BY <1>1, <1>3, <2>1, <2>2, <3>7 DEF PlanInv
  <2> QED BY <1>4, <2>1, <2>4, <2>5, <2>6
<1> QED BY <1>6, <1>7, <1>8, <1>9 DEF TurnInv

\* A step that is over: whoever had a turn goes to the end of the queue, so
\* every request passed over has fewer in front of it than before.
LEMMA ObserveTurnKeeps ==
  ASSUME TurnInv, NEW served \in SUBSET Servable, NEW to \in Positions(served),
         ObserveTurn(served, to)
  PROVE  TurnInv'
<1> DEFINE Q == ToSet(queue)
           off == Offered(served)
           a == Only(queue, Q \ off)
           b == Only(queue, off)
           N == Cardinality(Request)
<1>1. /\ turn = "planned" /\ turn' = "idle" /\ view' = NoView /\ cap' = 0 /\ end' = end
      /\ start' = [r \in Request |-> IF r \in served THEN to[r] ELSE start[r]]
      /\ passedLong' = [r \in Request |->
                          CASE r \in off -> 0
                            [] r \in eligible_long \ off -> Least(passedLong[r] + 1, N)
                            [] OTHER -> passedLong[r]]
  BY DEF ObserveTurn
<1>2. /\ deferred_long' = (deferred_long \cup eligible_long) \ off
      /\ queue' = a \o b
      /\ budget' = 0 /\ inputs' = 0
      /\ UNCHANGED <<eligible_long, granting, grants, order>>
  BY DEF ObserveTurn, FairObserve
<1>3. queue \in Seq(Request) /\ Once(queue) /\ Q \subseteq Request
  BY QueueIs DEF TurnInv
<1>4. /\ a \in Seq(Request) /\ ToSet(a) = Q \ off /\ Once(a)
      /\ \A x, y : Ahead(a, x, y) => Ahead(queue, x, y)
  <2>1. ToSet(a) = Q \cap (Q \ off)
    BY <1>3, OnlyMembers
  <2> QED BY <1>3, <2>1, OnlyMembers, OnlyKeepsOrder
<1>5. b \in Seq(Request) /\ ToSet(b) = Q \cap off /\ Once(b)
  BY <1>3, OnlyMembers, OnlyKeepsOrder
<1>6. \A x \in Q : grants[x] > 0 => x \in off
  BY DEF Offered
<1> HIDE DEF off, a, b
<1>7. /\ queue' \in Seq(Request) /\ Once(queue') /\ ToSet(queue') = Q
      /\ \A x, y : Ahead(queue', x, y) =>
            Ahead(a, x, y) \/ Ahead(b, x, y) \/ (x \in ToSet(a) /\ y \in ToSet(b))
  <2>1. ToSet(a) \cap ToSet(b) = {} /\ ToSet(a) \cup ToSet(b) = Q
    BY <1>4, <1>5
  <2> QED BY <1>2, <1>4, <1>5, <2>1, JoinIs
<1>8. eligible_long \subseteq Q /\ order = <<>> /\ deferred_long \subseteq Q
  BY <1>1 DEF TurnInv, PlanInv, TurnTypeOK
<1>9. ASSUME NEW r \in Request, r \notin off
      PROVE  Before(queue', r) \subseteq Before(queue, r) \ off
  <2> SUFFICES ASSUME NEW x \in Before(queue', r) PROVE x \in Before(queue, r) \ off
    OBVIOUS
  <2>1. Ahead(a, x, r) \/ Ahead(b, x, r) \/ (x \in ToSet(a) /\ r \in ToSet(b))
    BY <1>7 DEF Before
  <2>2. ~Ahead(b, x, r)
    <3>1. Ahead(b, x, r) => r \in ToSet(b)
      BY DEF Ahead, ToSet
    <3> QED BY <1>5, <1>9, <3>1
  <2>3. Ahead(a, x, r)
    BY <1>5, <1>9, <2>1, <2>2
  <2>4. x \in ToSet(a) /\ Ahead(queue, x, r)
    BY <1>4, <2>3 DEF Ahead, ToSet
  <2> QED BY <1>4, <2>4 DEF Before
<1>10. TurnTypeOK'
  <2>1. queue' \in Arrangements(Request)
    BY <1>7, RequestAssumption, ArrangementsAre
  <2>2. deferred_long' \subseteq ToSet(queue')
    BY <1>2, <1>7, <1>8
  <2> QED BY <1>1, <1>2, <2>1, <2>2 DEF TurnInv, TurnTypeOK
<1>11. N \in Nat
  BY RequestAssumption, FS_CardinalityType
<1>12. passedLong \in [Request -> Nat]
  BY DEF TurnInv, TurnNumbers
<1> HIDE DEF N
<1>13. TurnNumbers'
  <2>1. start' \in [Request -> Nat]
    <3>1. start \in [Request -> Nat] /\ end \in [Request -> Nat]
          /\ ToSet(view.prefills) \subseteq Request
      BY DEF TurnInv, TurnNumbers
    <3>2. \A r \in served : r \in Request
      BY <3>1 DEF Servable
    <3>3. \A r \in served : to[r] \in start[r] + 1..end[r]
      BY DEF Positions
    <3>4. \A r \in served : to[r] \in Nat
      <4> TAKE r \in served
      <4>1. start[r] \in Nat /\ end[r] \in Nat
        BY <3>1, <3>2
      <4> QED BY <3>3, <4>1
    <3> QED BY <1>1, <3>1, <3>4
  <2>2. passedLong' \in [Request -> Nat]
    <3>1. \A r \in Request : Least(passedLong[r] + 1, N) \in Nat
      BY <1>11, <1>12 DEF Least
    <3> QED BY <1>1, <1>12, <3>1
  <2>3. /\ NoView.start \in [Request -> Nat] /\ NoView.end \in [Request -> Nat]
        /\ ToSet(NoView.prefills) \subseteq Request /\ NoView.decoders \in Nat
    BY DEF NoView, ToSet
  <2> QED BY <1>1, <1>2, <2>1, <2>2, <2>3 DEF TurnInv, TurnNumbers
<1>14. PlanInv'
  BY <1>1 DEF PlanInv
<1>15. WaitInv'
  <2> SUFFICES ASSUME NEW r \in Request, passedLong'[r] > 0
               PROVE  /\ r \in deferred_long'
                      /\ passedLong'[r] + Cardinality(Before(queue', r)) < N
    BY DEF WaitInv, N
  <2>1. r \notin off
    BY <1>1
  <2>2. Before(queue', r) \subseteq Before(queue, r) \ off
    BY <1>9, <2>1
  <2>3. /\ Cardinality(Before(queue', r)) \in Nat /\ Cardinality(Before(queue, r)) \in Nat
        /\ Cardinality(Before(queue', r)) <= Cardinality(Before(queue, r))
        /\ (\E x \in Before(queue, r) : x \notin Before(queue', r))
              => Cardinality(Before(queue', r)) < Cardinality(Before(queue, r))
    BY <1>3, <1>7, <2>2, BeforeShrinks
  <2>4. passedLong[r] \in Nat
    BY <1>12
  <2>5. passedLong[r] > 0 =>
          r \in deferred_long /\ passedLong[r] + Cardinality(Before(queue, r)) < N
    BY DEF TurnInv, WaitInv, N
  <2>6. CASE r \notin eligible_long
    <3>1. passedLong'[r] = passedLong[r]
      BY <1>1, <2>1, <2>6
    <3>2. r \in deferred_long'
      BY <1>2, <2>1, <2>5, <3>1
    <3> QED BY <1>11, <2>3, <2>4, <2>5, <3>1, <3>2
  <2>7. CASE r \in eligible_long
    <3>1. passedLong'[r] = Least(passedLong[r] + 1, N)
      BY <1>1, <2>1, <2>7
    <3>2. passedLong'[r] \in Nat /\ passedLong'[r] <= passedLong[r] + 1
      BY <1>11, <2>4, <3>1 DEF Least
    <3>3. Taken
      <4>1. ToSet(order) = {}
        BY <1>8 DEF ToSet
      <4>2. ~Unspent
        BY <2>7, <4>1 DEF Unspent
      <4> QED BY <1>1, <4>2 DEF TurnInv, PlanInv
    <3>4. PICK x \in Q :
            grants[x] > 0 /\ \A s \in Protected : s = x \/ Ahead(queue, x, s)
      BY <3>3 DEF Taken
    <3>5. x \in off /\ x # r /\ x \notin Before(queue', r)
      BY <1>6, <2>1, <2>2, <3>4
    <3>6. r \in deferred_long'
      BY <1>2, <2>1, <2>7
    <3>7. CASE passedLong[r] > 0
      <4>1. Ahead(queue, x, r)
        BY <2>5, <2>7, <3>4, <3>5, <3>7 DEF Protected
      <4>2. x \in Before(queue, r)
        BY <4>1 DEF Before
      <4> QED BY <1>11, <2>3, <2>4, <2>5, <3>2, <3>5, <3>6, <3>7, <4>2
    <3>8. CASE passedLong[r] = 0
      <4>1. r \notin Before(queue', r)
        <5>1. ~Ahead(queue, r, r)
          BY <1>3 DEF Ahead, Once
        <5> QED BY <2>2, <5>1 DEF Before
      <4>2. Before(queue', r) \subseteq Request
        BY <1>3, <1>7 DEF Before
      <4>3. /\ IsFiniteSet(Request \ {r}) /\ Cardinality(Request \ {r}) = N - 1
        BY RequestAssumption, FS_RemoveElement DEF N
      <4>4. x \in Request \ {r}
        BY <1>3, <3>5
      <4>5. /\ IsFiniteSet((Request \ {r}) \ {x})
            /\ Cardinality((Request \ {r}) \ {x}) = N - 1 - 1
        <5>1. PICK S : S = Request \ {r}
          OBVIOUS
        <5>2. IsFiniteSet(S \ {x}) /\ Cardinality(S \ {x}) = Cardinality(S) - 1
          BY <4>3, <4>4, <5>1, FS_RemoveElement
        <5> QED BY <4>3, <5>1, <5>2
      <4>6. Before(queue', r) \subseteq (Request \ {r}) \ {x}
        BY <3>5, <4>1, <4>2
      <4>7. Cardinality(Before(queue', r)) <= N - 1 - 1
        BY <4>5, <4>6, FS_Subset
      <4> QED BY <1>11, <2>3, <3>2, <3>6, <3>8, <4>7
    <3> QED BY <2>4, <3>7, <3>8
  <2> QED BY <2>6, <2>7
<1> QED BY <1>10, <1>13, <1>14, <1>15 DEF TurnInv

-----------------------------------------------------------------------------
\* The inductive invariant of the planner under an arbitrary scheduler.
THEOREM TurnInvariant == TurnSpec => []TurnInv
<1>1. TurnInv /\ [TurnNext]_turnVars => TurnInv'
  <2> SUFFICES ASSUME TurnInv, [TurnNext]_turnVars PROVE TurnInv'
    OBVIOUS
  <2>1. CASE TurnNext
    BY <2>1, ArriveTurn, EvictTurn, PlanTurnKeeps, GrantTurnKeeps, PlanDoneTurn,
       DecodeTurnKeeps, ObserveTurnKeeps DEF TurnNext
  <2>2. CASE UNCHANGED turnVars
    BY <2>2, StutterTurn
  <2> QED BY <2>1, <2>2
<1> QED BY InitTurn, <1>1, PTL DEF TurnSpec

\* No long prefill is passed over by as many plans in a row as there are
\* requests (fair_prefill.py, plan and observe).
THEOREM LongPrefillsGetTheirTurn == TurnSpec => []LongBypassBounded
<1>1. TurnInv => LongBypassBounded
  <2> SUFFICES ASSUME TurnInv, NEW r \in Request PROVE passedLong[r] < Cardinality(Request)
    BY Zenon DEF LongBypassBounded
  <2>1. passedLong[r] \in Nat /\ Cardinality(Request) \in Nat
    BY RequestAssumption, FS_CardinalityType DEF TurnInv, TurnNumbers
  <2>2. Cardinality(Request) # 0
    BY RequestAssumption, FS_EmptySet
  <2>3. Cardinality(Before(queue, r)) \in Nat
    BY QueueIs, BeforeShrinks DEF TurnInv
  <2> QED BY <2>1, <2>2, <2>3 DEF TurnInv, WaitInv
<1> QED BY TurnInvariant, <1>1, PTL

-----------------------------------------------------------------------------
\* The sums that FoldSet makes over sets of requests.

\* The sum of f over a set.
Total(f, S) == FoldSet(LAMBDA r, n : f[r] + n, 0, S)

\* The element that FoldSet takes from a set.
Chosen(s) == CHOOSE x \in s : TRUE

\* g has the sums over every set of D.
Sums(f, g, D) ==
  \A s \in D : g[s] = IF s = {} THEN 0 ELSE f[Chosen(s)] + g[s \ {Chosen(s)}]

\* A set of sets that grows from the empty set has all subsets of a finite set.
LEMMA EverySubset ==
  ASSUME NEW S, IsFiniteSet(S), NEW G,
         \A s \in SUBSET S : (\A x \in s : s \ {x} \in G) => s \in G
  PROVE  \A s \in SUBSET S : s \in G
<1> DEFINE B == {s \in SUBSET S : s \notin G}
           N == {Cardinality(s) : s \in B}
<1> SUFFICES ASSUME B # {} PROVE FALSE
  OBVIOUS
<1>1. \A s \in SUBSET S : IsFiniteSet(s) /\ Cardinality(s) \in Nat
  BY FS_Subset, FS_CardinalityType
<1>2. PICK n \in N : \A m \in N : n <= m
  <2>1. N \subseteq Nat /\ N # {}
    BY <1>1
  <2> HIDE DEF N
  <2> QED BY <2>1, LeastExists
<1>3. PICK s \in B : Cardinality(s) = n
  BY <1>2
<1>4. ASSUME NEW x \in s PROVE s \ {x} \in G
  <2>1. s \ {x} \in SUBSET S /\ s \in SUBSET S
    OBVIOUS
  <2>2. Cardinality(s \ {x}) = Cardinality(s) - 1
    BY <1>1, <2>1, FS_RemoveElement
  <2>3. Cardinality(s) \in Nat
    BY <1>1, <2>1
  <2>4. s \ {x} \notin B
    <3>1. s \ {x} \in B => n <= Cardinality(s \ {x})
      BY <1>2
    <3> QED BY <1>3, <2>2, <2>3, <3>1
  <2> QED BY <2>1, <2>4
<1> QED BY <1>3, <1>4

\* The recursion of FoldSet has a solution.
LEMMA SumsExist ==
  ASSUME NEW S, IsFiniteSet(S), NEW f, \A x \in S : f[x] \in Nat
  PROVE  \E g \in [SUBSET S -> Nat] : Sums(f, g, SUBSET S)
<1> DEFINE D(n) == {s \in SUBSET S : Cardinality(s) <= n}
           G == {n \in 0..Cardinality(S) : \E g \in [D(n) -> Nat] : Sums(f, g, D(n))}
<1>1. \A s \in SUBSET S : IsFiniteSet(s) /\ Cardinality(s) \in Nat /\ Cardinality(s) <= Cardinality(S)
  BY FS_Subset, FS_CardinalityType
<1>2. Cardinality(S) \in Nat
  BY FS_CardinalityType
<1>3. \A s \in SUBSET S : s # {} =>
        /\ Chosen(s) \in s /\ s \ {Chosen(s)} \in SUBSET S
        /\ Cardinality(s \ {Chosen(s)}) = Cardinality(s) - 1
  <2> TAKE s \in SUBSET S
  <2> HAVE s # {}
  <2>1. Chosen(s) \in s
    BY DEF Chosen
  <2> QED BY <1>1, <2>1, FS_RemoveElement
<1>4. 0 \in G
  <2>1. \A s \in D(0) : s = {}
    <3> TAKE s \in D(0)
    <3>1. Cardinality(s) = 0 /\ IsFiniteSet(s)
      BY <1>1
    <3> QED BY <3>1, FS_EmptySet
  <2>2. [s \in D(0) |-> 0] \in [D(0) -> Nat]
    OBVIOUS
  <2>3. Sums(f, [s \in D(0) |-> 0], D(0))
    BY <2>1 DEF Sums
  <2>4. \E g \in [D(0) -> Nat] : Sums(f, g, D(0))
    <3> HIDE DEF D
    <3> QED BY <2>2, <2>3
  <2>5. \A n \in 0..Cardinality(S) : (\E g \in [D(n) -> Nat] : Sums(f, g, D(n))) => n \in G
    <3> HIDE DEF D
    <3> QED OBVIOUS
  <2> HIDE DEF G, D
  <2> QED BY <1>2, <2>4, <2>5
<1>5. ASSUME NEW n \in 0..Cardinality(S), n < Cardinality(S), n \in G
      PROVE  n + 1 \in G
  <2>1. PICK g \in [D(n) -> Nat] : Sums(f, g, D(n))
    BY <1>5
  <2> DEFINE h == [s \in D(n + 1) |->
                     IF s = {} THEN 0 ELSE f[Chosen(s)] + g[s \ {Chosen(s)}]]
  <2>2. \A s \in D(n + 1) : s # {} =>
          s \ {Chosen(s)} \in D(n) /\ f[Chosen(s)] \in Nat /\ g[s \ {Chosen(s)}] \in Nat
    <3> TAKE s \in D(n + 1)
    <3> HAVE s # {}
    <3>1. s \ {Chosen(s)} \in D(n)
      <4>1. s \in SUBSET S /\ Cardinality(s) <= n + 1 /\ Cardinality(s) \in Nat
        BY <1>1
      <4>2. s \ {Chosen(s)} \in SUBSET S /\ Cardinality(s \ {Chosen(s)}) = Cardinality(s) - 1
        BY <1>3, <4>1
      <4> QED BY <4>1, <4>2
    <3>2. Chosen(s) \in S
      BY <1>3
    <3> HIDE DEF D
    <3> QED BY <2>1, <3>1, <3>2
  <2>3. h \in [D(n + 1) -> Nat]
    <3>1. \A s \in D(n + 1) : h[s] \in Nat
      <4> HIDE DEF D
      <4> QED BY <2>2
    <3> HIDE DEF D
    <3> QED BY <3>1
  <2>4. \A s \in D(n) : s \in D(n + 1) /\ h[s] = g[s]
    <3> TAKE s \in D(n)
    <3>1. s \in D(n + 1)
      BY <1>1
    <3>2. g[s] = IF s = {} THEN 0 ELSE f[Chosen(s)] + g[s \ {Chosen(s)}]
      BY <2>1 DEF Sums
    <3> HIDE DEF D
    <3> QED BY <3>1, <3>2
  <2>5. Sums(f, h, D(n + 1))
    <3> SUFFICES ASSUME NEW s \in D(n + 1)
                 PROVE  h[s] = IF s = {} THEN 0 ELSE f[Chosen(s)] + h[s \ {Chosen(s)}]
      BY DEF Sums
    <3> HIDE DEF D
    <3>1. CASE s = {}
      BY <3>1
    <3>2. CASE s # {}
      <4>1. h[s \ {Chosen(s)}] = g[s \ {Chosen(s)}]
        BY <2>2, <2>4, <3>2
      <4>2. h[s] = f[Chosen(s)] + g[s \ {Chosen(s)}]
        BY <3>2
      <4> HIDE DEF h
      <4> QED BY <3>2, <4>1, <4>2
    <3> QED BY <3>1, <3>2
  <2>6. n + 1 \in 0..Cardinality(S)
    BY <1>2, <1>5
  <2> HIDE DEF h, D
  <2> QED BY <2>3, <2>5, <2>6
<1>6. Cardinality(S) \in G
  <2> HIDE DEF G
  <2> QED BY <1>2, <1>4, <1>5, UpTo
<1>7. D(Cardinality(S)) = SUBSET S
  BY <1>1
<1> QED BY <1>6, <1>7

\* The sums over the subsets of S are what the recursion says.
LEMMA SumsUnique ==
  ASSUME NEW S, IsFiniteSet(S), NEW f, NEW g, NEW h,
         Sums(f, g, SUBSET S), Sums(f, h, SUBSET S)
  PROVE  \A s \in SUBSET S : g[s] = h[s]
<1> DEFINE G == {s \in SUBSET S : g[s] = h[s]}
<1>1. ASSUME NEW s \in SUBSET S, \A x \in s : s \ {x} \in G
      PROVE  s \in G
  <2>1. CASE s = {}
    BY <2>1 DEF Sums
  <2>2. CASE s # {}
    <3>1. Chosen(s) \in s
      BY <2>2 DEF Chosen
    <3>2. g[s \ {Chosen(s)}] = h[s \ {Chosen(s)}]
      BY <1>1, <3>1
    <3> QED BY <2>2, <3>2 DEF Sums
  <2> QED BY <2>1, <2>2
<1>2. \A s \in SUBSET S : s \in G
  <2> HIDE DEF G
  <2> QED BY <1>1, EverySubset
<1> QED BY <1>2

\* FoldSet makes these sums.
LEMMA TotalIs ==
  ASSUME NEW S, IsFiniteSet(S), NEW f, \A x \in S : f[x] \in Nat
  PROVE  \E g \in [SUBSET S -> Nat] : Sums(f, g, SUBSET S) /\ Total(f, S) = g[S]
<1> DEFINE ch(s) == CHOOSE x \in s : TRUE
           Body(g, s) == IF s = {} THEN 0 ELSE f[ch(s)] + g[s \ {ch(s)}]
           Solves(g) == g = [s \in SUBSET S |-> Body(g, s)]
           iter == CHOOSE g : Solves(g)
<1>1. Total(f, S) = iter[S]
  BY DEF Total, FoldSet, MapThenFoldSet
<1>2. PICK g \in [SUBSET S -> Nat] : Sums(f, g, SUBSET S)
  BY SumsExist
<1>3. Solves(g)
  <2>1. g = [s \in SUBSET S |-> g[s]]
    OBVIOUS
  <2>2. \A s \in SUBSET S : g[s] = Body(g, s)
    BY <1>2 DEF Sums, Chosen
  <2> HIDE DEF Body
  <2> QED BY <2>1, <2>2
<1>4. Solves(iter)
  <2> HIDE DEF Solves
  <2> QED BY <1>3
<1> HIDE DEF iter
<1>5. \A s \in SUBSET S : iter[s] = Body(iter, s)
  <2> HIDE DEF Body
  <2> QED BY <1>4
<1>6. Sums(f, iter, SUBSET S)
  BY <1>5 DEF Sums, Chosen
<1>7. iter[S] = g[S]
  BY <1>2, <1>6, SumsUnique
<1> QED BY <1>1, <1>2, <1>7

\* g has the sums over the subsets of S.
Summed(S, f, g) ==
  /\ \A x \in S : f[x] \in Nat
  /\ g \in [SUBSET S -> Nat]
  /\ Sums(f, g, SUBSET S)

LEMMA SummedIs ==
  ASSUME NEW S, IsFiniteSet(S), NEW f, f \in [S -> Nat]
  PROVE  \E g : Summed(S, f, g) /\ Total(f, S) = g[S]
<1>1. \A x \in S : f[x] \in Nat
  OBVIOUS
<1>2. PICK g \in [SUBSET S -> Nat] : Sums(f, g, SUBSET S) /\ Total(f, S) = g[S]
  BY <1>1, TotalIs
<1> QED BY <1>1, <1>2 DEF Summed

\* The order in which the elements are taken does not matter.
LEMMA SumsTake ==
  ASSUME NEW S, IsFiniteSet(S), NEW f, NEW g, Summed(S, f, g),
         NEW t, t \subseteq S, NEW y, y \in t
  PROVE  g[t] = f[y] + g[t \ {y}]
<1> USE DEF Summed
<1> DEFINE G == {s \in SUBSET S : \A x \in s : g[s] = f[x] + g[s \ {x}]}
<1>1. ASSUME NEW s \in SUBSET S, \A x \in s : s \ {x} \in G
      PROVE  s \in G
  <2> SUFFICES ASSUME NEW x \in s PROVE g[s] = f[x] + g[s \ {x}]
    OBVIOUS
  <2>1. PICK c \in s : c = Chosen(s)
    BY DEF Chosen
  <2>2. g[s] = f[c] + g[s \ {c}]
    BY <2>1 DEF Sums
  <2>3. CASE x # c
    <3>1. g[s \ {c}] = f[x] + g[(s \ {c}) \ {x}]
      BY <1>1, <2>3
    <3>2. g[s \ {x}] = f[c] + g[(s \ {x}) \ {c}]
      BY <1>1, <2>3
    <3>3. (s \ {c}) \ {x} = (s \ {x}) \ {c}
      OBVIOUS
    <3>4. PICK n \in Nat : n = g[(s \ {x}) \ {c}]
      OBVIOUS
    <3>5. PICK a \in Nat, b \in Nat : a = f[x] /\ b = f[c]
      OBVIOUS
    <3>6. g[s \ {c}] = a + n /\ g[s \ {x}] = b + n
      BY <3>1, <3>2, <3>3, <3>4, <3>5
    <3>7. g[s] = b + (a + n)
      BY <2>2, <3>5, <3>6
    <3>8. f[x] + g[s \ {x}] = a + (b + n)
      BY <3>5, <3>6
    <3> QED BY <3>4, <3>5, <3>7, <3>8
  <2> QED BY <2>2, <2>3
<1>2. \A s \in SUBSET S : s \in G
  <2> HIDE DEF G
  <2> QED BY <1>1, EverySubset
<1> QED BY <1>2

\* Larger numbers have a larger sum.
LEMMA SumsGrow ==
  ASSUME NEW S, IsFiniteSet(S), NEW f, NEW h, NEW g, NEW u, Summed(S, f, g), Summed(S, h, u),
         NEW t, t \subseteq S, \A x \in t : f[x] <= h[x]
  PROVE  g[t] <= u[t]
<1> USE DEF Summed
<1> DEFINE G == {s \in SUBSET S : (\A x \in s : f[x] <= h[x]) => g[s] <= u[s]}
<1>1. ASSUME NEW s \in SUBSET S, \A x \in s : s \ {x} \in G
      PROVE  s \in G
  <2> SUFFICES ASSUME \A x \in s : f[x] <= h[x] PROVE g[s] <= u[s]
    OBVIOUS
  <2>1. CASE s = {}
    <3>1. g[s] = 0
      BY <2>1 DEF Sums
    <3>2. u[s] = 0
      BY <2>1 DEF Sums
    <3> QED BY <3>1, <3>2
  <2>2. CASE s # {}
    <3>1. PICK c \in s : c = Chosen(s)
      BY <2>2 DEF Chosen
    <3>2. g[s] = f[c] + g[s \ {c}] /\ u[s] = h[c] + u[s \ {c}]
      BY <2>2, <3>1 DEF Sums
    <3>3. g[s \ {c}] <= u[s \ {c}]
      BY <1>1
    <3>4. PICK a \in Nat, b \in Nat : a = g[s \ {c}] /\ b = u[s \ {c}]
      OBVIOUS
    <3>5. f[c] \in Nat /\ h[c] \in Nat /\ f[c] <= h[c]
      OBVIOUS
    <3> QED BY <3>2, <3>3, <3>4, <3>5
  <2> QED BY <2>1, <2>2
<1>2. \A s \in SUBSET S : s \in G
  <2> HIDE DEF G
  <2> QED BY <1>1, EverySubset
<1> QED BY <1>2

\* f and h are the same numbers but for r.
Differ(S, f, h, r) ==
  /\ f \in [S -> Nat] /\ h \in [S -> Nat] /\ r \in S
  /\ \A x \in S \ {r} : h[x] = f[x]

\* A sum in which one number is replaced.
Moved(from, to, old, new) ==
  /\ from \in Nat /\ to \in Nat /\ old \in Nat /\ new \in Nat
  /\ to = (from - old) + new

\* Another number for one element.
LEMMA TotalChange ==
  ASSUME NEW S, IsFiniteSet(S), NEW f, NEW h, NEW r, Differ(S, f, h, r)
  PROVE  Moved(Total(f, S), Total(h, S), f[r], h[r])
<1> USE DEF Differ
<1>1. PICK v \in Nat : v = h[r]
  OBVIOUS
<1>2. PICK g : Summed(S, f, g) /\ Total(f, S) = g[S]
  BY SummedIs
<1>3. PICK u : Summed(S, h, u) /\ Total(h, S) = u[S]
  BY <1>1, SummedIs
<1>4. g[S] = f[r] + g[S \ {r}]
  BY <1>2, SumsTake
<1>5. u[S] = v + u[S \ {r}]
  BY <1>1, <1>3, SumsTake
<1>6. \A x \in S \ {r} : f[x] <= h[x] /\ h[x] <= f[x]
  BY <1>1
<1>7. g[S \ {r}] <= u[S \ {r}]
  BY <1>2, <1>3, <1>6, SumsGrow
<1>8. u[S \ {r}] <= g[S \ {r}]
  BY <1>2, <1>3, <1>6, SumsGrow
<1>9. PICK n \in Nat, m \in Nat, a \in Nat : n = g[S \ {r}] /\ m = u[S \ {r}] /\ a = f[r]
  BY <1>2, <1>3 DEF Summed
<1>10. Total(f, S) = a + n /\ Total(h, S) = v + m /\ n = m
  BY <1>2, <1>3, <1>4, <1>5, <1>7, <1>8, <1>9
<1> QED BY <1>1, <1>9, <1>10 DEF Moved

\* Smaller numbers have a smaller sum.
LEMMA TotalShrinks ==
  ASSUME NEW S, IsFiniteSet(S), NEW f \in [S -> Nat], NEW h \in [S -> Nat],
         \A x \in S : f[x] <= h[x]
  PROVE  Total(f, S) \in Nat /\ Total(h, S) \in Nat /\ Total(f, S) <= Total(h, S)
<1>1. PICK g : Summed(S, f, g) /\ Total(f, S) = g[S]
  BY SummedIs
<1>2. PICK u : Summed(S, h, u) /\ Total(h, S) = u[S]
  BY SummedIs
<1>3. g[S] <= u[S]
  BY <1>1, <1>2, SumsGrow
<1> QED BY <1>1, <1>2, <1>3 DEF Summed

-----------------------------------------------------------------------------
\* What a chunk takes of an offer (ChunkSplit).

\* The sizes that positions are rounded to are not 0.
LEMMA Units == Block \in Nat \ {0} /\ HashUnit \in Nat \ {0} /\ EagleUnit \in Nat \ {0}
BY BlockAssumption, SplitAssumption

\* A floor is at most the number, and less than a unit below it.
LEMMA Floors ==
  ASSUME NEW n \in Int, NEW u \in Nat \ {0}
  PROVE  /\ FloorTo(n, u) \in Int /\ FloorTo(n, u) <= n /\ n < FloorTo(n, u) + u
         /\ n >= 0 => FloorTo(n, u) \in Nat
<1> PICK d, r : d = n \div u /\ r = n % u
  OBVIOUS
<1>1. d \in Int /\ r \in 0..u - 1 /\ n = d * u + r
  OBVIOUS
<1>2. d * u \in Int
  BY <1>1
<1>3. n >= 0 => d * u \in Nat
  BY <1>1
<1> QED BY <1>1, <1>2, <1>3 DEF FloorTo

\* Blocks that hold n tokens hold n tokens.
LEMMA BlocksHold ==
  ASSUME NEW n \in Nat
  PROVE  BlocksFor(n) \in Nat /\ n <= BlocksFor(n) * Block
<1> PICK B \in Nat \ {0} : B = Block
  BY Units
<1> PICK m \in Nat : m = n + B - 1
  OBVIOUS
<1> PICK d, r : d = m \div B /\ r = m % B
  OBVIOUS
<1>1. d \in Nat /\ r \in 0..B - 1 /\ m = d * B + r /\ d * B \in Nat
  OBVIOUS
<1>2. n <= d * B
  BY <1>1
<1>3. BlocksFor(n) = d
  BY DEF BlocksFor
<1> QED BY <1>1, <1>2, <1>3

\* R(P) is a position inside the prompt.
LEMMA BoundaryIs ==
  ASSUME NEW p \in Nat \ {0}
  PROVE  ReplayBoundary(p) \in Nat /\ ReplayBoundary(p) < p
<1>1. p - 1 \in Int
  OBVIOUS
<1>2. FloorTo(p - 1, HashUnit) \in Int /\ FloorTo(p - 1, HashUnit) <= p - 1
  BY <1>1, Floors, Units
<1> QED BY <1>2, Units DEF ReplayBoundary, Most

\* min() of a set of numbers that is not empty is its least element.
LEMMA MinIs ==
  ASSUME NEW T, T \subseteq Nat, T # {}
  PROVE  Min(T) \in T /\ \A y \in T : Min(T) <= y
<1>1. \E x \in T : \A y \in T : x =< y
  BY LeastExists
<1> QED BY <1>1 DEF Min

\* The stops of a chunk are positions.
LEMMA StopsArePositions ==
  ASSUME NEW from \in Nat, NEW till \in Nat, NEW P \in Nat \ {0}, NEW T \in Nat
  PROVE  Stops(from, till, P, T, 0) \subseteq Nat
<1>1. LastCachePosition(T) \in Nat
  <2>1. T - EagleUnit \in Int
    BY Units
  <2>2. FloorTo(T - EagleUnit, Block) \in Int
    BY <2>1, Floors, Units
  <2> QED BY <2>2 DEF LastCachePosition, Most
<1>2. CacheStop(P, T) \in Nat
  BY <1>1 DEF CacheStop
<1>3. TailBoundary(P, T) \in Nat
  <2>1. FloorTo(P, HashUnit) \in Nat
    BY Floors, Units
  <2> QED BY <2>1, BoundaryIs DEF TailBoundary
<1>4. FloorTo(from, Block) + Block \in Nat
  BY Floors, Units
<1>5. ~(from < 0)
  OBVIOUS
<1> QED BY <1>2, <1>3, <1>4, <1>5 DEF Stops

\* _mamba_block_aligned_split takes a part of what is offered; past the
\* prefill till, all of it.
LEMMA SplitTakes ==
  ASSUME NEW from \in Nat, NEW n \in Nat, NEW P \in Nat \ {0}, NEW T \in Nat, NEW lim \in Nat
  PROVE  /\ Split(from, n, P, T, 0, lim).n \in Nat
         /\ Split(from, n, P, T, 0, lim).n <= n
         /\ from >= PrefillEnd(P, T) => Split(from, n, P, T, 0, lim).n = n
<1> PICK pe, till, stops, boundary, plan :
      /\ pe = PrefillEnd(P, T) /\ till = AlignedEnd(from, from + n, pe, lim)
      /\ stops = Stops(from, till, P, T, 0)
      /\ boundary = (IF HasBoundary(P, T) THEN ReplayBoundary(P) ELSE 0)
      /\ plan = PlanChunk(from, till, stops, boundary)
  OBVIOUS
<1> PICK low : low = Min({till} \cup Inside(from, till, stops))
  OBVIOUS
<1>1. Split(from, n, P, T, 0, lim) =
        IF from >= pe THEN [n |-> n, exports |-> {}]
        ELSE IF MayExport(from, P, T) /\ plan.exports # {}
        THEN [n |-> Most(plan.end - from, 0), exports |-> plan.exports]
        ELSE [n |-> Most(low - from, 0), exports |-> {}]
  BY DEF Split
<1>2. till \in Nat /\ till <= from + n
  <2>1. FloorTo(from + n, Block) \in Nat /\ FloorTo(from + n, Block) <= from + n
    <3>1. from + n \in Int /\ from + n >= 0
      OBVIOUS
    <3> QED BY <3>1, Floors, Units
  <2> QED BY <2>1 DEF AlignedEnd
<1>3. stops \subseteq Nat
  BY <1>2, StopsArePositions
<1>4. low \in Nat /\ low <= till
  <2>1. {till} \cup Inside(from, till, stops) \subseteq Nat
    BY <1>2, <1>3 DEF Inside
  <2> QED BY <2>1, MinIs
<1>5. plan.end \in Nat /\ plan.end <= till
  <2> DEFINE inside == Inside(from, till, stops)
             exportable(s) == /\ s % Block = 0 \/ s = boundary
                              /\ (s - from) % Tile = 0
                              /\ Cardinality({t \in inside : t < s}) < MaxExports
             halt == {till} \cup {s \in inside : ~exportable(s)}
  <2>1. halt \subseteq Nat /\ till \in halt /\ \A s \in inside : s \in Nat /\ s < till
    BY <1>2, <1>3 DEF Inside
  <2> HIDE DEF inside, halt
  <2>2. Min(halt) \in Nat /\ Min(halt) <= till
    BY <2>1, MinIs
  <2>3. plan.end = Min(halt) \/ (plan.end = boundary /\ boundary \in inside)
    BY DEF PlanChunk, halt, inside
  <2> QED BY <1>2, <2>1, <2>2, <2>3
<1>6. Most(plan.end - from, 0) \in Nat /\ Most(plan.end - from, 0) <= n
  BY <1>2, <1>5 DEF Most
<1>7. Most(low - from, 0) \in Nat /\ Most(low - from, 0) <= n
  BY <1>2, <1>4 DEF Most
<1> QED BY <1>1, <1>6, <1>7

-----------------------------------------------------------------------------
\* One more at the end.
LEMMA AppendIs ==
  ASSUME NEW S, NEW s \in Seq(S), NEW x \in S
  PROVE  /\ Append(s, x) \in Seq(S) /\ Len(Append(s, x)) = Len(s) + 1
         /\ ToSet(Append(s, x)) = ToSet(s) \cup {x}
         /\ Once(s) /\ x \notin ToSet(s) => Once(Append(s, x))
         /\ \A i \in 1..Len(s) : Append(s, x)[i] = s[i]
<1> DEFINE u == Append(s, x)
<1>1. u \in Seq(S) /\ Len(u) = Len(s) + 1 /\ Len(s) \in Nat
  OBVIOUS
<1>2. /\ \A i \in 1..Len(s) : u[i] = s[i] /\ s[i] \in ToSet(s)
      /\ u[Len(s) + 1] = x
      /\ DOMAIN s = 1..Len(s) /\ DOMAIN u = 1..Len(s) + 1
  BY <1>1 DEF ToSet
<1> HIDE DEF u
<1>3. ToSet(u) = ToSet(s) \cup {x}
  <2>1. \A i \in 1..Len(s) + 1 : i \in 1..Len(s) \/ i = Len(s) + 1
    BY <1>1
  <2>2. \A i \in 1..Len(s) : i \in 1..Len(s) + 1
    BY <1>1
  <2>3. Len(s) + 1 \in 1..Len(s) + 1
    BY <1>1
  <2> QED BY <1>2, <2>1, <2>2, <2>3 DEF ToSet
<1>4. ASSUME Once(s), x \notin ToSet(s) PROVE Once(u)
  <2>1. \A i \in 1..Len(s) + 1 : i \in 1..Len(s) \/ i = Len(s) + 1
    BY <1>1
  <2> QED BY <1>2, <1>4, <2>1 DEF Once
<1> QED BY <1>1, <1>2, <1>3, <1>4 DEF u

\* The last goes.
LEMMA FrontIs ==
  ASSUME NEW S, NEW s \in Seq(S), s # <<>>, Once(s)
  PROVE  /\ Front(s) \in Seq(S) /\ Once(Front(s)) /\ Len(Front(s)) = Len(s) - 1
         /\ Last(s) \in ToSet(s) /\ ToSet(s) \subseteq S
         /\ ToSet(Front(s)) = ToSet(s) \ {Last(s)}
         /\ \A i \in 1..Len(s) - 1 : Front(s)[i] = s[i]
<1> DEFINE u == Front(s)
<1>1. Len(s) \in Nat /\ Len(s) # 0 /\ Len(s) - 1 \in Nat /\ DOMAIN s = 1..Len(s)
  OBVIOUS
<1>2. u \in Seq(S) /\ Len(u) = Len(s) - 1 /\ \A i \in 1..Len(s) - 1 : u[i] = s[i]
  BY <1>1 DEF Front
<1> HIDE DEF u
<1>3. DOMAIN u = 1..Len(s) - 1
  BY <1>2
<1>4. Last(s) = s[Len(s)] /\ Len(s) \in 1..Len(s)
  BY <1>1 DEF Last
<1>5. \A i \in 1..Len(s) : i \in 1..Len(s) - 1 \/ i = Len(s)
  <2>1. \A n \in Nat \ {0} : \A i \in 1..n : i \in 1..n - 1 \/ i = n
    OBVIOUS
  <2> QED BY <1>1, <2>1
<1>6. \A i \in 1..Len(s) - 1 : i \in 1..Len(s) /\ i # Len(s)
  <2>1. \A n \in Nat \ {0} : \A i \in 1..n - 1 : i \in 1..n /\ i # n
    OBVIOUS
  <2> QED BY <1>1, <2>1
<1>7. ToSet(u) = ToSet(s) \ {Last(s)}
  <2>1. \A i \in 1..Len(s) - 1 : s[i] # s[Len(s)]
    BY <1>1, <1>4, <1>6 DEF Once
  <2> QED BY <1>1, <1>2, <1>3, <1>4, <1>5, <1>6, <2>1 DEF ToSet
<1>8. Once(u)
  BY <1>1, <1>2, <1>3, <1>6 DEF Once
<1>9. Last(s) \in ToSet(s) /\ ToSet(s) \subseteq S
  BY <1>1, <1>4 DEF ToSet
<1> QED BY <1>2, <1>7, <1>8, <1>9 DEF u

\* The first goes.
LEMMA RestIs ==
  ASSUME NEW S, NEW s \in Seq(S), s # <<>>, Once(s)
  PROVE  /\ Tail(s) \in Seq(S) /\ Once(Tail(s))
         /\ Head(s) \in ToSet(s) /\ ToSet(s) \subseteq S
         /\ ToSet(Tail(s)) = ToSet(s) \ {Head(s)}
<1> DEFINE u == Tail(s)
<1>1. Len(s) \in Nat /\ Len(s) # 0 /\ Len(s) - 1 \in Nat /\ DOMAIN s = 1..Len(s)
  OBVIOUS
<1>2. u \in Seq(S) /\ Len(u) = Len(s) - 1 /\ \A i \in 1..Len(s) - 1 : u[i] = s[i + 1]
  BY <1>1
<1> HIDE DEF u
<1>3. DOMAIN u = 1..Len(s) - 1
  BY <1>2
<1>4. Head(s) = s[1] /\ 1 \in 1..Len(s)
  BY <1>1
<1>5. \A i \in 1..Len(s) : i = 1 \/ (i - 1 \in 1..Len(s) - 1 /\ i = (i - 1) + 1)
  BY <1>1
<1>6. \A i \in 1..Len(s) - 1 : i + 1 \in 1..Len(s) /\ i + 1 # 1
  BY <1>1
<1>7. \A i, j \in 1..Len(s) - 1 : i + 1 = j + 1 => i = j
  BY <1>1
<1>8. ToSet(u) = ToSet(s) \ {Head(s)}
  <2>1. \A i \in 1..Len(s) - 1 : s[i + 1] # s[1]
    BY <1>1, <1>4, <1>6 DEF Once
  <2>2. ASSUME NEW x \in ToSet(u) PROVE x \in ToSet(s) \ {Head(s)}
    BY <1>1, <1>2, <1>3, <1>4, <1>6, <2>1, SMTT(40) DEF ToSet
  <2>3. ASSUME NEW x \in ToSet(s) \ {Head(s)} PROVE x \in ToSet(u)
    <3>1. PICK i \in 1..Len(s) : s[i] = x
      BY <1>1 DEF ToSet
    <3>2. i - 1 \in 1..Len(s) - 1 /\ u[i - 1] = x
      BY <1>2, <1>4, <1>5, <2>3, <3>1
    <3> QED BY <1>3, <3>2 DEF ToSet
  <2> QED BY <2>2, <2>3
<1>9. Once(u)
  <2> SUFFICES ASSUME NEW i \in 1..Len(s) - 1, NEW j \in 1..Len(s) - 1, u[i] = u[j] PROVE i = j
    BY <1>3 DEF Once
  <2>1. s[i + 1] = s[j + 1]
    BY <1>2
  <2>2. i + 1 = j + 1
    BY <1>1, <1>6, <2>1 DEF Once
  <2> QED BY <1>7, <2>2
<1>10. Head(s) \in ToSet(s) /\ ToSet(s) \subseteq S
  BY <1>1, <1>4 DEF ToSet
<1> QED BY <1>2, <1>8, <1>9, <1>10 DEF u

\* A sequence without repetition is as long as it has members.
LEMMA LengthIs ==
  ASSUME NEW S, NEW s \in Seq(S), Once(s)
  PROVE  IsFiniteSet(ToSet(s)) /\ Cardinality(ToSet(s)) = Len(s)
<1>1. Len(s) \in Nat /\ DOMAIN s = 1..Len(s)
  OBVIOUS
<1>2. s \in Bijection(1..Len(s), ToSet(s))
  <2>1. s \in [1..Len(s) -> ToSet(s)]
    BY <1>1 DEF ToSet
  <2> QED BY <1>1, <2>1 DEF Bijection, Injection, Surjection, IsInjective, Once, ToSet
<1>3. IsFiniteSet(1..Len(s)) /\ Cardinality(1..Len(s)) = Len(s)
  <2>1. IsFiniteSet(1..Len(s)) /\ Cardinality(1..Len(s)) = IF 1 > Len(s) THEN 0 ELSE Len(s) - 1 + 1
    BY <1>1, FS_Interval
  <2> QED BY <1>1, <2>1
<1>4. ExistsBijection(1..Len(s), ToSet(s))
  BY <1>2 DEF ExistsBijection
<1> QED BY <1>3, <1>4, FS_Bijection

-----------------------------------------------------------------------------
\* The engine step.  The queues first: who is in which, and that nobody is
\* in two places or twice in one.

\* Between Begin and Select.
InStep == pc \in {"running", "waiting", "select"}

\* The numbers of the bridge and of the loops.
StepNumbers ==
  /\ grants \in [Request -> Nat] /\ granting \in BOOLEAN
  /\ budget \in Int /\ inputs \in Int
  /\ idx \in Nat \ {0}
  /\ queue \in Seq(Request) /\ order \in Seq(Request)

\* A live request is in the running queue or in one of the waiting ones, once.
QueueInv ==
  /\ running \in Seq(Request) /\ waiting \in Seq(Request)
  /\ skipped \in Seq(Request) /\ stepSkipped \in Seq(Request)
  /\ Once(running) /\ Once(waiting) /\ Once(skipped) /\ Once(stepSkipped)
  /\ ToSet(running) = {r \in Request : status[r] = "running"}
  /\ ToSet(waiting) \cup ToSet(skipped) \cup ToSet(stepSkipped)
       = {r \in Request : status[r] \in {"waiting", "preempted"}}
  /\ ToSet(waiting) \cap ToSet(skipped) = {}
  /\ ToSet(stepSkipped) \cap (ToSet(waiting) \cup ToSet(skipped)) = {}
  /\ pc # "waiting" => stepSkipped = <<>>

\* The status of every request is one.
Statuses == status \in [Request -> Status]

LEMMA EmptyIs == ToSet(<<>>) = {} /\ Once(<<>>) /\ \A S : <<>> \in Seq(S)
BY DEF ToSet, Once

\* Without one request.
LEMMA WithoutIs ==
  ASSUME NEW s \in Seq(Request), NEW r
  PROVE  /\ Without(s, r) \in Seq(Request) /\ ToSet(Without(s, r)) = ToSet(s) \ {r}
         /\ Once(s) => Once(Without(s, r))
<1>1. ToSet(s) \cap (ToSet(s) \ {r}) = ToSet(s) \ {r}
  OBVIOUS
<1> QED BY <1>1, OnlyMembers, OnlyKeepsOrder DEF Without

LEMMA AddQueues ==
  ASSUME QueueInv, Statuses, NEW r \in Request, Add(r)
  PROVE  QueueInv' /\ Statuses'
<1>1. /\ status' = [status EXCEPT ![r] = "waiting"] /\ waiting' = Append(waiting, r)
      /\ UNCHANGED <<pc, running, skipped, stepSkipped>>
      /\ status[r] \in {"new", "finished", "aborted"}
  BY DEF Add, stepVars
<1>2. r \notin ToSet(running) \cup ToSet(waiting) \cup ToSet(skipped) \cup ToSet(stepSkipped)
  BY <1>1 DEF QueueInv
<1>3. /\ waiting' \in Seq(Request) /\ ToSet(waiting') = ToSet(waiting) \cup {r} /\ Once(waiting')
  BY <1>1, <1>2, AppendIs DEF QueueInv
<1>4. /\ ToSet(running') = ToSet(running) /\ ToSet(skipped') = ToSet(skipped)
      /\ ToSet(stepSkipped') = ToSet(stepSkipped)
      /\ Once(running') /\ Once(skipped') /\ Once(stepSkipped')
      /\ running' \in Seq(Request) /\ skipped' \in Seq(Request) /\ stepSkipped' \in Seq(Request)
      /\ pc' # "waiting" => stepSkipped' = <<>>
  BY <1>1 DEF QueueInv
<1>5. Statuses'
  BY <1>1 DEF Statuses, Status
<1>6. \A x \in Request : status'[x] = IF x = r THEN "waiting" ELSE status[x]
  BY <1>1 DEF Statuses
<1>7. ToSet(running') = {x \in Request : status'[x] = "running"}
  BY <1>1, <1>4, <1>6 DEF QueueInv
<1>8. ToSet(waiting') \cup ToSet(skipped') \cup ToSet(stepSkipped')
        = {x \in Request : status'[x] \in {"waiting", "preempted"}}
  BY <1>3, <1>4, <1>6 DEF QueueInv
<1>9. /\ ToSet(waiting') \cap ToSet(skipped') = {}
      /\ ToSet(stepSkipped') \cap (ToSet(waiting') \cup ToSet(skipped')) = {}
  BY <1>2, <1>3, <1>4 DEF QueueInv
<1> QED BY <1>3, <1>4, <1>5, <1>7, <1>8, <1>9 DEF QueueInv

LEMMA AbortQueues ==
  ASSUME QueueInv, Statuses, NEW r \in Request, Abort(r)
  PROVE  QueueInv' /\ Statuses'
<1>1. /\ status' = [status EXCEPT ![r] = "aborted"] /\ running' = Without(running, r)
      /\ waiting' = Without(waiting, r) /\ skipped' = Without(skipped, r)
      /\ UNCHANGED <<pc, stepSkipped>> /\ pc \in {"idle", "model"}
  BY DEF Abort, stepVars
<1>2. /\ stepSkipped' = <<>> /\ ToSet(stepSkipped') = {} /\ ToSet(stepSkipped) = {}
      /\ Once(stepSkipped') /\ stepSkipped' \in Seq(Request)
  BY <1>1, EmptyIs DEF QueueInv
<1>3. /\ running' \in Seq(Request) /\ ToSet(running') = ToSet(running) \ {r} /\ Once(running')
      /\ waiting' \in Seq(Request) /\ ToSet(waiting') = ToSet(waiting) \ {r} /\ Once(waiting')
      /\ skipped' \in Seq(Request) /\ ToSet(skipped') = ToSet(skipped) \ {r} /\ Once(skipped')
  BY <1>1, WithoutIs DEF QueueInv
<1>4. Statuses'
  BY <1>1 DEF Statuses, Status
<1>5. \A x \in Request : status'[x] = IF x = r THEN "aborted" ELSE status[x]
  BY <1>1 DEF Statuses
<1>6. ToSet(running') = {x \in Request : status'[x] = "running"}
  BY <1>3, <1>5 DEF QueueInv
<1>7. ToSet(waiting') \cup ToSet(skipped') \cup ToSet(stepSkipped')
        = {x \in Request : status'[x] \in {"waiting", "preempted"}}
  BY <1>2, <1>3, <1>5 DEF QueueInv
<1>8. /\ ToSet(waiting') \cap ToSet(skipped') = {}
      /\ ToSet(stepSkipped') \cap (ToSet(waiting') \cup ToSet(skipped')) = {}
  BY <1>2, <1>3 DEF QueueInv
<1> QED BY <1>2, <1>3, <1>4, <1>6, <1>7, <1>8 DEF QueueInv

LEMMA BeginQueues ==
  ASSUME QueueInv, Statuses, Begin
  PROVE  QueueInv' /\ Statuses'
<1>1. UNCHANGED <<status, running, waiting, skipped>> /\ stepSkipped' = <<>> /\ pc = "idle"
  BY DEF Begin, requestVars
<1>2. stepSkipped = <<>>
  BY <1>1 DEF QueueInv
<1> QED BY <1>1, <1>2 DEF QueueInv, Statuses

\* The preempted request is the last of the running ones.
LEMMA PreemptQueues ==
  ASSUME QueueInv, Statuses, idx \in Nat \ {0}, RunPreempt
  PROVE  /\ QueueInv' /\ Statuses'
         /\ Last(running) \in Request /\ status[Last(running)] = "running"
         /\ status' = [status EXCEPT ![Last(running)] = "preempted"]
         /\ running' = Front(running) /\ Len(running') = Len(running) - 1
         /\ \A i \in 1..Len(running) - 1 : running'[i] = running[i]
<1> PICK v : v = Last(running)
  OBVIOUS
<1>1. /\ running' = Front(running) /\ waiting' = <<v>> \o waiting
      /\ status' = [status EXCEPT ![v] = "preempted"]
      /\ UNCHANGED <<skipped, stepSkipped>> /\ idx <= Len(running)
      /\ pc = "running" /\ pc' \in {"running", "select"}
  BY DEF RunPreempt, AtRunning
<1>2. running # <<>>
  <2>1. Len(running) \in Nat /\ Len(<<>>) = 0
    BY DEF QueueInv
  <2> QED BY <1>1, <2>1
<1>3. /\ running' \in Seq(Request) /\ Once(running') /\ ToSet(running') = ToSet(running) \ {v}
      /\ v \in ToSet(running) /\ ToSet(running) \subseteq Request
      /\ Len(running') = Len(running) - 1
      /\ \A i \in 1..Len(running) - 1 : running'[i] = running[i]
  BY <1>1, <1>2, FrontIs DEF QueueInv
<1>4. v \in Request /\ status[v] = "running"
  BY <1>3 DEF QueueInv
<1>5. v \notin ToSet(waiting) \cup ToSet(skipped) \cup ToSet(stepSkipped)
  BY <1>4 DEF QueueInv
<1>6. <<v>> \in Seq(Request) /\ ToSet(<<v>>) = {v} /\ Once(<<v>>)
  BY <1>4 DEF ToSet, Once
<1>7. ToSet(<<v>>) \cap ToSet(waiting) = {}
  BY <1>5, <1>6
<1>8. waiting' \in Seq(Request) /\ ToSet(waiting') = {v} \cup ToSet(waiting) /\ Once(waiting')
  BY <1>1, <1>6, <1>7, JoinIs DEF QueueInv
<1>9. Statuses'
  BY <1>1 DEF Statuses, Status
<1>10. \A x \in Request : status'[x] = IF x = v THEN "preempted" ELSE status[x]
  BY <1>1 DEF Statuses
<1>11. /\ ToSet(skipped') = ToSet(skipped) /\ ToSet(stepSkipped') = ToSet(stepSkipped)
       /\ Once(skipped') /\ Once(stepSkipped')
       /\ skipped' \in Seq(Request) /\ stepSkipped' \in Seq(Request)
       /\ pc' # "waiting" => stepSkipped' = <<>>
  BY <1>1 DEF QueueInv
<1>12. ToSet(running') = {x \in Request : status'[x] = "running"}
  BY <1>3, <1>10 DEF QueueInv
<1>13. ToSet(waiting') \cup ToSet(skipped') \cup ToSet(stepSkipped')
         = {x \in Request : status'[x] \in {"waiting", "preempted"}}
  BY <1>4, <1>8, <1>10, <1>11 DEF QueueInv
<1>14. /\ ToSet(waiting') \cap ToSet(skipped') = {}
       /\ ToSet(stepSkipped') \cap (ToSet(waiting') \cup ToSet(skipped')) = {}
  BY <1>5, <1>8, <1>11 DEF QueueInv
<1>15. QueueInv'
  BY <1>3, <1>8, <1>9, <1>11, <1>12, <1>13, <1>14 DEF QueueInv
<1> QED BY <1>1, <1>3, <1>4, <1>9, <1>15

\* The waiting loop takes the head off the queue it is in.
LEMMA WaiterIs ==
  ASSUME QueueInv, AtWaiting, PopNext
  PROVE  /\ Waiter \in Request /\ status[Waiter] \in {"waiting", "preempted"}
         /\ Waiter \notin ToSet(running) \cup ToSet(stepSkipped)
         /\ waiting' \in Seq(Request) /\ Once(waiting')
         /\ skipped' \in Seq(Request) /\ Once(skipped')
         /\ ToSet(waiting') = ToSet(waiting) \ {Waiter}
         /\ ToSet(skipped') = ToSet(skipped) \ {Waiter}
         /\ Waiter \in ToSet(waiting) \cup ToSet(skipped)
<1>1. ASSUME Waiter \in ToSet(waiting) \cup ToSet(skipped)
      PROVE  /\ Waiter \in Request /\ status[Waiter] \in {"waiting", "preempted"}
             /\ Waiter \notin ToSet(running) \cup ToSet(stepSkipped)
  BY <1>1 DEF QueueInv
<1>2. CASE skipped # <<>>
  <2>1. Waiter = Head(skipped)
    BY <1>2, JoinIs DEF Waiter, QueueInv
  <2>2. skipped' = Tail(skipped) /\ waiting' = waiting
    BY <1>2 DEF PopNext
  <2>3. /\ skipped' \in Seq(Request) /\ Once(skipped') /\ Waiter \in ToSet(skipped)
        /\ ToSet(skipped') = ToSet(skipped) \ {Waiter}
    BY <1>2, <2>1, <2>2, RestIs DEF QueueInv
  <2>4. Waiter \notin ToSet(waiting)
    BY <2>3 DEF QueueInv
  <2>5. waiting' \in Seq(Request) /\ Once(waiting') /\ ToSet(waiting') = ToSet(waiting) \ {Waiter}
    BY <2>2, <2>4 DEF QueueInv
  <2> QED BY <1>1, <2>3, <2>5
<1>3. CASE skipped = <<>>
  <2>1. skipped \o waiting = waiting
    BY <1>3 DEF QueueInv
  <2>2. waiting # <<>> /\ Waiter = Head(waiting)
    BY <2>1 DEF AtWaiting, Waiter
  <2>3. waiting' = Tail(waiting) /\ skipped' = skipped
    BY <1>3 DEF PopNext
  <2>4. /\ waiting' \in Seq(Request) /\ Once(waiting') /\ Waiter \in ToSet(waiting)
        /\ ToSet(waiting') = ToSet(waiting) \ {Waiter}
    BY <2>2, <2>3, RestIs DEF QueueInv
  <2>5. /\ skipped' \in Seq(Request) /\ Once(skipped') /\ ToSet(skipped') = ToSet(skipped) \ {Waiter}
    BY <1>3, <2>3, EmptyIs
  <2> QED BY <1>1, <2>4, <2>5
<1> QED BY <1>2, <1>3

LEMMA DeferQueues ==
  ASSUME QueueInv, Statuses, AdmitDefer
  PROVE  QueueInv' /\ Statuses'
<1> PICK w : w = Waiter
  OBVIOUS
<1>1. /\ AtWaiting /\ PopNext /\ stepSkipped' = Append(stepSkipped, w)
      /\ UNCHANGED <<pc, status, running>> /\ pc = "waiting"
  BY DEF AdmitDefer, AtWaiting
<1>2. /\ w \in Request /\ status[w] \in {"waiting", "preempted"}
      /\ w \notin ToSet(running) \cup ToSet(stepSkipped)
      /\ waiting' \in Seq(Request) /\ Once(waiting') /\ skipped' \in Seq(Request) /\ Once(skipped')
      /\ ToSet(waiting') = ToSet(waiting) \ {w} /\ ToSet(skipped') = ToSet(skipped) \ {w}
      /\ w \in ToSet(waiting) \cup ToSet(skipped)
  BY <1>1, WaiterIs
<1>3. /\ stepSkipped' \in Seq(Request) /\ ToSet(stepSkipped') = ToSet(stepSkipped) \cup {w}
      /\ Once(stepSkipped')
  BY <1>1, <1>2, AppendIs DEF QueueInv
<1>4. /\ running' \in Seq(Request) /\ Once(running')
      /\ ToSet(running') = {x \in Request : status'[x] = "running"}
      /\ Statuses' /\ pc' = "waiting"
  BY <1>1 DEF QueueInv, Statuses
<1>5. ToSet(waiting') \cup ToSet(skipped') \cup ToSet(stepSkipped')
        = {x \in Request : status'[x] \in {"waiting", "preempted"}}
  BY <1>1, <1>2, <1>3 DEF QueueInv
<1>6. /\ ToSet(waiting') \cap ToSet(skipped') = {}
      /\ ToSet(stepSkipped') \cap (ToSet(waiting') \cup ToSet(skipped')) = {}
  BY <1>2, <1>3 DEF QueueInv
<1> QED BY <1>2, <1>3, <1>4, <1>5, <1>6 DEF QueueInv

LEMMA ServeQueues ==
  ASSUME QueueInv, Statuses, NEW hit, AdmitServe(hit)
  PROVE  /\ QueueInv' /\ Statuses'
         /\ Waiter \in Request /\ status[Waiter] \in {"waiting", "preempted"}
         /\ status' = [status EXCEPT ![Waiter] = "running"]
         /\ running' = Append(running, Waiter) /\ Len(running') = Len(running) + 1
<1> PICK w : w = Waiter
  OBVIOUS
<1>1. /\ AtWaiting /\ PopNext /\ running' = Append(running, w)
      /\ status' = [status EXCEPT ![w] = "running"]
      /\ UNCHANGED <<pc, stepSkipped>> /\ pc = "waiting"
  BY DEF AdmitServe, AtWaiting
<1>2. /\ w \in Request /\ status[w] \in {"waiting", "preempted"}
      /\ w \notin ToSet(running) \cup ToSet(stepSkipped)
      /\ waiting' \in Seq(Request) /\ Once(waiting') /\ skipped' \in Seq(Request) /\ Once(skipped')
      /\ ToSet(waiting') = ToSet(waiting) \ {w} /\ ToSet(skipped') = ToSet(skipped) \ {w}
      /\ w \in ToSet(waiting) \cup ToSet(skipped)
  BY <1>1, WaiterIs
<1>3. /\ running' \in Seq(Request) /\ ToSet(running') = ToSet(running) \cup {w}
      /\ Once(running') /\ Len(running') = Len(running) + 1
  BY <1>1, <1>2, AppendIs DEF QueueInv
<1>4. Statuses' /\ \A x \in Request : status'[x] = IF x = w THEN "running" ELSE status[x]
  BY <1>1 DEF Statuses, Status
<1>5. /\ stepSkipped' \in Seq(Request) /\ Once(stepSkipped') /\ ToSet(stepSkipped') = ToSet(stepSkipped)
      /\ pc' = "waiting"
  BY <1>1 DEF QueueInv
<1>6. ToSet(running') = {x \in Request : status'[x] = "running"}
  BY <1>2, <1>3, <1>4 DEF QueueInv
<1>7. ToSet(waiting') \cup ToSet(skipped') \cup ToSet(stepSkipped')
        = {x \in Request : status'[x] \in {"waiting", "preempted"}}
  BY <1>2, <1>4, <1>5, ZenonT(60) DEF QueueInv
<1>8. /\ ToSet(waiting') \cap ToSet(skipped') = {}
      /\ ToSet(stepSkipped') \cap (ToSet(waiting') \cup ToSet(skipped')) = {}
  BY <1>2, <1>5 DEF QueueInv
<1>9. QueueInv'
  BY <1>2, <1>3, <1>4, <1>5, <1>6, <1>7, <1>8 DEF QueueInv
<1> QED BY <1>1, <1>2, <1>3, <1>4, <1>9

LEMMA RequeueQueues ==
  ASSUME QueueInv, Statuses, Requeue
  PROVE  QueueInv' /\ Statuses'
<1>1. /\ skipped' = stepSkipped \o skipped /\ stepSkipped' = <<>> /\ pc' = "select"
      /\ UNCHANGED <<status, running, waiting>>
  BY DEF Requeue
<1>2. ToSet(stepSkipped) \cap ToSet(skipped) = {}
  BY DEF QueueInv
<1>3. /\ skipped' \in Seq(Request) /\ Once(skipped')
      /\ ToSet(skipped') = ToSet(stepSkipped) \cup ToSet(skipped)
  BY <1>1, <1>2, JoinIs DEF QueueInv
<1>4. stepSkipped' \in Seq(Request) /\ Once(stepSkipped') /\ ToSet(stepSkipped') = {}
  BY <1>1, EmptyIs
<1>5. /\ running' \in Seq(Request) /\ Once(running') /\ waiting' \in Seq(Request) /\ Once(waiting')
      /\ ToSet(running') = {x \in Request : status'[x] = "running"}
      /\ Statuses'
  BY <1>1 DEF QueueInv, Statuses
<1>6. ToSet(waiting') \cup ToSet(skipped') \cup ToSet(stepSkipped')
        = {x \in Request : status'[x] \in {"waiting", "preempted"}}
  BY <1>1, <1>3, <1>4 DEF QueueInv
<1>7. /\ ToSet(waiting') \cap ToSet(skipped') = {}
      /\ ToSet(stepSkipped') \cap (ToSet(waiting') \cup ToSet(skipped')) = {}
  BY <1>1, <1>3, <1>4 DEF QueueInv
<1> QED BY <1>1, <1>3, <1>4, <1>5, <1>6, <1>7 DEF QueueInv

\* The requests that end with this output of the model.
Ended(acc, stops) ==
  {r \in Sampled : \/ r \in stops
                   \/ Least(tokens[r] + 1 + acc[r], Prompt[r] + MaxOut[r]) = Prompt[r] + MaxOut[r]}

LEMMA UpdateQueues ==
  ASSUME QueueInv, Statuses, NEW acc, NEW stops, Update(acc, stops)
  PROVE  /\ QueueInv' /\ Statuses'
         /\ \A r \in Request : status'[r] = IF r \in Ended(acc, stops) THEN "finished" ELSE status[r]
         /\ Ended(acc, stops) \subseteq ToSet(running)
         /\ ToSet(running') = ToSet(running) \ Ended(acc, stops)
<1> PICK done : done = Ended(acc, stops)
  OBVIOUS
<1>1. /\ status' = [r \in Request |-> IF r \in done THEN "finished" ELSE status[r]]
      /\ running' = Only(running, ToSet(running) \ done)
      /\ UNCHANGED <<waiting, skipped, stepSkipped>> /\ pc = "model" /\ pc' = "idle"
  BY Zenon DEF Update, Ended
<1>2. done \subseteq ToSet(running)
  BY DEF Ended, Sampled, Served, QueueInv
<1>3. ToSet(running) \cap (ToSet(running) \ done) = ToSet(running) \ done
  OBVIOUS
<1>4. /\ running' \in Seq(Request) /\ Once(running') /\ ToSet(running') = ToSet(running) \ done
  BY <1>1, <1>3, OnlyMembers, OnlyKeepsOrder DEF QueueInv
<1>5. \A r \in Request : status'[r] = IF r \in done THEN "finished" ELSE status[r]
  BY <1>1
<1>6. Statuses'
  BY <1>1 DEF Statuses, Status
<1>7. ToSet(running') = {x \in Request : status'[x] = "running"}
  BY <1>4, <1>5 DEF QueueInv
<1>8. \A r \in done : status[r] = "running"
  BY <1>2 DEF QueueInv
<1>9. ToSet(waiting') \cup ToSet(skipped') \cup ToSet(stepSkipped')
        = {x \in Request : status'[x] \in {"waiting", "preempted"}}
  BY <1>1, <1>5, <1>8 DEF QueueInv
<1>10. QueueInv'
  BY <1>1, <1>4, <1>7, <1>9 DEF QueueInv
<1> QED BY <1>2, <1>4, <1>5, <1>6, <1>10

-----------------------------------------------------------------------------
\* The numbers of a request through the step.

\* The types of everything a step reads.
Typed == TypeOK /\ StepNumbers

\* What a request has: between steps, at most its tokens without the last are
\* computed; with the model at work, its drafts beside them.
TokenAt(r) ==
  /\ Prompt[r] <= tokens[r]
  /\ r \in Live => tokens[r] < Prompt[r] + MaxOut[r]
  /\ spec[r] \in {0, K}
  /\ status[r] # "running" => computed[r] = 0 /\ spec[r] = 0
  /\ status[r] = "running" =>
       IF pc = "model"
       THEN /\ computed[r] <= tokens[r] + drafts[r] /\ drafts[r] <= computed[r]
            /\ counts[r] = 0 => computed[r] < tokens[r]
       ELSE /\ computed[r] < tokens[r]
            /\ computed[r] + counts[r] <= tokens[r] + drafts[r]
            /\ drafts[r] <= counts[r]

TokenInv == \A r \in Request : TokenAt(r)

\* The pool has what is held of it, and a running request holds blocks for
\* what it has computed and for what it is given in this step.
BlocksAt(r) ==
  IF status[r] = "running"
  THEN computed[r] + (IF pc = "model" THEN 0 ELSE counts[r]) <= kv[r] * Block
  ELSE kv[r] = 0

BlocksInv == Free >= 0 /\ \A r \in Request : BlocksAt(r)

\* The running loop has given nothing to those it has not come to.
SeenInv ==
  /\ pc = "idle" => counts = Zero
  /\ pc # "model" => \A r \in Request : status[r] # "running" => counts[r] = 0
  /\ pc = "running" => /\ \A i \in idx..Len(running) : counts[running[i]] = 0
                       /\ order # <<>> => idx = 1
                       /\ idx <= Len(running) + 1
  /\ pc = "waiting" => preempted = {}
  /\ Len(running) <= MaxSeqs

CoreInv == Typed /\ QueueInv /\ TokenInv /\ BlocksInv /\ SeenInv

LEMMA TypesAre ==
  ASSUME Typed
  PROVE  /\ pc \in {"idle", "running", "waiting", "select", "model"} /\ Statuses
         /\ computed \in [Request -> Nat] /\ tokens \in [Request -> Nat]
         /\ spec \in [Request -> Nat] /\ kv \in [Request -> Nat]
         /\ counts \in [Request -> Nat] /\ drafts \in [Request -> Nat]
         /\ tokenBudget \in Nat /\ inputBudget \in Nat
         /\ preempted \subseteq Request /\ missed \in [Request -> 0..2]
         /\ grants \in [Request -> Nat] /\ granting \in BOOLEAN
         /\ budget \in Int /\ inputs \in Int /\ idx \in Nat \ {0}
         /\ queue \in Seq(Request) /\ order \in Seq(Request)
BY DEF Typed, TypeOK, StepNumbers, Statuses

LEMMA TypedIs ==
  ASSUME pc \in {"idle", "running", "waiting", "select", "model"}, Statuses,
         computed \in [Request -> Nat], tokens \in [Request -> Nat],
         spec \in [Request -> Nat], kv \in [Request -> Nat],
         counts \in [Request -> Nat], drafts \in [Request -> Nat],
         tokenBudget \in Nat, inputBudget \in Nat,
         preempted \subseteq Request, missed \in [Request -> 0..2],
         grants \in [Request -> Nat], granting \in BOOLEAN,
         budget \in Int, inputs \in Int, idx \in Nat \ {0},
         queue \in Seq(Request), order \in Seq(Request)
  PROVE  Typed
BY DEF Typed, TypeOK, StepNumbers, Statuses

\* The constants of the step.
LEMMA Sizes ==
  /\ Prompt \in [Request -> Nat \ {0}] /\ MaxOut \in [Request -> Nat \ {0}]
  /\ MaxSeqs \in Nat /\ KVBlocks \in Nat /\ Watermark \in Nat /\ AdaptiveAt \in Nat
  /\ Cap \in Nat \ {0} /\ LowCap \in Nat \ {0} /\ LowCap <= Cap
  /\ KChoices \subseteq 1..K /\ K \in Nat /\ DraftSlots \in Nat
  /\ MaxScheduled \in Nat /\ MaxBatched \in Nat /\ Block \in Nat \ {0}
  /\ MaxModelLen \in Nat
BY ServingAssumption, FairAssumption, BlockAssumption

\* The parts of the invariant, and what they say of one request.
LEMMA CoreParts ==
  ASSUME CoreInv
  PROVE  Typed /\ QueueInv /\ Statuses /\ TokenInv /\ BlocksInv /\ SeenInv
BY TypesAre DEF CoreInv

\* A live request has an output token to come that fits in the context.
LEMMA InContext ==
  ASSUME CoreInv, NEW r \in Request, r \in Live
  PROVE  tokens[r] + 1 <= MaxModelLen
<1>1. tokens[r] \in Nat /\ tokens[r] < Prompt[r] + MaxOut[r]
  BY CoreParts, TypesAre DEF TokenInv, TokenAt
<1>2. Prompt[r] + MaxOut[r] <= MaxModelLen
  BY ServingAssumption
<1>3. PICK p \in Nat, m \in Nat, x \in Nat : p = Prompt[r] /\ m = MaxOut[r] /\ x = MaxModelLen
  BY Sizes
<1> QED BY <1>1, <1>2, <1>3

\* The tokens that a request is given of an offer: at most the offer, nothing
\* when the cadence withholds it, and no more than was planned for a prefill.
LEMMA ChunkIs ==
  ASSUME Typed, NEW r \in Request, NEW from \in Nat, NEW n \in Nat,
         NEW c, c = Chunk(r, from, n)
  PROVE  /\ c \in Nat /\ c <= n
         /\ r \notin allowed => c = 0
         /\ IsPrefilling(r) /\ granting => c <= grants[r]
         /\ r \in allowed /\ ~IsPrefilling(r) /\ from >= PrefillEnd(Prompt[r], tokens[r]) => c = n
<1> PICK m : m = PrefillLimit(r, n)
  OBVIOUS
<1>1. grants[r] \in Nat /\ Prompt[r] \in Nat \ {0} /\ tokens[r] \in Nat /\ MaxScheduled \in Nat
  BY TypesAre, Sizes
<1>2. /\ m \in Nat /\ m <= n
      /\ r \notin allowed => m = 0
      /\ IsPrefilling(r) /\ granting => m <= grants[r]
      /\ r \in allowed /\ ~IsPrefilling(r) => m = n
  <2>1. PICK count \in Nat : count = (IF r \in allowed THEN n ELSE 0)
    OBVIOUS
  <2>2. m = IF IsPrefilling(r) THEN FairLimit(r, count) ELSE count
    BY <2>1 DEF PrefillLimit
  <2>3. FairLimit(r, count) \in Nat /\ FairLimit(r, count) <= count
        /\ (granting => FairLimit(r, count) <= grants[r])
    <3> PICK g \in Nat : g = grants[r]
      BY <1>1
    <3>1. FairLimit(r, count) = IF granting THEN Least(count, g) ELSE count
      BY DEF FairLimit
    <3> QED BY <2>1, <3>1 DEF Least
  <2> HIDE DEF IsPrefilling
  <2>4. count <= n /\ (r \notin allowed => count = 0) /\ (r \in allowed => count = n)
    BY <2>1
  <2>5. CASE IsPrefilling(r)
    <3>1. m = FairLimit(r, count)
      BY <2>2, <2>5
    <3>2. r \notin allowed => m = 0
      <4> HAVE r \notin allowed
      <4>1. count = 0
        BY <2>4
      <4> QED BY <2>3, <3>1, <4>1
    <3> QED BY <2>1, <2>3, <2>4, <2>5, <3>1, <3>2
  <2>6. CASE ~IsPrefilling(r)
    BY <2>1, <2>2, <2>4, <2>6
  <2> QED BY <2>5, <2>6
<1>3. c = Split(from, m, Prompt[r], tokens[r], 0, MaxScheduled).n
  BY DEF Chunk
<1>4. c \in Nat /\ c <= m /\ (from >= PrefillEnd(Prompt[r], tokens[r]) => c = m)
  <2>1. PICK P \in Nat \ {0}, T \in Nat : P = Prompt[r] /\ T = tokens[r]
    BY <1>1
  <2>2. m \in Nat /\ MaxScheduled \in Nat
    BY <1>1, <1>2
  <2>3. /\ Split(from, m, P, T, 0, MaxScheduled).n \in Nat
        /\ Split(from, m, P, T, 0, MaxScheduled).n <= m
        /\ from >= PrefillEnd(P, T) => Split(from, m, P, T, 0, MaxScheduled).n = m
    BY <2>2, SplitTakes
  <2> QED BY <1>3, <2>1, <2>3
<1> HIDE DEF IsPrefilling
<1>5. r \notin allowed => c = 0
  BY <1>2, <1>4
<1>6. IsPrefilling(r) /\ granting => c <= grants[r]
  <2> HAVE IsPrefilling(r) /\ granting
  <2> PICK g \in Nat : g = grants[r]
    BY <1>1
  <2>1. m <= g
    BY <1>2
  <2> QED BY <1>2, <1>4, <2>1
<1> QED BY <1>2, <1>4, <1>5, <1>6

\* The tokens of the running request the loop stands at.
LEMMA RunningTokensAre ==
  ASSUME CoreInv, AtRunning, NEW r, r = running[idx], NEW n, n = RunningTokens
  PROVE  /\ r \in Request /\ status[r] = "running" /\ r \in ToSet(running) /\ idx \in 1..Len(running)
         /\ n \in Nat /\ n <= tokens[r] + spec[r] - computed[r]
         /\ computed[r] + n <= MaxModelLen
         /\ n <= tokenBudget /\ n <= inputBudget - DraftSlots
         /\ n # 0 => r \in allowed
         /\ IsPrefilling(r) /\ granting => n <= grants[r]
         /\ (/\ r \in allowed /\ ~IsPrefilling(r)
             /\ Asked(r) <= tokenBudget /\ Asked(r) <= inputBudget - DraftSlots)
              => n = Asked(r)
<1>1. idx \in 1..Len(running) /\ HasBudget /\ pc = "running"
  <2>1. idx \in Nat \ {0} /\ Len(running) \in Nat
    BY TypesAre DEF CoreInv, QueueInv
  <2> QED BY <2>1 DEF AtRunning
<1>2. r \in ToSet(running) /\ r \in Request /\ status[r] = "running"
  <2>1. r \in ToSet(running)
    BY <1>1 DEF ToSet, CoreInv, QueueInv
  <2> QED BY <2>1 DEF CoreInv, QueueInv
<1>3. PICK t \in Nat, s \in Nat, c \in Nat : t = tokens[r] /\ s = spec[r] /\ c = computed[r] /\ c < t
  BY <1>1, <1>2, TypesAre DEF CoreInv, TokenInv, TokenAt
<1>4. tokenBudget \in Nat /\ inputBudget \in Nat /\ DraftSlots \in Nat /\ inputBudget > DraftSlots
  BY <1>1, TypesAre, Sizes DEF CoreInv, HasBudget
<1>5. PICK m \in Nat : m = inputBudget - DraftSlots
  BY <1>4
<1>6. PICK left \in Nat : left = Asked(r) /\ left <= t + s - c /\ c + left <= MaxModelLen
  <2>1. PICK x \in Nat : x = MaxModelLen
    BY Sizes
  <2>2. t + 1 <= x
    BY <1>2, <1>3, <2>1, InContext DEF Live
  <2>3. Asked(r) = Least(t + s - c, x - c - 1)
    BY <1>3, <2>1 DEF Asked
  <2>4. PICK a \in Nat, b \in Nat : a = t + s - c /\ b = x - c - 1
    BY <1>3, <2>1, <2>2
  <2>5. PICK left \in Nat : left = Least(a, b) /\ left <= a /\ left <= b
    BY DEF Least
  <2>6. c + left <= x
    BY <1>3, <2>1, <2>4, <2>5
  <2> QED BY <2>1, <2>3, <2>4, <2>5, <2>6
<1>7. PICK all \in Nat : all = Least(left, Least(tokenBudget, m))
  BY <1>4 DEF Least
<1>8. all <= left /\ all <= tokenBudget /\ all <= m /\ (left <= tokenBudget /\ left <= m => all = left)
  BY <1>4, <1>7 DEF Least
<1>9. n = Chunk(r, c, all)
  BY <1>3, <1>5, <1>6, <1>7 DEF RunningTokens
<1>10. /\ n \in Nat /\ n <= all
       /\ r \notin allowed => n = 0
       /\ IsPrefilling(r) /\ granting => n <= grants[r]
       /\ r \in allowed /\ ~IsPrefilling(r) /\ c >= PrefillEnd(Prompt[r], tokens[r]) => n = all
  BY <1>2, <1>9, ChunkIs DEF CoreInv
<1>11. ~IsPrefilling(r) => c >= PrefillEnd(Prompt[r], tokens[r])
  <2>1. PrefillEnd(Prompt[r], tokens[r]) \in Int
    BY <1>2, <1>3, Sizes DEF PrefillEnd, Most
  <2> QED BY <1>3, <2>1 DEF IsPrefilling
<1>12. n <= left /\ n <= tokenBudget /\ n <= m
  BY <1>4, <1>8, <1>10
<1>13. n <= t + s - c /\ c + n <= MaxModelLen
  BY <1>3, <1>6, <1>10, <1>12, Sizes
<1> HIDE DEF IsPrefilling, Asked
<1> QED BY <1>1, <1>2, <1>3, <1>5, <1>6, <1>8, <1>10, <1>11, <1>12, <1>13

\* Nothing but zeros.
LEMMA TotalNone ==
  ASSUME NEW S, IsFiniteSet(S), NEW f \in [S -> Nat], \A x \in S : f[x] = 0
  PROVE  Total(f, S) = 0
<1>1. PICK g : Summed(S, f, g) /\ Total(f, S) = g[S]
  BY SummedIs
<1> DEFINE G == {s \in SUBSET S : g[s] = 0}
<1>2. ASSUME NEW s \in SUBSET S, \A x \in s : s \ {x} \in G
      PROVE  s \in G
  <2>1. CASE s = {}
    BY <1>1, <2>1 DEF Summed, Sums
  <2>2. CASE s # {}
    <3>1. PICK x \in s : TRUE
      BY <2>2
    <3>2. g[s] = f[x] + g[s \ {x}]
      BY <1>1, SumsTake
    <3>3. g[s \ {x}] = 0 /\ f[x] = 0
      BY <1>2
    <3> QED BY <3>2, <3>3
  <2> QED BY <2>1, <2>2
<1>3. \A s \in SUBSET S : s \in G
  <2> HIDE DEF G
  <2> QED BY <1>2, EverySubset
<1> QED BY <1>1, <1>3

LEMMA TotalIsNat ==
  ASSUME NEW f, f \in [Request -> Nat]
  PROVE  Total(f, Request) \in Nat
<1>1. PICK g : Summed(Request, f, g) /\ Total(f, Request) = g[Request]
  BY RequestAssumption, SummedIs
<1> QED BY <1>1 DEF Summed

\* The same number for every element of a part.
LEMMA TotalEven ==
  ASSUME NEW S, IsFiniteSet(S), NEW c \in Nat
  PROVE  \A d \in SUBSET S :
           Total([x \in S |-> IF x \in d THEN c ELSE 0], S) = c * Cardinality(d)
<1> DEFINE e(d) == [x \in S |-> IF x \in d THEN c ELSE 0]
           G == {d \in SUBSET S : Total(e(d), S) = c * Cardinality(d)}
<1>1. ASSUME NEW d \in SUBSET S, \A x \in d : d \ {x} \in G
      PROVE  d \in G
  <2>0. IsFiniteSet(d) /\ Cardinality(d) \in Nat
    BY FS_Subset, FS_CardinalityType
  <2>1. CASE d = {}
    <3>1. Cardinality(d) = 0
      BY <2>1, FS_EmptySet
    <3>2. e(d) \in [S -> Nat] /\ \A x \in S : e(d)[x] = 0
      BY <2>1
    <3>3. Total(e(d), S) = 0
      <4> HIDE DEF e
      <4> QED BY <3>2, TotalNone
    <3> QED BY <3>1, <3>3
  <2>2. CASE d # {}
    <3>1. PICK x \in d : TRUE
      BY <2>2
    <3>2. e(d \ {x}) \in [S -> Nat] /\ e(d \ {x})[x] = 0 /\ x \in S
          /\ e(d) = [e(d \ {x}) EXCEPT ![x] = c]
      BY <3>1
    <3>3. Total(e(d \ {x}), S) = c * Cardinality(d \ {x})
      BY <1>1, <3>1
    <3>4. Cardinality(d \ {x}) = Cardinality(d) - 1 /\ Cardinality(d) # 0
      <4>1. Cardinality(d \ {x}) = Cardinality(d) - 1
        BY <2>0, <3>1, FS_RemoveElement
      <4>2. Cardinality(d) # 0
        BY <2>0, <2>2, FS_EmptySet
      <4> QED BY <4>1, <4>2
    <3>5. Total(e(d), S) = (Total(e(d \ {x}), S) - 0) + c /\ Total(e(d \ {x}), S) \in Nat
      <4> HIDE DEF e
      <4> PICK h, u : h = e(d \ {x}) /\ u = e(d)
        OBVIOUS
      <4>1. h \in [S -> Nat] /\ u \in [S -> Nat] /\ h[x] = 0 /\ u[x] = c /\ x \in S
            /\ \A y \in S \ {x} : u[y] = h[y]
        BY <3>2
      <4>2. Differ(S, h, u, x)
        BY <4>1 DEF Differ
      <4>3. Moved(Total(h, S), Total(u, S), h[x], u[x])
        BY <4>2, TotalChange
      <4> QED BY <4>1, <4>3 DEF Moved
    <3>6. PICK k \in Nat : Cardinality(d) = k + 1 /\ k = Cardinality(d \ {x})
      <4>1. Cardinality(d) - 1 \in Nat /\ Cardinality(d) = (Cardinality(d) - 1) + 1
        BY <2>0, <3>4
      <4> QED BY <3>4, <4>1
    <3>7. c * (k + 1) = c * k + c /\ c * k \in Nat
      OBVIOUS
    <3>8. Total(e(d), S) = c * k + c
      BY <3>3, <3>5, <3>6, <3>7
    <3> QED BY <3>6, <3>7, <3>8
  <2> QED BY <2>1, <2>2
<1>2. \A d \in SUBSET S : d \in G
  <2> HIDE DEF G
  <2> QED BY <1>1, EverySubset
<1> QED BY <1>2

\* The free blocks are those that no request holds.
LEMMA FreeIs == Free = KVBlocks - Total(kv, Request) /\ Free' = KVBlocks - Total(kv', Request)
<1>1. Free = KVBlocks - Total(kv, Request)
  BY DEF Free, Total
<1>2. (Free = KVBlocks - Total(kv, Request))'
  BY <1>1, PTL
<1> QED BY <1>1, <1>2

\* A request may hold more when so many are free.
LEMMA HoldsMore ==
  ASSUME kv \in [Request -> Nat], NEW r \in Request, NEW v \in Nat,
         kv' = [kv EXCEPT ![r] = v], Free >= 0, v - kv[r] <= Free \/ v <= kv[r]
  PROVE  Free' >= 0
<1>1. Total(kv, Request) \in Nat /\ Total(kv', Request) = (Total(kv, Request) - kv[r]) + v
  <2>1. Differ(Request, kv, kv', r) /\ kv'[r] = v
    BY DEF Differ
  <2>2. Moved(Total(kv, Request), Total(kv', Request), kv[r], kv'[r])
    BY <2>1, RequestAssumption, TotalChange
  <2> QED BY <2>1, <2>2 DEF Moved
<1>2. PICK a \in Nat, b \in Nat, c \in Nat : a = Total(kv, Request) /\ b = kv[r] /\ c = KVBlocks
  BY <1>1, Sizes
<1>3. Free = c - a /\ Free' = c - ((a - b) + v)
  BY <1>1, <1>2, FreeIs
<1> QED BY <1>2, <1>3

LEMMA HoldsLess ==
  ASSUME kv \in [Request -> Nat], kv' \in [Request -> Nat], Free >= 0,
         \A x \in Request : kv'[x] <= kv[x]
  PROVE  Free' >= 0
<1>1. Total(kv, Request) \in Nat /\ Total(kv', Request) \in Nat
      /\ Total(kv', Request) <= Total(kv, Request)
  BY RequestAssumption, TotalShrinks
<1> QED BY <1>1, FreeIs, Sizes

\* Nothing that the tokens or the blocks of a request depend on changes.
LEMMA SameTokens ==
  ASSUME NEW x \in Request, TokenAt(x), status'[x] = status[x], tokens'[x] = tokens[x],
         computed'[x] = computed[x], spec'[x] = spec[x],
         counts'[x] = counts[x], drafts'[x] = drafts[x], pc = "model" <=> pc' = "model"
  PROVE  TokenAt(x)'
BY DEF TokenAt, Live

LEMMA SameBlocks ==
  ASSUME NEW x \in Request, BlocksAt(x), status'[x] = status[x], kv'[x] = kv[x],
         computed'[x] = computed[x], counts'[x] = counts[x], pc = "model" <=> pc' = "model"
  PROVE  BlocksAt(x)'
BY DEF BlocksAt

LEMMA FreeStays == ASSUME kv' = kv PROVE Free' = Free
BY FreeIs

LEMMA InitCore == Init => CoreInv
<1> SUFFICES ASSUME Init PROVE CoreInv
  OBVIOUS
<1>1. /\ pc = "idle" /\ status = [r \in Request |-> "new"]
      /\ running = <<>> /\ waiting = <<>> /\ skipped = <<>> /\ stepSkipped = <<>>
      /\ computed = Zero /\ tokens = Prompt /\ spec = Zero /\ kv = Zero
      /\ counts = Zero /\ drafts = Zero /\ missed = Zero
      /\ idx = 1 /\ tokenBudget = 0 /\ inputBudget = 0 /\ preempted = {}
  BY DEF Init
<1>2. /\ queue = <<>> /\ order = <<>> /\ granting = FALSE /\ budget = 0 /\ inputs = 0
      /\ grants = Zero
  BY DEF Init, FairInit, Zero
<1>3. Zero \in [Request -> Nat] /\ \A x \in Request : Zero[x] = 0
  BY DEF Zero
<1>4. Typed
  <2>1. /\ missed \in [Request -> 0..2] /\ tokens \in [Request -> Nat]
        /\ status \in [Request -> Status]
    BY <1>1, Sizes DEF Zero, Status
  <2>2. <<>> \in Seq(Request)
    BY EmptyIs
  <2>3. TypeOK
    BY <1>1, <1>3, <2>1 DEF TypeOK
  <2>4. StepNumbers
    <3>1. granting \in BOOLEAN
      BY <1>2
    <3>2. grants \in [Request -> Nat]
      BY <1>2, <1>3
    <3>3. queue = <<>> /\ order = <<>> /\ budget = 0 /\ inputs = 0 /\ idx = 1
      BY <1>1, <1>2
    <3> QED BY <2>2, <3>1, <3>2, <3>3 DEF StepNumbers
  <2> QED BY <2>3, <2>4 DEF Typed
<1>5. QueueInv
  <2>1. ToSet(<<>>) = {} /\ Once(<<>>) /\ <<>> \in Seq(Request)
    BY EmptyIs
  <2> QED BY <1>1, <2>1 DEF QueueInv
<1>6. ASSUME NEW x \in Request PROVE TokenAt(x) /\ BlocksAt(x)
  <2>1. Prompt[x] \in Nat /\ MaxOut[x] \in Nat \ {0} /\ status[x] = "new" /\ tokens[x] = Prompt[x]
    BY <1>1, Sizes
  <2>2. spec[x] = 0 /\ computed[x] = 0 /\ kv[x] = 0
    BY <1>1, <1>3
  <2> QED BY <2>1, <2>2 DEF TokenAt, BlocksAt, Live
<1>7. Free >= 0
  <2>1. Total(kv, Request) = 0
    BY <1>1, <1>3, RequestAssumption, TotalNone
  <2> QED BY <2>1, FreeIs, Sizes
<1>8. SeenInv
  <2>1. Len(running) = 0
    BY <1>1
  <2> QED BY <1>1, <1>3, <2>1, Sizes DEF SeenInv
<1> QED BY <1>4, <1>5, <1>6, <1>7, <1>8 DEF CoreInv, TokenInv, BlocksInv

LEMMA AddCore ==
  ASSUME CoreInv, NEW r \in Request, Add(r)
  PROVE  CoreInv'
<1>0. /\ pc = "idle" /\ pc' = "idle" /\ status[r] \in {"new", "finished", "aborted"}
      /\ status' = [status EXCEPT ![r] = "waiting"]
      /\ computed' = [computed EXCEPT ![r] = 0] /\ tokens' = [tokens EXCEPT ![r] = Prompt[r]]
      /\ UNCHANGED <<running, spec, kv, stepVars, missed, fairVars>>
  BY DEF Add
<1>1. UNCHANGED <<idx, tokenBudget, inputBudget, counts, drafts, preempted, stepSkipped,
                  queue, granting, grants, order, budget, inputs>>
  BY <1>0 DEF stepVars, fairVars
<1>2. QueueInv' /\ Statuses'
  BY CoreParts, AddQueues
<1>3. Typed'
  <2>1. computed' \in [Request -> Nat] /\ tokens' \in [Request -> Nat]
    BY <1>0, TypesAre, Sizes DEF CoreInv
  <2> QED BY <1>0, <1>1, <1>2, <2>1, TypesAre DEF CoreInv, Typed, TypeOK, StepNumbers, Statuses
<1>4. ASSUME NEW x \in Request PROVE TokenAt(x)' /\ BlocksAt(x)'
  <2>1. TokenAt(x) /\ BlocksAt(x)
    BY DEF CoreInv, TokenInv, BlocksInv
  <2>2. CASE x = r
    <3>1. /\ status'[r] = "waiting" /\ computed'[r] = 0 /\ tokens'[r] = Prompt[r]
          /\ spec'[r] = 0 /\ kv'[r] = 0
      BY <1>0, <2>1, <2>2, TypesAre DEF CoreInv, Statuses, TokenAt, BlocksAt
    <3>2. Prompt[r] \in Nat /\ MaxOut[r] \in Nat \ {0}
      BY Sizes
    <3> QED BY <2>2, <3>1, <3>2 DEF TokenAt, BlocksAt, Live
  <2>3. CASE x # r
    <3>1. status'[x] = status[x] /\ computed'[x] = computed[x] /\ tokens'[x] = tokens[x]
      BY <1>0, <2>3, TypesAre DEF CoreInv, Statuses
    <3> QED BY <1>0, <1>1, <2>1, <3>1, SameTokens, SameBlocks
  <2> QED BY <2>2, <2>3
<1>5. Free' >= 0
  BY <1>0, FreeStays DEF CoreInv, BlocksInv
<1>6. SeenInv'
  <2>1. SeenInv
    BY DEF CoreInv
  <2>2. counts' = Zero /\ Len(running') <= MaxSeqs
    BY <1>0, <1>1, <2>1 DEF SeenInv
  <2> QED BY <1>0, <2>2 DEF SeenInv, Zero
<1> QED BY <1>2, <1>3, <1>4, <1>5, <1>6 DEF CoreInv, TokenInv, BlocksInv

\* Fewer requests are a shorter queue.
LEMMA OnlyShorter ==
  ASSUME NEW s \in Seq(Request), Once(s), NEW ids
  PROVE  Len(Only(s, ids)) \in Nat /\ Len(Only(s, ids)) <= Len(s)
<1>1. Only(s, ids) \in Seq(Request) /\ Once(Only(s, ids)) /\ ToSet(Only(s, ids)) \subseteq ToSet(s)
  BY OnlyMembers, OnlyKeepsOrder
<1>2. IsFiniteSet(ToSet(s)) /\ Cardinality(ToSet(s)) = Len(s)
      /\ Cardinality(ToSet(Only(s, ids))) = Len(Only(s, ids))
  BY <1>1, LengthIs
<1>3. Cardinality(ToSet(Only(s, ids))) <= Cardinality(ToSet(s))
  BY <1>1, <1>2, FS_Subset
<1> QED BY <1>1, <1>2, <1>3

LEMMA AbortCore ==
  ASSUME CoreInv, NEW r \in Request, Abort(r)
  PROVE  CoreInv'
<1>0. /\ pc \in {"idle", "model"} /\ pc' = pc
      /\ status' = [status EXCEPT ![r] = "aborted"]
      /\ running' = Without(running, r)
      /\ computed' = [computed EXCEPT ![r] = 0] /\ spec' = [spec EXCEPT ![r] = 0]
      /\ kv' = [kv EXCEPT ![r] = 0] /\ missed' = [missed EXCEPT ![r] = 0]
      /\ UNCHANGED <<tokens, stepVars, fairVars>>
  BY DEF Abort
<1>1. UNCHANGED <<idx, tokenBudget, inputBudget, counts, drafts, preempted, stepSkipped,
                  queue, granting, grants, order, budget, inputs>>
  BY <1>0 DEF stepVars, fairVars
<1>2. QueueInv' /\ Statuses'
  BY CoreParts, AbortQueues
<1>3. Typed'
  <2>1. /\ computed' \in [Request -> Nat] /\ spec' \in [Request -> Nat] /\ kv' \in [Request -> Nat]
        /\ missed' \in [Request -> 0..2]
    BY <1>0, TypesAre DEF CoreInv
  <2> QED BY <1>0, <1>1, <1>2, <2>1, TypesAre DEF CoreInv, Typed, TypeOK, StepNumbers, Statuses
<1>4. ASSUME NEW x \in Request PROVE TokenAt(x)' /\ BlocksAt(x)'
  <2>1. TokenAt(x) /\ BlocksAt(x)
    BY DEF CoreInv, TokenInv, BlocksInv
  <2>2. CASE x = r
    <3>1. /\ status'[r] = "aborted" /\ computed'[r] = 0 /\ tokens'[r] = tokens[r]
          /\ spec'[r] = 0 /\ kv'[r] = 0
      BY <1>0, TypesAre DEF CoreInv, Statuses
    <3> QED BY <2>1, <2>2, <3>1 DEF TokenAt, BlocksAt, Live
  <2>3. CASE x # r
    <3>1. status'[x] = status[x] /\ computed'[x] = computed[x] /\ spec'[x] = spec[x] /\ kv'[x] = kv[x]
      BY <1>0, <2>3, TypesAre DEF CoreInv, Statuses
    <3> QED BY <1>0, <1>1, <2>1, <3>1, SameTokens, SameBlocks
  <2> QED BY <2>2, <2>3
<1>5. Free' >= 0
  <2>1. kv \in [Request -> Nat] /\ kv' \in [Request -> Nat] /\ Free >= 0
    BY <1>0, TypesAre DEF CoreInv, BlocksInv
  <2>2. \A x \in Request : kv'[x] <= kv[x]
    BY <1>0, <2>1
  <2> QED BY <2>1, <2>2, HoldsLess
<1>6. SeenInv'
  <2>1. Len(running') \in Nat /\ Len(running') <= Len(running) /\ Len(running) \in Nat
    BY <1>0, CoreParts, OnlyShorter DEF Without, QueueInv
  <2>2. SeenInv /\ MaxSeqs \in Nat
    BY Sizes DEF CoreInv
  <2>3. Len(running') <= MaxSeqs
    BY <2>1, <2>2 DEF SeenInv
  <2> QED BY <1>0, <1>1, <2>2, <2>3 DEF SeenInv, Zero
<1> QED BY <1>2, <1>3, <1>4, <1>5, <1>6 DEF CoreInv, TokenInv, BlocksInv

\* What a plan of this scheduler reads.
LEMMA PlanViewIs ==
  ASSUME CoreInv
  PROVE  /\ PlanView.decoders \in Nat /\ PlanView.prefills \in Seq(Request)
         /\ PlanView.start \in [Request -> Nat] /\ PlanView.end \in [Request -> Nat]
         /\ EffectiveCap \in Nat
<1>1. PlanView.decoders \in Nat
  <2>1. RunningDecoders \subseteq Request
    BY CoreParts DEF RunningDecoders, QueueInv
  <2> QED BY <2>1, RequestAssumption, FS_Subset, FS_CardinalityType DEF PlanView
<1>2. PlanView.prefills \in Seq(Request)
  <2> DEFINE heads == skipped \o waiting
             slots == Most(0, MaxSeqs - Len(running))
             n == Least(slots, Len(heads))
  <2>1. heads \in Seq(Request) /\ Len(heads) \in Nat /\ Len(running) \in Nat
    BY CoreParts DEF QueueInv
  <2>2. n \in Nat /\ n <= Len(heads)
    <3> PICK m \in Nat : m = Len(heads)
      BY <2>1
    <3>1. slots \in Nat
      BY <2>1, Sizes DEF Most
    <3> QED BY <3>1 DEF Least
  <2>3. SubSeq(heads, 1, n) \in Seq(Request)
    <3> HIDE DEF heads, n
    <3> QED BY <2>1, <2>2
  <2>4. Only(running, ToSet(running) \ RunningDecoders) \in Seq(Request)
    BY CoreParts, OnlyMembers DEF QueueInv
  <2>5. PlanView.prefills = Only(running, ToSet(running) \ RunningDecoders) \o SubSeq(heads, 1, n)
    BY DEF PlanView
  <2> HIDE DEF heads, n
  <2> QED BY <2>3, <2>4, <2>5
<1>3. PlanView.start \in [Request -> Nat]
  BY CoreParts, TypesAre DEF PlanView
<1>4. PlanView.end \in [Request -> Nat]
  <2>1. \A r \in Request : PrefillEnd(Prompt[r], tokens[r]) \in Nat
    BY CoreParts, TypesAre, Sizes, SMTT(40) DEF PrefillEnd, Most
  <2>2. PlanView.end = [r \in Request |-> PrefillEnd(Prompt[r], tokens[r])]
    BY DEF PlanView
  <2> QED BY <2>1, <2>2
<1>5. EffectiveCap \in Nat
  BY Sizes DEF EffectiveCap
<1> QED BY <1>1, <1>2, <1>3, <1>4, <1>5

\* A plan and a deferral leave numbers behind.
LEMMA PlanNumbersAre ==
  ASSUME CoreInv, FairPlan(PlanView, EffectiveCap) \/ FairDefer
  PROVE  /\ grants' = Zero /\ granting' \in BOOLEAN /\ budget' \in Int /\ inputs' \in Int
         /\ queue' \in Seq(Request) /\ order' \in Seq(Request)
<1>0. queue \in Seq(Request) /\ budget \in Int /\ inputs \in Int /\ <<>> \in Seq(Request)
  BY CoreParts, TypesAre, EmptyIs
<1>1. CASE FairDefer
  BY <1>0, <1>1 DEF FairDefer, Zero
<1>2. CASE FairPlan(PlanView, EffectiveCap)
  <2> PICK w, c : w = PlanView /\ c = EffectiveCap
    OBVIOUS
  <2> DEFINE contended == c > 0 /\ (w.decoders > 0 \/ Len(w.prefills) > 1)
             q == IF c > 0 THEN Queued(w) ELSE <<>>
  <2>1. w.prefills \in Seq(Request) /\ PlanBudget(w, c) \in Int /\ PlanInputs(w) \in Int
    BY PlanViewIs, BudgetIs
  <2>2. Queued(w) \in Seq(Request)
    <3>1. Only(queue, ToSet(w.prefills)) \in Seq(Request)
      BY <1>0, OnlyMembers
    <3>2. Only(w.prefills, ToSet(w.prefills) \ ToSet(queue)) \in Seq(Request)
      BY <2>1, OnlyMembers
    <3> QED BY <3>1, <3>2 DEF Queued
  <2>3. q \in Seq(Request)
    BY <1>0, <2>2
  <2>4. GrantOrder(w, c, q) \in Seq(Request)
    <3> HIDE DEF q
    <3> DEFINE ids == ToSet(w.prefills)
               tails == {r \in ids : TerminalTail(w, r, c)}
               protected == (deferred_long \cap ids) \cap EligibleLong(w, c)
    <3>1. /\ Only(q, protected) \in Seq(Request) /\ Only(q, tails) \in Seq(Request)
          /\ Only(q, ids \ (protected \cup tails)) \in Seq(Request)
      BY <2>3, OnlyMembers
    <3>2. GrantOrder(w, c, q) = Only(q, protected) \o Only(q, tails) \o Only(q, ids \ (protected \cup tails))
      BY DEF GrantOrder
    <3> HIDE DEF ids, tails, protected
    <3> QED BY <3>1, <3>2
  <2>5. /\ queue' = q /\ granting' = contended /\ grants' = Zero
        /\ order' = (IF contended THEN GrantOrder(w, c, q) ELSE <<>>)
        /\ budget' = (IF contended THEN PlanBudget(w, c) ELSE 0)
        /\ inputs' = (IF contended THEN PlanInputs(w) ELSE 0)
    BY <1>2 DEF FairPlan, Zero
  <2>6. contended \in BOOLEAN
    OBVIOUS
  <2> HIDE DEF q, contended
  <2> QED BY <1>0, <2>1, <2>3, <2>4, <2>5, <2>6
<1> QED BY <1>1, <1>2

LEMMA BeginCore ==
  ASSUME CoreInv, Begin
  PROVE  CoreInv'
<1>0. /\ pc = "idle" /\ pc' = "running" /\ idx' = 1
      /\ tokenBudget' = MaxScheduled /\ inputBudget' = MaxBatched
      /\ counts' = Zero /\ drafts' = Zero /\ preempted' = {}
      /\ UNCHANGED <<status, running, waiting, skipped, computed, tokens, spec, kv, missed>>
  BY DEF Begin, requestVars
<1>1. FairPlan(PlanView, EffectiveCap) \/ FairDefer
  BY DEF Begin
<1>2. QueueInv' /\ Statuses'
  BY CoreParts, BeginQueues
<1>3. Zero \in [Request -> Nat] /\ \A x \in Request : Zero[x] = 0
  BY DEF Zero
<1>4. Typed'
  <2>1. /\ grants' = Zero /\ granting' \in BOOLEAN /\ budget' \in Int /\ inputs' \in Int
        /\ queue' \in Seq(Request) /\ order' \in Seq(Request)
    BY <1>1, PlanNumbersAre
  <2>2. tokenBudget' \in Nat /\ inputBudget' \in Nat
    BY <1>0, Sizes
  <2>3. TypeOK'
    BY <1>0, <1>2, <1>3, <2>2 DEF CoreInv, Typed, TypeOK, Statuses
  <2>4. StepNumbers'
    BY <1>0, <1>3, <2>1 DEF StepNumbers
  <2> QED BY <2>3, <2>4 DEF Typed
<1>5. ASSUME NEW x \in Request PROVE TokenAt(x)' /\ BlocksAt(x)'
  <2>1. TokenAt(x) /\ BlocksAt(x) /\ SeenInv
    BY DEF CoreInv, TokenInv, BlocksInv
  <2>2. counts[x] = 0 /\ counts'[x] = 0 /\ drafts'[x] = 0
    BY <1>0, <1>3, <2>1 DEF SeenInv
  <2>3. PICK c \in Nat, t \in Nat : c = computed[x] /\ t = tokens[x]
    BY CoreParts, TypesAre
  <2>4. TokenAt(x)'
    BY <1>0, <2>1, <2>2, <2>3 DEF TokenAt, Live
  <2>5. BlocksAt(x)'
    BY <1>0, <2>1, <2>2, <2>3 DEF BlocksAt
  <2> QED BY <2>4, <2>5
<1>6. Free' >= 0
  BY <1>0, FreeStays DEF CoreInv, BlocksInv
<1>7. SeenInv'
  <2>1. Len(running) \in Nat /\ Len(running) <= MaxSeqs /\ \A i \in 1..Len(running) : running[i] \in Request
    BY CoreParts DEF QueueInv, SeenInv
  <2> QED BY <1>0, <1>3, <2>1 DEF SeenInv
<1> QED BY <1>2, <1>4, <1>5, <1>6, <1>7 DEF CoreInv, TokenInv, BlocksInv

LEMMA GrantCore ==
  ASSUME CoreInv, Grant
  PROVE  CoreInv'
<1>0. /\ pc = "running" /\ FairGrant(PlanView)
      /\ UNCHANGED <<pc, status, running, waiting, skipped, computed, tokens, spec, kv,
                     idx, tokenBudget, inputBudget, counts, drafts, preempted, stepSkipped, missed>>
  BY DEF Grant, requestVars, stepVars
<1>1. PICK h, a : h = Head(order) /\ a = AllowanceFor(PlanView, h, budget, inputs)
  OBVIOUS
<1>2. /\ order # <<>> /\ order' = SubSeq(order, 2, Len(order))
      /\ grants' = [grants EXCEPT ![h] = a] /\ budget' = budget - a
      /\ inputs' = (IF a > 0 THEN inputs - (a + DraftSlots) ELSE inputs)
      /\ UNCHANGED <<queue, granting>>
  BY <1>0, <1>1 DEF FairGrant
<1>3. /\ order \in Seq(Request) /\ budget \in Int /\ inputs \in Int /\ grants \in [Request -> Nat]
      /\ queue \in Seq(Request) /\ granting \in BOOLEAN /\ idx \in Nat \ {0}
  BY CoreParts, TypesAre
<1>4. h \in Request /\ order' \in Seq(Request)
  BY <1>1, <1>2, <1>3
<1>5. a \in Nat
  BY <1>1, <1>3, <1>4, PlanViewIs, AllowanceIs
<1>6. Typed'
  <2>1. grants' \in [Request -> Nat] /\ budget' \in Int /\ inputs' \in Int
    <3>1. grants' \in [Request -> Nat]
      BY <1>2, <1>3, <1>4, <1>5
    <3>2. DraftSlots \in Nat
      BY Sizes
    <3>3. budget' \in Int
      BY <1>2, <1>3, <1>5
    <3> QED BY <1>2, <1>3, <1>5, <3>1, <3>2, <3>3
  <2> QED BY <1>0, <1>2, <1>3, <1>4, <2>1, TypesAre DEF CoreInv, Typed, TypeOK, StepNumbers, Statuses
<1>7. QueueInv'
  BY <1>0 DEF CoreInv, QueueInv
<1>8. ASSUME NEW x \in Request PROVE TokenAt(x)' /\ BlocksAt(x)'
  <2>1. TokenAt(x) /\ BlocksAt(x)
    BY DEF CoreInv, TokenInv, BlocksInv
  <2> QED BY <1>0, <2>1, SameTokens, SameBlocks
<1>9. Free' >= 0
  BY <1>0, FreeStays DEF CoreInv, BlocksInv
<1>10. SeenInv'
  BY <1>0, <1>2 DEF CoreInv, SeenInv
<1> QED BY <1>6, <1>7, <1>8, <1>9, <1>10 DEF CoreInv, TokenInv, BlocksInv

LEMMA StutterCore == ASSUME CoreInv, UNCHANGED vars PROVE CoreInv'
<1>0. UNCHANGED <<pc, status, running, waiting, skipped, computed, tokens, spec, kv,
                  idx, tokenBudget, inputBudget, counts, drafts, preempted, stepSkipped, missed,
                  queue, granting, grants, order, budget, inputs>>
  BY DEF vars, requestVars, stepVars, fairVars
<1>1. Typed' /\ QueueInv' /\ SeenInv'
  BY <1>0 DEF CoreInv, Typed, TypeOK, StepNumbers, QueueInv, SeenInv
<1>2. ASSUME NEW x \in Request PROVE TokenAt(x)' /\ BlocksAt(x)'
  <2>1. TokenAt(x) /\ BlocksAt(x)
    BY DEF CoreInv, TokenInv, BlocksInv
  <2> QED BY <1>0, <2>1, SameTokens, SameBlocks
<1>3. Free' >= 0
  BY <1>0, FreeStays DEF CoreInv, BlocksInv
<1> QED BY <1>1, <1>2, <1>3 DEF CoreInv, TokenInv, BlocksInv

\* More blocks hold at least as much.
LEMMA BlocksGrow ==
  ASSUME NEW n \in Nat, NEW b \in Nat, NEW d \in Nat, b <= d, n <= b * Block
  PROVE  n <= d * Block
<1> PICK B \in Nat \ {0} : B = Block
  BY Units
<1> PICK e \in Nat : d = b + e
  <2>1. d - b \in Nat /\ d = b + (d - b)
    OBVIOUS
  <2> QED BY <2>1
<1>1. d * B = b * B + e * B /\ b * B \in Nat /\ e * B \in Nat
  OBVIOUS
<1> QED BY <1>1

\* The blocks for n more tokens and the lookahead hold the tokens.
LEMMA SlotsHold ==
  ASSUME NEW c \in Nat, NEW n \in Nat, c + n <= MaxModelLen
  PROVE  Slots(c, n) \in Nat /\ c + n <= Slots(c, n) * Block
<1>1. PICK k \in Nat, x \in Nat : k = K /\ x = MaxModelLen
  BY Sizes
<1>2. PICK e \in Nat : e = Least(c + n + k, x) /\ c + n <= e
  BY <1>1 DEF Least
<1>3. BlocksFor(e) \in Nat /\ e <= BlocksFor(e) * Block
  BY <1>2, BlocksHold
<1>4. PICK m \in Nat : m = BlocksFor(e) * Block
  <2> PICK B \in Nat, b \in Nat : B = Block /\ b = BlocksFor(e)
    BY <1>3, Units
  <2> QED OBVIOUS
<1>5. c + n <= m
  BY <1>2, <1>3, <1>4
<1>6. Slots(c, n) = BlocksFor(e)
  BY <1>1, <1>2 DEF Slots
<1> QED BY <1>3, <1>4, <1>5, <1>6

LEMMA RunSkipCore ==
  ASSUME CoreInv, RunSkip
  PROVE  CoreInv'
<1>0. /\ AtRunning /\ idx' = idx + 1
      /\ UNCHANGED <<pc, status, running, waiting, skipped, computed, tokens, spec, kv,
                     tokenBudget, inputBudget, counts, drafts, preempted, stepSkipped, missed,
                     queue, granting, grants, order, budget, inputs>>
  BY DEF RunSkip, requestVars, fairVars
<1>1. idx \in Nat \ {0} /\ idx <= Len(running) /\ order = <<>>
  BY <1>0, CoreParts, TypesAre DEF AtRunning
<1>2. Typed' /\ QueueInv'
  <2>1. TypeOK' /\ QueueInv'
    BY <1>0 DEF CoreInv, Typed, TypeOK, QueueInv
  <2>2. idx' \in Nat \ {0}
    BY <1>0, <1>1
  <2>3. StepNumbers'
    BY <1>0, <2>2 DEF CoreInv, Typed, StepNumbers
  <2> QED BY <2>1, <2>3 DEF Typed
<1>3. ASSUME NEW x \in Request PROVE TokenAt(x)' /\ BlocksAt(x)'
  <2>1. TokenAt(x) /\ BlocksAt(x)
    BY DEF CoreInv, TokenInv, BlocksInv
  <2> QED BY <1>0, <2>1, SameTokens, SameBlocks
<1>4. Free' >= 0
  BY <1>0, FreeStays DEF CoreInv, BlocksInv
<1>5. SeenInv'
  <2>1. Len(running) \in Nat
    BY CoreParts DEF QueueInv
  <2> QED BY <1>0, <1>1, <2>1 DEF CoreInv, SeenInv
<1> QED BY <1>2, <1>3, <1>4, <1>5 DEF CoreInv, TokenInv, BlocksInv

\* A running request is served: its tokens, its drafts and its blocks.
LEMMA RunServeCore ==
  ASSUME CoreInv, RunServe
  PROVE  CoreInv'
<1>0. PICK r, n : r = running[idx] /\ n = RunningTokens
  OBVIOUS
<1>1. /\ AtRunning /\ n > 0 /\ Fits(r, n)
      /\ Charge(r, n, Least(spec[r], Most(0, n + computed[r] - tokens[r])))
      /\ kv' = [kv EXCEPT ![r] = Most(kv[r], Slots(computed[r], n))]
      /\ spec' = [spec EXCEPT ![r] = 0] /\ idx' = idx + 1
      /\ UNCHANGED <<pc, status, running, waiting, skipped, computed, tokens, preempted,
                     stepSkipped, missed, queue, granting, grants, order, budget, inputs>>
  BY <1>0 DEF RunServe, fairVars
<1>2. /\ r \in Request /\ status[r] = "running" /\ idx \in 1..Len(running) /\ pc = "running"
      /\ n \in Nat /\ n <= tokens[r] + spec[r] - computed[r] /\ computed[r] + n <= MaxModelLen
      /\ n <= tokenBudget /\ n <= inputBudget - DraftSlots
  BY <1>0, <1>1, RunningTokensAre DEF AtRunning
<1>3. PICK c \in Nat, t \in Nat, s \in Nat, k \in Nat :
        c = computed[r] /\ t = tokens[r] /\ s = spec[r] /\ k = kv[r]
  BY <1>2, CoreParts, TypesAre
<1>4. c < t
  BY <1>2, <1>3, CoreParts DEF TokenInv, TokenAt
<1>5. PICK d \in Nat : d = Least(s, Most(0, n + c - t)) /\ d <= n /\ c + n <= t + d
  <2>1. n <= t + s - c
    BY <1>2, <1>3
  <2>2. PICK d : d = Least(s, Most(0, n + c - t))
    OBVIOUS
  <2>3. d \in Nat /\ d <= n /\ c + n <= t + d
    <3>1. n \in Nat /\ c < t
      BY <1>2, <1>4
    <3> QED BY <1>3, <2>1, <2>2, <3>1 DEF Least, Most
  <2> QED BY <2>2, <2>3
<1>6. PICK v \in Nat : v = Most(k, Slots(c, n)) /\ c + n <= v * Block /\ k <= v
                       /\ (v = k \/ v = Slots(c, n))
  <2>1. PICK b \in Nat : b = Slots(c, n) /\ c + n <= b * Block
    BY <1>2, <1>3, SlotsHold
  <2>2. PICK v \in Nat : v = Most(k, b)
    BY DEF Most
  <2>3. b <= v /\ k <= v /\ (v = k \/ v = b)
    BY <2>2 DEF Most
  <2>4. c + n <= v * Block
    BY <1>2, <2>1, <2>3, BlocksGrow
  <2> QED BY <2>1, <2>2, <2>3, <2>4
<1>7. /\ counts' = [counts EXCEPT ![r] = n] /\ drafts' = [drafts EXCEPT ![r] = d]
      /\ tokenBudget' = tokenBudget - n /\ inputBudget' = inputBudget - (n + DraftSlots)
      /\ kv' = [kv EXCEPT ![r] = v]
  BY <1>1, <1>3, <1>5, <1>6 DEF Charge
<1>8. Typed'
  <2>1. /\ counts' \in [Request -> Nat] /\ drafts' \in [Request -> Nat] /\ kv' \in [Request -> Nat]
        /\ spec' \in [Request -> Nat]
    BY <1>1, <1>2, <1>7, CoreParts, TypesAre
  <2>2. tokenBudget' \in Nat /\ inputBudget' \in Nat
    <3>1. tokenBudget \in Nat /\ inputBudget \in Nat /\ DraftSlots \in Nat
      BY CoreParts, TypesAre, Sizes
    <3> QED BY <1>2, <1>7, <3>1
  <2>3. idx' \in Nat \ {0}
    BY <1>1, <1>2
  <2>4. TypeOK'
    BY <1>1, <2>1, <2>2 DEF CoreInv, Typed, TypeOK
  <2>5. StepNumbers'
    BY <1>1, <2>3 DEF CoreInv, Typed, StepNumbers
  <2> QED BY <2>4, <2>5 DEF Typed
<1>9. QueueInv'
  BY <1>1 DEF CoreInv, QueueInv
<1>10. ASSUME NEW x \in Request PROVE TokenAt(x)' /\ BlocksAt(x)'
  <2>1. TokenAt(x) /\ BlocksAt(x)
    BY DEF CoreInv, TokenInv, BlocksInv
  <2>2. CASE x = r
    <3>1. /\ counts'[r] = n /\ drafts'[r] = d /\ spec'[r] = 0 /\ kv'[r] = v
      BY <1>1, <1>2, <1>7, CoreParts, TypesAre
    <3>2. computed'[r] = c /\ tokens'[r] = t /\ status'[r] = "running" /\ pc' = "running"
      BY <1>1, <1>2, <1>3
    <3>3. TokenAt(x)'
      BY <1>2, <1>3, <1>4, <1>5, <2>1, <2>2, <3>1, <3>2 DEF TokenAt, Live
    <3>4. BlocksAt(x)'
      BY <1>6, <2>2, <3>1, <3>2 DEF BlocksAt
    <3> QED BY <3>3, <3>4
  <2>3. CASE x # r
    <3>1. counts'[x] = counts[x] /\ drafts'[x] = drafts[x] /\ spec'[x] = spec[x] /\ kv'[x] = kv[x]
      BY <1>1, <1>7, <2>3, CoreParts, TypesAre
    <3> QED BY <1>1, <2>1, <3>1, SameTokens, SameBlocks
  <2> QED BY <2>2, <2>3
<1>11. Free' >= 0
  <2>1. v - k <= Free \/ v <= k
    <3>1. CASE v = k
      BY <3>1
    <3>2. CASE v = Slots(c, n)
      BY <1>1, <1>3, <3>2 DEF Fits
    <3> QED BY <1>6, <3>1, <3>2
  <2>2. kv \in [Request -> Nat] /\ Free >= 0
    BY CoreParts, TypesAre DEF BlocksInv
  <2> QED BY <1>2, <1>3, <1>7, <2>1, <2>2, HoldsMore
<1>12. SeenInv'
  <2>1. SeenInv /\ Len(running) \in Nat /\ Once(running)
    BY CoreParts DEF QueueInv
  <2>2. ASSUME NEW x \in Request, status'[x] # "running" PROVE counts'[x] = 0
    <3>1. x # r /\ counts[x] = 0
      BY <1>1, <1>2, <2>1, <2>2 DEF SeenInv
    <3> QED BY <1>7, <3>1, CoreParts, TypesAre
  <2>3. ASSUME NEW i \in idx'..Len(running') PROVE counts'[running'[i]] = 0
    <3>1. i \in idx..Len(running) /\ i # idx /\ i \in 1..Len(running)
      BY <1>1, <1>2, <2>1, <2>3
    <3>2. running[i] # r /\ running[i] \in Request
      BY <1>0, <1>2, <2>1, <3>1, CoreParts DEF Once, QueueInv
    <3>3. counts[running[i]] = 0
      BY <1>2, <2>1, <3>1 DEF SeenInv
    <3> QED BY <1>1, <1>7, <3>2, <3>3, CoreParts, TypesAre
  <2>4. order' = <<>> /\ idx' <= Len(running') + 1 /\ pc' = "running" /\ Len(running') <= MaxSeqs
    BY <1>1, <1>2, <2>1 DEF AtRunning, SeenInv
  <2> QED BY <2>2, <2>3, <2>4 DEF SeenInv
<1> QED BY <1>8, <1>9, <1>10, <1>11, <1>12 DEF CoreInv, TokenInv, BlocksInv

LEMMA RunPreemptCore ==
  ASSUME CoreInv, RunPreempt
  PROVE  CoreInv'
<1> PICK v : v = Last(running)
  OBVIOUS
<1>1. /\ AtRunning /\ pc = "running" /\ order = <<>>
      /\ computed' = [computed EXCEPT ![v] = 0] /\ spec' = [spec EXCEPT ![v] = 0]
      /\ kv' = [kv EXCEPT ![v] = 0] /\ missed' = [missed EXCEPT ![v] = 0]
      /\ preempted' = preempted \cup {v}
      /\ pc' = (IF v = running[idx] THEN "select" ELSE pc)
      /\ UNCHANGED <<tokens, idx, tokenBudget, inputBudget, counts, drafts,
                     queue, granting, grants, order, budget, inputs>>
  BY DEF RunPreempt, AtRunning, fairVars
<1>2. /\ QueueInv' /\ Statuses' /\ v \in Request /\ status[v] = "running"
      /\ status' = [status EXCEPT ![v] = "preempted"]
      /\ Len(running') = Len(running) - 1
      /\ \A i \in 1..Len(running) - 1 : running'[i] = running[i]
  BY CoreParts, TypesAre, PreemptQueues
<1>3. idx \in 1..Len(running) /\ Len(running) \in Nat /\ Once(running) /\ running \in Seq(Request)
  <2>1. QueueInv /\ idx \in Nat \ {0}
    BY CoreParts, TypesAre
  <2>2. Len(running) \in Nat /\ Once(running) /\ running \in Seq(Request)
    BY <2>1 DEF QueueInv
  <2> QED BY <1>1, <2>1, <2>2 DEF AtRunning
<1>4. v = running[Len(running)]
  BY <1>3 DEF Last
<1>5. counts[v] = 0
  BY <1>1, <1>3, <1>4, CoreParts DEF SeenInv
<1>6. Typed'
  <2>1. /\ computed' \in [Request -> Nat] /\ spec' \in [Request -> Nat] /\ kv' \in [Request -> Nat]
        /\ missed' \in [Request -> 0..2] /\ preempted' \subseteq Request
    BY <1>1, <1>2, CoreParts, TypesAre
  <2>2. TypeOK'
    BY <1>1, <1>2, <2>1 DEF CoreInv, Typed, TypeOK, Statuses
  <2>3. StepNumbers'
    BY <1>1 DEF CoreInv, Typed, StepNumbers
  <2> QED BY <2>2, <2>3 DEF Typed
<1>7. pc' # "model" /\ pc # "model"
  BY <1>1
<1>8. ASSUME NEW x \in Request PROVE TokenAt(x)' /\ BlocksAt(x)'
  <2>1. TokenAt(x) /\ BlocksAt(x)
    BY DEF CoreInv, TokenInv, BlocksInv
  <2>2. CASE x = v
    <3>1. /\ status'[v] = "preempted" /\ computed'[v] = 0 /\ tokens'[v] = tokens[v]
          /\ spec'[v] = 0 /\ kv'[v] = 0
      BY <1>1, <1>2, CoreParts, TypesAre DEF Statuses
    <3> QED BY <1>2, <2>1, <2>2, <3>1 DEF TokenAt, BlocksAt, Live
  <2>3. CASE x # v
    <3>1. status'[x] = status[x] /\ computed'[x] = computed[x] /\ spec'[x] = spec[x] /\ kv'[x] = kv[x]
      BY <1>1, <1>2, <2>3, CoreParts, TypesAre DEF Statuses
    <3> QED BY <1>1, <1>7, <2>1, <3>1, SameTokens, SameBlocks
  <2> QED BY <2>2, <2>3
<1>9. Free' >= 0
  <2>1. kv \in [Request -> Nat] /\ kv' \in [Request -> Nat] /\ Free >= 0
    BY <1>1, CoreParts, TypesAre DEF BlocksInv
  <2>2. \A x \in Request : kv'[x] <= kv[x]
    BY <1>1, <2>1
  <2> QED BY <2>1, <2>2, HoldsLess
<1>10. SeenInv'
  <2>1. SeenInv /\ MaxSeqs \in Nat
    BY CoreParts, Sizes
  <2>2. ASSUME NEW x \in Request, status'[x] # "running" PROVE counts'[x] = 0
    <3>1. x = v \/ status[x] # "running"
      BY <1>2, <2>2, CoreParts DEF Statuses
    <3> QED BY <1>1, <1>5, <2>1, <3>1 DEF SeenInv
  <2>3. Len(running') <= MaxSeqs
    BY <1>2, <1>3, <2>1 DEF SeenInv
  <2>4. ASSUME pc' = "running"
        PROVE  /\ \A i \in idx'..Len(running') : counts'[running'[i]] = 0
               /\ order' = <<>> /\ idx' <= Len(running') + 1
    <3>1. idx < Len(running)
      BY <1>1, <1>3, <1>4, <2>4
    <3>2. ASSUME NEW i \in idx'..Len(running') PROVE counts'[running'[i]] = 0
      <4>1. i \in idx..Len(running) /\ i \in 1..Len(running) - 1
        BY <1>1, <1>2, <1>3
      <4>2. counts[running[i]] = 0
        BY <1>1, <2>1, <4>1 DEF SeenInv
      <4> QED BY <1>1, <1>2, <4>1, <4>2
    <3> QED BY <1>1, <1>2, <1>3, <3>1, <3>2
  <2>5. pc' \in {"running", "select"}
    BY <1>1
  <2> QED BY <2>2, <2>3, <2>4, <2>5 DEF SeenInv
<1> QED BY <1>2, <1>6, <1>8, <1>9, <1>10 DEF CoreInv, TokenInv, BlocksInv

LEMMA RunEndCore ==
  ASSUME CoreInv, RunEnd
  PROVE  CoreInv'
<1>0. /\ pc = "running" /\ pc' = (IF preempted = {} THEN "waiting" ELSE "select")
      /\ UNCHANGED <<status, running, waiting, skipped, computed, tokens, spec, kv, idx,
                     tokenBudget, inputBudget, counts, drafts, preempted, stepSkipped, missed,
                     queue, granting, grants, order, budget, inputs>>
  BY DEF RunEnd, requestVars, stepVars, fairVars
<1>1. pc' \in {"waiting", "select"} /\ (pc' = "waiting" => preempted = {})
  BY <1>0
<1>2. Typed' /\ QueueInv' /\ SeenInv'
  BY <1>0, <1>1 DEF CoreInv, Typed, TypeOK, StepNumbers, QueueInv, SeenInv
<1>3. ASSUME NEW x \in Request PROVE TokenAt(x)' /\ BlocksAt(x)'
  <2>1. TokenAt(x) /\ BlocksAt(x)
    BY DEF CoreInv, TokenInv, BlocksInv
  <2> QED BY <1>0, <1>1, <2>1, SameTokens, SameBlocks
<1>4. Free' >= 0
  BY <1>0, FreeStays DEF CoreInv, BlocksInv
<1> QED BY <1>2, <1>3, <1>4 DEF CoreInv, TokenInv, BlocksInv

LEMMA DeferCore ==
  ASSUME CoreInv, AdmitDefer
  PROVE  CoreInv'
<1>0. UNCHANGED <<pc, status, running, computed, tokens, spec, kv, idx, tokenBudget, inputBudget,
                  counts, drafts, preempted, missed, queue, granting, grants, order, budget, inputs>>
  BY DEF AdmitDefer, fairVars
<1>1. QueueInv'
  BY CoreParts, DeferQueues
<1>2. TypeOK' /\ SeenInv'
  BY <1>0 DEF CoreInv, Typed, TypeOK, SeenInv
<1>3. StepNumbers'
  BY <1>0 DEF CoreInv, Typed, StepNumbers
<1>4. ASSUME NEW x \in Request PROVE TokenAt(x)' /\ BlocksAt(x)'
  <2>1. TokenAt(x) /\ BlocksAt(x)
    BY DEF CoreInv, TokenInv, BlocksInv
  <2> QED BY <1>0, <2>1, SameTokens, SameBlocks
<1>5. Free' >= 0
  BY <1>0, FreeStays DEF CoreInv, BlocksInv
<1> QED BY <1>1, <1>2, <1>3, <1>4, <1>5 DEF CoreInv, Typed, TokenInv, BlocksInv

LEMMA RequeueCore ==
  ASSUME CoreInv, pc = "waiting", Requeue
  PROVE  CoreInv'
<1>0. /\ pc' = "select"
      /\ UNCHANGED <<status, running, computed, tokens, spec, kv, idx, tokenBudget, inputBudget,
                     counts, drafts, preempted, missed, queue, granting, grants, order, budget, inputs>>
  BY DEF Requeue, fairVars
<1>1. QueueInv'
  BY CoreParts, RequeueQueues
<1>2. TypeOK' /\ SeenInv'
  BY <1>0 DEF CoreInv, Typed, TypeOK, SeenInv
<1>3. StepNumbers'
  BY <1>0 DEF CoreInv, Typed, StepNumbers
<1>4. ASSUME NEW x \in Request PROVE TokenAt(x)' /\ BlocksAt(x)'
  <2>1. TokenAt(x) /\ BlocksAt(x)
    BY DEF CoreInv, TokenInv, BlocksInv
  <2> QED BY <1>0, <2>1, SameTokens, SameBlocks
<1>5. Free' >= 0
  BY <1>0, FreeStays DEF CoreInv, BlocksInv
<1> QED BY <1>1, <1>2, <1>3, <1>4, <1>5 DEF CoreInv, Typed, TokenInv, BlocksInv

\* A prefix hit is a position inside the prompt.
LEMMA HitsAre ==
  ASSUME NEW r \in Request, NEW hit \in Hits(r)
  PROVE  hit \in Nat /\ hit < Prompt[r]
<1>1. Prompt[r] \in Nat \ {0}
  BY Sizes
<1>2. ReplayBoundary(Prompt[r]) \in Nat /\ ReplayBoundary(Prompt[r]) < Prompt[r]
  BY <1>1, BoundaryIs
<1> QED BY <1>1, <1>2 DEF Hits

\* The tokens of an admission.
LEMMA AdmittedAre ==
  ASSUME CoreInv, AtWaiting, NEW r \in Request, NEW hit \in Hits(r),
         NEW n, n = Chunk(r, hit, Wanted(r, hit))
  PROVE  /\ hit \in Nat /\ hit < tokens[r] /\ hit < Prompt[r]
         /\ n \in Nat /\ hit + n <= tokens[r]
         /\ n <= tokenBudget /\ n <= inputBudget - DraftSlots
         /\ n # 0 => r \in allowed
         /\ IsPrefilling(r) /\ granting => n <= grants[r]
<1>1. PICK t \in Nat, p \in Nat : t = tokens[r] /\ p = Prompt[r] /\ p <= t
  BY CoreParts, TypesAre, Sizes DEF TokenInv, TokenAt
<1>2. hit \in Nat /\ hit < p
  BY <1>1, HitsAre
<1>3. tokenBudget \in Nat /\ inputBudget \in Nat /\ DraftSlots \in Nat /\ inputBudget > DraftSlots
  BY CoreParts, TypesAre, Sizes DEF AtWaiting, HasBudget
<1>4. PICK m \in Nat, left \in Nat : m = inputBudget - DraftSlots /\ left = t - hit
  <2>1. inputBudget - DraftSlots \in Nat
    BY <1>3
  <2>2. t - hit \in Nat
    BY <1>1, <1>2
  <2> QED BY <2>1, <2>2
<1>5. PICK w \in Nat : w = Least(left, Least(tokenBudget, m))
  BY <1>3 DEF Least
<1>6. w <= left /\ w <= tokenBudget /\ w <= m
  BY <1>3, <1>5 DEF Least
<1>7. n = Chunk(r, hit, w)
  BY <1>1, <1>4, <1>5 DEF Wanted
<1>8. /\ n \in Nat /\ n <= w
      /\ r \notin allowed => n = 0
      /\ IsPrefilling(r) /\ granting => n <= grants[r]
  BY <1>2, <1>7, CoreParts, ChunkIs
<1>9. hit + n <= t /\ n <= tokenBudget /\ n <= m
  BY <1>1, <1>2, <1>3, <1>4, <1>6, <1>8
<1> HIDE DEF IsPrefilling
<1> QED BY <1>1, <1>2, <1>4, <1>8, <1>9

LEMMA ServeCore ==
  ASSUME CoreInv, NEW hit, AdmitServe(hit)
  PROVE  CoreInv'
<1>0. PICK r, n : r = Waiter /\ n = Chunk(r, hit, Wanted(r, hit))
  OBVIOUS
<1>1. /\ AtWaiting /\ hit \in Hits(r) /\ n > 0 /\ Admissible(r, hit, n)
      /\ computed' = [computed EXCEPT ![r] = hit] /\ kv' = [kv EXCEPT ![r] = Slots(hit, n)]
      /\ Charge(r, n, 0)
      /\ UNCHANGED <<pc, tokens, spec, idx, preempted, missed,
                     queue, granting, grants, order, budget, inputs>>
  BY <1>0 DEF AdmitServe, fairVars
<1>2. /\ QueueInv' /\ Statuses' /\ r \in Request /\ status[r] \in {"waiting", "preempted"}
      /\ status' = [status EXCEPT ![r] = "running"]
      /\ Len(running') = Len(running) + 1
  BY <1>0, CoreParts, ServeQueues
<1>3. pc = "waiting" /\ pc' = "waiting" /\ Len(running) < MaxSeqs
  BY <1>1 DEF AtWaiting
<1>4. /\ hit \in Nat /\ hit < tokens[r] /\ n \in Nat /\ hit + n <= tokens[r]
      /\ n <= tokenBudget /\ n <= inputBudget - DraftSlots
  BY <1>0, <1>1, <1>2, AdmittedAre
<1>5. PICK v \in Nat : v = Slots(hit, n) /\ hit + n <= v * Block
  <2>1. tokens[r] \in Nat /\ MaxModelLen \in Nat /\ tokens[r] + 1 <= MaxModelLen
    BY <1>2, CoreParts, TypesAre, Sizes, InContext DEF Live
  <2>2. hit + n <= MaxModelLen
    BY <1>4, <2>1
  <2> QED BY <1>4, <2>2, SlotsHold
<1>6. /\ counts' = [counts EXCEPT ![r] = n] /\ drafts' = [drafts EXCEPT ![r] = 0]
      /\ tokenBudget' = tokenBudget - n /\ inputBudget' = inputBudget - (n + DraftSlots)
      /\ kv' = [kv EXCEPT ![r] = v]
  BY <1>1, <1>5 DEF Charge
<1>7. Typed'
  <2>1. /\ counts' \in [Request -> Nat] /\ drafts' \in [Request -> Nat] /\ kv' \in [Request -> Nat]
        /\ computed' \in [Request -> Nat]
    BY <1>1, <1>2, <1>4, <1>6, CoreParts, TypesAre
  <2>2. tokenBudget' \in Nat /\ inputBudget' \in Nat
    <3>1. tokenBudget \in Nat /\ inputBudget \in Nat /\ DraftSlots \in Nat
      BY CoreParts, TypesAre, Sizes
    <3> QED BY <1>4, <1>6, <3>1
  <2>3. TypeOK'
    BY <1>1, <1>2, <2>1, <2>2, ZenonT(60) DEF CoreInv, Typed, TypeOK, Statuses
  <2>4. StepNumbers'
    BY <1>1 DEF CoreInv, Typed, StepNumbers
  <2> QED BY <2>3, <2>4 DEF Typed
<1>8. kv[r] = 0
  BY <1>2, CoreParts DEF BlocksInv, BlocksAt
<1>9. ASSUME NEW x \in Request PROVE TokenAt(x)' /\ BlocksAt(x)'
  <2>1. TokenAt(x) /\ BlocksAt(x)
    BY DEF CoreInv, TokenInv, BlocksInv
  <2>2. CASE x = r
    <3>1. /\ counts'[r] = n /\ drafts'[r] = 0 /\ kv'[r] = v /\ computed'[r] = hit
          /\ status'[r] = "running"
      BY <1>1, <1>2, <1>6, CoreParts, TypesAre DEF Statuses
    <3>2. tokens'[r] = tokens[r] /\ spec'[r] = spec[r] /\ tokens[r] \in Nat
      BY <1>1, <1>2, CoreParts, TypesAre
    <3>3. TokenAt(x)'
      BY <1>2, <1>3, <1>4, <2>1, <2>2, <3>1, <3>2 DEF TokenAt, Live
    <3>4. BlocksAt(x)'
      BY <1>3, <1>5, <2>2, <3>1 DEF BlocksAt
    <3> QED BY <3>3, <3>4
  <2>3. CASE x # r
    <3>1. /\ counts'[x] = counts[x] /\ drafts'[x] = drafts[x] /\ kv'[x] = kv[x]
          /\ computed'[x] = computed[x] /\ status'[x] = status[x]
      BY <1>1, <1>2, <1>6, <2>3, CoreParts, TypesAre DEF Statuses
    <3> QED BY <1>1, <2>1, <3>1, SameTokens, SameBlocks
  <2> QED BY <2>2, <2>3
<1>10. Free' >= 0
  <2>1. v <= Free
    <3>1. PICK b \in Nat : b = BlocksFor(tokens[r])
      BY <1>2, CoreParts, TypesAre, BlocksHold
    <3>2. Most(v, b) + (IF running = <<>> THEN 0 ELSE Watermark) <= Free /\ Watermark \in Nat
      BY <1>1, <1>5, <3>1, Sizes DEF Admissible
    <3>3. Free \in Int
      <4>1. Total(kv, Request) \in Nat
        BY CoreParts, TypesAre, TotalIsNat
      <4> QED BY <4>1, FreeIs, Sizes
    <3> QED BY <3>2, <3>3 DEF Most
  <2>2. kv \in [Request -> Nat] /\ Free >= 0
    BY CoreParts, TypesAre DEF BlocksInv
  <2>3. v - kv[r] <= Free \/ v <= kv[r]
    BY <1>8, <2>1
  <2> QED BY <1>2, <1>6, <2>2, <2>3, HoldsMore
<1>11. SeenInv'
  <2>1. SeenInv /\ Len(running) \in Nat /\ MaxSeqs \in Nat
    BY CoreParts, Sizes DEF QueueInv
  <2>2. ASSUME NEW x \in Request, status'[x] # "running" PROVE counts'[x] = 0
    <3>1. x # r /\ status[x] # "running"
      BY <1>2, <2>2, CoreParts DEF Statuses
    <3>2. counts[x] = 0
      BY <1>3, <2>1, <3>1 DEF SeenInv
    <3> QED BY <1>6, <3>1, <3>2, CoreParts, TypesAre
  <2>3. preempted' = {} /\ Len(running') <= MaxSeqs
    BY <1>1, <1>2, <1>3, <2>1 DEF SeenInv
  <2> QED BY <1>3, <2>2, <2>3 DEF SeenInv
<1> QED BY <1>2, <1>7, <1>9, <1>10, <1>11 DEF CoreInv, TokenInv, BlocksInv

\* What a truncated batch leaves of the tokens and drafts of a request.
LEMMA SelectIs ==
  ASSUME CoreInv, NEW k \in KChoices, Select(k)
  PROVE  /\ counts' \in [Request -> Nat] /\ drafts' \in [Request -> Nat]
         /\ computed' \in [Request -> Nat]
         /\ \A x \in Request :
              /\ computed'[x] = computed[x] + counts'[x]
              /\ counts'[x] <= counts[x]
              /\ counts'[x] = 0 <=> counts[x] = 0
              /\ computed[x] + counts[x] <= tokens[x] + drafts[x] /\ computed[x] <= tokens[x]
                 /\ drafts[x] <= counts[x]
                   => computed'[x] <= tokens[x] + drafts'[x] /\ drafts'[x] <= counts'[x]
<1>1. /\ counts' = (IF Uniform THEN [r \in Request |-> IF r \in Served THEN k + 1 ELSE 0] ELSE counts)
      /\ drafts' = (IF Uniform THEN [r \in Request |-> IF r \in Served THEN k ELSE 0] ELSE drafts)
      /\ computed' = [r \in Request |-> computed[r] + counts'[r]]
  BY DEF Select
<1>2. /\ counts \in [Request -> Nat] /\ drafts \in [Request -> Nat] /\ computed \in [Request -> Nat]
      /\ tokens \in [Request -> Nat] /\ k \in Nat /\ K \in Nat /\ k <= K
  <2>1. k \in 1..K /\ K \in Nat
    BY Sizes
  <2> QED BY <2>1, CoreParts, TypesAre
<1>3. CASE ~Uniform
  <2>1. counts' = counts /\ drafts' = drafts
    BY <1>1, <1>3
  <2>2. computed' \in [Request -> Nat]
    BY <1>1, <1>2, <2>1
  <2>3. \A x \in Request : computed'[x] = computed[x] + counts[x]
    BY <1>1, <2>1
  <2> QED BY <1>2, <2>1, <2>2, <2>3
<1>4. CASE Uniform
  <2>1. /\ counts' = [r \in Request |-> IF r \in Served THEN k + 1 ELSE 0]
        /\ drafts' = [r \in Request |-> IF r \in Served THEN k ELSE 0]
    BY <1>1, <1>4
  <2>2. counts' \in [Request -> Nat] /\ drafts' \in [Request -> Nat]
    BY <1>2, <2>1
  <2>3. computed' \in [Request -> Nat]
    BY <1>1, <1>2, <2>2
  <2>4. ASSUME NEW x \in Request
        PROVE  /\ computed'[x] = computed[x] + counts'[x]
               /\ counts'[x] <= counts[x]
               /\ counts'[x] = 0 <=> counts[x] = 0
               /\ computed[x] + counts[x] <= tokens[x] + drafts[x] /\ computed[x] <= tokens[x]
                  /\ drafts[x] <= counts[x]
                    => computed'[x] <= tokens[x] + drafts'[x] /\ drafts'[x] <= counts'[x]
    <3>1. PICK c \in Nat, t \in Nat, n \in Nat, d \in Nat :
            c = computed[x] /\ t = tokens[x] /\ n = counts[x] /\ d = drafts[x]
      BY <1>2
    <3>2. computed'[x] = c + counts'[x]
      BY <1>1, <3>1
    <3>3. CASE x \in Served
      <4>1. n = K + 1 /\ d = K
        BY <1>4, <3>1, <3>3 DEF Uniform
      <4>2. counts'[x] = k + 1 /\ drafts'[x] = k
        BY <2>1, <3>3
      <4> QED BY <1>2, <3>1, <3>2, <4>1, <4>2
    <3>4. CASE x \notin Served
      <4>1. n = 0
        BY <1>2, <3>1, <3>4 DEF Served
      <4>2. counts'[x] = 0 /\ drafts'[x] = 0
        BY <2>1, <3>4
      <4> QED BY <3>1, <3>2, <4>1, <4>2
    <3> QED BY <3>3, <3>4
  <2> QED BY <2>2, <2>3, <2>4
<1> QED BY <1>3, <1>4

LEMMA SelectCore ==
  ASSUME CoreInv, NEW k \in KChoices, Select(k)
  PROVE  CoreInv'
<1>0. /\ pc = "select" /\ pc' = "model"
      /\ missed' = [r \in Request |-> IF r \in RunningDecoders \ Served
                                      THEN Least(missed[r] + 1, 2) ELSE 0]
      /\ UNCHANGED <<status, running, waiting, skipped, tokens, spec, kv, idx,
                     tokenBudget, inputBudget, preempted, stepSkipped>>
  BY DEF Select
<1>1. FairObserve(Served) \/ UNCHANGED fairVars
  BY DEF Select
<1>2. /\ counts' \in [Request -> Nat] /\ drafts' \in [Request -> Nat]
      /\ computed' \in [Request -> Nat]
      /\ \A x \in Request :
           /\ computed'[x] = computed[x] + counts'[x]
           /\ counts'[x] <= counts[x]
           /\ counts'[x] = 0 <=> counts[x] = 0
           /\ computed[x] + counts[x] <= tokens[x] + drafts[x] /\ computed[x] <= tokens[x]
              /\ drafts[x] <= counts[x]
                => computed'[x] <= tokens[x] + drafts'[x] /\ drafts'[x] <= counts'[x]
  BY SelectIs
<1>3. /\ budget' \in Int /\ inputs' \in Int /\ queue' \in Seq(Request)
      /\ UNCHANGED <<granting, grants, order>>
  <2>1. queue \in Seq(Request) /\ budget \in Int /\ inputs \in Int
    BY CoreParts, TypesAre
  <2>2. CASE UNCHANGED fairVars
    BY <2>1, <2>2 DEF fairVars
  <2>3. CASE FairObserve(Served)
    <3>1. /\ queue' = Only(queue, ToSet(queue) \ Offered(Served)) \o Only(queue, Offered(Served))
          /\ budget' = 0 /\ inputs' = 0 /\ UNCHANGED <<granting, grants, order>>
      BY <2>3 DEF FairObserve
    <3>2. /\ Only(queue, ToSet(queue) \ Offered(Served)) \in Seq(Request)
          /\ Only(queue, Offered(Served)) \in Seq(Request)
      BY <2>1, OnlyMembers
    <3> QED BY <3>1, <3>2
  <2> QED BY <1>1, <2>2, <2>3
<1>4. QueueInv'
  BY <1>0 DEF CoreInv, QueueInv
<1>5. Typed'
  <2>1. missed' \in [Request -> 0..2]
    <3>1. \A r \in Request : missed[r] \in 0..2
      BY CoreParts, TypesAre
    <3>2. \A r \in Request : Least(missed[r] + 1, 2) \in 0..2
      BY <3>1 DEF Least
    <3> QED BY <1>0, <3>2
  <2>2. TypeOK'
    BY <1>0, <1>2, <2>1 DEF CoreInv, Typed, TypeOK
  <2>3. StepNumbers'
    BY <1>0, <1>3 DEF CoreInv, Typed, StepNumbers
  <2> QED BY <2>2, <2>3 DEF Typed
<1>6. ASSUME NEW x \in Request PROVE TokenAt(x)' /\ BlocksAt(x)'
  <2>1. TokenAt(x) /\ BlocksAt(x) /\ SeenInv
    BY DEF CoreInv, TokenInv, BlocksInv
  <2>2. PICK c \in Nat, t \in Nat, n \in Nat, d \in Nat, n1 \in Nat, d1 \in Nat, c1 \in Nat :
          /\ c = computed[x] /\ t = tokens[x] /\ n = counts[x] /\ d = drafts[x]
          /\ n1 = counts'[x] /\ d1 = drafts'[x] /\ c1 = computed'[x]
    BY <1>2, CoreParts, TypesAre
  <2>3. /\ c1 = c + n1 /\ n1 <= n /\ (n1 = 0 <=> n = 0)
        /\ c + n <= t + d /\ c <= t /\ d <= n => c1 <= t + d1 /\ d1 <= n1
    BY <1>2, <2>2
  <2>4. CASE status[x] = "running"
    <3>1. c < t /\ c + n <= t + d /\ d <= n /\ c + n <= kv[x] * Block
      BY <1>0, <2>1, <2>2, <2>4 DEF TokenAt, BlocksAt
    <3>2. c1 <= t + d1 /\ d1 <= c1 /\ (n1 = 0 => c1 < t)
      BY <2>2, <2>3, <3>1
    <3>3. c1 <= kv[x] * Block
      <4> PICK m \in Nat : m = kv[x] * Block
        <5> PICK a \in Nat, b \in Nat : a = kv[x] /\ b = Block
          BY CoreParts, TypesAre, Units
        <5> QED OBVIOUS
      <4> QED BY <2>2, <2>3, <3>1
    <3>4. TokenAt(x)'
      BY <1>0, <2>1, <2>2, <2>4, <3>2 DEF TokenAt, Live
    <3>5. BlocksAt(x)'
      BY <1>0, <2>2, <2>4, <3>3 DEF BlocksAt
    <3> QED BY <3>4, <3>5
  <2>5. CASE status[x] # "running"
    <3>1. n = 0
      BY <1>0, <2>1, <2>2, <2>5 DEF SeenInv
    <3>2. computed'[x] = computed[x]
      BY <2>2, <2>3, <3>1
    <3> QED BY <1>0, <2>1, <2>5, <3>2 DEF TokenAt, BlocksAt, Live
  <2> QED BY <2>4, <2>5
<1>7. Free' >= 0
  BY <1>0, FreeStays DEF CoreInv, BlocksInv
<1>8. SeenInv'
  BY <1>0 DEF CoreInv, SeenInv
<1> QED BY <1>4, <1>5, <1>6, <1>7, <1>8 DEF CoreInv, TokenInv, BlocksInv

\* What the output of the model does to a request.
LEMMA UpdateIs ==
  ASSUME CoreInv, NEW acc \in Acceptances, NEW stops, Update(acc, stops), NEW x \in Request
  PROVE  LET ended == x \in Ended(acc, stops)
             length == Least(tokens[x] + 1 + acc[x], Prompt[x] + MaxOut[x])
         IN  /\ acc[x] \in Nat /\ acc[x] <= K /\ (x \in Sampled => acc[x] <= drafts[x])
             /\ ended => x \in Sampled
             /\ ~ended /\ x \in Sampled => length # Prompt[x] + MaxOut[x]
             /\ ended /\ x \notin stops => length = Prompt[x] + MaxOut[x]
             /\ tokens'[x] = IF x \in Sampled THEN length ELSE tokens[x]
             /\ computed'[x] = IF ended THEN 0
                               ELSE IF x \in Sampled THEN computed[x] - (drafts[x] - acc[x])
                               ELSE computed[x]
             /\ spec'[x] = IF ended THEN 0 ELSE IF x \in Sampled THEN K ELSE spec[x]
             /\ kv'[x] = IF ended THEN 0 ELSE kv[x]
             /\ missed'[x] = IF ended THEN 0 ELSE missed[x]
             /\ status'[x] = IF ended THEN "finished" ELSE status[x]
<1> DEFINE length(r) == Least(tokens[r] + 1 + acc[r], Prompt[r] + MaxOut[r])
           done == {r \in Sampled : r \in stops \/ length(r) = Prompt[r] + MaxOut[r]}
<1>1. /\ status' = [r \in Request |-> IF r \in done THEN "finished" ELSE status[r]]
      /\ tokens' = [r \in Request |-> IF r \in Sampled THEN length(r) ELSE tokens[r]]
      /\ computed' = [r \in Request |->
                        CASE r \in done -> 0
                          [] r \in Sampled \ done -> computed[r] - (drafts[r] - acc[r])
                          [] OTHER -> computed[r]]
      /\ spec' = [r \in Request |-> CASE r \in done -> 0
                                      [] r \in Sampled \ done -> K
                                      [] OTHER -> spec[r]]
      /\ kv' = [r \in Request |-> IF r \in done THEN 0 ELSE kv[r]]
      /\ missed' = [r \in Request |-> IF r \in done THEN 0 ELSE missed[r]]
  BY DEF Update
<1>2. done = Ended(acc, stops)
  BY DEF Ended
<1>3. acc[x] \in 0..K /\ (x \in Sampled => acc[x] <= drafts[x]) /\ K \in Nat
  BY Sizes DEF Acceptances
<1>4. x \in done <=> x \in Sampled /\ (x \in stops \/ length(x) = Prompt[x] + MaxOut[x])
  OBVIOUS
<1> HIDE DEF done, length
<1>5. /\ status'[x] = IF x \in done THEN "finished" ELSE status[x]
      /\ tokens'[x] = IF x \in Sampled THEN length(x) ELSE tokens[x]
      /\ computed'[x] = IF x \in done THEN 0
                        ELSE IF x \in Sampled THEN computed[x] - (drafts[x] - acc[x])
                        ELSE computed[x]
      /\ spec'[x] = IF x \in done THEN 0 ELSE IF x \in Sampled THEN K ELSE spec[x]
      /\ kv'[x] = IF x \in done THEN 0 ELSE kv[x]
      /\ missed'[x] = IF x \in done THEN 0 ELSE missed[x]
  BY <1>1, <1>4
<1> QED BY <1>2, <1>3, <1>4, <1>5 DEF length

LEMMA UpdateCore ==
  ASSUME CoreInv, NEW acc \in Acceptances, NEW stops, Update(acc, stops)
  PROVE  CoreInv'
<1>0. /\ pc = "model" /\ pc' = "idle" /\ counts' = Zero /\ drafts' = Zero
      /\ idx' = 1 /\ tokenBudget' = 0 /\ inputBudget' = 0 /\ preempted' = {}
      /\ running' = Only(running, ToSet(running) \ Ended(acc, stops))
      /\ tokens' = [r \in Request |-> tokens'[r]] /\ computed' = [r \in Request |-> computed'[r]]
      /\ spec' = [r \in Request |-> spec'[r]] /\ kv' = [r \in Request |-> kv'[r]]
      /\ missed' = [r \in Request |-> missed'[r]]
      /\ UNCHANGED <<waiting, skipped, stepSkipped, queue, granting, grants, order, budget, inputs>>
  BY DEF Update, fairVars, Ended
<1>1. QueueInv' /\ Statuses'
  BY CoreParts, UpdateQueues
<1>2. Zero \in [Request -> Nat] /\ \A x \in Request : Zero[x] = 0
  BY DEF Zero
<1>3. ASSUME NEW x \in Request
      PROVE  /\ tokens'[x] \in Nat /\ computed'[x] \in Nat /\ spec'[x] \in Nat /\ kv'[x] \in Nat
             /\ missed'[x] \in 0..2 /\ kv'[x] <= kv[x]
             /\ TokenAt(x)' /\ BlocksAt(x)'
  <2>1. TokenAt(x) /\ BlocksAt(x)
    BY DEF CoreInv, TokenInv, BlocksInv
  <2>2. PICK c \in Nat, t \in Nat, n \in Nat, d \in Nat, s \in Nat, h \in Nat, P \in Nat, M \in Nat, z \in Nat :
          /\ c = computed[x] /\ t = tokens[x] /\ n = counts[x] /\ d = drafts[x] /\ s = spec[x]
          /\ h = kv[x] /\ P = Prompt[x] /\ M = MaxOut[x] /\ z = K
    BY CoreParts, TypesAre, Sizes
  <2>3. missed[x] \in 0..2 /\ status[x] \in Status
    BY CoreParts, TypesAre DEF Statuses
  <2>4. x \in Sampled <=> n # 0 /\ status[x] = "running" /\ c >= t
    BY <2>2 DEF Sampled, Served
  <2>5. counts'[x] = 0 /\ drafts'[x] = 0
    BY <1>0, <1>2
  <2>6. PICK a \in Nat : a = acc[x] /\ a <= z /\ (x \in Sampled => a <= d)
    BY <2>2, UpdateIs
  <2>7. PICK l \in Nat : l = Least(t + 1 + a, P + M)
    BY DEF Least
  <2>8. l <= P + M /\ (l # P + M => l = t + 1 + a) /\ (t < P + M => l > t)
    BY <2>2, <2>7 DEF Least
  <2>9. CASE x \in Ended(acc, stops)
    <3>1. /\ tokens'[x] = l /\ computed'[x] = 0 /\ spec'[x] = 0 /\ kv'[x] = 0
          /\ missed'[x] = 0 /\ status'[x] = "finished" /\ x \in Sampled
      BY <2>2, <2>6, <2>7, <2>9, UpdateIs
    <3>2. P <= t /\ t < P + M
      BY <2>1, <2>2, <2>4, <3>1 DEF TokenAt, Live
    <3> QED BY <1>0, <2>2, <2>8, <3>1, <3>2 DEF TokenAt, BlocksAt, Live
  <2>10. CASE x \notin Ended(acc, stops) /\ x \in Sampled
    <3>1. /\ tokens'[x] = l /\ computed'[x] = c - (d - a) /\ spec'[x] = z /\ kv'[x] = h
          /\ missed'[x] = missed[x] /\ status'[x] = status[x] /\ l # P + M
      BY <2>2, <2>6, <2>7, <2>10, UpdateIs
    <3>2. P <= t /\ t < P + M /\ c <= t + d /\ d <= c /\ c <= h * Block
      BY <1>0, <2>1, <2>2, <2>4, <2>10 DEF TokenAt, BlocksAt, Live
    <3>3. PICK e \in Nat : e = c - (d - a) /\ e <= c /\ e < l
      <4>1. c - (d - a) \in Nat /\ c - (d - a) <= c /\ c - (d - a) < l
        BY <2>6, <2>8, <2>10, <3>1, <3>2
      <4> QED BY <4>1
    <3>4. TokenAt(x)'
      BY <1>0, <2>2, <2>4, <2>5, <2>8, <2>10, <3>1, <3>2, <3>3 DEF TokenAt, Live
    <3>5. BlocksAt(x)'
      <4> PICK m \in Nat : m = h * Block
        <5> PICK b \in Nat : b = Block
          BY Units
        <5> QED OBVIOUS
      <4>1. e <= m
        BY <3>2, <3>3
      <4> QED BY <1>0, <2>4, <2>5, <2>10, <3>1, <3>3, <4>1 DEF BlocksAt
    <3> QED BY <2>2, <2>3, <3>1, <3>3, <3>4, <3>5
  <2>11. CASE x \notin Sampled
    <3>1. /\ tokens'[x] = t /\ computed'[x] = c /\ spec'[x] = s /\ kv'[x] = h
          /\ missed'[x] = missed[x] /\ status'[x] = status[x]
      BY <2>2, <2>11, UpdateIs
    <3>2. status[x] = "running" => c < t
      BY <1>0, <2>1, <2>2, <2>4, <2>11 DEF TokenAt
    <3>3. TokenAt(x)'
      BY <1>0, <2>1, <2>2, <2>5, <3>1, <3>2 DEF TokenAt, Live
    <3>4. BlocksAt(x)'
      BY <1>0, <2>1, <2>2, <2>5, <3>1 DEF BlocksAt
    <3> QED BY <2>2, <2>3, <3>1, <3>3, <3>4
  <2> QED BY <2>9, <2>10, <2>11
<1>4. Typed'
  <2>1. /\ tokens' \in [Request -> Nat] /\ computed' \in [Request -> Nat] /\ spec' \in [Request -> Nat]
        /\ kv' \in [Request -> Nat] /\ missed' \in [Request -> 0..2]
    BY <1>0, <1>3
  <2>2. TypeOK'
    BY <1>0, <1>1, <1>2, <2>1 DEF TypeOK, Statuses
  <2>3. StepNumbers'
    BY <1>0 DEF CoreInv, Typed, StepNumbers
  <2> QED BY <2>2, <2>3 DEF Typed
<1>5. Free' >= 0
  <2>1. kv \in [Request -> Nat] /\ kv' \in [Request -> Nat] /\ Free >= 0
    BY <1>4, TypesAre, CoreParts DEF BlocksInv, Typed, TypeOK
  <2>2. \A x \in Request : kv'[x] <= kv[x]
    BY <1>3
  <2> QED BY <2>1, <2>2, HoldsLess
<1>6. SeenInv'
  <2>1. Len(running') \in Nat /\ Len(running') <= Len(running) /\ Len(running) \in Nat
    BY <1>0, CoreParts, OnlyShorter DEF QueueInv
  <2>2. SeenInv /\ MaxSeqs \in Nat
    BY Sizes DEF CoreInv
  <2>3. Len(running') <= MaxSeqs
    BY <2>1, <2>2 DEF SeenInv
  <2> QED BY <1>0, <1>2, <2>3 DEF SeenInv
<1> QED BY <1>1, <1>3, <1>4, <1>5, <1>6 DEF CoreInv, TokenInv, BlocksInv

\* Every step keeps the invariant.
LEMMA NextCore == CoreInv /\ [Next]_vars => CoreInv'
<1> SUFFICES ASSUME CoreInv, [Next]_vars PROVE CoreInv'
  OBVIOUS
<1>1. CASE \E r \in Request : Add(r) \/ Abort(r)
  BY <1>1, AddCore, AbortCore
<1>2. CASE Begin
  BY <1>2, BeginCore
<1>3. CASE Grant
  BY <1>3, GrantCore
<1>4. CASE RunSkip \/ RunServe \/ RunPreempt \/ RunEnd
  BY <1>4, RunSkipCore, RunServeCore, RunPreemptCore, RunEndCore
<1>5. CASE AdmitDefer \/ \E hit \in PrefixHits : AdmitServe(hit)
  BY <1>5, DeferCore, ServeCore
<1>6. CASE AdmitEnd \/ \E hit \in PrefixHits : AdmitFail(hit)
  <2>1. pc = "waiting" /\ Requeue
    BY <1>6 DEF AdmitEnd, AdmitFail, AtWaiting
  <2> QED BY <2>1, RequeueCore
<1>7. CASE \E k \in KChoices : Select(k)
  BY <1>7, SelectCore
<1>8. CASE \E acc \in Acceptances, stops \in SUBSET Sampled : Update(acc, stops)
  BY <1>8, UpdateCore
<1>9. CASE UNCHANGED vars
  BY <1>9, StutterCore
<1> QED BY <1>1, <1>2, <1>3, <1>4, <1>5, <1>6, <1>7, <1>8, <1>9 DEF Next, Step

\* The inductive invariant of the engine step, for all sizes, budgets, pools
\* and request mixes.
THEOREM ServingInvariant == Spec => []CoreInv
<1> QED BY InitCore, NextCore, PTL DEF Spec

\* Type correctness of the scheduler's state.
THEOREM ServingTypeCorrect == Spec => []TypeOK
<1>1. CoreInv => TypeOK
  BY DEF CoreInv, Typed
<1> QED BY ServingInvariant, <1>1, PTL

LEMMA QueuesHoldTheLive == QueueInv /\ Statuses => OneQueue
<1> SUFFICES ASSUME QueueInv, Statuses PROVE OneQueue
  OBVIOUS
<1> DEFINE all == running \o waiting \o skipped \o stepSkipped
<1>1. PICK a : a = running \o waiting
  OBVIOUS
<1>2. PICK b : b = a \o skipped
  OBVIOUS
<1>3. PICK c : c = b \o stepSkipped
  OBVIOUS
<1>4. /\ running \in Seq(Request) /\ waiting \in Seq(Request)
      /\ skipped \in Seq(Request) /\ stepSkipped \in Seq(Request)
      /\ Once(running) /\ Once(waiting) /\ Once(skipped) /\ Once(stepSkipped)
      /\ ToSet(running) \cap (ToSet(waiting) \cup ToSet(skipped) \cup ToSet(stepSkipped)) = {}
      /\ ToSet(waiting) \cap ToSet(skipped) = {}
      /\ ToSet(stepSkipped) \cap (ToSet(waiting) \cup ToSet(skipped)) = {}
  BY DEF QueueInv
<1>5. a \in Seq(Request) /\ Once(a) /\ ToSet(a) = ToSet(running) \cup ToSet(waiting)
  <2>1. ToSet(running) \cap ToSet(waiting) = {}
    BY <1>4
  <2> QED BY <1>1, <1>4, <2>1, JoinIs
<1>6. b \in Seq(Request) /\ Once(b) /\ ToSet(b) = ToSet(a) \cup ToSet(skipped)
  <2>1. ToSet(a) \cap ToSet(skipped) = {}
    BY <1>4, <1>5
  <2> QED BY <1>2, <1>4, <1>5, <2>1, JoinIs
<1>7. c \in Seq(Request) /\ Once(c) /\ ToSet(c) = ToSet(b) \cup ToSet(stepSkipped)
  <2>1. ToSet(b) \cap ToSet(stepSkipped) = {}
    BY <1>4, <1>5, <1>6
  <2> QED BY <1>3, <1>4, <1>6, <2>1, JoinIs
<1>8. ToSet(c) = Live
  BY <1>5, <1>6, <1>7 DEF QueueInv, Live
<1>9. Len(c) = Cardinality(Live)
  BY <1>7, <1>8, LengthIs
<1>10. all = c
  BY <1>1, <1>2, <1>3
<1>11. \A r \in Request : r \in ToSet(running) <=> status[r] = "running"
  BY DEF QueueInv
<1> QED BY <1>8, <1>9, <1>10, <1>11 DEF OneQueue

LEMMA BlocksCover == CoreInv => KVCovered
<1> SUFFICES ASSUME CoreInv PROVE KVCovered
  OBVIOUS
<1>1. Free >= 0
  BY DEF CoreInv, BlocksInv
<1>2. ASSUME NEW r \in Request
      PROVE  IF status[r] = "running" THEN computed[r] <= kv[r] * Block ELSE kv[r] = 0
  <2>1. BlocksAt(r)
    BY DEF CoreInv, BlocksInv
  <2>2. PICK c \in Nat, n \in Nat, m \in Nat : c = computed[r] /\ n = counts[r] /\ m = kv[r] * Block
    <3> PICK a \in Nat, b \in Nat : a = kv[r] /\ b = Block
      BY CoreParts, TypesAre, Units
    <3> QED BY CoreParts, TypesAre
  <2> QED BY <2>1, <2>2 DEF BlocksAt
<1> QED BY <1>1, <1>2 DEF KVCovered

\* No skip, preemption, abort, requeue or truncation ever loses or duplicates
\* a request or a block (schedule, _preempt_request, finish_requests,
\* _free_request).
THEOREM NothingIsMislaid == Spec => []NothingMislaid
<1>1. CoreInv => NothingMislaid
  BY CoreParts, QueuesHoldTheLive, BlocksCover DEF NothingMislaid
<1> QED BY ServingInvariant, <1>1, PTL

-----------------------------------------------------------------------------
\* The engine implements RequestLifecycle.

\* What the clients see of the engine's state.
Client == [r \in Request |-> CASE status[r] = "new" -> "none"
                               [] r \in Live -> "open"
                               [] OTHER -> "closed"]
Delivered == [r \in Request |-> tokens[r] - Prompt[r]]

\* A step in which nobody's status or tokens change is a stutter.
LEMMA SameForClients ==
  ASSUME tokens' = tokens, \A r \in Request : status'[r] = status[r]
  PROVE  Client' = Client /\ Delivered' = Delivered
BY DEF Client, Delivered, Live

ClientSeen ==
  \A r \in Request : Client[r] = IF status[r] = "new" THEN "none"
                                 ELSE IF r \in Live THEN "open" ELSE "closed"

LEMMA ClientIs == ClientSeen
<1> SUFFICES ASSUME NEW r \in Request
             PROVE  Client[r] = IF status[r] = "new" THEN "none"
                                ELSE IF r \in Live THEN "open" ELSE "closed"
  BY DEF ClientSeen
<1>1. PICK f : f = Client
  OBVIOUS
<1>2. f[r] = CASE status[r] = "new" -> "none" [] r \in Live -> "open" [] OTHER -> "closed"
  BY <1>1 DEF Client
<1>3. CASE status[r] = "new"
  <2>1. r \notin Live
    BY <1>3 DEF Live
  <2> QED BY <1>1, <1>2, <1>3, <2>1
<1>4. CASE status[r] # "new" /\ r \in Live
  BY <1>1, <1>2, <1>4
<1>5. CASE status[r] # "new" /\ r \notin Live
  BY <1>1, <1>2, <1>5
<1> QED BY <1>3, <1>4, <1>5

LEMMA DeliveredIs ==
  ASSUME NEW r \in Request
  PROVE  Delivered[r] = tokens[r] - Prompt[r]
BY DEF Delivered

LEMMA InitLifecycle == Init => Lifecycle!Init
<1> SUFFICES ASSUME Init PROVE Lifecycle!Init
  OBVIOUS
<1>1. status = [r \in Request |-> "new"] /\ tokens = Prompt
  BY DEF Init
<1>2. ASSUME NEW r \in Request PROVE Delivered[r] = 0
  BY <1>1, DeliveredIs, Sizes
<1>3. ASSUME NEW r \in Request PROVE Client[r] = "none"
  BY <1>1, ClientIs DEF ClientSeen
<1>4. Delivered = [r \in Request |-> 0]
  BY <1>2 DEF Delivered
<1>5. Client = [r \in Request |-> "none"]
  <2>1. DOMAIN Client = Request /\ Client = [r \in DOMAIN Client |-> Client[r]]
    BY DEF Client
  <2> QED BY <1>3, <2>1
<1> QED BY <1>4, <1>5 DEF Lifecycle!Init, Client, Delivered

LEMMA AddIsSubmit ==
  ASSUME CoreInv, NEW r \in Request, Add(r)
  PROVE  Lifecycle!Submit(r)
<1>1. /\ status[r] \in {"new", "finished", "aborted"}
      /\ status' = [status EXCEPT ![r] = "waiting"] /\ tokens' = [tokens EXCEPT ![r] = Prompt[r]]
      /\ status \in [Request -> Status] /\ tokens \in [Request -> Nat] /\ Prompt[r] \in Nat
  BY CoreParts, TypesAre, Sizes DEF Add, Statuses
<1>2. Client[r] # "open"
  BY <1>1, ClientIs DEF ClientSeen, Live
<1>3. Client' = [Client EXCEPT ![r] = "open"]
  BY <1>1 DEF Client, Live
<1>4. Delivered' = [Delivered EXCEPT ![r] = 0]
  <2>1. ASSUME NEW x \in Request
        PROVE  tokens'[x] - Prompt[x] = IF x = r THEN 0 ELSE tokens[x] - Prompt[x]
    <3>1. CASE x = r
      BY <1>1, <3>1
    <3>2. CASE x # r
      BY <1>1, <3>2
    <3> QED BY <3>1, <3>2
  <2> QED BY <2>1 DEF Delivered
<1> QED BY <1>2, <1>3, <1>4 DEF Lifecycle!Submit, Client, Delivered

LEMMA AbortIsCancel ==
  ASSUME CoreInv, NEW r \in Request, Abort(r)
  PROVE  Lifecycle!Cancel(r)
<1>1. /\ r \in Live /\ status' = [status EXCEPT ![r] = "aborted"] /\ tokens' = tokens
      /\ status \in [Request -> Status]
  BY CoreParts, TypesAre DEF Abort, Statuses
<1>2. Client[r] = "open"
  BY <1>1, ClientIs DEF ClientSeen, Live
<1>3. Client' = [Client EXCEPT ![r] = "closed"]
  BY <1>1 DEF Client, Live
<1>4. Delivered' = Delivered
  BY <1>1 DEF Delivered
<1> QED BY <1>2, <1>3, <1>4 DEF Lifecycle!Cancel, Client, Delivered

LEMMA UpdateIsDeliver ==
  ASSUME CoreInv, NEW acc \in Acceptances, NEW stops, Update(acc, stops)
  PROVE  Lifecycle!Deliver
<1>1. ASSUME NEW x \in Request
      PROVE  \/ Delivered'[x] = Delivered[x] /\ Client'[x] = Client[x]
             \/ /\ Client[x] = "open"
                /\ Delivered'[x] \in Delivered[x] + 1..Delivered[x] + (K + 1)
                /\ Delivered'[x] <= MaxOut[x]
                /\ Client'[x] \in {"open", "closed"}
                /\ Delivered'[x] = MaxOut[x] => Client'[x] = "closed"
  <2>1. /\ Client[x] = (IF status[x] = "new" THEN "none" ELSE IF x \in Live THEN "open" ELSE "closed")
        /\ Client'[x] = (IF status'[x] = "new" THEN "none" ELSE IF x \in Live' THEN "open" ELSE "closed")
        /\ Delivered[x] = tokens[x] - Prompt[x] /\ Delivered'[x] = tokens'[x] - Prompt[x]
    <3>1. ClientSeen
      BY ClientIs
    <3>2. ClientSeen'
      BY ClientIs, PTL
    <3> QED BY <3>1, <3>2 DEF ClientSeen, Delivered
  <2>2. PICK c \in Nat, t \in Nat, d \in Nat, P \in Nat, M \in Nat, z \in Nat :
          /\ c = computed[x] /\ t = tokens[x] /\ d = drafts[x]
          /\ P = Prompt[x] /\ M = MaxOut[x] /\ z = K
    BY CoreParts, TypesAre, Sizes
  <2>3. PICK a \in Nat : a = acc[x] /\ a <= z
    BY <2>2, UpdateIs
  <2>4. PICK l \in Nat : l = Least(t + 1 + a, P + M)
    BY DEF Least
  <2>5. CASE x \in Sampled
    <3>1. status[x] = "running" /\ x \in Live
      BY <2>5 DEF Sampled, Live
    <3>2. P <= t /\ t < P + M
      BY <2>2, <3>1, CoreParts DEF TokenInv, TokenAt
    <3>3. l <= P + M /\ l <= t + 1 + a /\ t + 1 <= l
      BY <2>4, <3>2 DEF Least
    <3>4. /\ tokens'[x] = l
          /\ status'[x] = (IF x \in Ended(acc, stops) THEN "finished" ELSE status[x])
          /\ x \notin Ended(acc, stops) => l # P + M
      BY <2>2, <2>3, <2>4, <2>5, UpdateIs
    <3>5. Delivered'[x] = l - P /\ Delivered[x] = t - P
      BY <2>1, <2>2, <3>4
    <3>6. Client[x] = "open" /\ Client'[x] \in {"open", "closed"}
          /\ (Client'[x] = "open" => x \notin Ended(acc, stops))
      BY <2>1, <3>1, <3>4 DEF Live
    <3>7. Delivered'[x] = M => x \in Ended(acc, stops)
      BY <2>2, <3>4, <3>5
    <3>8. l - P \in t - P + 1..t - P + (z + 1) /\ l - P <= M
      BY <2>3, <3>2, <3>3
    <3> QED BY <2>2, <3>5, <3>6, <3>7, <3>8
  <2>6. CASE x \notin Sampled
    <3>1. tokens'[x] = tokens[x] /\ status'[x] = status[x]
      BY <2>6, UpdateIs
    <3>2. x \in Live' <=> x \in Live
      BY <3>1 DEF Live
    <3> QED BY <2>1, <3>1, <3>2
  <2> QED BY <2>5, <2>6
<1>2. /\ DOMAIN Client' = Request /\ DOMAIN Delivered' = Request
  BY DEF Client, Delivered
<1>3. Client = [r \in Request |-> CASE status[r] = "new" -> "none" [] r \in Live -> "open" [] OTHER -> "closed"]
      /\ Delivered = [r \in Request |-> tokens[r] - Prompt[r]]
  BY DEF Client, Delivered
<1> QED BY <1>1, <1>2 DEF Lifecycle!Deliver, Lifecycle!Open, Client, Delivered

LEMMA StepsAreLifecycle ==
  ASSUME CoreInv, [Next]_vars
  PROVE  [Lifecycle!Next]_<<Client, Delivered>>
<1>1. CASE \E r \in Request : Add(r)
  BY <1>1, AddIsSubmit DEF Lifecycle!Next
<1>2. CASE \E r \in Request : Abort(r)
  BY <1>2, AbortIsCancel DEF Lifecycle!Next
<1>3. CASE \E acc \in Acceptances, stops \in SUBSET Sampled : Update(acc, stops)
  BY <1>3, UpdateIsDeliver DEF Lifecycle!Next
<1>4. CASE /\ tokens' = tokens
           /\ \A r \in Request : status'[r] = status[r]
  BY <1>4, SameForClients
<1>5. CASE Begin \/ Grant \/ RunSkip \/ RunServe \/ RunEnd \/ AdmitDefer
           \/ AdmitEnd \/ (\E hit \in PrefixHits : AdmitFail(hit)) \/ (\E k \in KChoices : Select(k))
           \/ UNCHANGED vars
  BY <1>4, <1>5 DEF Begin, Grant, RunSkip, RunServe, RunEnd, AdmitDefer, AdmitEnd, AdmitFail, Requeue, Select,
     vars, requestVars
<1>6. CASE RunPreempt
  <2>1. /\ status[Last(running)] = "running" /\ Last(running) \in Request
        /\ status' = [status EXCEPT ![Last(running)] = "preempted"] /\ tokens' = tokens
        /\ status \in [Request -> Status]
    BY <1>6, CoreParts, TypesAre, PreemptQueues DEF RunPreempt, Statuses
  <2>2. Client' = Client /\ Delivered' = Delivered
    BY <2>1 DEF Client, Delivered, Live
  <2> QED BY <2>2
<1>7. CASE \E hit \in PrefixHits : AdmitServe(hit)
  <2>1. PICK hit : AdmitServe(hit)
    BY <1>7
  <2>2. /\ status[Waiter] \in {"waiting", "preempted"} /\ Waiter \in Request
        /\ status' = [status EXCEPT ![Waiter] = "running"] /\ tokens' = tokens
        /\ status \in [Request -> Status]
    BY <2>1, CoreParts, TypesAre, ServeQueues DEF AdmitServe, Statuses
  <2>3. Client' = Client /\ Delivered' = Delivered
    BY <2>2 DEF Client, Delivered, Live
  <2> QED BY <2>3
<1> QED BY <1>1, <1>2, <1>3, <1>5, <1>6, <1>7 DEF Next, Step

\* Refinement: preemption, the rollback of rejected drafts and the truncation
\* of a batch never retract, repeat or overrun what a client has received.
THEOREM ServingImplementsLifecycle == Spec => ImplementsLifecycle
<1>1. CoreInv /\ [Next]_vars
        => [Lifecycle!Next]_<<[r \in Request |-> CASE status[r] = "new" -> "none"
                                                   [] r \in Live -> "open"
                                                   [] OTHER -> "closed"],
                               [r \in Request |-> tokens[r] - Prompt[r]]>>
  BY StepsAreLifecycle DEF Client, Delivered
<1> QED BY ServingInvariant, InitLifecycle, <1>1, PTL DEF Spec, ImplementsLifecycle, Lifecycle!Spec

-----------------------------------------------------------------------------
\* What the prefills of a step take.

\* The sum over a part.
LEMMA SumsPart ==
  ASSUME NEW S, IsFiniteSet(S), NEW f, NEW g, Summed(S, f, g), NEW t, t \subseteq S
  PROVE  g[t] <= g[S]
<1> DEFINE G == {s \in SUBSET S : \A p \in SUBSET s : g[p] <= g[s]}
<1>1. ASSUME NEW s \in SUBSET S, \A x \in s : s \ {x} \in G
      PROVE  s \in G
  <2> SUFFICES ASSUME NEW p \in SUBSET s PROVE g[p] <= g[s]
    OBVIOUS
  <2>1. CASE p = s
    BY <2>1 DEF Summed
  <2>2. CASE p # s
    <3>1. PICK x \in s : x \notin p
      BY <2>2
    <3>2. g[s] = f[x] + g[s \ {x}]
      BY <3>1, SumsTake
    <3>3. g[p] <= g[s \ {x}]
      BY <1>1, <3>1
    <3>4. PICK a \in Nat, b \in Nat, c \in Nat : a = g[p] /\ b = g[s \ {x}] /\ c = f[x]
      BY DEF Summed
    <3> QED BY <3>2, <3>3, <3>4
  <2> QED BY <2>1, <2>2
<1>2. \A s \in SUBSET S : s \in G
  <2> HIDE DEF G
  <2> QED BY <1>1, EverySubset
<1> QED BY <1>2

LEMMA TotalOfPart ==
  ASSUME NEW S, IsFiniteSet(S), NEW f \in [S -> Nat], NEW h \in [S -> Nat],
         NEW t, t \subseteq S, \A x \in t : f[x] <= h[x]
  PROVE  Total(f, t) \in Nat /\ Total(h, S) \in Nat /\ Total(f, t) <= Total(h, S)
<1>1. PICK g : Summed(S, f, g) /\ Total(f, S) = g[S]
  BY SummedIs
<1>2. PICK u : Summed(S, h, u) /\ Total(h, S) = u[S]
  BY SummedIs
<1>3. IsFiniteSet(t) /\ \A x \in t : f[x] \in Nat
  BY FS_Subset
<1>4. PICK p \in [SUBSET t -> Nat] : Sums(f, p, SUBSET t) /\ Total(f, t) = p[t]
  BY <1>3, TotalIs
<1>5. Sums(f, g, SUBSET t)
  BY <1>1 DEF Summed, Sums
<1>6. p[t] = g[t]
  BY <1>3, <1>4, <1>5, SumsUnique
<1>7. g[t] <= u[t] /\ u[t] <= u[S]
  BY <1>1, <1>2, SumsGrow, SumsPart
<1>8. g[t] \in Nat /\ u[t] \in Nat /\ u[S] \in Nat
  BY <1>1, <1>2 DEF Summed
<1> QED BY <1>2, <1>4, <1>6, <1>7, <1>8

\* A part is at most the whole.
LEMMA OneOfTotal ==
  ASSUME NEW f \in [Request -> Nat], NEW r \in Request
  PROVE  f[r] <= Total(f, Request)
<1>1. PICK u : Summed(Request, f, u) /\ Total(f, Request) = u[Request]
  BY RequestAssumption, SummedIs
<1>2. u[Request] = f[r] + u[Request \ {r}]
  BY RequestAssumption, <1>1, SumsTake
<1>3. PICK a \in Nat, b \in Nat : a = f[r] /\ b = u[Request \ {r}]
  BY <1>1 DEF Summed
<1> QED BY <1>1, <1>2, <1>3

\* The cap of a step that found decoders.
StepCap == IF Cardinality(decoder_ids) >= AdaptiveAt THEN LowCap ELSE Cap

\* Beside decoders the step is contended, and the grants made and those still
\* to be made stay within its cap.
ShareInv ==
  InStep =>
    /\ pc # "running" => order = <<>>
    /\ decoder_ids # {} =>
         /\ granting /\ Total(grants, Request) <= StepCap
         /\ order # <<>> => Total(grants, Request) + Most(0, budget) <= StepCap

\* No prefill has more than its grant.
WithinGrants ==
  (InStep /\ granting) => \A r \in Request : IsPrefilling(r) => counts[r] <= grants[r]

\* Nobody has tokens whom the cadence withholds, and the one prefill of a
\* prefill-only step cannot finish its prompt in it, or has been preempted.
OfferInv ==
  InStep =>
    /\ Served \subseteq allowed
    /\ phase = "prefill" =>
         /\ decoder_ids # {}
         /\ \E p \in ToSet(running) \cup preempted :
              /\ allowed = {p}
              /\ p \in ToSet(running) =>
                   tokens[p] = Prompt[p] /\ computed[p] + StepCap < Prompt[p]

HeldInv == ShareInv /\ WithinGrants /\ OfferInv

\* A grant is at most the budget that is left.
LEMMA AllowanceWithin ==
  ASSUME NEW w, w.start \in [Request -> Nat], w.end \in [Request -> Nat],
         NEW r \in Request, NEW b \in Int, NEW i \in Int
  PROVE  AllowanceFor(w, r, b, i) <= Most(0, b)
<1>1. PICK s \in Nat, e \in Nat : s = w.start[r] /\ e = w.end[r]
  OBVIOUS
<1>2. PICK free \in Int, left \in Int : free = i - DraftSlots /\ left = e - s
  <2>1. i - DraftSlots \in Int /\ e - s \in Int
    BY Sizes
  <2> QED BY <2>1
<1>3. PICK x \in Int, y \in Int : x = Least(b, free) /\ y = Most(0, left) /\ x <= b
  <2>1. Least(b, free) \in Int /\ Least(b, free) <= b
    BY DEF Least
  <2>2. Most(0, left) \in Int
    BY DEF Most
  <2> QED BY <2>1, <2>2
<1>4. PICK raw \in Int : raw = Least(x, y) /\ raw <= b
  <2>1. Least(x, y) \in Int /\ Least(x, y) <= b
    BY <1>3 DEF Least
  <2> QED BY <2>1
<1>5. PICK f \in Int : f = FloorTo(s + raw, Block) - s /\ f <= raw
  <2>1. s + raw \in Int /\ Block \in Nat \ {0}
    BY Units
  <2>2. PICK n \in Int : n = s + raw
    BY <2>1
  <2>3. FloorTo(n, Block) \in Int /\ FloorTo(n, Block) <= n
    BY <2>1, Floors
  <2> QED BY <2>2, <2>3
<1>6. AllowanceFor(w, r, b, i) = Most(0, IF s + raw < e THEN f ELSE raw)
  BY <1>1, <1>2, <1>3, <1>4, <1>5 DEF AllowanceFor
<1> QED BY <1>4, <1>5, <1>6 DEF Most

\* What the cadence makes of this scheduler's state.
LEMMA OfferIs ==
  ASSUME CoreInv, CadenceBegin(CadenceView)
  PROVE  /\ decoder_ids' = RunningDecoders
         /\ phase' \in {"mixed", "decode", "prefill"}
         /\ owed_decode' = owed_decode \cap RunningDecoders
         /\ phase' = "mixed" => allowed' = Request
         /\ phase' = "decode" => allowed' = RunningDecoders
         /\ phase' # "decode" => owed_decode' = {}
         /\ phase' = "prefill" =>
              /\ RunningDecoders # {}
              /\ \E p \in ToSet(running) :
                   /\ allowed' = {p}
                   /\ tokens[p] = Prompt[p] /\ computed[p] + EffectiveCap < Prompt[p]
<1> DEFINE v == CadenceView
<1>1. /\ v.running = ToSet(running) /\ v.prefilling = ToSet(running) \ RunningDecoders
      /\ v.nonfinal = {r \in ToSet(running) :
                         /\ tokens[r] = Prompt[r]
                         /\ computed[r] > 0
                         /\ computed[r] + EffectiveCap < Prompt[r]}
  BY DEF CadenceView
<1>2. Decoders(v) = RunningDecoders
  BY <1>1 DEF Decoders, RunningDecoders
<1> HIDE DEF v
<1>3. /\ decoder_ids' = Decoders(v) /\ owed_decode' = owed_decode \cap Decoders(v)
      /\ \/ owed_decode' # {} /\ phase' = "decode" /\ allowed' = Decoders(v)
         \/ owed_decode' = {} /\ phase' = "mixed" /\ allowed' = Request
         \/ owed_decode' = {} /\ OfferPossible(v) /\ phase' = "decode" /\ allowed' = Decoders(v)
         \/ owed_decode' = {} /\ OfferPossible(v) /\ phase' = "prefill" /\ allowed' = v.prefilling
  BY DEF CadenceBegin, Choose, v
<1>4. OfferPossible(v) => /\ RunningDecoders # {}
                          /\ \E p \in ToSet(running) :
                               /\ v.prefilling = {p}
                               /\ tokens[p] = Prompt[p] /\ computed[p] + EffectiveCap < Prompt[p]
  <2> HAVE OfferPossible(v)
  <2>1. Decoders(v) # {} /\ \E p \in v.prefilling : v.prefilling = {p} /\ p \in v.nonfinal
    BY DEF OfferPossible
  <2>2. PICK p \in v.prefilling : v.prefilling = {p} /\ p \in v.nonfinal
    BY <2>1
  <2> QED BY <1>1, <1>2, <2>1, <2>2
<1> HIDE DEF EffectiveCap, RunningDecoders
<1> QED BY <1>2, <1>3, <1>4

\* Outside the step nothing is said.
LEMMA OutsideHeld == ASSUME pc' \in {"idle", "model"} PROVE HeldInv'
BY DEF HeldInv, ShareInv, WithinGrants, OfferInv, InStep

\* Nothing that the plan of a step depends on changes.
LEMMA SameHeld ==
  ASSUME HeldInv, InStep' => InStep, pc' = "running" => pc = "running",
         pc # pc' => order = <<>>,
         UNCHANGED <<order, granting, grants, budget, decoder_ids, phase, allowed,
                     counts, computed, tokens, running, preempted>>
  PROVE  HeldInv'
<1>1. ShareInv'
  BY DEF HeldInv, ShareInv, StepCap
<1>2. WithinGrants'
  BY DEF HeldInv, WithinGrants, IsPrefilling
<1>3. OfferInv'
  BY DEF HeldInv, OfferInv, StepCap, Served
<1> QED BY <1>1, <1>2, <1>3 DEF HeldInv

\* Members of the queues are requests.
LEMMA RunningAre == ASSUME CoreInv PROVE RunningDecoders \subseteq ToSet(running) /\ ToSet(running) \subseteq Request
BY CoreParts DEF RunningDecoders, QueueInv

LEMMA CardOfDecoders ==
  ASSUME CoreInv
  PROVE  /\ Cardinality(RunningDecoders) \in Nat
         /\ RunningDecoders # {} <=> Cardinality(RunningDecoders) > 0
<1> PICK S : S = RunningDecoders
  OBVIOUS
<1>1. IsFiniteSet(S) /\ Cardinality(S) \in Nat
  BY RunningAre, RequestAssumption, FS_Subset, FS_CardinalityType
<1>2. Cardinality(S) = 0 <=> S = {}
  BY <1>1, FS_EmptySet
<1> QED BY <1>1, <1>2

\* What is planned beside decoders.
LEMMA PlannedBeside ==
  ASSUME CoreInv, RunningDecoders # {}, FairPlan(PlanView, EffectiveCap)
  PROVE  /\ granting' = TRUE /\ grants' = Zero
         /\ budget' = PlanBudget(PlanView, EffectiveCap)
         /\ inputs' = PlanInputs(PlanView)
         /\ budget' <= EffectiveCap
         /\ budget' <= MaxScheduled - DecodeReserved(PlanView)
<1> PICK w, c : w = PlanView /\ c = EffectiveCap
  OBVIOUS
<1>1. w.decoders \in Nat /\ w.decoders > 0 /\ c \in Nat /\ c > 0
  <2>1. w.decoders = Cardinality(RunningDecoders)
    BY DEF PlanView
  <2>2. EffectiveCap \in Nat /\ EffectiveCap > 0
    BY Sizes DEF EffectiveCap
  <2> QED BY <2>1, <2>2, CardOfDecoders
<1> DEFINE contended == c > 0 /\ (w.decoders > 0 \/ Len(w.prefills) > 1)
<1>2. contended
  BY <1>1
<1>3. /\ granting' = contended /\ grants' = Zero
      /\ budget' = (IF contended THEN PlanBudget(w, c) ELSE 0)
      /\ inputs' = (IF contended THEN PlanInputs(w) ELSE 0)
  BY DEF FairPlan, Zero
<1> HIDE DEF contended
<1>4. budget' = PlanBudget(w, c) /\ inputs' = PlanInputs(w) /\ granting' = TRUE
  <2>1. contended = TRUE
    BY <1>2, <1>3 DEF contended
  <2> QED BY <1>2, <1>3, <2>1
<1>5. PlanBudget(w, c) <= c /\ PlanBudget(w, c) <= MaxScheduled - DecodeReserved(w)
  <2>1. DecodeReserved(w) \in Nat
    BY <1>1, Sizes DEF DecodeReserved
  <2>2. PICK m \in Int : m = MaxScheduled - DecodeReserved(w)
    BY <2>1, Sizes
  <2> QED BY <1>1, <2>2 DEF PlanBudget, Least
<1> QED BY <1>3, <1>4, <1>5

LEMMA BeginHeld ==
  ASSUME CoreInv, Begin
  PROVE  HeldInv'
<1>0. /\ pc' = "running" /\ counts' = Zero
      /\ UNCHANGED <<status, running, computed, tokens>>
      /\ CadenceBegin(CadenceView)
      /\ IF phase' = "decode" THEN FairDefer ELSE FairPlan(PlanView, EffectiveCap)
  BY DEF Begin, requestVars
<1>1. Zero \in [Request -> Nat] /\ \A x \in Request : Zero[x] = 0
  BY DEF Zero
<1>2. /\ decoder_ids' = RunningDecoders
      /\ phase' = "prefill" =>
           /\ RunningDecoders # {}
           /\ \E p \in ToSet(running) :
                /\ allowed' = {p}
                /\ tokens[p] = Prompt[p] /\ computed[p] + EffectiveCap < Prompt[p]
  BY <1>0, OfferIs
<1>3. StepCap' = EffectiveCap
  BY <1>2 DEF StepCap, EffectiveCap
<1>4. grants' = Zero
  BY <1>0, PlanNumbersAre
<1>5. Total(grants', Request) = 0
  BY <1>1, <1>4, RequestAssumption, TotalNone
<1>6. ShareInv'
  <2>1. ASSUME decoder_ids' # {}
        PROVE  /\ granting' /\ Total(grants', Request) <= StepCap'
               /\ order' # <<>> => Total(grants', Request) + Most(0, budget') <= StepCap'
    <3>1. StepCap' \in Nat
      BY <1>3, Sizes DEF EffectiveCap
    <3>2. CASE FairDefer
      BY <1>5, <3>1, <3>2 DEF FairDefer
    <3>3. CASE FairPlan(PlanView, EffectiveCap)
      <4>1. granting' = TRUE /\ budget' <= EffectiveCap
        BY <1>2, <2>1, <3>3, PlannedBeside
      <4>2. budget' \in Int
        BY <3>3, PlanNumbersAre
      <4>3. Most(0, budget') <= StepCap' /\ Most(0, budget') \in Nat
        BY <1>3, <3>1, <4>1, <4>2 DEF Most
      <4> QED BY <1>5, <3>1, <4>1, <4>3
    <3> QED BY <1>0, <3>2, <3>3
  <2> QED BY <1>0, <2>1 DEF ShareInv
<1>7. WithinGrants'
  BY <1>0, <1>1, <1>4 DEF WithinGrants
<1>8. OfferInv'
  <2>1. Served' = {}
    BY <1>0, <1>1 DEF Served
  <2>2. ASSUME phase' = "prefill"
        PROVE  /\ decoder_ids' # {}
               /\ \E p \in ToSet(running') \cup preempted' :
                    /\ allowed' = {p}
                    /\ p \in ToSet(running') =>
                         tokens'[p] = Prompt[p] /\ computed'[p] + StepCap' < Prompt[p]
    <3>1. PICK p \in ToSet(running) :
                /\ allowed' = {p}
                /\ tokens[p] = Prompt[p] /\ computed[p] + EffectiveCap < Prompt[p]
      BY <1>2, <2>2
    <3> HIDE DEF EffectiveCap, StepCap
    <3> QED BY <1>0, <1>2, <1>3, <2>2, <3>1
  <2> QED BY <2>1, <2>2 DEF OfferInv
<1> QED BY <1>6, <1>7, <1>8 DEF HeldInv

\* While prefills are granted nobody has tokens yet.
LEMMA NoneCounted ==
  ASSUME CoreInv, pc = "running", order # <<>>
  PROVE  idx = 1 /\ \A x \in Request : counts[x] = 0
<1>1. idx = 1 /\ \A i \in 1..Len(running) : counts[running[i]] = 0
  BY CoreParts DEF SeenInv
<1>2. ASSUME NEW x \in Request PROVE counts[x] = 0
  <2>1. CASE status[x] = "running"
    <3>1. x \in ToSet(running)
      BY <2>1, CoreParts DEF QueueInv
    <3>2. PICK i \in 1..Len(running) : running[i] = x
      BY <3>1 DEF ToSet
    <3> QED BY <1>1, <3>2
  <2>2. CASE status[x] # "running"
    BY <2>2, CoreParts DEF SeenInv
  <2> QED BY <2>1, <2>2
<1> QED BY <1>1, <1>2

\* What one grant does.
LEMMA GrantIs ==
  ASSUME CoreInv, Grant
  PROVE  \E h \in Request, a \in Nat :
           /\ h = Head(order) /\ a <= Most(0, budget)
           /\ order # <<>> /\ order' = SubSeq(order, 2, Len(order))
           /\ a = AllowanceFor(PlanView, h, budget, inputs)
           /\ grants' = [grants EXCEPT ![h] = a] /\ grants' \in [Request -> Nat]
           /\ Differ(Request, grants, grants', h) /\ grants'[h] = a
           /\ budget' = budget - a
           /\ inputs' = (IF a > 0 THEN inputs - (a + DraftSlots) ELSE inputs)
           /\ pc = "running"
           /\ UNCHANGED <<granting, pc, running, status, computed, tokens, spec, counts, drafts,
                          preempted, idx, tokenBudget, inputBudget, missed, cadenceVars>>
<1>0. /\ pc = "running" /\ FairGrant(PlanView)
      /\ UNCHANGED <<pc, running, status, computed, tokens, spec, counts, drafts, preempted,
                     idx, tokenBudget, inputBudget, missed, cadenceVars>>
  BY DEF Grant, requestVars, stepVars
<1>1. PICK h, a : h = Head(order) /\ a = AllowanceFor(PlanView, h, budget, inputs)
  OBVIOUS
<1>2. /\ order # <<>> /\ order' = SubSeq(order, 2, Len(order))
      /\ grants' = [grants EXCEPT ![h] = a] /\ budget' = budget - a
      /\ inputs' = (IF a > 0 THEN inputs - (a + DraftSlots) ELSE inputs)
      /\ UNCHANGED granting
  BY <1>0, <1>1 DEF FairGrant
<1>3. /\ order \in Seq(Request) /\ budget \in Int /\ inputs \in Int /\ grants \in [Request -> Nat]
  BY CoreParts, TypesAre
<1>4. h \in Request
  BY <1>1, <1>2, <1>3
<1>5. a \in Nat /\ a <= Most(0, budget)
  BY <1>1, <1>3, <1>4, PlanViewIs, AllowanceIs, AllowanceWithin
<1>6. grants' \in [Request -> Nat] /\ grants'[h] = a /\ \A x \in Request \ {h} : grants'[x] = grants[x]
  BY <1>2, <1>3, <1>4, <1>5
<1>7. Differ(Request, grants, grants', h)
  BY <1>3, <1>4, <1>6 DEF Differ
<1> QED BY <1>0, <1>1, <1>2, <1>4, <1>5, <1>6, <1>7

LEMMA GrantHeld ==
  ASSUME CoreInv, HeldInv, Grant
  PROVE  HeldInv'
<1>1. PICK h \in Request, a \in Nat :
        /\ a <= Most(0, budget) /\ order # <<>> /\ grants' \in [Request -> Nat]
        /\ Differ(Request, grants, grants', h) /\ grants'[h] = a
        /\ budget' = budget - a /\ pc = "running"
        /\ UNCHANGED <<granting, pc, running, status, computed, tokens, counts, preempted, cadenceVars>>
  BY GrantIs
<1>2. UNCHANGED <<decoder_ids, phase, allowed>>
  BY <1>1 DEF cadenceVars
<1>3. \A x \in Request : counts[x] = 0
  BY <1>1, NoneCounted
<1>4. ShareInv'
  <2>1. ASSUME decoder_ids' # {}
        PROVE  /\ granting' /\ Total(grants', Request) <= StepCap'
               /\ Total(grants', Request) + Most(0, budget') <= StepCap'
    <3>1. granting /\ Total(grants, Request) + Most(0, budget) <= StepCap
      BY <1>1, <1>2, <2>1 DEF HeldInv, ShareInv, InStep
    <3>2. Moved(Total(grants, Request), Total(grants', Request), grants[h], grants'[h])
      BY <1>1, RequestAssumption, TotalChange
    <3>3. PICK g \in Nat, g1 \in Nat, o \in Nat, b \in Int, c \in Nat :
            /\ g = Total(grants, Request) /\ g1 = Total(grants', Request) /\ o = grants[h]
            /\ b = budget /\ c = StepCap
      BY <3>2, CoreParts, TypesAre, Sizes DEF Moved, StepCap
    <3>4. g1 = (g - o) + a
      BY <1>1, <3>2, <3>3 DEF Moved
    <3>5. PICK m \in Nat, m1 \in Nat : m = Most(0, b) /\ m1 = Most(0, b - a) /\ m1 <= m - a /\ a <= m
      <4>1. a <= Most(0, b)
        BY <1>1, <3>3
      <4>2. Most(0, b) \in Nat /\ Most(0, b - a) \in Nat /\ Most(0, b - a) <= Most(0, b) - a
        BY <4>1 DEF Most
      <4> QED BY <4>1, <4>2
    <3>6. g1 + m1 <= c /\ g1 <= c
      BY <3>1, <3>3, <3>4, <3>5
    <3>7. StepCap' = c
      BY <1>2, <3>3 DEF StepCap
    <3> HIDE DEF StepCap
    <3> QED BY <1>1, <3>1, <3>3, <3>5, <3>6, <3>7
  <2> QED BY <1>1, <2>1 DEF ShareInv
<1>5. WithinGrants'
  BY <1>1, <1>3 DEF WithinGrants
<1>6. OfferInv'
  BY <1>1, <1>2 DEF HeldInv, OfferInv, InStep, Served, StepCap
<1> QED BY <1>4, <1>5, <1>6 DEF HeldInv

\* A step that gives n tokens to one request, which it may have admitted.
LEMMA GivenHeld ==
  ASSUME CoreInv, HeldInv, InStep, InStep', NEW r \in Request, NEW n \in Nat, n # 0,
         counts' = [counts EXCEPT ![r] = n], r \in allowed,
         IsPrefilling(r)' /\ granting => n <= grants[r],
         \A x \in Request \ {r} : computed'[x] = computed[x],
         pc' = pc, phase = "prefill" => running' = running /\ computed' = computed,
         UNCHANGED <<order, granting, grants, budget, decoder_ids, phase, allowed, tokens, preempted>>
  PROVE  HeldInv'
<1>1. ShareInv'
  BY DEF HeldInv, ShareInv, StepCap
<1>2. WithinGrants'
  <2> SUFFICES ASSUME granting, NEW x \in Request, IsPrefilling(x)' PROVE counts'[x] <= grants[x]
    BY DEF WithinGrants
  <2>1. counts \in [Request -> Nat]
    BY CoreParts, TypesAre
  <2>2. CASE x = r
    <3>1. counts'[r] = n
      BY <2>1
    <3> HIDE DEF IsPrefilling
    <3> QED BY <2>2, <3>1
  <2>3. CASE x # r
    <3>1. counts'[x] = counts[x] /\ computed'[x] = computed[x] /\ tokens'[x] = tokens[x]
      BY <2>1, <2>3
    <3>2. IsPrefilling(x)
      BY <3>1 DEF IsPrefilling
    <3>3. counts[x] <= grants[x]
      BY <3>2 DEF HeldInv, WithinGrants
    <3> QED BY <3>1, <3>3
  <2> QED BY <2>2, <2>3
<1>3. OfferInv'
  <2>1. Served' \subseteq allowed'
    <3>1. counts \in [Request -> Nat]
      BY CoreParts, TypesAre
    <3>2. ASSUME NEW x \in Served' PROVE x \in allowed
      <4>1. x \in Request /\ (x = r \/ x \in Served)
        BY <3>1 DEF Served
      <4> QED BY <4>1 DEF HeldInv, OfferInv
    <3> QED BY <3>2
  <2>2. ASSUME phase = "prefill"
        PROVE  /\ decoder_ids # {}
               /\ \E p \in ToSet(running') \cup preempted' :
                    /\ allowed = {p}
                    /\ p \in ToSet(running') =>
                         tokens'[p] = Prompt[p] /\ computed'[p] + StepCap' < Prompt[p]
    <3>1. PICK p \in ToSet(running) \cup preempted :
             /\ decoder_ids # {} /\ allowed = {p}
             /\ p \in ToSet(running) => tokens[p] = Prompt[p] /\ computed[p] + StepCap < Prompt[p]
      BY <2>2 DEF HeldInv, OfferInv
    <3>2. StepCap' = StepCap
      BY DEF StepCap
    <3> HIDE DEF StepCap
    <3> QED BY <2>2, <3>1, <3>2
  <2> QED BY <2>1, <2>2 DEF OfferInv
<1> QED BY <1>1, <1>2, <1>3 DEF HeldInv

LEMMA RunServeHeld ==
  ASSUME CoreInv, HeldInv, RunServe
  PROVE  HeldInv'
<1>0. PICK r, n : r = running[idx] /\ n = RunningTokens
  OBVIOUS
<1>1. /\ AtRunning /\ n > 0
      /\ Charge(r, n, Least(spec[r], Most(0, n + computed[r] - tokens[r])))
      /\ UNCHANGED <<pc, status, running, computed, tokens, preempted,
                     granting, grants, order, budget, decoder_ids, phase, allowed>>
  BY <1>0 DEF RunServe, fairVars, cadenceVars
<1>2. /\ r \in Request /\ n \in Nat /\ n # 0 /\ pc = "running" /\ r \in allowed
      /\ IsPrefilling(r) /\ granting => n <= grants[r]
  <2> HIDE DEF IsPrefilling
  <2>1. r \in Request /\ n \in Nat /\ (n # 0 => r \in allowed)
    BY <1>0, <1>1, RunningTokensAre
  <2>2. IsPrefilling(r) /\ granting => n <= grants[r]
    BY <1>0, <1>1, RunningTokensAre
  <2>3. pc = "running"
    BY <1>1 DEF AtRunning
  <2> QED BY <1>1, <2>1, <2>2, <2>3
<1>3. counts' = [counts EXCEPT ![r] = n]
  BY <1>1 DEF Charge
<1>4. IsPrefilling(r)' => IsPrefilling(r)
  BY <1>1 DEF IsPrefilling
<1>5. InStep /\ InStep'
  BY <1>1, <1>2 DEF InStep
<1> HIDE DEF IsPrefilling
<1> QED BY <1>1, <1>2, <1>3, <1>4, <1>5, GivenHeld

LEMMA RunPreemptHeld ==
  ASSUME CoreInv, HeldInv, RunPreempt
  PROVE  HeldInv'
<1> PICK v : v = Last(running)
  OBVIOUS
<1>1. /\ pc = "running" /\ order = <<>> /\ AtRunning
      /\ computed' = [computed EXCEPT ![v] = 0]
      /\ preempted' = preempted \cup {v}
      /\ pc' = (IF v = running[idx] THEN "select" ELSE pc)
      /\ UNCHANGED <<tokens, counts, granting, grants, order, budget, decoder_ids, phase, allowed>>
  BY DEF RunPreempt, AtRunning, fairVars, cadenceVars
<1>2. /\ v \in Request /\ status[v] = "running" /\ status' = [status EXCEPT ![v] = "preempted"]
      /\ QueueInv' /\ Statuses
  BY CoreParts, TypesAre, PreemptQueues
<1>3. ToSet(running') = ToSet(running) \ {v}
  <2>1. ToSet(running) = {x \in Request : status[x] = "running"}
    BY CoreParts DEF QueueInv
  <2>2. ToSet(running') = {x \in Request : status'[x] = "running"}
    BY <1>2 DEF QueueInv
  <2>3. \A x \in Request : status'[x] = "running" <=> status[x] = "running" /\ x # v
    BY <1>2 DEF Statuses
  <2> QED BY <2>1, <2>2, <2>3
<1>4. InStep /\ InStep'
  BY <1>1 DEF InStep
<1>5. ShareInv'
  BY <1>1, <1>4 DEF HeldInv, ShareInv, StepCap
<1>6. counts[v] = 0
  <2>1. idx \in Nat \ {0} /\ idx <= Len(running) /\ Len(running) \in Nat /\ running \in Seq(Request)
    BY <1>1, CoreParts, TypesAre DEF AtRunning, QueueInv
  <2>2. v = running[Len(running)]
    BY <2>1 DEF Last
  <2> QED BY <1>1, <2>1, <2>2, CoreParts DEF SeenInv
<1>7. WithinGrants'
  <2> SUFFICES ASSUME granting, NEW x \in Request, IsPrefilling(x)' PROVE counts'[x] <= grants'[x]
    BY <1>1 DEF WithinGrants
  <2>1. counts \in [Request -> Nat] /\ grants \in [Request -> Nat] /\ computed \in [Request -> Nat]
    BY CoreParts, TypesAre
  <2>2. CASE x = v
    <3> PICK g \in Nat : g = grants[x]
      BY <2>1
    <3> QED BY <1>1, <1>6, <2>2
  <2>3. CASE x # v
    <3>1. IsPrefilling(x)
      BY <1>1, <2>1, <2>3 DEF IsPrefilling
    <3> HIDE DEF IsPrefilling
    <3> QED BY <1>1, <1>4, <3>1 DEF HeldInv, WithinGrants
  <2> QED BY <2>2, <2>3
<1>8. OfferInv'
  <2>1. Served' \subseteq allowed'
    BY <1>1, <1>4 DEF HeldInv, OfferInv, Served
  <2>2. ASSUME phase = "prefill"
        PROVE  /\ decoder_ids # {}
               /\ \E p \in ToSet(running') \cup preempted' :
                    /\ allowed = {p}
                    /\ p \in ToSet(running') =>
                         tokens'[p] = Prompt[p] /\ computed'[p] + StepCap' < Prompt[p]
    <3>1. PICK p \in ToSet(running) \cup preempted :
             /\ decoder_ids # {} /\ allowed = {p}
             /\ p \in ToSet(running) => tokens[p] = Prompt[p] /\ computed[p] + StepCap < Prompt[p]
      BY <1>4, <2>2 DEF HeldInv, OfferInv
    <3>2. StepCap' = StepCap
      BY <1>1 DEF StepCap
    <3> HIDE DEF StepCap
    <3>3. p \in ToSet(running') \cup preempted'
      BY <1>1, <1>3, <3>1
    <3>4. ASSUME p \in ToSet(running')
          PROVE  tokens'[p] = Prompt[p] /\ computed'[p] + StepCap' < Prompt[p]
      <4>1. p \in ToSet(running) /\ p # v /\ p \in Request
        BY <1>3, <3>4, RunningAre
      <4>2. computed'[p] = computed[p]
        BY <1>1, <4>1, CoreParts, TypesAre
      <4> QED BY <1>1, <3>1, <3>2, <4>1, <4>2
    <3> QED BY <3>1, <3>3, <3>4
  <2> QED BY <1>1, <2>1, <2>2 DEF OfferInv
<1> QED BY <1>5, <1>7, <1>8 DEF HeldInv

\* A prefill-only step admits nobody.
LEMMA ServeHeld ==
  ASSUME CoreInv, HeldInv, NEW hit, AdmitServe(hit)
  PROVE  HeldInv'
<1>0. PICK r, n : r = Waiter /\ n = Chunk(r, hit, Wanted(r, hit))
  OBVIOUS
<1>1. /\ AtWaiting /\ hit \in Hits(r) /\ n > 0
      /\ computed' = [computed EXCEPT ![r] = hit]
      /\ Charge(r, n, 0)
      /\ UNCHANGED <<pc, tokens, preempted, granting, grants, order, budget,
                     decoder_ids, phase, allowed>>
  BY <1>0 DEF AdmitServe, fairVars, cadenceVars
<1>2. /\ QueueInv' /\ r \in Request /\ status[r] \in {"waiting", "preempted"} /\ Statuses
      /\ status' = [status EXCEPT ![r] = "running"]
  BY <1>0, CoreParts, ServeQueues
<1>3. pc = "waiting" /\ pc' = "waiting"
  BY <1>1 DEF AtWaiting
<1>4. InStep /\ InStep'
  BY <1>3 DEF InStep
<1>5. n \in Nat /\ n # 0 /\ hit \in Nat /\ r \in allowed
  BY <1>0, <1>1, <1>2, AdmittedAre
<1>6. ToSet(running') = ToSet(running) \cup {r} /\ r \notin ToSet(running)
  <2>1. ToSet(running) = {x \in Request : status[x] = "running"}
    BY CoreParts DEF QueueInv
  <2>2. ToSet(running') = {x \in Request : status'[x] = "running"}
    BY <1>2 DEF QueueInv
  <2>3. \A x \in Request : status'[x] = "running" <=> status[x] = "running" \/ x = r
    BY <1>2 DEF Statuses
  <2> QED BY <1>2, <2>1, <2>2, <2>3
<1>7. phase # "prefill"
  <2> SUFFICES ASSUME phase = "prefill" PROVE FALSE
    OBVIOUS
  <2>1. PICK p \in ToSet(running) \cup preempted : allowed = {p}
    BY <1>4 DEF HeldInv, OfferInv
  <2>2. preempted = {}
    BY <1>3, CoreParts DEF SeenInv
  <2> QED BY <1>5, <1>6, <2>1, <2>2
<1>8. computed[r] = 0 /\ computed'[r] = hit /\ \A x \in Request \ {r} : computed'[x] = computed[x]
  <2>1. computed[r] = 0
    BY <1>2, CoreParts DEF TokenInv, TokenAt
  <2> QED BY <1>1, <1>2, <2>1, CoreParts, TypesAre
<1>9. IsPrefilling(r)' /\ granting => n <= grants[r]
  <2> SUFFICES ASSUME IsPrefilling(r)', granting PROVE n <= grants[r]
    OBVIOUS
  <2>1. PICK e \in Int : e = PrefillEnd(Prompt[r], tokens[r])
    <3>1. PICK P \in Nat, T \in Nat : P = Prompt[r] /\ T = tokens[r]
      BY <1>2, CoreParts, TypesAre, Sizes
    <3>2. PrefillEnd(P, T) \in Int
      BY DEF PrefillEnd, Most
    <3> QED BY <3>1, <3>2
  <2>2. hit < e
    BY <1>1, <1>8, <2>1 DEF IsPrefilling
  <2>3. IsPrefilling(r)
    BY <1>5, <1>8, <2>1, <2>2 DEF IsPrefilling
  <2> HIDE DEF IsPrefilling
  <2> QED BY <1>0, <1>1, <1>2, <2>3, AdmittedAre
<1>10. counts' = [counts EXCEPT ![r] = n]
  BY <1>1 DEF Charge
<1> HIDE DEF IsPrefilling
<1> QED BY <1>1, <1>2, <1>4, <1>5, <1>7, <1>8, <1>9, <1>10, GivenHeld

LEMMA NextHeld ==
  ASSUME CoreInv, HeldInv, [Next]_vars
  PROVE  HeldInv'
<1>1. CASE \/ \E r \in Request : Add(r) \/ Abort(r)
           \/ \E k \in KChoices : Select(k)
           \/ \E acc \in Acceptances, stops \in SUBSET Sampled : Update(acc, stops)
  <2>1. pc' \in {"idle", "model"}
    BY <1>1 DEF Add, Abort, Select, Update
  <2> QED BY <2>1, OutsideHeld
<1>2. CASE Begin
  BY <1>2, BeginHeld
<1>3. CASE Grant
  BY <1>3, GrantHeld
<1>4. CASE RunServe
  BY <1>4, RunServeHeld
<1>5. CASE RunPreempt
  BY <1>5, RunPreemptHeld
<1>6. CASE \E hit \in PrefixHits : AdmitServe(hit)
  BY <1>6, ServeHeld
<1>7. CASE RunSkip \/ RunEnd \/ UNCHANGED vars
  <2>1. /\ InStep' => InStep
        /\ pc' = "running" => pc = "running"
        /\ pc # pc' => order = <<>>
    BY <1>7 DEF RunSkip, RunEnd, vars, InStep
  <2>2. UNCHANGED <<order, granting, grants, budget, decoder_ids, phase, allowed,
                    counts, computed, tokens, running, preempted>>
    BY <1>7 DEF RunSkip, RunEnd, vars, requestVars, stepVars, fairVars, cadenceVars
  <2> QED BY <2>1, <2>2, SameHeld
<1>8. CASE AdmitDefer \/ AdmitEnd \/ \E hit \in PrefixHits : AdmitFail(hit)
  <2>1. pc = "waiting" /\ pc' \in {"waiting", "select"}
    BY <1>8 DEF AdmitDefer, AdmitEnd, AdmitFail, Requeue, AtWaiting
  <2>2. order = <<>>
    BY <2>1 DEF HeldInv, ShareInv, InStep
  <2>3. UNCHANGED <<order, granting, grants, budget, decoder_ids, phase, allowed,
                    counts, computed, tokens, running, preempted>>
    BY <1>8 DEF AdmitDefer, AdmitEnd, AdmitFail, Requeue, fairVars, cadenceVars
  <2> QED BY <2>1, <2>2, <2>3, SameHeld DEF InStep
<1> QED BY <1>1, <1>2, <1>3, <1>4, <1>5, <1>6, <1>7, <1>8 DEF Next, Step

LEMMA HeldIsHeldBack ==
  ASSUME CoreInv, HeldInv
  PROVE  PrefillsHeldBack
<1>1. /\ counts \in [Request -> Nat] /\ grants \in [Request -> Nat] /\ computed \in [Request -> Nat]
  BY CoreParts, TypesAre
<1>2. ASSUME pc = "select", decoder_ids # {}
      PROVE  granting /\ Total(grants, Request) <= StepCap /\ StepCap \in Nat
             /\ \A r \in Request : IsPrefilling(r) => counts[r] <= grants[r]
  <2>1. granting /\ Total(grants, Request) <= StepCap
    BY <1>2 DEF HeldInv, ShareInv, InStep
  <2> QED BY <1>2, <2>1, Sizes DEF HeldInv, WithinGrants, InStep, StepCap
<1>3. CapHeld
  <2> SUFFICES ASSUME pc = "select", decoder_ids # {}
               PROVE  Total(counts, {r \in Served : IsPrefilling(r)}) <= StepCap
    BY DEF CapHeld, Total, StepCap
  <2> PICK part : part = {r \in Served : IsPrefilling(r)}
    OBVIOUS
  <2>1. part \subseteq Request /\ \A r \in part : counts[r] <= grants[r]
    BY <1>2 DEF Served
  <2>2. /\ Total(counts, part) \in Nat /\ Total(grants, Request) \in Nat
        /\ Total(counts, part) <= Total(grants, Request)
    BY <1>1, <2>1, RequestAssumption, TotalOfPart
  <2> HIDE DEF IsPrefilling, StepCap
  <2> QED BY <1>2, <2>2
<1>4. OfferNonfinal
  <2> SUFFICES ASSUME pc = "select", phase = "prefill", NEW r \in Served
               PROVE  r \in allowed /\ computed[r] + counts[r] < Prompt[r]
    BY DEF OfferNonfinal
  <2>1. PICK p \in ToSet(running) \cup preempted :
           /\ decoder_ids # {} /\ allowed = {p} /\ Served \subseteq allowed
           /\ p \in ToSet(running) => tokens[p] = Prompt[p] /\ computed[p] + StepCap < Prompt[p]
    BY DEF HeldInv, OfferInv, InStep
  <2>2. r = p /\ r \in Request /\ counts[r] # 0
    BY <1>1, <2>1 DEF Served
  <2>3. r \in ToSet(running)
    BY <2>2, CoreParts DEF SeenInv, QueueInv
  <2>4. PICK c \in Nat, n \in Nat, g \in Nat, P \in Nat, s \in Nat, t \in Nat :
          /\ c = computed[r] /\ n = counts[r] /\ g = grants[r] /\ P = Prompt[r]
          /\ s = StepCap /\ t = Total(grants, Request)
    <3>1. StepCap \in Nat
      BY <1>2, <2>1
    <3> QED BY <1>1, <2>2, <3>1, Sizes, TotalIsNat
  <2>5. c + s < P /\ tokens[r] = P
    BY <2>1, <2>2, <2>3, <2>4
  <2>6. IsPrefilling(r)
    <3>1. PrefillEnd(P, P) = P
      BY DEF PrefillEnd, Most
    <3> QED BY <2>4, <2>5, <3>1 DEF IsPrefilling
  <2>7. n <= g /\ t <= s
    <3> HIDE DEF IsPrefilling
    <3> QED BY <1>2, <2>1, <2>2, <2>4, <2>6
  <2>8. g <= t
    BY <1>1, <2>2, <2>4, OneOfTotal
  <2> QED BY <2>1, <2>4, <2>5, <2>7, <2>8
<1> QED BY <1>3, <1>4 DEF PrefillsHeldBack

\* Prefills never take more of a step than was planned for them: beside
\* decoders they stay within its cap together, and a prefill-only step gives
\* tokens to nobody else and finishes no prompt (PrefillLimit and the split
\* cadence in schedule).
THEOREM PrefillsAreHeldBack == Spec => []PrefillsHeldBack
<1>1. Init => HeldInv
  BY DEF Init, HeldInv, ShareInv, WithinGrants, OfferInv, InStep
<1>2. CoreInv /\ HeldInv /\ [Next]_vars => HeldInv'
  BY NextHeld
<1>3. CoreInv /\ HeldInv => PrefillsHeldBack
  BY HeldIsHeldBack
<1> QED BY ServingInvariant, <1>1, <1>2, <1>3, PTL DEF Spec

-----------------------------------------------------------------------------
\* What the decoders of a step are given.

\* Every number of h is at most the sum of those of f and g.
AtMostBoth(S, h, f, g) ==
  /\ h \in [S -> Nat] /\ f \in [S -> Nat] /\ g \in [S -> Nat]
  /\ \A x \in S : h[x] <= f[x] + g[x]

LEMMA TotalOfBoth ==
  ASSUME NEW S, IsFiniteSet(S), NEW h, NEW f, NEW g, AtMostBoth(S, h, f, g)
  PROVE  /\ Total(h, S) \in Nat /\ Total(f, S) \in Nat /\ Total(g, S) \in Nat
         /\ Total(h, S) <= Total(f, S) + Total(g, S)
<1>0. h \in [S -> Nat] /\ f \in [S -> Nat] /\ g \in [S -> Nat]
      /\ \A x \in S : h[x] <= f[x] + g[x]
  BY DEF AtMostBoth
<1>1. PICK a : Summed(S, h, a) /\ Total(h, S) = a[S]
  BY <1>0, SummedIs
<1>2. PICK b : Summed(S, f, b) /\ Total(f, S) = b[S]
  BY <1>0, SummedIs
<1>3. PICK c : Summed(S, g, c) /\ Total(g, S) = c[S]
  BY <1>0, SummedIs
<1>4. \A s \in SUBSET S : a[s] \in Nat /\ b[s] \in Nat /\ c[s] \in Nat
  BY <1>1, <1>2, <1>3 DEF Summed
<1> DEFINE G == {s \in SUBSET S : a[s] <= b[s] + c[s]}
<1>5. ASSUME NEW s \in SUBSET S, \A x \in s : s \ {x} \in G
      PROVE  s \in G
  <2>1. CASE s = {}
    <3>1. a[s] = 0
      BY <1>1, <2>1 DEF Summed, Sums
    <3>2. b[s] \in Nat /\ c[s] \in Nat
      BY <1>4
    <3> QED BY <3>1, <3>2
  <2>2. CASE s # {}
    <3>1. PICK x \in s : TRUE
      BY <2>2
    <3>2. a[s] = h[x] + a[s \ {x}]
      BY <1>1, SumsTake
    <3>3. b[s] = f[x] + b[s \ {x}]
      BY <1>2, SumsTake
    <3>4. c[s] = g[x] + c[s \ {x}]
      BY <1>3, SumsTake
    <3>5. a[s \ {x}] <= b[s \ {x}] + c[s \ {x}]
      BY <1>5
    <3>6. PICK i \in Nat, j \in Nat, k \in Nat : i = h[x] /\ j = f[x] /\ k = g[x] /\ i <= j + k
      BY <1>0
    <3>7. PICK l \in Nat, m \in Nat, n \in Nat :
            l = a[s \ {x}] /\ m = b[s \ {x}] /\ n = c[s \ {x}]
      BY <1>4
    <3> QED BY <3>2, <3>3, <3>4, <3>5, <3>6, <3>7
  <2> QED BY <2>1, <2>2
<1>6. \A s \in SUBSET S : s \in G
  <2> HIDE DEF G
  <2> QED BY <1>5, EverySubset
<1>7. a[S] <= b[S] + c[S]
  BY <1>6
<1> QED BY <1>1, <1>2, <1>3, <1>4, <1>7

\* The running requests that the loop has not come to, and what it will give
\* them at most: the rest of the grants, and full-depth queries to decoders.
Left == {running[i] : i \in idx..Len(running)}

Claim == [r \in Request |-> IF r \notin Left THEN 0
                            ELSE IF r \in decoder_ids THEN K + 1 ELSE grants[r]]

\* With the drafter's rows.
Rows(f) == [r \in Request |-> IF f[r] = 0 THEN 0 ELSE f[r] + DraftSlots]

\* What is reserved for the decoders of the step.
Reserve == Cardinality(decoder_ids) * (K + 1)
ReserveRows == Cardinality(decoder_ids) * (K + 1 + DraftSlots)

\* The budgets cover the reserve beside everything that is granted or may
\* still be, and, once the grants are made, what is left to give.
BudgetInv ==
  (pc = "running" /\ decoder_ids # {}) =>
    IF order = <<>>
    THEN Total(Claim, Request) <= tokenBudget /\ Total(Rows(Claim), Request) <= inputBudget
    ELSE /\ tokenBudget = MaxScheduled /\ inputBudget = MaxBatched
         /\ Total(grants, Request) + Most(0, budget) + Reserve <= MaxScheduled
         /\ Total(Rows(grants), Request) + Most(0, inputs) + ReserveRows <= MaxBatched

\* A decoder that Begin found is next to compute its last token, and in any
\* step but a prefill-only one it has its whole query, as far as the context has
\* room for it, once the loop has passed.
FullQuery(r) == counts[r] = drafts[r] + 1 /\ drafts[r] \in {0, RoomForDrafts(r)}

ServedInv ==
  InStep =>
    /\ decoder_ids \subseteq ToSet(running) \cup preempted
    /\ RunningDecoders \subseteq decoder_ids
    /\ \A r \in decoder_ids \cap ToSet(running) : ~IsPrefilling(r) /\ computed[r] = tokens[r] - 1
    /\ owed_decode \subseteq decoder_ids
    /\ phase = "prefill" => owed_decode = {}
    /\ phase # "prefill" =>
         /\ decoder_ids \subseteq allowed
         /\ \A r \in decoder_ids \cap ToSet(running) :
              \/ pc = "running" /\ r \in Left
              \/ FullQuery(r)

\* A decoder that a step left without tokens is owed a turn.
MissedAt(r) ==
  missed[r] > 0 =>
    /\ missed[r] = 1 /\ r \in owed_decode
    /\ status[r] = "running" /\ computed[r] = tokens[r] - 1 /\ ~IsPrefilling(r)
    /\ pc = "model" => counts[r] = 0

MissedInv == \A r \in Request : MissedAt(r)

\* A positive grant leaves the rows of the drafter.
LEMMA AllowanceRows ==
  ASSUME NEW w, w.start \in [Request -> Nat], w.end \in [Request -> Nat],
         NEW r \in Request, NEW b \in Int, NEW i \in Int,
         AllowanceFor(w, r, b, i) > 0
  PROVE  AllowanceFor(w, r, b, i) + DraftSlots <= i
<1>1. PICK s \in Nat, e \in Nat : s = w.start[r] /\ e = w.end[r]
  OBVIOUS
<1>2. PICK free \in Int, left \in Int : free = i - DraftSlots /\ left = e - s
  <2>1. i - DraftSlots \in Int /\ e - s \in Int
    BY Sizes
  <2> QED BY <2>1
<1>3. PICK x \in Int, y \in Int : x = Least(b, free) /\ y = Most(0, left) /\ x <= free
  <2>1. Least(b, free) \in Int /\ Least(b, free) <= free
    BY DEF Least
  <2>2. Most(0, left) \in Int
    BY DEF Most
  <2> QED BY <2>1, <2>2
<1>4. PICK raw \in Int : raw = Least(x, y) /\ raw <= free
  <2>1. Least(x, y) \in Int /\ Least(x, y) <= free
    BY <1>3 DEF Least
  <2> QED BY <2>1
<1>5. PICK f \in Int : f = FloorTo(s + raw, Block) - s /\ f <= raw
  <2>1. s + raw \in Int /\ Block \in Nat \ {0}
    BY Units
  <2>2. PICK n \in Int : n = s + raw
    BY <2>1
  <2>3. FloorTo(n, Block) \in Int /\ FloorTo(n, Block) <= n
    BY <2>1, Floors
  <2> QED BY <2>2, <2>3
<1>6. AllowanceFor(w, r, b, i) = Most(0, IF s + raw < e THEN f ELSE raw)
  BY <1>1, <1>2, <1>3, <1>4, <1>5 DEF AllowanceFor
<1>7. PICK a \in Int : a = AllowanceFor(w, r, b, i) /\ a > 0 /\ a <= free
  <2>1. AllowanceFor(w, r, b, i) <= free /\ AllowanceFor(w, r, b, i) \in Int
    BY <1>4, <1>5, <1>6 DEF Most
  <2> QED BY <2>1
<1>8. DraftSlots \in Nat
  BY Sizes
<1> QED BY <1>2, <1>7, <1>8

\* All the decoders fit in a step.
LEMMA ReserveIs ==
  ASSUME NEW d, d \subseteq Request, Cardinality(d) <= MaxSeqs
  PROVE  /\ Cardinality(d) * (K + 1) \in Nat /\ Cardinality(d) * (K + 1) <= MaxScheduled
         /\ Cardinality(d) * (K + 1 + DraftSlots) \in Nat
         /\ Cardinality(d) * (K + 1 + DraftSlots) <= MaxBatched
<1>1. PICK n \in Nat, m \in Nat, k \in Nat, s \in Nat :
        n = Cardinality(d) /\ m = MaxSeqs /\ k = K + 1 /\ s = K + 1 + DraftSlots
  BY RequestAssumption, FS_Subset, FS_CardinalityType, Sizes
<1>2. PICK e \in Nat : m = n + e
  <2>1. m - n \in Nat /\ m = n + (m - n)
    BY <1>1
  <2> QED BY <2>1
<1>3. m * k = n * k + e * k /\ m * s = n * s + e * s /\ n * k \in Nat /\ e * k \in Nat
      /\ n * s \in Nat /\ e * s \in Nat
  BY <1>2
<1>4. m * k <= MaxScheduled /\ m * s <= MaxBatched
  BY <1>1, BudgetAssumption
<1> QED BY <1>1, <1>3, <1>4, Sizes

\* The functions that are summed.
LEMMA RowsAre ==
  ASSUME NEW f \in [Request -> Nat]
  PROVE  /\ Rows(f) \in [Request -> Nat]
         /\ \A x \in Request : /\ f[x] = 0 => Rows(f)[x] = 0
                               /\ f[x] # 0 => Rows(f)[x] = f[x] + DraftSlots
                               /\ Rows(f)[x] = (IF f[x] = 0 THEN 0 ELSE f[x] + DraftSlots)
BY Sizes DEF Rows

LEMMA ClaimIs ==
  ASSUME CoreInv
  PROVE  /\ Claim \in [Request -> Nat]
         /\ \A x \in Request : /\ x \notin Left => Claim[x] = 0
                               /\ x \in Left /\ x \in decoder_ids => Claim[x] = K + 1
                               /\ x \in Left /\ x \notin decoder_ids => Claim[x] = grants[x]
<1>1. grants \in [Request -> Nat] /\ K + 1 \in Nat
  BY CoreParts, TypesAre, Sizes
<1> HIDE DEF Left
<1> QED BY <1>1 DEF Claim

\* What the loop may still give is covered by the reserve and the grants.
ClaimBounded ==
  (Typed /\ decoder_ids \subseteq Request) =>
    /\ Total(Claim, Request) \in Nat /\ Total(grants, Request) \in Nat /\ Reserve \in Nat
    /\ Total(Claim, Request) <= Reserve + Total(grants, Request)
    /\ Total(Rows(Claim), Request) \in Nat /\ Total(Rows(grants), Request) \in Nat
    /\ ReserveRows \in Nat
    /\ Total(Rows(Claim), Request) <= ReserveRows + Total(Rows(grants), Request)

LEMMA ClaimFits == ClaimBounded
<1> SUFFICES ASSUME Typed, decoder_ids \subseteq Request
             PROVE  /\ Total(Claim, Request) \in Nat /\ Total(grants, Request) \in Nat
                    /\ Reserve \in Nat
                    /\ Total(Claim, Request) <= Reserve + Total(grants, Request)
                    /\ Total(Rows(Claim), Request) \in Nat /\ Total(Rows(grants), Request) \in Nat
                    /\ ReserveRows \in Nat
                    /\ Total(Rows(Claim), Request) <= ReserveRows + Total(Rows(grants), Request)
  BY DEF ClaimBounded
<1> DEFINE even == [x \in Request |-> IF x \in decoder_ids THEN K + 1 ELSE 0]
           evenRows == [x \in Request |-> IF x \in decoder_ids THEN K + 1 + DraftSlots ELSE 0]
<1>1. grants \in [Request -> Nat] /\ K + 1 \in Nat /\ K + 1 # 0 /\ K + 1 + DraftSlots \in Nat
  BY TypesAre, Sizes
<1>2. Claim \in [Request -> Nat]
      /\ \A x \in Request : Claim[x] = 0 \/ (x \in decoder_ids /\ Claim[x] = K + 1)
                            \/ (x \notin decoder_ids /\ Claim[x] = grants[x])
  <2> HIDE DEF Left
  <2> QED BY <1>1 DEF Claim
<1>3. Rows(Claim) \in [Request -> Nat] /\ Rows(grants) \in [Request -> Nat]
      /\ \A x \in Request : /\ Rows(Claim)[x] = (IF Claim[x] = 0 THEN 0 ELSE Claim[x] + DraftSlots)
                            /\ Rows(grants)[x] = (IF grants[x] = 0 THEN 0 ELSE grants[x] + DraftSlots)
  BY <1>1, <1>2, RowsAre
<1>4. even \in [Request -> Nat] /\ evenRows \in [Request -> Nat]
  BY <1>1
<1>5. AtMostBoth(Request, Claim, even, grants)
  <2>1. ASSUME NEW x \in Request PROVE Claim[x] <= even[x] + grants[x]
    <3>1. PICK g \in Nat, k \in Nat : g = grants[x] /\ k = K + 1
      BY <1>1
    <3>2. even[x] = IF x \in decoder_ids THEN k ELSE 0
      BY <3>1
    <3> HIDE DEF even
    <3> QED BY <1>2, <3>1, <3>2
  <2> HIDE DEF even
  <2> QED BY <1>1, <1>2, <1>4, <2>1 DEF AtMostBoth
<1>6. AtMostBoth(Request, Rows(Claim), evenRows, Rows(grants))
  <2>1. ASSUME NEW x \in Request PROVE Rows(Claim)[x] <= evenRows[x] + Rows(grants)[x]
    <3>1. PICK g \in Nat, k \in Nat, s \in Nat : g = grants[x] /\ k = K + 1 /\ s = DraftSlots
      BY <1>1, Sizes
    <3>2. evenRows[x] = IF x \in decoder_ids THEN k + s ELSE 0
      BY <3>1
    <3>3. Rows(grants)[x] = (IF g = 0 THEN 0 ELSE g + s) /\ Rows(Claim)[x] = (IF Claim[x] = 0 THEN 0 ELSE Claim[x] + s)
      BY <1>3, <3>1
    <3>4. evenRows[x] \in Nat /\ Rows(grants)[x] \in Nat
      BY <1>3, <1>4
    <3> HIDE DEF evenRows
    <3>5. CASE Claim[x] = 0
      <4>1. Rows(Claim)[x] = 0
        BY <3>3, <3>5
      <4> QED BY <3>4, <4>1
    <3>6. CASE Claim[x] # 0 /\ x \in decoder_ids
      <4>1. Claim[x] = k
        BY <1>2, <3>1, <3>6
      <4>2. Rows(Claim)[x] = k + s /\ evenRows[x] = k + s
        BY <3>2, <3>3, <3>6, <4>1
      <4> QED BY <3>1, <3>4, <4>2
    <3>7. CASE Claim[x] # 0 /\ x \notin decoder_ids
      <4>1. Claim[x] = g /\ evenRows[x] = 0
        BY <1>2, <3>1, <3>2, <3>7
      <4>2. Rows(Claim)[x] = Rows(grants)[x]
        BY <3>3, <3>7, <4>1
      <4> QED BY <3>4, <4>1, <4>2
    <3> QED BY <3>5, <3>6, <3>7
  <2> HIDE DEF evenRows
  <2> QED BY <1>3, <1>4, <2>1 DEF AtMostBoth
<1>7. Total(even, Request) = (K + 1) * Cardinality(decoder_ids)
  BY <1>1, RequestAssumption, TotalEven
<1>8. Total(evenRows, Request) = (K + 1 + DraftSlots) * Cardinality(decoder_ids)
  BY <1>1, RequestAssumption, TotalEven
<1>9. Total(even, Request) = Reserve /\ Total(evenRows, Request) = ReserveRows
  <2>1. PICK n \in Nat, k \in Nat, s \in Nat :
          n = Cardinality(decoder_ids) /\ k = K + 1 /\ s = K + 1 + DraftSlots
    BY <1>1, RequestAssumption, FS_Subset, FS_CardinalityType
  <2>2. k * n = n * k /\ s * n = n * s
    OBVIOUS
  <2> HIDE DEF even, evenRows
  <2> QED BY <1>7, <1>8, <2>1, <2>2 DEF Reserve, ReserveRows
<1> HIDE DEF even, evenRows
<1>10. /\ Total(Claim, Request) \in Nat /\ Total(even, Request) \in Nat /\ Total(grants, Request) \in Nat
       /\ Total(Claim, Request) <= Total(even, Request) + Total(grants, Request)
  BY <1>5, RequestAssumption, TotalOfBoth
<1>11. /\ Total(Rows(Claim), Request) \in Nat /\ Total(evenRows, Request) \in Nat
       /\ Total(Rows(grants), Request) \in Nat
       /\ Total(Rows(Claim), Request) <= Total(evenRows, Request) + Total(Rows(grants), Request)
  BY <1>6, RequestAssumption, TotalOfBoth
<1> QED BY <1>9, <1>10, <1>11

\* The budgets before anything is given.
FullBudget ==
  /\ tokenBudget = MaxScheduled /\ inputBudget = MaxBatched
  /\ Total(grants, Request) + Most(0, budget) + Reserve <= MaxScheduled
  /\ Total(Rows(grants), Request) + Most(0, inputs) + ReserveRows <= MaxBatched

LEMMA FullIsEnough ==
  ASSUME Typed', decoder_ids' \subseteq Request,
         tokenBudget' = MaxScheduled, inputBudget' = MaxBatched,
         Total(grants', Request) + Reserve' <= MaxScheduled,
         Total(Rows(grants'), Request) + ReserveRows' <= MaxBatched,
         order' # <<>> => FullBudget'
  PROVE  BudgetInv'
<1>1. ClaimBounded'
  BY ClaimFits, PTL
<1>2. /\ (Total(Claim, Request))' \in Nat /\ Total(grants', Request) \in Nat /\ Reserve' \in Nat
      /\ (Total(Claim, Request))' <= Reserve' + Total(grants', Request)
      /\ (Total(Rows(Claim), Request))' \in Nat /\ Total(Rows(grants'), Request) \in Nat
      /\ ReserveRows' \in Nat
      /\ (Total(Rows(Claim), Request))' <= ReserveRows' + Total(Rows(grants'), Request)
  BY <1>1 DEF ClaimBounded
<1>3. (Total(Claim, Request))' <= tokenBudget' /\ (Total(Rows(Claim), Request))' <= inputBudget'
  BY <1>2, Sizes
<1> QED BY <1>3 DEF BudgetInv, FullBudget

LEMMA DecodersFit ==
  ASSUME CoreInv
  PROVE  Cardinality(RunningDecoders) \in Nat /\ Cardinality(RunningDecoders) <= MaxSeqs
<1>1. IsFiniteSet(ToSet(running)) /\ Cardinality(ToSet(running)) = Len(running)
  BY CoreParts, LengthIs DEF QueueInv
<1>2. Len(running) <= MaxSeqs /\ Len(running) \in Nat /\ MaxSeqs \in Nat
  BY CoreParts, Sizes DEF QueueInv, SeenInv
<1> PICK d : d = RunningDecoders
  OBVIOUS
<1>3. d \subseteq ToSet(running)
  BY RunningAre
<1>4. Cardinality(d) <= Cardinality(ToSet(running)) /\ Cardinality(d) \in Nat
  BY <1>1, <1>3, FS_Subset, FS_CardinalityType
<1> QED BY <1>1, <1>2, <1>4

LEMMA BeginBudget ==
  ASSUME CoreInv, Begin
  PROVE  BudgetInv'
<1>0. /\ tokenBudget' = MaxScheduled /\ inputBudget' = MaxBatched
      /\ CadenceBegin(CadenceView)
      /\ IF phase' = "decode" THEN FairDefer ELSE FairPlan(PlanView, EffectiveCap)
  BY DEF Begin
<1>1. decoder_ids' = RunningDecoders /\ RunningDecoders \subseteq Request
  BY <1>0, OfferIs, RunningAre
<1>2. Typed'
  BY BeginCore, CoreParts DEF CoreInv
<1>3. CASE decoder_ids' = {}
  BY <1>3 DEF BudgetInv
<1>4. CASE decoder_ids' # {}
  <2>1. grants' = Zero /\ budget' \in Int /\ inputs' \in Int
    BY <1>0, PlanNumbersAre
  <2>2. Zero \in [Request -> Nat] /\ \A x \in Request : Zero[x] = 0
    BY DEF Zero
  <2>3. Rows(Zero) \in [Request -> Nat] /\ \A x \in Request : Rows(Zero)[x] = 0
    BY <2>2, RowsAre
  <2>4. Total(grants', Request) = 0 /\ Total(Rows(grants'), Request) = 0
    BY <2>1, <2>2, <2>3, RequestAssumption, TotalNone
  <2>5. PICK v \in Nat, u \in Nat : v = Reserve' /\ u = ReserveRows' /\ v <= MaxScheduled /\ u <= MaxBatched
    BY <1>1, DecodersFit, ReserveIs DEF Reserve, ReserveRows
  <2>6. ASSUME order' # <<>> PROVE FullBudget'
    <3>1. FairPlan(PlanView, EffectiveCap)
      BY <1>0, <2>6 DEF FairDefer
    <3>2. budget' <= MaxScheduled - DecodeReserved(PlanView) /\ inputs' = PlanInputs(PlanView)
      BY <1>1, <1>4, <3>1, PlannedBeside
    <3>3. PlanView.decoders = Cardinality(RunningDecoders)
      BY DEF PlanView
    <3>4. PICK n \in Nat, k \in Nat, s \in Nat : n = PlanView.decoders /\ k = K + 1 /\ s = DraftSlots
      BY <3>3, DecodersFit, Sizes
    <3>5. v = n * k /\ u = n * (k + s) /\ n * (k + s) = n * k + n * s /\ n * k \in Nat /\ n * s \in Nat
      BY <1>1, <2>5, <3>3, <3>4 DEF Reserve, ReserveRows
    <3>6. DecodeReserved(PlanView) = v
      BY <3>4, <3>5 DEF DecodeReserved
    <3>7. PICK ns \in Nat : ns = n * s /\ u = v + ns
      BY <3>5
    <3>8. inputs' = MaxBatched - v - ns
      BY <3>2, <3>4, <3>6, <3>7 DEF PlanInputs
    <3>9. Most(0, budget') + v <= MaxScheduled
      <4>1. PICK b \in Int, m \in Nat : b = budget' /\ m = MaxScheduled
        BY <2>1, Sizes
      <4>2. b <= m - v /\ v <= m
        BY <2>5, <3>2, <3>6, <4>1
      <4>3. Most(0, b) + v <= m
        BY <4>2 DEF Most
      <4> QED BY <4>1, <4>3
    <3>10. Most(0, inputs') + u <= MaxBatched
      <4>1. PICK i \in Int, m \in Nat : i = inputs' /\ m = MaxBatched
        BY <2>1, Sizes
      <4>2. i = m - v - ns /\ v + ns <= m
        BY <2>5, <3>7, <3>8, <4>1
      <4>3. Most(0, i) + (v + ns) <= m
        BY <4>2 DEF Most
      <4> QED BY <3>7, <4>1, <4>3
    <3>11. Most(0, budget') \in Nat /\ Most(0, inputs') \in Nat
      BY <2>1 DEF Most
    <3>12. Total(grants', Request) + Most(0, budget') + Reserve' <= MaxScheduled
      BY <2>4, <2>5, <3>9, <3>11
    <3>13. Total(Rows(grants'), Request) + Most(0, inputs') + ReserveRows' <= MaxBatched
      BY <2>4, <2>5, <3>10, <3>11
    <3> QED BY <1>0, <3>12, <3>13 DEF FullBudget
  <2>7. Total(grants', Request) + Reserve' <= MaxScheduled
        /\ Total(Rows(grants'), Request) + ReserveRows' <= MaxBatched
    BY <2>4, <2>5
  <2> QED BY <1>0, <1>1, <1>2, <2>6, <2>7, FullIsEnough
<1> QED BY <1>3, <1>4

\* What is left to give, step by step.
LEMMA ClaimParts ==
  ASSUME CoreInv, UNCHANGED <<grants, decoder_ids>>
  PROVE  /\ Claim \in [Request -> Nat] /\ Claim' \in [Request -> Nat]
         /\ Rows(Claim) \in [Request -> Nat] /\ Rows(Claim)' = Rows(Claim')
         /\ Rows(Claim') \in [Request -> Nat]
         /\ \A x \in Request : /\ x \in Left' <=> x \in Left => Claim'[x] = Claim[x]
                               /\ x \notin Left' => Claim'[x] = 0
<1>1. grants \in [Request -> Nat] /\ K + 1 \in Nat
  BY CoreParts, TypesAre, Sizes
<1>2. Claim \in [Request -> Nat] /\ Claim' \in [Request -> Nat]
  <2> HIDE DEF Left
  <2> QED BY <1>1 DEF Claim
<1>3. \A x \in Request : /\ x \in Left' <=> x \in Left => Claim'[x] = Claim[x]
                         /\ x \notin Left' => Claim'[x] = 0
  <2> HIDE DEF Left
  <2> QED BY <1>1 DEF Claim
<1>4. Rows(Claim)' = Rows(Claim')
  <2> HIDE DEF Claim
  <2> QED BY DEF Rows
<1> HIDE DEF Claim
<1>5. Rows(Claim) \in [Request -> Nat] /\ Rows(Claim') \in [Request -> Nat]
  BY <1>2, RowsAre
<1> QED BY <1>2, <1>3, <1>4, <1>5

\* Fewer requests to come to, and the same budgets.
LEMMA FewerLeft ==
  ASSUME CoreInv, BudgetInv, pc = "running", order = <<>>, Left' \subseteq Left,
         UNCHANGED <<order, grants, decoder_ids, tokenBudget, inputBudget>>
  PROVE  BudgetInv'
<1>1. CASE decoder_ids = {}
  BY <1>1 DEF BudgetInv
<1>2. CASE decoder_ids # {}
  <2>1. Total(Claim, Request) <= tokenBudget /\ Total(Rows(Claim), Request) <= inputBudget
    BY <1>2 DEF BudgetInv
  <2>2. PICK c, d : c = Claim /\ d = Claim'
    OBVIOUS
  <2>3. /\ c \in [Request -> Nat] /\ d \in [Request -> Nat] /\ Rows(c) \in [Request -> Nat]
        /\ Rows(d) \in [Request -> Nat] /\ Rows(Claim)' = Rows(d)
        /\ \A x \in Request : d[x] = 0 \/ d[x] = c[x]
    <3> HIDE DEF Claim, Rows, Left
    <3> QED BY <2>2, ClaimParts
  <2>4. \A x \in Request : d[x] <= c[x]
    <3>1. ASSUME NEW x \in Request PROVE d[x] <= c[x]
      <4>1. PICK i \in Nat, j \in Nat : i = d[x] /\ j = c[x]
        BY <2>3
      <4>2. i = 0 \/ i = j
        BY <2>3, <4>1
      <4> QED BY <4>1, <4>2
    <3> QED BY <3>1
  <2>5. \A x \in Request : Rows(d)[x] <= Rows(c)[x]
    <3>1. ASSUME NEW x \in Request PROVE Rows(d)[x] <= Rows(c)[x]
      <4>1. Rows(d)[x] = 0 \/ Rows(d)[x] = Rows(c)[x]
        <5>1. Rows(d)[x] = (IF d[x] = 0 THEN 0 ELSE d[x] + DraftSlots)
          BY <2>3, RowsAre
        <5>2. Rows(c)[x] = (IF c[x] = 0 THEN 0 ELSE c[x] + DraftSlots)
          BY <2>3, RowsAre
        <5> QED BY <2>3, <5>1, <5>2
      <4>2. PICK i \in Nat, j \in Nat : i = Rows(d)[x] /\ j = Rows(c)[x]
        BY <2>3
      <4> QED BY <4>1, <4>2
    <3> QED BY <3>1
  <2>6. Total(d, Request) \in Nat /\ Total(c, Request) \in Nat /\ Total(d, Request) <= Total(c, Request)
    BY <2>3, <2>4, RequestAssumption, TotalShrinks
  <2>7. /\ Total(Rows(d), Request) \in Nat /\ Total(Rows(c), Request) \in Nat
        /\ Total(Rows(d), Request) <= Total(Rows(c), Request)
    BY <2>3, <2>5, RequestAssumption, TotalShrinks
  <2>8. tokenBudget \in Nat /\ inputBudget \in Nat
    BY CoreParts, TypesAre
  <2>9. Total(d, Request) <= tokenBudget /\ Total(Rows(d), Request) <= inputBudget
    BY <2>1, <2>2, <2>6, <2>7, <2>8
  <2>10. (Total(Claim, Request))' = Total(d, Request) /\ (Total(Rows(Claim), Request))' = Total(Rows(d), Request)
    BY <2>2, <2>3
  <2> QED BY <2>9, <2>10 DEF BudgetInv
<1> QED BY <1>1, <1>2

LEMMA GrantBudget ==
  ASSUME CoreInv, ServedInv, BudgetInv, Grant
  PROVE  BudgetInv'
<1>1. PICK h \in Request, a \in Nat :
        /\ a <= Most(0, budget) /\ order # <<>>
        /\ a = AllowanceFor(PlanView, h, budget, inputs)
        /\ grants' = [grants EXCEPT ![h] = a] /\ grants' \in [Request -> Nat]
        /\ Differ(Request, grants, grants', h) /\ grants'[h] = a
        /\ budget' = budget - a
        /\ inputs' = (IF a > 0 THEN inputs - (a + DraftSlots) ELSE inputs)
        /\ pc = "running"
        /\ UNCHANGED <<pc, running, preempted, tokenBudget, inputBudget, decoder_ids>>
  BY GrantIs DEF cadenceVars
<1>2. CASE decoder_ids = {}
  BY <1>1, <1>2 DEF BudgetInv
<1>3. CASE decoder_ids # {}
  <2>1. /\ tokenBudget = MaxScheduled /\ inputBudget = MaxBatched
        /\ Total(grants, Request) + Most(0, budget) + Reserve <= MaxScheduled
        /\ Total(Rows(grants), Request) + Most(0, inputs) + ReserveRows <= MaxBatched
    BY <1>1, <1>3 DEF BudgetInv
  <2>2. decoder_ids \subseteq Request
    BY <1>1, CoreParts, TypesAre, RunningAre DEF ServedInv, InStep
  <2>3. grants \in [Request -> Nat] /\ budget \in Int /\ inputs \in Int
    BY CoreParts, TypesAre
  <2>4. PICK b \in Int, i \in Int : b = budget /\ i = inputs
    BY <2>3
  <2>5. a <= Most(0, b) /\ (a > 0 => a + DraftSlots <= i)
    <3>1. PlanView.start \in [Request -> Nat] /\ PlanView.end \in [Request -> Nat]
      BY PlanViewIs
    <3>2. PICK w : w = PlanView
      OBVIOUS
    <3> QED BY <1>1, <2>4, <3>1, <3>2, AllowanceRows
  <2>6. PICK ds \in Nat : ds = DraftSlots
    BY Sizes
  <2>7. PICK v \in Nat, u \in Nat : v = Reserve /\ u = ReserveRows
    BY <2>2, ClaimFits, CoreParts DEF ClaimBounded
  <2>8. Moved(Total(grants, Request), Total(grants', Request), grants[h], grants'[h])
    BY <1>1, RequestAssumption, TotalChange
  <2>9. PICK s \in Nat, t \in Nat, o \in Nat :
          s = Total(grants, Request) /\ t = Total(grants', Request) /\ t = (s - o) + a
    BY <1>1, <2>8 DEF Moved
  <2>10. Rows(grants) \in [Request -> Nat] /\ Rows(grants') \in [Request -> Nat]
         /\ Rows(grants')[h] = (IF a = 0 THEN 0 ELSE a + ds)
    BY <1>1, <2>3, <2>6, RowsAre
  <2>11. Differ(Request, Rows(grants), Rows(grants'), h)
    <3>1. \A x \in Request \ {h} : Rows(grants')[x] = Rows(grants)[x]
      BY <1>1, <2>3 DEF Differ, Rows
    <3> QED BY <2>10, <3>1 DEF Differ
  <2>12. Moved(Total(Rows(grants), Request), Total(Rows(grants'), Request), Rows(grants)[h], Rows(grants')[h])
    BY <2>11, RequestAssumption, TotalChange
  <2>13. PICK x \in Nat, y \in Nat, p \in Nat :
           /\ x = Total(Rows(grants), Request) /\ y = Total(Rows(grants'), Request)
           /\ y = (x - p) + (IF a = 0 THEN 0 ELSE a + ds)
    BY <2>10, <2>12 DEF Moved
  <2>14. PICK m \in Nat, n \in Nat : m = MaxScheduled /\ n = MaxBatched
    BY Sizes
  <2>15. PICK e \in Nat, f \in Nat : e = Most(0, b) /\ f = Most(0, i)
    BY DEF Most
  <2>16. s + e + v <= m /\ x + f + u <= n
    BY <2>1, <2>4, <2>7, <2>9, <2>13, <2>14, <2>15
  <2>17. t + Most(0, b - a) + v <= m
    <3>1. Most(0, b - a) \in Nat /\ Most(0, b - a) <= e - a
      BY <2>5, <2>15 DEF Most
    <3> QED BY <2>9, <2>16, <3>1
  <2>18. y + Most(0, inputs') + u <= n
    <3>1. CASE a = 0
      <4>1. inputs' = i
        BY <1>1, <2>4, <3>1
      <4> QED BY <2>13, <2>15, <2>16, <3>1, <4>1
    <3>2. CASE a # 0
      <4>1. inputs' = i - (a + ds) /\ a + ds <= i
        BY <1>1, <2>4, <2>5, <2>6, <3>2
      <4>2. Most(0, i - (a + ds)) \in Nat /\ Most(0, i - (a + ds)) <= f - (a + ds)
        BY <2>15, <4>1 DEF Most
      <4> QED BY <2>13, <2>16, <3>2, <4>1, <4>2
    <3> QED BY <3>1, <3>2
  <2>19. Reserve' = v /\ ReserveRows' = u /\ budget' = b - a
    BY <1>1, <2>4, <2>7 DEF Reserve, ReserveRows
  <2>20. FullBudget'
    BY <1>1, <2>1, <2>9, <2>13, <2>14, <2>17, <2>18, <2>19 DEF FullBudget
  <2>21. Typed'
    BY GrantCore, CoreParts DEF CoreInv
  <2>22. Most(0, b - a) \in Nat /\ Most(0, inputs') \in Nat
    <3>1. inputs' \in Int
      BY <2>21 DEF Typed, StepNumbers
    <3> QED BY <3>1 DEF Most
  <2>23. Total(grants', Request) + Reserve' <= MaxScheduled
         /\ Total(Rows(grants'), Request) + ReserveRows' <= MaxBatched
    BY <2>9, <2>13, <2>14, <2>17, <2>18, <2>19, <2>22
  <2> QED BY <1>1, <2>1, <2>2, <2>20, <2>21, <2>23, FullIsEnough
<1> QED BY <1>2, <1>3

\* The requests that the running loop comes to.
LEMMA LeftIs ==
  ASSUME CoreInv
  PROVE  /\ Left \subseteq ToSet(running)
         /\ running' = running /\ idx' = idx + 1 /\ idx <= Len(running)
              => Left' = Left \ {running[idx]} /\ running[idx] \in Left
         /\ running' = Front(running) /\ idx' = idx /\ idx <= Len(running)
              => /\ Left' = Left \ {Last(running)} /\ Last(running) \in Left
                 /\ Last(running) = running[idx] => Left' = {}
<1>1. running \in Seq(Request) /\ Once(running) /\ idx \in Nat \ {0}
  BY CoreParts, TypesAre DEF QueueInv
<1>2. ToSet(running) = {running[i] : i \in 1..Len(running)} /\ Len(running) \in Nat
  BY <1>1 DEF ToSet
<1>3. Left \subseteq ToSet(running)
  BY <1>1, <1>2 DEF Left
<1>4. \A i, j \in 1..Len(running) : running[i] = running[j] => i = j
  BY <1>1 DEF Once
<1>5. ASSUME running' = running, idx' = idx + 1, idx <= Len(running)
      PROVE  Left' = Left \ {running[idx]} /\ running[idx] \in Left
  <2>1. running[idx] \in Left
    BY <1>1, <1>2, <1>5 DEF Left
  <2>2. ASSUME NEW x PROVE x \in Left' <=> x \in Left /\ x # running[idx]
    <3>1. x \in Left' <=> \E i \in idx + 1..Len(running) : x = running[i]
      BY <1>5 DEF Left
    <3>2. x \in Left <=> \E i \in idx..Len(running) : x = running[i]
      BY DEF Left
    <3>3. ASSUME NEW i \in idx..Len(running), x = running[i], i # idx PROVE x # running[idx]
      BY <1>1, <1>2, <1>4, <1>5, <3>3
    <3>4. \A i \in Int : i \in idx + 1..Len(running) <=> i \in idx..Len(running) /\ i # idx
      BY <1>1, <1>2
    <3> QED BY <1>1, <1>2, <3>1, <3>2, <3>3, <3>4
  <2> HIDE DEF Left
  <2> QED BY <2>1, <2>2
<1>6. ASSUME running' = Front(running), idx' = idx, idx <= Len(running)
      PROVE  /\ Left' = Left \ {Last(running)} /\ Last(running) \in Left
             /\ Last(running) = running[idx] => Left' = {}
  <2>1. running # <<>>
    BY <1>1, <1>6
  <2>2. Len(running') = Len(running) - 1 /\ \A i \in 1..Len(running) - 1 : running'[i] = running[i]
    BY <1>1, <1>6, <2>1, FrontIs
  <2>3. Last(running) = running[Len(running)]
    BY DEF Last
  <2>4. Last(running) \in Left
    BY <1>1, <1>2, <1>6, <2>3 DEF Left
  <2>5. ASSUME NEW x PROVE x \in Left' <=> x \in Left /\ x # Last(running)
    <3>1. x \in Left' <=> \E i \in idx..Len(running) - 1 : x = running[i]
      <4>1. idx..Len(running) - 1 \subseteq 1..Len(running) - 1
        BY <1>1, <1>2
      <4> QED BY <1>6, <2>2, <4>1 DEF Left
    <3>2. x \in Left <=> \E i \in idx..Len(running) : x = running[i]
      BY DEF Left
    <3>3. ASSUME NEW i \in idx..Len(running), x = running[i], i # Len(running) PROVE x # Last(running)
      BY <1>1, <1>2, <1>4, <1>6, <2>3, <3>3
    <3>4. \A i \in Int : i \in idx..Len(running) - 1 <=> i \in idx..Len(running) /\ i # Len(running)
      BY <1>1, <1>2
    <3>5. idx..Len(running) \subseteq Int /\ idx..Len(running) - 1 \subseteq Int
      BY <1>1, <1>2
    <3> QED BY <2>3, <3>1, <3>2, <3>3, <3>4, <3>5
  <2>6. ASSUME Last(running) = running[idx] PROVE Left' = {}
    <3>1. idx = Len(running)
      <4>1. idx \in 1..Len(running) /\ Len(running) \in 1..Len(running)
        BY <1>1, <1>2, <1>6
      <4>2. running[idx] = running[Len(running)]
        BY <2>3, <2>6
      <4> QED BY <1>4, <4>1, <4>2
    <3>2. idx'..Len(running') = {}
      BY <1>1, <1>2, <1>6, <2>2, <3>1
    <3> QED BY <3>2 DEF Left
  <2> HIDE DEF Left
  <2> QED BY <2>4, <2>5, <2>6
<1> QED BY <1>3, <1>5, <1>6

LEMMA RunSkipBudget ==
  ASSUME CoreInv, BudgetInv, RunSkip
  PROVE  BudgetInv'
<1>1. /\ pc = "running" /\ order = <<>> /\ idx <= Len(running)
      /\ running' = running /\ idx' = idx + 1
      /\ UNCHANGED <<order, grants, decoder_ids, tokenBudget, inputBudget>>
  BY DEF RunSkip, AtRunning, cadenceVars, fairVars, requestVars
<1>2. Left' \subseteq Left
  <2> HIDE DEF Left
  <2> QED BY <1>1, LeftIs
<1> QED BY <1>1, <1>2, FewerLeft

LEMMA RunPreemptBudget ==
  ASSUME CoreInv, BudgetInv, RunPreempt
  PROVE  BudgetInv'
<1>1. /\ pc = "running" /\ order = <<>> /\ idx <= Len(running)
      /\ running' = Front(running) /\ idx' = idx
      /\ UNCHANGED <<order, grants, decoder_ids, tokenBudget, inputBudget>>
  BY DEF RunPreempt, AtRunning, cadenceVars, fairVars
<1>2. Left' \subseteq Left
  <2> HIDE DEF Left
  <2> QED BY <1>1, LeftIs
<1> QED BY <1>1, <1>2, FewerLeft

\* The loop gives no more than it may claim.
LEMMA WithinClaim ==
  ASSUME CoreInv, HeldInv, ServedInv, AtRunning, decoder_ids # {},
         NEW r, r = running[idx], NEW n, n = RunningTokens, n # 0
  PROVE  /\ r \in Request /\ n \in Nat /\ Claim[r] \in Nat /\ n <= Claim[r]
         /\ Rows(Claim)[r] = Claim[r] + DraftSlots
<1>1. /\ r \in Request /\ r \in ToSet(running) /\ idx \in 1..Len(running) /\ status[r] = "running"
      /\ n \in Nat /\ n <= tokens[r] + spec[r] - computed[r]
      /\ IsPrefilling(r) /\ granting => n <= grants[r]
  BY RunningTokensAre
<1>2. r \in Left
  <2>1. idx \in idx..Len(running)
    BY <1>1
  <2> QED BY <2>1 DEF Left
<1>3. /\ Claim \in [Request -> Nat]
      /\ r \in decoder_ids => Claim[r] = K + 1
      /\ r \notin decoder_ids => Claim[r] = grants[r]
  <2> HIDE DEF Left, Claim
  <2> QED BY <1>1, <1>2, ClaimIs
<1>4. InStep /\ pc = "running"
  BY DEF AtRunning, InStep
<1>5. n <= Claim[r]
  <2>1. CASE r \in decoder_ids
    <3>1. computed[r] = tokens[r] - 1
      BY <1>1, <1>4, <2>1 DEF ServedInv
    <3>2. PICK t \in Nat, s \in Nat : t = tokens[r] /\ s = spec[r]
      BY <1>1, CoreParts, TypesAre
    <3>3. s <= K
      BY <1>1, <3>2, CoreParts, Sizes DEF TokenInv, TokenAt
    <3>4. t + s - (t - 1) = s + 1
      BY <3>2
    <3> QED BY <1>1, <1>3, <2>1, <3>1, <3>2, <3>3, <3>4, Sizes
  <2>2. CASE r \notin decoder_ids
    <3>1. r \notin RunningDecoders
      BY <1>4, <2>2 DEF ServedInv
    <3>2. IsPrefilling(r)
      BY <1>1, <3>1 DEF RunningDecoders
    <3>3. granting
      BY <1>4 DEF HeldInv, ShareInv
    <3> QED BY <1>1, <1>3, <2>2, <3>2, <3>3
  <2> QED BY <2>1, <2>2
<1>6. Claim[r] \in Nat /\ Claim[r] # 0
  BY <1>1, <1>3, <1>5
<1> HIDE DEF Claim
<1>7. Rows(Claim)[r] = Claim[r] + DraftSlots
  BY <1>1, <1>3, <1>6, RowsAre
<1> QED BY <1>1, <1>5, <1>6, <1>7

LEMMA RunServeBudget ==
  ASSUME CoreInv, HeldInv, ServedInv, BudgetInv, RunServe
  PROVE  BudgetInv'
<1>1. /\ AtRunning /\ pc = "running" /\ order = <<>> /\ idx <= Len(running)
      /\ running' = running /\ idx' = idx + 1 /\ RunningTokens > 0
      /\ UNCHANGED <<order, grants, decoder_ids, pc>>
      /\ tokenBudget' = tokenBudget - RunningTokens
      /\ inputBudget' = inputBudget - (RunningTokens + DraftSlots)
  BY DEF RunServe, AtRunning, cadenceVars, fairVars, Charge
<1>2. CASE decoder_ids = {}
  BY <1>1, <1>2 DEF BudgetInv
<1>3. CASE decoder_ids # {}
  <2>1. PICK r, n : r = running[idx] /\ n = RunningTokens
    OBVIOUS
  <2>2. n # 0
    BY <1>1, <2>1
  <2>3. /\ r \in Request /\ n \in Nat /\ Claim[r] \in Nat /\ n <= Claim[r]
        /\ Rows(Claim)[r] = Claim[r] + DraftSlots
    BY <1>1, <1>3, <2>1, <2>2, WithinClaim
  <2>4. Total(Claim, Request) <= tokenBudget /\ Total(Rows(Claim), Request) <= inputBudget
    BY <1>1, <1>3 DEF BudgetInv
  <2>5. Left' = Left \ {r}
    <3> HIDE DEF Left
    <3> QED BY <1>1, <2>1, LeftIs
  <2>6. PICK c, d : c = Claim /\ d = Claim'
    OBVIOUS
  <2>7. /\ c \in [Request -> Nat] /\ d \in [Request -> Nat] /\ Rows(c) \in [Request -> Nat]
        /\ Rows(d) \in [Request -> Nat] /\ Rows(Claim)' = Rows(d)
        /\ d[r] = 0 /\ \A x \in Request \ {r} : d[x] = c[x]
    <3> HIDE DEF Claim, Rows, Left
    <3> QED BY <1>1, <2>3, <2>5, <2>6, ClaimParts
  <2>8. /\ Rows(d)[r] = 0 /\ \A x \in Request \ {r} : Rows(d)[x] = Rows(c)[x]
    <3>1. Rows(d)[r] = 0
      BY <2>3, <2>7, RowsAre
    <3>2. ASSUME NEW x \in Request \ {r} PROVE Rows(d)[x] = Rows(c)[x]
      <4>1. Rows(d)[x] = (IF d[x] = 0 THEN 0 ELSE d[x] + DraftSlots)
        BY <2>7, RowsAre
      <4>2. Rows(c)[x] = (IF c[x] = 0 THEN 0 ELSE c[x] + DraftSlots)
        BY <2>7, RowsAre
      <4> QED BY <2>7, <4>1, <4>2
    <3> QED BY <3>1, <3>2
  <2>9. Moved(Total(c, Request), Total(d, Request), c[r], d[r])
    <3>1. Differ(Request, c, d, r)
      BY <2>3, <2>7 DEF Differ
    <3> QED BY <3>1, RequestAssumption, TotalChange
  <2>10. Moved(Total(Rows(c), Request), Total(Rows(d), Request), Rows(c)[r], Rows(d)[r])
    <3>1. Differ(Request, Rows(c), Rows(d), r)
      BY <2>3, <2>7, <2>8 DEF Differ
    <3> QED BY <3>1, RequestAssumption, TotalChange
  <2>11. PICK i \in Nat, ds \in Nat, tb \in Nat, ib \in Nat :
           i = c[r] /\ ds = DraftSlots /\ tb = tokenBudget /\ ib = inputBudget
    BY <2>3, <2>6, Sizes, CoreParts, TypesAre
  <2>12. PICK s \in Nat, t \in Nat :
           s = Total(c, Request) /\ t = Total(d, Request) /\ t = (s - i) + 0
    BY <2>7, <2>9, <2>11 DEF Moved
  <2>13. PICK x \in Nat, y \in Nat :
           x = Total(Rows(c), Request) /\ y = Total(Rows(d), Request) /\ y = (x - (i + ds)) + 0
    <3>1. Rows(c)[r] = i + ds
      BY <2>3, <2>6, <2>11
    <3> QED BY <2>8, <2>10, <3>1 DEF Moved
  <2>14. s <= tb /\ x <= ib /\ n <= i
    BY <2>3, <2>4, <2>6, <2>11, <2>12, <2>13
  <2>15. tokenBudget' = tb - n /\ inputBudget' = ib - (n + ds)
    BY <1>1, <2>1, <2>11
  <2>16. Total(d, Request) <= tokenBudget' /\ Total(Rows(d), Request) <= inputBudget'
    BY <2>3, <2>12, <2>13, <2>14, <2>15
  <2>17. (Total(Claim, Request))' = Total(d, Request) /\ (Total(Rows(Claim), Request))' = Total(Rows(d), Request)
    BY <2>6, <2>7
  <2> QED BY <1>1, <2>16, <2>17 DEF BudgetInv
<1> QED BY <1>2, <1>3

\* A request that is past its prefill has one token to compute.
LEMMA PastPrefill ==
  ASSUME CoreInv, NEW r \in Request, ~IsPrefilling(r), computed[r] < tokens[r]
  PROVE  computed[r] = tokens[r] - 1
<1>1. PICK c \in Nat, t \in Nat : c = computed[r] /\ t = tokens[r]
  BY CoreParts, TypesAre
<1>2. PICK p \in Nat : p = Prompt[r]
  BY Sizes
<1>3. ~(c < Most(p, t - 1))
  BY <1>1, <1>2 DEF IsPrefilling, PrefillEnd
<1>4. c >= t - 1
  BY <1>1, <1>2, <1>3 DEF Most
<1> QED BY <1>1, <1>4

\* A decoder that the loop comes to gets its last token and the drafts it has,
\* as far as the context has room for them.
LEMMA DecoderGets ==
  ASSUME CoreInv, ServedInv, BudgetInv, AtRunning, phase # "prefill",
         NEW r, r = running[idx], r \in decoder_ids, NEW n, n = RunningTokens
  PROVE  /\ r \in Request /\ n # 0 /\ computed[r] = tokens[r] - 1
         /\ \E d \in Nat : n = d + 1 /\ d <= spec[r] /\ d \in {0, RoomForDrafts(r)}
<1>1. /\ r \in Request /\ status[r] = "running" /\ r \in ToSet(running) /\ idx \in 1..Len(running)
      /\ (/\ r \in allowed /\ ~IsPrefilling(r)
          /\ Asked(r) <= tokenBudget /\ Asked(r) <= inputBudget - DraftSlots)
           => n = Asked(r)
  BY RunningTokensAre
<1>2. InStep /\ pc = "running" /\ order = <<>>
  BY DEF AtRunning, InStep
<1>3. r \in allowed /\ ~IsPrefilling(r) /\ computed[r] = tokens[r] - 1
  BY <1>1, <1>2 DEF ServedInv
<1>4. PICK t \in Nat, s \in Nat : t = tokens[r] /\ s = spec[r] /\ s \in {0, K}
  BY <1>1, CoreParts, TypesAre DEF TokenInv, TokenAt
<1>5. PICK k \in Nat, ds \in Nat, tb \in Nat, ib \in Nat :
        k = K /\ ds = DraftSlots /\ tb = tokenBudget /\ ib = inputBudget
  BY Sizes, CoreParts, TypesAre
<1>6. Claim \in [Request -> Nat] /\ Claim[r] = k + 1
  <2>1. idx \in idx..Len(running)
    BY <1>1
  <2>2. r \in Left
    BY <2>1 DEF Left
  <2> HIDE DEF Left, Claim
  <2> QED BY <1>1, <1>5, <2>2, ClaimIs
<1> HIDE DEF Claim
<1>7. Rows(Claim) \in [Request -> Nat] /\ Rows(Claim)[r] = k + 1 + ds
  <2>1. Claim[r] # 0
    BY <1>5, <1>6
  <2> QED BY <1>1, <1>5, <1>6, <2>1, RowsAre
<1>8. Total(Claim, Request) <= tb /\ Total(Rows(Claim), Request) <= ib
  BY <1>2, <1>5 DEF BudgetInv
<1>9. k + 1 <= tb
  <2>1. Claim[r] <= Total(Claim, Request)
    BY <1>1, <1>6, OneOfTotal
  <2>2. Total(Claim, Request) \in Nat
    BY <1>6, TotalIsNat
  <2> QED BY <1>5, <1>6, <1>8, <2>1, <2>2
<1>10. k + 1 + ds <= ib
  <2>1. Rows(Claim)[r] <= Total(Rows(Claim), Request)
    BY <1>1, <1>7, OneOfTotal
  <2>2. Total(Rows(Claim), Request) \in Nat
    BY <1>7, TotalIsNat
  <2> QED BY <1>5, <1>7, <1>8, <2>1, <2>2
<1>11. PICK d \in Nat : Asked(r) = d + 1 /\ d <= s /\ d \in {0, RoomForDrafts(r)}
  <2>1. PICK x \in Nat : x = MaxModelLen /\ t + 1 <= x
    BY <1>1, <1>4, Sizes, InContext DEF Live
  <2>2. PICK y \in Nat : y = x - t - 1
    BY <2>1
  <2>3. Asked(r) = Least(s + 1, y + 1)
    <3>1. t + s - (t - 1) = s + 1 /\ x - (t - 1) - 1 = y + 1
      BY <1>4, <2>1, <2>2
    <3> QED BY <1>3, <1>4, <2>1, <3>1 DEF Asked
  <2>4. RoomForDrafts(r) = Least(k, y)
    BY <1>4, <1>5, <2>1, <2>2 DEF RoomForDrafts
  <2>5. PICK d \in Nat : d = Least(s, y)
    BY DEF Least
  <2>6. Asked(r) = d + 1 /\ d <= s
    BY <2>3, <2>5 DEF Least
  <2>7. d = 0 \/ d = Least(k, y)
    BY <1>4, <1>5, <2>5 DEF Least
  <2> QED BY <2>4, <2>6, <2>7
<1>12. d + 1 <= tb /\ d + 1 <= ib - ds
  BY <1>4, <1>5, <1>9, <1>10, <1>11
<1>13. n = d + 1
  BY <1>1, <1>3, <1>5, <1>11, <1>12
<1> QED BY <1>1, <1>3, <1>4, <1>11, <1>13

\* The budgets last until the loop has come to every decoder.
LEMMA BudgetsLast ==
  ASSUME CoreInv, BudgetInv, pc = "running", order = <<>>, ~AtRunning
  PROVE  Left \cap decoder_ids = {}
<1> SUFFICES ASSUME NEW r, r \in Left, r \in decoder_ids PROVE FALSE
  OBVIOUS
<1>0. r \in Request /\ idx <= Len(running)
  <2>1. Left \subseteq ToSet(running)
    BY LeftIs
  <2>2. PICK i \in idx..Len(running) : TRUE
    BY DEF Left
  <2>3. idx \in Nat /\ Len(running) \in Nat
    BY CoreParts, TypesAre DEF QueueInv
  <2> QED BY <2>1, <2>2, <2>3, RunningAre
<1>5. PICK k \in Nat, ds \in Nat, tb \in Nat, ib \in Nat :
        k = K /\ ds = DraftSlots /\ tb = tokenBudget /\ ib = inputBudget
  BY Sizes, CoreParts, TypesAre
<1>6. Claim \in [Request -> Nat] /\ Claim[r] = k + 1
  <2> HIDE DEF Left, Claim
  <2> QED BY <1>0, <1>5, ClaimIs
<1> HIDE DEF Claim, Left
<1>7. Rows(Claim) \in [Request -> Nat] /\ Rows(Claim)[r] = k + 1 + ds
  <2>1. Claim[r] # 0
    BY <1>5, <1>6
  <2> QED BY <1>0, <1>5, <1>6, <2>1, RowsAre
<1>8. Total(Claim, Request) <= tb /\ Total(Rows(Claim), Request) <= ib
  BY <1>5 DEF BudgetInv
<1>9. k + 1 <= tb
  <2>1. Claim[r] <= Total(Claim, Request)
    BY <1>0, <1>6, OneOfTotal
  <2>2. Total(Claim, Request) \in Nat
    BY <1>6, TotalIsNat
  <2> QED BY <1>5, <1>6, <1>8, <2>1, <2>2
<1>10. k + 1 + ds <= ib
  <2>1. Rows(Claim)[r] <= Total(Rows(Claim), Request)
    BY <1>0, <1>7, OneOfTotal
  <2>2. Total(Rows(Claim), Request) \in Nat
    BY <1>7, TotalIsNat
  <2> QED BY <1>5, <1>7, <1>8, <2>1, <2>2
<1>11. HasBudget
  BY <1>5, <1>9, <1>10 DEF HasBudget
<1> QED BY <1>0, <1>11 DEF AtRunning

\* A step that leaves the requests alone.
LEMMA SameServed ==
  ASSUME CoreInv, ServedInv, InStep' => InStep,
         UNCHANGED <<decoder_ids, owed_decode, phase, allowed, computed, tokens,
                     running, preempted, counts, drafts>>,
         \A r \in decoder_ids \cap ToSet(running) :
           (phase # "prefill" /\ pc = "running" /\ r \in Left)
             => (pc' = "running" /\ r \in Left') \/ ~InStep'
  PROVE  ServedInv'
<1> SUFFICES ASSUME InStep'
             PROVE  ServedInv'
  BY DEF ServedInv
<1>1. RunningDecoders' = RunningDecoders /\ \A r \in Request : IsPrefilling(r)' <=> IsPrefilling(r)
  BY DEF RunningDecoders, IsPrefilling
<1>2. \A r \in Request : FullQuery(r)' <=> FullQuery(r)
  BY DEF FullQuery, RoomForDrafts
<1>3. ToSet(running) \subseteq Request
  BY RunningAre
<1> HIDE DEF RunningDecoders, IsPrefilling, FullQuery, Left, InStep
<1> QED BY <1>1, <1>2, <1>3 DEF ServedInv

LEMMA BeginServed ==
  ASSUME CoreInv, Begin
  PROVE  ServedInv'
<1>1. /\ CadenceBegin(CadenceView) /\ pc = "idle" /\ pc' = "running" /\ idx' = 1 /\ preempted' = {}
      /\ UNCHANGED <<computed, tokens, running>>
  BY DEF Begin, requestVars
<1>2. /\ decoder_ids' = RunningDecoders
      /\ phase' \in {"mixed", "decode", "prefill"}
      /\ owed_decode' = owed_decode \cap RunningDecoders
      /\ phase' = "mixed" => allowed' = Request
      /\ phase' = "decode" => allowed' = RunningDecoders
      /\ phase' # "decode" => owed_decode' = {}
  BY <1>1, OfferIs
<1>3. RunningDecoders' = RunningDecoders /\ \A r \in Request : IsPrefilling(r)' <=> IsPrefilling(r)
  BY <1>1 DEF RunningDecoders, IsPrefilling
<1>4. RunningDecoders \subseteq ToSet(running) /\ ToSet(running) \subseteq Request
  BY RunningAre
<1>5. \A r \in RunningDecoders : ~IsPrefilling(r) /\ computed[r] = tokens[r] - 1
  <2>1. ASSUME NEW r \in RunningDecoders PROVE ~IsPrefilling(r) /\ computed[r] < tokens[r]
    <3>1. status[r] = "running"
      BY <1>4, CoreParts DEF QueueInv
    <3> QED BY <1>1, <1>4, <3>1, CoreParts DEF RunningDecoders, TokenInv, TokenAt
  <2> HIDE DEF IsPrefilling, RunningDecoders
  <2> QED BY <1>4, <2>1, PastPrefill
<1>6. Left' = ToSet(running)
  BY <1>1 DEF Left, ToSet
<1> HIDE DEF RunningDecoders, IsPrefilling, FullQuery, Left
<1> QED BY <1>1, <1>2, <1>3, <1>4, <1>5, <1>6 DEF ServedInv

LEMMA RunSkipServed ==
  ASSUME CoreInv, ServedInv, BudgetInv, RunSkip
  PROVE  ServedInv'
<1>1. /\ AtRunning /\ RunningTokens = 0 /\ pc = "running" /\ pc' = pc /\ idx <= Len(running)
      /\ idx' = idx + 1
      /\ UNCHANGED <<decoder_ids, owed_decode, phase, allowed, computed, tokens,
                     running, preempted, counts, drafts>>
  BY DEF RunSkip, AtRunning, cadenceVars, requestVars
<1>2. Left' = Left \ {running[idx]}
  <2> HIDE DEF Left
  <2> QED BY <1>1, LeftIs
<1>3. phase # "prefill" => running[idx] \notin decoder_ids
  BY <1>1, DecoderGets
<1>4. InStep' => InStep
  BY <1>1 DEF InStep
<1>5. \A r \in decoder_ids \cap ToSet(running) :
        (phase # "prefill" /\ pc = "running" /\ r \in Left)
             => (pc' = "running" /\ r \in Left') \/ ~InStep'
  <2> HIDE DEF Left
  <2> QED BY <1>1, <1>2, <1>3
<1> QED BY <1>1, <1>4, <1>5, SameServed

LEMMA RunEndServed ==
  ASSUME CoreInv, ServedInv, BudgetInv, RunEnd
  PROVE  ServedInv'
<1>1. /\ ~AtRunning /\ pc = "running" /\ order = <<>>
      /\ UNCHANGED <<decoder_ids, owed_decode, phase, allowed, computed, tokens,
                     running, preempted, counts, drafts>>
  BY DEF RunEnd, cadenceVars, requestVars, stepVars
<1>2. Left \cap decoder_ids = {}
  BY <1>1, BudgetsLast
<1>3. InStep' => InStep
  BY <1>1 DEF InStep
<1>4. \A r \in decoder_ids \cap ToSet(running) :
        (phase # "prefill" /\ pc = "running" /\ r \in Left)
             => (pc' = "running" /\ r \in Left') \/ ~InStep'
  <2> HIDE DEF Left
  <2> QED BY <1>2
<1> QED BY <1>1, <1>3, <1>4, SameServed

LEMMA RunServeServed ==
  ASSUME CoreInv, ServedInv, BudgetInv, RunServe
  PROVE  ServedInv'
<1>1. PICK r, n : r = running[idx] /\ n = RunningTokens
  OBVIOUS
<1>2. /\ AtRunning /\ pc = "running" /\ pc' = pc /\ idx <= Len(running) /\ idx' = idx + 1
      /\ counts' = [counts EXCEPT ![r] = n]
      /\ drafts' = [drafts EXCEPT ![r] = Least(spec[r], Most(0, n + computed[r] - tokens[r]))]
      /\ UNCHANGED <<decoder_ids, owed_decode, phase, allowed, computed, tokens, running, preempted>>
  BY <1>1 DEF RunServe, AtRunning, cadenceVars, Charge
<1>3. Left' = Left \ {r} /\ r \in Left
  <2> HIDE DEF Left
  <2> QED BY <1>1, <1>2, LeftIs
<1>4. RunningDecoders' = RunningDecoders /\ \A x \in Request : IsPrefilling(x)' <=> IsPrefilling(x)
  BY <1>2 DEF RunningDecoders, IsPrefilling
<1>5. ToSet(running) \subseteq Request /\ InStep
  BY <1>2, RunningAre DEF InStep
<1>6. counts \in [Request -> Nat] /\ drafts \in [Request -> Nat]
  BY CoreParts, TypesAre
<1>7. \A x \in Request \ {r} : FullQuery(x)' <=> FullQuery(x)
  BY <1>2, <1>6 DEF FullQuery, RoomForDrafts
<1>8. phase # "prefill" /\ r \in decoder_ids => FullQuery(r)'
  <2> SUFFICES ASSUME phase # "prefill", r \in decoder_ids
               PROVE  FullQuery(r)'
    OBVIOUS
  <2>1. /\ r \in Request /\ computed[r] = tokens[r] - 1
        /\ \E d \in Nat : n = d + 1 /\ d <= spec[r] /\ d \in {0, RoomForDrafts(r)}
    BY <1>1, <1>2, DecoderGets
  <2>2. PICK d \in Nat : n = d + 1 /\ d <= spec[r] /\ d \in {0, RoomForDrafts(r)}
    BY <2>1
  <2>3. PICK t \in Nat, s \in Nat : t = tokens[r] /\ s = spec[r]
    BY <2>1, CoreParts, TypesAre
  <2>4. n + computed[r] - tokens[r] = d
    <3>1. (d + 1) + (t - 1) - t = d
      BY <2>3
    <3> QED BY <2>1, <2>2, <2>3, <3>1
  <2>5. Least(s, Most(0, d)) = d
    BY <2>2, <2>3 DEF Least, Most
  <2>6. counts'[r] = d + 1 /\ drafts'[r] = d
    BY <1>2, <1>6, <2>1, <2>2, <2>3, <2>4, <2>5
  <2>7. RoomForDrafts(r)' = RoomForDrafts(r)
    BY <1>2 DEF RoomForDrafts
  <2> QED BY <2>2, <2>6, <2>7 DEF FullQuery
<1> HIDE DEF RunningDecoders, IsPrefilling, FullQuery, Left, InStep
<1> QED BY <1>2, <1>3, <1>4, <1>5, <1>7, <1>8 DEF ServedInv

LEMMA RunPreemptServed ==
  ASSUME CoreInv, ServedInv, RunPreempt
  PROVE  ServedInv'
<1>1. PICK v : v = Last(running)
  OBVIOUS
<1>2. /\ AtRunning /\ pc = "running" /\ pc' = (IF v = running[idx] THEN "select" ELSE pc)
      /\ idx <= Len(running) /\ idx' = idx /\ running' = Front(running)
      /\ preempted' = preempted \cup {v}
      /\ computed' = [computed EXCEPT ![v] = 0]
      /\ UNCHANGED <<decoder_ids, owed_decode, phase, allowed, tokens, counts, drafts>>
  BY <1>1 DEF RunPreempt, AtRunning, cadenceVars
<1>3. Left' = Left \ {v} /\ (v = running[idx] => Left' = {})
  <2> HIDE DEF Left
  <2> QED BY <1>1, <1>2, LeftIs
<1>4. v \in ToSet(running) /\ ToSet(running') = ToSet(running) \ {v}
  <2>1. running \in Seq(Request) /\ Once(running) /\ idx \in Nat \ {0}
    BY CoreParts, TypesAre DEF QueueInv
  <2>2. running # <<>>
    BY <1>2, <2>1
  <2> QED BY <1>1, <1>2, <2>1, <2>2, FrontIs
<1>5. ToSet(running) \subseteq Request /\ InStep
  BY <1>2, RunningAre DEF InStep
<1>6. \A x \in Request \ {v} : (IsPrefilling(x)' <=> IsPrefilling(x)) /\ computed'[x] = computed[x]
  <2>1. computed \in [Request -> Nat]
    BY CoreParts, TypesAre
  <2> QED BY <1>2, <2>1 DEF IsPrefilling
<1>7. RunningDecoders' \subseteq RunningDecoders
  <2> HIDE DEF IsPrefilling
  <2> QED BY <1>4, <1>5, <1>6 DEF RunningDecoders
<1>8. \A x \in Request : FullQuery(x)' <=> FullQuery(x)
  BY <1>2 DEF FullQuery, RoomForDrafts
<1> HIDE DEF RunningDecoders, IsPrefilling, FullQuery, Left, InStep
<1> QED BY <1>2, <1>3, <1>4, <1>5, <1>6, <1>7, <1>8 DEF ServedInv

LEMMA ServeServed ==
  ASSUME CoreInv, ServedInv, NEW hit, AdmitServe(hit)
  PROVE  ServedInv'
<1>1. PICK r, n : r = Waiter /\ n = Chunk(Waiter, hit, Wanted(Waiter, hit))
  OBVIOUS
<1>2. /\ AtWaiting /\ pc = "waiting" /\ pc' = pc /\ hit \in Hits(r)
      /\ running' = Append(running, r)
      /\ computed' = [computed EXCEPT ![r] = hit]
      /\ counts' = [counts EXCEPT ![r] = n] /\ drafts' = [drafts EXCEPT ![r] = 0]
      /\ UNCHANGED <<decoder_ids, owed_decode, phase, allowed, tokens, preempted>>
  BY <1>1 DEF AdmitServe, AtWaiting, cadenceVars, Charge
<1>3. r \in Request /\ r \notin ToSet(running)
  <2>1. r \in Request /\ status[r] \in {"waiting", "preempted"}
    BY <1>1, CoreParts, ServeQueues
  <2> QED BY <2>1, CoreParts DEF QueueInv
<1>4. ToSet(running') = ToSet(running) \cup {r}
  BY <1>2, <1>3, CoreParts, AppendIs DEF QueueInv
<1>5. ToSet(running) \subseteq Request /\ InStep
  BY <1>2, RunningAre DEF InStep
<1>6. computed \in [Request -> Nat] /\ counts \in [Request -> Nat] /\ drafts \in [Request -> Nat]
  BY CoreParts, TypesAre
<1>7. \A x \in Request \ {r} : /\ IsPrefilling(x)' <=> IsPrefilling(x)
                               /\ computed'[x] = computed[x]
                               /\ FullQuery(x)' <=> FullQuery(x)
  BY <1>2, <1>6 DEF IsPrefilling, FullQuery, RoomForDrafts
<1>8. IsPrefilling(r)'
  <2>1. hit \in Nat /\ hit < Prompt[r]
    BY <1>2, <1>3, HitsAre
  <2>2. PICK p \in Nat, t \in Nat : p = Prompt[r] /\ t = tokens[r]
    BY <1>3, Sizes, CoreParts, TypesAre
  <2>3. hit < Most(p, t - 1)
    BY <2>1, <2>2 DEF Most
  <2> QED BY <1>2, <1>3, <1>6, <2>2, <2>3 DEF IsPrefilling, PrefillEnd
<1>9. preempted = {}
  BY <1>2, CoreParts DEF SeenInv
<1>10. r \notin decoder_ids
  BY <1>3, <1>5, <1>9 DEF ServedInv
<1>11. RunningDecoders' = RunningDecoders
  <2> HIDE DEF IsPrefilling
  <2> QED BY <1>3, <1>4, <1>5, <1>7, <1>8 DEF RunningDecoders
<1> HIDE DEF RunningDecoders, IsPrefilling, FullQuery, Left, InStep
<1> QED BY <1>2, <1>4, <1>5, <1>7, <1>10, <1>11 DEF ServedInv

LEMMA OutsideServed == ASSUME pc' \in {"idle", "model"} PROVE ServedInv'
BY DEF ServedInv, InStep

LEMMA NextServed ==
  ASSUME CoreInv, ServedInv, BudgetInv, [Next]_vars
  PROVE  ServedInv'
<1>1. ASSUME NEW r \in Request, Add(r) PROVE ServedInv'
  BY <1>1, OutsideServed DEF Add
<1>2. ASSUME NEW r \in Request, Abort(r) PROVE ServedInv'
  BY <1>2, OutsideServed DEF Abort
<1>3. ASSUME Grant PROVE ServedInv'
  <2>1. UNCHANGED <<cadenceVars, pc, requestVars, stepVars>>
    BY <1>3 DEF Grant
  <2>2. UNCHANGED <<decoder_ids, owed_decode, phase, allowed, computed, tokens,
                    running, preempted, counts, drafts, pc, idx>>
    BY <2>1 DEF cadenceVars, requestVars, stepVars
  <2>3. Left' = Left /\ (InStep' => InStep)
    BY <2>2 DEF Left, InStep
  <2> HIDE DEF Left, InStep
  <2> QED BY <2>2, <2>3, SameServed
<1>4. ASSUME AdmitDefer PROVE ServedInv'
  <2>1. UNCHANGED <<decoder_ids, owed_decode, phase, allowed, computed, tokens,
                    running, preempted, counts, drafts, pc>> /\ pc = "waiting"
    BY <1>4 DEF AdmitDefer, AtWaiting, cadenceVars
  <2>2. InStep' => InStep
    BY <2>1 DEF InStep
  <2> QED BY <2>1, <2>2, SameServed
<1>5. ASSUME pc = "waiting", Requeue PROVE ServedInv'
  <2>1. UNCHANGED <<decoder_ids, owed_decode, phase, allowed, computed, tokens,
                    running, preempted, counts, drafts>>
    BY <1>5 DEF Requeue, cadenceVars
  <2>2. InStep' => InStep
    BY <1>5 DEF InStep
  <2> QED BY <1>5, <2>1, <2>2, SameServed
<1>6. ASSUME NEW hit, AdmitFail(hit) PROVE ServedInv'
  BY <1>5, <1>6 DEF AdmitFail, AtWaiting
<1>7. ASSUME AdmitEnd PROVE ServedInv'
  BY <1>5, <1>7 DEF AdmitEnd
<1>8. ASSUME NEW k \in KChoices, Select(k) PROVE ServedInv'
  BY <1>8, OutsideServed DEF Select
<1>9. ASSUME NEW acc, NEW stops, Update(acc, stops) PROVE ServedInv'
  BY <1>9, OutsideServed DEF Update
<1>10. ASSUME UNCHANGED vars PROVE ServedInv'
  <2>1. UNCHANGED <<cadenceVars, pc, requestVars, stepVars>>
    BY <1>10 DEF vars
  <2>2. UNCHANGED <<decoder_ids, owed_decode, phase, allowed, computed, tokens,
                    running, preempted, counts, drafts, pc, idx>>
    BY <2>1 DEF cadenceVars, requestVars, stepVars
  <2>3. Left' = Left /\ (InStep' => InStep)
    BY <2>2 DEF Left, InStep
  <2> HIDE DEF Left, InStep
  <2> QED BY <2>2, <2>3, SameServed
<1>11. CASE UNCHANGED vars
  BY <1>10, <1>11
<1>12. CASE Step
  BY <1>3, <1>4, <1>6, <1>7, <1>8, <1>9, <1>12, BeginServed, RunSkipServed, RunServeServed,
     RunPreemptServed, RunEndServed, ServeServed DEF Step
<1> QED BY <1>1, <1>2, <1>11, <1>12 DEF Next

LEMMA OutsideBudget == ASSUME pc' # "running" PROVE BudgetInv'
BY DEF BudgetInv

LEMMA NextBudget ==
  ASSUME CoreInv, HeldInv, ServedInv, BudgetInv, [Next]_vars
  PROVE  BudgetInv'
<1>1. ASSUME NEW r \in Request, Add(r) PROVE BudgetInv'
  BY <1>1, OutsideBudget DEF Add
<1>2. ASSUME NEW r \in Request, Abort(r) PROVE BudgetInv'
  BY <1>2, OutsideBudget DEF Abort
<1>3. ASSUME RunEnd PROVE BudgetInv'
  BY <1>3, OutsideBudget DEF RunEnd
<1>4. ASSUME AdmitDefer PROVE BudgetInv'
  BY <1>4, OutsideBudget DEF AdmitDefer, AtWaiting
<1>5. ASSUME NEW hit, AdmitServe(hit) PROVE BudgetInv'
  BY <1>5, OutsideBudget DEF AdmitServe, AtWaiting
<1>6. ASSUME NEW hit, AdmitFail(hit) PROVE BudgetInv'
  BY <1>6, OutsideBudget DEF AdmitFail, Requeue
<1>7. ASSUME AdmitEnd PROVE BudgetInv'
  BY <1>7, OutsideBudget DEF AdmitEnd, Requeue
<1>8. ASSUME NEW k \in KChoices, Select(k) PROVE BudgetInv'
  BY <1>8, OutsideBudget DEF Select
<1>9. ASSUME NEW acc, NEW stops, Update(acc, stops) PROVE BudgetInv'
  BY <1>9, OutsideBudget DEF Update
<1>10. CASE UNCHANGED vars
  <2>1. UNCHANGED <<pc, order, running, idx, grants, budget, inputs, decoder_ids,
                    tokenBudget, inputBudget>>
    BY <1>10 DEF vars, cadenceVars, fairVars, requestVars, stepVars
  <2>2. Claim' = Claim /\ Reserve' = Reserve /\ ReserveRows' = ReserveRows
    BY <2>1 DEF Claim, Left, Reserve, ReserveRows
  <2>3. Rows(Claim)' = Rows(Claim) /\ Rows(grants)' = Rows(grants)
    BY <2>1, <2>2 DEF Rows
  <2> HIDE DEF Claim, Reserve, ReserveRows, Rows
  <2> QED BY <2>1, <2>2, <2>3 DEF BudgetInv
<1>11. CASE Step
  BY <1>3, <1>4, <1>5, <1>6, <1>7, <1>8, <1>9, <1>11, BeginBudget, GrantBudget, RunSkipBudget,
     RunServeBudget, RunPreemptBudget DEF Step
<1> QED BY <1>1, <1>2, <1>10, <1>11 DEF Next

\* A request whose numbers stay is owed what it was owed.
LEMMA SameMissed ==
  ASSUME NEW r \in Request, MissedAt(r),
         missed'[r] = 0 \/ (/\ missed'[r] = missed[r] /\ owed_decode' = owed_decode
                            /\ status'[r] = status[r] /\ computed'[r] = computed[r]
                            /\ tokens'[r] = tokens[r] /\ pc' # "model")
  PROVE  MissedAt(r)'
<1>1. (computed'[r] = computed[r] /\ tokens'[r] = tokens[r]) => (IsPrefilling(r)' <=> IsPrefilling(r))
  BY DEF IsPrefilling
<1> HIDE DEF IsPrefilling
<1> QED BY <1>1 DEF MissedAt

LEMMA SelectMissed ==
  ASSUME CoreInv, ServedInv, MissedInv, NEW k \in KChoices, Select(k)
  PROVE  MissedInv'
<1>1. /\ pc = "select" /\ pc' = "model" /\ CadenceObserve(Served)
      /\ missed' = [r \in Request |-> IF r \in RunningDecoders \ Served
                                      THEN Least(missed[r] + 1, 2) ELSE 0]
      /\ UNCHANGED <<status, tokens>>
  BY DEF Select
<1>2. SUFFICES ASSUME NEW r \in Request, missed'[r] > 0
               PROVE  /\ missed'[r] = 1 /\ r \in owed_decode'
                      /\ status'[r] = "running" /\ computed'[r] = tokens'[r] - 1 /\ ~IsPrefilling(r)'
                      /\ counts'[r] = 0
  BY DEF MissedInv, MissedAt
<1>3. r \in RunningDecoders /\ r \notin Served /\ missed'[r] = Least(missed[r] + 1, 2)
  <2> HIDE DEF RunningDecoders, Served
  <2> QED BY <1>1, <1>2
<1>4. InStep
  BY <1>1 DEF InStep
<1>5. r \in decoder_ids /\ r \in ToSet(running)
  BY <1>3, <1>4, RunningAre DEF ServedInv
<1>6. ~IsPrefilling(r) /\ computed[r] = tokens[r] - 1 /\ status[r] = "running"
  <2>1. status[r] = "running"
    BY <1>5, CoreParts DEF QueueInv
  <2> HIDE DEF IsPrefilling
  <2> QED BY <1>4, <1>5, <2>1 DEF ServedInv
<1>7. counts[r] = 0
  <2>1. counts[r] \in Nat
    BY CoreParts, TypesAre
  <2> QED BY <1>3, <2>1 DEF Served
<1>8. phase = "prefill"
  <2> SUFFICES ASSUME phase # "prefill" PROVE FALSE
    OBVIOUS
  <2>1. FullQuery(r)
    <3> HIDE DEF FullQuery
    <3> QED BY <1>1, <1>4, <1>5 DEF ServedInv
  <2>2. drafts[r] \in Nat
    BY CoreParts, TypesAre
  <2> QED BY <1>7, <2>1, <2>2 DEF FullQuery
<1>9. missed[r] = 0
  <2>1. missed[r] \in 0..2
    BY CoreParts, TypesAre
  <2>2. owed_decode = {}
    BY <1>4, <1>8 DEF ServedInv
  <2>3. ~(missed[r] > 0)
    <3> HIDE DEF IsPrefilling
    <3> QED BY <2>2 DEF MissedInv, MissedAt
  <2> QED BY <2>1, <2>3
<1>10. missed'[r] = 1
  BY <1>3, <1>9 DEF Least
<1>11. owed_decode' = decoder_ids
  BY <1>1, <1>8 DEF CadenceObserve, OwedAfter
<1>12. counts'[r] = 0 /\ computed'[r] = computed[r] + counts'[r]
  BY <1>7, SelectIs
<1>13. computed'[r] = computed[r]
  <2>1. computed[r] \in Nat
    BY CoreParts, TypesAre
  <2> QED BY <1>12, <2>1
<1>14. ~IsPrefilling(r)'
  BY <1>1, <1>6, <1>13 DEF IsPrefilling
<1> HIDE DEF IsPrefilling
<1> QED BY <1>1, <1>5, <1>6, <1>10, <1>11, <1>12, <1>13, <1>14

LEMMA UpdateMissed ==
  ASSUME CoreInv, MissedInv, NEW acc \in Acceptances, NEW stops, Update(acc, stops)
  PROVE  MissedInv'
<1> SUFFICES ASSUME NEW r \in Request
             PROVE  MissedAt(r)'
  BY DEF MissedInv
<1>1. pc = "model" /\ pc' = "idle" /\ owed_decode' = owed_decode
  BY DEF Update, cadenceVars
<1>2. /\ r \in Ended(acc, stops) => r \in Sampled
      /\ tokens'[r] = IF r \in Sampled THEN Least(tokens[r] + 1 + acc[r], Prompt[r] + MaxOut[r])
                      ELSE tokens[r]
      /\ computed'[r] = IF r \in Ended(acc, stops) THEN 0
                        ELSE IF r \in Sampled THEN computed[r] - (drafts[r] - acc[r])
                        ELSE computed[r]
      /\ missed'[r] = IF r \in Ended(acc, stops) THEN 0 ELSE missed[r]
      /\ status'[r] = IF r \in Ended(acc, stops) THEN "finished" ELSE status[r]
  <2>1. PICK e, x, l : e = Ended(acc, stops) /\ x = Sampled /\ l = Least(tokens[r] + 1 + acc[r], Prompt[r] + MaxOut[r])
    OBVIOUS
  <2> QED BY UpdateIs
<1>3. MissedAt(r) /\ missed[r] \in 0..2
  BY CoreParts, TypesAre DEF MissedInv
<1>4. CASE missed[r] = 0
  <2>1. missed'[r] = 0
    BY <1>2, <1>4
  <2> QED BY <1>3, <2>1, SameMissed
<1>5. CASE missed[r] # 0
  <2>1. counts[r] = 0
    <3> HIDE DEF IsPrefilling
    <3> QED BY <1>1, <1>3, <1>5 DEF MissedAt
  <2>2. r \notin Sampled
    BY <2>1 DEF Sampled, Served
  <2> HIDE DEF Sampled, Ended
  <2> QED BY <1>1, <1>2, <1>3, <2>2, SameMissed
<1> QED BY <1>4, <1>5

\* A request that is not running has no history.
LEMMA NoHistory ==
  ASSUME CoreInv, MissedInv, NEW r \in Request, status[r] # "running"
  PROVE  missed[r] = 0
<1>1. missed[r] \in 0..2
  BY CoreParts, TypesAre
<1>2. ~(missed[r] > 0)
  <2> HIDE DEF IsPrefilling
  <2> QED BY DEF MissedInv, MissedAt
<1> QED BY <1>1, <1>2

\* A step that only one request sees, one that loses its history or has none.
LEMMA OthersMissed ==
  ASSUME CoreInv, MissedInv, NEW r, owed_decode' = owed_decode, tokens' \in [Request -> Nat],
         r \in Request => missed'[r] = 0,
         \A x \in Request \ {r} : /\ status'[x] = status[x] /\ computed'[x] = computed[x]
                                  /\ tokens'[x] = tokens[x] /\ missed'[x] = missed[x],
         pc' = "model" => pc = "model" /\ counts' = counts
  PROVE  MissedInv'
<1> SUFFICES ASSUME NEW x \in Request
             PROVE  MissedAt(x)'
  BY DEF MissedInv
<1>1. MissedAt(x)
  BY DEF MissedInv
<1>2. CASE x = r
  BY <1>1, <1>2, SameMissed
<1>3. CASE x # r
  <2>1. IsPrefilling(x)' <=> IsPrefilling(x)
    BY <1>3 DEF IsPrefilling
  <2> HIDE DEF IsPrefilling
  <2> QED BY <1>1, <1>3, <2>1 DEF MissedAt
<1> QED BY <1>2, <1>3

\* A step that no request sees.
LEMMA NoneMissed ==
  ASSUME MissedInv, UNCHANGED <<status, computed, tokens, missed, owed_decode>>,
         pc' = "model" => pc = "model" /\ counts' = counts
  PROVE  MissedInv'
<1>1. \A x \in Request : IsPrefilling(x)' <=> IsPrefilling(x)
  BY DEF IsPrefilling
<1> HIDE DEF IsPrefilling
<1> QED BY <1>1 DEF MissedInv, MissedAt

LEMMA BeginMissed ==
  ASSUME CoreInv, MissedInv, Begin
  PROVE  MissedInv'
<1>1. /\ CadenceBegin(CadenceView) /\ pc' = "running"
      /\ UNCHANGED <<status, computed, tokens, running, missed>>
  BY DEF Begin, requestVars
<1>2. owed_decode' = owed_decode \cap RunningDecoders
  BY <1>1, OfferIs
<1>3. \A x \in Request : IsPrefilling(x)' <=> IsPrefilling(x)
  BY <1>1 DEF IsPrefilling
<1>4. ASSUME NEW x \in Request, status[x] = "running", ~IsPrefilling(x)
      PROVE  x \in RunningDecoders
  BY <1>4, CoreParts DEF QueueInv, RunningDecoders
<1> HIDE DEF IsPrefilling, RunningDecoders
<1> QED BY <1>1, <1>2, <1>3, <1>4 DEF MissedInv, MissedAt

LEMMA NextMissed ==
  ASSUME CoreInv, ServedInv, MissedInv, [Next]_vars
  PROVE  MissedInv'
<1>0. tokens' \in [Request -> Nat] /\ missed \in [Request -> 0..2]
      /\ computed \in [Request -> Nat] /\ tokens \in [Request -> Nat] /\ status \in [Request -> Status]
  <2>1. CoreInv'
    BY NextCore
  <2> QED BY <2>1, CoreParts, TypesAre DEF CoreInv, Typed, TypeOK
<1>1. ASSUME NEW r \in Request, Add(r) PROVE MissedInv'
  <2>1. /\ status[r] # "running" /\ pc' = "idle"
        /\ status' = [status EXCEPT ![r] = "waiting"]
        /\ computed' = [computed EXCEPT ![r] = 0] /\ tokens' = [tokens EXCEPT ![r] = Prompt[r]]
        /\ missed' = missed /\ owed_decode' = owed_decode
    BY <1>1 DEF Add, cadenceVars
  <2>2. missed'[r] = 0
    BY <2>1, NoHistory
  <2> QED BY <1>0, <2>1, <2>2, OthersMissed
<1>2. ASSUME NEW r \in Request, Abort(r) PROVE MissedInv'
  <2>1. /\ pc' = pc /\ counts' = counts
        /\ status' = [status EXCEPT ![r] = "aborted"]
        /\ computed' = [computed EXCEPT ![r] = 0] /\ tokens' = tokens
        /\ missed' = [missed EXCEPT ![r] = 0] /\ owed_decode' = owed_decode
    BY <1>2 DEF Abort, cadenceVars, stepVars
  <2> QED BY <1>0, <2>1, OthersMissed
<1>3. ASSUME Grant PROVE MissedInv'
  <2>1. UNCHANGED <<status, computed, tokens, missed, owed_decode, pc>> /\ pc = "running"
    BY <1>3 DEF Grant, cadenceVars, requestVars
  <2> QED BY <2>1, NoneMissed
<1>4. ASSUME RunSkip PROVE MissedInv'
  <2>1. UNCHANGED <<status, computed, tokens, missed, owed_decode, pc>> /\ pc = "running"
    BY <1>4 DEF RunSkip, AtRunning, cadenceVars, requestVars
  <2> QED BY <2>1, NoneMissed
<1>5. ASSUME RunServe PROVE MissedInv'
  <2>1. UNCHANGED <<status, computed, tokens, missed, owed_decode, pc>> /\ pc = "running"
    BY <1>5 DEF RunServe, AtRunning, cadenceVars
  <2> QED BY <2>1, NoneMissed
<1>6. ASSUME RunPreempt PROVE MissedInv'
  <2>1. PICK v : v = Last(running)
    OBVIOUS
  <2>2. /\ pc' # "model"
        /\ status' = [status EXCEPT ![v] = "preempted"]
        /\ computed' = [computed EXCEPT ![v] = 0] /\ tokens' = tokens
        /\ missed' = [missed EXCEPT ![v] = 0] /\ owed_decode' = owed_decode
    BY <1>6, <2>1 DEF RunPreempt, AtRunning, cadenceVars
  <2> QED BY <1>0, <2>2, OthersMissed
<1>7. ASSUME RunEnd PROVE MissedInv'
  <2>1. UNCHANGED <<status, computed, tokens, missed, owed_decode>> /\ pc' # "model"
    BY <1>7 DEF RunEnd, cadenceVars, requestVars
  <2> QED BY <2>1, NoneMissed
<1>8. ASSUME AdmitDefer PROVE MissedInv'
  <2>1. UNCHANGED <<status, computed, tokens, missed, owed_decode, pc>> /\ pc = "waiting"
    BY <1>8 DEF AdmitDefer, AtWaiting, cadenceVars
  <2> QED BY <2>1, NoneMissed
<1>9. ASSUME NEW hit, AdmitServe(hit) PROVE MissedInv'
  <2>1. PICK r : r = Waiter
    OBVIOUS
  <2>2. r \in Request /\ status[r] # "running"
    BY <1>9, <2>1, CoreParts, ServeQueues
  <2>3. /\ pc' # "model"
        /\ status' = [status EXCEPT ![r] = "running"]
        /\ computed' = [computed EXCEPT ![r] = hit] /\ tokens' = tokens
        /\ missed' = missed /\ owed_decode' = owed_decode
    BY <1>9, <2>1 DEF AdmitServe, AtWaiting, cadenceVars
  <2>4. missed'[r] = 0
    BY <2>2, <2>3, NoHistory
  <2> QED BY <1>0, <2>3, <2>4, OthersMissed
<1>10. ASSUME Requeue PROVE MissedInv'
  <2>1. UNCHANGED <<status, computed, tokens, missed, owed_decode>> /\ pc' # "model"
    BY <1>10 DEF Requeue, cadenceVars
  <2> QED BY <2>1, NoneMissed
<1>11. CASE UNCHANGED vars
  <2>1. UNCHANGED <<status, computed, tokens, missed, owed_decode, pc, counts>>
    BY <1>11 DEF vars, cadenceVars, requestVars, stepVars
  <2> QED BY <2>1, NoneMissed
<1>12. CASE Step
  BY <1>3, <1>4, <1>5, <1>6, <1>7, <1>8, <1>9, <1>10, <1>12, BeginMissed, SelectMissed,
     UpdateMissed DEF Step, AdmitFail, AdmitEnd
<1> QED BY <1>1, <1>2, <1>11, <1>12 DEF Next

LEMMA InitServed == Init => BudgetInv /\ ServedInv /\ MissedInv
<1> SUFFICES ASSUME Init PROVE BudgetInv /\ ServedInv /\ MissedInv
  OBVIOUS
<1>1. pc = "idle" /\ \A r \in Request : missed[r] = 0
  BY DEF Init, Zero
<1> QED BY <1>1 DEF BudgetInv, ServedInv, InStep, MissedInv, MissedAt

LEMMA ServedIsEnough ==
  ASSUME CoreInv, ServedInv, MissedInv
  PROVE  DecodersServed
<1>1. ASSUME pc = "select", phase # "prefill", NEW r \in decoder_ids \cap ToSet(running)
      PROVE  counts[r] = drafts[r] + 1 /\ drafts[r] \in {0, RoomForDrafts(r)}
  <2>1. FullQuery(r)
    <3> HIDE DEF FullQuery
    <3> QED BY <1>1 DEF ServedInv, InStep
  <2> QED BY <2>1 DEF FullQuery
<1>2. ASSUME NEW r \in Request PROVE missed[r] <= 1
  <2>1. missed[r] \in 0..2
    BY CoreParts, TypesAre
  <2>2. missed[r] > 0 => missed[r] = 1
    <3> HIDE DEF IsPrefilling
    <3> QED BY DEF MissedInv, MissedAt
  <2> QED BY <2>1, <2>2
<1> QED BY <1>1, <1>2 DEF DecodersServed

\* Every step but a prefill-only turn gives each decoder it found its last token
\* and all the drafts the context has room for, so no decoder is left out of two steps in a row: the
\* reserve of the fair planner, the grants and the budgets of schedule() agree,
\* however the running list is ordered and whoever is preempted.
THEOREM DecodersAreServed == Spec => []DecodersServed
<1>1. Init => CoreInv /\ HeldInv /\ BudgetInv /\ ServedInv /\ MissedInv
  <2>1. Init => HeldInv
    BY DEF Init, HeldInv, ShareInv, WithinGrants, OfferInv, InStep
  <2> QED BY <2>1, InitCore, InitServed
<1>2. CoreInv /\ HeldInv /\ BudgetInv /\ ServedInv /\ MissedInv /\ [Next]_vars
        => CoreInv' /\ HeldInv' /\ BudgetInv' /\ ServedInv' /\ MissedInv'
  BY NextCore, NextHeld, NextBudget, NextServed, NextMissed
<1>3. CoreInv /\ HeldInv /\ BudgetInv /\ ServedInv /\ MissedInv => DecodersServed
  BY ServedIsEnough
<1> QED BY <1>1, <1>2, <1>3, PTL DEF Spec
=============================================================================
