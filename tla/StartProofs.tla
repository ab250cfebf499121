---------------------------- MODULE StartProofs -----------------------------
(***************************************************************************)
(* Why the votes of a construction make it collective, for any stages: a   *)
(* rank that has the runtime has read every stage's contributions without  *)
(* an error and without a difference of settings, and a rank that gave up  *)
(* leaves one of these behind for ever.                                    *)
(***************************************************************************)
EXTENDS CollectiveStart, TLAPS

Contribution == [stage : 1..LastStage, error : BOOLEAN, setting : {"a", "b"}]

StartTypeOK ==
  /\ setting \in [Rank -> {"a", "b"}]
  /\ stage \in [Rank -> 1..LastStage]
  /\ votes \in [Rank -> Seq(Contribution)]
  /\ held \in [Rank -> {"none", "region", "started"}]
  /\ outcome \in [Rank -> {"building", "raised", "ready", "none"}]

\* What a rank contributes says what its settings are.
TrueSettings ==
  \A q \in Rank : \A i \in 1..Len(votes[q]) : votes[q][i].setting = setting[q]

AllAlike == \A p, q \in Rank : setting[p] = setting[q]

\* Every rank has contributed to the first n stages, nobody an error, and
\* differing settings have not gone past the comparison.
Passed(n) ==
  /\ \A q \in Rank : n <= Len(votes[q]) /\ \A i \in 1..n : ~votes[q][i].error
  /\ RaisesAtOnce /\ CompareStage <= n => AllAlike

\* Something for ever stands in the way of the runtime.
Spoiled ==
  \/ \E q \in Rank : \E i \in 1..Len(votes[q]) : i <= LastStage /\ votes[q][i].error
  \/ RaisesAtOnce /\ ~AllAlike

\* A rank that builds contributes stage by stage, and has passed those before.
BuildingInv(r) ==
  outcome[r] = "building" =>
    /\ Len(votes[r]) \in {stage[r] - 1, stage[r]}
    /\ \A i \in 1..Len(votes[r]) : votes[r][i].stage = i
    /\ Passed(stage[r] - 1)

ReadyInv(r) == outcome[r] = "ready" => Passed(LastStage)

\* A rank that gave up cannot have been wrong, and one that raised brings its
\* error to the last vote.
GivenUpInv(r) ==
  /\ outcome[r] \in {"raised", "none"} => Spoiled /\ held[r] = "none"
  /\ outcome[r] = "raised" =>
       /\ stage[r] = LastStage
       /\ Waiting(r) => votes[r][Len(votes[r])].error

\* What a rank holds while it builds and when it is ready.
HeldInv(r) ==
  outcome[r] \in {"building", "ready"} =>
    /\ ConnectStage <= Len(votes[r]) /\ ~votes[r][ConnectStage].error => held[r] = "started"
    /\ outcome[r] = "building" /\ stage[r] < AllocStage => held[r] = "none"

RankInv(r) == BuildingInv(r) /\ ReadyInv(r) /\ GivenUpInv(r) /\ HeldInv(r)

StartInv ==
  /\ StartTypeOK
  /\ TrueSettings
  /\ \A r \in Rank : RankInv(r)

\* The runtime exists on all ranks or on none, and its proxies run everywhere
\* before anybody uses it; who gave it up holds nothing.
Agreed ==
  \A r \in Rank :
    /\ outcome[r] = "ready" =>
         \A q \in Rank : outcome[q] \notin {"raised", "none"} /\ held[q] = "started"
    /\ outcome[r] = "none" => held[r] = "none"

-----------------------------------------------------------------------------
\* Stages are numbered from one to the last.
LEMMA StageNumbers ==
  /\ LastStage \in Nat
  /\ AllocStage \in 1..LastStage
  /\ CompareStage \in AllocStage..LastStage
  /\ ConnectStage \in 1..LastStage /\ AllocStage < ConnectStage
  /\ \A s \in Caught : s \in 1..LastStage /\ s < LastStage
<1>1. LastStage \in Nat
  BY StageAssumption DEF LastStage
<1> QED BY <1>1, StageAssumption DEF LastStage

\* Nothing has been contributed and nothing is held.
LEMMA StartStarts == StartInit => StartInv
<1> SUFFICES ASSUME StartInit PROVE StartInv
  OBVIOUS
<1>1. /\ setting \in [Rank -> {"a", "b"}]
      /\ stage = [r \in Rank |-> 1]
      /\ votes = [r \in Rank |-> <<>>]
      /\ held = [r \in Rank |-> "none"]
      /\ outcome = [r \in Rank |-> "building"]
  BY DEF StartInit
<1>2. StartTypeOK
  BY <1>1, StageNumbers DEF StartTypeOK
<1>3. TrueSettings
  BY <1>1 DEF TrueSettings
<1>4. Passed(0)
  BY <1>1, StageNumbers DEF Passed
<1>5. ASSUME NEW r \in Rank PROVE RankInv(r)
  BY <1>1, <1>4, StageNumbers DEF RankInv, BuildingInv, ReadyInv, GivenUpInv, HeldInv
<1> QED BY <1>2, <1>3, <1>5 DEF StartInv

-----------------------------------------------------------------------------
\* A contribution goes to the end; the earlier ones stay.
LEMMA Contributed ==
  ASSUME StartTypeOK, NEW r \in Rank, NEW v \in Contribution,
         votes' = [votes EXCEPT ![r] = Append(@, v)]
  PROVE  /\ votes' \in [Rank -> Seq(Contribution)]
         /\ \A q \in Rank : q # r => votes'[q] = votes[q]
         /\ Len(votes'[r]) = Len(votes[r]) + 1
         /\ votes'[r][Len(votes[r]) + 1] = v
         /\ \A i \in 1..Len(votes[r]) : votes'[r][i] = votes[r][i]
  BY DEF StartTypeOK

\* What all have passed stays passed, and what spoils the runtime stays.
LEMMA PassedStays ==
  ASSUME StartTypeOK, NEW r \in Rank, NEW v \in Contribution, UNCHANGED setting,
         votes' = [votes EXCEPT ![r] = Append(@, v)]
  PROVE  /\ \A n \in Nat : Passed(n) => Passed(n)'
         /\ Spoiled => Spoiled'
<1>1. /\ \A q \in Rank : q # r => votes'[q] = votes[q]
      /\ Len(votes'[r]) = Len(votes[r]) + 1
      /\ \A i \in 1..Len(votes[r]) : votes'[r][i] = votes[r][i]
      /\ \A q \in Rank : Len(votes[q]) \in Nat
  BY Contributed DEF StartTypeOK
<1>2. \A q \in Rank : \A i \in 1..Len(votes[q]) :
         i \in 1..Len(votes'[q]) /\ votes'[q][i] = votes[q][i]
  BY <1>1
<1>3. AllAlike' = AllAlike
  BY DEF AllAlike
<1>4. ASSUME NEW n \in Nat, Passed(n) PROVE Passed(n)'
  BY <1>1, <1>2, <1>3, <1>4 DEF Passed
<1>5. Spoiled => Spoiled'
  BY <1>2, <1>3 DEF Spoiled
<1> QED BY <1>4, <1>5

\* Work brings the contribution of the rank's stage.
LEMMA WorkKeeps ==
  ASSUME StartInv, NEW r \in Rank, Work(r) PROVE StartInv'
<1> DEFINE Ballot(error) == [stage |-> stage[r], error |-> error, setting |-> setting[r]]
<1>1. PICK error \in Errors(r) :
        /\ votes' = [votes EXCEPT ![r] = Append(@, Ballot(error))]
        /\ IF outcome[r] = "raised" THEN UNCHANGED held
           ELSE \E h \in Holds(r, error) : held' = [held EXCEPT ![r] = h]
  BY DEF Work
<1>2. StartTypeOK /\ TrueSettings /\ \A q \in Rank : RankInv(q)
  BY DEF StartInv
<1>3. error \in BOOLEAN /\ (outcome[r] = "raised" => error)
  BY DEF Errors
<1>4. Ballot(error) \in Contribution
  BY <1>2, <1>3 DEF StartTypeOK, Contribution
<1>5. UNCHANGED <<setting, stage, outcome>> /\ outcome[r] \in {"building", "raised"} /\ ~Waiting(r)
  BY DEF Work
<1> HIDE DEF Ballot
<1>6. /\ votes' \in [Rank -> Seq(Contribution)]
      /\ \A q \in Rank : q # r => votes'[q] = votes[q]
      /\ Len(votes'[r]) = Len(votes[r]) + 1
      /\ votes'[r][Len(votes[r]) + 1] = Ballot(error)
      /\ \A i \in 1..Len(votes[r]) : votes'[r][i] = votes[r][i]
  BY <1>1, <1>2, <1>4, Contributed
<1>7. /\ \A n \in Nat : Passed(n) => Passed(n)'
      /\ Spoiled => Spoiled'
  BY <1>1, <1>2, <1>4, <1>5, PassedStays
<1>8. Ballot(error).stage = stage[r] /\ Ballot(error).error = error
      /\ Ballot(error).setting = setting[r]
  BY DEF Ballot
<1>9. /\ held' \in [Rank -> {"none", "region", "started"}]
      /\ \A q \in Rank : q # r => held'[q] = held[q]
      /\ outcome[r] = "raised" => held'[r] = held[r]
      /\ outcome[r] = "building" /\ stage[r] = ConnectStage /\ ~error => held'[r] = "started"
      /\ outcome[r] = "building" /\ stage[r] \notin {AllocStage, ConnectStage} => held'[r] = held[r]
  <2>1. held \in [Rank -> {"none", "region", "started"}]
    BY <1>2 DEF StartTypeOK
  <2>2. CASE outcome[r] = "raised"
    BY <1>1, <2>1, <2>2
  <2>3. CASE outcome[r] # "raised"
    <3>1. PICK h \in Holds(r, error) : held' = [held EXCEPT ![r] = h]
      BY <1>1, <2>3
    <3>2. h \in {"none", "region", "started"}
      BY <2>1 DEF Holds
    <3>3. stage[r] = ConnectStage /\ ~error => h = "started"
      BY StageNumbers DEF Holds
    <3>4. stage[r] \notin {AllocStage, ConnectStage} => h = held[r]
      BY DEF Holds
    <3> QED BY <2>1, <2>3, <3>1, <3>2, <3>3, <3>4
  <2> QED BY <2>2, <2>3
<1>10. stage \in [Rank -> 1..LastStage] /\ (\A q \in Rank : Len(votes[q]) \in Nat) /\ LastStage \in Nat
  BY <1>2, StageNumbers DEF StartTypeOK
<1>11. StartTypeOK'
  BY <1>2, <1>5, <1>6, <1>9 DEF StartTypeOK
<1>12. TrueSettings'
  <2>1. ASSUME NEW q \in Rank, NEW i \in 1..Len(votes'[q])
        PROVE  votes'[q][i].setting = setting'[q]
    <3>1. CASE q = r /\ i = Len(votes[r]) + 1
      BY <1>5, <1>6, <1>8, <3>1
    <3>2. CASE q # r \/ i # Len(votes[r]) + 1
      <4>1. i \in 1..Len(votes[q]) /\ votes'[q][i] = votes[q][i]
        BY <1>6, <1>10, <2>1, <3>2
      <4> QED BY <1>2, <1>5, <4>1 DEF TrueSettings
    <3> QED BY <3>1, <3>2
  <2> QED BY <2>1 DEF TrueSettings
<1>13. ASSUME NEW q \in Rank, q # r PROVE RankInv(q)'
  <2>1. RankInv(q)
    BY <1>2
  <2>2. /\ votes'[q] = votes[q] /\ stage'[q] = stage[q] /\ outcome'[q] = outcome[q]
        /\ held'[q] = held[q]
    BY <1>5, <1>6, <1>9, <1>13
  <2>3. stage[q] - 1 \in Nat
    BY <1>10
  <2> QED BY <2>1, <2>2, <2>3, <1>7, <1>10 DEF RankInv, BuildingInv, ReadyInv, GivenUpInv, HeldInv, Waiting
<1>14. RankInv(r)'
  <2>1. RankInv(r)
    BY <1>2
  <2>2. CASE outcome[r] = "raised"
    BY <2>1, <2>2, <1>3, <1>5, <1>6, <1>7, <1>8, <1>9, <1>10
    DEF RankInv, BuildingInv, ReadyInv, GivenUpInv, HeldInv, Waiting
  <2>3. CASE outcome[r] = "building"
    <3>1. Len(votes[r]) = stage[r] - 1
      BY <2>1, <2>3, <1>5, <1>10, StageNumbers DEF RankInv, BuildingInv, Waiting
    <3>2. BuildingInv(r)'
      BY <3>1, <2>1, <2>3, <1>5, <1>6, <1>7, <1>8, <1>10 DEF RankInv, BuildingInv
    <3>3. HeldInv(r)'
      BY <3>1, <2>1, <2>3, <1>5, <1>6, <1>8, <1>9, <1>10, StageNumbers DEF RankInv, HeldInv
    <3> QED BY <3>2, <3>3, <2>3, <1>5 DEF RankInv, ReadyInv, GivenUpInv
  <2> QED BY <1>5, <2>2, <2>3
<1> QED BY <1>11, <1>12, <1>13, <1>14 DEF StartInv

-----------------------------------------------------------------------------
\* A vote that nobody spoils lets everybody past its stage.
LEMMA VotePassed ==
  ASSUME StartInv, NEW r \in Rank, outcome[r] = "building", Waiting(r), ~Bad(r),
         \A q \in Rank : Len(votes[q]) >= Len(votes[r])
  PROVE  Len(votes[r]) = stage[r] /\ Passed(stage[r])
<1>1. /\ stage[r] \in 1..LastStage /\ LastStage \in Nat
      /\ \A q \in Rank : votes[q] \in Seq(Contribution) /\ Len(votes[q]) \in Nat
  BY StageNumbers DEF StartInv, StartTypeOK
<1>2. BuildingInv(r) /\ TrueSettings
  BY DEF StartInv, RankInv
<1>3. Len(votes[r]) = stage[r]
  BY <1>1, <1>2 DEF BuildingInv, Waiting
<1>4. \A q \in Rank : stage[r] <= Len(votes[q]) /\ ~votes[q][stage[r]].error
  BY <1>1, <1>3 DEF Bad, Gathered
<1>5. stage[r] = CompareStage /\ RaisesAtOnce => AllAlike
  <2>1. ASSUME NEW q \in Rank PROVE votes[q][stage[r]].setting = setting[q]
    <3>1. stage[r] \in 1..Len(votes[q])
      BY <1>1, <1>4
    <3> QED BY <1>2, <3>1 DEF TrueSettings
  <2>2. stage[r] = CompareStage /\ RaisesAtOnce => \A q \in Rank : setting[q] = setting[r]
    BY <1>3, <2>1 DEF Bad, Gathered
  <2> QED BY <2>2 DEF AllAlike
<1>6. Passed(stage[r] - 1)
  BY <1>2 DEF BuildingInv
<1>7. \A q \in Rank : \A i \in 1..stage[r] : ~votes[q][i].error
  <2>1. \A q \in Rank : \A i \in 1..(stage[r] - 1) : ~votes[q][i].error
    BY <1>6 DEF Passed
  <2> QED BY <1>1, <1>4, <2>1
<1>8. RaisesAtOnce /\ CompareStage <= stage[r] => AllAlike
  BY <1>1, <1>5, <1>6, StageNumbers DEF Passed
<1> QED BY <1>3, <1>4, <1>7, <1>8 DEF Passed

\* A rank gives up for something that stays.
LEMMA VoteSpoiled ==
  ASSUME StartInv, NEW r \in Rank, outcome[r] \in {"building", "raised"}, Waiting(r), Bad(r),
         \A q \in Rank : Len(votes[q]) >= Len(votes[r])
  PROVE  Spoiled
<1>1. CASE outcome[r] = "raised"
  BY <1>1 DEF StartInv, RankInv, GivenUpInv
<1>2. CASE outcome[r] = "building"
  <2>1. /\ stage[r] \in 1..LastStage /\ LastStage \in Nat
        /\ \A q \in Rank : Len(votes[q]) \in Nat
    BY StageNumbers DEF StartInv, StartTypeOK
  <2>2. BuildingInv(r) /\ TrueSettings
    BY DEF StartInv, RankInv
  <2>3. Len(votes[r]) = stage[r]
    BY <1>2, <2>1, <2>2 DEF BuildingInv, Waiting
  <2>4. ASSUME NEW q \in Rank
        PROVE  stage[r] \in 1..Len(votes[q]) /\ Gathered(r)[q] = votes[q][stage[r]]
    <3>1. Len(votes[q]) >= stage[r]
      BY <2>3
    <3>2. Gathered(r)[q] = votes[q][stage[r]]
      BY <2>3 DEF Gathered
    <3> QED BY <2>1, <3>1, <3>2
  <2>5. CASE \E q \in Rank : Gathered(r)[q].error
    BY <2>1, <2>4, <2>5 DEF Spoiled
  <2>6. CASE RaisesAtOnce /\ \E q \in Rank : Gathered(r)[q].setting # setting[r]
    BY <2>2, <2>4, <2>6 DEF Spoiled, TrueSettings, AllAlike
  <2> QED BY <2>5, <2>6 DEF Bad
<1> QED BY <1>1, <1>2

\* What is decided about one rank moves no contribution.
LEMMA OthersStay ==
  ASSUME StartInv, NEW r \in Rank, NEW q \in Rank, UNCHANGED <<setting, votes>>,
         outcome'[q] = outcome[q], stage'[q] = stage[q], held'[q] = held[q]
  PROVE  RankInv(q)'
<1>1. RankInv(q)
  BY DEF StartInv
<1>2. (\A n : Passed(n)' = Passed(n)) /\ Spoiled' = Spoiled
  BY DEF Passed, Spoiled, AllAlike
<1> QED BY <1>1, <1>2 DEF RankInv, BuildingInv, ReadyInv, GivenUpInv, HeldInv, Waiting

\* A vote with an error or a difference ends the construction of its reader.
LEMMA GiveUpKeeps ==
  ASSUME StartInv, NEW r \in Rank, Decide(r), Bad(r) PROVE StartInv'
<1>1. /\ outcome[r] \in {"building", "raised"} /\ Waiting(r)
      /\ \A q \in Rank : Len(votes[q]) >= Len(votes[r])
      /\ UNCHANGED <<setting, votes>>
      /\ held' = [held EXCEPT ![r] = IF Close(r) THEN "none" ELSE @]
      /\ IF stage[r] \in Caught
         THEN /\ outcome' = [outcome EXCEPT ![r] = "raised"]
              /\ stage' = [stage EXCEPT ![r] = LastStage]
         ELSE outcome' = [outcome EXCEPT ![r] = "none"] /\ UNCHANGED stage
  BY DEF Decide
<1>2. StartTypeOK /\ TrueSettings /\ RankInv(r) /\ LastStage \in Nat
  BY StageNumbers DEF StartInv
<1>3. Spoiled /\ Spoiled'
  <2>1. Spoiled
    BY <1>1, VoteSpoiled
  <2>2. UNCHANGED <<setting, votes>>
    BY <1>1
  <2> QED BY <2>1, <2>2 DEF Spoiled, AllAlike
<1>4. StartTypeOK'
  <2>1. stage' \in [Rank -> 1..LastStage]
    <3>1. stage \in [Rank -> 1..LastStage] /\ LastStage \in 1..LastStage
      BY <1>2, StageNumbers DEF StartTypeOK
    <3>2. stage' = [stage EXCEPT ![r] = LastStage] \/ stage' = stage
      BY <1>1
    <3> QED BY <3>1, <3>2
  <2>2. outcome' \in [Rank -> {"building", "raised", "ready", "none"}]
    BY <1>1, <1>2 DEF StartTypeOK
  <2>3. held' \in [Rank -> {"none", "region", "started"}]
    BY <1>1, <1>2 DEF StartTypeOK
  <2> QED BY <1>1, <1>2, <2>1, <2>2, <2>3 DEF StartTypeOK
<1>5. TrueSettings'
  BY <1>1, <1>2 DEF TrueSettings
<1>6. ASSUME NEW q \in Rank, q # r PROVE RankInv(q)'
  <2>1. outcome'[q] = outcome[q] /\ stage'[q] = stage[q] /\ held'[q] = held[q]
    BY <1>1, <1>2, <1>6 DEF StartTypeOK
  <2> QED BY <2>1, <1>1, OthersStay
<1>7. held'[r] = "none"
  <2>1. CASE Close(r)
    BY <1>1, <1>2, <2>1 DEF StartTypeOK
  <2>2. CASE ~Close(r)
    <3>1. held'[r] = held[r]
      BY <1>1, <1>2, <2>2 DEF StartTypeOK
    <3>2. outcome[r] = "raised" \/ (outcome[r] = "building" /\ stage[r] < AllocStage)
      BY <1>1, <1>2, <2>2, StageNumbers DEF Close, StartTypeOK
    <3> QED BY <3>1, <3>2, <1>2 DEF RankInv, GivenUpInv, HeldInv
  <2> QED BY <2>1, <2>2
<1>8. RankInv(r)'
  <2>1. CASE stage[r] \in Caught
    <3>1. outcome'[r] = "raised" /\ stage'[r] = LastStage
      BY <1>1, <1>2, <2>1 DEF StartTypeOK
    <3>2. outcome[r] = "building"
      BY <1>1, <1>2, <2>1, StageNumbers DEF RankInv, GivenUpInv
    <3>3. votes[r] # <<>> /\ votes[r][Len(votes[r])].stage = stage[r] /\ stage[r] < LastStage
          /\ stage[r] \in 1..LastStage
      BY <1>1, <1>2, <2>1, StageNumbers DEF Waiting, StartTypeOK
    <3>4. ~Waiting(r)'
      BY <1>1, <1>2, <3>1, <3>3 DEF Waiting
    <3> QED BY <3>1, <3>4, <1>3, <1>7 DEF RankInv, BuildingInv, ReadyInv, GivenUpInv, HeldInv
  <2>2. CASE stage[r] \notin Caught
    <3>1. outcome'[r] = "none"
      BY <1>1, <1>2, <2>2 DEF StartTypeOK
    <3> QED BY <3>1, <1>3, <1>7 DEF RankInv, BuildingInv, ReadyInv, GivenUpInv, HeldInv
  <2> QED BY <2>1, <2>2
<1> QED BY <1>4, <1>5, <1>6, <1>8 DEF StartInv

\* A good vote leads to the next stage, or to the runtime.
LEMMA GoOnKeeps ==
  ASSUME StartInv, NEW r \in Rank, Decide(r), ~Bad(r) PROVE StartInv'
<1>1. /\ outcome[r] \in {"building", "raised"} /\ Waiting(r)
      /\ \A q \in Rank : Len(votes[q]) >= Len(votes[r])
      /\ UNCHANGED <<setting, votes, held>>
      /\ IF stage[r] = LastStage
         THEN outcome' = [outcome EXCEPT ![r] = "ready"] /\ UNCHANGED stage
         ELSE stage' = [stage EXCEPT ![r] = @ + 1] /\ UNCHANGED outcome
  BY DEF Decide
<1>2. StartTypeOK /\ TrueSettings /\ RankInv(r) /\ LastStage \in Nat
  BY StageNumbers DEF StartInv
<1>3. outcome[r] = "building"
  <2>1. ASSUME outcome[r] = "raised" PROVE FALSE
    <3>1. votes[r][Len(votes[r])].error
      BY <1>1, <1>2, <2>1 DEF RankInv, GivenUpInv
    <3>2. Gathered(r)[r].error
      BY <3>1 DEF Gathered
    <3> QED BY <3>2 DEF Bad
  <2> QED BY <1>1, <2>1
<1>4. Len(votes[r]) = stage[r] /\ Passed(stage[r])
  BY <1>1, <1>3, VotePassed
<1>5. \A n : Passed(n)' = Passed(n)
  <2>1. UNCHANGED <<setting, votes>>
    BY <1>1
  <2> QED BY <2>1 DEF Passed, AllAlike
<1>6. StartTypeOK' /\ TrueSettings'
  <2>1. stage' \in [Rank -> 1..LastStage]
    <3>1. stage \in [Rank -> 1..LastStage]
      BY <1>2 DEF StartTypeOK
    <3>2. stage' = stage \/ (stage[r] # LastStage /\ stage' = [stage EXCEPT ![r] = stage[r] + 1])
      BY <1>1
    <3>3. stage[r] # LastStage => stage[r] + 1 \in 1..LastStage
      BY <1>2, <3>1
    <3> QED BY <3>1, <3>2, <3>3
  <2>2. outcome' \in [Rank -> {"building", "raised", "ready", "none"}]
    BY <1>1, <1>2 DEF StartTypeOK
  <2> QED BY <1>1, <1>2, <2>1, <2>2 DEF StartTypeOK, TrueSettings
<1>7. ASSUME NEW q \in Rank, q # r PROVE RankInv(q)'
  <2>1. outcome'[q] = outcome[q] /\ stage'[q] = stage[q] /\ held'[q] = held[q]
    BY <1>1, <1>2, <1>7 DEF StartTypeOK
  <2> QED BY <2>1, <1>1, OthersStay
<1>8. RankInv(r)'
  <2>1. CASE stage[r] = LastStage
    <3>1. outcome'[r] = "ready" /\ UNCHANGED <<held, votes>>
      BY <1>1, <1>2, <2>1 DEF StartTypeOK
    <3> QED BY <3>1, <2>1, <1>2, <1>3, <1>4, <1>5
        DEF RankInv, BuildingInv, ReadyInv, GivenUpInv, HeldInv
  <2>2. CASE stage[r] # LastStage
    <3>1. stage'[r] = stage[r] + 1 /\ UNCHANGED <<held, votes, outcome>> /\ stage[r] \in 1..LastStage
      BY <1>1, <1>2, <2>2 DEF StartTypeOK
    <3>2. BuildingInv(r)'
      BY <3>1, <1>2, <1>3, <1>4, <1>5 DEF RankInv, BuildingInv
    <3>3. HeldInv(r)'
      BY <3>1, <1>2, <1>3, StageNumbers DEF RankInv, HeldInv
    <3> QED BY <3>1, <3>2, <3>3, <1>3 DEF RankInv, ReadyInv, GivenUpInv
  <2> QED BY <2>1, <2>2
<1> QED BY <1>6, <1>7, <1>8 DEF StartInv

-----------------------------------------------------------------------------
\* Every step of the construction keeps the invariant.
LEMMA StartKept ==
  ASSUME StartInv, NEW r \in Rank, Work(r) \/ Decide(r) PROVE StartInv'
  BY WorkKeeps, GiveUpKeeps, GoOnKeeps

\* Nothing else moves it.
LEMMA StartIdle ==
  ASSUME StartInv, UNCHANGED startVars PROVE StartInv'
<1>1. UNCHANGED <<setting, votes>> /\ UNCHANGED <<stage, held, outcome>>
  BY DEF startVars
<1>2. StartTypeOK' /\ TrueSettings'
  BY <1>1 DEF StartInv, StartTypeOK, TrueSettings
<1>3. ASSUME NEW q \in Rank PROVE RankInv(q)'
  BY <1>1, OthersStay
<1> QED BY <1>2, <1>3 DEF StartInv

\* What one rank has passed for good nobody can have been spoilt by, so nobody
\* else has given up, and all have connected.
LEMMA StartAgrees == StartInv => Agreed
<1> SUFFICES ASSUME StartInv, NEW r \in Rank
             PROVE /\ outcome[r] = "ready" =>
                        \A q \in Rank : outcome[q] \notin {"raised", "none"} /\ held[q] = "started"
                   /\ outcome[r] = "none" => held[r] = "none"
  BY DEF Agreed
<1>1. outcome[r] = "none" => held[r] = "none"
  BY DEF StartInv, RankInv, GivenUpInv
<1>2. ASSUME outcome[r] = "ready", NEW q \in Rank
      PROVE outcome[q] \notin {"raised", "none"} /\ held[q] = "started"
  <2>1. Passed(LastStage) /\ LastStage \in Nat /\ \A p \in Rank : Len(votes[p]) \in Nat
    BY <1>2, StageNumbers DEF StartInv, RankInv, ReadyInv, StartTypeOK
  <2>2. ~Spoiled
    BY <2>1, StageNumbers DEF Passed, Spoiled
  <2>3. outcome[q] \notin {"raised", "none"}
    BY <2>2 DEF StartInv, RankInv, GivenUpInv
  <2>4. outcome[q] \in {"building", "ready"}
    BY <2>3 DEF StartInv, StartTypeOK
  <2>5. ConnectStage <= Len(votes[q]) /\ ~votes[q][ConnectStage].error
    BY <2>1, StageNumbers DEF Passed
  <2> QED BY <2>3, <2>4, <2>5 DEF StartInv, RankInv, HeldInv
<1> QED BY <1>1, <1>2
=============================================================================
