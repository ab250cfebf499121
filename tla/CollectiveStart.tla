-------------------------- MODULE CollectiveStart ---------------------------
(***************************************************************************)
(* The collective construction of an RDMA runtime.  Each stage is local    *)
(* work that may fail on any rank, then a vote: all_gather_object of the   *)
(* error, which every rank reads whole.  A rank that sees an error gives   *)
(* the runtime up and releases what it holds.                              *)
(*                                                                         *)
(* all_gather_object pairs the n-th contribution of each rank whatever it  *)
(* was meant for, so a rank's contributions are a sequence.                *)
(***************************************************************************)
EXTENDS Sequences, World

CONSTANTS
  Stages,       \* names of the stages, in order
  AllocStage,   \* allocates and registers memory
  CompareStage, \* gathers the ranks' settings, without a vote
  ConnectStage, \* connects the queue pairs and starts the proxies
  RaisesAtOnce, \* a difference of settings raises at CompareStage (lean) or
                \* becomes the error of ConnectStage (ring)
  Caught        \* stages of a constructor whose exception the caller takes to
                \* the last vote (_glm53_tp4_lean_setup); elsewhere it ends the
                \* construction

ASSUME StageAssumption ==
  /\ Stages \in Seq(STRING)
  /\ AllocStage \in 1..Len(Stages)
  /\ CompareStage \in AllocStage..Len(Stages)
  /\ ConnectStage \in CompareStage..Len(Stages) /\ ConnectStage # AllocStage
  /\ RaisesAtOnce \in BOOLEAN
  /\ Caught \subseteq 1..(Len(Stages) - 1)

VARIABLES
  fragile,      \* whether local work may fail in this behaviour
  setting,      \* geometry settings of each rank's environment
  stage,        \* the stage each rank is at
  votes,        \* what each rank has contributed, in order
  held,         \* "none", "region" or "started"
  outcome       \* "building", "raised", "ready" or "none"

startVars == <<fragile, setting, stage, votes, held, outcome>>

LastStage == Len(Stages)

StartInit ==
  /\ fragile \in BOOLEAN
  /\ setting \in {s \in [Rank -> {"a", "b"}] : fragile \/ \A r \in Rank : s[r] = "a"}
  /\ stage = [r \in Rank |-> 1]
  /\ votes = [r \in Rank |-> <<>>]
  /\ held = [r \in Rank |-> "none"]
  /\ outcome = [r \in Rank |-> "building"]

Waiting(r) == votes[r] # <<>> /\ votes[r][Len(votes[r])].stage = stage[r]

Differs(r) == \E q \in Rank : setting[q] # setting[r]

\* What the local work of the current stage may leave r with: work that fails
\* may have been half done.
Holds(r, error) ==
  LET done == IF stage[r] = AllocStage THEN "region"
              ELSE IF stage[r] = ConnectStage THEN "started" ELSE held[r]
  IN IF error THEN {held[r], done} ELSE {done}

\* Errors a rank may bring to the vote of its stage.  A gather without a vote
\* brings none.
Errors(r) ==
  IF outcome[r] = "raised" THEN {TRUE}
  ELSE IF stage[r] = CompareStage THEN {FALSE}
  ELSE IF stage[r] = ConnectStage /\ ~RaisesAtOnce /\ Differs(r) THEN {TRUE}
  ELSE IF fragile THEN BOOLEAN ELSE {FALSE}

\* Local work of the stage, then the contribution.
Work(r) ==
  /\ outcome[r] \in {"building", "raised"}
  /\ ~Waiting(r)
  /\ \E error \in Errors(r) :
       /\ votes' = [votes EXCEPT ![r] =
                      Append(@, [stage |-> stage[r], error |-> error, setting |-> setting[r]])]
       /\ IF outcome[r] = "raised" THEN UNCHANGED held
          ELSE \E h \in Holds(r, error) : held' = [held EXCEPT ![r] = h]
  /\ UNCHANGED <<fragile, setting, stage, outcome>>

\* The contributions paired with r's latest.
Gathered(r) == [q \in Rank |-> votes[q][Len(votes[r])]]

\* Mutants of Bad: a rank minds its own error only; errors while connecting are
\* not voted.
BadOwn(r) == Gathered(r)[r].error
BadButConnect(r) ==
  stage[r] # ConnectStage /\ \E q \in Rank : Gathered(r)[q].error

\* They tell rank r to give up: somebody's error, or at the comparison a
\* difference from its own settings.
Bad(r) ==
  \/ \E q \in Rank : Gathered(r)[q].error
  \/ /\ stage[r] = CompareStage
     /\ RaisesAtOnce
     /\ \E q \in Rank : Gathered(r)[q].setting # setting[r]

\* The constructor that raises has closed itself; at the last vote the caller
\* closes the runtime it got.  A rank that got none has nothing to close.
Close(r) == outcome[r] = "building" /\ stage[r] >= AllocStage

\* All ranks have contributed as often as r: it reads the vote.
Decide(r) ==
  /\ outcome[r] \in {"building", "raised"}
  /\ Waiting(r)
  /\ \A q \in Rank : Len(votes[q]) >= Len(votes[r])
  /\ IF Bad(r)
     THEN /\ held' = [held EXCEPT ![r] = IF Close(r) THEN "none" ELSE @]
          /\ IF stage[r] \in Caught
             THEN /\ outcome' = [outcome EXCEPT ![r] = "raised"]
                  /\ stage' = [stage EXCEPT ![r] = LastStage]
             ELSE outcome' = [outcome EXCEPT ![r] = "none"] /\ UNCHANGED stage
     ELSE /\ IF stage[r] = LastStage
             THEN outcome' = [outcome EXCEPT ![r] = "ready"] /\ UNCHANGED stage
             ELSE stage' = [stage EXCEPT ![r] = @ + 1] /\ UNCHANGED outcome
          /\ UNCHANGED held
  /\ UNCHANGED <<fragile, setting, votes>>

StartNext == \E r \in Rank : Work(r) \/ Decide(r)
=============================================================================
