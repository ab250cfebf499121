---------------------------- MODULE ServerProofs ----------------------------
(***************************************************************************)
(* The Responses server implements Verdicts: for any number of responses   *)
(* and readers, outcomes are decided once and announced truly.  And the    *)
(* items of a stream: whatever is generated and however it is merged into  *)
(* deltas, they hold all of it and are told as they are kept.              *)
(***************************************************************************)
EXTENDS MCResponses, FiniteSetTheorems, SequenceTheorems, WellFoundedInduction, TLAPS

\* What a response's task may be doing given how it was asked for, and what
\* the store says meanwhile.
TaskInv(id) ==
  /\ task[id] = "none" <=> kind[id] = "none"
  /\ task[id] = "none" => store[id].status = "absent"
  /\ kind[id] = "reply" =>
       /\ store[id].status # "queued"
       /\ task[id] \in Running => store[id].status = "absent"
  /\ kind[id] \in Background /\ task[id] \in Running /\ ~stopping[id] =>
       store[id].status = "queued"
  /\ stopping[id] => store[id].status = "cancelled"

\* Only streams have events, none before the task begins, and the outcome is
\* announced when the task is over and the store has it.
StreamInv(id) ==
  /\ kind[id] # "stream" => events[id] = << >>
  /\ task[id] \in {"none", "new"} => events[id] = << >>
  /\ Announced(id) # "nothing" =>
       /\ task[id] = "over"
       /\ store[id].status = Announced(id)

ServerInv ==
  /\ TypeOK
  /\ \A id \in Ids : TaskInv(id) /\ StreamInv(id)

EventNames == Terminal \cup {"created", "in_progress", "item", "error"}

\* Appending to the events of a stream.
LEMMA EmitTyped ==
  ASSUME TypeOK, NEW id \in Ids, NEW new \in Seq(EventNames), Emit(id, new)
  PROVE  /\ events' \in [Ids -> Seq(EventNames)]
         /\ signal' \in [Ids -> BOOLEAN]
         /\ reader' \in [Readers -> [of : Ids \cup {Nobody}, next : Nat,
              pc : {"idle", "opened", "refused", "woken", "sent", "waiting", "ended"}]]
         /\ \A other \in Ids : other # id => events'[other] = events[other]
         /\ kind[id] # "stream" => events'[id] = events[id]
         /\ kind[id] = "stream" => events'[id] = events[id] \o new
<1>1. events \in [Ids -> Seq(EventNames)] /\ signal \in [Ids -> BOOLEAN]
  BY DEF TypeOK, EventNames
<1>2. reader \in [Readers -> [of : Ids \cup {Nobody}, next : Nat,
              pc : {"idle", "opened", "refused", "woken", "sent", "waiting", "ended"}]]
  BY DEF TypeOK
<1>3. CASE kind[id] = "stream"
  <2>1. /\ events' = [events EXCEPT ![id] = @ \o new]
        /\ signal' = [signal EXCEPT ![id] = TRUE]
        /\ reader' = Woken(id)
    BY <1>3 DEF Emit
  <2>2. events[id] \o new \in Seq(EventNames)
    BY <1>1
  <2>3. events' \in [Ids -> Seq(EventNames)]
    BY <1>1, <2>1, <2>2
  <2>4. reader' \in [Readers -> [of : Ids \cup {Nobody}, next : Nat,
              pc : {"idle", "opened", "refused", "woken", "sent", "waiting", "ended"}]]
    BY <1>2, <2>1 DEF Woken
  <2> QED BY <1>1, <1>3, <2>1, <2>3, <2>4
<1>4. CASE kind[id] # "stream"
  BY <1>1, <1>2, <1>4 DEF Emit
<1> QED BY <1>3, <1>4

\* The last of the new events decides what is announced.
LEMMA AnnouncedAfter ==
  ASSUME NEW before \in Seq(EventNames), NEW new \in Seq(EventNames), new # << >>
  PROVE  /\ before \o new # << >>
         /\ (before \o new)[Len(before \o new)] = new[Len(new)]
  OBVIOUS

-----------------------------------------------------------------------------
\* Nothing has been asked for.
LEMMA ServerStarts == Init => ServerInv
<1> SUFFICES ASSUME Init PROVE ServerInv
  OBVIOUS
<1>1. TypeOK
  BY MaxItemsAssumption DEF Init, TypeOK, Background, Terminal, Running
<1>2. ASSUME NEW id \in Ids PROVE TaskInv(id) /\ StreamInv(id)
  BY DEF Init, TaskInv, StreamInv, Announced, Background, Running
<1> QED BY <1>1, <1>2 DEF ServerInv

\* A step that only emits events, and none that announces an outcome, keeps
\* what is announced.
LEMMA EmitQuietly ==
  ASSUME TypeOK, NEW id \in Ids, NEW new \in Seq(EventNames), Emit(id, new),
         Announced(id) = "nothing",
         new # << >> => new[Len(new)] \notin Terminal
  PROVE  \A other \in Ids : Announced(other)' = Announced(other)
<1> SUFFICES ASSUME NEW other \in Ids PROVE Announced(other)' = Announced(other)
  OBVIOUS
<1>1. CASE events'[other] = events[other]
  BY <1>1 DEF Announced
<1>2. CASE events'[other] # events[other]
  <2>1. other = id /\ events'[id] = events[id] \o new
    BY <1>2, EmitTyped
  <2>2. events[id] \in Seq(EventNames)
    BY DEF TypeOK, EventNames
  <2>3. new # << >>
    BY <1>2, <2>1, <2>2
  <2>4. events'[id] # << >> /\ events'[id][Len(events'[id])] = new[Len(new)]
    BY <2>1, <2>2, <2>3, AnnouncedAfter
  <2>5. Announced(id)' = "nothing"
    BY <2>3, <2>4 DEF Announced
  <2> QED BY <2>1, <2>5
<1> QED BY <1>1, <1>2

\* The step of one response, as far as the store and the announcements go.
VerdictOf(id) == <<store[id].status, Announced(id)>>

\* A step that moves neither is a stutter of the verdicts.
LEMMA Unmoved ==
  ASSUME \A id \in Ids : VerdictOf(id)' = VerdictOf(id)
  PROVE  UNCHANGED Verdict!verdictVars
  BY DEF Verdict!verdictVars, VerdictOf

-----------------------------------------------------------------------------
\* Asking for a response.
LEMMA CreateStep ==
  ASSUME ServerInv, NEW id \in Ids, NEW k \in Background \cup {"reply"}, Create(id, k)
  PROVE  ServerInv' /\ [Verdict!VerdictNext]_Verdict!verdictVars
<1>1. TypeOK'
  BY ZenonT(60) DEF ServerInv, TypeOK, Create, Background, Terminal, Running
<1>2. /\ \A other \in Ids : Announced(other)' = Announced(other)
      /\ \A other \in Ids : other # id => store'[other] = store[other]
      /\ task[id] = "none" /\ store[id].status = "absent" /\ events[id] = << >>
  BY DEF ServerInv, TypeOK, TaskInv, StreamInv, Create, Announced
<1>3. ASSUME NEW other \in Ids PROVE (TaskInv(other) /\ StreamInv(other))'
  BY <1>2 DEF ServerInv, TypeOK, TaskInv, StreamInv, Create, Announced, Background, Running
<1>4. [Verdict!VerdictNext]_Verdict!verdictVars
  <2>1. CASE k \in Background
    <3>1. Verdict!Accept(id)
      BY <1>2, <2>1, ZenonT(60) DEF Verdict!Accept, Create, ServerInv, TypeOK
    <3> QED BY <3>1 DEF Verdict!VerdictNext
  <2>2. CASE k \notin Background
    BY <1>2, <2>2, Unmoved DEF Create, VerdictOf
  <2> QED BY <2>1, <2>2
<1> QED BY <1>1, <1>3, <1>4 DEF ServerInv

\* What a step of a running task that announces nothing leaves.
LEMMA QuietStep ==
  ASSUME ServerInv, NEW id \in Ids, NEW new \in Seq(EventNames), Emit(id, new),
         new # << >> => new[Len(new)] \notin Terminal,
         task[id] \in Running, task' \in [Ids -> Running \cup {"none", "over"}],
         task'[id] \in {"waiting", "over"},
         \A other \in Ids : other # id => task'[other] = task[other],
         made' \in [Ids -> 0..MaxItems],
         UNCHANGED <<kind, store, stopping, cancel>>
  PROVE  ServerInv' /\ [Verdict!VerdictNext]_Verdict!verdictVars
<1>1. TypeOK /\ Announced(id) = "nothing"
  BY DEF ServerInv, StreamInv, Running
<1>2. \A other \in Ids : Announced(other)' = Announced(other)
  BY <1>1, EmitQuietly
<1>3. TypeOK'
  BY <1>1, EmitTyped DEF TypeOK, EventNames
<1>4. ASSUME NEW other \in Ids PROVE (TaskInv(other) /\ StreamInv(other))'
  <2>1. TaskInv(other) /\ StreamInv(other)
    BY DEF ServerInv
  <2>2. CASE other # id
    <3>1. events'[other] = events[other] /\ task'[other] = task[other]
      BY <1>1, <2>2, EmitTyped
    <3> QED BY <1>2, <2>1, <3>1 DEF TaskInv, StreamInv
  <2>3. CASE other = id
    <3>1. kind[id] # "stream" => events'[id] = events[id]
      BY <1>1, EmitTyped
    <3>2. Announced(id)' = "nothing"
      BY <1>1, <1>2
    <3>3. TaskInv(id)'
      BY <2>1, <2>3 DEF TaskInv, Running
    <3>4. StreamInv(id)'
      BY <2>1, <2>3, <3>1, <3>2 DEF StreamInv
    <3> QED BY <2>3, <3>3, <3>4
  <2> QED BY <2>2, <2>3
<1>5. UNCHANGED Verdict!verdictVars
  BY <1>2, Unmoved DEF VerdictOf
<1> QED BY <1>3, <1>4, <1>5 DEF ServerInv

\* The first step announces nothing.
LEMMA BeginStep ==
  ASSUME ServerInv, NEW id \in Ids, Begin(id)
  PROVE  ServerInv' /\ [Verdict!VerdictNext]_Verdict!verdictVars
<1>1. <<"created", "in_progress">> \in Seq(EventNames)
  BY DEF EventNames
<1>2. <<"created", "in_progress">>[Len(<<"created", "in_progress">>)] \notin Terminal
  BY DEF Terminal
<1>3. /\ task' \in [Ids -> Running \cup {"none", "over"}] /\ task'[id] = "waiting"
      /\ made' \in [Ids -> 0..MaxItems]
      /\ \A other \in Ids : other # id => task'[other] = task[other]
  BY DEF ServerInv, TypeOK, Begin, Running
<1>4. Emit(id, <<"created", "in_progress">>) /\ task[id] \in Running
      /\ UNCHANGED <<kind, store, stopping, cancel>>
  BY DEF Begin, Running
<1> QED BY <1>1, <1>2, <1>3, <1>4, QuietStep

\* An item announces nothing.
LEMMA ProduceStep ==
  ASSUME ServerInv, NEW id \in Ids, Produce(id)
  PROVE  ServerInv' /\ [Verdict!VerdictNext]_Verdict!verdictVars
<1>1. <<"item">> \in Seq(EventNames)
  BY DEF EventNames
<1>2. <<"item">>[Len(<<"item">>)] \notin Terminal
  BY DEF Terminal
<1>3. /\ task' \in [Ids -> Running \cup {"none", "over"}] /\ task'[id] = "waiting"
      /\ \A other \in Ids : other # id => task'[other] = task[other]
  BY DEF ServerInv, TypeOK, Produce
<1>4. made' \in [Ids -> 0..MaxItems]
  BY MaxItemsAssumption DEF ServerInv, TypeOK, Produce
<1>5. Emit(id, <<"item">>) /\ task[id] \in Running
      /\ UNCHANGED <<kind, store, stopping, cancel>>
  BY DEF Produce, Running
<1> QED BY <1>1, <1>2, <1>3, <1>4, <1>5, QuietStep

\* A failure leaves the store as it was, and announces no outcome.
LEMMA FailStep ==
  ASSUME ServerInv, NEW id \in Ids, NEW told \in {<<"error">>, << >>}, Fail(id, told)
  PROVE  ServerInv' /\ [Verdict!VerdictNext]_Verdict!verdictVars
<1>1. told \in Seq(EventNames) /\ (told # << >> => told[Len(told)] \notin Terminal)
  <2>1. CASE told = <<"error">>
    <3>1. <<"error">> \in Seq(EventNames)
      BY DEF EventNames
    <3>2. <<"error">>[Len(<<"error">>)] \notin Terminal
      BY DEF Terminal
    <3> QED BY <2>1, <3>1, <3>2
  <2>2. CASE told = << >>
    <3>1. << >> \in Seq(EventNames)
      OBVIOUS
    <3> QED BY <2>2, <3>1
  <2> QED BY <2>1, <2>2
<1>3. /\ task' \in [Ids -> Running \cup {"none", "over"}] /\ task'[id] = "over"
      /\ made' \in [Ids -> 0..MaxItems]
      /\ \A other \in Ids : other # id => task'[other] = task[other]
  BY DEF ServerInv, TypeOK, Fail
<1>4. Emit(id, told) /\ task[id] \in Running
      /\ UNCHANGED <<kind, store, stopping, cancel>>
  BY DEF Fail, Running
<1> QED BY <1>1, <1>3, <1>4, QuietStep

\* A task that is interrupted finds the response cancelled, and leaves it so.
LEMMA InterruptedStep ==
  ASSUME ServerInv, NEW id \in Ids, Interrupted(id)
  PROVE  ServerInv' /\ [Verdict!VerdictNext]_Verdict!verdictVars
<1>1. << >> \in Seq(EventNames)
  OBVIOUS
<1>2. store[id].status = "cancelled"
  BY DEF ServerInv, TaskInv, Interrupted
<1>3. /\ task' \in [Ids -> Running \cup {"none", "over"}] /\ task'[id] = "over"
      /\ made' \in [Ids -> 0..MaxItems]
      /\ \A other \in Ids : other # id => task'[other] = task[other]
  BY DEF ServerInv, TypeOK, Interrupted
<1>4. Emit(id, << >>) /\ task[id] \in Running
      /\ UNCHANGED <<kind, store, stopping, cancel>>
  BY <1>2 DEF Interrupted, Failed, Running
<1> QED BY <1>1, <1>3, <1>4, QuietStep

-----------------------------------------------------------------------------
\* The outcome: the store is written and the stream announces the same.
LEMMA FinishStep ==
  ASSUME ServerInv, NEW id \in Ids, NEW status \in Terminal, Finish(id, status)
  PROVE  ServerInv' /\ [Verdict!VerdictNext]_Verdict!verdictVars
<1>1. /\ TypeOK /\ TaskInv(id) /\ StreamInv(id) /\ <<status>> \in Seq(EventNames)
      /\ Emit(id, <<status>>)
  BY DEF ServerInv, Finish, EventNames
<1>2. store[id].status # "cancelled" /\ kind[id] \in Background \cup {"reply"}
  BY <1>1 DEF TypeOK, TaskInv, Finish, Background, Running
<1>3. /\ store' = [store EXCEPT ![id] = [status |-> status, items |-> made[id]]]
      /\ store'[id].status = status
      /\ \A other \in Ids : other # id => store'[other] = store[other]
  BY <1>1, <1>2 DEF Finish, Stored, TypeOK
<1>4. \A other \in Ids : other # id => Announced(other)' = Announced(other)
  BY <1>1, EmitTyped DEF Announced
<1>5. Announced(id)' = IF kind[id] = "stream" THEN status ELSE "nothing"
  <2>1. CASE kind[id] = "stream"
    <3>1. events'[id] = events[id] \o <<status>> /\ events[id] \in Seq(EventNames)
      BY <1>1, <2>1, EmitTyped DEF TypeOK, EventNames
    <3>2. events'[id] # << >> /\ events'[id][Len(events'[id])] = status
      BY <1>1, <3>1, AnnouncedAfter
    <3> QED BY <2>1, <3>2 DEF Announced
  <2>2. CASE kind[id] # "stream"
    BY <1>1, <2>2, EmitTyped DEF Announced, StreamInv
  <2> QED BY <2>1, <2>2
<1>6. TypeOK'
  <2>1. store' \in [Ids -> [status : Terminal \cup {"absent", "queued", "failed", "cancelled"},
                            items : 0..MaxItems]]
    BY <1>1, <1>3 DEF TypeOK
  <2> QED BY <1>1, <2>1, EmitTyped DEF Finish, TypeOK, EventNames
<1>7. ASSUME NEW other \in Ids PROVE (TaskInv(other) /\ StreamInv(other))'
  <2>1. CASE other # id
    <3>1. events'[other] = events[other] /\ task'[other] = task[other]
      BY <1>1, <2>1, EmitTyped DEF Finish, TypeOK
    <3>2. TaskInv(other) /\ StreamInv(other)
      BY DEF ServerInv
    <3> QED BY <1>3, <1>4, <2>1, <3>1, <3>2 DEF TaskInv, StreamInv, Finish
  <2>2. CASE other = id
    <3>1. /\ task'[id] = "over" /\ UNCHANGED <<kind, stopping>>
          /\ ~stopping[id] /\ kind[id] # "none"
      BY <1>1, <1>2 DEF Finish, TypeOK, Background
    <3>2. TaskInv(id)'
      BY <1>3, <3>1 DEF TaskInv, Running, Terminal
    <3>3. StreamInv(id)'
      BY <1>1, <1>3, <1>5, <3>1, EmitTyped DEF StreamInv
    <3> QED BY <2>2, <3>2, <3>3
  <2> QED BY <2>1, <2>2
<1>8. Verdict!VerdictNext
  <2>1. status \in Verdict!Outcomes /\ status \in Verdict!Settled
    BY DEF Terminal, Verdict!Outcomes, Verdict!Settled
  <2>2. [x \in Ids |-> store[x].status]' = [[x \in Ids |-> store[x].status] EXCEPT ![id] = status]
    <3>1. \A x \in Ids : store'[x].status = IF x = id THEN status ELSE store[x].status
      BY <1>3
    <3> QED BY <3>1
  <2>3. CASE kind[id] = "stream"
    <3>1. store[id].status = "queued"
      BY <1>1, <2>3 DEF TaskInv, Finish, Running, Background
    <3>2. [x \in Ids |-> Announced(x)]' = [[x \in Ids |-> Announced(x)] EXCEPT ![id] = status]
      BY <1>4, <1>5, <2>3
    <3>3. Verdict!Settle(id, status)
      BY <2>1, <2>2, <3>1, <3>2 DEF Verdict!Settle
    <3> QED BY <2>1, <3>3 DEF Verdict!VerdictNext
  <2>4. CASE kind[id] # "stream"
    <3>1. Announced(id) = "nothing"
      BY <1>1, <2>4 DEF StreamInv, Announced
    <3>2. UNCHANGED [x \in Ids |-> Announced(x)]
      BY <1>4, <1>5, <2>4, <3>1
    <3>3. CASE kind[id] = "reply"
      <4>1. store[id].status = "absent"
        BY <1>1, <3>3 DEF TaskInv, Finish, Running
      <4>2. Verdict!Answer(id, status)
        BY <2>2, <3>2, <4>1 DEF Verdict!Answer
      <4> QED BY <2>1, <4>2 DEF Verdict!VerdictNext
    <3>4. CASE kind[id] \in Background
      <4>1. store[id].status = "queued"
        BY <1>1, <3>4 DEF TaskInv, Finish, Running
      <4>2. Verdict!Settle(id, status)
        BY <2>2, <3>2, <4>1 DEF Verdict!Settle
      <4> QED BY <2>1, <4>2 DEF Verdict!VerdictNext
    <3> QED BY <1>2, <3>3, <3>4
  <2> QED BY <2>3, <2>4
<1> QED BY <1>6, <1>7, <1>8 DEF ServerInv

\* What a step leaves that tells nobody anything and moves only tasks and
\* cancel calls: a foreground client that goes away, a task that is over
\* before it ran, a cancel call that returns.
LEMMA SilentStep ==
  ASSUME ServerInv, NEW id \in Ids, TypeOK',
         UNCHANGED <<kind, store, stopping, events>>,
         \A other \in Ids : other # id => task'[other] = task[other],
         task'[id] = task[id] \/ (task[id] \in Running /\ task'[id] = "over")
  PROVE  ServerInv' /\ [Verdict!VerdictNext]_Verdict!verdictVars
<1>1. \A other \in Ids : Announced(other)' = Announced(other)
  BY DEF Announced
<1>2. ASSUME NEW other \in Ids PROVE (TaskInv(other) /\ StreamInv(other))'
  <2>1. TaskInv(other) /\ StreamInv(other)
    BY DEF ServerInv
  <2>2. CASE task'[other] = task[other]
    BY <1>1, <2>1, <2>2 DEF TaskInv, StreamInv
  <2>3. CASE task[other] \in Running /\ task'[other] = "over"
    BY <1>1, <2>1, <2>3 DEF TaskInv, StreamInv, Running
  <2> QED BY <2>2, <2>3
<1>3. UNCHANGED Verdict!verdictVars
  BY <1>1, Unmoved DEF VerdictOf
<1> QED BY <1>2, <1>3 DEF ServerInv

\* A foreground client goes away: its handler is over and nothing is stored.
LEMMA DisconnectStep ==
  ASSUME ServerInv, NEW id \in Ids, Disconnect(id)
  PROVE  ServerInv' /\ [Verdict!VerdictNext]_Verdict!verdictVars
<1>1. TypeOK'
  BY DEF ServerInv, TypeOK, Disconnect
<1>2. /\ task'[id] = "over" /\ task[id] \in Running
      /\ \A other \in Ids : other # id => task'[other] = task[other]
      /\ UNCHANGED <<kind, store, stopping, events>>
  BY DEF ServerInv, TypeOK, Disconnect, Running
<1> QED BY <1>1, <1>2, SilentStep

\* A task that is cancelled before its first step.
LEMMA NeverRunStep ==
  ASSUME ServerInv, NEW id \in Ids, NeverRun(id)
  PROVE  ServerInv' /\ [Verdict!VerdictNext]_Verdict!verdictVars
<1>1. TypeOK'
  BY DEF ServerInv, TypeOK, NeverRun
<1>2. /\ task'[id] = "over" /\ task[id] \in Running
      /\ \A other \in Ids : other # id => task'[other] = task[other]
      /\ UNCHANGED <<kind, store, stopping, events>>
  BY DEF ServerInv, TypeOK, NeverRun, Running
<1> QED BY <1>1, <1>2, SilentStep

\* A cancel call returns.
LEMMA CancelReturnsStep ==
  ASSUME ServerInv, NEW id \in Ids, CancelReturns(id)
  PROVE  ServerInv' /\ [Verdict!VerdictNext]_Verdict!verdictVars
<1>1. TypeOK'
  BY DEF ServerInv, TypeOK, CancelReturns
<1>2. UNCHANGED <<task, kind, store, stopping, events>>
  BY DEF CancelReturns
<1> QED BY <1>1, <1>2, SilentStep

\* Cancelling decides the outcome of a queued response.
LEMMA CancelStep ==
  ASSUME ServerInv, NEW id \in Ids, Cancel(id)
  PROVE  ServerInv' /\ [Verdict!VerdictNext]_Verdict!verdictVars
<1>1. /\ TypeOK /\ TaskInv(id) /\ StreamInv(id) /\ store[id].status = "queued"
      /\ UNCHANGED <<kind, task, events>>
  BY DEF ServerInv, Cancel
<1>2. TypeOK'
  <2>1. [store[id] EXCEPT !.status = "cancelled"]
          \in [status : Terminal \cup {"absent", "queued", "failed", "cancelled"},
              items : 0..MaxItems]
    BY <1>1 DEF TypeOK
  <2>2. store' \in [Ids -> [status : Terminal \cup {"absent", "queued", "failed", "cancelled"},
                           items : 0..MaxItems]]
    BY <1>1, <2>1 DEF TypeOK, Cancel
  <2>3. stopping' \in [Ids -> BOOLEAN]
    <3>1. (task[id] \in Running) \in BOOLEAN
      OBVIOUS
    <3> QED BY <1>1, <3>1 DEF TypeOK, Cancel
  <2>4. cancel' \in [Ids -> {"none", "awaiting", "returned"}]
    BY <1>1 DEF TypeOK, Cancel
  <2> QED BY <1>1, <2>2, <2>3, <2>4 DEF TypeOK, Cancel
<1>3. /\ store'[id].status = "cancelled"
      /\ \A other \in Ids : other # id => /\ store'[other] = store[other]
                                          /\ stopping'[other] = stopping[other]
  BY <1>1 DEF TypeOK, Cancel
<1>4. \A other \in Ids : Announced(other)' = Announced(other)
  BY <1>1 DEF Announced
<1>5. Announced(id) = "nothing"
  BY <1>1 DEF StreamInv, Announced, Terminal
<1>6. ASSUME NEW other \in Ids PROVE (TaskInv(other) /\ StreamInv(other))'
  <2>1. TaskInv(other) /\ StreamInv(other)
    BY DEF ServerInv
  <2>2. CASE other # id
    BY <1>1, <1>3, <1>4, <2>1, <2>2 DEF TaskInv, StreamInv
  <2>3. CASE other = id
    <3>1. kind[id] # "reply" /\ task[id] # "none"
      BY <1>1 DEF TaskInv
    <3>2. stopping'[id] = (task[id] \in Running)
      BY <1>1 DEF Cancel, TypeOK
    <3>3. TaskInv(id)'
      BY <1>1, <1>3, <3>1, <3>2 DEF TaskInv
    <3>4. StreamInv(id)'
      BY <1>1, <1>4, <1>5 DEF StreamInv
    <3> QED BY <2>3, <3>3, <3>4
  <2> QED BY <2>2, <2>3
<1>7. Verdict!VerdictNext
  <2>1. [x \in Ids |-> store[x].status]'
          = [[x \in Ids |-> store[x].status] EXCEPT ![id] = "cancelled"]
    <3>1. \A x \in Ids : store'[x].status = IF x = id THEN "cancelled" ELSE store[x].status
      BY <1>3
    <3> QED BY <3>1
  <2>2. UNCHANGED [x \in Ids |-> Announced(x)]
    BY <1>4
  <2>3. Verdict!Settle(id, "cancelled")
    BY <1>1, <2>1, <2>2 DEF Verdict!Settle
  <2> QED BY <2>3 DEF Verdict!VerdictNext, Verdict!Settled
<1> QED BY <1>2, <1>6, <1>7 DEF ServerInv

-----------------------------------------------------------------------------
\* Readers touch nothing but themselves and the signal.
LEMMA ReaderStep ==
  ASSUME ServerInv, TypeOK',
         UNCHANGED <<kind, task, store, stopping, events>>
  PROVE  ServerInv' /\ [Verdict!VerdictNext]_Verdict!verdictVars
<1>1. \A id \in Ids : Announced(id)' = Announced(id)
  BY DEF Announced
<1>2. ASSUME NEW id \in Ids PROVE (TaskInv(id) /\ StreamInv(id))'
  BY <1>1 DEF ServerInv, TaskInv, StreamInv
<1>3. UNCHANGED Verdict!verdictVars
  BY <1>1, Unmoved DEF VerdictOf
<1> QED BY <1>2, <1>3 DEF ServerInv

\* What a reader's step keeps of the types.
LEMMA ReaderTyped ==
  ASSUME TypeOK, NEW r \in Readers
  PROVE  /\ \A id \in Ids, n \in Skips : Open(r, id, n) => TypeOK'
         /\ Refuse(r) => TypeOK'
         /\ Look(r) => TypeOK'
         /\ Advance(r) => TypeOK'
<1> DEFINE Place == [of : Ids \cup {Nobody}, next : Nat,
                     pc : {"idle", "opened", "refused", "woken", "sent", "waiting", "ended"}]
<1>1. reader \in [Readers -> Place] /\ signal \in [Ids -> BOOLEAN]
  BY DEF TypeOK
<1>2. \A p \in Place, i \in Nat, at \in {"sent", "waiting", "refused", "ended"} :
        /\ [p EXCEPT !.next = i, !.pc = at] \in Place
        /\ [p EXCEPT !.pc = at] \in Place
  OBVIOUS
<1>3. ASSUME NEW i \in Nat, Looking(r, i) PROVE reader' \in [Readers -> Place]
  BY <1>1, <1>3, ZenonT(60) DEF Looking
<1>4. Cleared(r) => signal' \in [Ids -> BOOLEAN]
  BY <1>1 DEF Cleared
<1>5. ASSUME NEW id \in Ids, NEW n \in Skips, Open(r, id, n) PROVE TypeOK'
  <2>1. reader' \in [Readers -> Place]
    BY <1>1, <1>5, SkipsAssumption DEF Open
  <2> QED BY <1>5, <2>1 DEF TypeOK, Open
<1>6. ASSUME Refuse(r) PROVE TypeOK'
  <2>1. reader' \in [Readers -> Place]
    BY <1>1, <1>6 DEF Refuse
  <2> QED BY <1>6, <2>1 DEF TypeOK, Refuse
<1>7. ASSUME Look(r) PROVE TypeOK'
  <2>1. reader' \in [Readers -> Place] /\ signal' \in [Ids -> BOOLEAN]
    BY <1>1, <1>3, <1>4, <1>7 DEF Look
  <2> QED BY <1>7, <2>1 DEF TypeOK, Look
<1>8. ASSUME Advance(r) PROVE TypeOK'
  <2>1. reader[r].next + 1 \in Nat
    BY <1>1
  <2>2. reader' \in [Readers -> Place] /\ signal' \in [Ids -> BOOLEAN]
    BY <1>1, <1>3, <1>4, <1>8, <2>1 DEF Advance
  <2> QED BY <1>8, <2>2 DEF TypeOK, Advance
<1> QED BY <1>5, <1>6, <1>7, <1>8

\* Every step keeps the invariant and is a step of the verdicts or none.
LEMMA ServerSteps ==
  ASSUME ServerInv, [Next]_serverVars
  PROVE  ServerInv' /\ [Verdict!VerdictNext]_Verdict!verdictVars
<1>1. CASE UNCHANGED serverVars
  <2>1. TypeOK' /\ UNCHANGED <<kind, task, store, stopping, events>>
    BY <1>1 DEF ServerInv, TypeOK, serverVars
  <2> QED BY <2>1, ReaderStep
<1>2. ASSUME NEW id \in Ids, NEW k \in Background \cup {"reply"}, Create(id, k)
      PROVE  ServerInv' /\ [Verdict!VerdictNext]_Verdict!verdictVars
  BY <1>2, CreateStep
<1>3. ASSUME NEW id \in Ids, Generate(id)
      PROVE  ServerInv' /\ [Verdict!VerdictNext]_Verdict!verdictVars
  BY <1>3, ProduceStep, FinishStep, FailStep, InterruptedStep DEF Generate
<1>4. ASSUME NEW id \in Ids,
             Begin(id) \/ Disconnect(id) \/ Cancel(id) \/ NeverRun(id) \/ CancelReturns(id)
      PROVE  ServerInv' /\ [Verdict!VerdictNext]_Verdict!verdictVars
  BY <1>4, BeginStep, DisconnectStep, CancelStep, NeverRunStep, CancelReturnsStep
<1>5. ASSUME NEW r \in Readers, NEW id \in Ids, NEW n \in Skips, Open(r, id, n)
      PROVE  ServerInv' /\ [Verdict!VerdictNext]_Verdict!verdictVars
  <2>1. TypeOK' /\ UNCHANGED <<kind, task, store, stopping, events>>
    BY <1>5, ReaderTyped DEF ServerInv, Open
  <2> QED BY <2>1, ReaderStep
<1>6. ASSUME NEW r \in Readers, Read(r)
      PROVE  ServerInv' /\ [Verdict!VerdictNext]_Verdict!verdictVars
  <2>1. TypeOK' /\ UNCHANGED <<kind, task, store, stopping, events>>
    BY <1>6, ReaderTyped DEF ServerInv, Read, Refuse, Look, Advance
  <2> QED BY <2>1, ReaderStep
<1> QED BY <1>1, <1>2, <1>3, <1>4, <1>5, <1>6 DEF Next

-----------------------------------------------------------------------------
\* What holds of every response in every state of the server.
THEOREM ServerInvariant == Spec => []ServerInv
<1>1. Init => ServerInv
  BY ServerStarts
<1>2. ServerInv /\ [Next]_serverVars => ServerInv'
  BY ServerSteps
<1> QED BY <1>1, <1>2, PTL DEF Spec

\* For any number of responses and readers: an outcome is decided once, it is
\* never revised by a task, a failure or a cancel call that comes late, and a
\* stream announces only what the store says from then on.
THEOREM OutcomesDecidedOnce == Spec => ImplementsVerdicts
<1>1. Init => Verdict!VerdictInit
  BY DEF Init, Verdict!VerdictInit, Announced
<1>2. ServerInv /\ [Next]_serverVars => [Verdict!VerdictNext]_Verdict!verdictVars
  BY ServerSteps
<1> QED BY <1>1, <1>2, ServerInvariant, PTL DEF Spec, ImplementsVerdicts, Verdict!VerdictSpec

\* An announcement is never contradicted by the store, neither then nor later.
THEOREM AnnouncementsHold == Spec => []Verdict!AnnouncedHolds
<1>1. ServerInv => Verdict!AnnouncedHolds
  BY DEF ServerInv, StreamInv, Verdict!AnnouncedHolds, Verdict!Outcomes
<1> QED BY <1>1, ServerInvariant, PTL

-----------------------------------------------------------------------------
\* Where a reader is: one that has asked looks at a response, and one that waits
\* has read all its events.
ReaderInv(r) ==
  /\ reader[r].pc # "idle" => reader[r].of \in Ids
  /\ reader[r].pc = "waiting" => reader[r].next > Len(events[reader[r].of])

WakeInv == TypeOK /\ \A r \in Readers : ReaderInv(r)

\* A step that leaves events and readers alone keeps them all where they are.
LEMMA QuietWake ==
  ASSUME WakeInv, UNCHANGED <<events, reader>>
  PROVE  (\A r \in Readers : ReaderInv(r))'
  BY DEF WakeInv, ReaderInv

\* Whoever waits for a stream is woken with its new events; the events of the
\* others stay.
LEMMA EmitWakes ==
  ASSUME WakeInv, NEW id \in Ids, NEW new \in Seq(EventNames), Emit(id, new)
  PROVE  (\A r \in Readers : ReaderInv(r))'
<1>1. CASE kind[id] # "stream"
  BY <1>1, QuietWake DEF Emit
<1>2. CASE kind[id] = "stream"
  <2>1. reader' = Woken(id)
    BY <1>2 DEF Emit
  <2>2. \A other \in Ids : other # id => events'[other] = events[other]
    BY EmitTyped DEF WakeInv
  <2>3. ASSUME NEW r \in Readers PROVE ReaderInv(r)'
    <3>1. CASE reader[r].of = id /\ reader[r].pc = "waiting"
      <4>1. reader'[r] = [reader[r] EXCEPT !.pc = "woken"]
        BY <2>1, <3>1 DEF Woken
      <4>2. reader'[r].pc = "woken" /\ reader'[r].of = id
        BY <4>1, <3>1 DEF WakeInv, TypeOK
      <4> QED BY <4>2 DEF ReaderInv
    <3>2. CASE ~(reader[r].of = id /\ reader[r].pc = "waiting")
      <4>1. reader'[r] = reader[r]
        BY <2>1, <3>2 DEF Woken
      <4>2. ReaderInv(r)
        BY DEF WakeInv
      <4> QED BY <4>1, <4>2, <3>2, <2>2 DEF ReaderInv
    <3> QED BY <3>1, <3>2
  <2> QED BY <2>3
<1> QED BY <1>1, <1>2

\* Looking at the list: the reader waits only at its end.
LEMMA LookingWaits ==
  ASSUME WakeInv, NEW r \in Readers, NEW i \in Nat, reader[r].of \in Ids,
         Looking(r, i), UNCHANGED events
  PROVE  (\A other \in Readers : ReaderInv(other))'
<1>1. ASSUME NEW other \in Readers PROVE ReaderInv(other)'
  <2>1. CASE other # r
    <3>1. reader'[other] = reader[other]
      BY <2>1 DEF Looking, WakeInv, TypeOK
    <3> QED BY <3>1 DEF WakeInv, ReaderInv
  <2>2. CASE other = r
    <3>1. reader'[r] = [reader[r] EXCEPT !.next = i,
                          !.pc = IF AtEnd(r, i) THEN "waiting" ELSE "sent"]
      BY DEF Looking, WakeInv, TypeOK
    <3>2. /\ reader'[r].of = reader[r].of
          /\ reader'[r].next = i
          /\ reader'[r].pc = "waiting" => AtEnd(r, i)
      BY <3>1 DEF WakeInv, TypeOK
    <3> QED BY <2>2, <3>2 DEF ReaderInv, AtEnd
  <2> QED BY <2>1, <2>2
<1> QED BY <1>1

\* The other steps of a reader do not make it wait.
LEMMA MovingWaits ==
  ASSUME WakeInv, NEW r \in Readers, NEW new, UNCHANGED events,
         reader' = [reader EXCEPT ![r] = new],
         new.of \in Ids, new.pc # "waiting"
  PROVE  (\A other \in Readers : ReaderInv(other))'
  BY DEF WakeInv, TypeOK, ReaderInv

\* Every step keeps the readers that wait at the end of what there is to read.
LEMMA WakeKept ==
  ASSUME WakeInv, Next PROVE (\A r \in Readers : ReaderInv(r))'
<1>1. ASSUME NEW id \in Ids,
             \/ \E k \in Background \cup {"reply"} : Create(id, k)
             \/ Disconnect(id) \/ Cancel(id) \/ NeverRun(id) \/ CancelReturns(id)
      PROVE  (\A r \in Readers : ReaderInv(r))'
  <2>1. UNCHANGED <<events, reader>>
    BY <1>1 DEF Create, Disconnect, Cancel, NeverRun, CancelReturns
  <2> QED BY <2>1, QuietWake
<1>2. ASSUME NEW id \in Ids, Begin(id) \/ Generate(id)
      PROVE  (\A r \in Readers : ReaderInv(r))'
  <2>1. CASE Begin(id)
    <3>1. <<"created", "in_progress">> \in Seq(EventNames)
      BY DEF EventNames
    <3> QED BY <2>1, <3>1, EmitWakes DEF Begin
  <2>2. CASE Produce(id)
    <3>1. <<"item">> \in Seq(EventNames)
      BY DEF EventNames
    <3> QED BY <2>2, <3>1, EmitWakes DEF Produce
  <2>3. ASSUME NEW status \in Terminal, Finish(id, status)
        PROVE  (\A r \in Readers : ReaderInv(r))'
    <3>1. <<status>> \in Seq(EventNames)
      BY DEF EventNames
    <3> QED BY <2>3, <3>1, EmitWakes DEF Finish
  <2>4. ASSUME NEW told \in {<<"error">>, << >>}, Fail(id, told)
        PROVE  (\A r \in Readers : ReaderInv(r))'
    <3>1. <<"error">> \in Seq(EventNames) /\ << >> \in Seq(EventNames)
      BY DEF EventNames
    <3> QED BY <2>4, <3>1, EmitWakes DEF Fail
  <2>5. CASE Interrupted(id)
    <3>1. << >> \in Seq(EventNames)
      OBVIOUS
    <3> QED BY <2>5, <3>1, EmitWakes DEF Interrupted
  <2> QED BY <1>2, <2>1, <2>2, <2>3, <2>4, <2>5 DEF Generate
<1>3. ASSUME NEW r \in Readers, NEW id \in Ids, NEW n \in Skips, Open(r, id, n)
      PROVE  (\A other \in Readers : ReaderInv(other))'
  <2>1. LET new == [of |-> id, next |-> n + 1, pc |-> "opened"]
        IN new.of = id /\ new.pc = "opened"
    OBVIOUS
  <2> QED BY <1>3, <2>1, MovingWaits DEF Open
<1>4. ASSUME NEW r \in Readers, Read(r)
      PROVE  (\A other \in Readers : ReaderInv(other))'
  <2>1. reader \in [Readers -> [of : Ids \cup {Nobody}, next : Nat,
              pc : {"idle", "opened", "refused", "woken", "sent", "waiting", "ended"}]]
    BY DEF WakeInv, TypeOK
  <2>2. reader[r].next \in Nat /\ (reader[r].pc # "idle" => reader[r].of \in Ids)
    BY <2>1 DEF WakeInv, ReaderInv
  <2>3. CASE Refuse(r)
    <3>1. reader' = [reader EXCEPT ![r] = [reader[r] EXCEPT !.pc = "refused"]]
      BY <2>1, <2>3 DEF Refuse
    <3>2. LET new == [reader[r] EXCEPT !.pc = "refused"]
          IN new.of = reader[r].of /\ new.pc = "refused"
      BY <2>1
    <3> QED BY <2>2, <2>3, <3>1, <3>2, MovingWaits DEF Refuse
  <2>4. CASE Look(r)
    BY <2>2, <2>4, LookingWaits DEF Look
  <2>5. CASE Advance(r) /\ Looking(r, reader[r].next + 1)
    BY <2>2, <2>5, LookingWaits DEF Advance
  <2>6. CASE Advance(r) /\ ~Looking(r, reader[r].next + 1)
    <3>1. reader' = [reader EXCEPT ![r] = [reader[r] EXCEPT !.pc = "ended"]]
      BY <2>1, <2>6 DEF Advance
    <3>2. LET new == [reader[r] EXCEPT !.pc = "ended"]
          IN new.of = reader[r].of /\ new.pc = "ended"
      BY <2>1
    <3> QED BY <2>2, <2>6, <3>1, <3>2, MovingWaits DEF Advance
  <2> QED BY <1>4, <2>3, <2>4, <2>5, <2>6 DEF Read
<1> QED BY <1>1, <1>2, <1>3, <1>4 DEF Next

\* For any number of readers of any number of responses, a reader that waits
\* has read everything: although a reader clears the signal that another one
\* waits for, no event is appended without waking both
\* (responses_background_stream_generator).
THEOREM WakeupsAreNotLost == Spec => []NoLostWakeup
<1>1. Init => WakeInv
  <2>1. Init => TypeOK
    BY ServerStarts DEF ServerInv
  <2> QED BY <2>1 DEF Init, WakeInv, ReaderInv
<1>2. WakeInv /\ TypeOK' /\ [Next]_serverVars => WakeInv'
  BY WakeKept DEF WakeInv, serverVars, TypeOK, ReaderInv
<1>3. WakeInv => NoLostWakeup
  BY DEF WakeInv, ReaderInv, NoLostWakeup
<1>4. ServerInv => TypeOK
  BY DEF ServerInv
<1> QED BY <1>1, <1>2, <1>3, <1>4, ServerInvariant, PTL DEF Spec
-----------------------------------------------------------------------------
\* The items of a stream.


\* A set of numbers has a least one.
LEMMA LeastExists ==
  ASSUME NEW T, T \subseteq Nat, T # {}
  PROVE  \E x \in T : \A y \in T : x <= y
<1>1. PICK x \in T : \A y \in T : ~ (<<y, x>> \in OpToRel(<, Nat))
  BY NatLessThanWellFounded, WFMin
<1>2. \A y \in T : ~(y < x)
  BY <1>1 DEF OpToRel
<1> QED BY <1>2

\* A set with 0 that goes on from every number below n has all up to n.
LEMMA UpTo ==
  ASSUME NEW n \in Nat, NEW G, 0 \in G, \A m \in 0..n : m < n /\ m \in G => m + 1 \in G
  PROVE  \A m \in 0..n : m \in G
<1> DEFINE B == {m \in 0..n : m \notin G}
<1> SUFFICES ASSUME B # {} PROVE FALSE
  OBVIOUS
<1>1. PICK x \in B : \A y \in B : x <= y
  <2>1. B \subseteq Nat
    OBVIOUS
  <2> HIDE DEF B
  <2> QED BY <2>1, LeastExists
<1>2. x \in Nat /\ x # 0
  BY <1>1
<1>3. x - 1 \in 0..n /\ x - 1 < n /\ x - 1 \in G
  BY <1>1, <1>2
<1>4. (x - 1) + 1 \in G
  BY <1>3
<1> QED BY <1>1, <1>2, <1>4

\* g joins the first texts of seqs.
Joins(seqs, g, n) == \A k \in 1..n : g[k] = IF k = 1 THEN seqs[1] ELSE g[k - 1] \o seqs[k]

\* The recursion of FlattenSeq has a solution.
LEMMA JoinsExist ==
  ASSUME NEW seqs, NEW n \in Nat
  PROVE  \E g : g = [k \in 1..n |-> g[k]] /\ Joins(seqs, g, n)
<1> DEFINE Solved(m) == \E g : g = [k \in 1..m |-> g[k]] /\ Joins(seqs, g, m)
           G == {m \in 0..n : Solved(m)}
<1>1. 0 \in G
  <2> DEFINE g == [k \in 1..0 |-> k]
  <2>1. g = [k \in 1..0 |-> g[k]] /\ Joins(seqs, g, 0)
    BY DEF Joins
  <2>2. Solved(0)
    <3> HIDE DEF g
    <3> QED BY <2>1
  <2> HIDE DEF Solved
  <2> QED BY <2>2
<1>2. ASSUME NEW m \in 0..n, m < n, m \in G PROVE m + 1 \in G
  <2>1. PICK g : g = [k \in 1..m |-> g[k]] /\ Joins(seqs, g, m)
    BY <1>2
  <2> DEFINE h == [k \in 1..m + 1 |->
                     IF k = 1 THEN seqs[1] ELSE IF k = m + 1 THEN g[m] \o seqs[m + 1] ELSE g[k]]
  <2>2. h = [k \in 1..m + 1 |-> h[k]]
    OBVIOUS
  <2>3. \A k \in 1..m : h[k] = g[k]
    <3> TAKE k \in 1..m
    <3>1. k \in 1..m + 1 /\ k # m + 1 /\ 1 \in 1..m
      OBVIOUS
    <3>2. g[1] = seqs[1]
      BY <2>1, <3>1 DEF Joins
    <3> QED BY <3>1, <3>2
  <2>4. Joins(seqs, h, m + 1)
    <3> SUFFICES ASSUME NEW k \in 1..m + 1
                 PROVE  h[k] = IF k = 1 THEN seqs[1] ELSE h[k - 1] \o seqs[k]
      BY DEF Joins
    <3>1. CASE k = 1
      BY <3>1
    <3>2. CASE k # 1 /\ k = m + 1
      <4>1. h[k] = g[m] \o seqs[m + 1]
        BY <3>2
      <4>2. m \in 1..m /\ k - 1 = m
        BY <3>2
      <4> HIDE DEF h
      <4> QED BY <2>3, <3>2, <4>1, <4>2
    <3>3. CASE k # 1 /\ k # m + 1
      <4>1. k \in 1..m /\ k - 1 \in 1..m
        BY <3>3
      <4> HIDE DEF h
      <4> QED BY <2>1, <2>3, <3>3, <4>1 DEF Joins
    <3> QED BY <3>1, <3>2, <3>3
  <2>5. Solved(m + 1)
    <3> HIDE DEF h
    <3> QED BY <2>2, <2>4
  <2>6. m + 1 \in 0..n
    BY <1>2
  <2> HIDE DEF Solved
  <2> QED BY <2>5, <2>6
<1>3. n \in G
  <2> HIDE DEF G
  <2> QED BY <1>1, <1>2, UpTo
<1> QED BY <1>3

\* Two sequences begin alike.
Alike(s, t, n) == \A k \in 1..n : s[k] = t[k]

\* Two solutions agree.
LEMMA JoinsUnique ==
  ASSUME NEW seqs, NEW other, NEW n \in Nat, Alike(seqs, other, n),
         NEW g, NEW h, Joins(seqs, g, n), Joins(other, h, n)
  PROVE  Alike(g, h, n)
<1> DEFINE G == {m \in 0..n : m = 0 \/ g[m] = h[m]}
<1>1. 0 \in G
  OBVIOUS
<1>2. ASSUME NEW m \in 0..n, m < n, m \in G PROVE m + 1 \in G
  <2>1. m + 1 \in 1..n /\ (m + 1) - 1 = m /\ (m + 1 = 1 <=> m = 0)
    BY <1>2
  <2>2. /\ g[m + 1] = IF m + 1 = 1 THEN seqs[1] ELSE g[m] \o seqs[m + 1]
        /\ h[m + 1] = IF m + 1 = 1 THEN other[1] ELSE h[m] \o other[m + 1]
    BY <2>1 DEF Joins
  <2>3. seqs[m + 1] = other[m + 1]
    BY <2>1 DEF Alike
  <2>4. g[m + 1] = h[m + 1]
    <3>1. CASE m = 0
      BY <2>1, <2>2, <2>3, <3>1
    <3>2. CASE m # 0
      BY <1>2, <2>1, <2>2, <2>3, <3>2
    <3> QED BY <3>1, <3>2
  <2>5. m + 1 \in 0..n
    BY <1>2
  <2> QED BY <2>4, <2>5
<1>3. \A m \in 0..n : m \in G
  <2> HIDE DEF G
  <2> QED BY <1>1, <1>2, UpTo
<1> QED BY <1>3 DEF Alike

\* FlattenSeq is the last of the joins.
LEMMA FlattenIs ==
  ASSUME NEW S, NEW seqs \in Seq(S), Len(seqs) > 0
  PROVE  \E g : Joins(seqs, g, Len(seqs)) /\ FlattenSeq(seqs) = g[Len(seqs)]
<1> DEFINE n == Len(seqs)
           Body(g, k) == IF k = 1 THEN seqs[k] ELSE g[k - 1] \o seqs[k]
           Solves(g) == g = [k \in 1..n |-> Body(g, k)]
           flat == CHOOSE g : Solves(g)
<1>0. n \in Nat /\ n # 0
  OBVIOUS
<1>1. FlattenSeq(seqs) = flat[n]
  BY <1>0 DEF FlattenSeq
<1>2. PICK g : g = [k \in 1..n |-> g[k]] /\ Joins(seqs, g, n)
  BY <1>0, JoinsExist
<1>3. Solves(g)
  <2>1. \A k \in 1..n : g[k] = Body(g, k)
    BY <1>2 DEF Joins
  <2> HIDE DEF Body, n
  <2> QED BY <1>2, <2>1
<1>4. Solves(flat)
  <2> HIDE DEF Solves
  <2> QED BY <1>3
<1>5. Joins(seqs, flat, n)
  <2>1. \A k \in 1..n : flat[k] = Body(flat, k)
    <3> HIDE DEF flat, Body, n
    <3> QED BY <1>4
  <2> HIDE DEF flat
  <2> QED BY <2>1 DEF Joins
<1> HIDE DEF flat
<1> QED BY <1>1, <1>5

\* Nothing joined is nothing, and one more text is joined at the end.
LEMMA FlattenNone == FlattenSeq(<< >>) = << >>
BY DEF FlattenSeq

\* One text joined is that text.
LEMMA FlattenOne ==
  ASSUME NEW S, NEW t \in Seq(S)
  PROVE  FlattenSeq(<<t>>) = t
<1>1. <<t>> \in Seq({t}) /\ Len(<<t>>) = 1 /\ <<t>>[1] = t
  OBVIOUS
<1>2. PICK g : Joins(<<t>>, g, 1) /\ FlattenSeq(<<t>>) = g[1]
  <2> DEFINE one == <<t>>
  <2>1. one \in Seq({t}) /\ Len(one) = 1 /\ Len(one) > 0
    OBVIOUS
  <2>2. \E g : Joins(one, g, Len(one)) /\ FlattenSeq(one) = g[Len(one)]
    <3> HIDE DEF one
    <3> QED BY <2>1, FlattenIs
  <2> QED BY <2>1, <2>2
<1> QED BY <1>1, <1>2 DEF Joins

\* One more text is joined at the end.
LEMMA FlattenNext ==
  ASSUME NEW S, NEW seqs \in Seq(Seq(S)), NEW t \in Seq(S)
  PROVE  FlattenSeq(Append(seqs, t)) = FlattenSeq(seqs) \o t
<1>1. PICK n \in Nat, more \in Seq(Seq(S)) :
        /\ n = Len(seqs) /\ more = Append(seqs, t)
        /\ Len(more) = n + 1 /\ more[n + 1] = t
        /\ \A k \in 1..n : more[k] = seqs[k]
  <2>1. Append(seqs, t) \in Seq(Seq(S)) /\ Len(seqs) \in Nat
    OBVIOUS
  <2>2. /\ Len(Append(seqs, t)) = Len(seqs) + 1 /\ Append(seqs, t)[Len(seqs) + 1] = t
        /\ \A k \in 1..Len(seqs) : Append(seqs, t)[k] = seqs[k]
    OBVIOUS
  <2> QED BY <2>1, <2>2
<1>2. CASE n = 0
  <2>1. seqs = << >> /\ more = <<t>>
    <3>1. seqs = << >>
      BY <1>1, <1>2
    <3> QED BY <1>1, <3>1
  <2>2. << >> \o t = t
    OBVIOUS
  <2> QED BY <1>1, <2>1, <2>2, FlattenNone, FlattenOne
<1>3. CASE n # 0
  <2>1. PICK g : Joins(seqs, g, n) /\ FlattenSeq(seqs) = g[n]
    BY <1>1, <1>3, FlattenIs
  <2>2. PICK h : Joins(more, h, n + 1) /\ FlattenSeq(more) = h[n + 1]
    <3>1. Len(more) > 0
      BY <1>1
    <3> QED BY <1>1, <3>1, FlattenIs
  <2>3. Joins(more, h, n)
    BY <1>1, <2>2 DEF Joins
  <2>4. g[n] = h[n]
    <3>1. n \in 1..n
      BY <1>1, <1>3
    <3>2. Alike(seqs, more, n)
      BY <1>1 DEF Alike
    <3>3. Alike(g, h, n)
      BY <2>1, <2>3, <3>2, JoinsUnique
    <3> QED BY <3>1, <3>3 DEF Alike
  <2>5. h[n + 1] = h[n] \o t
    <3>1. n + 1 \in 1..n + 1 /\ n + 1 # 1 /\ (n + 1) - 1 = n
      BY <1>3
    <3> QED BY <1>1, <2>2, <3>1 DEF Joins
  <2> QED BY <1>1, <2>1, <2>2, <2>4, <2>5
<1> QED BY <1>2, <1>3

\* A sequence has its empty prefix, and each prefix goes on with one element.
LEMMA PrefixNext ==
  ASSUME NEW S, NEW t \in Seq(S), NEW m \in 0..Len(t), m < Len(t)
  PROVE  /\ SubSeq(t, 1, m) \in Seq(S) /\ t[m + 1] \in S
         /\ SubSeq(t, 1, m + 1) = Append(SubSeq(t, 1, m), t[m + 1])
OBVIOUS

\* The empty prefix and the whole one.
LEMMA PrefixEnds ==
  ASSUME NEW S, NEW t \in Seq(S)
  PROVE  SubSeq(t, 1, 0) = << >> /\ SubSeq(t, 1, Len(t)) = t /\ Len(t) \in Nat
OBVIOUS

\* Joining keeps the type.
LEMMA FlattenTyped ==
  ASSUME NEW S, NEW seqs \in Seq(Seq(S))
  PROVE  FlattenSeq(seqs) \in Seq(S)
<1>1. PICK n \in Nat : n = Len(seqs)
  OBVIOUS
<1> DEFINE P(m) == FlattenSeq(SubSeq(seqs, 1, m)) \in Seq(S)
           G == {m \in 0..n : P(m)}
<1>2. P(0)
  <2>1. FlattenSeq(SubSeq(seqs, 1, 0)) = << >>
    BY PrefixEnds, FlattenNone
  <2> QED BY <2>1, EmptySeq
<1>3. ASSUME NEW m \in 0..n, m < n, P(m) PROVE P(m + 1)
  <2>1. m \in 0..Len(seqs) /\ m < Len(seqs)
    BY <1>1, <1>3
  <2>2. PICK u \in Seq(Seq(S)), x \in Seq(S) :
          u = SubSeq(seqs, 1, m) /\ SubSeq(seqs, 1, m + 1) = Append(u, x)
    <3>1. /\ SubSeq(seqs, 1, m) \in Seq(Seq(S)) /\ seqs[m + 1] \in Seq(S)
          /\ SubSeq(seqs, 1, m + 1) = Append(SubSeq(seqs, 1, m), seqs[m + 1])
      BY <2>1, PrefixNext
    <3> QED BY <3>1
  <2>3. FlattenSeq(Append(u, x)) = FlattenSeq(u) \o x
    BY FlattenNext
  <2>4. FlattenSeq(u) \in Seq(S)
    BY <1>3, <2>2
  <2>5. FlattenSeq(u) \o x \in Seq(S)
    BY <2>4, ConcatProperties
  <2> QED BY <2>2, <2>3, <2>5
<1>4. \A m \in 0..n : m \in G
  <2>1. 0 \in G
    <3> HIDE DEF P
    <3> QED BY <1>2
  <2>2. ASSUME NEW m \in 0..n, m < n, m \in G PROVE m + 1 \in G
    <3> HIDE DEF P
    <3>1. P(m)
      BY <2>2
    <3>2. P(m + 1)
      BY <2>2, <3>1, <1>3
    <3>3. m + 1 \in 0..n
      BY <2>2
    <3> QED BY <3>2, <3>3
  <2> HIDE DEF G
  <2> QED BY <2>1, <2>2, UpTo
<1>5. P(n)
  <2> HIDE DEF P
  <2> QED BY <1>4
<1> QED BY <1>1, <1>5, PrefixEnds

\* What is joined of two sequences is joined one after the other.
LEMMA FlattenConcat ==
  ASSUME NEW S, NEW s \in Seq(Seq(S)), NEW t \in Seq(Seq(S))
  PROVE  FlattenSeq(s \o t) = FlattenSeq(s) \o FlattenSeq(t)
<1>1. PICK n \in Nat : n = Len(t)
  OBVIOUS
<1>2. PICK first \in Seq(S) : first = FlattenSeq(s)
  BY FlattenTyped
<1> DEFINE Right(u) == FlattenSeq(s \o u) = first \o FlattenSeq(u)
           P(m) == Right(SubSeq(t, 1, m))
           G == {m \in 0..n : P(m)}
<1>3. P(0)
  <2>1. Right(<< >>)
    <3>1. s \o << >> = s /\ first \o << >> = first
      BY ConcatEmptySeq
    <3> QED BY <1>2, <3>1, FlattenNone
  <2>2. SubSeq(t, 1, 0) = << >>
    BY PrefixEnds
  <2> HIDE DEF Right
  <2> QED BY <2>1, <2>2
<1>4. ASSUME NEW m \in 0..n, m < n, P(m) PROVE P(m + 1)
  <2>1. m \in 0..Len(t) /\ m < Len(t)
    BY <1>1, <1>4
  <2>2. PICK u \in Seq(Seq(S)), x \in Seq(S) :
          u = SubSeq(t, 1, m) /\ SubSeq(t, 1, m + 1) = Append(u, x)
    <3>1. /\ SubSeq(t, 1, m) \in Seq(Seq(S)) /\ t[m + 1] \in Seq(S)
          /\ SubSeq(t, 1, m + 1) = Append(SubSeq(t, 1, m), t[m + 1])
      BY <2>1, PrefixNext
    <3> QED BY <3>1
  <2>3. PICK v \in Seq(Seq(S)) : v = s \o u /\ s \o Append(u, x) = Append(v, x)
    <3>1. s \o u \in Seq(Seq(S))
      BY ConcatProperties
    <3>2. s \o Append(u, x) = Append(s \o u, x)
      BY SMTT(40)
    <3> QED BY <3>1, <3>2
  <2>4. FlattenSeq(Append(v, x)) = FlattenSeq(v) \o x
    BY FlattenNext
  <2>5. FlattenSeq(Append(u, x)) = FlattenSeq(u) \o x
    BY FlattenNext
  <2>6. FlattenSeq(v) = first \o FlattenSeq(u)
    BY <1>4, <2>2, <2>3
  <2>7. (first \o FlattenSeq(u)) \o x = first \o (FlattenSeq(u) \o x)
    <3>1. FlattenSeq(u) \in Seq(S)
      BY FlattenTyped
    <3> QED BY <3>1, ConcatAssociative, SMTT(40)
  <2>8. Right(Append(u, x))
    BY <2>3, <2>4, <2>5, <2>6, <2>7
  <2> HIDE DEF Right
  <2> QED BY <2>2, <2>8
<1>5. \A m \in 0..n : m \in G
  <2>1. 0 \in G
    <3> HIDE DEF P
    <3> QED BY <1>3
  <2>2. ASSUME NEW m \in 0..n, m < n, m \in G PROVE m + 1 \in G
    <3> HIDE DEF P
    <3>1. P(m)
      BY <2>2
    <3>2. P(m + 1)
      BY <2>2, <3>1, <1>4
    <3>3. m + 1 \in 0..n
      BY <2>2
    <3> QED BY <3>2, <3>3
  <2> HIDE DEF G
  <2> QED BY <2>1, <2>2, UpTo
<1>6. P(n)
  <2> HIDE DEF P
  <2> QED BY <1>5
<1>7. Right(t)
  <2> HIDE DEF Right
  <2> QED BY <1>1, <1>6, PrefixEnds
<1> QED BY <1>2, <1>7

-----------------------------------------------------------------------------
\* The parts of a delta one after the other.

\* g has the states after the first parts.
StepsFrom(s, parts, g, n) ==
  \A k \in 0..n : g[k] = IF k = 0 THEN s ELSE Step(g[k - 1], parts[k])

\* The recursion of Run has a solution.
LEMMA StepsExist ==
  ASSUME NEW s, NEW parts, NEW n \in Nat
  PROVE  \E g : g = [k \in 0..n |-> g[k]] /\ StepsFrom(s, parts, g, n)
<1> DEFINE Solved(m) == \E g : g = [k \in 0..m |-> g[k]] /\ StepsFrom(s, parts, g, m)
           G == {m \in 0..n : Solved(m)}
<1>1. 0 \in G
  <2> DEFINE g == [k \in 0..0 |-> s]
  <2>1. g = [k \in 0..0 |-> g[k]] /\ StepsFrom(s, parts, g, 0)
    BY DEF StepsFrom
  <2>2. Solved(0)
    <3> HIDE DEF g
    <3> QED BY <2>1
  <2> HIDE DEF Solved
  <2> QED BY <2>2
<1>2. ASSUME NEW m \in 0..n, m < n, m \in G PROVE m + 1 \in G
  <2>1. PICK g : g = [k \in 0..m |-> g[k]] /\ StepsFrom(s, parts, g, m)
    BY <1>2
  <2> DEFINE h == [k \in 0..m + 1 |-> IF k = m + 1 THEN Step(g[m], parts[m + 1]) ELSE g[k]]
  <2>2. h = [k \in 0..m + 1 |-> h[k]]
    OBVIOUS
  <2>3. \A k \in 0..m : h[k] = g[k]
    <3> TAKE k \in 0..m
    <3>1. k \in 0..m + 1 /\ k # m + 1
      OBVIOUS
    <3> QED BY <3>1
  <2>4. StepsFrom(s, parts, h, m + 1)
    <3> SUFFICES ASSUME NEW k \in 0..m + 1
                 PROVE  h[k] = IF k = 0 THEN s ELSE Step(h[k - 1], parts[k])
      BY DEF StepsFrom
    <3>1. CASE k = m + 1
      <4>1. h[k] = Step(g[m], parts[m + 1])
        BY <3>1
      <4>2. m \in 0..m /\ k - 1 = m /\ k # 0
        BY <3>1
      <4> HIDE DEF h
      <4> QED BY <2>3, <3>1, <4>1, <4>2
    <3>2. CASE k # m + 1
      <4>1. k \in 0..m /\ (k # 0 => k - 1 \in 0..m)
        BY <3>2
      <4>2. h[k] = g[k] /\ (k # 0 => h[k - 1] = g[k - 1])
        <5> HIDE DEF h
        <5> QED BY <2>3, <4>1
      <4>3. g[k] = IF k = 0 THEN s ELSE Step(g[k - 1], parts[k])
        BY <2>1, <4>1 DEF StepsFrom
      <4> HIDE DEF h
      <4> QED BY <4>2, <4>3
    <3> QED BY <3>1, <3>2
  <2>5. Solved(m + 1)
    <3> HIDE DEF h
    <3> QED BY <2>2, <2>4
  <2>6. m + 1 \in 0..n
    BY <1>2
  <2> HIDE DEF Solved
  <2> QED BY <2>5, <2>6
<1>3. \A m \in 0..n : m \in G
  <2> HIDE DEF G
  <2> QED BY <1>1, <1>2, UpTo
<1> QED BY <1>3

\* Two solutions agree.
LEMMA StepsUnique ==
  ASSUME NEW s, NEW parts, NEW other, NEW n \in Nat, Alike(parts, other, n),
         NEW g, NEW h, StepsFrom(s, parts, g, n), StepsFrom(s, other, h, n)
  PROVE  g[n] = h[n]
<1> DEFINE G == {m \in 0..n : g[m] = h[m]}
<1>1. 0 \in G
  BY DEF StepsFrom
<1>2. ASSUME NEW m \in 0..n, m < n, m \in G PROVE m + 1 \in G
  <2>1. m + 1 \in 0..n /\ m + 1 \in 1..n /\ (m + 1) - 1 = m /\ m + 1 # 0
    BY <1>2
  <2>2. g[m + 1] = Step(g[m], parts[m + 1]) /\ h[m + 1] = Step(h[m], other[m + 1])
    BY <2>1 DEF StepsFrom
  <2>3. parts[m + 1] = other[m + 1]
    BY <2>1 DEF Alike
  <2> QED BY <1>2, <2>1, <2>2, <2>3
<1>3. \A m \in 0..n : m \in G
  <2> HIDE DEF G
  <2> QED BY <1>1, <1>2, UpTo
<1> QED BY <1>3

\* Run is the last of the states.
LEMMA RunIs ==
  ASSUME NEW s, NEW S, NEW parts \in Seq(S)
  PROVE  \E g : StepsFrom(s, parts, g, Len(parts)) /\ Run(s, parts) = g[Len(parts)]
<1>0. PICK n \in Nat : n = Len(parts)
  OBVIOUS
<1> DEFINE Body(g, k) == IF k = 0 THEN s ELSE Step(g[k - 1], parts[k])
           Solves(g) == g = [k \in 0..n |-> Body(g, k)]
           run == CHOOSE g : Solves(g)
<1>1. Run(s, parts) = run[n]
  BY <1>0 DEF Run
<1>2. PICK g : g = [k \in 0..n |-> g[k]] /\ StepsFrom(s, parts, g, n)
  BY <1>0, StepsExist
<1>3. Solves(g)
  <2>1. \A k \in 0..n : g[k] = Body(g, k)
    BY <1>2 DEF StepsFrom
  <2> HIDE DEF Body
  <2> QED BY <1>2, <2>1
<1>4. Solves(run)
  <2> HIDE DEF Solves
  <2> QED BY <1>3
<1>5. StepsFrom(s, parts, run, n)
  <2>1. \A k \in 0..n : run[k] = Body(run, k)
    <3> HIDE DEF run, Body
    <3> QED BY <1>4
  <2> HIDE DEF run
  <2> QED BY <2>1 DEF StepsFrom
<1> HIDE DEF run
<1> QED BY <1>0, <1>1, <1>5

\* No part changes nothing.
LEMMA RunNone == ASSUME NEW s PROVE Run(s, << >>) = s
<1>1. << >> \in Seq({}) /\ Len(<< >>) = 0
  OBVIOUS
<1>2. PICK g : StepsFrom(s, << >>, g, 0) /\ Run(s, << >>) = g[0]
  BY <1>1, RunIs
<1> QED BY <1>2 DEF StepsFrom

\* One more part is one more step.
LEMMA RunNext ==
  ASSUME NEW s, NEW S, NEW parts \in Seq(S), NEW d \in S
  PROVE  Run(s, Append(parts, d)) = Step(Run(s, parts), d)
<1>1. PICK n \in Nat, more \in Seq(S) :
        /\ n = Len(parts) /\ more = Append(parts, d)
        /\ Len(more) = n + 1 /\ more[n + 1] = d
        /\ \A k \in 1..n : parts[k] = more[k]
  <2>1. Append(parts, d) \in Seq(S) /\ Len(parts) \in Nat
    OBVIOUS
  <2>2. /\ Len(Append(parts, d)) = Len(parts) + 1 /\ Append(parts, d)[Len(parts) + 1] = d
        /\ \A k \in 1..Len(parts) : parts[k] = Append(parts, d)[k]
    OBVIOUS
  <2> QED BY <2>1, <2>2
<1>2. PICK g : StepsFrom(s, parts, g, n) /\ Run(s, parts) = g[n]
  BY <1>1, RunIs
<1>3. PICK h : StepsFrom(s, more, h, n + 1) /\ Run(s, more) = h[n + 1]
  BY <1>1, RunIs
<1>4. StepsFrom(s, more, h, n)
  BY <1>3 DEF StepsFrom
<1>5. g[n] = h[n]
  <2>1. Alike(parts, more, n)
    BY <1>1 DEF Alike
  <2> QED BY <1>2, <1>4, <2>1, StepsUnique
<1>6. h[n + 1] = Step(h[n], d)
  <2>1. n + 1 \in 0..n + 1 /\ n + 1 # 0 /\ (n + 1) - 1 = n
    OBVIOUS
  <2> QED BY <1>1, <1>3, <2>1 DEF StepsFrom
<1> QED BY <1>1, <1>2, <1>3, <1>5, <1>6

\* Parts can be taken in two rounds.
LEMMA RunConcat ==
  ASSUME NEW s, NEW S, NEW a \in Seq(S), NEW b \in Seq(S)
  PROVE  Run(s, a \o b) = Run(Run(s, a), b)
<1>1. PICK n \in Nat : n = Len(b)
  OBVIOUS
<1>2. PICK mid : mid = Run(s, a)
  OBVIOUS
<1> DEFINE Right(u) == Run(s, a \o u) = Run(mid, u)
           P(m) == Right(SubSeq(b, 1, m))
           G == {m \in 0..n : P(m)}
<1>3. P(0)
  <2>1. Right(<< >>)
    <3>1. a \o << >> = a
      BY ConcatEmptySeq
    <3> QED BY <1>2, <3>1, RunNone
  <2>2. SubSeq(b, 1, 0) = << >>
    BY PrefixEnds
  <2> HIDE DEF Right
  <2> QED BY <2>1, <2>2
<1>4. ASSUME NEW m \in 0..n, m < n, P(m) PROVE P(m + 1)
  <2>1. m \in 0..Len(b) /\ m < Len(b)
    BY <1>1, <1>4
  <2>2. PICK u \in Seq(S), x \in S :
          u = SubSeq(b, 1, m) /\ SubSeq(b, 1, m + 1) = Append(u, x)
    <3>1. /\ SubSeq(b, 1, m) \in Seq(S) /\ b[m + 1] \in S
          /\ SubSeq(b, 1, m + 1) = Append(SubSeq(b, 1, m), b[m + 1])
      BY <2>1, PrefixNext
    <3> QED BY <3>1
  <2>3. PICK v \in Seq(S) : v = a \o u /\ a \o Append(u, x) = Append(v, x)
    <3>1. a \o u \in Seq(S)
      BY ConcatProperties
    <3>2. a \o Append(u, x) = Append(a \o u, x)
      OBVIOUS
    <3> QED BY <3>1, <3>2
  <2>4. Run(s, Append(v, x)) = Step(Run(s, v), x)
    BY RunNext
  <2>5. Run(mid, Append(u, x)) = Step(Run(mid, u), x)
    BY RunNext
  <2>6. Run(s, v) = Run(mid, u)
    BY <1>4, <2>2, <2>3
  <2>7. Right(Append(u, x))
    BY <2>3, <2>4, <2>5, <2>6
  <2> HIDE DEF Right
  <2> QED BY <2>2, <2>7
<1>5. \A m \in 0..n : m \in G
  <2>1. 0 \in G
    <3> HIDE DEF P
    <3> QED BY <1>3
  <2>2. ASSUME NEW m \in 0..n, m < n, m \in G PROVE m + 1 \in G
    <3> HIDE DEF P
    <3>1. P(m)
      BY <2>2
    <3>2. P(m + 1)
      BY <2>2, <3>1, <1>4
    <3>3. m + 1 \in 0..n
      BY <2>2
    <3> QED BY <3>2, <3>3
  <2> HIDE DEF G
  <2> QED BY <2>1, <2>2, UpTo
<1>6. P(n)
  <2> HIDE DEF P
  <2> QED BY <1>5
<1>7. Right(b)
  <2> HIDE DEF Right
  <2> QED BY <1>1, <1>6, PrefixEnds
<1> QED BY <1>2, <1>7
-----------------------------------------------------------------------------
\* What the processor's state, the items and the events are.

States == {"call", "reasoning", "content"}
EventType ==
  [type : {"added", "delta", "text_done", "done"}, id : Nat, index : Nat, state : States,
   text : Seq(Nat)]
ItemType ==
  [id : Nat, state : States, name : Nat, text : Seq(Nat), logs : Seq(Nat),
   status : {"completed", "incomplete"}]
ProcType ==
  [state : States \cup {None}, opened : Nat, nth : Nat, call : Int, name : Nat,
   text : Seq(Nat), logs : Seq(Nat), whole : BOOLEAN, sent : BOOLEAN]
RunType == [proc : ProcType, items : Seq(ItemType), trace : Seq(EventType), rejected : BOOLEAN]

FieldType == [is : BOOLEAN, text : Seq(Nat)]
ToolType == [index : Int, name : Nat, args : Seq(Nat)]
PartType ==
  [reasoning : FieldType, content : FieldType, logs : Seq(Nat), tools : Seq(ToolType)]

\* A part goes to a call when it has entries of calls, and only then.
LEMMA TargetTyped ==
  ASSUME NEW d \in PartType
  PROVE  /\ TargetState(d) \in States \cup {None}
         /\ TargetState(d) = "call" <=> d.tools # << >>
BY DEF PartType, FieldType, TargetState, States, None

\* The arguments of a part are a text.
LEMMA ArgumentsTyped ==
  ASSUME NEW d \in PartType
  PROVE  Arguments(d) \in Seq(Nat)
<1>1. d.tools \in Seq(ToolType)
  BY DEF PartType
<1>2. [i \in DOMAIN d.tools |-> d.tools[i].args] \in Seq(Seq(Nat))
  <2>1. \A i \in 1..Len(d.tools) : d.tools[i].args \in Seq(Nat)
    <3> TAKE i \in 1..Len(d.tools)
    <3>1. d.tools[i] \in ToolType
      BY <1>1
    <3> QED BY <3>1 DEF ToolType
  <2>2. DOMAIN d.tools = 1..Len(d.tools) /\ Len(d.tools) \in Nat
    BY <1>1
  <2> QED BY <2>1, <2>2
<1> QED BY <1>2, FlattenTyped DEF Arguments

\* What a part adds is a text.
LEMMA NewTyped ==
  ASSUME NEW p \in ProcType, NEW d \in PartType
  PROVE  New(p, d) \in Seq(Nat)
<1>1. d.reasoning.text \in Seq(Nat) /\ d.content.text \in Seq(Nat)
  BY DEF PartType, FieldType
<1> QED BY <1>1, ArgumentsTyped DEF New

\* Closing, opening and telling, for each part of the state.
ClosedAs(c, s, truncated) ==
  /\ c.proc = [s.proc EXCEPT !.nth = s.proc.nth + 1, !.state = None]
  /\ c.items = Append(s.items, [id |-> s.proc.opened, state |-> s.proc.state,
                                name |-> s.proc.name, text |-> s.proc.text,
                                logs |-> s.proc.logs, status |-> Status(s.proc, truncated)])
  /\ c.trace = s.trace \o (IF s.proc.state = "call" /\ ~s.proc.sent THEN << >>
                           ELSE <<Event("text_done", s.proc, s.proc.text)>>)
                       \o <<Event("done", s.proc, s.proc.text)>>
  /\ c.rejected = s.rejected
  /\ c = [proc |-> c.proc, items |-> c.items, trace |-> c.trace, rejected |-> c.rejected]

\* Closing changes nothing when no item is open.
LEMMA CloseIs ==
  ASSUME NEW s \in RunType, NEW truncated \in BOOLEAN, NEW c, c = CloseCurrent(s, truncated)
  PROVE  /\ s.proc.state = None => c = s
         /\ s.proc.state # None => ClosedAs(c, s, truncated)
BY DEF CloseCurrent, RunType, ClosedAs

\* A call without a name is refused.
Nameless(target, d) == target = "call" /\ d.tools[1].name = 0

\* What opening makes of a run, given what it resets.
OpenedAs(c, p, s, target, d) ==
  /\ c = [proc |-> c.proc, items |-> c.items, trace |-> c.trace, rejected |-> c.rejected]
  /\ c.items = s.items
  /\ Nameless(target, d) => c.proc = s.proc /\ c.trace = s.trace /\ c.rejected = TRUE
  /\ ~Nameless(target, d) =>
       /\ c.proc = [p EXCEPT !.state = target, !.opened = s.proc.opened + 1]
       /\ c.trace = Append(s.trace, Event("added", c.proc, << >>))
       /\ c.rejected = s.rejected

\* Opening refuses a call without a name and announces any other item.
LEMMA OpenIs ==
  ASSUME NEW s \in RunType, NEW d \in PartType, NEW target \in States,
         NEW c, c = OpenItem(s, target, d), NEW p, p = Blank(s.proc, target, d)
  PROVE  OpenedAs(c, p, s, target, d)
<1>1. p.opened = s.proc.opened
  BY DEF Blank, RunType, ProcType
<1> QED BY <1>1 DEF OpenItem, RunType, Nameless, OpenedAs

\* What telling makes of a run.
EmittedAs(c, s, d, new) ==
  /\ c.proc = IF s.proc.state = "content"
              THEN [s.proc EXCEPT !.text = s.proc.text \o new, !.logs = LogsAfter(s.proc, d),
                                  !.whole = WholeAfter(s.proc, d)]
              ELSE [s.proc EXCEPT !.text = s.proc.text \o new, !.sent = TRUE]
  /\ c.items = s.items
  /\ c.trace = Append(s.trace, Event("delta", c.proc, new))
  /\ c.rejected = s.rejected
  /\ c = [proc |-> c.proc, items |-> c.items, trace |-> c.trace, rejected |-> c.rejected]

\* A call without new arguments tells nothing.
Silent(s, d) == s.proc.state = "call" /\ Arguments(d) = << >>

\* Telling sends what is new, unless there is nothing.
LEMMA EmitIs ==
  ASSUME NEW s \in RunType, NEW d \in PartType, NEW c, c = EmitDelta(s, d)
  PROVE  /\ Silent(s, d) => c = s
         /\ ~Silent(s, d) => EmittedAs(c, s, d, New(s.proc, d))
<1>1. PICK p : p = s.proc /\ p \in ProcType
  BY DEF RunType
<1> QED BY <1>1 DEF EmitDelta, RunType, ProcType, Silent, EmittedAs

\* An event of an open item.
LEMMA EventTyped ==
  ASSUME NEW p \in ProcType, p.state # None, NEW text \in Seq(Nat),
         NEW type \in {"added", "delta", "text_done", "done"}
  PROVE  Event(type, p, text) \in EventType
BY DEF Event, ProcType, EventType

\* Closing keeps the type.
LEMMA CloseTyped ==
  ASSUME NEW s \in RunType, NEW truncated \in BOOLEAN
  PROVE  CloseCurrent(s, truncated) \in RunType
<1>1. PICK c : c = CloseCurrent(s, truncated)
  OBVIOUS
<1>2. CASE s.proc.state = None
  BY <1>1, <1>2, CloseIs
<1>3. CASE s.proc.state # None
  <2>0. ClosedAs(c, s, truncated)
    BY <1>1, <1>3, CloseIs
  <2>1. /\ s.proc \in ProcType /\ s.proc.state \in States /\ s.items \in Seq(ItemType)
        /\ s.trace \in Seq(EventType) /\ s.rejected \in BOOLEAN /\ s.proc.text \in Seq(Nat)
    BY <1>3 DEF RunType, ProcType
  <2>2. c.proc \in ProcType
    <3>1. c.proc = [s.proc EXCEPT !.nth = s.proc.nth + 1, !.state = None]
      BY <2>0 DEF ClosedAs
    <3>2. s.proc.nth + 1 \in Nat
      BY <2>1 DEF ProcType
    <3> QED BY <2>1, <3>1, <3>2 DEF ProcType
  <2>3. c.items \in Seq(ItemType)
    <3> DEFINE item == [id |-> s.proc.opened, state |-> s.proc.state, name |-> s.proc.name,
                        text |-> s.proc.text, logs |-> s.proc.logs,
                        status |-> Status(s.proc, truncated)]
    <3>1. item \in ItemType
      BY <2>1 DEF ProcType, ItemType, Status
    <3>2. c.items = Append(s.items, item)
      BY <2>0 DEF ClosedAs
    <3> HIDE DEF item
    <3> QED BY <2>1, <3>1, <3>2
  <2>4. c.trace \in Seq(EventType)
    <3>1. PICK e \in EventType, f \in EventType :
            e = Event("text_done", s.proc, s.proc.text) /\ f = Event("done", s.proc, s.proc.text)
      BY <1>3, <2>1, EventTyped
    <3>2. c.trace = s.trace
                      \o (IF s.proc.state = "call" /\ ~s.proc.sent THEN << >> ELSE <<e>>) \o <<f>>
      BY <2>0, <3>1 DEF ClosedAs
    <3>3. << >> \in Seq(EventType) /\ <<e>> \in Seq(EventType) /\ <<f>> \in Seq(EventType)
      OBVIOUS
    <3>4. PICK m \in Seq(EventType) :
            m = IF s.proc.state = "call" /\ ~s.proc.sent THEN << >> ELSE <<e>>
      BY <3>3
    <3>5. s.trace \o m \in Seq(EventType)
      BY <2>1, ConcatProperties
    <3>6. (s.trace \o m) \o <<f>> \in Seq(EventType)
      BY <3>3, <3>5, ConcatProperties
    <3> QED BY <3>2, <3>4, <3>6
  <2>5. /\ c = [proc |-> c.proc, items |-> c.items, trace |-> c.trace, rejected |-> c.rejected]
        /\ c.rejected \in BOOLEAN
    BY <2>0, <2>1 DEF ClosedAs
  <2>6. c \in RunType
    BY <2>2, <2>3, <2>4, <2>5 DEF RunType
  <2> QED BY <1>1, <2>6
<1> QED BY <1>2, <1>3

\* Opening resets the text, and neither the counters nor the state.
LEMMA BlankTyped ==
  ASSUME NEW p \in ProcType, NEW d \in PartType, NEW target \in States,
         target = "call" => d.tools # << >>
  PROVE  /\ Blank(p, target, d) \in ProcType
         /\ Blank(p, target, d).text = << >>
         /\ Blank(p, target, d).opened = p.opened /\ Blank(p, target, d).nth = p.nth
         /\ Blank(p, target, d).state = p.state
<1>1. << >> \in Seq(Nat)
  OBVIOUS
<1>2. CASE target = "content"
  BY <1>1, <1>2 DEF Blank, ProcType
<1>3. CASE target = "reasoning"
  BY <1>1, <1>3 DEF Blank, ProcType
<1>4. CASE target = "call"
  <2>1. d.tools[1] \in ToolType
    <3>1. d.tools \in Seq(ToolType) /\ d.tools # << >>
      BY <1>4 DEF PartType
    <3> QED BY <3>1
  <2>2. d.tools[1].index \in Int /\ d.tools[1].name \in Nat
    BY <2>1 DEF ToolType
  <2> QED BY <1>1, <1>4, <2>2 DEF Blank, ProcType
<1> QED BY <1>2, <1>3, <1>4 DEF States

\* Opening keeps the type.
LEMMA OpenTyped ==
  ASSUME NEW s \in RunType, NEW d \in PartType, NEW target \in States,
         target = "call" => d.tools # << >>
  PROVE  OpenItem(s, target, d) \in RunType
<1>1. PICK c : c = OpenItem(s, target, d)
  OBVIOUS
<1>2. PICK q \in ProcType : q = Blank(s.proc, target, d)
  BY BlankTyped DEF RunType
<1>3. CASE Nameless(target, d)
  <2>1. /\ c = [proc |-> c.proc, items |-> c.items, trace |-> c.trace, rejected |-> c.rejected]
        /\ c.items = s.items /\ c.proc = s.proc /\ c.trace = s.trace /\ c.rejected = TRUE
    <3>1. OpenedAs(c, q, s, target, d)
      BY <1>1, <1>2, OpenIs
    <3> QED BY <1>3, <3>1 DEF OpenedAs
  <2>2. c \in RunType
    BY <2>1 DEF RunType
  <2> QED BY <1>1, <2>2
<1>4. CASE ~Nameless(target, d)
  <2>1. /\ s.proc \in ProcType /\ s.items \in Seq(ItemType)
        /\ s.trace \in Seq(EventType) /\ s.rejected \in BOOLEAN
    BY DEF RunType
  <2>2. OpenedAs(c, q, s, target, d)
    BY <1>1, <1>2, OpenIs
  <2>3. c.proc = [q EXCEPT !.state = target, !.opened = s.proc.opened + 1]
    BY <1>4, <2>2 DEF OpenedAs
  <2>4. c.proc \in ProcType /\ c.proc.state \in States /\ None \notin States
    <3>1. s.proc.opened + 1 \in Nat
      BY <2>1, SMTT(40) DEF ProcType
    <3> QED BY <2>3, <3>1 DEF ProcType, States, None
  <2>5. << >> \in Seq(Nat)
    OBVIOUS
  <2>6. PICK e \in EventType : e = Event("added", c.proc, << >>)
    BY <2>4, <2>5, EventTyped
  <2>7. /\ c.items = s.items /\ c.trace = Append(s.trace, e) /\ c.rejected = s.rejected
        /\ c = [proc |-> c.proc, items |-> c.items, trace |-> c.trace, rejected |-> c.rejected]
    BY <1>4, <2>2, <2>6 DEF OpenedAs
  <2>8. c.trace \in Seq(EventType)
    BY <2>1, <2>7
  <2>9. c \in RunType
    BY <2>1, <2>4, <2>7, <2>8 DEF RunType
  <2> QED BY <1>1, <2>9
<1> QED BY <1>3, <1>4

\* Telling keeps the type.
LEMMA EmitTextTyped ==
  ASSUME NEW s \in RunType, NEW d \in PartType, s.proc.state # None
  PROVE  EmitDelta(s, d) \in RunType
<1>1. PICK c : c = EmitDelta(s, d)
  OBVIOUS
<1>2. CASE Silent(s, d)
  BY <1>1, <1>2, EmitIs
<1>3. CASE ~Silent(s, d)
  <2>1. /\ s.proc \in ProcType /\ s.items \in Seq(ItemType)
        /\ s.trace \in Seq(EventType) /\ s.rejected \in BOOLEAN
    BY DEF RunType
  <2>2. PICK new \in Seq(Nat) : new = New(s.proc, d)
    BY <2>1, NewTyped
  <2>3. s.proc.text \o new \in Seq(Nat)
    <3>1. s.proc.text \in Seq(Nat)
      BY <2>1 DEF ProcType
    <3> QED BY <3>1, ConcatProperties
  <2>4. LogsAfter(s.proc, d) \in Seq(Nat) /\ WholeAfter(s.proc, d) \in BOOLEAN
    <3>1. s.proc.logs \in Seq(Nat) /\ d.logs \in Seq(Nat) /\ << >> \in Seq(Nat)
      BY <2>1 DEF ProcType, PartType
    <3>2. s.proc.logs \o d.logs \in Seq(Nat)
      BY <3>1, ConcatProperties
    <3>3. s.proc.whole \in BOOLEAN
      BY <2>1 DEF ProcType
    <3> QED BY <3>1, <3>2, <3>3 DEF LogsAfter, WholeAfter
  <2>5. c.proc \in ProcType /\ c.proc.state = s.proc.state
    <3>1. c.proc = IF s.proc.state = "content"
                   THEN [s.proc EXCEPT !.text = s.proc.text \o new,
                                       !.logs = LogsAfter(s.proc, d),
                                       !.whole = WholeAfter(s.proc, d)]
                   ELSE [s.proc EXCEPT !.text = s.proc.text \o new, !.sent = TRUE]
      BY <1>1, <1>3, <2>2, EmitIs, ZenonT(60) DEF EmittedAs
    <3>2. CASE s.proc.state = "content"
      BY <2>1, <2>3, <2>4, <3>1, <3>2 DEF ProcType
    <3>3. CASE s.proc.state # "content"
      BY <2>1, <2>3, <3>1, <3>3 DEF ProcType
    <3> QED BY <3>2, <3>3
  <2>6. PICK e \in EventType : e = Event("delta", c.proc, new)
    BY <2>5, EventTyped
  <2>7. /\ c.items = s.items /\ c.trace = Append(s.trace, e) /\ c.rejected = s.rejected
        /\ c = [proc |-> c.proc, items |-> c.items, trace |-> c.trace, rejected |-> c.rejected]
    BY <1>1, <1>3, <2>2, <2>6, EmitIs, ZenonT(60) DEF EmittedAs
  <2>8. c.trace \in Seq(EventType)
    BY <2>1, <2>7
  <2>9. c \in RunType
    BY <2>1, <2>5, <2>7, <2>8 DEF RunType
  <2> QED BY <1>1, <2>9
<1> QED BY <1>2, <1>3

\* What a step does: nothing, a delta of the open item, or another item first.
Reopens(s, d, target) ==
  \E c \in RunType, o \in RunType :
    /\ c = CloseCurrent(s, FALSE) /\ o = OpenItem(c, target, d)
    /\ o.rejected => Step(s, d) = o
    /\ ~o.rejected => Step(s, d) = EmitDelta(o, d)

\* These are all cases of a step.
LEMMA StepIs ==
  ASSUME NEW s \in RunType, NEW d \in PartType, NEW target, target = TargetState(d)
  PROVE  \/ Step(s, d) = s /\ (s.rejected \/ target = None)
         \/ /\ ~s.rejected /\ target \in States /\ s.proc.state = target
            /\ ~NeedsTransition(s.proc, target, d)
            /\ Step(s, d) = EmitDelta(s, d)
         \/ /\ ~s.rejected /\ target \in States /\ NeedsTransition(s.proc, target, d)
            /\ Reopens(s, d, target)
<1>1. target \in States \cup {None} /\ (target = "call" => d.tools # << >>)
  BY TargetTyped
<1>2. CASE s.rejected \/ target = None
  BY <1>2 DEF Step
<1>3. CASE ~s.rejected /\ target # None /\ ~NeedsTransition(s.proc, target, d)
  <2>1. s.proc.state = target
    BY <1>3 DEF NeedsTransition
  <2>2. Step(s, d) = EmitDelta(s, d)
    BY <1>3 DEF Step
  <2> QED BY <1>1, <1>3, <2>1, <2>2
<1>4. CASE ~s.rejected /\ target # None /\ NeedsTransition(s.proc, target, d)
  <2>1. PICK c \in RunType : c = CloseCurrent(s, FALSE)
    BY CloseTyped
  <2>2. PICK o \in RunType : o = OpenItem(c, target, d)
    BY <1>1, <1>4, OpenTyped
  <2>3. IF o.rejected THEN Step(s, d) = o ELSE Step(s, d) = EmitDelta(o, d)
    BY <1>4, <2>1, <2>2 DEF Step
  <2>4. Reopens(s, d, target)
    BY <2>1, <2>2, <2>3 DEF Reopens
  <2> QED BY <1>1, <1>4, <2>4
<1> QED BY <1>2, <1>3, <1>4
-----------------------------------------------------------------------------
\* What the client has been told.

\* What an event says of an item's text, what is put together from the deltas of
\* an item, and where items are done.
Said(e, id) == IF e.type = "delta" /\ e.id = id THEN e.text ELSE << >>
Told(tr, id) == FlattenSeq([k \in DOMAIN tr |-> Said(tr[k], id)])
DoneIn(tr) == {k \in DOMAIN tr : tr[k].type = "done"}

\* Each event is in its place, at its index and with its text.
TraceInv(tr) ==
  \A k \in DOMAIN tr :
    /\ tr[k].index = Cardinality({j \in DoneIn(tr) : j < k})
    /\ tr[k].type = "added" <=> k = 1 \/ k - 1 \in DoneIn(tr)
    /\ tr[k].type = "added" => \A j \in 1..(k - 1) : tr[j].id # tr[k].id
    /\ tr[k].type # "added" => tr[k].id = tr[k - 1].id
    /\ tr[k].type \in {"text_done", "done"} => tr[k].text = Told(tr, tr[k].id)

\* The events that may come next.
Fits(tr, e) ==
  /\ e.index = Cardinality(DoneIn(tr))
  /\ e.type = "added" <=> tr = << >> \/ Len(tr) \in DoneIn(tr)
  /\ e.type = "added" => \A j \in DOMAIN tr : tr[j].id # e.id
  /\ e.type # "added" => tr # << >> /\ e.id = tr[Len(tr)].id
  /\ e.type \in {"text_done", "done"} => e.text = Told(tr, e.id)
  /\ e.type = "delta" =>
       \A j \in DOMAIN tr : tr[j].type \in {"text_done", "done"} => tr[j].id # e.id

\* What one more event changes.
LEMMA ToldNext ==
  ASSUME NEW tr \in Seq(EventType), NEW e \in EventType, NEW id
  PROVE  /\ Told(Append(tr, e), id) = Told(tr, id) \o Said(e, id)
         /\ Told(tr, id) \in Seq(Nat)
<1> DEFINE Parts(u) == [k \in DOMAIN u |-> Said(u[k], id)]
<1>1. \A f \in EventType : Said(f, id) \in Seq(Nat)
  <2>1. \A f \in EventType : f.text \in Seq(Nat)
    BY DEF EventType
  <2> QED BY <2>1 DEF Said
<1>2. Parts(tr) \in Seq(Seq(Nat))
  <2>1. DOMAIN tr = 1..Len(tr) /\ Len(tr) \in Nat /\ \A k \in 1..Len(tr) : tr[k] \in EventType
    OBVIOUS
  <2> QED BY <1>1, <2>1
<1>3. Parts(Append(tr, e)) = Append(Parts(tr), Said(e, id))
  <2>1. DOMAIN Append(tr, e) = 1..Len(tr) + 1 /\ DOMAIN tr = 1..Len(tr) /\ Len(tr) \in Nat
    OBVIOUS
  <2>2. /\ \A k \in 1..Len(tr) : Append(tr, e)[k] = tr[k]
        /\ Append(tr, e)[Len(tr) + 1] = e
    OBVIOUS
  <2> QED BY <2>1, <2>2, <1>1
<1>4. Said(e, id) \in Seq(Nat)
  BY <1>1
<1> HIDE DEF Parts
<1>5. FlattenSeq(Append(Parts(tr), Said(e, id))) = FlattenSeq(Parts(tr)) \o Said(e, id)
  BY <1>2, <1>4, FlattenNext
<1>6. FlattenSeq(Parts(tr)) \in Seq(Nat)
  BY <1>2, FlattenTyped
<1>7. Told(tr, id) = FlattenSeq(Parts(tr)) /\ Told(Append(tr, e), id) = FlattenSeq(Parts(Append(tr, e)))
  BY DEF Told, Parts
<1> QED BY <1>3, <1>5, <1>6, <1>7

\* One more event is done or is not.
LEMMA DoneNext ==
  ASSUME NEW tr \in Seq(EventType), NEW e \in EventType
  PROVE  /\ DoneIn(Append(tr, e))
              = IF e.type = "done" THEN DoneIn(tr) \cup {Len(tr) + 1} ELSE DoneIn(tr)
         /\ IsFiniteSet(DoneIn(tr)) /\ Cardinality(DoneIn(tr)) \in Nat
         /\ Cardinality(DoneIn(Append(tr, e)))
              = Cardinality(DoneIn(tr)) + (IF e.type = "done" THEN 1 ELSE 0)
         /\ DoneIn(tr) \subseteq 1..Len(tr)
         /\ \A k \in 1..Len(tr) :
              {j \in DoneIn(Append(tr, e)) : j < k} = {j \in DoneIn(tr) : j < k}
         /\ {j \in DoneIn(Append(tr, e)) : j < Len(tr) + 1} = DoneIn(tr)
<1>1. PICK n \in Nat, more \in Seq(EventType) :
        /\ n = Len(tr) /\ more = Append(tr, e) /\ DOMAIN tr = 1..n
        /\ DOMAIN more = 1..n + 1 /\ more[n + 1] = e /\ \A k \in 1..n : more[k] = tr[k]
  <2>1. /\ Len(tr) \in Nat /\ DOMAIN tr = 1..Len(tr) /\ DOMAIN Append(tr, e) = 1..Len(tr) + 1
        /\ Append(tr, e) \in Seq(EventType)
    OBVIOUS
  <2>2. /\ \A k \in 1..Len(tr) : Append(tr, e)[k] = tr[k]
        /\ Append(tr, e)[Len(tr) + 1] = e
    OBVIOUS
  <2> QED BY <2>1, <2>2
<1>2. DoneIn(more) = IF e.type = "done" THEN DoneIn(tr) \cup {n + 1} ELSE DoneIn(tr)
  <2>1. \A k : k \in 1..n + 1 <=> k \in 1..n \/ k = n + 1
    OBVIOUS
  <2> QED BY <1>1, <2>1 DEF DoneIn
<1>3. DoneIn(tr) \subseteq 1..n
  BY <1>1 DEF DoneIn
<1>4. IsFiniteSet(DoneIn(tr)) /\ Cardinality(DoneIn(tr)) \in Nat
  <2>1. IsFiniteSet(1..n)
    BY FS_Interval
  <2> QED BY <1>3, <2>1, FS_Subset, FS_CardinalityType
<1>5. n + 1 \notin DoneIn(tr)
  BY <1>3
<1>6. Cardinality(DoneIn(tr) \cup {n + 1}) = Cardinality(DoneIn(tr)) + 1
  BY <1>4, <1>5, FS_AddElement
<1>7. \A k \in 1..n : {j \in DoneIn(more) : j < k} = {j \in DoneIn(tr) : j < k}
  <2> TAKE k \in 1..n
  <2>1. ~(n + 1 < k)
    OBVIOUS
  <2> QED BY <1>2, <2>1
<1>8. {j \in DoneIn(more) : j < n + 1} = DoneIn(tr)
  <2>1. \A j \in DoneIn(tr) : j < n + 1
    BY <1>3
  <2>2. ~(n + 1 < n + 1)
    OBVIOUS
  <2> QED BY <1>2, <2>1, <2>2
<1>9. Cardinality(DoneIn(more)) = Cardinality(DoneIn(tr)) + (IF e.type = "done" THEN 1 ELSE 0)
  BY <1>2, <1>4, <1>6
<1> QED BY <1>1, <1>2, <1>3, <1>4, <1>7, <1>8, <1>9

\* An event that fits keeps the trace as it should be.
LEMMA TraceNext ==
  ASSUME NEW tr \in Seq(EventType), NEW e \in EventType, TraceInv(tr), Fits(tr, e)
  PROVE  TraceInv(Append(tr, e))
<1>1. PICK n \in Nat, more \in Seq(EventType) :
        /\ n = Len(tr) /\ more = Append(tr, e) /\ DOMAIN tr = 1..n
        /\ DOMAIN more = 1..n + 1 /\ more[n + 1] = e /\ \A k \in 1..n : more[k] = tr[k]
        /\ (tr = << >> <=> n = 0)
  <2>1. /\ Len(tr) \in Nat /\ DOMAIN tr = 1..Len(tr) /\ DOMAIN Append(tr, e) = 1..Len(tr) + 1
        /\ Append(tr, e) \in Seq(EventType)
    OBVIOUS
  <2>2. /\ \A k \in 1..Len(tr) : Append(tr, e)[k] = tr[k]
        /\ Append(tr, e)[Len(tr) + 1] = e /\ (tr = << >> <=> Len(tr) = 0)
    OBVIOUS
  <2> QED BY <2>1, <2>2
<1>2. \A id : Told(more, id) = Told(tr, id) \o Said(e, id)
  BY <1>1, ToldNext
<1>3. \A id : ~(e.type = "delta" /\ e.id = id) => Told(more, id) = Told(tr, id)
  <2> SUFFICES ASSUME NEW id, ~(e.type = "delta" /\ e.id = id)
               PROVE  Told(more, id) = Told(tr, id)
    OBVIOUS
  <2>1. PICK t \in Seq(Nat) : t = Told(tr, id)
    BY ToldNext
  <2>2. t \o << >> = t
    BY ConcatEmptySeq
  <2> QED BY <1>2, <2>1, <2>2 DEF Said
<1>4. ASSUME NEW k \in 1..n
      PROVE  /\ more[k].index = Cardinality({j \in DoneIn(more) : j < k})
             /\ more[k].type = "added" <=> k = 1 \/ k - 1 \in DoneIn(more)
             /\ more[k].type = "added" => \A j \in 1..(k - 1) : more[j].id # more[k].id
             /\ more[k].type # "added" => more[k].id = more[k - 1].id
             /\ more[k].type \in {"text_done", "done"} => more[k].text = Told(more, more[k].id)
  <2>1. /\ tr[k].index = Cardinality({j \in DoneIn(tr) : j < k})
        /\ tr[k].type = "added" <=> k = 1 \/ k - 1 \in DoneIn(tr)
        /\ tr[k].type = "added" => \A j \in 1..(k - 1) : tr[j].id # tr[k].id
        /\ tr[k].type # "added" => tr[k].id = tr[k - 1].id
        /\ tr[k].type \in {"text_done", "done"} => tr[k].text = Told(tr, tr[k].id)
    BY <1>1 DEF TraceInv
  <2>2. more[k] = tr[k] /\ \A j \in 1..(k - 1) : more[j] = tr[j]
    BY <1>1
  <2>3. {j \in DoneIn(more) : j < k} = {j \in DoneIn(tr) : j < k}
    BY <1>1, DoneNext
  <2>4. k - 1 \in DoneIn(more) <=> k - 1 \in DoneIn(tr)
    <3>1. k - 1 # n + 1
      OBVIOUS
    <3> QED BY <1>1, <3>1, DoneNext
  <2>5. more[k].type # "added" => more[k - 1] = tr[k - 1]
    <3>1. k # 1 => k - 1 \in 1..n
      OBVIOUS
    <3> QED BY <1>1, <2>1, <2>2, <3>1
  <2>6. tr[k].type \in {"text_done", "done"} => Told(more, tr[k].id) = Told(tr, tr[k].id)
    BY <1>1, <1>3 DEF Fits
  <2>a. more[k].index = Cardinality({j \in DoneIn(more) : j < k})
    BY <2>1, <2>2, <2>3
  <2>b. more[k].type = "added" <=> k = 1 \/ k - 1 \in DoneIn(more)
    BY <2>1, <2>2, <2>4
  <2>c. more[k].type = "added" => \A j \in 1..(k - 1) : more[j].id # more[k].id
    BY <2>1, <2>2
  <2>d. more[k].type # "added" => more[k].id = more[k - 1].id
    BY <2>1, <2>2, <2>5
  <2>e. more[k].type \in {"text_done", "done"} => more[k].text = Told(more, more[k].id)
    BY <2>1, <2>2, <2>6
  <2> QED BY <2>a, <2>b, <2>c, <2>d, <2>e
<1>5. /\ e.index = Cardinality({j \in DoneIn(more) : j < n + 1})
      /\ e.type = "added" <=> n + 1 = 1 \/ n \in DoneIn(more)
      /\ e.type = "added" => \A j \in 1..n : more[j].id # e.id
      /\ e.type # "added" => e.id = more[n].id
      /\ e.type \in {"text_done", "done"} => e.text = Told(more, e.id)
  <2>a. e.index = Cardinality({j \in DoneIn(more) : j < n + 1})
    BY <1>1, DoneNext, ZenonT(60) DEF Fits
  <2>b. e.type = "added" <=> n + 1 = 1 \/ n \in DoneIn(more)
    <3>1. n # n + 1
      OBVIOUS
    <3>2. n \in DoneIn(more) <=> n \in DoneIn(tr)
      BY <1>1, <3>1, DoneNext
    <3> QED BY <1>1, <3>2 DEF Fits
  <2>c. e.type = "added" => \A j \in 1..n : more[j].id # e.id
    BY <1>1 DEF Fits
  <2>d. e.type # "added" => e.id = more[n].id
    BY <1>1 DEF Fits
  <2>e. e.type \in {"text_done", "done"} => e.text = Told(more, e.id)
    BY <1>3 DEF Fits
  <2> QED BY <2>a, <2>b, <2>c, <2>d, <2>e
<1>6. TraceInv(more)
  <2> SUFFICES ASSUME NEW k \in 1..n + 1
               PROVE  /\ more[k].index = Cardinality({j \in DoneIn(more) : j < k})
                      /\ more[k].type = "added" <=> k = 1 \/ k - 1 \in DoneIn(more)
                      /\ more[k].type = "added" => \A j \in 1..(k - 1) : more[j].id # more[k].id
                      /\ more[k].type # "added" => more[k].id = more[k - 1].id
                      /\ more[k].type \in {"text_done", "done"} =>
                           more[k].text = Told(more, more[k].id)
    BY <1>1 DEF TraceInv
  <2>1. CASE k \in 1..n
    BY <1>4, <2>1
  <2>2. CASE k = n + 1
    <3>1. k - 1 = n
      BY <2>2
    <3> QED BY <1>1, <1>5, <2>2, <3>1
  <2> QED BY <2>1, <2>2
<1> QED BY <1>1, <1>6

\* The run as a whole: its counters count, the open item is being told and
\* those done are kept as they were told.
ItemsMatch(s) ==
  /\ Len(s.items) = Cardinality(DoneIn(s.trace))
  /\ \A k \in DoneIn(s.trace) :
       /\ s.trace[k].index < Len(s.items)
       /\ s.items[s.trace[k].index + 1].id = s.trace[k].id
       /\ s.items[s.trace[k].index + 1].state = s.trace[k].state
       /\ s.items[s.trace[k].index + 1].text = s.trace[k].text

Being(s) ==
  /\ s.trace # << >>
  /\ s.trace[Len(s.trace)].type \in {"added", "delta"}
  /\ s.trace[Len(s.trace)].id = s.proc.opened
  /\ s.proc.text = Told(s.trace, s.proc.opened)
  /\ \A j \in DOMAIN s.trace :
       s.trace[j].type \in {"text_done", "done"} => s.trace[j].id # s.proc.opened

RunInv(s) ==
  /\ s \in RunType
  /\ s.proc.nth = Len(s.items)
  /\ TraceInv(s.trace)
  /\ ItemsMatch(s)
  /\ \A j \in DOMAIN s.trace : s.trace[j].id <= s.proc.opened
  /\ \A id \in Nat : id > s.proc.opened => Told(s.trace, id) = << >>
  /\ s.proc.state = None => s.trace = << >> \/ Len(s.trace) \in DoneIn(s.trace)
  /\ s.proc.state # None => Being(s)

\* An event that ends nothing leaves the items as they match.
LEMMA MatchKept ==
  ASSUME NEW s \in RunType, ItemsMatch(s), NEW e \in EventType, e.type # "done",
         NEW c \in RunType, c.items = s.items, c.trace = Append(s.trace, e)
  PROVE  ItemsMatch(c)
<1>1. DoneIn(c.trace) = DoneIn(s.trace) /\ DoneIn(s.trace) \subseteq 1..Len(s.trace)
  BY DoneNext DEF RunType
<1>2. \A k \in DoneIn(s.trace) : c.trace[k] = s.trace[k]
  <2>1. s.trace \in Seq(EventType)
    BY DEF RunType
  <2>2. \A k \in 1..Len(s.trace) : Append(s.trace, e)[k] = s.trace[k]
    BY <2>1
  <2> QED BY <1>1, <2>2
<1> QED BY <1>1, <1>2 DEF ItemsMatch

\* One more event at the end of a trace.
LEMMA OneMore ==
  ASSUME NEW tr \in Seq(EventType), NEW e \in EventType, NEW more, more = Append(tr, e)
  PROVE  /\ more \in Seq(EventType) /\ Len(tr) \in Nat /\ Len(more) = Len(tr) + 1
         /\ DOMAIN tr = 1..Len(tr) /\ DOMAIN more = 1..Len(tr) + 1
         /\ more[Len(tr) + 1] = e /\ \A k \in 1..Len(tr) : more[k] = tr[k]
         /\ more # << >>
OBVIOUS

\* An event announces or tells the item that is open then.
Tells(s, c, e) ==
  /\ e.type \in {"added", "delta"} /\ Fits(s.trace, e)
  /\ c.items = s.items /\ c.trace = Append(s.trace, e)
  /\ e.id = c.proc.opened /\ c.proc.opened >= s.proc.opened /\ c.proc.nth = s.proc.nth
  /\ c.proc.state # None /\ c.proc.text = Told(c.trace, c.proc.opened)
  /\ \A j \in DOMAIN s.trace :
       s.trace[j].type \in {"text_done", "done"} => s.trace[j].id # c.proc.opened

\* Such an event keeps the run as it should be.
LEMMA TellingKeeps ==
  ASSUME NEW s, RunInv(s), NEW c \in RunType, NEW e \in EventType, Tells(s, c, e)
  PROVE  RunInv(c)
<1>1. /\ s.trace \in Seq(EventType) /\ s \in RunType /\ c.proc.opened \in Nat
      /\ s.proc.opened \in Nat
  BY DEF RunInv, RunType, ProcType
<1>0. c.proc.opened >= s.proc.opened /\ e.id = c.proc.opened /\ c.trace = Append(s.trace, e)
  BY DEF Tells
<1>2. PICK n \in Nat :
        /\ n = Len(s.trace) /\ Len(c.trace) = n + 1
        /\ DOMAIN s.trace = 1..n /\ DOMAIN c.trace = 1..n + 1
        /\ c.trace[n + 1] = e /\ (\A k \in 1..n : c.trace[k] = s.trace[k]) /\ c.trace # << >>
  <2>1. PICK tr, more :
          tr \in Seq(EventType) /\ tr = s.trace /\ more = c.trace /\ more = Append(tr, e)
    BY <1>0, <1>1
  <2>2. /\ more \in Seq(EventType) /\ Len(tr) \in Nat /\ Len(more) = Len(tr) + 1
        /\ DOMAIN tr = 1..Len(tr) /\ DOMAIN more = 1..Len(tr) + 1
        /\ more[Len(tr) + 1] = e /\ \A k \in 1..Len(tr) : more[k] = tr[k]
        /\ more # << >>
    BY <2>1, OneMore
  <2> QED BY <2>1, <2>2
<1>3. c.proc.nth = Len(c.items)
  BY DEF RunInv, Tells
<1>4. TraceInv(c.trace)
  BY <1>1, TraceNext DEF RunInv, Tells
<1>5. ItemsMatch(c)
  BY <1>1, MatchKept DEF RunInv, Tells
<1>6. \A j \in DOMAIN c.trace : c.trace[j].id <= c.proc.opened
  <2> SUFFICES ASSUME NEW j \in 1..n + 1 PROVE c.trace[j].id <= c.proc.opened
    BY <1>2
  <2>1. CASE j \in 1..n
    <3>1. s.trace[j] \in EventType /\ s.trace[j].id <= s.proc.opened
      BY <1>1, <1>2, <2>1, SMTT(40) DEF RunInv
    <3>2. s.trace[j].id \in Nat
      BY <3>1 DEF EventType
    <3> QED BY <1>0, <1>1, <1>2, <2>1, <3>1, <3>2
  <2>2. CASE j = n + 1
    BY <1>0, <1>1, <1>2, <2>2
  <2> QED BY <2>1, <2>2
<1>7. \A id \in Nat : id > c.proc.opened => Told(c.trace, id) = << >>
  <2> SUFFICES ASSUME NEW id \in Nat, id > c.proc.opened PROVE Told(c.trace, id) = << >>
    OBVIOUS
  <2>1. e.id # id /\ id > s.proc.opened
    BY <1>0, <1>1
  <2>2. Told(c.trace, id) = Told(s.trace, id) \o << >>
    <3>1. Said(e, id) = << >>
      BY <2>1 DEF Said
    <3> QED BY <1>0, <1>1, <3>1, ToldNext
  <2>3. Told(s.trace, id) = << >>
    BY <2>1 DEF RunInv
  <2>4. << >> \o << >> = << >>
    OBVIOUS
  <2> QED BY <2>2, <2>3, <2>4
<1>8. Being(c)
  <2>1. \A j \in DOMAIN c.trace :
          c.trace[j].type \in {"text_done", "done"} => c.trace[j].id # c.proc.opened
    <3> SUFFICES ASSUME NEW j \in 1..n + 1, c.trace[j].type \in {"text_done", "done"}
                 PROVE  c.trace[j].id # c.proc.opened
      BY <1>2
    <3>1. j # n + 1
      BY <1>2 DEF Tells
    <3>2. j \in 1..n
      BY <3>1
    <3> QED BY <1>2, <3>2 DEF Tells
  <2>2. e.type \in {"added", "delta"} /\ c.proc.text = Told(c.trace, c.proc.opened)
    BY DEF Tells
  <2> QED BY <1>0, <1>2, <2>1, <2>2 DEF Being
<1> QED BY <1>3, <1>4, <1>5, <1>6, <1>7, <1>8 DEF RunInv, Tells

\* Opening an item when none is open.
LEMMA OpenKeeps ==
  ASSUME NEW s, RunInv(s), s.proc.state = None, NEW d \in PartType, NEW target \in States,
         target = "call" => d.tools # << >>, NEW c, c = OpenItem(s, target, d)
  PROVE  /\ RunInv(c)
         /\ c.rejected \/ c.proc.state = target
<1>1. s \in RunType /\ s.proc \in ProcType /\ c \in RunType /\ s.trace \in Seq(EventType)
  BY OpenTyped DEF RunInv, RunType
<1>2. PICK q \in ProcType :
        /\ q = Blank(s.proc, target, d) /\ q.text = << >> /\ q.opened = s.proc.opened
        /\ q.nth = s.proc.nth
  BY <1>1, BlankTyped
<1>3. OpenedAs(c, q, s, target, d)
  BY <1>1, <1>2, OpenIs
<1>4. CASE Nameless(target, d)
  <2>1. /\ c.items = s.items /\ c.proc = s.proc /\ c.trace = s.trace /\ c.rejected = TRUE
    BY <1>3, <1>4 DEF OpenedAs
  <2>2. RunInv(c)
    BY <1>1, <2>1 DEF RunInv, ItemsMatch, Being
  <2> QED BY <1>4, <2>1, <2>2
<1>5. CASE ~Nameless(target, d)
  <2>1. PICK e :
          /\ e = Event("added", c.proc, << >>)
          /\ c.proc = [q EXCEPT !.state = target, !.opened = s.proc.opened + 1]
          /\ c.items = s.items /\ c.trace = Append(s.trace, e)
    BY <1>3, <1>5 DEF OpenedAs
  <2>2. c.proc \in ProcType /\ None \notin States
    BY <1>1 DEF RunType, None, States
  <2>3. /\ c.proc.state = target /\ c.proc.opened = s.proc.opened + 1 /\ c.proc.text = << >>
        /\ c.proc.nth = s.proc.nth
    BY <1>2, <2>1 DEF ProcType
  <2>4. e \in EventType
    <3>1. << >> \in Seq(Nat)
      OBVIOUS
    <3> QED BY <2>1, <2>2, <2>3, <3>1, EventTyped
  <2>5. e.type = "added" /\ e.id = c.proc.opened /\ e.index = s.proc.nth
    BY <2>1, <2>3 DEF Event
  <2>6. s.proc.opened \in Nat /\ \A j \in DOMAIN s.trace : s.trace[j].id \in Nat
    <3>1. \A j \in DOMAIN s.trace : s.trace[j] \in EventType
      BY <1>1
    <3> QED BY <1>1, <3>1 DEF ProcType, EventType
  <2>7. \A j \in DOMAIN s.trace : s.trace[j].id # c.proc.opened
    BY <2>3, <2>6 DEF RunInv
  <2>8. Fits(s.trace, e)
    <3>1. e.index = Cardinality(DoneIn(s.trace))
      BY <2>5 DEF RunInv, ItemsMatch
    <3>2. s.trace = << >> \/ Len(s.trace) \in DoneIn(s.trace)
      BY DEF RunInv
    <3> QED BY <2>5, <2>7, <3>1, <3>2 DEF Fits
  <2>9. Told(c.trace, c.proc.opened) = << >>
    <3>1. Told(s.trace, c.proc.opened) = << >>
      BY <2>3, <2>6 DEF RunInv
    <3>2. Told(c.trace, c.proc.opened) = Told(s.trace, c.proc.opened) \o << >>
      <4>1. Said(e, c.proc.opened) = << >>
        BY <2>5 DEF Said
      <4>2. c.trace = Append(s.trace, e)
        BY <2>1
      <4> QED BY <1>1, <2>4, <4>1, <4>2, ToldNext
    <3>3. << >> \o << >> = << >>
      OBVIOUS
    <3> QED BY <3>1, <3>2, <3>3
  <2>a. c.proc.opened >= s.proc.opened
    BY <2>3, <2>6
  <2>b. RunInv(c)
    <3>1. Tells(s, c, e)
      BY <2>1, <2>2, <2>3, <2>5, <2>7, <2>8, <2>9, <2>a DEF Tells
    <3> QED BY <1>1, <2>4, <3>1, TellingKeeps
  <2> QED BY <1>5, <2>3, <2>b
<1> QED BY <1>4, <1>5

\* Telling the open item.
LEMMA EmitKeeps ==
  ASSUME NEW s, RunInv(s), s.proc.state # None, NEW d \in PartType, NEW c, c = EmitDelta(s, d)
  PROVE  RunInv(c) /\ c.proc.state = s.proc.state /\ c.items = s.items
<1>1. s \in RunType /\ s.proc \in ProcType /\ c \in RunType /\ s.trace \in Seq(EventType)
  BY EmitTextTyped DEF RunInv, RunType
<1>2. CASE Silent(s, d)
  <2>1. c = s
    BY <1>1, <1>2, EmitIs
  <2> QED BY <2>1
<1>3. CASE ~Silent(s, d)
  <2>1. PICK new \in Seq(Nat) : new = New(s.proc, d)
    BY <1>1, NewTyped
  <2>2. PICK e :
          /\ e = Event("delta", c.proc, new)
          /\ c.items = s.items /\ c.trace = Append(s.trace, e)
          /\ c.proc = IF s.proc.state = "content"
                      THEN [s.proc EXCEPT !.text = s.proc.text \o new,
                                          !.logs = LogsAfter(s.proc, d),
                                          !.whole = WholeAfter(s.proc, d)]
                      ELSE [s.proc EXCEPT !.text = s.proc.text \o new, !.sent = TRUE]
    <3>1. EmittedAs(c, s, d, new)
      BY <1>1, <1>3, <2>1, EmitIs
    <3> QED BY <3>1 DEF EmittedAs
  <2>3. c.proc \in ProcType
    BY <1>1 DEF RunType
  <2>4. /\ c.proc.state = s.proc.state /\ c.proc.opened = s.proc.opened
        /\ c.proc.text = s.proc.text \o new /\ c.proc.nth = s.proc.nth
    BY <1>1, <2>2 DEF ProcType
  <2>5. e \in EventType
    BY <2>1, <2>2, <2>3, <2>4, EventTyped
  <2>6. e.type = "delta" /\ e.id = c.proc.opened /\ e.index = s.proc.nth /\ e.text = new
    BY <2>2, <2>4 DEF Event
  <2>7. Being(s)
    BY DEF RunInv
  <2>8. Fits(s.trace, e)
    <3>1. e.index = Cardinality(DoneIn(s.trace))
      BY <2>6 DEF RunInv, ItemsMatch
    <3>2. Len(s.trace) \notin DoneIn(s.trace)
      BY <2>7 DEF Being, DoneIn
    <3> QED BY <2>4, <2>6, <2>7, <3>1, <3>2 DEF Fits, Being
  <2>9. Told(c.trace, c.proc.opened) = c.proc.text
    <3>1. Told(c.trace, c.proc.opened) = Told(s.trace, c.proc.opened) \o new
      <4>1. Said(e, c.proc.opened) = new
        BY <2>6 DEF Said
      <4>2. c.trace = Append(s.trace, e)
        BY <2>2
      <4> QED BY <1>1, <2>5, <4>1, <4>2, ToldNext
    <3> QED BY <2>4, <2>7, <3>1 DEF Being
  <2>a. c.proc.opened >= s.proc.opened
    BY <1>1, <2>4 DEF ProcType
  <2>b. RunInv(c)
    <3>1. \A j \in DOMAIN s.trace :
            s.trace[j].type \in {"text_done", "done"} => s.trace[j].id # c.proc.opened
      BY <2>4, <2>7 DEF Being
    <3>2. Tells(s, c, e)
      BY <2>2, <2>4, <2>6, <2>8, <2>9, <2>a, <3>1 DEF Tells
    <3> QED BY <1>1, <2>5, <3>2, TellingKeeps
  <2> QED BY <2>2, <2>4, <2>b
<1> QED BY <1>2, <1>3

\* The trace before the last event of an item.
Ready(m, s) ==
  /\ m \in Seq(EventType) /\ m # << >> /\ TraceInv(m)
  /\ DoneIn(m) = DoneIn(s.trace)
  /\ m[Len(m)].id = s.proc.opened /\ Len(m) \notin DoneIn(m)
  /\ \A j \in DOMAIN m : m[j].id <= s.proc.opened
  /\ \A id : Told(m, id) = Told(s.trace, id)
  /\ \A k \in DoneIn(s.trace) : m[k] = s.trace[k]

\* An item that has told nothing is done without another event.
LEMMA ReadyAtOnce ==
  ASSUME NEW s, RunInv(s), s.proc.state # None
  PROVE  Ready(s.trace, s)
<1>1. s.trace \in Seq(EventType)
  BY DEF RunInv, RunType
<1>2. Being(s)
  BY DEF RunInv
<1>3. Len(s.trace) \notin DoneIn(s.trace)
  BY <1>2 DEF Being, DoneIn
<1> QED BY <1>1, <1>2, <1>3 DEF RunInv, Being, Ready

\* An item that has told something is done after its text.
LEMMA ReadyAfterText ==
  ASSUME NEW s, RunInv(s), s.proc.state # None,
         NEW m, m = Append(s.trace, Event("text_done", s.proc, s.proc.text))
  PROVE  Ready(m, s)
<1>1. PICK tr \in Seq(EventType), e \in EventType :
        /\ tr = s.trace /\ e = Event("text_done", s.proc, s.proc.text) /\ m = Append(tr, e)
  <2>1. s.trace \in Seq(EventType) /\ s.proc \in ProcType /\ s.proc.text \in Seq(Nat)
    BY DEF RunInv, RunType, ProcType
  <2> QED BY <2>1, EventTyped
<1>2. /\ e.type = "text_done" /\ e.id = s.proc.opened /\ e.index = s.proc.nth
      /\ e.text = s.proc.text /\ s.proc.opened \in Nat
  BY <1>1 DEF Event, RunInv, RunType, ProcType
<1>3. Being(s) /\ TraceInv(tr)
  BY <1>1 DEF RunInv
<1>4. Fits(tr, e)
  <2>1. e.index = Cardinality(DoneIn(tr))
    BY <1>1, <1>2 DEF RunInv, ItemsMatch
  <2>2. Len(tr) \notin DoneIn(tr)
    BY <1>1, <1>3 DEF Being, DoneIn
  <2> QED BY <1>1, <1>2, <1>3, <2>1, <2>2 DEF Fits, Being
<1>5. /\ m \in Seq(EventType) /\ Len(tr) \in Nat /\ Len(m) = Len(tr) + 1
      /\ DOMAIN tr = 1..Len(tr) /\ DOMAIN m = 1..Len(tr) + 1
      /\ m[Len(tr) + 1] = e /\ \A k \in 1..Len(tr) : m[k] = tr[k]
      /\ m # << >>
  BY <1>1, OneMore
<1>6. TraceInv(m)
  BY <1>1, <1>3, <1>4, TraceNext
<1>7. DoneIn(m) = DoneIn(tr) /\ DoneIn(tr) \subseteq 1..Len(tr)
  BY <1>1, <1>2, DoneNext
<1>8. Len(m) \notin DoneIn(m)
  BY <1>2, <1>5 DEF DoneIn
<1>9. \A j \in DOMAIN m : m[j].id <= s.proc.opened
  <2> SUFFICES ASSUME NEW j \in 1..Len(tr) + 1 PROVE m[j].id <= s.proc.opened
    BY <1>5
  <2>1. CASE j \in 1..Len(tr)
    BY <1>1, <1>5, <2>1 DEF RunInv
  <2>2. CASE j = Len(tr) + 1
    BY <1>2, <1>5, <2>2
  <2>3. j \in 1..Len(tr) \/ j = Len(tr) + 1
    BY <1>5
  <2> QED BY <2>1, <2>2, <2>3
<1>a. \A id : Told(m, id) = Told(tr, id)
  <2> SUFFICES ASSUME NEW id PROVE Told(m, id) = Told(tr, id)
    OBVIOUS
  <2>1. Said(e, id) = << >>
    BY <1>2 DEF Said
  <2>2. Told(Append(tr, e), id) = Told(tr, id) \o Said(e, id) /\ Told(tr, id) \in Seq(Nat)
    BY ToldNext
  <2> QED BY <1>1, <2>1, <2>2, ConcatEmptySeq
<1>b. \A k \in DoneIn(tr) : m[k] = tr[k]
  BY <1>5, <1>7
<1>c. m[Len(m)].id = s.proc.opened
  BY <1>2, <1>5
<1> QED BY <1>1, <1>5, <1>6, <1>7, <1>8, <1>9, <1>a, <1>b, <1>c DEF Ready

\* Closing keeps the run as it should be, and the item is kept.
LEMMA CloseKeeps ==
  ASSUME NEW s, RunInv(s), NEW truncated \in BOOLEAN, NEW c, c = CloseCurrent(s, truncated)
  PROVE  RunInv(c) /\ c.proc.state = None /\ c.rejected = s.rejected
<1>1. s \in RunType /\ s.proc \in ProcType /\ c \in RunType /\ s.trace \in Seq(EventType)
  BY CloseTyped DEF RunInv, RunType
<1>2. CASE s.proc.state = None
  <2>1. c = s
    BY <1>1, <1>2, CloseIs
  <2> QED BY <1>2, <2>1
<1>3. CASE s.proc.state # None
  <2>0. ClosedAs(c, s, truncated)
    BY <1>1, <1>3, CloseIs
  <2>1. PICK e \in EventType, f \in EventType :
          e = Event("text_done", s.proc, s.proc.text) /\ f = Event("done", s.proc, s.proc.text)
    <3>1. s.proc.text \in Seq(Nat)
      BY <1>1 DEF ProcType
    <3> QED BY <1>1, <1>3, <3>1, EventTyped
  <2>2. PICK item :
          /\ c.proc = [s.proc EXCEPT !.nth = s.proc.nth + 1, !.state = None]
          /\ c.items = Append(s.items, item) /\ item.id = s.proc.opened
          /\ item.state = s.proc.state /\ item.text = s.proc.text
    <3>1. c.items = Append(s.items, [id |-> s.proc.opened, state |-> s.proc.state,
                                     name |-> s.proc.name, text |-> s.proc.text,
                                     logs |-> s.proc.logs,
                                     status |-> Status(s.proc, truncated)])
      BY <2>0 DEF ClosedAs
    <3>2. c.proc = [s.proc EXCEPT !.nth = s.proc.nth + 1, !.state = None]
      BY <2>0 DEF ClosedAs
    <3> QED BY <3>1, <3>2
  <2>3. PICK m : Ready(m, s) /\ c.trace = Append(m, f)
    <3>1. c.trace = s.trace \o (IF s.proc.state = "call" /\ ~s.proc.sent THEN << >>
                                ELSE <<Event("text_done", s.proc, s.proc.text)>>)
                            \o <<Event("done", s.proc, s.proc.text)>>
      BY <2>0 DEF ClosedAs
    <3>2. CASE s.proc.state = "call" /\ ~s.proc.sent
      <4>1. s.trace \o << >> = s.trace
        BY <1>1, ConcatEmptySeq
      <4>2. s.trace \o <<f>> = Append(s.trace, f)
        BY <1>1
      <4>3. c.trace = Append(s.trace, f)
        BY <2>1, <3>1, <3>2, <4>1, <4>2
      <4> QED BY <1>3, <4>3, ReadyAtOnce
    <3>3. CASE ~(s.proc.state = "call" /\ ~s.proc.sent)
      <4>0. s.trace \o <<e>> = Append(s.trace, e) /\ Append(s.trace, e) \in Seq(EventType)
        BY <1>1
      <4>1. PICK m \in Seq(EventType) : m = Append(s.trace, e) /\ m = s.trace \o <<e>>
        BY <4>0
      <4>2. m \o <<f>> = Append(m, f)
        OBVIOUS
      <4>3. c.trace = Append(m, f)
        BY <2>1, <3>1, <3>3, <4>1, <4>2
      <4>4. Ready(m, s)
        BY <1>3, <2>1, <4>1, ReadyAfterText
      <4> QED BY <4>3, <4>4
    <3> QED BY <3>2, <3>3
  <2>4. m \in Seq(EventType) /\ c.proc \in ProcType /\ s.items \in Seq(ItemType)
    BY <1>1, <2>3 DEF Ready, RunType
  <2>5. /\ f.type = "done" /\ f.id = s.proc.opened /\ f.index = s.proc.nth
        /\ f.text = s.proc.text /\ f.state = s.proc.state
        /\ s.proc.opened \in Nat /\ s.proc.nth \in Nat
    BY <1>1, <2>1 DEF Event, ProcType
  <2>6. /\ c.proc.state = None /\ c.proc.opened = s.proc.opened
        /\ c.proc.nth = s.proc.nth + 1
    BY <1>1, <2>2 DEF ProcType
  <2>7. Fits(m, f)
    <3>1. f.index = Cardinality(DoneIn(m))
      BY <2>3, <2>5 DEF RunInv, ItemsMatch, Ready
    <3>2. f.text = Told(m, f.id)
      BY <1>3, <2>3, <2>5 DEF RunInv, Being, Ready
    <3> QED BY <2>3, <2>5, <3>1, <3>2 DEF Fits, Ready
  <2>8. TraceInv(c.trace)
    <3>1. TraceInv(m)
      BY <2>3 DEF Ready
    <3> QED BY <2>3, <2>4, <2>7, <3>1, TraceNext
  <2>9. /\ c.trace \in Seq(EventType) /\ Len(m) \in Nat /\ Len(c.trace) = Len(m) + 1
        /\ DOMAIN m = 1..Len(m) /\ DOMAIN c.trace = 1..Len(m) + 1
        /\ c.trace[Len(m) + 1] = f /\ \A k \in 1..Len(m) : c.trace[k] = m[k]
        /\ c.trace # << >>
    <3>1. PICK more : more = c.trace /\ more = Append(m, f)
      BY <2>3
    <3> QED BY <2>4, <3>1, OneMore
  <2>a. /\ DoneIn(c.trace) = DoneIn(s.trace) \cup {Len(m) + 1}
        /\ Cardinality(DoneIn(c.trace)) = Cardinality(DoneIn(s.trace)) + 1
        /\ DoneIn(s.trace) \subseteq 1..Len(m)
    <3>1. DoneIn(m) = DoneIn(s.trace)
      BY <2>3 DEF Ready
    <3> QED BY <2>3, <2>4, <2>5, <3>1, DoneNext
  <2>b. PICK n \in Nat :
          /\ n = Len(s.items) /\ Len(c.items) = n + 1 /\ c.items[n + 1] = item
          /\ (\A k \in 1..n : c.items[k] = s.items[k]) /\ n = s.proc.nth
    <3>2. /\ Len(s.items) \in Nat /\ Len(Append(s.items, item)) = Len(s.items) + 1
          /\ Append(s.items, item)[Len(s.items) + 1] = item
          /\ \A k \in 1..Len(s.items) : Append(s.items, item)[k] = s.items[k]
      BY <2>4
    <3>3. s.proc.nth = Len(s.items)
      BY DEF RunInv
    <3> QED BY <2>2, <3>2, <3>3
  <2>c. ItemsMatch(c)
    <3>1. Len(c.items) = Cardinality(DoneIn(c.trace))
      BY <2>a, <2>b DEF RunInv, ItemsMatch
    <3>2. ASSUME NEW k \in DoneIn(c.trace)
          PROVE  /\ c.trace[k].index < Len(c.items)
                 /\ c.items[c.trace[k].index + 1].id = c.trace[k].id
                 /\ c.items[c.trace[k].index + 1].state = c.trace[k].state
                 /\ c.items[c.trace[k].index + 1].text = c.trace[k].text
      <4>1. CASE k = Len(m) + 1
        BY <2>2, <2>5, <2>9, <2>b, <4>1
      <4>2. CASE k \in DoneIn(s.trace)
        <5>1. c.trace[k] = s.trace[k]
          BY <2>3, <2>9, <2>a, <4>2 DEF Ready
        <5>2. k \in DOMAIN s.trace
          BY <4>2 DEF DoneIn
        <5>3. s.trace[k] \in EventType
          BY <1>1, <5>2
        <5>4. s.trace[k].index \in Nat
          BY <5>3 DEF EventType
        <5>5. /\ s.trace[k].index < n
              /\ s.items[s.trace[k].index + 1].id = s.trace[k].id
              /\ s.items[s.trace[k].index + 1].state = s.trace[k].state
              /\ s.items[s.trace[k].index + 1].text = s.trace[k].text
          BY <2>b, <4>2 DEF RunInv, ItemsMatch
        <5>6. s.trace[k].index + 1 \in 1..n
          BY <5>4, <5>5
        <5>7. PICK x \in 1..n : x = s.trace[k].index + 1
          BY <5>6
        <5>8. c.items[x] = s.items[x]
          BY <2>b, <5>7
        <5>9. c.trace[k].index < Len(c.items)
          BY <2>b, <5>1, <5>4, <5>5
        <5> QED BY <5>1, <5>5, <5>7, <5>8, <5>9
      <4> QED BY <2>a, <4>1, <4>2
    <3> QED BY <3>1, <3>2 DEF ItemsMatch
  <2>d. \A j \in DOMAIN c.trace : c.trace[j].id <= c.proc.opened
    <3> SUFFICES ASSUME NEW j \in 1..Len(m) + 1 PROVE c.trace[j].id <= c.proc.opened
      BY <2>9
    <3>1. CASE j \in 1..Len(m)
      BY <2>3, <2>6, <2>9, <3>1 DEF Ready
    <3>2. CASE j = Len(m) + 1
      BY <2>5, <2>6, <2>9, <3>2
    <3>3. j \in 1..Len(m) \/ j = Len(m) + 1
      BY <2>9
    <3> QED BY <3>1, <3>2, <3>3
  <2>e. \A id \in Nat : id > c.proc.opened => Told(c.trace, id) = << >>
    <3> SUFFICES ASSUME NEW id \in Nat, id > c.proc.opened PROVE Told(c.trace, id) = << >>
      OBVIOUS
    <3>1. Said(f, id) = << >>
      BY <2>5 DEF Said
    <3>2. Told(c.trace, id) = Told(m, id) \o << >>
      BY <2>3, <2>4, <3>1, ToldNext
    <3>3. Told(m, id) = << >>
      BY <2>3, <2>6 DEF Ready, RunInv
    <3>4. << >> \o << >> = << >>
      OBVIOUS
    <3> QED BY <3>2, <3>3, <3>4
  <2>f. Len(c.trace) \in DoneIn(c.trace)
    BY <2>9, <2>a
  <2>g. c.rejected = s.rejected
    BY <2>0 DEF ClosedAs
  <2>h. c.proc.nth = Len(c.items)
    BY <2>6, <2>b
  <2> QED BY <1>1, <2>6, <2>8, <2>c, <2>d, <2>e, <2>f, <2>g, <2>h DEF RunInv
<1> QED BY <1>2, <1>3

\* So does a part of a delta.
LEMMA StepKeeps ==
  ASSUME NEW s, RunInv(s), NEW d \in PartType
  PROVE  RunInv(Step(s, d))
<1>1. PICK target : target = TargetState(d)
  OBVIOUS
<1>2. s \in RunType /\ None \notin States /\ (target = "call" => d.tools # << >>)
  BY <1>1, TargetTyped DEF RunInv, None, States
<1>3. CASE Step(s, d) = s
  BY <1>3
<1>4. CASE target \in States /\ s.proc.state = target /\ Step(s, d) = EmitDelta(s, d)
  BY <1>2, <1>4, EmitKeeps
<1>5. CASE target \in States /\ Reopens(s, d, target)
  <2>1. PICK c \in RunType, o \in RunType :
          /\ c = CloseCurrent(s, FALSE) /\ o = OpenItem(c, target, d)
          /\ o.rejected => Step(s, d) = o
          /\ ~o.rejected => Step(s, d) = EmitDelta(o, d)
    BY <1>5 DEF Reopens
  <2>2. RunInv(c) /\ c.proc.state = None
    BY <2>1, CloseKeeps
  <2>3. RunInv(o) /\ (o.rejected \/ o.proc.state = target)
    <3>1. PICK x \in States : x = target /\ (x = "call" => d.tools # << >>)
      BY <1>2, <1>5
    <3>2. o = OpenItem(c, x, d)
      BY <2>1, <3>1
    <3> QED BY <2>2, <3>1, <3>2, OpenKeeps
  <2>4. CASE o.rejected
    BY <2>1, <2>3, <2>4
  <2>5. CASE ~o.rejected
    <3>1. o.proc.state # None
      BY <1>2, <1>5, <2>3, <2>5
    <3> QED BY <2>1, <2>3, <2>5, <3>1, EmitKeeps
  <2> QED BY <2>4, <2>5
<1>6. \/ Step(s, d) = s
      \/ target \in States /\ s.proc.state = target /\ Step(s, d) = EmitDelta(s, d)
      \/ target \in States /\ Reopens(s, d, target)
  BY <1>1, <1>2, StepIs
<1> QED BY <1>3, <1>4, <1>5, <1>6

\* All the parts of a delta.
LEMMA RunKeeps ==
  ASSUME NEW s, RunInv(s), NEW parts \in Seq(PartType)
  PROVE  RunInv(Run(s, parts))
<1>1. PICK n \in Nat : n = Len(parts)
  OBVIOUS
<1> DEFINE P(m) == RunInv(Run(s, SubSeq(parts, 1, m)))
           G == {m \in 0..n : P(m)}
<1>2. P(0)
  BY PrefixEnds, RunNone
<1>3. ASSUME NEW m \in 0..n, m < n, P(m) PROVE P(m + 1)
  <2>1. PICK u \in Seq(PartType), x \in PartType :
          u = SubSeq(parts, 1, m) /\ SubSeq(parts, 1, m + 1) = Append(u, x)
    <3>1. m \in 0..Len(parts) /\ m < Len(parts)
      BY <1>1, <1>3
    <3>2. /\ SubSeq(parts, 1, m) \in Seq(PartType) /\ parts[m + 1] \in PartType
          /\ SubSeq(parts, 1, m + 1) = Append(SubSeq(parts, 1, m), parts[m + 1])
      BY <3>1, PrefixNext
    <3> QED BY <3>2
  <2>2. Run(s, Append(u, x)) = Step(Run(s, u), x)
    BY RunNext
  <2>3. RunInv(Run(s, u))
    BY <1>3, <2>1
  <2>4. RunInv(Step(Run(s, u), x))
    BY <2>3, StepKeeps
  <2> QED BY <2>1, <2>2, <2>4
<1>4. \A m \in 0..n : m \in G
  <2> HIDE DEF P
  <2>1. 0 \in G
    BY <1>2
  <2>2. ASSUME NEW m \in 0..n, m < n, m \in G PROVE m + 1 \in G
    <3>1. P(m)
      BY <2>2
    <3>2. P(m + 1)
      BY <2>2, <3>1, <1>3
    <3>3. m + 1 \in 0..n
      BY <2>2
    <3> QED BY <3>2, <3>3
  <2> HIDE DEF G
  <2> QED BY <2>1, <2>2, UpTo
<1>5. P(n)
  <2> HIDE DEF P
  <2> QED BY <1>4
<1> QED BY <1>1, <1>5, PrefixEnds

-----------------------------------------------------------------------------
\* What the parser hands over, and its parts.

\* Only numbers of the set, and none beyond the bound.
LEMMA AscendingTyped ==
  ASSUME NEW set, NEW n \in Nat
  PROVE  Ascending(set, n) \in Seq(set \cap 1..n)
<1> DEFINE S == set \cap 1..n
           pick == [k \in 1..n |-> IF k \in set THEN <<k>> ELSE << >>]
<1>1. \A k \in 1..n : (IF k \in set THEN <<k>> ELSE << >>) \in Seq(S)
  <2> TAKE k \in 1..n
  <2>1. CASE k \in set
    <3>1. k \in S
      BY <2>1
    <3> HIDE DEF S
    <3> QED BY <2>1, <3>1
  <2>2. CASE k \notin set
    BY <2>2
  <2> QED BY <2>1, <2>2
<1>2. pick \in Seq(Seq(S))
  <2> HIDE DEF S
  <2> QED BY <1>1
<1>3. FlattenSeq(pick) \in Seq(S)
  <2> HIDE DEF S, pick
  <2> QED BY <1>2, FlattenTyped
<1> QED BY <1>3 DEF Ascending

\* Where a place of a sequence of places is.
LEMMA SeqIn ==
  ASSUME NEW S, NEW t \in Seq(S), NEW T, S \subseteq T
  PROVE  t \in Seq(T)
OBVIOUS

\* Places of a generation.
LEMMA PlacesTyped ==
  ASSUME NEW ps \in Seq(Sorts), NEW first \in Nat, NEW sorts
  PROVE  /\ Places(ps, first, sorts) \in Seq(Nat)
         /\ Places(ps, first, sorts) \in Seq(DOMAIN ps)
<1> DEFINE set == {i \in first..Len(ps) : ps[i] \in sorts}
<1>1. Len(ps) \in Nat /\ DOMAIN ps = 1..Len(ps)
  OBVIOUS
<1>2. Ascending(set, Len(ps)) \in Seq(set \cap 1..Len(ps))
  <2> HIDE DEF set
  <2> QED BY <1>1, AscendingTyped
<1>3. Places(ps, first, sorts) = Ascending(set, Len(ps))
  BY DEF Places
<1> HIDE DEF set
<1>4. set \cap 1..Len(ps) \subseteq Nat /\ set \cap 1..Len(ps) \subseteq DOMAIN ps
  BY <1>1
<1> QED BY <1>2, <1>3, <1>4, SeqIn

\* The index of a call.
LEMMA CallTyped ==
  ASSUME NEW ps, NEW i \in Nat
  PROVE  CallOf(ps, i) \in Int
<1> DEFINE names == {j \in 1..i : ps[j] = "name"}
<1>1. IsFiniteSet(1..i) /\ names \subseteq 1..i
  BY FS_Interval
<1>2. Cardinality(names) \in Nat
  <2> HIDE DEF names
  <2> QED BY <1>1, FS_Subset, FS_CardinalityType
<1> HIDE DEF names
<1>3. Cardinality(names) - 1 \in Int
  BY <1>2
<1> QED BY <1>3 DEF CallOf, names

\* The delta of a batch.
LEMMA DeltaTyped ==
  ASSUME NEW ps \in Seq(Sorts), NEW first \in Nat, NEW blank \in BOOLEAN, NEW aligned \in BOOLEAN
  PROVE  Delta(ps, first, blank, aligned) \in PartType
<1>1. \A t \in Seq(Nat), b \in BOOLEAN : Optional(t, b) \in FieldType
  BY DEF Optional, Field, Absent, FieldType
<1>2. Absent \in FieldType
  BY DEF Absent, FieldType
<1>3. PICK r \in Seq(Nat), c \in Seq(Nat), called \in Seq(DOMAIN ps) :
        /\ r = Places(ps, first, {"reasoning"}) /\ c = Places(ps, first, {"content"})
        /\ called = Places(ps, first, {"name", "args"})
  BY PlacesTyped
<1>4. \A i \in DOMAIN ps : Entry(ps, i) \in ToolType
  <2> TAKE i \in DOMAIN ps
  <2>1. i \in Nat /\ <<i>> \in Seq(Nat) /\ << >> \in Seq(Nat)
    BY DOMAIN ps = 1..Len(ps)
  <2>2. CallOf(ps, i) \in Int
    BY <2>1, CallTyped
  <2> QED BY <2>1, <2>2 DEF Entry, ToolType
<1>5. PICK tools \in Seq(ToolType) : tools = [i \in DOMAIN called |-> Entry(ps, called[i])]
  <2>1. /\ Len(called) \in Nat /\ DOMAIN called = 1..Len(called)
        /\ \A i \in 1..Len(called) : called[i] \in DOMAIN ps
    OBVIOUS
  <2>2. \A i \in 1..Len(called) : Entry(ps, called[i]) \in ToolType
    BY <1>4, <2>1
  <2>3. [i \in DOMAIN called |-> Entry(ps, called[i])] \in Seq(ToolType)
    BY <2>1, <2>2
  <2> QED BY <2>3
<1>6. PICK x \in FieldType, y \in FieldType, z \in Seq(Nat) :
        /\ x = IF hidden THEN Absent ELSE Optional(r, FALSE)
        /\ y = Optional(c, blank)
        /\ z = IF aligned THEN c ELSE << >>
  <2>1. Optional(r, FALSE) \in FieldType /\ Optional(c, blank) \in FieldType
    BY <1>1
  <2>2. (IF hidden THEN Absent ELSE Optional(r, FALSE)) \in FieldType
    BY <1>2, <2>1
  <2>3. (IF aligned THEN c ELSE << >>) \in Seq(Nat)
    <3>1. << >> \in Seq(Nat)
      OBVIOUS
    <3> QED BY <3>1
  <2> QED BY <2>1, <2>2, <2>3
<1>7. Delta(ps, first, blank, aligned)
        = [reasoning |-> x, content |-> y, logs |-> z, tools |-> tools]
  BY <1>3, <1>5, <1>6 DEF Delta
<1> QED BY <1>7 DEF PartType

\* A part with entries only.
LEMMA OnlyTyped ==
  ASSUME NEW d \in PartType, NEW tools \in Seq(ToolType)
  PROVE  /\ Only(d, tools) \in PartType /\ Only(d, tools).tools = tools
         /\ Only(d, tools).reasoning = Absent /\ Only(d, tools).content = Absent
         /\ Only(d, tools).logs = d.logs
<1>1. Absent \in FieldType
  BY DEF Absent, FieldType
<1> QED BY <1>1 DEF Only, PartType

\* The entries of a group.
LEMMA GroupTyped ==
  ASSUME NEW d \in PartType, NEW x
  PROVE  Group(d, x) \in Seq(ToolType)
<1> DEFINE set == {i \in DOMAIN d.tools : d.tools[i].index = x}
<1>1. d.tools \in Seq(ToolType) /\ Len(d.tools) \in Nat /\ DOMAIN d.tools = 1..Len(d.tools)
  BY DEF PartType
<1>2. PICK own : own = Ascending(set, Len(d.tools)) /\ own \in Seq(set \cap 1..Len(d.tools))
  <2> HIDE DEF set
  <2> QED BY <1>1, AscendingTyped
<1>3. own \in Seq(DOMAIN d.tools)
  BY <1>1, <1>2
<1>4. [k \in DOMAIN own |-> d.tools[own[k]]] \in Seq(ToolType)
  <2>1. \A i \in DOMAIN d.tools : d.tools[i] \in ToolType
    BY <1>1
  <2> QED BY <1>3, <2>1
<1> QED BY <1>2, <1>4 DEF Group

\* The parts of the groups.
LEMMA GroupsTyped ==
  ASSUME NEW d \in PartType, NEW new \in BOOLEAN
  PROVE  Groups(d, new) \in Seq(PartType)
<1> DEFINE set == {i \in Starts(d) : Introduces(d, d.tools[i].index) = new}
<1>1. Len(d.tools) \in Nat
  BY DEF PartType
<1>2. PICK starts : starts = Ascending(set, Len(d.tools)) /\ starts \in Seq(set \cap 1..Len(d.tools))
  <2> HIDE DEF set
  <2> QED BY <1>1, AscendingTyped
<1>3. \A x : Only(d, Group(d, x)) \in PartType
  BY GroupTyped, OnlyTyped
<1>4. [k \in DOMAIN starts |-> Only(d, Group(d, d.tools[starts[k]].index))] \in Seq(PartType)
  <2>1. Len(starts) \in Nat /\ DOMAIN starts = 1..Len(starts)
    BY <1>2
  <2> QED BY <1>3, <2>1
<1> QED BY <1>2, <1>4 DEF Groups

\* The parts of the texts.
LEMMA TextsTyped ==
  ASSUME NEW d \in PartType
  PROVE  Texts(d) \in Seq(PartType)
<1>1. Only(d, << >>) \in PartType
  <2>1. << >> \in Seq(ToolType)
    OBVIOUS
  <2> QED BY <2>1, OnlyTyped
<1>2. d.reasoning \in FieldType /\ d.content \in FieldType
  BY DEF PartType
<1>3. PICK r \in PartType, c \in PartType :
        /\ r = [Only(d, << >>) EXCEPT !.reasoning = d.reasoning]
        /\ c = [Only(d, << >>) EXCEPT !.content = d.content]
  BY <1>1, <1>2 DEF PartType
<1>4. <<r>> \in Seq(PartType) /\ <<c>> \in Seq(PartType) /\ << >> \in Seq(PartType)
  OBVIOUS
<1>5. PICK a \in Seq(PartType), b \in Seq(PartType) :
        /\ a = IF d.reasoning.is THEN <<r>> ELSE << >>
        /\ b = IF d.content.is THEN <<c>> ELSE << >>
  BY <1>4
<1>6. a \o b \in Seq(PartType)
  BY ConcatProperties
<1> QED BY <1>3, <1>5, <1>6 DEF Texts

\* All the parts of a delta.
LEMMA SplitTyped ==
  ASSUME NEW d \in PartType
  PROVE  SplitDelta(d) \in Seq(PartType)
<1>1. <<d>> \in Seq(PartType)
  OBVIOUS
<1>2. PICK a \in Seq(PartType), b \in Seq(PartType), c \in Seq(PartType) :
        a = Groups(d, FALSE) /\ b = Texts(d) /\ c = Groups(d, TRUE)
  BY GroupsTyped, TextsTyped
<1>3. a \o b \in Seq(PartType)
  BY ConcatProperties
<1>4. (a \o b) \o c \in Seq(PartType)
  BY <1>3, ConcatProperties
<1> QED BY <1>1, <1>2, <1>4 DEF SplitDelta

-----------------------------------------------------------------------------
\* The run that the processor's state, the items and the events stand for.
Current == [proc |-> proc, items |-> items, trace |-> trace, rejected |-> FALSE]

ToldInv == pieces \in Seq(Sorts) /\ RunInv(Current)

\* A run is as it should be whether or not it was refused.
LEMMA RunPart ==
  ASSUME NEW s, RunInv(s), proc' = s.proc, items' = s.items, trace' = s.trace
  PROVE  RunInv(Current)'
<1>1. PICK c : c = [proc |-> s.proc, items |-> s.items, trace |-> s.trace, rejected |-> FALSE]
  OBVIOUS
<1>2. Current' = c
  BY <1>1 DEF Current
<1>3. RunInv(c)
  BY <1>1 DEF RunInv, RunType, ItemsMatch, Being
<1> QED BY <1>2, <1>3

\* At first nothing has been told.
LEMMA ToldStarts == ItemsInit => ToldInv
<1> SUFFICES ASSUME ItemsInit PROVE ToldInv
  OBVIOUS
<1>1. PICK c : c = [proc |-> Fresh, items |-> << >>, trace |-> << >>, rejected |-> FALSE]
  OBVIOUS
<1>2. Current = c /\ pieces = << >>
  BY <1>1 DEF ItemsInit, Current
<1>3. c.proc = Fresh /\ c.items = << >> /\ c.trace = << >>
  BY <1>1
<1>4. c \in RunType
  <2>1. Fresh \in ProcType
    BY DEF Fresh, ProcType, None
  <2> QED BY <1>1, <2>1 DEF RunType
<1>5. DOMAIN << >> = {}
  OBVIOUS
<1>6. DoneIn(<< >>) = {} /\ TraceInv(<< >>)
  BY <1>5 DEF DoneIn, TraceInv
<1>7. \A id : Told(<< >>, id) = << >>
  BY FlattenNone DEF Told
<1>8. ItemsMatch(c)
  BY <1>3, <1>6, FS_EmptySet DEF ItemsMatch
<1>9. RunInv(c)
  BY <1>3, <1>4, <1>5, <1>6, <1>7, <1>8 DEF RunInv, Fresh
<1> QED BY <1>2, <1>9 DEF ToldInv

\* A batch of pieces.
LEMMA ToldParse ==
  ASSUME ToldInv, NEW n \in 1..MaxBatch, NEW blank \in BOOLEAN, NEW aligned \in BOOLEAN,
         Parse(n, blank, aligned)
  PROVE  ToldInv'
<1>1. PICK more \in [1..n -> Sorts] :
        /\ pieces' = pieces \o more
        /\ \E s : /\ s = Processed(Delta(pieces \o more, Len(pieces) + 1, blank, aligned))
                  /\ proc' = s.proc /\ items' = s.items /\ trace' = s.trace
  BY DEF Parse
<1>2. pieces \in Seq(Sorts) /\ RunInv(Current) /\ Len(pieces) + 1 \in Nat
  BY DEF ToldInv
<1>3. pieces \o more \in Seq(Sorts)
  <2>1. more \in Seq(Sorts)
    BY <1>1
  <2> QED BY <1>2, <2>1, ConcatProperties
<1>4. PICK d \in PartType : d = Delta(pieces \o more, Len(pieces) + 1, blank, aligned)
  BY <1>2, <1>3, DeltaTyped
<1>5. PICK s : /\ s = Run(Current, SplitDelta(d))
               /\ proc' = s.proc /\ items' = s.items /\ trace' = s.trace
  BY <1>1, <1>4 DEF Processed, Current
<1>6. RunInv(s)
  BY <1>2, <1>5, SplitTyped, RunKeeps
<1>7. RunInv(Current)'
  BY <1>5, <1>6, RunPart
<1> QED BY <1>1, <1>3, <1>7 DEF ToldInv

\* The end of the stream.
LEMMA ToldEnd ==
  ASSUME ToldInv, NEW truncated \in BOOLEAN, EndStream(truncated)
  PROVE  ToldInv'
<1>1. PICK b : b = [proc |-> proc, items |-> items, trace |-> trace]
  OBVIOUS
<1>2. PICK s : s = CloseCurrent(b, truncated) /\ proc' = s.proc /\ items' = s.items /\ trace' = s.trace
  BY <1>1 DEF EndStream
<1>3. PICK c : c = CloseCurrent(Current, truncated)
  OBVIOUS
<1>4. s.proc = c.proc /\ s.items = c.items /\ s.trace = c.trace
  BY <1>1, <1>2, <1>3 DEF CloseCurrent, Current
<1>5. RunInv(c)
  BY <1>3, CloseKeeps DEF ToldInv
<1>6. RunInv(Current)'
  BY <1>2, <1>4, <1>5, RunPart
<1> QED BY <1>6 DEF ToldInv, EndStream

\* Every item is told as it is kept, and the run is as it should be, whatever
\* is generated and however it is merged into deltas.
THEOREM ItemsAreTold == MCSpec => []ToldInv
<1>1. MCInit => ToldInv
  BY ToldStarts DEF MCInit
<1>2. ToldInv /\ [MCNext]_<<part, serverVars, itemVars>> => ToldInv'
  <2> SUFFICES ASSUME ToldInv, [MCNext]_<<part, serverVars, itemVars>> PROVE ToldInv'
    OBVIOUS
  <2>1. CASE UNCHANGED itemVars
    BY <2>1 DEF ToldInv, itemVars, Current
  <2>2. ASSUME NEW n \in 1..MaxBatch, NEW blank \in BOOLEAN, NEW aligned \in BOOLEAN,
               Parse(n, blank, aligned)
        PROVE  ToldInv'
    BY <2>2, ToldParse
  <2>3. ASSUME NEW truncated \in BOOLEAN, EndStream(truncated)
        PROVE  ToldInv'
    BY <2>3, ToldEnd
  <2>4. ItemsNext => ToldInv'
    BY <2>2, <2>3 DEF ItemsNext
  <2> QED BY <2>1, <2>4 DEF MCNext
<1> QED BY <1>1, <1>2, PTL DEF MCSpec

\* What the client has put together is what is kept.
LEMMA ToldAgrees == ToldInv => ClientAgrees
<1> SUFFICES ASSUME ToldInv PROVE ClientAgrees
  OBVIOUS
<1>1. /\ TraceInv(trace) /\ Len(items) = Cardinality(DoneIn(trace))
      /\ \A k \in DoneIn(trace) :
           /\ items[trace[k].index + 1].id = trace[k].id
           /\ items[trace[k].index + 1].state = trace[k].state
           /\ items[trace[k].index + 1].text = trace[k].text
  BY DEF ToldInv, RunInv, ItemsMatch, Current
<1>2. DoneAt = DoneIn(trace)
  BY DEF DoneAt, DoneIn
<1>3. \A id : Deltas(id) = Told(trace, id)
  BY DEF Deltas, Told, Said
<1> QED BY <1>1, <1>2, <1>3 DEF ClientAgrees, TraceInv

\* The client and the final response agree on every item, whatever is
\* generated and however it is merged into deltas.
THEOREM ClientsAgree == MCSpec => []ClientAgrees
BY ItemsAreTold, ToldAgrees, PTL

\* The numbers of a set up to the next number.
LEMMA AscendingNext ==
  ASSUME NEW set, NEW n \in Nat
  PROVE  /\ Ascending(set, 0) = << >>
         /\ Ascending(set, n) \in Seq(Nat)
         /\ Ascending(set, n + 1)
              = Ascending(set, n) \o (IF n + 1 \in set THEN <<n + 1>> ELSE << >>)
<1> DEFINE One(k) == IF k \in set THEN <<k>> ELSE << >>
           pick(m) == [k \in 1..m |-> One(k)]
<1>1. \A k \in Nat : One(k) \in Seq(Nat)
  OBVIOUS
<1> HIDE DEF One
<1>2. pick(n) \in Seq(Seq(Nat))
  BY <1>1
<1>3. pick(n + 1) = Append(pick(n), One(n + 1))
  <2>1. DOMAIN pick(n) = 1..n /\ Len(pick(n)) = n
    OBVIOUS
  <2> QED BY <1>1, <1>2, <2>1
<1>4. pick(0) = << >>
  OBVIOUS
<1>5. \A m : Ascending(set, m) = FlattenSeq(pick(m))
  BY DEF Ascending, One
<1> HIDE DEF pick
<1>6. FlattenSeq(Append(pick(n), One(n + 1))) = FlattenSeq(pick(n)) \o One(n + 1)
  <2>1. n + 1 \in Nat
    OBVIOUS
  <2>2. PICK u \in Seq(Seq(Nat)), x \in Seq(Nat) : u = pick(n) /\ x = One(n + 1)
    BY <1>1, <1>2, <2>1
  <2>3. FlattenSeq(Append(u, x)) = FlattenSeq(u) \o x
    BY FlattenNext
  <2> QED BY <2>2, <2>3
<1>7. FlattenSeq(pick(n)) \in Seq(Nat)
  BY <1>2, FlattenTyped
<1>8. Ascending(set, 0) = << >>
  BY <1>4, <1>5, FlattenNone
<1>9. Ascending(set, n + 1) = Ascending(set, n) \o One(n + 1)
  BY <1>3, <1>5, <1>6
<1> QED BY <1>5, <1>7, <1>8, <1>9 DEF One

\* Every number of the set is there.
LEMMA AscendingHas ==
  ASSUME NEW set, NEW n \in Nat, NEW x \in 1..n, x \in set
  PROVE  \E j \in DOMAIN Ascending(set, n) : Ascending(set, n)[j] = x
<1> DEFINE Has(t) == \E j \in DOMAIN t : t[j] = x
           P(m) == x <= m => Has(Ascending(set, m))
           G == {m \in 0..n : P(m)}
<1>1. P(0)
  OBVIOUS
<1>2. ASSUME NEW m \in 0..n, m < n, P(m) PROVE P(m + 1)
  <2>1. PICK t \in Seq(Nat) : /\ t = Ascending(set, m)
                              /\ Ascending(set, m + 1) = t \o (IF m + 1 \in set THEN <<m + 1>> ELSE << >>)
    BY AscendingNext
  <2>2. CASE x <= m
    <3>1. Has(t)
      BY <1>2, <2>1, <2>2
    <3>2. \A u \in Seq(Nat) : Has(t \o u)
      <4>1. PICK j \in DOMAIN t : t[j] = x
        BY <3>1
      <4>2. \A u \in Seq(Nat) : j \in DOMAIN (t \o u) /\ (t \o u)[j] = t[j]
        OBVIOUS
      <4> QED BY <4>1, <4>2
    <3>3. (IF m + 1 \in set THEN <<m + 1>> ELSE << >>) \in Seq(Nat)
      OBVIOUS
    <3> HIDE DEF Has
    <3> QED BY <2>1, <3>2, <3>3
  <2>3. CASE x = m + 1
    <3>1. Ascending(set, m + 1) = t \o <<x>>
      BY <2>1, <2>3
    <3>2. Has(t \o <<x>>)
      <4>1. Len(t) + 1 \in DOMAIN (t \o <<x>>) /\ (t \o <<x>>)[Len(t) + 1] = x
        OBVIOUS
      <4> QED BY <4>1
    <3> HIDE DEF Has
    <3> QED BY <3>1, <3>2
  <2>4. x <= m + 1 => x <= m \/ x = m + 1
    OBVIOUS
  <2> HIDE DEF Has
  <2> QED BY <2>2, <2>3, <2>4
<1>3. \A m \in 0..n : m \in G
  <2> HIDE DEF P
  <2>1. 0 \in G
    BY <1>1
  <2>2. ASSUME NEW m \in 0..n, m < n, m \in G PROVE m + 1 \in G
    <3>1. P(m)
      BY <2>2
    <3>2. P(m + 1)
      BY <2>2, <3>1, <1>2
    <3>3. m + 1 \in 0..n
      BY <2>2
    <3> QED BY <3>2, <3>3
  <2> HIDE DEF G
  <2> QED BY <2>1, <2>2, UpTo
<1>4. P(n)
  <2> HIDE DEF P
  <2> QED BY <1>3
<1> QED BY <1>4

\* What is true of a run besides the texts: no item was cut off, and a message
\* has the log-probabilities of all of its text or none.
KeptItem(item) ==
  /\ item.status = "completed"
  /\ item.state = "content" => item.logs \in {<< >>, item.text}
KeptProc(p) ==
  p.state = "content" => /\ p.whole => p.logs = p.text
                         /\ ~p.whole => p.logs = << >>
KeptRun(s) == (\A i \in DOMAIN s.items : KeptItem(s.items[i])) /\ KeptProc(s.proc)

\* Closing an item that was not cut off.
LEMMA CloseKept ==
  ASSUME NEW s \in RunType, KeptRun(s), NEW c, c = CloseCurrent(s, FALSE)
  PROVE  KeptRun(c)
<1>1. CASE s.proc.state = None
  <2>1. c = s
    BY <1>1, CloseIs
  <2> QED BY <2>1
<1>2. CASE s.proc.state # None
  <2>1. ClosedAs(c, s, FALSE)
    BY <1>2, CloseIs
  <2>2. PICK item :
          /\ c.items = Append(s.items, item) /\ item.status = "completed"
          /\ item.state = s.proc.state /\ item.text = s.proc.text /\ item.logs = s.proc.logs
    <3> DEFINE it == [id |-> s.proc.opened, state |-> s.proc.state, name |-> s.proc.name,
                      text |-> s.proc.text, logs |-> s.proc.logs,
                      status |-> Status(s.proc, FALSE)]
    <3>1. c.items = Append(s.items, it)
      BY <2>1 DEF ClosedAs
    <3>2. Status(s.proc, FALSE) = "completed"
      BY DEF Status
    <3>3. /\ it.status = "completed" /\ it.state = s.proc.state
          /\ it.text = s.proc.text /\ it.logs = s.proc.logs
      BY <3>2
    <3> HIDE DEF it
    <3> QED BY <3>1, <3>3
  <2>3. c.proc.state = None
    <3>1. c.proc = [s.proc EXCEPT !.nth = s.proc.nth + 1, !.state = None] /\ s.proc \in ProcType
      BY <2>1 DEF ClosedAs, RunType
    <3> QED BY <3>1 DEF ProcType
  <2>4. s.proc.whole \in BOOLEAN
    BY DEF RunType, ProcType
  <2>5. KeptItem(item)
    BY <2>2, <2>4 DEF KeptItem, KeptRun, KeptProc
  <2>6. s.items \in Seq(ItemType)
    BY DEF RunType
  <2>7. \A i \in DOMAIN Append(s.items, item) :
          \/ Append(s.items, item)[i] = item
          \/ i \in DOMAIN s.items /\ Append(s.items, item)[i] = s.items[i]
    BY <2>6
  <2>8. \A i \in DOMAIN c.items : KeptItem(c.items[i])
    BY <2>2, <2>5, <2>7 DEF KeptRun
  <2>9. KeptProc(c.proc)
    BY <2>3 DEF KeptProc, None
  <2> QED BY <2>8, <2>9 DEF KeptRun
<1> QED BY <1>1, <1>2

\* Opening resets the log-probabilities of a message.
LEMMA OpenKept ==
  ASSUME NEW s \in RunType, KeptRun(s), NEW d \in PartType, NEW target \in States,
         target = "call" => d.tools # << >>, NEW c, c = OpenItem(s, target, d)
  PROVE  KeptRun(c)
<1>1. s.proc \in ProcType
  BY DEF RunType
<1>2. PICK q \in ProcType : q = Blank(s.proc, target, d)
  BY <1>1, BlankTyped
<1>3. OpenedAs(c, q, s, target, d)
  BY <1>2, OpenIs
<1>4. CASE Nameless(target, d)
  BY <1>3, <1>4 DEF OpenedAs, KeptRun
<1>5. CASE ~Nameless(target, d)
  <2>1. c.proc = [q EXCEPT !.state = target, !.opened = s.proc.opened + 1] /\ c.items = s.items
    BY <1>3, <1>5 DEF OpenedAs
  <2>2. /\ c.proc.state = target /\ c.proc.whole = q.whole /\ c.proc.logs = q.logs
        /\ c.proc.text = q.text
    BY <2>1 DEF ProcType
  <2>3. target = "content" => q.whole = TRUE /\ q.logs = << >> /\ q.text = << >>
    BY <1>1, <1>2 DEF Blank, ProcType
  <2>4. KeptProc(c.proc)
    BY <2>2, <2>3 DEF KeptProc
  <2> QED BY <2>1, <2>4 DEF KeptRun
<1> QED BY <1>4, <1>5

\* Telling keeps the log-probabilities those of the whole or drops them.
LEMMA EmitKept ==
  ASSUME NEW s \in RunType, s.proc.state # None, KeptRun(s), NEW d \in PartType,
         NEW c, c = EmitDelta(s, d)
  PROVE  KeptRun(c) /\ c.proc.state = s.proc.state /\ c.rejected = s.rejected
<1>1. CASE Silent(s, d)
  <2>1. c = s
    BY <1>1, EmitIs
  <2> QED BY <2>1
<1>2. CASE ~Silent(s, d)
  <2>1. PICK new : new = New(s.proc, d) /\ EmittedAs(c, s, d, new)
    BY <1>2, EmitIs
  <2>2. s.proc \in ProcType /\ s.proc.whole \in BOOLEAN
    BY DEF RunType, ProcType
  <2>3. CASE s.proc.state = "content"
    <3>1. c.proc = [s.proc EXCEPT !.text = s.proc.text \o new, !.logs = LogsAfter(s.proc, d),
                                  !.whole = WholeAfter(s.proc, d)]
      BY <2>1, <2>3 DEF EmittedAs
    <3>2. /\ c.proc.state = s.proc.state /\ c.proc.text = s.proc.text \o new
          /\ c.proc.logs = LogsAfter(s.proc, d) /\ c.proc.whole = WholeAfter(s.proc, d)
      BY <2>2, <3>1 DEF ProcType
    <3>3. new = d.content.text
      BY <2>1, <2>3 DEF New
    <3>4. WholeAfter(s.proc, d) => LogsAfter(s.proc, d) = s.proc.text \o new
      BY <2>2, <2>3, <3>3 DEF WholeAfter, LogsAfter, KeptRun, KeptProc
    <3>5. ~WholeAfter(s.proc, d) => LogsAfter(s.proc, d) = << >>
      BY DEF LogsAfter
    <3>6. KeptProc(c.proc)
      BY <3>2, <3>4, <3>5 DEF KeptProc
    <3> QED BY <2>1, <3>2, <3>6 DEF KeptRun, EmittedAs
  <2>4. CASE s.proc.state # "content"
    <3>1. c.proc = [s.proc EXCEPT !.text = s.proc.text \o new, !.sent = TRUE]
      BY <2>1, <2>4 DEF EmittedAs
    <3>2. c.proc.state = s.proc.state
      BY <2>2, <3>1 DEF ProcType
    <3>3. KeptProc(c.proc)
      BY <2>4, <3>2 DEF KeptProc
    <3> QED BY <2>1, <3>2, <3>3 DEF KeptRun, EmittedAs
  <2> QED BY <2>3, <2>4
<1> QED BY <1>1, <1>2

\* A part with a call opens or goes on with it, unless the run is refused.
LEMMA StepKept ==
  ASSUME NEW s \in RunType, KeptRun(s), NEW d \in PartType
  PROVE  /\ KeptRun(Step(s, d))
         /\ d.tools # << >> => Step(s, d).rejected \/ Step(s, d).proc.state = "call"
         /\ TargetState(d) = None => Step(s, d) = s
<1>1. PICK target : target = TargetState(d)
  OBVIOUS
<1>2. None \notin States /\ (target = "call" <=> d.tools # << >>) /\ None # "call"
  BY <1>1, TargetTyped DEF None, States
<1>3. CASE Step(s, d) = s /\ (s.rejected \/ target = None)
  BY <1>1, <1>2, <1>3 DEF Step
<1>4. CASE target \in States /\ s.proc.state = target /\ Step(s, d) = EmitDelta(s, d)
  <2>1. KeptRun(Step(s, d)) /\ Step(s, d).proc.state = target
    BY <1>2, <1>4, EmitKept
  <2> QED BY <1>1, <1>2, <1>4, <2>1
<1>5. CASE target \in States /\ Reopens(s, d, target)
  <2>1. PICK c \in RunType, o \in RunType :
          /\ c = CloseCurrent(s, FALSE) /\ o = OpenItem(c, target, d)
          /\ o.rejected => Step(s, d) = o
          /\ ~o.rejected => Step(s, d) = EmitDelta(o, d)
    BY <1>5 DEF Reopens
  <2>2. KeptRun(c)
    BY <2>1, CloseKept
  <2>3. KeptRun(o) /\ (~o.rejected => o.proc.state = target)
    <3>1. PICK x \in States : x = target /\ (x = "call" => d.tools # << >>)
      BY <1>2, <1>5
    <3>2. o = OpenItem(c, x, d)
      BY <2>1, <3>1
    <3>3. KeptRun(o)
      BY <2>2, <3>1, <3>2, OpenKept
    <3>4. PICK q \in ProcType : q = Blank(c.proc, x, d)
      BY <3>1, BlankTyped DEF RunType
    <3>5. OpenedAs(o, q, c, x, d)
      BY <3>2, <3>4, OpenIs
    <3>6. ~o.rejected => o.proc.state = x
      BY <3>4, <3>5 DEF OpenedAs, ProcType
    <3> QED BY <3>1, <3>3, <3>6
  <2>4. CASE o.rejected
    BY <1>1, <1>2, <1>5, <2>1, <2>3, <2>4
  <2>5. CASE ~o.rejected
    <3>1. o.proc.state = target /\ o.proc.state # None
      BY <1>2, <1>5, <2>3, <2>5
    <3>2. KeptRun(Step(s, d)) /\ Step(s, d).proc.state = target
      BY <2>1, <2>3, <2>5, <3>1, EmitKept
    <3> QED BY <1>1, <1>2, <1>5, <3>2
  <2> QED BY <2>4, <2>5
<1>6. \/ Step(s, d) = s /\ (s.rejected \/ target = None)
      \/ target \in States /\ s.proc.state = target /\ Step(s, d) = EmitDelta(s, d)
      \/ target \in States /\ Reopens(s, d, target)
  BY <1>1, StepIs
<1> QED BY <1>3, <1>4, <1>5, <1>6

\* A part that goes on with calls, and one that does nothing.
Calling(d) == d.tools # << >>
Quiet(d) == TargetState(d) = None

\* Parts that only call, and a run that is calling: it stays so.
OnACall(s) == s.rejected \/ s.proc.state = "call"

\* Every run keeps them, and goes on calling when all its parts call.
LEMMA RunKept ==
  ASSUME NEW s, RunInv(s), KeptRun(s), NEW parts \in Seq(PartType)
  PROVE  /\ KeptRun(Run(s, parts))
         /\ OnACall(s) /\ (\A i \in DOMAIN parts : Calling(parts[i]) \/ Quiet(parts[i]))
              => OnACall(Run(s, parts))
<1>1. PICK n \in Nat : n = Len(parts) /\ DOMAIN parts = 1..n
  OBVIOUS
<1> DEFINE Goes == OnACall(s) /\ \A i \in DOMAIN parts : Calling(parts[i]) \/ Quiet(parts[i])
           Holds(r) == RunInv(r) /\ KeptRun(r) /\ (Goes => OnACall(r))
           P(m) == Holds(Run(s, SubSeq(parts, 1, m)))
           G == {m \in 0..n : P(m)}
<1>2. P(0)
  <2>1. Run(s, SubSeq(parts, 1, 0)) = s
    BY PrefixEnds, RunNone
  <2>2. Holds(s)
    OBVIOUS
  <2> HIDE DEF Holds
  <2> QED BY <2>1, <2>2
<1>3. ASSUME NEW m \in 0..n, m < n, P(m) PROVE P(m + 1)
  <2>1. PICK u \in Seq(PartType), x \in PartType :
          u = SubSeq(parts, 1, m) /\ SubSeq(parts, 1, m + 1) = Append(u, x) /\ x = parts[m + 1]
    <3>1. m \in 0..Len(parts) /\ m < Len(parts)
      BY <1>1, <1>3
    <3>2. /\ SubSeq(parts, 1, m) \in Seq(PartType) /\ parts[m + 1] \in PartType
          /\ SubSeq(parts, 1, m + 1) = Append(SubSeq(parts, 1, m), parts[m + 1])
      BY <3>1, PrefixNext
    <3> QED BY <3>2
  <2>2. PICK r : r = Run(s, u) /\ Run(s, Append(u, x)) = Step(r, x)
    BY RunNext
  <2>3. RunInv(r) /\ KeptRun(r) /\ (Goes => OnACall(r))
    BY <1>3, <2>1, <2>2
  <2>4. r \in RunType
    BY <2>3 DEF RunInv
  <2>5. RunInv(Step(r, x))
    BY <2>3, StepKeeps
  <2>6. /\ KeptRun(Step(r, x))
        /\ Calling(x) => OnACall(Step(r, x))
        /\ Quiet(x) => Step(r, x) = r
    BY <2>3, <2>4, StepKept DEF Calling, Quiet, OnACall
  <2>7. m + 1 \in 1..n
    BY <1>3
  <2>8. Goes => Calling(x) \/ Quiet(x)
    BY <1>1, <2>1, <2>7
  <2>9. Goes => OnACall(Step(r, x))
    <3> HIDE DEF Goes
    <3> QED BY <2>3, <2>6, <2>8
  <2>a. Holds(Step(r, x))
    BY <2>5, <2>6, <2>9
  <2> HIDE DEF Holds
  <2> QED BY <2>1, <2>2, <2>a
<1>4. \A m \in 0..n : m \in G
  <2> HIDE DEF P
  <2>1. 0 \in G
    BY <1>2
  <2>2. ASSUME NEW m \in 0..n, m < n, m \in G PROVE m + 1 \in G
    <3>1. P(m)
      BY <2>2
    <3>2. P(m + 1)
      BY <2>2, <3>1, <1>3
    <3>3. m + 1 \in 0..n
      BY <2>2
    <3> QED BY <3>2, <3>3
  <2> HIDE DEF G
  <2> QED BY <2>1, <2>2, UpTo
<1>5. P(n)
  <2> HIDE DEF P
  <2> QED BY <1>4
<1>6. Holds(Run(s, parts))
  <2> HIDE DEF Holds
  <2> QED BY <1>1, <1>5, PrefixEnds
<1> QED BY <1>6

-----------------------------------------------------------------------------
\* Which calls are among the parts.

\* Every group has an entry, and a new call is in a group of its own.
LEMMA GroupsCall ==
  ASSUME NEW d \in PartType, NEW new \in BOOLEAN
  PROVE  /\ \A i \in DOMAIN Groups(d, new) : Calling(Groups(d, new)[i])
         /\ Groups(d, new) \in Seq(PartType)
<1> DEFINE set == {i \in Starts(d) : Introduces(d, d.tools[i].index) = new}
           own(x) == {i \in DOMAIN d.tools : d.tools[i].index = x}
<1>1. Len(d.tools) \in Nat /\ DOMAIN d.tools = 1..Len(d.tools)
  BY DEF PartType
<1>2. PICK starts : starts = Ascending(set, Len(d.tools)) /\ starts \in Seq(set \cap 1..Len(d.tools))
  <2> HIDE DEF set
  <2> QED BY <1>1, AscendingTyped
<1>3. ASSUME NEW k \in DOMAIN starts
      PROVE  Calling(Only(d, Group(d, d.tools[starts[k]].index)))
  <2>1. PICK j \in 1..Len(d.tools) : j = starts[k]
    <3>1. starts[k] \in set \cap 1..Len(d.tools)
      <4> HIDE DEF set
      <4> QED BY <1>2, <1>3
    <3> QED BY <3>1
  <2>2. PICK x : x = d.tools[j].index
    OBVIOUS
  <2>3. j \in own(x)
    BY <1>1, <2>2
  <2>4. \E m \in DOMAIN Ascending(own(x), Len(d.tools)) : Ascending(own(x), Len(d.tools))[m] = j
    <3> HIDE DEF own
    <3> QED BY <1>1, <2>3, AscendingHas
  <2>5. Group(d, x) # << >>
    <3>1. DOMAIN Group(d, x) = DOMAIN Ascending(own(x), Len(d.tools))
      BY DEF Group
    <3>2. DOMAIN << >> = {}
      OBVIOUS
    <3> HIDE DEF own
    <3> QED BY <2>4, <3>1, <3>2
  <2>6. Only(d, Group(d, x)).tools = Group(d, x)
    BY GroupTyped, OnlyTyped
  <2> QED BY <2>1, <2>2, <2>5, <2>6 DEF Calling
<1>4. Groups(d, new) = [k \in DOMAIN starts |-> Only(d, Group(d, d.tools[starts[k]].index))]
  BY <1>2 DEF Groups
<1> HIDE DEF set
<1> QED BY <1>3, <1>4, GroupsTyped

\* A call that is new has a group.
LEMMA GroupsNew ==
  ASSUME NEW d \in PartType, NEW i \in DOMAIN d.tools, d.tools[i].name # 0
  PROVE  Groups(d, TRUE) # << >>
<1> DEFINE set == {j \in Starts(d) : Introduces(d, d.tools[j].index) = TRUE}
           same == {j \in DOMAIN d.tools : d.tools[j].index = d.tools[i].index}
<1>1. Len(d.tools) \in Nat /\ DOMAIN d.tools = 1..Len(d.tools)
  BY DEF PartType
<1>2. PICK x \in same : \A y \in same : x <= y
  <2>1. same \subseteq Nat /\ same # {}
    BY <1>1
  <2> HIDE DEF same
  <2> QED BY <2>1, LeastExists
<1>3. x \in Starts(d)
  <2>1. \A j \in 1..(x - 1) : j \in DOMAIN d.tools /\ ~(x <= j)
    BY <1>1, <1>2
  <2>2. \A j \in 1..(x - 1) : d.tools[j].index # d.tools[x].index
    BY <1>2, <2>1
  <2> QED BY <1>2, <2>2 DEF Starts
<1>4. Introduces(d, d.tools[x].index)
  BY <1>2 DEF Introduces
<1>5. x \in set /\ x \in 1..Len(d.tools)
  <2>0. Introduces(d, d.tools[x].index) \in BOOLEAN
    BY DEF Introduces
  <2>1. Introduces(d, d.tools[x].index) = TRUE
    BY <1>4, <2>0
  <2> QED BY <1>1, <1>2, <1>3, <2>1
<1>6. \E j \in DOMAIN Ascending(set, Len(d.tools)) : Ascending(set, Len(d.tools))[j] = x
  <2>1. PICK n \in Nat : n = Len(d.tools)
    BY <1>1
  <2>2. PICK y, own : y = x /\ own = set /\ y \in own /\ y \in 1..n
    BY <1>5, <2>1
  <2>3. \E j \in DOMAIN Ascending(own, n) : Ascending(own, n)[j] = y
    <3>1. y \in own /\ y \in 1..n
      BY <2>2
    <3> QED BY <3>1, AscendingHas
  <2> HIDE DEF set, same
  <2> QED BY <2>1, <2>2, <2>3
<1>7. DOMAIN Groups(d, TRUE) = DOMAIN Ascending(set, Len(d.tools))
  BY DEF Groups
<1>8. DOMAIN << >> = {}
  OBVIOUS
<1> HIDE DEF set
<1> QED BY <1>6, <1>7, <1>8

\* The texts' parts are quiet when there is no text.
LEMMA TextsQuiet ==
  ASSUME NEW d \in PartType, d.reasoning.is = FALSE, d.content.text = << >>
  PROVE  \A i \in DOMAIN Texts(d) : Quiet(Texts(d)[i])
<1>1. << >> \in Seq(ToolType)
  OBVIOUS
<1>2. PICK o \in PartType :
        /\ o = Only(d, << >>) /\ o.tools = << >> /\ o.reasoning = Absent
  BY <1>1, OnlyTyped
<1>3. PICK c : c = [o EXCEPT !.content = d.content]
  OBVIOUS
<1>4. Quiet(c)
  <2>1. c.tools = << >> /\ c.reasoning.is = FALSE /\ c.content = d.content
    BY <1>2, <1>3 DEF PartType, Absent
  <2> QED BY <2>1 DEF Quiet, TargetState
<1>5. Texts(d) = << >> \o (IF d.content.is THEN <<c>> ELSE << >>)
  BY <1>2, <1>3 DEF Texts
<1>6. Texts(d) = << >> \/ Texts(d) = <<c>>
  <2>1. << >> \o <<c>> = <<c>> /\ << >> \o << >> = << >>
    OBVIOUS
  <2> QED BY <1>5, <2>1
<1>7. /\ DOMAIN << >> = {} /\ DOMAIN <<c>> = {1} /\ <<c>>[1] = c
  OBVIOUS
<1> QED BY <1>4, <1>6, <1>7

-----------------------------------------------------------------------------
\* A generation that ends in a call ends in the call of a name of its last
\* batch, or the batch has nothing but arguments of the call that was open.

Legal(ps, first) == \A i \in first..Len(ps) : Follows(SubSeq(ps, 1, i - 1), ps[i])

\* Arguments come after a name or after arguments.
LEMMA ArgumentsFollow ==
  ASSUME NEW ps \in Seq(Sorts), NEW i \in 1..Len(ps), ps[i] = "args",
         Follows(SubSeq(ps, 1, i - 1), ps[i])
  PROVE  i - 1 \in 1..Len(ps) /\ ps[i - 1] \in {"name", "args"}
<1>1. PICK b : b = SubSeq(ps, 1, i - 1)
  OBVIOUS
<1>2. b # << >> /\ b[Len(b)] \in {"name", "args"}
  BY <1>1 DEF Follows
<1>3. i # 1
  <2>1. SubSeq(ps, 1, 0) = << >>
    BY PrefixEnds
  <2> QED BY <1>1, <1>2, <2>1
<1>4. Len(b) = i - 1 /\ b[i - 1] = ps[i - 1]
  BY <1>1, <1>3
<1> QED BY <1>2, <1>3, <1>4

\* A batch that ends in a call and names none is arguments.
LEMMA OnlyArguments ==
  ASSUME NEW ps \in Seq(Sorts), NEW first \in 1..Len(ps), Legal(ps, first),
         ps[Len(ps)] \in {"name", "args"}, \A i \in first..Len(ps) : ps[i] # "name"
  PROVE  \A i \in first..Len(ps) : ps[i] = "args"
<1>1. PICK n \in Nat, w \in Nat : n = Len(ps) /\ w = n - first /\ first \in 1..n
  <2>1. Len(ps) \in Nat /\ Len(ps) - first \in Nat
    OBVIOUS
  <2> QED BY <2>1
<1> DEFINE G == {m \in 0..w : ps[n - m] = "args"}
<1>2. 0 \in G
  BY <1>1
<1>3. ASSUME NEW m \in 0..w, m < w, m \in G PROVE m + 1 \in G
  <2>1. n - m \in first..n /\ n - m \in 1..n /\ ps[n - m] = "args"
    BY <1>1, <1>3
  <2>2. (n - m) - 1 = n - (m + 1) /\ n - (m + 1) \in first..n /\ m + 1 \in 0..w
    BY <1>1, <1>3
  <2>3. Follows(SubSeq(ps, 1, (n - m) - 1), ps[n - m])
    BY <1>1, <2>1 DEF Legal
  <2>4. ps[(n - m) - 1] \in {"name", "args"}
    BY <1>1, <2>1, <2>3, ArgumentsFollow
  <2> QED BY <1>1, <2>2, <2>4
<1>4. \A m \in 0..w : m \in G
  <2> HIDE DEF G
  <2> QED BY <1>2, <1>3, UpTo
<1>5. ASSUME NEW i \in first..n PROVE ps[i] = "args"
  <2>1. n - i \in 0..w /\ n - (n - i) = i
    BY <1>1
  <2>2. n - i \in G
    BY <1>4, <2>1
  <2> QED BY <2>1, <2>2
<1> QED BY <1>1, <1>5

\* The places that are in a batch.
LEMMA PlacesHas ==
  ASSUME NEW ps \in Seq(Sorts), NEW first \in Nat, first >= 1, NEW sorts
  PROVE  /\ \A i \in first..Len(ps) : ps[i] \in sorts =>
              \E k \in DOMAIN Places(ps, first, sorts) : Places(ps, first, sorts)[k] = i
         /\ (\A i \in first..Len(ps) : ps[i] \notin sorts) => Places(ps, first, sorts) = << >>
<1> DEFINE set == {i \in first..Len(ps) : ps[i] \in sorts}
<1>1. Len(ps) \in Nat /\ Places(ps, first, sorts) = Ascending(set, Len(ps))
  BY DEF Places
<1>2. ASSUME NEW i \in first..Len(ps), ps[i] \in sorts
      PROVE  \E k \in DOMAIN Places(ps, first, sorts) : Places(ps, first, sorts)[k] = i
  <2>1. i \in set /\ i \in 1..Len(ps)
    BY <1>1, <1>2
  <2> HIDE DEF set
  <2> QED BY <1>1, <2>1, AscendingHas
<1>3. ASSUME \A i \in first..Len(ps) : ps[i] \notin sorts
      PROVE  Places(ps, first, sorts) = << >>
  <2>1. set \cap 1..Len(ps) = {}
    BY <1>3
  <2>2. Ascending(set, Len(ps)) \in Seq(set \cap 1..Len(ps))
    <3> HIDE DEF set
    <3> QED BY <1>1, AscendingTyped
  <2>3. \A t : t \in Seq({}) => t = << >>
    <3> SUFFICES ASSUME NEW t \in Seq({}) PROVE t = << >>
      OBVIOUS
    <3>1. Len(t) = 0
      <4> SUFFICES ASSUME Len(t) # 0 PROVE FALSE
        OBVIOUS
      <4>1. t[1] \in {}
        OBVIOUS
      <4> QED BY <4>1
    <3> QED BY <3>1
  <2> HIDE DEF set
  <2> QED BY <1>1, <2>1, <2>2, <2>3
<1> QED BY <1>2, <1>3

\* What such a batch makes of the run.
LEMMA CallGoesOn ==
  ASSUME NEW s, RunInv(s), KeptRun(s), NEW ps \in Seq(Sorts), NEW first \in 1..Len(ps),
         Legal(ps, first), ps[Len(ps)] \in {"name", "args"},
         Follows(SubSeq(ps, 1, first - 1), "args") => s.proc.state = "call",
         NEW blank \in BOOLEAN, NEW aligned \in BOOLEAN,
         NEW d, d = Delta(ps, first, blank, aligned)
  PROVE  OnACall(Run(s, SplitDelta(d)))
<1>1. first \in Nat /\ first >= 1 /\ Len(ps) \in Nat /\ Len(ps) \in first..Len(ps)
  OBVIOUS
<1>2. d \in PartType
  BY <1>1, DeltaTyped
<1>3. PICK called : called = Places(ps, first, {"name", "args"}) /\ called \in Seq(DOMAIN ps)
  BY <1>1, PlacesTyped
<1>4. d.tools = [i \in DOMAIN called |-> Entry(ps, called[i])]
  BY <1>3 DEF Delta
<1>5. \A i \in first..Len(ps) : ps[i] \in {"name", "args"} =>
        \E k \in DOMAIN called : called[k] = i
  BY <1>1, <1>3, PlacesHas
<1>6. Calling(d)
  <2>1. DOMAIN d.tools = DOMAIN called /\ DOMAIN << >> = {}
    BY <1>4
  <2>2. DOMAIN called # {}
    BY <1>1, <1>5
  <2> QED BY <2>1, <2>2 DEF Calling
<1>7. PICK old \in Seq(PartType), texts \in Seq(PartType), new \in Seq(PartType) :
        /\ old = Groups(d, FALSE) /\ texts = Texts(d) /\ new = Groups(d, TRUE)
        /\ \A i \in DOMAIN old : Calling(old[i])
        /\ \A i \in DOMAIN new : Calling(new[i])
  BY <1>2, GroupsCall, TextsTyped
<1>8. CASE SplitDelta(d) = <<d>>
  <2>1. << >> \in Seq(PartType) /\ Append(<< >>, d) = <<d>>
    OBVIOUS
  <2>2. Run(s, <<d>>) = Step(s, d)
    <3>1. Run(s, Append(<< >>, d)) = Step(Run(s, << >>), d)
      BY <1>2, <2>1, RunNext, ZenonT(60)
    <3> QED BY <2>1, <3>1, RunNone
  <2>3. s \in RunType
    BY DEF RunInv
  <2> QED BY <1>2, <1>6, <1>8, <2>2, <2>3, StepKept DEF Calling, OnACall
<1>9. CASE SplitDelta(d) = (old \o texts) \o new /\ new # << >>
  <2>1. PICK front \in Seq(PartType), x \in PartType :
          SplitDelta(d) = Append(front, x) /\ Calling(x)
    <3>1. PICK k \in Nat : Len(new) = k + 1
      <4>1. Len(new) \in Nat /\ Len(new) # 0
        BY <1>9
      <4>2. Len(new) - 1 \in Nat /\ (Len(new) - 1) + 1 = Len(new)
        BY <4>1
      <4> QED BY <4>2
    <3>2. PICK u \in Seq(PartType), x \in PartType : new = Append(u, x) /\ x = new[k + 1]
      <4>1. k \in 0..Len(new) /\ k < Len(new)
        BY <3>1
      <4>2. /\ SubSeq(new, 1, k) \in Seq(PartType) /\ new[k + 1] \in PartType
            /\ SubSeq(new, 1, k + 1) = Append(SubSeq(new, 1, k), new[k + 1])
        BY <4>1, PrefixNext
      <4>3. SubSeq(new, 1, k + 1) = new
        BY <3>1, PrefixEnds
      <4> QED BY <4>2, <4>3
    <3>3. k + 1 \in DOMAIN new
      BY <3>1
    <3>4. PICK v \in Seq(PartType) : v = old \o texts
      BY ConcatProperties
    <3>5. v \o Append(u, x) = Append(v \o u, x) /\ v \o u \in Seq(PartType)
      BY ConcatProperties, SMTT(40)
    <3> QED BY <1>7, <1>9, <3>2, <3>3, <3>4, <3>5
  <2>2. PICK r : r = Run(s, front) /\ Run(s, Append(front, x)) = Step(r, x)
    BY RunNext
  <2>3. RunInv(r) /\ KeptRun(r)
    BY <2>2, RunKeeps, RunKept
  <2>4. r \in RunType
    BY <2>3 DEF RunInv
  <2> QED BY <2>1, <2>2, <2>3, <2>4, StepKept DEF Calling, OnACall
<1>10. CASE SplitDelta(d) = (old \o texts) \o new /\ new = << >>
  <2>1. \A i \in first..Len(ps) : ps[i] # "name"
    <3> SUFFICES ASSUME NEW i \in first..Len(ps), ps[i] = "name" PROVE FALSE
      OBVIOUS
    <3>1. PICK k \in DOMAIN called : called[k] = i
      BY <1>5
    <3>2. k \in DOMAIN d.tools /\ d.tools[k].name = i /\ i # 0
      BY <1>1, <1>4, <3>1 DEF Entry
    <3> QED BY <1>2, <1>7, <1>10, <3>2, GroupsNew
  <2>2. \A i \in first..Len(ps) : ps[i] = "args"
    BY <2>1, OnlyArguments
  <2>3. s.proc.state = "call"
    <3>1. Follows(SubSeq(ps, 1, first - 1), "args")
      BY <2>2 DEF Legal
    <3> QED BY <3>1
  <2>4. Places(ps, first, {"content"}) = << >> /\ Places(ps, first, {"reasoning"}) = << >>
    <3>1. /\ \A i \in first..Len(ps) : ps[i] \notin {"content"}
          /\ \A i \in first..Len(ps) : ps[i] \notin {"reasoning"}
      BY <2>2
    <3>2. Places(ps, first, {"content"}) = << >>
      BY <1>1, <3>1, PlacesHas
    <3>3. Places(ps, first, {"reasoning"}) = << >>
      BY <1>1, <3>1, PlacesHas
    <3> QED BY <3>2, <3>3
  <2>5. d.reasoning.is = FALSE /\ d.content.text = << >>
    BY <2>4 DEF Delta, Optional, Absent, Field
  <2>6. \A i \in DOMAIN texts : Quiet(texts[i])
    BY <1>2, <1>7, <2>5, TextsQuiet
  <2>7. PICK parts \in Seq(PartType) : parts = old \o texts /\ SplitDelta(d) = parts
    <3>1. PICK v \in Seq(PartType) : v = old \o texts
      BY ConcatProperties
    <3>2. v \o << >> = v
      BY ConcatEmptySeq
    <3> QED BY <1>10, <3>1, <3>2
  <2>8. \A i \in DOMAIN parts : Calling(parts[i]) \/ Quiet(parts[i])
    <3>1. \A i \in DOMAIN parts :
            \/ i \in DOMAIN old /\ parts[i] = old[i]
            \/ i - Len(old) \in DOMAIN texts /\ parts[i] = texts[i - Len(old)]
      BY <2>7, SMTT(40)
    <3> QED BY <1>7, <2>6, <3>1
  <2> QED BY <2>3, <2>7, <2>8, RunKept DEF OnACall
<1>11. SplitDelta(d) = <<d>> \/ SplitDelta(d) = (old \o texts) \o new
  BY <1>7 DEF SplitDelta
<1> QED BY <1>8, <1>9, <1>10, <1>11

-----------------------------------------------------------------------------
\* What is said of a finished item besides its text.

KeptInv ==
  /\ CutOffMarked /\ LogsOfWholeText
  /\ phase = "streaming" =>
       /\ KeptRun(Current)
       /\ Follows(pieces, "args") => proc.state = "call"

\* At first nothing is kept.
LEMMA KeptStarts == ItemsInit => KeptInv
<1> SUFFICES ASSUME ItemsInit PROVE KeptInv
  OBVIOUS
<1>1. DOMAIN << >> = {}
  OBVIOUS
<1>2. KeptRun(Current)
  BY <1>1 DEF ItemsInit, Current, KeptRun, KeptProc, Fresh, None
<1>3. ~Follows(pieces, "args")
  BY DEF ItemsInit, Follows
<1>4. CutOffMarked /\ LogsOfWholeText
  BY <1>1 DEF ItemsInit, CutOffMarked, LogsOfWholeText
<1> QED BY <1>2, <1>3, <1>4 DEF KeptInv

\* A batch of pieces.
LEMMA KeptParse ==
  ASSUME ToldInv, KeptInv, NEW n \in 1..MaxBatch, NEW blank \in BOOLEAN, NEW aligned \in BOOLEAN,
         Parse(n, blank, aligned)
  PROVE  KeptInv'
<1>1. PICK more, ps : more \in [1..n -> Sorts] /\ ps = pieces \o more /\ pieces' = ps
  BY DEF Parse
<1> DEFINE first == Len(pieces) + 1
<1>2. /\ pieces \in Seq(Sorts) /\ RunInv(Current) /\ KeptRun(Current)
      /\ Follows(pieces, "args") => proc.state = "call"
  BY DEF ToldInv, KeptInv, Parse
<1>3. more \in Seq(Sorts) /\ Len(more) = n /\ n \in Nat /\ n >= 1
  BY <1>1
<1>4. /\ ps \in Seq(Sorts) /\ Len(ps) = Len(pieces) + n /\ first \in 1..Len(ps)
      /\ SubSeq(ps, 1, first - 1) = pieces
  <2>1. ps \in Seq(Sorts)
    BY <1>1, <1>2, <1>3, ConcatProperties
  <2>2. Len(pieces) \in Nat /\ Len(ps) = Len(pieces) + n
    <3>1. Len(pieces \o more) = Len(pieces) + Len(more)
      BY <1>2, <1>3, ConcatProperties
    <3> QED BY <1>1, <1>2, <1>3, <3>1
  <2>3. first \in 1..Len(ps) /\ first - 1 = Len(pieces)
    BY <1>3, <2>2
  <2>4. SubSeq(pieces \o more, 1, Len(pieces)) = pieces
    BY <1>2, <1>3
  <2> QED BY <1>1, <2>1, <2>2, <2>3, <2>4
<1>5. PICK d : d = Delta(ps, first, blank, aligned)
  OBVIOUS
<1>6. PICK s : /\ s = Run(Current, SplitDelta(d))
               /\ proc' = s.proc /\ items' = s.items
               /\ phase' = IF s.rejected THEN "rejected" ELSE "streaming"
               /\ Legal(ps, first)
  BY <1>1, <1>5 DEF Parse, Processed, Current, Legal
<1>7. d \in PartType
  BY <1>4, <1>5, DeltaTyped
<1>8. KeptRun(s)
  BY <1>2, <1>6, <1>7, SplitTyped, RunKept
<1>9. ASSUME Follows(ps, "args"), phase' = "streaming"
      PROVE  s.proc.state = "call"
  <2>1. ps[Len(ps)] \in {"name", "args"}
    BY <1>9 DEF Follows
  <2>2. Current.proc = proc
    BY DEF Current
  <2>3. OnACall(Run(Current, SplitDelta(d)))
    BY <1>2, <1>4, <1>5, <1>6, <2>1, <2>2, CallGoesOn
  <2> QED BY <1>6, <1>9, <2>3 DEF OnACall
<1>10. LogsOfWholeText'
  BY <1>6, <1>8 DEF LogsOfWholeText, KeptRun, KeptItem
<1>11. CutOffMarked'
  BY <1>6 DEF CutOffMarked
<1>12. KeptRun(Current)'
  BY <1>6, <1>8 DEF Current, KeptRun
<1> QED BY <1>1, <1>6, <1>9, <1>10, <1>11, <1>12 DEF KeptInv

\* The end of the stream.
LEMMA KeptEnd ==
  ASSUME ToldInv, KeptInv, NEW truncated \in BOOLEAN, EndStream(truncated)
  PROVE  KeptInv'
<1>1. /\ Current \in RunType /\ KeptRun(Current)
      /\ truncated => proc.state = "call"
      /\ phase' = IF truncated THEN "truncated" ELSE "finished"
  BY DEF ToldInv, KeptInv, EndStream, RunInv
<1>2. PICK c : c = CloseCurrent(Current, truncated)
  OBVIOUS
<1>3. items' = c.items
  BY <1>2 DEF EndStream, CloseCurrent, Current
<1>4. CASE ~truncated
  <2>1. KeptRun(c)
    BY <1>1, <1>2, <1>4, CloseKept
  <2> QED BY <1>1, <1>3, <1>4, <2>1 DEF KeptInv, CutOffMarked, LogsOfWholeText, KeptRun, KeptItem
<1>5. CASE truncated
  <2>1. Current.proc = proc /\ Current.items = items
    BY DEF Current
  <2>2. proc.state = "call" /\ proc.state # None
    BY <1>1, <1>5 DEF None
  <2>3. ClosedAs(c, Current, truncated)
    BY <1>1, <1>2, <2>1, <2>2, CloseIs
  <2>4. PICK item :
          c.items = Append(items, item) /\ item.status = "incomplete" /\ item.state = "call"
    <3> DEFINE it == [id |-> proc.opened, state |-> proc.state, name |-> proc.name,
                      text |-> proc.text, logs |-> proc.logs,
                      status |-> Status(proc, truncated)]
    <3>1. c.items = Append(items, it)
      BY <2>1, <2>3 DEF ClosedAs
    <3>2. Status(proc, truncated) = "incomplete"
      BY <1>5, <2>2 DEF Status
    <3>3. it.status = "incomplete" /\ it.state = "call"
      BY <2>2, <3>2
    <3> HIDE DEF it
    <3> QED BY <3>1, <3>3
  <2>5. items \in Seq(ItemType)
    BY <1>1, <2>1 DEF RunType
  <2>6. PICK k \in Nat :
          /\ k = Len(items) /\ Len(items') = k + 1 /\ DOMAIN items' = 1..k + 1
          /\ items'[k + 1] = item /\ \A i \in 1..k : items'[i] = items[i] /\ i \in DOMAIN items
    <3>1. /\ Len(items) \in Nat /\ Len(Append(items, item)) = Len(items) + 1
          /\ DOMAIN Append(items, item) = 1..Len(items) + 1
          /\ Append(items, item)[Len(items) + 1] = item
          /\ \A i \in 1..Len(items) : Append(items, item)[i] = items[i] /\ i \in DOMAIN items
      BY <2>5
    <3> QED BY <1>3, <2>4, <3>1
  <2>7. \A i \in 1..k : KeptItem(items[i])
    BY <1>1, <2>1, <2>6 DEF KeptRun
  <2>8. \A i \in 1..k + 1 : i = k + 1 \/ (i \in 1..k /\ i # k + 1)
    OBVIOUS
  <2>9. \A i \in 1..k + 1 :
          /\ items'[i].status = "incomplete" <=> i = k + 1
          /\ items'[i].state = "content" => items'[i].logs \in {<< >>, items'[i].text}
    BY <2>4, <2>6, <2>7, <2>8 DEF KeptItem
  <2>10. phase' = "truncated"
    BY <1>1, <1>5
  <2>11. CutOffMarked' /\ LogsOfWholeText'
    BY <2>6, <2>9, <2>10 DEF CutOffMarked, LogsOfWholeText
  <2> QED BY <2>10, <2>11 DEF KeptInv
<1> QED BY <1>4, <1>5

\* It is so whatever is generated.
LEMMA KeptAlways == MCSpec => []KeptInv
<1>1. MCInit => KeptInv
  BY KeptStarts DEF MCInit
<1>2. ToldInv /\ KeptInv /\ [MCNext]_<<part, serverVars, itemVars>> => KeptInv'
  <2> SUFFICES ASSUME ToldInv, KeptInv, [MCNext]_<<part, serverVars, itemVars>> PROVE KeptInv'
    OBVIOUS
  <2>1. CASE UNCHANGED itemVars
    BY <2>1 DEF KeptInv, itemVars, Current, CutOffMarked, LogsOfWholeText
  <2>2. ASSUME NEW n \in 1..MaxBatch, NEW blank \in BOOLEAN, NEW aligned \in BOOLEAN,
               Parse(n, blank, aligned)
        PROVE  KeptInv'
    BY <2>2, KeptParse
  <2>3. ASSUME NEW truncated \in BOOLEAN, EndStream(truncated)
        PROVE  KeptInv'
    BY <2>3, KeptEnd
  <2>4. ItemsNext => KeptInv'
    BY <2>2, <2>3 DEF ItemsNext
  <2> QED BY <2>1, <2>4 DEF MCNext
<1> QED BY <1>1, <1>2, ItemsAreTold, PTL DEF MCSpec

\* What is said of an item stays true of it: a call that was cut off is the last
\* item and the only one that is marked, and log-probabilities are those of all
\* of a message or none.
THEOREM WhatIsSaidIsTrue == MCSpec => []KeptTrue
<1>1. KeptInv => KeptTrue
  BY DEF KeptInv, KeptTrue
<1> QED BY <1>1, KeptAlways, PTL

-----------------------------------------------------------------------------
\* The numbers of a set in their order: the only rising sequence of them.

Rising(t) == \A i, j \in DOMAIN t : i < j => t[i] < t[j]

\* A number above all others comes last.
LEMMA RisingNext ==
  ASSUME NEW t \in Seq(Nat), Rising(t), NEW x \in Nat, \A i \in DOMAIN t : t[i] < x
  PROVE  Rising(t \o <<x>>)
<1>1. PICK n \in Nat, u \in Seq(Nat) :
        /\ u = t \o <<x>> /\ DOMAIN t = 1..n /\ DOMAIN u = 1..n + 1
        /\ u[n + 1] = x /\ \A i \in 1..n : u[i] = t[i]
  <2>1. /\ Len(t) \in Nat /\ DOMAIN t = 1..Len(t) /\ DOMAIN (t \o <<x>>) = 1..Len(t) + 1
        /\ t \o <<x>> \in Seq(Nat)
        /\ (t \o <<x>>)[Len(t) + 1] = x
        /\ \A i \in 1..Len(t) : (t \o <<x>>)[i] = t[i]
    OBVIOUS
  <2> QED BY <2>1
<1>2. ASSUME NEW i \in 1..n + 1, NEW j \in 1..n + 1, i < j PROVE u[i] < u[j]
  <2>1. i \in 1..n /\ (j \in 1..n \/ j = n + 1)
    BY <1>2
  <2> QED BY <1>1, <1>2, <2>1 DEF Rising
<1> QED BY <1>1, <1>2 DEF Rising

\* All the numbers of the set up to the bound, rising.
LEMMA AscendingIs ==
  ASSUME NEW set, NEW n \in Nat
  PROVE  /\ Ascending(set, n) \in Seq(Nat)
         /\ Rising(Ascending(set, n))
         /\ Range(Ascending(set, n)) = set \cap 1..n
<1>1. Ascending(set, n) \in Seq(set \cap 1..n)
  BY AscendingTyped
<1>2. Range(Ascending(set, n)) \subseteq set \cap 1..n
  BY <1>1 DEF Range
<1>3. \A x \in set \cap 1..n : x \in Range(Ascending(set, n))
  BY AscendingHas DEF Range
<1> DEFINE P(m) == Rising(Ascending(set, m))
           G == {m \in 0..n : P(m)}
<1>4. P(0)
  <2>1. Rising(<< >>)
    BY DEF Rising
  <2> QED BY <2>1, AscendingNext
<1>5. ASSUME NEW m \in 0..n, m < n, P(m) PROVE P(m + 1)
  <2>1. PICK t : /\ t = Ascending(set, m) /\ t \in Seq(Nat) /\ t \in Seq(set \cap 1..m)
                 /\ Ascending(set, m + 1) = t \o (IF m + 1 \in set THEN <<m + 1>> ELSE << >>)
    BY AscendingNext, AscendingTyped
  <2>2. \A i \in DOMAIN t : t[i] < m + 1
    <3>1. \A i \in DOMAIN t : t[i] \in 1..m
      BY <2>1
    <3> QED BY <3>1
  <2>3. Rising(t \o <<m + 1>>)
    BY <1>5, <2>1, <2>2, RisingNext
  <2>4. t \o << >> = t
    BY <2>1, ConcatEmptySeq
  <2> QED BY <1>5, <2>1, <2>3, <2>4
<1>6. \A m \in 0..n : m \in G
  <2> HIDE DEF P
  <2>1. 0 \in G
    BY <1>4
  <2>2. ASSUME NEW m \in 0..n, m < n, m \in G PROVE m + 1 \in G
    <3>1. P(m)
      BY <2>2
    <3>2. P(m + 1)
      BY <2>2, <3>1, <1>5
    <3>3. m + 1 \in 0..n
      BY <2>2
    <3> QED BY <3>2, <3>3
  <2> HIDE DEF G
  <2> QED BY <2>1, <2>2, UpTo
<1>7. P(n)
  <2> HIDE DEF P
  <2> QED BY <1>6
<1> QED BY <1>2, <1>3, <1>7, AscendingNext

\* A rising sequence begins like another one of the same numbers.
LEMMA RisingBegins ==
  ASSUME NEW s \in Seq(Nat), NEW t \in Seq(Nat), Rising(s), Rising(t), Range(s) = Range(t)
  PROVE  Len(s) <= Len(t) /\ \A k \in 1..Len(s) : s[k] = t[k]
<1>1. PICK n \in Nat, m \in Nat : n = Len(s) /\ m = Len(t) /\ DOMAIN s = 1..n /\ DOMAIN t = 1..m
  OBVIOUS
<1>2. /\ \A i \in 1..n : s[i] \in Nat /\ \E j \in 1..m : t[j] = s[i]
      /\ \A j \in 1..m : t[j] \in Nat /\ \E i \in 1..n : s[i] = t[j]
  <2>1. \A i \in 1..n : s[i] \in Nat /\ s[i] \in Range(s)
    BY <1>1 DEF Range
  <2>2. \A j \in 1..m : t[j] \in Nat /\ t[j] \in Range(t)
    BY <1>1 DEF Range
  <2>3. \A i \in 1..n : \E j \in 1..m : t[j] = s[i]
    <3>1. \A x \in Range(t) : \E j \in 1..m : t[j] = x
      BY <1>1 DEF Range
    <3> QED BY <2>1, <3>1
  <2>4. \A j \in 1..m : \E i \in 1..n : s[i] = t[j]
    <3>1. \A x \in Range(s) : \E i \in 1..n : s[i] = x
      BY <1>1 DEF Range
    <3> QED BY <2>2, <3>1
  <2> QED BY <2>1, <2>2, <2>3, <2>4
<1>3. /\ \A i, j \in 1..n : i < j => s[i] < s[j]
      /\ \A i, j \in 1..m : i < j => t[i] < t[j]
  BY <1>1 DEF Rising
<1> DEFINE G == {k \in 0..n : k <= m /\ \A i \in 1..k : s[i] = t[i]}
<1>4. 0 \in G
  BY <1>1
<1>5. ASSUME NEW k \in 0..n, k < n, k \in G PROVE k + 1 \in G
  <2>1. k + 1 \in 1..n /\ k <= m /\ \A i \in 1..k : s[i] = t[i] /\ i \in 1..n /\ i \in 1..m
    BY <1>1, <1>5
  <2>2. PICK j \in 1..m : t[j] = s[k + 1]
    BY <1>2, <2>1
  <2>3. j > k
    <3> SUFFICES ASSUME j <= k PROVE FALSE
      OBVIOUS
    <3>1. j \in 1..k /\ j < k + 1
      BY <1>5
    <3>2. s[j] = t[j] /\ s[j] < s[k + 1] /\ s[j] \in Nat
      BY <1>2, <1>3, <2>1, <3>1
    <3> QED BY <2>2, <3>2
  <2>4. k + 1 \in 1..m
    BY <2>1, <2>3
  <2>5. PICK i \in 1..n : s[i] = t[k + 1]
    BY <1>2, <2>4
  <2>6. i > k
    <3> SUFFICES ASSUME i <= k PROVE FALSE
      OBVIOUS
    <3>1. i \in 1..k /\ i < k + 1
      BY <1>5
    <3>2. s[i] = t[i] /\ t[i] < t[k + 1] /\ t[i] \in Nat
      BY <1>2, <1>3, <2>1, <2>4, <3>1
    <3> QED BY <2>5, <3>2
  <2>7. t[k + 1] <= t[j] /\ s[k + 1] <= s[i]
    <3>1. j = k + 1 \/ k + 1 < j
      BY <2>3
    <3>2. i = k + 1 \/ k + 1 < i
      BY <2>6
    <3>3. k + 1 < j => t[k + 1] < t[j]
      BY <1>3, <2>4
    <3>4. k + 1 < i => s[k + 1] < s[i]
      BY <1>3, <2>1
    <3>5. t[k + 1] \in Nat /\ t[j] \in Nat /\ s[k + 1] \in Nat /\ s[i] \in Nat
      BY <1>2, <2>1, <2>4
    <3>6. t[k + 1] = t[j] \/ t[k + 1] < t[j]
      BY <3>1, <3>3
    <3>7. s[k + 1] = s[i] \/ s[k + 1] < s[i]
      BY <3>2, <3>4
    <3>8. \A a, b \in Nat : a = b \/ a < b => a <= b
      OBVIOUS
    <3> QED BY <3>5, <3>6, <3>7, <3>8
  <2>8. s[k + 1] = t[k + 1]
    <3>1. t[k + 1] \in Nat /\ s[k + 1] \in Nat
      BY <1>2, <2>1, <2>4
    <3> QED BY <2>2, <2>5, <2>7, <3>1
  <2>9. \A x \in 1..k + 1 : x \in 1..k \/ x = k + 1
    BY <1>5
  <2>10. k + 1 \in 0..n /\ k + 1 <= m
    BY <2>1, <2>4
  <2> QED BY <2>1, <2>8, <2>9, <2>10
<1>6. \A k \in 0..n : k \in G
  <2> HIDE DEF G
  <2> QED BY <1>4, <1>5, UpTo
<1>7. n \in G
  <2> HIDE DEF G
  <2> QED BY <1>6
<1> QED BY <1>1, <1>7

\* No other sequence is that.
LEMMA AscendingOnly ==
  ASSUME NEW set, NEW n \in Nat, NEW t \in Seq(Nat), Rising(t), Range(t) = set \cap 1..n
  PROVE  t = Ascending(set, n)
<1>1. PICK a \in Seq(Nat) : a = Ascending(set, n) /\ Rising(a) /\ Range(a) = Range(t)
  BY AscendingIs
<1>2. Len(a) <= Len(t) /\ Len(t) <= Len(a) /\ \A k \in 1..Len(a) : a[k] = t[k]
  BY <1>1, RisingBegins
<1>3. Len(a) = Len(t)
  <2>1. Len(a) \in Nat /\ Len(t) \in Nat
    BY <1>1
  <2> QED BY <1>2, <2>1
<1>4. a = t
  BY <1>2, <1>3, SeqEqual
<1> QED BY <1>1, <1>4

\* Two ways to say the same numbers, and one part after the other.
LEMMA AscendingSame ==
  ASSUME NEW a, NEW n \in Nat, NEW b, NEW m \in Nat, a \cap 1..n = b \cap 1..m
  PROVE  Ascending(a, n) = Ascending(b, m)
BY AscendingIs, AscendingOnly

Parted(c, a, b, n) ==
  /\ c \cap 1..n = (a \cup b) \cap 1..n
  /\ \A x \in a \cap 1..n, y \in b \cap 1..n : x < y

\* Numbers below come before numbers above.
LEMMA AscendingJoin ==
  ASSUME NEW a, NEW b, NEW c, NEW n \in Nat, Parted(c, a, b, n)
  PROVE  Ascending(c, n) = Ascending(a, n) \o Ascending(b, n)
<1>0. /\ c \cap 1..n = (a \cup b) \cap 1..n
      /\ \A x \in a \cap 1..n, y \in b \cap 1..n : x < y
  BY DEF Parted
<1>1. PICK s \in Seq(Nat), t \in Seq(Nat) :
        /\ s = Ascending(a, n) /\ Rising(s) /\ Range(s) = a \cap 1..n
        /\ t = Ascending(b, n) /\ Rising(t) /\ Range(t) = b \cap 1..n
  BY AscendingIs
<1>2. PICK k \in Nat, m \in Nat, u \in Seq(Nat) :
        /\ k = Len(s) /\ m = Len(t) /\ DOMAIN s = 1..k /\ DOMAIN t = 1..m
        /\ u = s \o t /\ DOMAIN u = 1..k + m
        /\ (\A i \in 1..k : u[i] = s[i])
        /\ \A i \in k + 1..k + m : u[i] = t[i - k]
  <2>1. /\ Len(s) \in Nat /\ Len(t) \in Nat /\ DOMAIN s = 1..Len(s) /\ DOMAIN t = 1..Len(t)
        /\ s \o t \in Seq(Nat) /\ DOMAIN (s \o t) = 1..Len(s) + Len(t)
        /\ (\A i \in 1..Len(s) : (s \o t)[i] = s[i])
        /\ \A i \in Len(s) + 1..Len(s) + Len(t) : (s \o t)[i] = t[i - Len(s)]
    OBVIOUS
  <2> QED BY <2>1
<1>3. \A i \in 1..k + m : i \in 1..k \/ (i \in k + 1..k + m /\ i - k \in 1..m)
  OBVIOUS
<1>4. /\ \A i \in 1..k : s[i] \in a \cap 1..n
      /\ \A j \in 1..m : t[j] \in b \cap 1..n
  BY <1>1, <1>2 DEF Range
<1>5. Rising(u)
  <2> SUFFICES ASSUME NEW i \in 1..k + m, NEW j \in 1..k + m, i < j PROVE u[i] < u[j]
    BY <1>2 DEF Rising
  <2>1. CASE i \in 1..k /\ j \in 1..k
    BY <1>1, <1>2, <2>1 DEF Rising
  <2>2. CASE i \in 1..k /\ j \in k + 1..k + m
    <3>1. j - k \in 1..m
      BY <2>2
    <3> QED BY <1>0, <1>2, <1>4, <2>2, <3>1
  <2>3. CASE i \in k + 1..k + m /\ j \in k + 1..k + m
    <3>1. i - k \in 1..m /\ j - k \in 1..m /\ i - k < j - k
      BY <2>3
    <3>2. t[i - k] < t[j - k]
      BY <1>1, <1>2, <3>1 DEF Rising
    <3> QED BY <1>2, <2>3, <3>2
  <2>4. ~(i \in k + 1..k + m /\ j \in 1..k)
    OBVIOUS
  <2> QED BY <1>3, <2>1, <2>2, <2>3, <2>4
<1>6. Range(u) = c \cap 1..n
  <2>1. Range(u) \subseteq c \cap 1..n
    <3> SUFFICES ASSUME NEW i \in 1..k + m PROVE u[i] \in c \cap 1..n
      BY <1>2 DEF Range
    <3> QED BY <1>0, <1>2, <1>3, <1>4
  <2>2. ASSUME NEW x \in c \cap 1..n PROVE x \in Range(u)
    <3>1. CASE x \in a
      <4>1. PICK i \in 1..k : s[i] = x
        BY <1>1, <1>2, <2>2, <3>1 DEF Range
      <4>2. i \in 1..k + m
        OBVIOUS
      <4> QED BY <1>2, <4>1, <4>2 DEF Range
    <3>2. CASE x \in b
      <4>1. PICK j \in 1..m : t[j] = x
        BY <1>1, <1>2, <2>2, <3>2 DEF Range
      <4>2. k + j \in 1..k + m /\ k + j \in k + 1..k + m /\ (k + j) - k = j
        OBVIOUS
      <4>3. u[k + j] = x /\ k + j \in DOMAIN u
        <5>1. u[k + j] = t[(k + j) - k]
          BY <1>2, <4>2
        <5> QED BY <1>2, <4>1, <4>2, <5>1
      <4> QED BY <4>3 DEF Range
    <3> QED BY <1>0, <2>2, <3>1, <3>2
  <2> QED BY <2>1, <2>2
<1>7. u = Ascending(c, n)
  BY <1>5, <1>6, AscendingOnly
<1> QED BY <1>1, <1>2, <1>7

\* The least comes first.
LEMMA AscendingFirst ==
  ASSUME NEW set, NEW n \in Nat, NEW x \in set \cap 1..n, \A y \in set \cap 1..n : x <= y
  PROVE  Ascending(set, n) # << >> /\ Ascending(set, n)[1] = x
<1>1. PICK s \in Seq(Nat) : s = Ascending(set, n) /\ Rising(s) /\ Range(s) = set \cap 1..n
  BY AscendingIs
<1>2. PICK j \in DOMAIN s : s[j] = x
  BY <1>1 DEF Range
<1>3. DOMAIN s = 1..Len(s) /\ Len(s) \in Nat
  OBVIOUS
<1>4. 1 \in DOMAIN s /\ s[1] \in set \cap 1..n
  BY <1>1, <1>2, <1>3 DEF Range
<1>5. ~(1 < j)
  <2> SUFFICES ASSUME 1 < j PROVE FALSE
    OBVIOUS
  <2>1. s[1] < x
    BY <1>1, <1>2, <1>4 DEF Rising
  <2>2. x <= s[1] /\ s[1] \in Nat /\ x \in Nat
    BY <1>4
  <2> QED BY <2>1, <2>2
<1>6. j = 1
  BY <1>2, <1>3, <1>5
<1> QED BY <1>1, <1>2, <1>4, <1>6

\* The numbers that are arguments, of some pieces of a call.
ArgsEach(ps, a) == [i \in DOMAIN a |-> Entry(ps, a[i]).args]

\* The arguments of entries are those of their pieces, in their order.
LEMMA ArgumentsOf ==
  ASSUME NEW ps, NEW set, NEW n \in Nat,
         NEW a, a = Ascending(set, n)
  PROVE  FlattenSeq(ArgsEach(ps, a)) = Ascending({k \in set : ps[k] = "args"}, n)
<1> DEFINE Args(k) == IF ps[k] = "args" THEN <<k>> ELSE << >>
           Parts(t) == [i \in DOMAIN t |-> Args(t[i])]
           some == {k \in set : ps[k] = "args"}
           P(m) == FlattenSeq(Parts(Ascending(set, m))) = Ascending(some, m)
           G == {m \in 0..n : P(m)}
<1>1. \A k \in Nat : Args(k) \in Seq(Nat)
  OBVIOUS
<1>2. P(0)
  <2>1. Parts(<< >>) = << >>
    OBVIOUS
  <2> HIDE DEF Parts, some
  <2> QED BY <2>1, AscendingNext, FlattenNone
<1>3. ASSUME NEW m \in 0..n, m < n, P(m) PROVE P(m + 1)
  <2>1. PICK t \in Seq(Nat), u \in Seq(Nat) :
          /\ t = Ascending(set, m) /\ u = Ascending(some, m)
          /\ Ascending(set, m + 1) = t \o (IF m + 1 \in set THEN <<m + 1>> ELSE << >>)
          /\ Ascending(some, m + 1) = u \o (IF m + 1 \in some THEN <<m + 1>> ELSE << >>)
    <3> HIDE DEF some
    <3> QED BY AscendingNext
  <2>2. t \o << >> = t /\ u \o << >> = u
    BY ConcatEmptySeq
  <2>3. CASE m + 1 \notin set
    <3>1. m + 1 \notin some
      BY <2>3
    <3> HIDE DEF some, Parts
    <3> QED BY <1>3, <2>1, <2>2, <2>3, <3>1
  <2>4. CASE m + 1 \in set
    <3>1. Ascending(some, m + 1) = u \o Args(m + 1)
      BY <2>1, <2>4
    <3>2. Ascending(set, m + 1) = Append(t, m + 1)
      BY <2>1, <2>4
    <3> HIDE DEF Args
    <3>3. Parts(Append(t, m + 1)) = Append(Parts(t), Args(m + 1))
      <4>1. DOMAIN t = 1..Len(t) /\ DOMAIN Append(t, m + 1) = 1..Len(t) + 1 /\ Len(t) \in Nat
        OBVIOUS
      <4>2. /\ \A k \in 1..Len(t) : Append(t, m + 1)[k] = t[k]
            /\ Append(t, m + 1)[Len(t) + 1] = m + 1
        OBVIOUS
      <4> QED BY <4>1, <4>2
    <3>4. Parts(t) \in Seq(Seq(Nat))
      <4>1. DOMAIN t = 1..Len(t) /\ Len(t) \in Nat /\ \A k \in 1..Len(t) : t[k] \in Nat
        OBVIOUS
      <4>2. \A k \in 1..Len(t) : Args(t[k]) \in Seq(Nat)
        BY <1>1, <4>1
      <4> QED BY <4>1, <4>2
    <3>5. Args(m + 1) \in Seq(Nat)
      BY <1>1
    <3> HIDE DEF Parts, some
    <3>6. FlattenSeq(Append(Parts(t), Args(m + 1))) = FlattenSeq(Parts(t)) \o Args(m + 1)
      BY <3>4, <3>5, FlattenNext
    <3> QED BY <1>3, <2>1, <3>1, <3>2, <3>3, <3>6
  <2> QED BY <2>3, <2>4
<1>4. \A m \in 0..n : m \in G
  <2> HIDE DEF P
  <2>1. 0 \in G
    BY <1>2
  <2>2. ASSUME NEW m \in 0..n, m < n, m \in G PROVE m + 1 \in G
    <3>1. P(m)
      BY <2>2
    <3>2. P(m + 1)
      BY <2>2, <3>1, <1>3
    <3>3. m + 1 \in 0..n
      BY <2>2
    <3> QED BY <3>2, <3>3
  <2> HIDE DEF G
  <2> QED BY <2>1, <2>2, UpTo
<1>5. P(n)
  <2> HIDE DEF P
  <2> QED BY <1>4
<1>6. ArgsEach(ps, a) = Parts(a)
  BY DEF ArgsEach, Entry
<1> HIDE DEF Parts, some
<1>7. FlattenSeq(Parts(a)) = Ascending(some, n)
  BY <1>5
<1> QED BY <1>6, <1>7 DEF some

-----------------------------------------------------------------------------
\* The call a piece belongs to.

\* A later piece belongs to the same call or, after a name, to a later one.
LEMMA CallOrder ==
  ASSUME NEW ps, NEW i \in Nat, NEW j \in Nat, i <= j
  PROVE  /\ CallOf(ps, i) \in Int /\ CallOf(ps, j) \in Int
         /\ CallOf(ps, i) <= CallOf(ps, j)
         /\ i < j /\ ps[j] = "name" => CallOf(ps, i) < CallOf(ps, j)
         /\ (\A k \in i + 1..j : ps[k] # "name") => CallOf(ps, i) = CallOf(ps, j)
<1> DEFINE names(m) == {k \in 1..m : ps[k] = "name"}
<1>1. \A m \in Nat : IsFiniteSet(names(m)) /\ Cardinality(names(m)) \in Nat
  <2> TAKE m \in Nat
  <2>1. IsFiniteSet(1..m) /\ names(m) \subseteq 1..m
    BY FS_Interval
  <2> HIDE DEF names
  <2> QED BY <2>1, FS_Subset, FS_CardinalityType
<1>2. \A m : CallOf(ps, m) = Cardinality(names(m)) - 1
  BY DEF CallOf
<1>3. names(i) \subseteq names(j)
  OBVIOUS
<1>4. Cardinality(names(i)) <= Cardinality(names(j))
  <2> HIDE DEF names
  <2> QED BY <1>1, <1>3, FS_Subset
<1>5. i < j /\ ps[j] = "name" => Cardinality(names(i)) < Cardinality(names(j))
  <2> SUFFICES ASSUME i < j, ps[j] = "name" PROVE Cardinality(names(i)) < Cardinality(names(j))
    OBVIOUS
  <2>1. j \in names(j) /\ j \notin names(i)
    BY i < j
  <2> HIDE DEF names
  <2> QED BY <1>1, <1>3, <1>4, <2>1, FS_Subset
<1>6. (\A k \in i + 1..j : ps[k] # "name") => names(i) = names(j)
  OBVIOUS
<1> HIDE DEF names
<1> QED BY <1>1, <1>2, <1>4, <1>5, <1>6

\* It depends on the pieces before only.
LEMMA CallAlike ==
  ASSUME NEW ps, NEW qs, NEW i \in Nat, \A k \in 1..i : ps[k] = qs[k]
  PROVE  CallOf(ps, i) = CallOf(qs, i)
<1>1. {k \in 1..i : ps[k] = "name"} = {k \in 1..i : qs[k] = "name"}
  OBVIOUS
<1> QED BY <1>1 DEF CallOf

-----------------------------------------------------------------------------
\* The items as they stand, as far as their kind, name and text go.

LookType == [state : States, name : Nat, text : Seq(Nat)]
LookOf(item) == [state |-> item.state, name |-> item.name, text |-> item.text]
Kept(s) == [i \in DOMAIN s.items |-> LookOf(s.items[i])]
Looks(s) == IF s.proc.state = None THEN Kept(s) ELSE Append(Kept(s), LookOf(s.proc))

\* The last of them goes on.
Longer(l, new) == [state |-> l.state, name |-> l.name, text |-> l.text \o new]
GoesOn(L, M, new) ==
  \E F \in Seq(LookType), l \in LookType : L = Append(F, l) /\ M = Append(F, Longer(l, new))

\* What a part adds to an item of a kind.
Added(target, d) == New([state |-> target], d)

\* The looks of a run.
LEMMA LooksTyped ==
  ASSUME NEW s \in RunType
  PROVE  /\ Kept(s) \in Seq(LookType)
         /\ s.proc.state # None => LookOf(s.proc) \in LookType
         /\ Looks(s) \in Seq(LookType)
<1>1. s.items \in Seq(ItemType) /\ s.proc \in ProcType
  BY DEF RunType
<1>2. \A item \in ItemType : LookOf(item) \in LookType
  BY DEF ItemType, LookOf, LookType
<1>3. Kept(s) \in Seq(LookType)
  <2>1. DOMAIN s.items = 1..Len(s.items) /\ Len(s.items) \in Nat
    BY <1>1
  <2>2. \A i \in 1..Len(s.items) : LookOf(s.items[i]) \in LookType
    <3>1. \A i \in 1..Len(s.items) : s.items[i] \in ItemType
      BY <1>1
    <3> QED BY <1>2, <3>1
  <2> QED BY <2>1, <2>2 DEF Kept
<1>4. s.proc.state # None => LookOf(s.proc) \in LookType
  BY <1>1 DEF ProcType, LookOf, LookType
<1>5. s.proc.state # None => Append(Kept(s), LookOf(s.proc)) \in Seq(LookType)
  BY <1>3, <1>4
<1> QED BY <1>3, <1>4, <1>5 DEF Looks

\* Closing an item leaves it as it stands.
LEMMA CloseLooks ==
  ASSUME NEW s \in RunType, NEW truncated \in BOOLEAN, NEW c, c = CloseCurrent(s, truncated)
  PROVE  Looks(c) = Looks(s) /\ c.proc.state = None /\ c.rejected = s.rejected
<1>1. CASE s.proc.state = None
  <2>1. c = s
    BY <1>1, CloseIs
  <2> QED BY <1>1, <2>1
<1>2. CASE s.proc.state # None
  <2>1. ClosedAs(c, s, truncated)
    BY <1>2, CloseIs
  <2>2. PICK item :
          c.items = Append(s.items, item) /\ LookOf(item) = LookOf(s.proc)
    <3> DEFINE it == [id |-> s.proc.opened, state |-> s.proc.state, name |-> s.proc.name,
                      text |-> s.proc.text, logs |-> s.proc.logs,
                      status |-> Status(s.proc, truncated)]
    <3>1. c.items = Append(s.items, it)
      BY <2>1 DEF ClosedAs
    <3>2. it.state = s.proc.state /\ it.name = s.proc.name /\ it.text = s.proc.text
      OBVIOUS
    <3> HIDE DEF it
    <3> QED BY <3>1, <3>2 DEF LookOf
  <2>3. c.proc.state = None /\ c.rejected = s.rejected
    <3>1. c.proc = [s.proc EXCEPT !.nth = s.proc.nth + 1, !.state = None] /\ s.proc \in ProcType
      BY <2>1 DEF ClosedAs, RunType
    <3> QED BY <2>1, <3>1 DEF ProcType, ClosedAs
  <2>4. PICK k \in Nat : k = Len(s.items) /\ DOMAIN s.items = 1..k
    BY DEF RunType
  <2>5. /\ DOMAIN c.items = 1..k + 1 /\ c.items[k + 1] = item
        /\ \A i \in 1..k : c.items[i] = s.items[i]
    <3>1. \A t : t \in Seq(ItemType) => /\ DOMAIN Append(t, item) = 1..Len(t) + 1
                                        /\ Append(t, item)[Len(t) + 1] = item
                                        /\ \A i \in 1..Len(t) : Append(t, item)[i] = t[i]
      OBVIOUS
    <3>2. s.items \in Seq(ItemType)
      BY DEF RunType
    <3> QED BY <2>2, <2>4, <3>1, <3>2
  <2>6. Kept(c) = Append(Kept(s), LookOf(s.proc))
    <3> DEFINE it == LookOf(s.proc)
               a == Append(Kept(s), it)
    <3>1. Kept(s) = [i \in 1..k |-> LookOf(s.items[i])]
      BY <2>4 DEF Kept
    <3>2. /\ DOMAIN a = 1..k + 1 /\ a[k + 1] = it
          /\ (\A i \in 1..k : a[i] = LookOf(s.items[i])) /\ a = [i \in 1..k + 1 |-> a[i]]
      <4> HIDE DEF it
      <4>1. Kept(s) \in Seq(LookType) /\ Len(Kept(s)) = k
        BY <2>4, <3>1, LooksTyped
      <4> QED BY <3>1, <4>1
    <3>3. Kept(c) = [i \in 1..k + 1 |-> LookOf(c.items[i])]
      BY <2>5 DEF Kept
    <3>4. \A i \in 1..k + 1 : LookOf(c.items[i]) = a[i]
      <4> HIDE DEF a
      <4>1. \A i \in 1..k + 1 : i \in 1..k \/ i = k + 1
        OBVIOUS
      <4> QED BY <2>2, <2>5, <3>2, <4>1
    <3> HIDE DEF a, it
    <3>5. Kept(c) = a
      BY <3>2, <3>3, <3>4
    <3> QED BY <3>5 DEF a, it
  <2> QED BY <1>2, <2>3, <2>6 DEF Looks
<1> QED BY <1>1, <1>2

\* Opening an item.
NewlyOpen(s, c, d, target) ==
  /\ c.rejected = s.rejected /\ c.proc.state = target /\ c.proc.state # None
  /\ target = "call" => c.proc.call = d.tools[1].index /\ c.proc.name = d.tools[1].name
  /\ Kept(c) = Looks(s) /\ c.proc.text = << >>

\* A new item stands after those before it, with its name and no text
\* (open_item).
LEMMA OpenLooks ==
  ASSUME NEW s \in RunType, s.proc.state = None, NEW d \in PartType, NEW target \in States,
         target = "call" => d.tools # << >>, NEW c, c = OpenItem(s, target, d)
  PROVE  /\ Nameless(target, d) => c.rejected = TRUE
         /\ ~Nameless(target, d) => NewlyOpen(s, c, d, target)
<1>1. s.proc \in ProcType /\ None \notin States
  BY DEF RunType, States, None
<1>2. PICK q \in ProcType : q = Blank(s.proc, target, d) /\ q.text = << >>
  BY <1>1, BlankTyped
<1>3. OpenedAs(c, q, s, target, d)
  BY <1>2, OpenIs
<1>4. CASE Nameless(target, d)
  BY <1>3, <1>4 DEF OpenedAs
<1>5. CASE ~Nameless(target, d)
  <2>1. /\ c.proc = [q EXCEPT !.state = target, !.opened = s.proc.opened + 1]
        /\ c.items = s.items /\ c.rejected = s.rejected
    BY <1>3, <1>5 DEF OpenedAs
  <2>2. /\ c.proc.state = target /\ c.proc.text = << >>
        /\ c.proc.call = q.call /\ c.proc.name = q.name
    BY <1>2, <2>1 DEF ProcType
  <2>3. target = "call" => q.call = d.tools[1].index /\ q.name = d.tools[1].name
    BY <1>1, <1>2 DEF Blank, ProcType
  <2>4. Kept(c) = Looks(s)
    BY <2>1 DEF Kept, Looks
  <2> QED BY <1>1, <1>5, <2>1, <2>2, <2>3, <2>4 DEF NewlyOpen
<1> QED BY <1>4, <1>5

\* Telling goes on with the open item.
NewlyTold(s, c, new) ==
  /\ Kept(c) = Kept(s) /\ c.rejected = s.rejected
  /\ c.proc.state = s.proc.state /\ c.proc.call = s.proc.call /\ c.proc.name = s.proc.name
  /\ c.proc.text = s.proc.text \o new

\* Telling adds to the text of the open item and to nothing else (emit_delta).
LEMMA EmitLooks ==
  ASSUME NEW s \in RunType, s.proc.state # None, NEW d \in PartType, NEW c, c = EmitDelta(s, d)
  PROVE  NewlyTold(s, c, Added(s.proc.state, d))
<1>1. s.proc \in ProcType /\ s.proc.text \in Seq(Nat)
  BY DEF RunType, ProcType
<1>2. New(s.proc, d) = Added(s.proc.state, d)
  BY DEF New, Added
<1>3. CASE Silent(s, d)
  <2>1. c = s
    BY <1>3, EmitIs
  <2>2. Added(s.proc.state, d) = << >>
    BY <1>3 DEF Silent, Added, New
  <2>3. s.proc.text \o << >> = s.proc.text
    BY <1>1, ConcatEmptySeq
  <2> QED BY <2>1, <2>2, <2>3 DEF NewlyTold
<1>4. CASE ~Silent(s, d)
  <2>1. PICK new : new = New(s.proc, d) /\ EmittedAs(c, s, d, new)
    BY <1>4, EmitIs
  <2>2. c.items = s.items /\ c.rejected = s.rejected
    BY <2>1 DEF EmittedAs
  <2>3. CASE s.proc.state = "content"
    <3>1. c.proc = [s.proc EXCEPT !.text = s.proc.text \o new, !.logs = LogsAfter(s.proc, d),
                                  !.whole = WholeAfter(s.proc, d)]
      BY <2>1, <2>3 DEF EmittedAs
    <3>2. /\ c.proc.state = s.proc.state /\ c.proc.text = s.proc.text \o new
          /\ c.proc.call = s.proc.call /\ c.proc.name = s.proc.name
      BY <1>1, <3>1 DEF ProcType
    <3> QED BY <1>2, <2>1, <2>2, <3>2 DEF Kept, NewlyTold
  <2>4. CASE s.proc.state # "content"
    <3>1. c.proc = [s.proc EXCEPT !.text = s.proc.text \o new, !.sent = TRUE]
      BY <2>1, <2>4 DEF EmittedAs
    <3>2. /\ c.proc.state = s.proc.state /\ c.proc.text = s.proc.text \o new
          /\ c.proc.call = s.proc.call /\ c.proc.name = s.proc.name
      BY <1>1, <3>1 DEF ProcType
    <3> QED BY <1>2, <2>1, <2>2, <3>2 DEF Kept, NewlyTold
  <2> QED BY <2>3, <2>4
<1> QED BY <1>3, <1>4

\* What a step makes of the items as they stand: the last goes on, or there is
\* one more.
Continues(s, c, target, d) ==
  /\ ~c.rejected /\ c.proc.state = target /\ s.proc.state = target
  /\ c.proc.call = s.proc.call /\ c.proc.name = s.proc.name
  /\ GoesOn(Looks(s), Looks(c), Added(target, d))
  /\ Looks(s) = Append(Kept(s), LookOf(s.proc))
Begins(s, c, target, d) ==
  /\ ~c.rejected /\ c.proc.state = target
  /\ target = "call" => c.proc.call = d.tools[1].index /\ c.proc.name = d.tools[1].name
  /\ \E l \in LookType :
       /\ l.state = target /\ (target = "call" => l.name = d.tools[1].name)
       /\ l.text = Added(target, d)
       /\ Looks(c) = Append(Looks(s), l)

\* A part goes on with the open item, begins another after it, or does nothing.
LEMMA StepLooks ==
  ASSUME NEW s \in RunType, ~s.rejected, NEW d \in PartType, NEW target \in States,
         target = TargetState(d), NEW c, c = Step(s, d)
  PROVE  /\ c \in RunType
         /\ ~NeedsTransition(s.proc, target, d) => Continues(s, c, target, d)
         /\ NeedsTransition(s.proc, target, d) /\ ~Nameless(target, d) => Begins(s, c, target, d)
<1>1. None \notin States /\ (target = "call" => d.tools # << >>)
  BY TargetTyped DEF None, States
<1>2. CASE ~NeedsTransition(s.proc, target, d)
  <2>1. s.proc.state = target /\ s.proc.state # None /\ c = EmitDelta(s, d)
    BY <1>1, <1>2, StepIs
  <2>2. c \in RunType
    BY <2>1, EmitTextTyped
  <2>3. /\ Kept(c) = Kept(s) /\ c.rejected = s.rejected
        /\ c.proc.state = target /\ c.proc.call = s.proc.call /\ c.proc.name = s.proc.name
        /\ c.proc.text = s.proc.text \o Added(target, d)
    <3>1. NewlyTold(s, c, Added(s.proc.state, d))
      BY <2>1, EmitLooks
    <3> QED BY <2>1, <3>1 DEF NewlyTold
  <2>4. Kept(s) \in Seq(LookType) /\ LookOf(s.proc) \in LookType
    BY <2>1, LooksTyped
  <2>5. LookOf(c.proc) = Longer(LookOf(s.proc), Added(target, d))
    BY <2>1, <2>3 DEF LookOf, Longer
  <2>6. Looks(s) = Append(Kept(s), LookOf(s.proc)) /\ Looks(c) = Append(Kept(s), LookOf(c.proc))
    BY <1>1, <2>1, <2>3 DEF Looks
  <2>7. GoesOn(Looks(s), Looks(c), Added(target, d))
    BY <2>4, <2>5, <2>6 DEF GoesOn
  <2> QED BY <1>2, <2>1, <2>2, <2>3, <2>6, <2>7 DEF Continues
<1>3. CASE NeedsTransition(s.proc, target, d)
  <2>0. Reopens(s, d, target)
    BY <1>1, <1>3, StepIs
  <2>1. PICK k \in RunType, o \in RunType :
          /\ k = CloseCurrent(s, FALSE) /\ o = OpenItem(k, target, d)
          /\ o.rejected => c = o
          /\ ~o.rejected => c = EmitDelta(o, d)
    BY <2>0 DEF Reopens
  <2>2. Looks(k) = Looks(s) /\ k.proc.state = None /\ ~k.rejected
    BY <2>1, CloseLooks
  <2>3. CASE Nameless(target, d)
    <3>1. o.rejected
      BY <1>1, <2>1, <2>2, <2>3, OpenLooks
    <3> QED BY <1>3, <2>1, <2>3, <3>1
  <2>4. CASE ~Nameless(target, d)
    <3>1. /\ o.rejected = k.rejected /\ o.proc.state = target /\ o.proc.state # None
          /\ target = "call" => o.proc.call = d.tools[1].index /\ o.proc.name = d.tools[1].name
          /\ Kept(o) = Looks(s) /\ o.proc.text = << >>
      <4>1. NewlyOpen(k, o, d, target)
        BY <1>1, <2>1, <2>2, <2>4, OpenLooks
      <4> QED BY <2>2, <4>1 DEF NewlyOpen
    <3>2. c = EmitDelta(o, d)
      BY <2>1, <2>2, <3>1
    <3>3. c \in RunType
      BY <3>1, <3>2, EmitTextTyped
    <3>4. /\ Kept(c) = Looks(s) /\ c.rejected = o.rejected
          /\ c.proc.state = target /\ c.proc.call = o.proc.call /\ c.proc.name = o.proc.name
          /\ c.proc.text = << >> \o Added(target, d)
      <4>1. NewlyTold(o, c, Added(o.proc.state, d))
        BY <3>1, <3>2, EmitLooks
      <4> QED BY <3>1, <4>1 DEF NewlyTold
    <3>5. Added(target, d) \in Seq(Nat) /\ c.proc.state # None
      <4>1. d.reasoning.text \in Seq(Nat) /\ d.content.text \in Seq(Nat)
        BY DEF PartType, FieldType
      <4> QED BY <3>1, <3>4, <4>1, ArgumentsTyped DEF Added, New
    <3>6. c.proc.text = Added(target, d)
      <4>1. << >> \o Added(target, d) = Added(target, d)
        BY <3>5, ConcatEmptySeq
      <4> QED BY <3>4, <4>1
    <3>7. PICK l \in LookType :
            l = LookOf(c.proc) /\ l.state = target /\ l.name = c.proc.name /\ l.text = c.proc.text
      <4>1. LookOf(c.proc) \in LookType
        BY <3>3, <3>5, LooksTyped
      <4> QED BY <3>4, <4>1 DEF LookOf
    <3>8. Looks(c) = Append(Looks(s), l)
      BY <3>4, <3>5, <3>7 DEF Looks
    <3>9. Begins(s, c, target, d)
      BY <2>2, <3>1, <3>4, <3>6, <3>7, <3>8 DEF Begins
    <3> QED BY <1>3, <3>3, <3>9
  <2> QED BY <2>3, <2>4
<1> QED BY <1>2, <1>3

-----------------------------------------------------------------------------
\* That they hold what was generated.

\* The texts of a kind, one after the other.
TextIn(L, state) ==
  FlattenSeq([i \in DOMAIN L |-> IF L[i].state = state THEN L[i].text ELSE << >>])

\* Some pieces of a sort, and the arguments of a call among some pieces.
OfSort(ps, done, sort) == Ascending({k \in done : ps[k] = sort}, Len(ps))
ArgsOf(ps, done, x) ==
  Ascending({k \in done : ps[k] = "args" /\ CallOf(ps, k) = x}, Len(ps))

TextsRight(L, ps, done) ==
  /\ TextIn(L, "content") = OfSort(ps, done, "content")
  /\ TextIn(L, "reasoning") = IF hidden THEN << >> ELSE OfSort(ps, done, "reasoning")

CallsRight(L, ps, done) ==
  /\ \A i \in DOMAIN L : L[i].state = "call" =>
       /\ L[i].name \in done /\ ps[L[i].name] = "name"
       /\ L[i].text = ArgsOf(ps, done, CallOf(ps, L[i].name))
  /\ \A k \in done : ps[k] = "name" =>
       \E i \in DOMAIN L : L[i].state = "call" /\ L[i].name = k
  /\ \A i, j \in DOMAIN L :
       i < j /\ L[i].state = "call" /\ L[j].state = "call" => L[i].name < L[j].name

\* One more item, and more of the last.
LEMMA TextGrows ==
  ASSUME NEW L \in Seq(LookType), NEW l \in LookType, NEW new \in Seq(Nat), NEW state
  PROVE  /\ TextIn(L, state) \in Seq(Nat)
         /\ TextIn(Append(L, l), state)
              = TextIn(L, state) \o (IF l.state = state THEN l.text ELSE << >>)
         /\ Longer(l, new) \in LookType
         /\ TextIn(Append(L, Longer(l, new)), state)
              = TextIn(Append(L, l), state) \o (IF l.state = state THEN new ELSE << >>)
<1> DEFINE Part(e) == IF e.state = state THEN e.text ELSE << >>
           Parts(t) == [i \in DOMAIN t |-> Part(t[i])]
<1>1. \A e \in LookType : Part(e) \in Seq(Nat)
  BY DEF LookType
<1>2. Longer(l, new) \in LookType
  <2>1. l.text \o new \in Seq(Nat) /\ l.state \in States /\ l.name \in Nat
    BY ConcatProperties DEF LookType
  <2> QED BY <2>1 DEF Longer, LookType
<1>3. Parts(L) \in Seq(Seq(Nat))
  <2>1. DOMAIN L = 1..Len(L) /\ Len(L) \in Nat /\ \A k \in 1..Len(L) : L[k] \in LookType
    OBVIOUS
  <2> QED BY <1>1, <2>1
<1>4. \A t : TextIn(t, state) = FlattenSeq(Parts(t))
  BY DEF TextIn
<1>5. ASSUME NEW e \in LookType
      PROVE  TextIn(Append(L, e), state) = TextIn(L, state) \o Part(e)
  <2>1. Parts(Append(L, e)) = Append(Parts(L), Part(e))
    <3>1. DOMAIN Append(L, e) = 1..Len(L) + 1 /\ DOMAIN L = 1..Len(L) /\ Len(L) \in Nat
      OBVIOUS
    <3>2. /\ \A k \in 1..Len(L) : Append(L, e)[k] = L[k]
          /\ Append(L, e)[Len(L) + 1] = e
      OBVIOUS
    <3> HIDE DEF Part
    <3> QED BY <3>1, <3>2
  <2>2. Part(e) \in Seq(Nat)
    BY <1>1
  <2> HIDE DEF Parts, Part
  <2>3. FlattenSeq(Append(Parts(L), Part(e))) = FlattenSeq(Parts(L)) \o Part(e)
    BY <1>3, <2>2, FlattenNext
  <2> QED BY <1>4, <2>1, <2>3
<1>6. FlattenSeq(Parts(L)) \in Seq(Nat)
  <2> HIDE DEF Parts
  <2> QED BY <1>3, FlattenTyped
<1>7. TextIn(L, state) \in Seq(Nat)
  BY <1>4, <1>6
<1>8. CASE l.state = state
  <2>1. Part(Longer(l, new)) = l.text \o new /\ Part(l) = l.text /\ l.text \in Seq(Nat)
    BY <1>8 DEF Longer, LookType
  <2>2. PICK u \in Seq(Nat) : u = TextIn(L, state)
    BY <1>7
  <2>3. /\ TextIn(Append(L, Longer(l, new)), state) = u \o (l.text \o new)
        /\ TextIn(Append(L, l), state) = u \o l.text
    <3>1. \A e \in LookType : TextIn(Append(L, e), state) = u \o Part(e)
      BY <1>5, <2>2
    <3> HIDE DEF Part
    <3> QED BY <1>2, <2>1, <3>1
  <2>4. u \o (l.text \o new) = (u \o l.text) \o new
    <3>1. PICK v \in Seq(Nat) : v = l.text
      BY <2>1
    <3>2. (u \o v) \o new = u \o (v \o new)
      BY ConcatAssociative, SMTT(40)
    <3> QED BY <3>1, <3>2
  <2> QED BY <1>2, <1>7, <1>8, <2>2, <2>3, <2>4
<1>9. CASE l.state # state
  <2>1. Part(Longer(l, new)) = << >> /\ Part(l) = << >>
    BY <1>9 DEF Longer
  <2>2. PICK u \in Seq(Nat) : u = TextIn(L, state) /\ u \o << >> = u
    BY <1>7, ConcatEmptySeq
  <2>3. /\ TextIn(Append(L, Longer(l, new)), state) = u
        /\ TextIn(Append(L, l), state) = u
    BY <1>2, <1>5, <2>1, <2>2
  <2> QED BY <1>2, <1>9, <2>2, <2>3
<1> QED BY <1>8, <1>9

\* Some pieces that are done and some more.
Batch(ps, done, B) ==
  ps \in Seq(Sorts) /\ done \subseteq 1..Len(ps) /\ B \subseteq 1..Len(ps)

\* More pieces of a sort, and pieces of others.
LEMMA SortSame ==
  ASSUME NEW ps, NEW done, NEW B, NEW sort, \A k \in B : ps[k] # sort
  PROVE  OfSort(ps, done \cup B, sort) = OfSort(ps, done, sort)
<1>1. {k \in done \cup B : ps[k] = sort} = {k \in done : ps[k] = sort}
  OBVIOUS
<1> QED BY <1>1 DEF OfSort

\* More pieces of a sort come after those before.
LEMMA SortMore ==
  ASSUME NEW ps, NEW done, NEW B, Batch(ps, done, B), NEW sort,
         \A k \in B : ps[k] = sort, \A k \in done, b \in B : ps[k] = sort => k < b
  PROVE  OfSort(ps, done \cup B, sort) = OfSort(ps, done, sort) \o Ascending(B, Len(ps))
<1> DEFINE a == {k \in done : ps[k] = sort}
           c == {k \in done \cup B : ps[k] = sort}
<1>1. PICK n \in Nat : n = Len(ps)
  BY DEF Batch
<1>2. OfSort(ps, done, sort) = Ascending(a, n) /\ OfSort(ps, done \cup B, sort) = Ascending(c, n)
  BY <1>1 DEF OfSort
<1>3. c \cap 1..n = (a \cup B) \cap 1..n
  OBVIOUS
<1>4. \A x \in a \cap 1..n, y \in B \cap 1..n : x < y
  OBVIOUS
<1>5. Ascending(c, n) = Ascending(a, n) \o Ascending(B, n)
  <2>1. PICK u, w : u = a /\ w = c
    OBVIOUS
  <2>2. w \cap 1..n = (u \cup B) \cap 1..n /\ \A z \in u \cap 1..n, y \in B \cap 1..n : z < y
    BY <1>3, <1>4, <2>1
  <2>3. Parted(w, u, B, n)
    BY <2>2 DEF Parted
  <2>4. Ascending(w, n) = Ascending(u, n) \o Ascending(B, n)
    BY <2>3, AscendingJoin
  <2> QED BY <2>1, <2>4
<1> HIDE DEF a, c
<1> QED BY <1>1, <1>2, <1>5

\* More arguments of a call, those of others, and the first of a call.
LEMMA ArgsSame ==
  ASSUME NEW ps, NEW done, NEW B, NEW x, \A k \in B : ps[k] = "args" => CallOf(ps, k) # x
  PROVE  ArgsOf(ps, done \cup B, x) = ArgsOf(ps, done, x)
<1>1. {k \in done \cup B : ps[k] = "args" /\ CallOf(ps, k) = x}
        = {k \in done : ps[k] = "args" /\ CallOf(ps, k) = x}
  OBVIOUS
<1> QED BY <1>1 DEF ArgsOf

\* The arguments of a call of which nothing was done.
LEMMA ArgsFirst ==
  ASSUME NEW ps, NEW done, NEW B, NEW x,
         \A k \in done : ps[k] = "args" => CallOf(ps, k) # x, \A k \in B : CallOf(ps, k) = x
  PROVE  ArgsOf(ps, done \cup B, x) = Ascending({k \in B : ps[k] = "args"}, Len(ps))
<1>1. {k \in done \cup B : ps[k] = "args" /\ CallOf(ps, k) = x} = {k \in B : ps[k] = "args"}
  OBVIOUS
<1> QED BY <1>1 DEF ArgsOf

\* More arguments of a call come after those before.
LEMMA ArgsMore ==
  ASSUME NEW ps, NEW done, NEW B, Batch(ps, done, B), NEW x,
         \A k \in B : ps[k] = "args" /\ CallOf(ps, k) = x,
         \A k \in done, b \in B : ps[k] = "args" => k < b
  PROVE  ArgsOf(ps, done \cup B, x) = ArgsOf(ps, done, x) \o Ascending(B, Len(ps))
<1> DEFINE a == {k \in done : ps[k] = "args" /\ CallOf(ps, k) = x}
           c == {k \in done \cup B : ps[k] = "args" /\ CallOf(ps, k) = x}
<1>1. PICK n \in Nat : n = Len(ps)
  BY DEF Batch
<1>2. ArgsOf(ps, done, x) = Ascending(a, n) /\ ArgsOf(ps, done \cup B, x) = Ascending(c, n)
  BY <1>1 DEF ArgsOf
<1>3. c \cap 1..n = (a \cup B) \cap 1..n
  OBVIOUS
<1>4. \A z \in a \cap 1..n, y \in B \cap 1..n : z < y
  OBVIOUS
<1>5. Ascending(c, n) = Ascending(a, n) \o Ascending(B, n)
  <2>1. PICK u, w : u = a /\ w = c
    OBVIOUS
  <2>2. w \cap 1..n = (u \cup B) \cap 1..n /\ \A z \in u \cap 1..n, y \in B \cap 1..n : z < y
    BY <1>3, <1>4, <2>1
  <2>3. Parted(w, u, B, n)
    BY <2>2 DEF Parted
  <2>4. Ascending(w, n) = Ascending(u, n) \o Ascending(B, n)
    BY <2>3, AscendingJoin
  <2> QED BY <2>1, <2>4
<1> HIDE DEF a, c
<1> QED BY <1>1, <1>2, <1>5

\* A batch without visible text, and one of a kind of text.
LEMMA TextsKeep ==
  ASSUME NEW ps, NEW done, NEW B, NEW L, NEW M, TextsRight(L, ps, done),
         \A k \in B : ps[k] # "content", ~hidden => \A k \in B : ps[k] # "reasoning",
         TextIn(M, "content") = TextIn(L, "content"),
         TextIn(M, "reasoning") = TextIn(L, "reasoning")
  PROVE  TextsRight(M, ps, done \cup B)
<1>1. \A sort : (\A k \in B : ps[k] # sort) => OfSort(ps, done \cup B, sort) = OfSort(ps, done, sort)
  BY SortSame
<1>2. /\ OfSort(ps, done \cup B, "content") = OfSort(ps, done, "content")
      /\ ~hidden => OfSort(ps, done \cup B, "reasoning") = OfSort(ps, done, "reasoning")
  BY <1>1
<1> QED BY <1>2 DEF TextsRight

\* A batch of content.
LEMMA ContentGains ==
  ASSUME NEW ps, NEW done, NEW B, Batch(ps, done, B), NEW L, NEW M, TextsRight(L, ps, done),
         \A k \in B : ps[k] = "content",
         \A k \in done, b \in B : ps[k] = "content" => k < b,
         TextIn(M, "content") = TextIn(L, "content") \o Ascending(B, Len(ps)),
         TextIn(M, "reasoning") = TextIn(L, "reasoning")
  PROVE  TextsRight(M, ps, done \cup B)
<1>1. OfSort(ps, done \cup B, "content") = OfSort(ps, done, "content") \o Ascending(B, Len(ps))
  BY SortMore
<1>2. OfSort(ps, done \cup B, "reasoning") = OfSort(ps, done, "reasoning")
  BY SortSame
<1> QED BY <1>1, <1>2 DEF TextsRight

\* A batch of reasoning.
LEMMA ReasoningGains ==
  ASSUME NEW ps, NEW done, NEW B, Batch(ps, done, B), NEW L, NEW M, TextsRight(L, ps, done),
         ~hidden, \A k \in B : ps[k] = "reasoning",
         \A k \in done, b \in B : ps[k] = "reasoning" => k < b,
         TextIn(M, "reasoning") = TextIn(L, "reasoning") \o Ascending(B, Len(ps)),
         TextIn(M, "content") = TextIn(L, "content")
  PROVE  TextsRight(M, ps, done \cup B)
<1>1. OfSort(ps, done \cup B, "reasoning")
        = OfSort(ps, done, "reasoning") \o Ascending(B, Len(ps))
  BY SortMore
<1>2. OfSort(ps, done \cup B, "content") = OfSort(ps, done, "content")
  BY SortSame
<1> QED BY <1>1, <1>2 DEF TextsRight

\* The calls stay when no piece of a call comes.
SameCalls(L, M) ==
  /\ \A i \in DOMAIN M : M[i].state = "call" => i \in DOMAIN L /\ L[i] = M[i]
  /\ \A i \in DOMAIN L : L[i].state = "call" => i \in DOMAIN M /\ M[i] = L[i]

\* Texts leave the calls as they are.
LEMMA CallsKeep ==
  ASSUME NEW ps, NEW done, NEW B, NEW L, NEW M, CallsRight(L, ps, done), SameCalls(L, M),
         \A k \in B : ps[k] # "name" /\ ps[k] # "args"
  PROVE  CallsRight(M, ps, done \cup B)
<1>1. \A x : ArgsOf(ps, done \cup B, x) = ArgsOf(ps, done, x)
  <2>1. \A k \in B : ps[k] # "args"
    OBVIOUS
  <2>2. ASSUME NEW x PROVE ArgsOf(ps, done \cup B, x) = ArgsOf(ps, done, x)
    <3>1. \A k \in B : ps[k] = "args" => CallOf(ps, k) # x
      BY <2>1
    <3> QED BY <3>1, ArgsSame, ZenonT(60)
  <2> QED BY <2>2
<1>2. ASSUME NEW i \in DOMAIN M, M[i].state = "call"
      PROVE  /\ M[i].name \in done \cup B /\ ps[M[i].name] = "name"
             /\ M[i].text = ArgsOf(ps, done \cup B, CallOf(ps, M[i].name))
  <2>1. i \in DOMAIN L /\ L[i] = M[i] /\ L[i].state = "call"
    BY <1>2 DEF SameCalls
  <2>2. /\ L[i].name \in done /\ ps[L[i].name] = "name"
        /\ L[i].text = ArgsOf(ps, done, CallOf(ps, L[i].name))
    BY <2>1 DEF CallsRight
  <2> QED BY <1>1, <2>1, <2>2
<1>3. ASSUME NEW k \in done \cup B, ps[k] = "name"
      PROVE  \E i \in DOMAIN M : M[i].state = "call" /\ M[i].name = k
  <2>1. k \in done
    BY <1>3
  <2>2. PICK i \in DOMAIN L : L[i].state = "call" /\ L[i].name = k
    BY <1>3, <2>1 DEF CallsRight
  <2> QED BY <2>2 DEF SameCalls
<1>4. \A i, j \in DOMAIN M :
        i < j /\ M[i].state = "call" /\ M[j].state = "call" => M[i].name < M[j].name
  BY DEF SameCalls, CallsRight
<1> QED BY <1>2, <1>3, <1>4 DEF CallsRight

\* One more call.
NewCall(ps, done, B, p, x) ==
  /\ Batch(ps, done, B) /\ p \in B /\ ps[p] = "name" /\ x \in Int
  /\ \A k \in B : CallOf(ps, k) = x /\ (k # p => ps[k] = "args")
  /\ \A k \in done : ps[k] = "args" \/ ps[k] = "name" => CallOf(ps, k) < x

\* It comes after the others and has its arguments from the batch.
NewCallHas(ps, done, B, p, x) ==
  /\ \A k \in done : k \in Nat /\ CallOf(ps, k) \in Int
  /\ p \in Nat /\ CallOf(ps, p) = x
  /\ \A k \in done : ps[k] = "name" => k < p
  /\ ArgsOf(ps, done \cup B, x) = Ascending({k \in B : ps[k] = "args"}, Len(ps))
  /\ \A y \in Int : y < x => ArgsOf(ps, done \cup B, y) = ArgsOf(ps, done, y)

\* The arguments of the calls when a call has come with some of its own.
LEMMA NewCallIs ==
  ASSUME NEW ps, NEW done, NEW B, NEW p, NEW x, NewCall(ps, done, B, p, x)
  PROVE  NewCallHas(ps, done, B, p, x)
<1>1. /\ \A k \in done : k \in Nat
      /\ p \in Nat /\ CallOf(ps, p) = x /\ x \in Int
  BY DEF NewCall, Batch
<1>2. \A k \in done : CallOf(ps, k) \in Int
  BY <1>1, CallTyped
<1>3. ASSUME NEW k \in done, ps[k] = "name" PROVE k < p
  <2> SUFFICES ASSUME p <= k PROVE FALSE
    BY <1>1
  <2>1. CallOf(ps, p) <= CallOf(ps, k)
    BY <1>1, CallOrder
  <2>2. CallOf(ps, k) < x
    BY <1>3 DEF NewCall
  <2> QED BY <1>1, <1>2, <2>1, <2>2
<1>4. ArgsOf(ps, done \cup B, x) = Ascending({k \in B : ps[k] = "args"}, Len(ps))
  <2>1. \A k \in done : ps[k] = "args" => CallOf(ps, k) # x
    BY <1>1, <1>2 DEF NewCall
  <2>2. \A k \in B : CallOf(ps, k) = x
    BY DEF NewCall
  <2> QED BY <2>1, <2>2, ArgsFirst
<1>5. ASSUME NEW y \in Int, y < x PROVE ArgsOf(ps, done \cup B, y) = ArgsOf(ps, done, y)
  <2>1. y # x
    BY <1>1, <1>5
  <2>2. \A k \in B : ps[k] = "args" => CallOf(ps, k) # y
    BY <2>1 DEF NewCall
  <2> QED BY <2>2, ArgsSame
<1> QED BY <1>1, <1>2, <1>3, <1>4, <1>5 DEF NewCallHas

\* A new call is one more item, with its name and its arguments.
LEMMA CallsMore ==
  ASSUME NEW ps, NEW done, NEW B, NEW p, NEW x, NewCall(ps, done, B, p, x),
         NEW L \in Seq(LookType), CallsRight(L, ps, done), NEW l \in LookType,
         l.state = "call", l.name = p, l.text = Ascending({k \in B : ps[k] = "args"}, Len(ps))
  PROVE  CallsRight(Append(L, l), ps, done \cup B)
<1>1. PICK n \in Nat, M \in Seq(LookType) :
        /\ n = Len(L) /\ DOMAIN L = 1..n /\ M = Append(L, l) /\ DOMAIN M = 1..n + 1
        /\ M[n + 1] = l /\ \A i \in 1..n : M[i] = L[i]
  <2>1. /\ Len(L) \in Nat /\ DOMAIN L = 1..Len(L) /\ Append(L, l) \in Seq(LookType)
        /\ DOMAIN Append(L, l) = 1..Len(L) + 1 /\ Append(L, l)[Len(L) + 1] = l
        /\ \A i \in 1..Len(L) : Append(L, l)[i] = L[i]
    OBVIOUS
  <2> QED BY <2>1
<1>0. NewCallHas(ps, done, B, p, x)
  BY NewCallIs
<1>2. /\ \A k \in done : k \in Nat /\ CallOf(ps, k) \in Int
      /\ p \in Nat /\ CallOf(ps, p) = x
      /\ \A k \in done : ps[k] = "name" => k < p
  BY <1>0 DEF NewCallHas
<1>3. /\ ArgsOf(ps, done \cup B, x) = l.text
      /\ \A y \in Int : y < x => ArgsOf(ps, done \cup B, y) = ArgsOf(ps, done, y)
  BY <1>0 DEF NewCallHas
<1>4. /\ p \in B /\ ps[p] = "name"
      /\ \A k \in B : k # p => ps[k] = "args"
      /\ \A k \in done : ps[k] = "name" => CallOf(ps, k) < x
  BY DEF NewCall
<1>5. \A i \in 1..n + 1 : i = n + 1 \/ (i \in 1..n /\ i # n + 1)
  OBVIOUS
<1>6. ASSUME NEW i \in 1..n, L[i].state = "call"
      PROVE  /\ L[i].name \in done /\ ps[L[i].name] = "name"
             /\ L[i].text = ArgsOf(ps, done \cup B, CallOf(ps, L[i].name))
  <2>1. PICK k \in done : k = L[i].name /\ ps[k] = "name" /\ L[i].text = ArgsOf(ps, done, CallOf(ps, k))
    BY <1>1, <1>6 DEF CallsRight
  <2>2. ArgsOf(ps, done \cup B, CallOf(ps, k)) = ArgsOf(ps, done, CallOf(ps, k))
    BY <1>2, <1>3, <1>4, <2>1
  <2> QED BY <2>1, <2>2
<1>7. ASSUME NEW i \in 1..n + 1, M[i].state = "call"
      PROVE  /\ M[i].name \in done \cup B /\ ps[M[i].name] = "name"
             /\ M[i].text = ArgsOf(ps, done \cup B, CallOf(ps, M[i].name))
  <2>1. CASE i = n + 1
    BY <1>1, <1>2, <1>3, <1>4, <2>1
  <2>2. CASE i \in 1..n
    BY <1>1, <1>6, <1>7, <2>2
  <2> QED BY <1>5, <2>1, <2>2
<1>8. ASSUME NEW k \in done \cup B, ps[k] = "name"
      PROVE  \E i \in 1..n + 1 : M[i].state = "call" /\ M[i].name = k
  <2>1. CASE k \in done
    <3>1. PICK i \in 1..n : L[i].state = "call" /\ L[i].name = k
      BY <1>1, <1>8, <2>1 DEF CallsRight
    <3>2. i \in 1..n + 1
      OBVIOUS
    <3> QED BY <1>1, <3>1, <3>2
  <2>2. CASE k \in B
    <3>1. k = p /\ n + 1 \in 1..n + 1
      BY <1>4, <1>8, <2>2
    <3> QED BY <1>1, <3>1
  <2> QED BY <2>1, <2>2
<1>9. ASSUME NEW i \in 1..n + 1, NEW j \in 1..n + 1, i < j,
             M[i].state = "call", M[j].state = "call"
      PROVE  M[i].name < M[j].name
  <2>1. i \in 1..n
    BY <1>9
  <2>2. L[i].state = "call" /\ M[i] = L[i]
    BY <1>1, <1>9, <2>1
  <2>3. CASE j = n + 1
    BY <1>1, <1>2, <1>6, <2>1, <2>2, <2>3
  <2>4. CASE j \in 1..n
    <3>1. L[j].state = "call" /\ M[j] = L[j]
      BY <1>1, <1>9, <2>4
    <3> QED BY <1>1, <1>9, <2>1, <2>2, <2>4, <3>1 DEF CallsRight
  <2> QED BY <1>5, <2>3, <2>4
<1>10. CallsRight(M, ps, done \cup B)
  <2>1. DOMAIN M = 1..n + 1
    BY <1>1
  <2>2. \A i \in DOMAIN M : M[i].state = "call" =>
          /\ M[i].name \in done \cup B /\ ps[M[i].name] = "name"
          /\ M[i].text = ArgsOf(ps, done \cup B, CallOf(ps, M[i].name))
    BY <2>1, <1>7
  <2>3. \A k \in done \cup B : ps[k] = "name" =>
          \E i \in DOMAIN M : M[i].state = "call" /\ M[i].name = k
    BY <2>1, <1>8
  <2>4. \A i, j \in DOMAIN M :
          i < j /\ M[i].state = "call" /\ M[j].state = "call" => M[i].name < M[j].name
    BY <2>1, <1>9
  <2> QED BY <2>2, <2>3, <2>4 DEF CallsRight
<1> QED BY <1>1, <1>10

\* The last call goes on.
OldCall(ps, done, B, p) ==
  /\ Batch(ps, done, B) /\ p \in done /\ ps[p] = "name"
  /\ \A k \in B : ps[k] = "args" /\ CallOf(ps, k) = CallOf(ps, p)
  /\ \A k \in done, b \in B : ps[k] = "args" => k < b

OldCallHas(ps, done, B, p) ==
  /\ ArgsOf(ps, done \cup B, CallOf(ps, p))
        = ArgsOf(ps, done, CallOf(ps, p)) \o Ascending(B, Len(ps))
  /\ \A k \in done : k < p =>
       ArgsOf(ps, done \cup B, CallOf(ps, k)) = ArgsOf(ps, done, CallOf(ps, k))
  /\ \A k \in B : ps[k] # "name"

\* The arguments of the calls when more of the open one have come.
LEMMA OldCallIs ==
  ASSUME NEW ps, NEW done, NEW B, NEW p, OldCall(ps, done, B, p)
  PROVE  OldCallHas(ps, done, B, p)
<1>1. /\ \A k \in done : k \in Nat
      /\ p \in Nat /\ p \in done /\ ps[p] = "name"
  BY DEF OldCall, Batch
<1>2. /\ \A k \in B : ps[k] = "args" /\ CallOf(ps, k) = CallOf(ps, p)
      /\ \A k \in done, b \in B : ps[k] = "args" => k < b
      /\ Batch(ps, done, B)
  BY DEF OldCall
<1>3. ArgsOf(ps, done \cup B, CallOf(ps, p))
        = ArgsOf(ps, done, CallOf(ps, p)) \o Ascending(B, Len(ps))
  BY <1>2, ArgsMore
<1>4. ASSUME NEW k \in done, k < p
      PROVE  ArgsOf(ps, done \cup B, CallOf(ps, k)) = ArgsOf(ps, done, CallOf(ps, k))
  <2>1. CallOf(ps, k) < CallOf(ps, p) /\ CallOf(ps, k) \in Int /\ CallOf(ps, p) \in Int
    BY <1>1, <1>4, CallOrder
  <2>2. CallOf(ps, p) # CallOf(ps, k)
    BY <2>1
  <2>3. \A b \in B : ps[b] = "args" => CallOf(ps, b) # CallOf(ps, k)
    BY <1>2, <2>2
  <2> QED BY <2>3, ArgsSame
<1> QED BY <1>2, <1>3, <1>4 DEF OldCallHas

\* The open call has its arguments, those before and those that came.
LEMMA CallsOn ==
  ASSUME NEW ps, NEW done, NEW B, NEW F \in Seq(LookType), NEW l \in LookType,
         CallsRight(Append(F, l), ps, done), l.state = "call", OldCall(ps, done, B, l.name)
  PROVE  CallsRight(Append(F, Longer(l, Ascending(B, Len(ps)))), ps, done \cup B)
<1>1. PICK new \in Seq(Nat) : new = Ascending(B, Len(ps))
  <2>1. Len(ps) \in Nat
    BY DEF OldCall, Batch
  <2> QED BY <2>1, AscendingIs
<1>2. PICK m \in LookType :
        m = Longer(l, new) /\ m.state = "call" /\ m.name = l.name /\ m.text = l.text \o new
  <2>1. Longer(l, new) \in LookType
    BY TextGrows
  <2>2. /\ Longer(l, new).state = l.state /\ Longer(l, new).name = l.name
        /\ Longer(l, new).text = l.text \o new
    BY DEF Longer
  <2> QED BY <2>1, <2>2
<1>3. PICK n \in Nat, L \in Seq(LookType), M \in Seq(LookType) :
        /\ L = Append(F, l) /\ M = Append(F, m) /\ DOMAIN L = 1..n + 1 /\ DOMAIN M = 1..n + 1
        /\ L[n + 1] = l /\ M[n + 1] = m /\ \A i \in 1..n : M[i] = L[i]
  <2>1. \A e \in LookType :
          /\ Append(F, e) \in Seq(LookType) /\ DOMAIN Append(F, e) = 1..Len(F) + 1
          /\ Append(F, e)[Len(F) + 1] = e /\ \A i \in 1..Len(F) : Append(F, e)[i] = F[i]
    OBVIOUS
  <2>2. Len(F) \in Nat
    OBVIOUS
  <2>3. PICK n \in Nat : n = Len(F)
    BY <2>2
  <2>4. \A i \in 1..n : Append(F, m)[i] = Append(F, l)[i]
    BY <2>1, <2>3
  <2> QED BY <2>1, <2>3, <2>4
<1>4. CallsRight(L, ps, done)
  BY <1>3
<1>5. \A i \in 1..n + 1 : i = n + 1 \/ (i \in 1..n /\ i # n + 1 /\ i < n + 1)
  OBVIOUS
<1>6. n + 1 \in 1..n + 1 /\ l.name \in done /\ ps[l.name] = "name"
  BY DEF OldCall
<1>7. /\ ArgsOf(ps, done \cup B, CallOf(ps, l.name))
            = ArgsOf(ps, done, CallOf(ps, l.name)) \o new
      /\ \A k \in done : k < l.name =>
           ArgsOf(ps, done \cup B, CallOf(ps, k)) = ArgsOf(ps, done, CallOf(ps, k))
      /\ \A k \in B : ps[k] # "name"
  <2>1. OldCallHas(ps, done, B, l.name)
    BY OldCallIs
  <2> QED BY <1>1, <2>1 DEF OldCallHas
<1>8. m.text = ArgsOf(ps, done \cup B, CallOf(ps, m.name))
  <2>1. l.text = ArgsOf(ps, done, CallOf(ps, l.name))
    BY <1>3, <1>4, <1>6 DEF CallsRight
  <2> QED BY <1>2, <1>7, <2>1
<1>9. ASSUME NEW i \in 1..n + 1, M[i].state = "call"
      PROVE  /\ M[i].name \in done \cup B /\ ps[M[i].name] = "name"
             /\ M[i].text = ArgsOf(ps, done \cup B, CallOf(ps, M[i].name))
  <2>1. CASE i = n + 1
    BY <1>2, <1>3, <1>6, <1>8, <2>1
  <2>2. CASE i \in 1..n
    <3>1. L[i].state = "call" /\ M[i] = L[i] /\ i < n + 1
      BY <1>3, <1>5, <1>9, <2>2
    <3>2. PICK k \in done : k = L[i].name /\ ps[k] = "name" /\ L[i].text = ArgsOf(ps, done, CallOf(ps, k))
      <4>1. i \in DOMAIN L
        BY <1>3
      <4>2. /\ L[i].name \in done /\ ps[L[i].name] = "name"
            /\ L[i].text = ArgsOf(ps, done, CallOf(ps, L[i].name))
        BY <1>4, <3>1, <4>1 DEF CallsRight
      <4> QED BY <4>2
    <3>3. k < l.name
      <4>1. i \in DOMAIN L /\ n + 1 \in DOMAIN L /\ L[n + 1].state = "call"
        BY <1>3, <1>6
      <4>2. L[i].name < L[n + 1].name
        BY <1>4, <3>1, <4>1 DEF CallsRight
      <4> QED BY <1>3, <3>2, <4>2
    <3> QED BY <1>7, <3>1, <3>2, <3>3
  <2> QED BY <1>5, <2>1, <2>2
<1>10. ASSUME NEW k \in done \cup B, ps[k] = "name"
       PROVE  \E i \in 1..n + 1 : M[i].state = "call" /\ M[i].name = k
  <2>1. k \in done
    BY <1>7, <1>10
  <2>2. PICK i \in 1..n + 1 : L[i].state = "call" /\ L[i].name = k
    BY <1>3, <1>4, <1>10, <2>1 DEF CallsRight
  <2>3. M[i].state = "call" /\ M[i].name = k
    BY <1>2, <1>3, <1>5, <2>2
  <2> QED BY <2>3
<1>11. ASSUME NEW i \in 1..n + 1, NEW j \in 1..n + 1, i < j,
              M[i].state = "call", M[j].state = "call"
       PROVE  M[i].name < M[j].name
  <2>1. \A k \in 1..n + 1 : L[k].name = M[k].name
    BY <1>2, <1>3, <1>5
  <2>2. L[i].state = "call" /\ L[j].state = "call"
    BY <1>3, <1>5, <1>11
  <2>3. L[i].name < L[j].name
    BY <1>3, <1>4, <1>11, <2>2 DEF CallsRight
  <2> QED BY <2>1, <2>3
<1>12. CallsRight(M, ps, done \cup B)
  <2>1. DOMAIN M = 1..n + 1
    BY <1>3
  <2>2. \A i \in DOMAIN M : M[i].state = "call" =>
          /\ M[i].name \in done \cup B /\ ps[M[i].name] = "name"
          /\ M[i].text = ArgsOf(ps, done \cup B, CallOf(ps, M[i].name))
    BY <2>1, <1>9
  <2>3. \A k \in done \cup B : ps[k] = "name" =>
          \E i \in DOMAIN M : M[i].state = "call" /\ M[i].name = k
    BY <2>1, <1>10
  <2>4. \A i, j \in DOMAIN M :
          i < j /\ M[i].state = "call" /\ M[j].state = "call" => M[i].name < M[j].name
    BY <2>1, <1>11
  <2> QED BY <2>2, <2>3, <2>4 DEF CallsRight
<1> QED BY <1>1, <1>2, <1>3, <1>12

-----------------------------------------------------------------------------
\* A run that holds what was generated up to some pieces.

Good(s, ps, done) ==
  /\ RunInv(s) /\ ~s.rejected
  /\ ps \in Seq(Sorts) /\ done \subseteq 1..Len(ps)
  /\ TextsRight(Looks(s), ps, done)
  /\ CallsRight(Looks(s), ps, done)
  /\ s.proc.state = "call" => s.proc.call = CallOf(ps, s.proc.name)

\* The last of a sequence, and all but the last.
LEMMA AppendSame ==
  ASSUME NEW S, NEW F \in Seq(S), NEW l \in S, NEW K \in Seq(S), NEW e \in S,
         Append(F, l) = Append(K, e)
  PROVE  l = e /\ F = K
<1>1. \A t \in Seq(S), x \in S :
        /\ Len(t) \in Nat /\ DOMAIN t = 1..Len(t) /\ Len(Append(t, x)) = Len(t) + 1
        /\ Append(t, x)[Len(t) + 1] = x /\ \A i \in 1..Len(t) : Append(t, x)[i] = t[i]
  OBVIOUS
<1>2. Len(F) = Len(K)
  BY <1>1
<1>3. l = e /\ \A i \in 1..Len(F) : F[i] = K[i]
  BY <1>1, <1>2
<1> QED BY <1>1, <1>2, <1>3, SeqEqual

\* What a step adds to the texts; and which calls it leaves alone.
Gains(L, M, target, new) ==
  /\ \A state : TextIn(M, state) = TextIn(L, state) \o (IF state = target THEN new ELSE << >>)
  /\ target # "call" => SameCalls(L, M)

\* One more item adds its text to those of its kind.
LEMMA MoreGains ==
  ASSUME NEW L \in Seq(LookType), NEW l \in LookType
  PROVE  Gains(L, Append(L, l), l.state, l.text)
<1>1. \A state : TextIn(Append(L, l), state)
                   = TextIn(L, state) \o (IF l.state = state THEN l.text ELSE << >>)
  <2>1. l.text \in Seq(Nat)
    BY DEF LookType
  <2> QED BY <2>1, TextGrows
<1>2. /\ DOMAIN L = 1..Len(L) /\ Len(L) \in Nat /\ DOMAIN Append(L, l) = 1..Len(L) + 1
      /\ Append(L, l)[Len(L) + 1] = l /\ \A i \in 1..Len(L) : Append(L, l)[i] = L[i]
  OBVIOUS
<1>3. l.state # "call" => SameCalls(L, Append(L, l))
  <2>1. \A i \in 1..Len(L) + 1 : i \in 1..Len(L) \/ i = Len(L) + 1
    BY <1>2
  <2>2. \A i \in 1..Len(L) : i \in 1..Len(L) + 1
    BY <1>2
  <2> QED BY <1>2, <2>1, <2>2 DEF SameCalls
<1> QED BY <1>1, <1>3 DEF Gains

\* More of the last item adds to the texts of its kind.
LEMMA LongerGains ==
  ASSUME NEW F \in Seq(LookType), NEW l \in LookType, NEW new \in Seq(Nat)
  PROVE  Gains(Append(F, l), Append(F, Longer(l, new)), l.state, new)
<1>1. \A state : /\ Longer(l, new) \in LookType
                 /\ TextIn(Append(F, Longer(l, new)), state)
                      = TextIn(Append(F, l), state) \o (IF l.state = state THEN new ELSE << >>)
  BY TextGrows
<1>2. \A x \in LookType :
        /\ DOMAIN F = 1..Len(F) /\ Len(F) \in Nat /\ DOMAIN Append(F, x) = 1..Len(F) + 1
        /\ Append(F, x)[Len(F) + 1] = x /\ \A i \in 1..Len(F) : Append(F, x)[i] = F[i]
  OBVIOUS
<1>3. Longer(l, new).state = l.state
  BY DEF Longer
<1>4. l.state # "call" => SameCalls(Append(F, l), Append(F, Longer(l, new)))
  <2>0. PICK m \in LookType : m = Longer(l, new) /\ m.state = l.state
    BY <1>1, <1>3
  <2>1. \A i \in 1..Len(F) + 1 : i \in 1..Len(F) \/ i = Len(F) + 1
    BY <1>2
  <2>2. l.state # "call" => SameCalls(Append(F, l), Append(F, m))
    BY <1>2, <2>0, <2>1 DEF SameCalls
  <2> QED BY <2>0, <2>2
<1> QED BY <1>1, <1>4 DEF Gains

\* A part adds what is in it to the texts of its kind.
LEMMA StepGains ==
  ASSUME NEW s \in RunType, NEW d \in PartType, NEW target \in States, NEW c \in RunType,
         Added(target, d) \in Seq(Nat),
         Continues(s, c, target, d) \/ Begins(s, c, target, d)
  PROVE  Gains(Looks(s), Looks(c), target, Added(target, d))
<1> DEFINE new == Added(target, d)
<1>1. CASE Continues(s, c, target, d)
  <2>1. /\ s.proc.state = target /\ GoesOn(Looks(s), Looks(c), new)
        /\ Looks(s) = Append(Kept(s), LookOf(s.proc))
    BY <1>1 DEF Continues
  <2>2. PICK F \in Seq(LookType), l \in LookType :
          Looks(s) = Append(F, l) /\ Looks(c) = Append(F, Longer(l, new))
    BY <2>1 DEF GoesOn
  <2>3. Kept(s) \in Seq(LookType) /\ LookOf(s.proc) \in LookType
    <3>1. None \notin States
      BY DEF None, States
    <3> QED BY <2>1, <3>1, LooksTyped
  <2>4. l = LookOf(s.proc)
    <3>1. Append(F, l) = Append(Kept(s), LookOf(s.proc))
      BY <2>1, <2>2
    <3> QED BY <2>3, <3>1, AppendSame
  <2>5. l.state = target
    BY <2>1, <2>4 DEF LookOf
  <2> HIDE DEF new
  <2>6. new \in Seq(Nat)
    BY DEF new
  <2>7. Gains(Append(F, l), Append(F, Longer(l, new)), l.state, new)
    BY <2>6, LongerGains
  <2> QED BY <2>2, <2>5, <2>7 DEF new
<1>2. CASE Begins(s, c, target, d)
  <2>1. PICK l \in LookType : l.state = target /\ l.text = new /\ Looks(c) = Append(Looks(s), l)
    BY <1>2 DEF Begins
  <2>2. Looks(s) \in Seq(LookType)
    BY LooksTyped
  <2>3. Gains(Looks(s), Append(Looks(s), l), l.state, l.text)
    BY <2>2, MoreGains
  <2> QED BY <2>1, <2>3
<1> QED BY <1>1, <1>2

-----------------------------------------------------------------------------
\* Each part of a delta tells some of the pieces.

\* Pieces that no part is made of: reasoning that was not asked for.
Unheard(ps, B) ==
  \A k \in B : ps[k] # "content" /\ ps[k] # "name" /\ ps[k] # "args"
               /\ (~hidden => ps[k] # "reasoning")

\* Pieces that the client does not see need no part: reasoning that was not
\* asked for.
LEMMA NoPart ==
  ASSUME NEW s, NEW ps, NEW done, Good(s, ps, done), NEW B, B \subseteq 1..Len(ps),
         Unheard(ps, B)
  PROVE  Good(s, ps, done \cup B)
<1>1. TextsRight(Looks(s), ps, done) /\ CallsRight(Looks(s), ps, done)
  BY DEF Good
<1>2. TextsRight(Looks(s), ps, done \cup B)
  <2>1. (\A k \in B : ps[k] # "content") /\ (~hidden => \A k \in B : ps[k] # "reasoning")
    BY DEF Unheard
  <2> QED BY <1>1, <2>1, TextsKeep
<1>3. CallsRight(Looks(s), ps, done \cup B)
  <2>1. \A k \in B : ps[k] # "name" /\ ps[k] # "args"
    BY DEF Unheard
  <2>2. SameCalls(Looks(s), Looks(s))
    BY DEF SameCalls
  <2> QED BY <1>1, <2>1, <2>2, CallsKeep
<1> QED BY <1>2, <1>3 DEF Good

\* The texts of a kind are a text.
LEMMA TextTyped ==
  ASSUME NEW L \in Seq(LookType), NEW state
  PROVE  TextIn(L, state) \in Seq(Nat)
<1>1. PICK l \in LookType : TRUE
  <2>1. [state |-> "content", name |-> 0, text |-> << >>] \in LookType
    BY DEF LookType, States
  <2> QED BY <2>1
<1>2. << >> \in Seq(Nat)
  OBVIOUS
<1> QED BY <1>1, <1>2, TextGrows

\* A step that is taken keeps what a run is.
LEMMA StepGood ==
  ASSUME NEW s, NEW ps, NEW done, Good(s, ps, done), NEW d \in PartType, NEW target \in States,
         target = TargetState(d), NEW c, c = Step(s, d),
         NeedsTransition(s.proc, target, d) => ~Nameless(target, d)
  PROVE  /\ RunInv(c) /\ c \in RunType /\ ~c.rejected /\ c.proc.state = target
         /\ ~NeedsTransition(s.proc, target, d) => Continues(s, c, target, d)
         /\ NeedsTransition(s.proc, target, d) => Begins(s, c, target, d)
         /\ Gains(Looks(s), Looks(c), target, Added(target, d))
<1>1. RunInv(s) /\ s \in RunType /\ ~s.rejected
  BY DEF Good, RunInv
<1>2. RunInv(c)
  BY <1>1, StepKeeps
<1>3. /\ c \in RunType
      /\ ~NeedsTransition(s.proc, target, d) => Continues(s, c, target, d)
      /\ NeedsTransition(s.proc, target, d) => Begins(s, c, target, d)
  BY <1>1, StepLooks
<1>4. Added(target, d) \in Seq(Nat)
  <2>1. d.reasoning.text \in Seq(Nat) /\ d.content.text \in Seq(Nat)
    BY DEF PartType, FieldType
  <2> QED BY <2>1, ArgumentsTyped DEF Added, New
<1>5. Gains(Looks(s), Looks(c), target, Added(target, d))
  BY <1>1, <1>3, <1>4, StepGains
<1>6. ~c.rejected /\ c.proc.state = target
  BY <1>3 DEF Continues, Begins
<1> QED BY <1>2, <1>3, <1>5, <1>6

\* A part that is text.
TextOfPart(d, ps, B, target) ==
  /\ target \in {"reasoning", "content"} /\ target = TargetState(d)
  /\ target = "reasoning" => ~hidden
  /\ Added(target, d) = Ascending(B, Len(ps))
  /\ \A k \in B : ps[k] = target

\* A part of a text: content or reasoning.
LEMMA TextPart ==
  ASSUME NEW s, NEW ps, NEW done, Good(s, ps, done), NEW B, B \subseteq 1..Len(ps),
         NEW d \in PartType, NEW target, TextOfPart(d, ps, B, target),
         \A k \in done, b \in B : ps[k] = target => k < b
  PROVE  Good(Step(s, d), ps, done \cup B)
<1>1. PICK c : c = Step(s, d)
  OBVIOUS
<1>2. target \in States /\ target = TargetState(d) /\ ~Nameless(target, d) /\ target # "call"
  BY DEF TextOfPart, States, Nameless
<1>3. /\ RunInv(c) /\ ~c.rejected /\ c.proc.state = target
      /\ Gains(Looks(s), Looks(c), target, Added(target, d))
  BY <1>1, <1>2, StepGood
<1>4. PICK new : new = Ascending(B, Len(ps)) /\ new = Added(target, d)
  BY DEF TextOfPart
<1>5. Batch(ps, done, B) /\ TextsRight(Looks(s), ps, done) /\ CallsRight(Looks(s), ps, done)
  BY DEF Good, Batch
<1>6. /\ TextIn(Looks(s), "content") \in Seq(Nat) /\ TextIn(Looks(s), "reasoning") \in Seq(Nat)
  <2>1. s \in RunType
    BY DEF Good, RunInv
  <2> QED BY <2>1, LooksTyped, TextTyped
<1>7. SameCalls(Looks(s), Looks(c))
  BY <1>2, <1>3 DEF Gains
<1>8. CallsRight(Looks(c), ps, done \cup B)
  <2>1. \A k \in B : ps[k] # "name" /\ ps[k] # "args"
    BY DEF TextOfPart
  <2> QED BY <1>5, <1>7, <2>1, CallsKeep
<1>9. /\ TextIn(Looks(c), target) = TextIn(Looks(s), target) \o new
      /\ \A state \in {"content", "reasoning"} :
           state # target => TextIn(Looks(c), state) = TextIn(Looks(s), state)
  <2>1. \A state : TextIn(Looks(c), state)
                     = TextIn(Looks(s), state) \o (IF state = target THEN new ELSE << >>)
    BY <1>3, <1>4 DEF Gains
  <2>2. \A t \in Seq(Nat) : t \o << >> = t
    BY ConcatEmptySeq
  <2> QED BY <1>6, <2>1, <2>2
<1>10. TextsRight(Looks(c), ps, done \cup B)
  <2>1. \A k \in B : ps[k] = target
    BY DEF TextOfPart
  <2>2. CASE target = "content"
    <3>1. /\ TextIn(Looks(c), "content") = TextIn(Looks(s), "content") \o Ascending(B, Len(ps))
          /\ TextIn(Looks(c), "reasoning") = TextIn(Looks(s), "reasoning")
      BY <1>4, <1>9, <2>2
    <3> QED BY <1>5, <2>1, <2>2, <3>1, ContentGains
  <2>3. CASE target = "reasoning"
    <3>1. /\ TextIn(Looks(c), "reasoning")
               = TextIn(Looks(s), "reasoning") \o Ascending(B, Len(ps))
          /\ TextIn(Looks(c), "content") = TextIn(Looks(s), "content")
      BY <1>4, <1>9, <2>3
    <3>2. ~hidden
      BY <2>3 DEF TextOfPart
    <3> QED BY <1>5, <2>1, <2>3, <3>1, <3>2, ReasoningGains
  <2> QED BY <2>2, <2>3 DEF TextOfPart
<1> QED BY <1>1, <1>2, <1>3, <1>5, <1>8, <1>10 DEF Good, Batch

\* Parts that are calls: one entry for each of some pieces.
Entries(ps, a) == [i \in DOMAIN a |-> Entry(ps, a[i])]
CallPart(d, ps, B) == d \in PartType /\ d.tools = Entries(ps, Ascending(B, Len(ps)))

\* The first entry and the arguments of such a part.
LEMMA CallPartIs ==
  ASSUME NEW ps, ps \in Seq(Sorts), NEW B, B \subseteq 1..Len(ps), NEW d, CallPart(d, ps, B),
         NEW p \in B, \A k \in B : p <= k
  PROVE  /\ TargetState(d) = "call"
         /\ d.tools[1] = Entry(ps, p)
         /\ Added("call", d) = Ascending({k \in B : ps[k] = "args"}, Len(ps))
<1>1. PICK n \in Nat : n = Len(ps) /\ B \subseteq 1..n
  OBVIOUS
<1>2. PICK a \in Seq(Nat) : a = Ascending(B, n) /\ a # << >> /\ a[1] = p
  <2>1. Ascending(B, n) \in Seq(Nat)
    BY AscendingIs
  <2>2. p \in B \cap 1..n /\ \A y \in B \cap 1..n : p <= y
    BY <1>1
  <2>3. Ascending(B, n) # << >> /\ Ascending(B, n)[1] = p
    BY <2>2, AscendingFirst
  <2> QED BY <2>1, <2>3
<1>3. d \in PartType /\ d.tools = [i \in DOMAIN a |-> Entry(ps, a[i])]
  BY <1>1, <1>2 DEF CallPart, Entries
<1>4. 1 \in DOMAIN a
  BY <1>2
<1>5. d.tools # << >> /\ d.tools[1] = Entry(ps, p)
  BY <1>2, <1>3, <1>4
<1>6. TargetState(d) = "call"
  BY <1>3, <1>5, TargetTyped
<1>7. Added("call", d) = Ascending({k \in B : ps[k] = "args"}, n)
  <2>1. Added("call", d) = Arguments(d)
    BY DEF Added, New
  <2>2. [i \in DOMAIN d.tools |-> d.tools[i].args] = ArgsEach(ps, a)
    BY <1>3 DEF ArgsEach
  <2>3. Arguments(d) = FlattenSeq(ArgsEach(ps, a))
    BY <2>2 DEF Arguments
  <2>4. FlattenSeq(ArgsEach(ps, a)) = Ascending({k \in B : ps[k] = "args"}, n)
    BY <1>2, ArgumentsOf
  <2> QED BY <2>1, <2>3, <2>4
<1> QED BY <1>1, <1>5, <1>6, <1>7

\* The open call goes on with arguments of its own.
LEMMA OldCallPart ==
  ASSUME NEW s, NEW ps, NEW done, Good(s, ps, done), s.proc.state = "call",
         NEW B, B \subseteq 1..Len(ps), B # {}, NEW d, CallPart(d, ps, B),
         OldCall(ps, done, B, s.proc.name)
  PROVE  Good(Step(s, d), ps, done \cup B)
<1>1. PICK c : c = Step(s, d)
  OBVIOUS
<1>2. ps \in Seq(Sorts) /\ Batch(ps, done, B) /\ d \in PartType
  BY DEF Good, Batch, CallPart
<1>3. PICK p \in B : \A k \in B : p <= k
  <2>1. B \subseteq Nat
    BY <1>2
  <2> QED BY <2>1, LeastExists
<1>4. /\ TargetState(d) = "call" /\ d.tools[1] = Entry(ps, p)
      /\ Added("call", d) = Ascending({k \in B : ps[k] = "args"}, Len(ps))
  BY <1>2, <1>3, CallPartIs
<1>5. {k \in B : ps[k] = "args"} = B
  BY DEF OldCall
<1>6. ~NeedsTransition(s.proc, "call", d)
  <2>1. d.tools[1].index = CallOf(ps, p)
    BY <1>4 DEF Entry
  <2>2. CallOf(ps, p) = CallOf(ps, s.proc.name)
    BY DEF OldCall
  <2>3. s.proc.call = CallOf(ps, s.proc.name)
    BY DEF Good
  <2> QED BY <2>1, <2>2, <2>3 DEF NeedsTransition
<1>7. /\ RunInv(c) /\ ~c.rejected /\ c.proc.state = "call"
      /\ Continues(s, c, "call", d)
      /\ Gains(Looks(s), Looks(c), "call", Added("call", d))
  <2>1. "call" \in States
    BY DEF States
  <2> QED BY <1>1, <1>2, <1>4, <1>6, <2>1, StepGood
<1>8. PICK F \in Seq(LookType), l \in LookType :
        /\ Looks(s) = Append(F, l) /\ Looks(c) = Append(F, Longer(l, Ascending(B, Len(ps))))
        /\ l.state = "call" /\ l.name = s.proc.name
  <2>1. /\ GoesOn(Looks(s), Looks(c), Added("call", d))
        /\ Looks(s) = Append(Kept(s), LookOf(s.proc))
    BY <1>7 DEF Continues
  <2>2. PICK F \in Seq(LookType), l \in LookType :
          /\ Looks(s) = Append(F, l) /\ Looks(c) = Append(F, Longer(l, Added("call", d)))
    BY <2>1 DEF GoesOn
  <2>3. Kept(s) \in Seq(LookType) /\ LookOf(s.proc) \in LookType
    <3>1. s.proc.state # None /\ s \in RunType
      BY DEF None, Good, RunInv
    <3> QED BY <3>1, LooksTyped
  <2>4. l = LookOf(s.proc)
    <3>1. Append(F, l) = Append(Kept(s), LookOf(s.proc))
      BY <2>1, <2>2
    <3> QED BY <2>3, <3>1, AppendSame
  <2>5. l.state = "call" /\ l.name = s.proc.name
    BY <2>4 DEF LookOf
  <2> QED BY <1>4, <1>5, <2>2, <2>5
<1>9. TextsRight(Looks(s), ps, done) /\ CallsRight(Looks(s), ps, done)
  BY DEF Good
<1>10. CallsRight(Looks(c), ps, done \cup B)
  <2>1. CallsRight(Append(F, l), ps, done) /\ OldCall(ps, done, B, l.name)
    BY <1>8, <1>9
  <2>2. CallsRight(Append(F, Longer(l, Ascending(B, Len(ps)))), ps, done \cup B)
    BY <1>8, <2>1, CallsOn
  <2> QED BY <1>8, <2>2
<1>11. TextsRight(Looks(c), ps, done \cup B)
  <2>1. \A k \in B : ps[k] # "content" /\ ps[k] # "reasoning"
    BY DEF OldCall
  <2>2. \A state \in {"content", "reasoning"} : TextIn(Looks(c), state) = TextIn(Looks(s), state)
    <3>1. \A state : state # "call" => TextIn(Looks(c), state) = TextIn(Looks(s), state) \o << >>
      BY <1>7 DEF Gains
    <3>2. \A state : TextIn(Looks(s), state) \in Seq(Nat)
      <4>1. s \in RunType
        BY DEF Good, RunInv
      <4> QED BY <4>1, LooksTyped, TextTyped
    <3> QED BY <3>1, <3>2, ConcatEmptySeq
  <2> QED BY <1>9, <2>1, <2>2, TextsKeep
<1>12. c.proc.call = CallOf(ps, c.proc.name)
  <2>1. c.proc.call = s.proc.call /\ c.proc.name = s.proc.name
    BY <1>7 DEF Continues
  <2> QED BY <2>1 DEF Good
<1> QED BY <1>1, <1>2, <1>7, <1>10, <1>11, <1>12 DEF Good, Batch

\* A new call, which begins with its name.
LEMMA NewCallPart ==
  ASSUME NEW s, NEW ps, NEW done, Good(s, ps, done),
         NEW B, NEW d, CallPart(d, ps, B), NEW p, NEW x, NewCall(ps, done, B, p, x),
         \A k \in B : p <= k
  PROVE  Good(Step(s, d), ps, done \cup B)
<1>1. PICK c : c = Step(s, d)
  OBVIOUS
<1>2. /\ ps \in Seq(Sorts) /\ Batch(ps, done, B) /\ B \subseteq 1..Len(ps) /\ d \in PartType
      /\ p \in B /\ ps[p] = "name" /\ CallOf(ps, p) = x
  BY DEF Good, Batch, CallPart, NewCall
<1>3. /\ TargetState(d) = "call" /\ d.tools[1] = Entry(ps, p)
      /\ Added("call", d) = Ascending({k \in B : ps[k] = "args"}, Len(ps))
  BY <1>2, CallPartIs
<1>4. d.tools[1].index = x /\ d.tools[1].name = p /\ p # 0
  <2>1. p # 0
    BY <1>2
  <2> QED BY <1>2, <1>3, <2>1 DEF Entry
<1>5. TextsRight(Looks(s), ps, done) /\ CallsRight(Looks(s), ps, done)
  BY DEF Good
<1>6. Looks(s) \in Seq(LookType) /\ (s.proc.state # None => LookOf(s.proc) \in LookType)
      /\ Kept(s) \in Seq(LookType)
  <2>1. s \in RunType
    BY DEF Good, RunInv
  <2> QED BY <2>1, LooksTyped
<1>7. NeedsTransition(s.proc, "call", d) /\ ~Nameless("call", d)
  <2>1. ASSUME s.proc.state = "call" PROVE s.proc.call # x
    <3>1. s.proc.call = CallOf(ps, s.proc.name)
      BY <2>1 DEF Good
    <3>2. PICK k \in done : k = s.proc.name /\ ps[k] = "name"
      <4>1. PICK e \in LookType, K \in Seq(LookType), m \in Nat :
              /\ Looks(s) = Append(K, e) /\ e.state = "call" /\ e.name = s.proc.name
              /\ m = Len(K)
        <5>1. s.proc.state # None
          BY <2>1 DEF None
        <5>2. Looks(s) = Append(Kept(s), LookOf(s.proc))
          BY <5>1 DEF Looks
        <5>3. LookOf(s.proc).state = "call" /\ LookOf(s.proc).name = s.proc.name
          BY <2>1 DEF LookOf
        <5>4. Len(Kept(s)) \in Nat
          BY <1>6
        <5> QED BY <1>6, <5>1, <5>2, <5>3, <5>4
      <4>2. DOMAIN Append(K, e) = 1..m + 1 /\ Append(K, e)[m + 1] = e /\ m + 1 \in 1..m + 1
        BY <4>1
      <4>3. \A i \in DOMAIN Append(K, e) : Append(K, e)[i].state = "call" =>
              Append(K, e)[i].name \in done /\ ps[Append(K, e)[i].name] = "name"
        BY <1>5, <4>1 DEF CallsRight
      <4>4. e.name \in done /\ ps[e.name] = "name"
        BY <4>1, <4>2, <4>3
      <4> QED BY <4>1, <4>4
    <3>3. CallOf(ps, k) < x /\ x \in Int
      BY <3>2 DEF NewCall
    <3>4. CallOf(ps, k) \in Int
      <4>1. k \in Nat
        BY <1>2 DEF Batch
      <4> QED BY <4>1, CallTyped
    <3> QED BY <3>1, <3>2, <3>3, <3>4
  <2>2. s.proc.state # "call" \/ s.proc.call # d.tools[1].index
    BY <1>4, <2>1
  <2> QED BY <1>4, <2>2 DEF NeedsTransition, Nameless
<1>8. /\ RunInv(c) /\ ~c.rejected /\ c.proc.state = "call"
      /\ Begins(s, c, "call", d)
      /\ Gains(Looks(s), Looks(c), "call", Added("call", d))
  <2>1. "call" \in States
    BY DEF States
  <2> QED BY <1>1, <1>2, <1>3, <1>7, <2>1, StepGood
<1>9. PICK l \in LookType :
        /\ l.state = "call" /\ l.name = p /\ l.text = Ascending({k \in B : ps[k] = "args"}, Len(ps))
        /\ Looks(c) = Append(Looks(s), l)
  BY <1>3, <1>4, <1>8 DEF Begins
<1>10. CallsRight(Looks(c), ps, done \cup B)
  <2>1. PICK L \in Seq(LookType) : L = Looks(s) /\ CallsRight(L, ps, done)
    BY <1>5, <1>6
  <2>2. CallsRight(Append(L, l), ps, done \cup B)
    BY <1>9, <2>1, CallsMore
  <2> QED BY <1>9, <2>1, <2>2
<1>11. TextsRight(Looks(c), ps, done \cup B)
  <2>1. \A k \in B : ps[k] # "content" /\ ps[k] # "reasoning"
    BY DEF NewCall
  <2>2. \A state \in {"content", "reasoning"} : TextIn(Looks(c), state) = TextIn(Looks(s), state)
    <3>1. \A state : state # "call" => TextIn(Looks(c), state) = TextIn(Looks(s), state) \o << >>
      BY <1>8 DEF Gains
    <3>2. \A state : TextIn(Looks(s), state) \in Seq(Nat)
      BY <1>6, TextTyped
    <3> QED BY <3>1, <3>2, ConcatEmptySeq
  <2> QED BY <1>5, <2>1, <2>2, TextsKeep
<1>12. c.proc.call = CallOf(ps, c.proc.name)
  <2>1. c.proc.call = x /\ c.proc.name = p
    BY <1>4, <1>8 DEF Begins
  <2> QED BY <1>2, <2>1
<1> QED BY <1>1, <1>2, <1>8, <1>10, <1>11, <1>12 DEF Good, Batch

-----------------------------------------------------------------------------
\* What is in a delta, and how it is grouped.

SortFrom(ps, first, sort) == {k \in first..Len(ps) : ps[k] = sort}
CallsFrom(ps, first) == {k \in first..Len(ps) : ps[k] \in {"name", "args"}}
OfCall(ps, first, x) == {k \in CallsFrom(ps, first) : CallOf(ps, k) = x}
Named(ps, first, x) == \E k \in OfCall(ps, first, x) : ps[k] = "name"

IsDelta(d, ps, first) ==
  /\ d \in PartType /\ ps \in Seq(Sorts) /\ first \in 1..Len(ps)
  /\ d.tools = Entries(ps, Ascending(CallsFrom(ps, first), Len(ps)))
  /\ d.reasoning.is => /\ ~hidden
                       /\ d.reasoning.text = Ascending(SortFrom(ps, first, "reasoning"), Len(ps))
  /\ ~d.reasoning.is => hidden \/ SortFrom(ps, first, "reasoning") = {}
  /\ d.content.text = Ascending(SortFrom(ps, first, "content"), Len(ps))
  /\ ~d.content.is => SortFrom(ps, first, "content") = {}

\* Nothing selected means that there was nothing.
LEMMA AscendingNone ==
  ASSUME NEW n \in Nat, NEW set, set \subseteq 1..n, Ascending(set, n) = << >>
  PROVE  set = {}
<1>1. PICK a \in Seq(Nat) : a = << >> /\ Range(a) = set \cap 1..n
  BY AscendingIs
<1> QED BY <1>1 DEF Range

\* The delta of a batch is that.
LEMMA DeltaIs ==
  ASSUME NEW ps \in Seq(Sorts), NEW first \in 1..Len(ps), NEW blank \in BOOLEAN,
         NEW aligned \in BOOLEAN, NEW d, d = Delta(ps, first, blank, aligned)
  PROVE  IsDelta(d, ps, first)
<1>1. d \in PartType
  <2>1. first \in Nat
    OBVIOUS
  <2> QED BY <2>1, DeltaTyped
<1>2. PICK n \in Nat : n = Len(ps)
  OBVIOUS
<1>3. \A sort : Places(ps, first, {sort}) = Ascending(SortFrom(ps, first, sort), n)
  <2>1. \A sort : {i \in first..Len(ps) : ps[i] \in {sort}} = SortFrom(ps, first, sort)
    BY DEF SortFrom
  <2> QED BY <1>2, <2>1 DEF Places
<1>4. Places(ps, first, {"name", "args"}) = Ascending(CallsFrom(ps, first), n)
  BY <1>2 DEF Places, CallsFrom
<1>5. PICK r, t, a :
        /\ r = Ascending(SortFrom(ps, first, "reasoning"), n)
        /\ t = Ascending(SortFrom(ps, first, "content"), n)
        /\ a = Ascending(CallsFrom(ps, first), n)
  OBVIOUS
<1>6. /\ d.tools = [i \in DOMAIN a |-> Entry(ps, a[i])]
      /\ d.reasoning = IF hidden THEN Absent ELSE Optional(r, FALSE)
      /\ d.content = Optional(t, blank)
  BY <1>3, <1>4, <1>5 DEF Delta
<1>7. \A sort : Ascending(SortFrom(ps, first, sort), n) = << >> => SortFrom(ps, first, sort) = {}
  <2>1. \A sort : SortFrom(ps, first, sort) \subseteq 1..n
    BY <1>2 DEF SortFrom
  <2> QED BY <2>1, AscendingNone
<1>8. /\ d.reasoning.is => ~hidden /\ d.reasoning.text = r
      /\ ~d.reasoning.is => hidden \/ r = << >>
  BY <1>6 DEF Absent, Optional, Field
<1>9. /\ d.content.text = t
      /\ ~d.content.is => t = << >>
  BY <1>6 DEF Absent, Optional, Field
<1> QED BY <1>1, <1>2, <1>5, <1>6, <1>7, <1>8, <1>9 DEF IsDelta, Entries

\* Those of a rising sequence that are selected by their places.
Selects(a, J, own, b) ==
  own = Ascending(J, Len(a)) /\ b = [k \in DOMAIN own |-> a[own[k]]]

\* They rise, and no others are there.
LEMMA Selected ==
  ASSUME NEW a \in Seq(Nat), Rising(a), NEW J, J \subseteq 1..Len(a),
         NEW own, NEW b, Selects(a, J, own, b)
  PROVE  /\ b \in Seq(Nat) /\ Rising(b) /\ Range(b) = {a[j] : j \in J}
         /\ own \in Seq(1..Len(a)) /\ \A k \in DOMAIN own : own[k] \in J
<1>0. own = Ascending(J, Len(a)) /\ b = [k \in DOMAIN own |-> a[own[k]]]
  BY DEF Selects
<1>1. PICK m \in Nat : m = Len(a) /\ DOMAIN a = 1..m /\ \A i \in 1..m : a[i] \in Nat
  OBVIOUS
<1>2. own \in Seq(Nat) /\ Rising(own) /\ Range(own) = J
  <2>1. J \cap 1..m = J
    BY <1>1
  <2> QED BY <1>0, <1>1, <2>1, AscendingIs
<1>3. PICK n \in Nat : n = Len(own) /\ DOMAIN own = 1..n
  BY <1>2
<1>4. /\ \A k \in 1..n : own[k] \in J /\ own[k] \in 1..m
      /\ \A j \in J : \E k \in 1..n : own[k] = j
  BY <1>1, <1>2, <1>3 DEF Range
<1>5. b = [k \in 1..n |-> a[own[k]]] /\ \A k \in 1..n : a[own[k]] \in Nat
  BY <1>0, <1>1, <1>3, <1>4
<1>6. b \in Seq(Nat) /\ DOMAIN b = 1..n /\ \A k \in 1..n : b[k] = a[own[k]]
  BY <1>5
<1>7. Rising(b)
  <2>1. ASSUME NEW i \in 1..n, NEW j \in 1..n, i < j PROVE b[i] < b[j]
    <3>1. own[i] < own[j]
      BY <1>2, <1>3, <2>1 DEF Rising
    <3>2. \A k, l \in 1..m : k < l => a[k] < a[l]
      BY <1>1 DEF Rising
    <3>3. own[i] \in 1..m /\ own[j] \in 1..m
      BY <1>4
    <3>4. a[own[i]] < a[own[j]]
      BY <3>1, <3>2, <3>3
    <3> QED BY <1>6, <3>4
  <2>2. \A i, j \in DOMAIN b : i < j => b[i] < b[j]
    BY <1>6, <2>1
  <2> QED BY <2>2 DEF Rising
<1>8. Range(b) = {a[j] : j \in J}
  <2>1. ASSUME NEW z \in Range(b) PROVE z \in {a[j] : j \in J}
    <3>1. PICK k \in 1..n : z = b[k]
      BY <1>6, <2>1 DEF Range
    <3> QED BY <1>4, <1>6, <3>1
  <2>2. ASSUME NEW j \in J PROVE a[j] \in Range(b)
    <3>1. PICK k \in 1..n : own[k] = j
      BY <1>4
    <3>2. b[k] = a[j] /\ k \in DOMAIN b
      BY <1>6, <3>1
    <3> QED BY <3>2 DEF Range
  <2> QED BY <2>1, <2>2
<1>9. own \in Seq(1..Len(a))
  <2>1. own \in Seq(J \cap 1..m)
    BY <1>0, <1>1, AscendingTyped
  <2>2. J \cap 1..m \subseteq 1..Len(a)
    BY <1>1
  <2> QED BY <2>1, <2>2, SeqIn
<1> QED BY <1>3, <1>4, <1>6, <1>7, <1>8, <1>9

\* The entries of a delta.
LEMMA ToolsAre ==
  ASSUME NEW d, NEW ps, NEW first, IsDelta(d, ps, first)
  PROVE  \E a \in Seq(Nat), m \in Nat :
           /\ Rising(a) /\ Range(a) = CallsFrom(ps, first)
           /\ a = Ascending(CallsFrom(ps, first), Len(ps))
           /\ m = Len(a) /\ DOMAIN a = 1..m /\ DOMAIN d.tools = 1..m /\ Len(d.tools) = m
           /\ \A i \in 1..m : /\ d.tools[i] = Entry(ps, a[i])
                              /\ d.tools[i].index = CallOf(ps, a[i])
                              /\ a[i] \in CallsFrom(ps, first)
                              /\ d.tools[i].name # 0 <=> ps[a[i]] = "name"
<1>1. PICK n \in Nat : n = Len(ps)
  BY DEF IsDelta
<1>2. CallsFrom(ps, first) \cap 1..n = CallsFrom(ps, first)
  BY <1>1 DEF IsDelta, CallsFrom
<1>3. PICK a \in Seq(Nat) : /\ a = Ascending(CallsFrom(ps, first), n)
                            /\ Rising(a) /\ Range(a) = CallsFrom(ps, first)
  BY <1>2, AscendingIs
<1>4. PICK m \in Nat : m = Len(a) /\ DOMAIN a = 1..m
  OBVIOUS
<1>5. d.tools = [i \in 1..m |-> Entry(ps, a[i])] /\ d.tools \in Seq(ToolType)
  BY <1>1, <1>3, <1>4 DEF IsDelta, Entries, PartType
<1>6. DOMAIN d.tools = 1..m /\ Len(d.tools) = m /\ \A i \in 1..m : d.tools[i] = Entry(ps, a[i])
  BY <1>5
<1>7. ASSUME NEW i \in 1..m
      PROVE  /\ d.tools[i].index = CallOf(ps, a[i]) /\ a[i] \in CallsFrom(ps, first)
             /\ d.tools[i].name # 0 <=> ps[a[i]] = "name"
  <2>1. a[i] \in CallsFrom(ps, first)
    BY <1>3, <1>4 DEF Range
  <2>2. a[i] # 0
    BY <2>1 DEF CallsFrom, IsDelta
  <2>3. /\ Entry(ps, a[i]).index = CallOf(ps, a[i])
        /\ Entry(ps, a[i]).name = IF ps[a[i]] = "name" THEN a[i] ELSE 0
    BY DEF Entry
  <2>4. d.tools[i] = Entry(ps, a[i])
    BY <1>6
  <2>5. d.tools[i].name = IF ps[a[i]] = "name" THEN a[i] ELSE 0
    BY <2>3, <2>4
  <2>6. d.tools[i].name # 0 <=> ps[a[i]] = "name"
    BY <2>2, <2>5
  <2> QED BY <2>1, <2>3, <2>4, <2>6
<1> QED BY <1>1, <1>3, <1>4, <1>6, <1>7

\* A group is the entries of a call.
LEMMA GroupIs ==
  ASSUME NEW d, NEW ps, NEW first, IsDelta(d, ps, first), NEW x
  PROVE  /\ Group(d, x) = Entries(ps, Ascending(OfCall(ps, first, x), Len(ps)))
         /\ CallPart(Only(d, Group(d, x)), ps, OfCall(ps, first, x))
<1>1. PICK a \in Seq(Nat), m \in Nat :
        /\ Rising(a) /\ Range(a) = CallsFrom(ps, first)
        /\ m = Len(a) /\ DOMAIN a = 1..m /\ DOMAIN d.tools = 1..m /\ Len(d.tools) = m
        /\ \A i \in 1..m : /\ d.tools[i] = Entry(ps, a[i])
                           /\ d.tools[i].index = CallOf(ps, a[i])
  BY ToolsAre
<1>2. PICK J : J = {i \in 1..m : CallOf(ps, a[i]) = x}
  OBVIOUS
<1>3. PICK own : own = Ascending(J, m)
  OBVIOUS
<1>4. PICK b : b = [k \in DOMAIN own |-> a[own[k]]]
  OBVIOUS
<1>5. /\ b \in Seq(Nat) /\ Rising(b) /\ Range(b) = {a[j] : j \in J}
      /\ own \in Seq(1..m) /\ \A k \in DOMAIN own : own[k] \in J
  <2>1. J \subseteq 1..Len(a) /\ Selects(a, J, own, b) /\ m = Len(a)
    BY <1>1, <1>2, <1>3, <1>4 DEF Selects
  <2>2. Rising(a)
    BY <1>1
  <2>3. /\ b \in Seq(Nat) /\ Rising(b) /\ Range(b) = {a[j] : j \in J}
        /\ own \in Seq(1..Len(a)) /\ \A k \in DOMAIN own : own[k] \in J
    BY <2>1, <2>2, Selected
  <2> QED BY <2>1, <2>3
<1>6. Group(d, x) = [k \in DOMAIN own |-> d.tools[own[k]]]
  <2>1. {i \in DOMAIN d.tools : d.tools[i].index = x} = J
    BY <1>1, <1>2
  <2> QED BY <1>1, <1>3, <2>1 DEF Group
<1>7. Group(d, x) = Entries(ps, b)
  <2>1. DOMAIN b = DOMAIN own /\ \A k \in DOMAIN own : b[k] = a[own[k]]
    BY <1>4
  <2>2. \A k \in DOMAIN own : d.tools[own[k]] = Entry(ps, b[k])
    BY <1>1, <1>2, <1>5, <2>1
  <2> QED BY <1>6, <2>1, <2>2 DEF Entries
<1>8. PICK n \in Nat : n = Len(ps) /\ OfCall(ps, first, x) \cap 1..n = OfCall(ps, first, x)
  BY DEF IsDelta, OfCall, CallsFrom
<1>9. Range(b) = OfCall(ps, first, x)
  <2>1. Range(a) = {a[j] : j \in 1..m}
    BY <1>1 DEF Range
  <2> QED BY <1>1, <1>2, <1>5, <2>1 DEF OfCall
<1>10. b = Ascending(OfCall(ps, first, x), n)
  BY <1>5, <1>8, <1>9, AscendingOnly
<1>11. Group(d, x) = Entries(ps, Ascending(OfCall(ps, first, x), Len(ps)))
  BY <1>7, <1>8, <1>10
<1>12. Only(d, Group(d, x)) \in PartType /\ Only(d, Group(d, x)).tools = Group(d, x)
  <2>1. d \in PartType
    BY DEF IsDelta
  <2>2. Group(d, x) \in Seq(ToolType)
    BY <2>1, GroupTyped
  <2> QED BY <2>1, <2>2, OnlyTyped
<1> QED BY <1>11, <1>12 DEF CallPart

\* The first pieces of the calls, of new ones or others.
Heads(ps, first, new) ==
  {k \in CallsFrom(ps, first) :
     /\ \A j \in CallsFrom(ps, first) : j < k => CallOf(ps, j) # CallOf(ps, k)
     /\ Named(ps, first, CallOf(ps, k)) = new}

\* The groups, in the order of their heads.
GroupsOf(gs, ps, first, h) ==
  /\ DOMAIN gs = DOMAIN h
  /\ \A k \in DOMAIN h : CallPart(gs[k], ps, OfCall(ps, first, CallOf(ps, h[k])))

\* The groups of a delta come in the order of the pieces they begin with
\* (split_delta).
LEMMA GroupsAre ==
  ASSUME NEW d, NEW ps, NEW first, IsDelta(d, ps, first), NEW new \in BOOLEAN
  PROVE  \E h \in Seq(Nat) : /\ Rising(h) /\ Range(h) = Heads(ps, first, new)
                             /\ GroupsOf(Groups(d, new), ps, first, h)
<1>1. PICK a \in Seq(Nat), m \in Nat :
        /\ Rising(a) /\ Range(a) = CallsFrom(ps, first)
        /\ m = Len(a) /\ DOMAIN a = 1..m /\ DOMAIN d.tools = 1..m /\ Len(d.tools) = m
        /\ \A i \in 1..m : /\ d.tools[i].index = CallOf(ps, a[i])
                           /\ a[i] \in CallsFrom(ps, first)
                           /\ d.tools[i].name # 0 <=> ps[a[i]] = "name"
  BY ToolsAre
<1>2. \A k \in CallsFrom(ps, first) : \E i \in 1..m : a[i] = k
  BY <1>1 DEF Range
<1>3. \A i, j \in 1..m : i < j => a[i] < a[j]
  BY <1>1 DEF Rising
<1>4. PICK J : J = {i \in Starts(d) : Introduces(d, d.tools[i].index) = new}
  OBVIOUS
<1>5. PICK own : own = Ascending(J, m)
  OBVIOUS
<1>6. PICK h : h = [k \in DOMAIN own |-> a[own[k]]]
  OBVIOUS
<1>7. J \subseteq 1..m
  BY <1>1, <1>4 DEF Starts
<1>8. /\ h \in Seq(Nat) /\ Rising(h) /\ Range(h) = {a[j] : j \in J}
      /\ \A k \in DOMAIN own : own[k] \in J
  <2>1. J \subseteq 1..Len(a) /\ Selects(a, J, own, h) /\ Rising(a)
    BY <1>1, <1>5, <1>6, <1>7 DEF Selects
  <2> QED BY <2>1, Selected
<1>9. \A x : Introduces(d, x) <=> Named(ps, first, x)
  <2> SUFFICES ASSUME NEW x PROVE Introduces(d, x) <=> Named(ps, first, x)
    OBVIOUS
  <2>1. ASSUME Introduces(d, x) PROVE Named(ps, first, x)
    <3>1. PICK i \in 1..m : d.tools[i].index = x /\ d.tools[i].name # 0
      BY <1>1, <2>1 DEF Introduces
    <3>2. a[i] \in OfCall(ps, first, x) /\ ps[a[i]] = "name"
      BY <1>1, <3>1 DEF OfCall
    <3> QED BY <3>2 DEF Named
  <2>2. ASSUME Named(ps, first, x) PROVE Introduces(d, x)
    <3>1. PICK k \in CallsFrom(ps, first) : CallOf(ps, k) = x /\ ps[k] = "name"
      BY <2>2 DEF Named, OfCall
    <3>2. PICK i \in 1..m : a[i] = k
      BY <1>2
    <3> QED BY <1>1, <3>1, <3>2 DEF Introduces
  <2> QED BY <2>1, <2>2
<1>10. ASSUME NEW i \in 1..m
       PROVE  i \in Starts(d) <=> \A j \in CallsFrom(ps, first) :
                                    j < a[i] => CallOf(ps, j) # CallOf(ps, a[i])
  <2>1. i \in Starts(d) <=> \A j \in 1..(i - 1) : CallOf(ps, a[j]) # CallOf(ps, a[i])
    <3>1. \A j \in 1..(i - 1) : j \in 1..m
      OBVIOUS
    <3> QED BY <1>1, <3>1 DEF Starts
  <2>2. ASSUME \A j \in 1..(i - 1) : CallOf(ps, a[j]) # CallOf(ps, a[i]),
               NEW k \in CallsFrom(ps, first), k < a[i]
        PROVE  CallOf(ps, k) # CallOf(ps, a[i])
    <3>1. PICK j \in 1..m : a[j] = k
      BY <1>2
    <3>2. a[i] \in Nat /\ a[j] \in Nat
      BY <1>1
    <3>3. ~(i < j) /\ i # j
      BY <1>3, <2>2, <3>1, <3>2
    <3>4. j \in 1..(i - 1)
      BY <3>3
    <3> QED BY <2>2, <3>1, <3>4
  <2>3. ASSUME \A k \in CallsFrom(ps, first) : k < a[i] => CallOf(ps, k) # CallOf(ps, a[i]),
               NEW j \in 1..(i - 1)
        PROVE  CallOf(ps, a[j]) # CallOf(ps, a[i])
    <3>1. j \in 1..m /\ j < i
      OBVIOUS
    <3>2. a[j] < a[i] /\ a[j] \in CallsFrom(ps, first)
      BY <1>1, <1>3, <3>1
    <3> QED BY <2>3, <3>2
  <2> QED BY <2>1, <2>2, <2>3
<1>11. {a[j] : j \in J} = Heads(ps, first, new)
  <2>1. ASSUME NEW j \in J PROVE a[j] \in Heads(ps, first, new)
    <3>1. j \in 1..m /\ j \in Starts(d) /\ Introduces(d, d.tools[j].index) = new
      BY <1>4, <1>7
    <3>2. a[j] \in CallsFrom(ps, first) /\ d.tools[j].index = CallOf(ps, a[j])
      BY <1>1, <3>1
    <3>3. Named(ps, first, CallOf(ps, a[j])) = new
      BY <1>9, <3>1, <3>2 DEF Introduces, Named
    <3> QED BY <1>10, <3>1, <3>2, <3>3 DEF Heads
  <2>2. ASSUME NEW k \in Heads(ps, first, new) PROVE \E j \in J : k = a[j]
    <3>1. /\ k \in CallsFrom(ps, first) /\ Named(ps, first, CallOf(ps, k)) = new
          /\ \A j \in CallsFrom(ps, first) : j < k => CallOf(ps, j) # CallOf(ps, k)
      BY <2>2 DEF Heads
    <3>2. PICK i \in 1..m : a[i] = k
      BY <1>2, <3>1
    <3>3. i \in Starts(d)
      BY <1>10, <3>1, <3>2
    <3>4. d.tools[i].index = CallOf(ps, k)
      BY <1>1, <3>2
    <3>5. Introduces(d, d.tools[i].index) = new
      BY <1>9, <3>1, <3>4 DEF Introduces, Named
    <3> QED BY <1>4, <3>2, <3>3, <3>5
  <2> QED BY <2>1, <2>2
<1>12. GroupsOf(Groups(d, new), ps, first, h)
  <2>1. Groups(d, new) = [k \in DOMAIN own |-> Only(d, Group(d, d.tools[own[k]].index))]
    BY <1>1, <1>4, <1>5 DEF Groups
  <2>2. DOMAIN h = DOMAIN own /\ \A k \in DOMAIN own : h[k] = a[own[k]]
    BY <1>6
  <2>3. \A k \in DOMAIN own : d.tools[own[k]].index = CallOf(ps, h[k])
    BY <1>1, <1>7, <1>8, <2>2
  <2>4. \A x : CallPart(Only(d, Group(d, x)), ps, OfCall(ps, first, x))
    BY GroupIs
  <2>5. \A k \in DOMAIN own : Groups(d, new)[k] = Only(d, Group(d, CallOf(ps, h[k])))
    BY <2>1, <2>3
  <2>6. DOMAIN Groups(d, new) = DOMAIN own
    BY <2>1
  <2> QED BY <2>2, <2>4, <2>5, <2>6 DEF GroupsOf
<1> QED BY <1>8, <1>11, <1>12

\* Every call has a head.
LEMMA HeadOf ==
  ASSUME NEW ps, NEW first \in Nat, NEW k \in CallsFrom(ps, first)
  PROVE  \E h \in CallsFrom(ps, first) :
           /\ CallOf(ps, h) = CallOf(ps, k) /\ h <= k
           /\ \A j \in OfCall(ps, first, CallOf(ps, k)) : h <= j
           /\ h \in Heads(ps, first, Named(ps, first, CallOf(ps, k)))
<1>1. PICK T : T = OfCall(ps, first, CallOf(ps, k))
  OBVIOUS
<1>2. T \subseteq Nat /\ k \in T
  BY <1>1 DEF OfCall, CallsFrom
<1>3. PICK h \in T : \A j \in T : h <= j
  BY <1>2, LeastExists
<1>4. h \in CallsFrom(ps, first) /\ CallOf(ps, h) = CallOf(ps, k)
  BY <1>1, <1>3 DEF OfCall
<1>5. \A j \in CallsFrom(ps, first) : j < h => CallOf(ps, j) # CallOf(ps, h)
  <2> SUFFICES ASSUME NEW j \in CallsFrom(ps, first), j < h, CallOf(ps, j) = CallOf(ps, h)
               PROVE  FALSE
    OBVIOUS
  <2>1. j \in T
    BY <1>1, <1>4 DEF OfCall
  <2> QED BY <1>2, <1>3, <2>1
<1> QED BY <1>1, <1>2, <1>3, <1>4, <1>5 DEF Heads

\* A new call begins with its name, and has arguments after it.
LEMMA NamedHead ==
  ASSUME NEW ps, NEW first \in Nat, NEW h \in Heads(ps, first, TRUE)
  PROVE  /\ ps[h] = "name" /\ h \in OfCall(ps, first, CallOf(ps, h)) /\ h \in Nat
         /\ \A k \in OfCall(ps, first, CallOf(ps, h)) : h <= k /\ (k # h => ps[k] = "args")
<1>1. /\ h \in CallsFrom(ps, first) /\ Named(ps, first, CallOf(ps, h))
      /\ \A j \in CallsFrom(ps, first) : j < h => CallOf(ps, j) # CallOf(ps, h)
  BY DEF Heads
<1>2. CallsFrom(ps, first) \subseteq Nat
  BY DEF CallsFrom
<1>3. PICK p \in CallsFrom(ps, first) : CallOf(ps, p) = CallOf(ps, h) /\ ps[p] = "name"
  BY <1>1 DEF Named, OfCall
<1>4. p = h
  <2> SUFFICES ASSUME h < p PROVE FALSE
    BY <1>1, <1>2, <1>3
  <2>1. CallOf(ps, h) < CallOf(ps, p) /\ CallOf(ps, h) \in Int
    BY <1>1, <1>2, <1>3, CallOrder
  <2> QED BY <1>3, <2>1
<1>5. ASSUME NEW k \in OfCall(ps, first, CallOf(ps, h))
      PROVE  h <= k /\ (k # h => ps[k] = "args")
  <2>1. k \in CallsFrom(ps, first) /\ CallOf(ps, k) = CallOf(ps, h)
    BY DEF OfCall
  <2>2. h <= k /\ h \in Nat /\ k \in Nat
    BY <1>1, <1>2, <2>1
  <2>3. ASSUME k # h, ps[k] = "name" PROVE FALSE
    <3>1. CallOf(ps, h) < CallOf(ps, k) /\ CallOf(ps, h) \in Int
      BY <2>2, <2>3, CallOrder
    <3> QED BY <2>1, <3>1
  <2>4. ps[k] \in {"name", "args"}
    BY <2>1 DEF CallsFrom
  <2> QED BY <2>2, <2>3, <2>4
<1>6. h \in OfCall(ps, first, CallOf(ps, h))
  BY <1>1 DEF OfCall
<1> QED BY <1>1, <1>2, <1>3, <1>4, <1>5, <1>6

\* Arguments without a name go on with the call before.
LEMMA NamelessHead ==
  ASSUME NEW ps \in Seq(Sorts), NEW first \in 1..Len(ps), Legal(ps, first),
         NEW h \in Heads(ps, first, FALSE)
  PROVE  /\ h = first /\ ps[first] = "args"
         /\ CallOf(ps, first) = CallOf(ps, first - 1) /\ first - 1 \in Nat
         /\ Follows(SubSeq(ps, 1, first - 1), "args")
<1>1. /\ h \in CallsFrom(ps, first) /\ ~Named(ps, first, CallOf(ps, h))
      /\ \A j \in CallsFrom(ps, first) : j < h => CallOf(ps, j) # CallOf(ps, h)
  BY DEF Heads
<1>2. h \in first..Len(ps) /\ ps[h] \in {"name", "args"}
  BY <1>1 DEF CallsFrom
<1>3. ps[h] = "args"
  <2>1. h \in OfCall(ps, first, CallOf(ps, h))
    BY <1>1 DEF OfCall
  <2> QED BY <1>1, <1>2, <2>1 DEF Named
<1>4. h \in 1..Len(ps) /\ Follows(SubSeq(ps, 1, h - 1), "args")
  <2>1. Follows(SubSeq(ps, 1, h - 1), ps[h])
    BY <1>2 DEF Legal
  <2> QED BY <1>2, <1>3, <2>1
<1>5. h - 1 \in 1..Len(ps) /\ ps[h - 1] \in {"name", "args"}
  BY <1>3, <1>4, ArgumentsFollow
<1>6. CallOf(ps, h - 1) = CallOf(ps, h)
  <2>1. \A k \in (h - 1) + 1..h : ps[k] # "name"
    <3>1. \A k \in (h - 1) + 1..h : k = h
      BY <1>4
    <3> QED BY <1>3, <3>1
  <2>2. h - 1 \in Nat /\ h \in Nat /\ h - 1 <= h
    BY <1>4, <1>5
  <2>3. PICK i \in Nat : i = h - 1 /\ i <= h /\ \A k \in i + 1..h : ps[k] # "name"
    BY <2>1, <2>2
  <2>4. CallOf(ps, i) = CallOf(ps, h)
    BY <2>2, <2>3, CallOrder
  <2> QED BY <2>3, <2>4
<1>7. h = first
  <2> SUFFICES ASSUME h # first PROVE FALSE
    OBVIOUS
  <2>1. h - 1 \in CallsFrom(ps, first) /\ h - 1 < h
    BY <1>2, <1>5 DEF CallsFrom
  <2> QED BY <1>1, <1>6, <2>1
<1> QED BY <1>3, <1>4, <1>5, <1>6, <1>7

-----------------------------------------------------------------------------
\* A whole delta: the rest of the open call, the texts, and the new calls.

\* The open call is the last one.
LEMMA LastName ==
  ASSUME NEW s, NEW ps, NEW done, Good(s, ps, done), s.proc.state = "call"
  PROVE  /\ s.proc.name \in done /\ ps[s.proc.name] = "name"
         /\ \A k \in done : ps[k] = "name" => k <= s.proc.name
<1>1. /\ Kept(s) \in Seq(LookType) /\ LookOf(s.proc) \in LookType
      /\ Looks(s) = Append(Kept(s), LookOf(s.proc))
  <2>1. s \in RunType /\ s.proc.state # None
    BY DEF Good, RunInv, None
  <2> QED BY <2>1, LooksTyped DEF Looks
<1>2. PICK K \in Seq(LookType), e \in LookType, L \in Seq(LookType), m \in Nat :
        /\ K = Kept(s) /\ e = LookOf(s.proc) /\ L = Append(K, e) /\ L = Looks(s) /\ m = Len(K)
        /\ DOMAIN L = 1..m + 1 /\ L[m + 1] = e
  <2>1. \A t \in Seq(LookType), x \in LookType :
          /\ Len(t) \in Nat /\ DOMAIN Append(t, x) = 1..Len(t) + 1
          /\ Append(t, x)[Len(t) + 1] = x /\ Append(t, x) \in Seq(LookType)
    OBVIOUS
  <2> QED BY <1>1, <2>1
<1>3. e.state = "call" /\ e.name = s.proc.name
  BY <1>2 DEF LookOf
<1>4. CallsRight(L, ps, done) /\ done \subseteq Nat
  BY <1>2 DEF Good
<1>5. m + 1 \in DOMAIN L /\ L[m + 1].state = "call" /\ L[m + 1].name = s.proc.name
  BY <1>2, <1>3
<1>6. s.proc.name \in done /\ ps[s.proc.name] = "name"
  BY <1>4, <1>5 DEF CallsRight
<1>7. ASSUME NEW k \in done, ps[k] = "name" PROVE k <= s.proc.name
  <2>1. PICK i \in DOMAIN L : L[i].state = "call" /\ L[i].name = k
    BY <1>4, <1>7 DEF CallsRight
  <2>2. i \in 1..m + 1 /\ (i = m + 1 \/ i < m + 1)
    BY <1>2
  <2>3. CASE i = m + 1
    BY <1>4, <1>5, <1>6, <2>1, <2>3
  <2>4. CASE i < m + 1
    <3>1. L[i].name < L[m + 1].name
      BY <1>4, <1>5, <2>1, <2>4 DEF CallsRight
    <3>2. k < s.proc.name
      BY <1>5, <2>1, <3>1
    <3>3. k \in Nat /\ s.proc.name \in Nat
      BY <1>4, <1>6
    <3> QED BY <3>2, <3>3
  <2> QED BY <2>2, <2>3, <2>4
<1> QED BY <1>6, <1>7

\* What was generated before, and what is legal to follow it.
ReadyFor(s, ps, first) ==
  /\ ps \in Seq(Sorts) /\ first \in 1..Len(ps) /\ Legal(ps, first)
  /\ Good(s, ps, 1..(first - 1))
  /\ Follows(SubSeq(ps, 1, first - 1), "args") => s.proc.state = "call"

\* Pieces of calls that were there before, and of new ones.
OldPieces(ps, first) ==
  {k \in CallsFrom(ps, first) : ~Named(ps, first, CallOf(ps, k))}
NewPieces(ps, first) ==
  {k \in CallsFrom(ps, first) : Named(ps, first, CallOf(ps, k))}

\* The old pieces are arguments of the open call.
LEMMA OldPiecesAre ==
  ASSUME NEW s, NEW ps, NEW first, ReadyFor(s, ps, first), OldPieces(ps, first) # {}
  PROVE  /\ first \in Heads(ps, first, FALSE)
         /\ OldPieces(ps, first) = OfCall(ps, first, CallOf(ps, first))
         /\ s.proc.state = "call"
         /\ OldCall(ps, 1..(first - 1), OldPieces(ps, first), s.proc.name)
<1>1. /\ ps \in Seq(Sorts) /\ first \in 1..Len(ps) /\ Legal(ps, first) /\ first \in Nat
      /\ Good(s, ps, 1..(first - 1))
      /\ Follows(SubSeq(ps, 1, first - 1), "args") => s.proc.state = "call"
  BY DEF ReadyFor
<1>2. ASSUME NEW k \in OldPieces(ps, first)
      PROVE  first \in Heads(ps, first, FALSE) /\ CallOf(ps, first) = CallOf(ps, k)
  <2>1. k \in CallsFrom(ps, first) /\ ~Named(ps, first, CallOf(ps, k))
    BY DEF OldPieces
  <2>2. PICK h \in CallsFrom(ps, first) :
          /\ CallOf(ps, h) = CallOf(ps, k)
          /\ h \in Heads(ps, first, Named(ps, first, CallOf(ps, k)))
    BY <1>1, <2>1, HeadOf
  <2>3. h \in Heads(ps, first, FALSE)
    BY <2>1, <2>2 DEF Heads
  <2>4. h = first
    BY <1>1, <2>3, NamelessHead
  <2> QED BY <2>2, <2>3, <2>4
<1>3. first \in Heads(ps, first, FALSE)
  BY <1>2
<1>4. /\ ps[first] = "args" /\ CallOf(ps, first) = CallOf(ps, first - 1) /\ first - 1 \in Nat
      /\ Follows(SubSeq(ps, 1, first - 1), "args")
  BY <1>1, <1>3, NamelessHead
<1>5. OldPieces(ps, first) = OfCall(ps, first, CallOf(ps, first))
  <2>1. first \in CallsFrom(ps, first) /\ ~Named(ps, first, CallOf(ps, first))
    BY <1>3 DEF Heads
  <2> QED BY <1>2, <2>1 DEF OldPieces, OfCall
<1>6. s.proc.state = "call"
  BY <1>1, <1>4
<1>7. PICK p \in 1..(first - 1) :
        /\ p = s.proc.name /\ ps[p] = "name"
        /\ \A k \in 1..(first - 1) : ps[k] = "name" => k <= p
  BY <1>1, <1>6, LastName
<1>8. CallOf(ps, p) = CallOf(ps, first - 1)
  <2>1. PICK i \in Nat, j \in Nat : i = p /\ j = first - 1 /\ i <= j
    BY <1>4
  <2>2. \A k \in i + 1..j : ps[k] # "name"
    BY <1>7, <2>1
  <2>3. CallOf(ps, i) = CallOf(ps, j)
    BY <2>1, <2>2, CallOrder
  <2> QED BY <2>1, <2>3
<1>9. ASSUME NEW k \in OldPieces(ps, first)
      PROVE  /\ ps[k] = "args" /\ CallOf(ps, k) = CallOf(ps, p)
             /\ k \in first..Len(ps)
  <2>1. k \in CallsFrom(ps, first) /\ ~Named(ps, first, CallOf(ps, k))
    BY DEF OldPieces
  <2>2. k \in first..Len(ps) /\ ps[k] \in {"name", "args"}
    BY <2>1 DEF CallsFrom
  <2>3. ps[k] # "name"
    <3>1. k \in OfCall(ps, first, CallOf(ps, k))
      BY <2>1 DEF OfCall
    <3> QED BY <2>1, <3>1 DEF Named
  <2> QED BY <1>2, <1>4, <1>8, <2>2, <2>3
<1>10. OldCall(ps, 1..(first - 1), OldPieces(ps, first), p)
  <2>1. Batch(ps, 1..(first - 1), OldPieces(ps, first))
    BY <1>1, <1>9 DEF Batch
  <2>2. \A k \in 1..(first - 1), b \in OldPieces(ps, first) : ps[k] = "args" => k < b
    BY <1>1, <1>9
  <2> QED BY <1>7, <1>9, <2>1, <2>2 DEF OldCall
<1> QED BY <1>3, <1>5, <1>6, <1>7, <1>10

\* The first stage: the rest of the open call, before anything closes it.
LEMMA OldStage ==
  ASSUME NEW s, NEW ps, NEW first, ReadyFor(s, ps, first), NEW d, IsDelta(d, ps, first)
  PROVE  Good(Run(s, Groups(d, FALSE)), ps, (1..(first - 1)) \cup OldPieces(ps, first))
<1>1. /\ ps \in Seq(Sorts) /\ first \in 1..Len(ps) /\ Legal(ps, first) /\ first \in Nat
      /\ Good(s, ps, 1..(first - 1)) /\ d \in PartType
  BY DEF ReadyFor, IsDelta
<1>2. PICK h \in Seq(Nat) : /\ Rising(h) /\ Range(h) = Heads(ps, first, FALSE)
                            /\ GroupsOf(Groups(d, FALSE), ps, first, h)
  BY GroupsAre
<1>3. PICK gs \in Seq(PartType) : gs = Groups(d, FALSE) /\ GroupsOf(gs, ps, first, h)
  BY <1>1, <1>2, GroupsTyped
<1>4. PICK n \in Nat : n = Len(gs) /\ DOMAIN gs = 1..n /\ DOMAIN h = 1..n
  <2>1. DOMAIN gs = DOMAIN h /\ DOMAIN gs = 1..Len(gs) /\ Len(gs) \in Nat
    <3>1. DOMAIN gs = DOMAIN h
      BY <1>3 DEF GroupsOf
    <3>2. DOMAIN gs = 1..Len(gs) /\ Len(gs) \in Nat
      OBVIOUS
    <3> QED BY <3>1, <3>2
  <2> QED BY <2>1
<1>5. CASE OldPieces(ps, first) = {}
  <2>1. Heads(ps, first, FALSE) = {}
    BY <1>5 DEF Heads, OldPieces
  <2>2. n = 0
    <3>1. \A k \in 1..n : h[k] \in Heads(ps, first, FALSE)
      BY <1>2, <1>4 DEF Range
    <3>2. ~(1 \in 1..n)
      BY <2>1, <3>1
    <3> QED BY <3>2
  <2>3. gs = << >>
    BY <1>4, <2>2
  <2>4. Run(s, gs) = s
    BY <2>3, RunNone
  <2>5. (1..(first - 1)) \cup OldPieces(ps, first) = 1..(first - 1)
    BY <1>5
  <2> QED BY <1>1, <1>3, <2>4, <2>5
<1>6. CASE OldPieces(ps, first) # {}
  <2>1. /\ first \in Heads(ps, first, FALSE)
        /\ OldPieces(ps, first) = OfCall(ps, first, CallOf(ps, first))
        /\ s.proc.state = "call"
        /\ OldCall(ps, 1..(first - 1), OldPieces(ps, first), s.proc.name)
    BY <1>6, OldPiecesAre
  <2>2. \A k \in 1..n : h[k] = first
    <3>1. \A k \in 1..n : h[k] \in Heads(ps, first, FALSE)
      BY <1>2, <1>4 DEF Range
    <3> QED BY <1>1, <3>1, NamelessHead
  <2>3. n = 1
    <3>1. n # 0
      <4>1. \E k \in DOMAIN h : first = h[k]
        BY <1>2, <2>1 DEF Range
      <4> QED BY <1>4, <4>1
    <3>2. ~(2 \in 1..n)
      <4> SUFFICES ASSUME 2 \in 1..n PROVE FALSE
        OBVIOUS
      <4>1. 1 \in 1..n /\ h[1] < h[2]
        BY <1>2, <1>4 DEF Rising
      <4> QED BY <1>1, <2>2, <4>1
    <3> QED BY <3>1, <3>2
  <2>4. PICK g \in PartType : g = gs[1] /\ CallPart(g, ps, OfCall(ps, first, CallOf(ps, first)))
    <3>1. 1 \in DOMAIN h /\ h[1] = first /\ 1 \in DOMAIN gs
      BY <1>4, <2>2, <2>3
    <3>2. CallPart(gs[1], ps, OfCall(ps, first, CallOf(ps, h[1])))
      BY <1>3, <3>1 DEF GroupsOf
    <3>3. gs[1] \in PartType
      BY <3>1
    <3> QED BY <3>1, <3>2, <3>3
  <2>5. gs = Append(<< >>, g)
    BY <1>4, <2>3, <2>4
  <2>6. Run(s, gs) = Step(s, g)
    <3>1. << >> \in Seq(PartType)
      OBVIOUS
    <3>2. Run(s, Append(<< >>, g)) = Step(Run(s, << >>), g)
      BY <3>1, RunNext
    <3> QED BY <2>5, <3>2, RunNone
  <2>7. Good(Step(s, g), ps, (1..(first - 1)) \cup OldPieces(ps, first))
    <3>1. PICK B : B = OldPieces(ps, first) /\ B \subseteq 1..Len(ps) /\ B # {}
      <4>1. OldPieces(ps, first) \subseteq 1..Len(ps)
        BY <1>1 DEF OldPieces, CallsFrom
      <4> QED BY <1>6, <4>1
    <3>2. CallPart(g, ps, B) /\ OldCall(ps, 1..(first - 1), B, s.proc.name)
      BY <2>1, <2>4, <3>1
    <3>3. Good(Step(s, g), ps, (1..(first - 1)) \cup B)
      BY <1>1, <2>1, <3>1, <3>2, OldCallPart
    <3> QED BY <3>1, <3>3
  <2> QED BY <1>3, <2>6, <2>7
<1> QED BY <1>5, <1>6

\* A run of one part is a step.
LEMMA RunOne ==
  ASSUME NEW s, NEW g \in PartType
  PROVE  Run(s, <<g>>) = Step(s, g)
<1>1. << >> \in Seq(PartType) /\ <<g>> = Append(<< >>, g)
  OBVIOUS
<1>2. Run(s, Append(<< >>, g)) = Step(Run(s, << >>), g)
  <2>1. \A parts \in Seq(PartType) : Run(s, Append(parts, g)) = Step(Run(s, parts), g)
    BY RunNext
  <2> QED BY <1>1, <2>1
<1> QED BY <1>1, <1>2, RunNone

\* The second stage.
AfterOld(ps, first) == (1..(first - 1)) \cup OldPieces(ps, first)
AfterTexts(ps, first) ==
  (AfterOld(ps, first) \cup SortFrom(ps, first, "reasoning")) \cup SortFrom(ps, first, "content")

\* A part with the content of a delta.
LEMMA ContentPart ==
  ASSUME NEW s, NEW ps, NEW done, Good(s, ps, done), NEW B, B \subseteq 1..Len(ps),
         NEW d \in PartType, d.tools = << >>, ~d.reasoning.is,
         d.content.text = Ascending(B, Len(ps)), \A k \in B : ps[k] = "content",
         \A k \in done, b \in B : ps[k] = "content" => k < b
  PROVE  Good(Step(s, d), ps, done \cup B)
<1>1. CASE d.content.text = << >>
  <2>1. B = {}
    <3>1. PICK n \in Nat : n = Len(ps)
      BY DEF Good
    <3>2. Ascending(B, n) = << >>
      BY <1>1, <3>1
    <3> QED BY <3>1, <3>2, AscendingNone
  <2>2. TargetState(d) = None
    BY <1>1 DEF TargetState
  <2>3. Step(s, d) = s
    <3>1. s \in RunType /\ None \notin States
      BY DEF Good, RunInv, None, States
    <3> QED BY <2>2, <3>1, StepIs
  <2>4. done \cup B = done
    BY <2>1
  <2> QED BY <2>3, <2>4
<1>2. CASE d.content.text # << >>
  <2>1. TargetState(d) = "content"
    BY <1>2 DEF TargetState
  <2>2. Added("content", d) = Ascending(B, Len(ps))
    BY DEF Added, New
  <2>3. TextOfPart(d, ps, B, "content")
    BY <2>1, <2>2 DEF TextOfPart
  <2> QED BY <2>3, TextPart
<1> QED BY <1>1, <1>2

\* A part with the reasoning of a delta.
LEMMA ReasoningPart ==
  ASSUME NEW s, NEW ps, NEW done, Good(s, ps, done), NEW B, B \subseteq 1..Len(ps),
         NEW d \in PartType, d.tools = << >>, d.reasoning.is, ~hidden,
         d.reasoning.text = Ascending(B, Len(ps)), \A k \in B : ps[k] = "reasoning",
         \A k \in done, b \in B : ps[k] = "reasoning" => k < b
  PROVE  Good(Step(s, d), ps, done \cup B)
<1>1. TargetState(d) = "reasoning"
  BY DEF TargetState
<1>2. Added("reasoning", d) = Ascending(B, Len(ps))
  BY DEF Added, New
<1>3. TextOfPart(d, ps, B, "reasoning")
  BY <1>1, <1>2 DEF TextOfPart
<1> QED BY <1>3, TextPart

\* The parts that are texts.
TextsAre(ts, d) ==
  \E r \in PartType, t \in PartType :
    /\ ts = (IF d.reasoning.is THEN <<r>> ELSE << >>) \o (IF d.content.is THEN <<t>> ELSE << >>)
    /\ r.tools = << >> /\ r.reasoning = d.reasoning
    /\ t.tools = << >> /\ ~t.reasoning.is /\ t.content = d.content

\* The texts of a delta are parts of their own, reasoning first.
LEMMA TextsSplit ==
  ASSUME NEW d \in PartType
  PROVE  /\ TextsAre(Texts(d), d)
         /\ Len(Texts(d)) = (IF d.reasoning.is THEN 1 ELSE 0) + (IF d.content.is THEN 1 ELSE 0)
<1>1. PICK e \in PartType : e = Only(d, << >>) /\ e.tools = << >> /\ e.reasoning = Absent
  <2>1. << >> \in Seq(ToolType)
    OBVIOUS
  <2> QED BY <2>1, OnlyTyped
<1>2. PICK r \in PartType : r = [e EXCEPT !.reasoning = d.reasoning] /\ r.tools = << >>
                            /\ r.reasoning = d.reasoning
  <2>1. d.reasoning \in FieldType
    BY DEF PartType
  <2>2. [e EXCEPT !.reasoning = d.reasoning] \in PartType
    BY <2>1 DEF PartType
  <2>3. /\ [e EXCEPT !.reasoning = d.reasoning].tools = e.tools
        /\ [e EXCEPT !.reasoning = d.reasoning].reasoning = d.reasoning
    BY DEF PartType
  <2> QED BY <1>1, <2>2, <2>3
<1>3. PICK t \in PartType : t = [e EXCEPT !.content = d.content] /\ t.tools = << >>
                            /\ t.content = d.content /\ ~t.reasoning.is
  <2>1. d.content \in FieldType
    BY DEF PartType
  <2>2. [e EXCEPT !.content = d.content] \in PartType
    BY <2>1 DEF PartType
  <2>3. /\ [e EXCEPT !.content = d.content].tools = e.tools
        /\ [e EXCEPT !.content = d.content].reasoning = e.reasoning
        /\ [e EXCEPT !.content = d.content].content = d.content
    BY DEF PartType
  <2>4. ~e.reasoning.is
    BY <1>1 DEF Absent
  <2> QED BY <1>1, <2>2, <2>3, <2>4
<1>4. Texts(d) = (IF d.reasoning.is THEN <<r>> ELSE << >>)
                   \o (IF d.content.is THEN <<t>> ELSE << >>)
  BY <1>1, <1>2, <1>3 DEF Texts
<1>5. Len(Texts(d)) = (IF d.reasoning.is THEN 1 ELSE 0) + (IF d.content.is THEN 1 ELSE 0)
  <2>1. \A a \in Seq(PartType), b \in Seq(PartType) : Len(a \o b) = Len(a) + Len(b)
    OBVIOUS
  <2>2. PICK u \in Seq(PartType), v \in Seq(PartType), w \in Seq(PartType) :
          /\ u = <<r>> /\ Len(u) = 1 /\ v = <<t>> /\ Len(v) = 1
          /\ w = << >> /\ Len(w) = 0
    <3>1. /\ <<r>> \in Seq(PartType) /\ Len(<<r>>) = 1
          /\ <<t>> \in Seq(PartType) /\ Len(<<t>>) = 1
          /\ << >> \in Seq(PartType) /\ Len(<< >>) = 0
      OBVIOUS
    <3> QED BY <3>1, Zenon
  <2>3. PICK a \in Seq(PartType) :
          /\ a = (IF d.reasoning.is THEN <<r>> ELSE << >>)
          /\ Len(a) = IF d.reasoning.is THEN 1 ELSE 0
    <3>1. PICK x : x = (IF d.reasoning.is THEN <<r>> ELSE << >>)
      OBVIOUS
    <3>2. x = IF d.reasoning.is THEN u ELSE w
      BY <2>2, <3>1
    <3>3. x \in Seq(PartType) /\ Len(x) = IF d.reasoning.is THEN 1 ELSE 0
      BY <2>2, <3>2
    <3> QED BY <3>1, <3>3
  <2>4. PICK b \in Seq(PartType) :
          /\ b = (IF d.content.is THEN <<t>> ELSE << >>)
          /\ Len(b) = IF d.content.is THEN 1 ELSE 0
    <3>1. PICK x : x = (IF d.content.is THEN <<t>> ELSE << >>)
      OBVIOUS
    <3>2. x = IF d.content.is THEN v ELSE w
      BY <2>2, <3>1
    <3>3. x \in Seq(PartType) /\ Len(x) = IF d.content.is THEN 1 ELSE 0
      BY <2>2, <3>2
    <3> QED BY <3>1, <3>3
  <2>5. Texts(d) = a \o b
    BY <1>4, <2>3, <2>4
  <2>6. Len(Texts(d)) = Len(a) + Len(b)
    BY <2>1, <2>5
  <2> QED BY <2>3, <2>4, <2>6
<1>6. TextsAre(Texts(d), d)
  BY <1>2, <1>3, <1>4 DEF TextsAre
<1> QED BY <1>5, <1>6

\* The second stage: the texts.
LEMMA TextStage ==
  ASSUME NEW s, NEW ps, NEW first, NEW d, IsDelta(d, ps, first),
         Good(s, ps, AfterOld(ps, first))
  PROVE  Good(Run(s, Texts(d)), ps, AfterTexts(ps, first))
<1>1. /\ d \in PartType /\ ps \in Seq(Sorts) /\ first \in 1..Len(ps)
      /\ d.reasoning.is => /\ ~hidden
                           /\ d.reasoning.text = Ascending(SortFrom(ps, first, "reasoning"), Len(ps))
      /\ ~d.reasoning.is => hidden \/ SortFrom(ps, first, "reasoning") = {}
      /\ d.content.text = Ascending(SortFrom(ps, first, "content"), Len(ps))
      /\ ~d.content.is => SortFrom(ps, first, "content") = {}
  BY DEF IsDelta
<1>2. PICK r \in PartType, t \in PartType :
        /\ Texts(d) = (IF d.reasoning.is THEN <<r>> ELSE << >>)
                        \o (IF d.content.is THEN <<t>> ELSE << >>)
        /\ r.tools = << >> /\ r.reasoning = d.reasoning
        /\ t.tools = << >> /\ ~t.reasoning.is /\ t.content = d.content
  <2>1. TextsAre(Texts(d), d)
    BY <1>1, TextsSplit
  <2> QED BY <2>1 DEF TextsAre
<1>3. PICK a \in Seq(PartType), b \in Seq(PartType) :
        /\ a = (IF d.reasoning.is THEN <<r>> ELSE << >>)
        /\ b = (IF d.content.is THEN <<t>> ELSE << >>)
  <2>1. <<r>> \in Seq(PartType) /\ <<t>> \in Seq(PartType) /\ << >> \in Seq(PartType)
    OBVIOUS
  <2> QED BY <2>1
<1>4. Run(s, Texts(d)) = Run(Run(s, a), b)
  <2>1. Texts(d) = a \o b
    BY <1>2, <1>3
  <2> QED BY <2>1, RunConcat
<1>5. PICK R, K : R = SortFrom(ps, first, "reasoning") /\ K = SortFrom(ps, first, "content")
  OBVIOUS
<1>6. /\ R \subseteq 1..Len(ps) /\ K \subseteq 1..Len(ps)
      /\ \A k \in R : ps[k] = "reasoning" /\ k \in first..Len(ps)
      /\ \A k \in K : ps[k] = "content" /\ k \in first..Len(ps)
  BY <1>1, <1>5 DEF SortFrom
<1>7. \A k \in AfterOld(ps, first) :
        k \in 1..(first - 1) \/ (ps[k] # "content" /\ ps[k] # "reasoning")
  BY DEF AfterOld, OldPieces, CallsFrom
<1>8. PICK m : m = Run(s, a)
  OBVIOUS
<1>9. Good(m, ps, AfterOld(ps, first) \cup R)
  <2>1. CASE d.reasoning.is
    <3>1. m = Step(s, r)
      BY <1>3, <1>8, <2>1, RunOne
    <3>2. \A k \in AfterOld(ps, first), b1 \in R : ps[k] = "reasoning" => k < b1
      BY <1>1, <1>6, <1>7
    <3>3. r.reasoning.is /\ ~hidden /\ r.reasoning.text = Ascending(R, Len(ps))
      BY <1>1, <1>2, <1>5, <2>1
    <3>4. Good(Step(s, r), ps, AfterOld(ps, first) \cup R)
      BY <1>2, <1>6, <3>2, <3>3, ReasoningPart
    <3> QED BY <3>1, <3>4
  <2>2. CASE ~d.reasoning.is
    <3>1. m = s
      BY <1>3, <1>8, <2>2, RunNone
    <3>2. Unheard(ps, R)
      BY <1>1, <1>5, <1>6, <2>2 DEF Unheard
    <3>3. Good(s, ps, AfterOld(ps, first) \cup R)
      BY <1>6, <3>2, NoPart
    <3> QED BY <3>1, <3>3
  <2> QED BY <2>1, <2>2
<1>10. Good(Run(m, b), ps, (AfterOld(ps, first) \cup R) \cup K)
  <2>1. CASE d.content.is
    <3>1. Run(m, b) = Step(m, t)
      BY <1>3, <2>1, RunOne
    <3>2. PICK D : D = AfterOld(ps, first) \cup R
      OBVIOUS
    <3>3. \A k \in D, b1 \in K : ps[k] = "content" => k < b1
      <4>1. \A k \in D : k \in 1..(first - 1) \/ ps[k] # "content"
        BY <1>6, <1>7, <3>2
      <4> QED BY <1>1, <1>6, <4>1
    <3>4. t.content.text = Ascending(K, Len(ps))
      BY <1>1, <1>2, <1>5
    <3>5. Good(m, ps, D) /\ t.tools = << >> /\ ~t.reasoning.is
      BY <1>2, <1>9, <3>2
    <3>6. \A k \in K : ps[k] = "content"
      BY <1>6
    <3>7. Good(Step(m, t), ps, D \cup K)
      BY <1>6, <3>3, <3>4, <3>5, <3>6, ContentPart
    <3> QED BY <3>1, <3>2, <3>7
  <2>2. CASE ~d.content.is
    <3>1. Run(m, b) = m
      BY <1>3, <2>2, RunNone
    <3>2. (AfterOld(ps, first) \cup R) \cup K = AfterOld(ps, first) \cup R
      BY <1>1, <1>5, <2>2
    <3> QED BY <1>9, <3>1, <3>2
  <2> QED BY <2>1, <2>2
<1> QED BY <1>4, <1>5, <1>8, <1>10 DEF AfterTexts

\* Everything of a call that is not after a head belongs to calls before.
Behind(ps, first, D, h) ==
  /\ D \subseteq 1..Len(ps)
  /\ \A k \in D : ps[k] = "args" \/ ps[k] = "name" =>
       \/ k < first
       \/ k \in OldPieces(ps, first)
       \/ \E i \in Nat : i < h /\ CallOf(ps, k) = CallOf(ps, i)

\* A call that is named in a delta is new when all pieces before it are done.
LEMMA NewCallThere ==
  ASSUME NEW ps \in Seq(Sorts), NEW first \in 1..Len(ps), Legal(ps, first),
         NEW h \in Heads(ps, first, TRUE), NEW D, Behind(ps, first, D, h)
  PROVE  NewCall(ps, D, OfCall(ps, first, CallOf(ps, h)), h, CallOf(ps, h))
<1>0. first \in Nat
  OBVIOUS
<1>1. /\ ps[h] = "name" /\ h \in OfCall(ps, first, CallOf(ps, h)) /\ h \in Nat
      /\ \A k \in OfCall(ps, first, CallOf(ps, h)) : h <= k /\ (k # h => ps[k] = "args")
  BY <1>0, NamedHead
<1>2. h \in first..Len(ps)
  BY DEF Heads, CallsFrom
<1>3. CallOf(ps, h) \in Int
  BY <1>1, CallTyped
<1>4. \A k \in OfCall(ps, first, CallOf(ps, h)) : CallOf(ps, k) = CallOf(ps, h)
  BY DEF OfCall
<1>5. \A i \in Nat : i < h => CallOf(ps, i) < CallOf(ps, h)
  <2> SUFFICES ASSUME NEW i \in Nat, i < h PROVE CallOf(ps, i) < CallOf(ps, h)
    OBVIOUS
  <2>1. i <= h
    BY <1>1
  <2> QED BY <1>1, <2>1, CallOrder
<1>6. ASSUME NEW k \in D, ps[k] = "args" \/ ps[k] = "name"
      PROVE  CallOf(ps, k) < CallOf(ps, h)
  <2>1. k \in Nat
    BY DEF Behind
  <2>2. CASE k < first
    <3>1. k < h
      BY <1>1, <1>2, <2>1, <2>2
    <3> QED BY <1>5, <2>1, <3>1
  <2>3. CASE k \in OldPieces(ps, first)
    <3>1. k \in CallsFrom(ps, first) /\ ~Named(ps, first, CallOf(ps, k))
      BY <2>3 DEF OldPieces
    <3>2. PICK g \in CallsFrom(ps, first) :
            /\ CallOf(ps, g) = CallOf(ps, k)
            /\ g \in Heads(ps, first, Named(ps, first, CallOf(ps, k)))
      BY <1>0, <3>1, HeadOf
    <3>3. g \in Heads(ps, first, FALSE)
      BY <3>1, <3>2 DEF Heads
    <3>4. g = first /\ CallOf(ps, first) = CallOf(ps, first - 1) /\ first - 1 \in Nat
      BY <3>3, NamelessHead
    <3>5. first - 1 < h
      BY <1>1, <1>2
    <3>6. CallOf(ps, first - 1) < CallOf(ps, h)
      BY <1>5, <3>4, <3>5
    <3> QED BY <3>2, <3>4, <3>6
  <2>4. CASE \E i \in Nat : i < h /\ CallOf(ps, k) = CallOf(ps, i)
    BY <1>5, <2>4
  <2> QED BY <1>6, <2>2, <2>3, <2>4 DEF Behind
<1>7. Batch(ps, D, OfCall(ps, first, CallOf(ps, h)))
  BY DEF Batch, Behind, OfCall, CallsFrom
<1> QED BY <1>1, <1>3, <1>4, <1>6, <1>7 DEF NewCall

\* A new call, whatever part it comes in.
LEMMA NewCallNow ==
  ASSUME NEW ps, NEW first \in 1..Len(ps), Legal(ps, first), NEW h \in Heads(ps, first, TRUE),
         NEW D, Behind(ps, first, D, h), NEW s, Good(s, ps, D),
         NEW g, CallPart(g, ps, OfCall(ps, first, CallOf(ps, h)))
  PROVE  Good(Step(s, g), ps, D \cup OfCall(ps, first, CallOf(ps, h)))
<1>1. ps \in Seq(Sorts) /\ first \in Nat
  BY DEF Good
<1>2. PICK x : x = CallOf(ps, h)
  OBVIOUS
<1>3. PICK B : B = OfCall(ps, first, x)
  OBVIOUS
<1>4. NewCall(ps, D, B, h, x)
  BY <1>1, <1>2, <1>3, NewCallThere
<1>5. \A k \in B : h <= k
  BY <1>1, <1>2, <1>3, NamedHead
<1>6. CallPart(g, ps, B)
  BY <1>2, <1>3
<1>7. Good(Step(s, g), ps, D \cup B)
  BY <1>4, <1>5, <1>6, NewCallPart
<1> QED BY <1>2, <1>3, <1>7

\* The third stage: the calls that are new, in the order of their names.
LEMMA NewStage ==
  ASSUME NEW s, NEW ps, NEW first, Legal(ps, first), NEW d, IsDelta(d, ps, first),
         Good(s, ps, AfterTexts(ps, first))
  PROVE  Good(Run(s, Groups(d, TRUE)), ps, 1..Len(ps))
<1>1. ps \in Seq(Sorts) /\ first \in 1..Len(ps) /\ first \in Nat /\ d \in PartType
  BY DEF IsDelta
<1>2. PICK h \in Seq(Nat) : /\ Rising(h) /\ Range(h) = Heads(ps, first, TRUE)
                            /\ GroupsOf(Groups(d, TRUE), ps, first, h)
  BY GroupsAre
<1>3. PICK gs \in Seq(PartType) : gs = Groups(d, TRUE) /\ GroupsOf(gs, ps, first, h)
  BY <1>1, <1>2, GroupsTyped
<1>4. PICK n \in Nat : n = Len(gs) /\ DOMAIN gs = 1..n /\ DOMAIN h = 1..n
  <2>1. DOMAIN gs = DOMAIN h
    BY <1>3 DEF GroupsOf
  <2>2. DOMAIN gs = 1..Len(gs) /\ Len(gs) \in Nat
    OBVIOUS
  <2> QED BY <2>1, <2>2
<1>5. \A i \in 1..n : h[i] \in Heads(ps, first, TRUE) /\ h[i] \in Nat
  <2>1. \A i \in DOMAIN h : h[i] \in Range(h)
    BY DEF Range
  <2>2. \A i \in 1..n : h[i] \in Nat
    BY <1>4
  <2> QED BY <1>2, <1>4, <2>1, <2>2
<1>6. \A i, j \in 1..n : i < j => h[i] < h[j]
  BY <1>2, <1>4 DEF Rising
<1> DEFINE D(j) == AfterTexts(ps, first)
                     \cup {k \in NewPieces(ps, first) :
                             \E i \in 1..j : CallOf(ps, k) = CallOf(ps, h[i])}
           G == {j \in 0..n : Good(Run(s, SubSeq(gs, 1, j)), ps, D(j))}
<1>7. 0 \in G
  <2>1. SubSeq(gs, 1, 0) = << >>
    BY PrefixEnds
  <2>2. D(0) = AfterTexts(ps, first)
    OBVIOUS
  <2> HIDE DEF D
  <2>3. Run(s, << >>) = s
    BY RunNone
  <2>4. Good(Run(s, SubSeq(gs, 1, 0)), ps, D(0))
    BY <2>1, <2>2, <2>3
  <2> QED BY <2>4
<1>8. ASSUME NEW j \in 0..n, j < n, j \in G PROVE j + 1 \in G
  <2>1. PICK t : t = Run(s, SubSeq(gs, 1, j)) /\ Good(t, ps, D(j))
    BY <1>8
  <2>2. PICK p \in Heads(ps, first, TRUE) : p = h[j + 1] /\ j + 1 \in 1..n /\ p \in Nat
    <3>1. j + 1 \in 1..n
      BY <1>8
    <3> QED BY <1>5, <3>1
  <2>3. PICK g \in PartType : g = gs[j + 1] /\ CallPart(g, ps, OfCall(ps, first, CallOf(ps, p)))
    <3>1. j + 1 \in DOMAIN h /\ j + 1 \in DOMAIN gs
      BY <1>4, <2>2
    <3>2. CallPart(gs[j + 1], ps, OfCall(ps, first, CallOf(ps, h[j + 1])))
      BY <1>3, <3>1 DEF GroupsOf
    <3>3. gs[j + 1] \in PartType
      BY <3>1
    <3> QED BY <2>2, <3>2, <3>3
  <2>4. Run(s, SubSeq(gs, 1, j + 1)) = Step(t, g)
    <3>1. /\ SubSeq(gs, 1, j) \in Seq(PartType)
          /\ SubSeq(gs, 1, j + 1) = Append(SubSeq(gs, 1, j), gs[j + 1])
      BY <1>4, <1>8, PrefixNext
    <3>2. PICK b \in Seq(PartType) : b = SubSeq(gs, 1, j) /\ SubSeq(gs, 1, j + 1) = Append(b, g)
      BY <2>3, <3>1
    <3>3. Run(s, Append(b, g)) = Step(Run(s, b), g)
      BY RunNext
    <3> QED BY <2>1, <3>2, <3>3
  <2>5. Behind(ps, first, D(j), p)
    <3>1. ASSUME NEW k \in D(j), ps[k] = "args" \/ ps[k] = "name"
          PROVE  \/ k < first
                 \/ k \in OldPieces(ps, first)
                 \/ \E i \in Nat : i < p /\ CallOf(ps, k) = CallOf(ps, i)
      <4>1. CASE k \in AfterTexts(ps, first)
        <5>1. k \in 1..(first - 1) \/ k \in OldPieces(ps, first)
          BY <3>1, <4>1 DEF AfterTexts, AfterOld, SortFrom
        <5> QED BY <1>1, <5>1
      <4>2. CASE \E i \in 1..j : CallOf(ps, k) = CallOf(ps, h[i])
        <5>1. PICK i \in 1..j : CallOf(ps, k) = CallOf(ps, h[i])
          BY <4>2
        <5>2. i \in 1..n /\ i < j + 1
          OBVIOUS
        <5>3. h[i] < p /\ h[i] \in Nat
          BY <1>5, <1>6, <2>2, <5>2
        <5> QED BY <5>1, <5>3
      <4> QED BY <3>1, <4>1, <4>2
    <3>2. D(j) \subseteq 1..Len(ps)
      BY <2>1 DEF Good
    <3> HIDE DEF D
    <3> QED BY <3>1, <3>2 DEF Behind
  <2>6. D(j + 1) = D(j) \cup OfCall(ps, first, CallOf(ps, p))
    <3>1. OfCall(ps, first, CallOf(ps, p)) \subseteq NewPieces(ps, first)
      BY DEF OfCall, NewPieces, Heads
    <3>2. \A k \in NewPieces(ps, first) :
            CallOf(ps, k) = CallOf(ps, p) <=> k \in OfCall(ps, first, CallOf(ps, p))
      BY DEF OfCall, NewPieces
    <3>3. \A i : i \in 1..j + 1 <=> i \in 1..j \/ i = j + 1
      BY <1>8
    <3> QED BY <2>2, <3>1, <3>2, <3>3
  <2> HIDE DEF D
  <2>7. PICK E : E = D(j)
    OBVIOUS
  <2>8. Behind(ps, first, E, p) /\ Good(t, ps, E)
    BY <2>1, <2>5, <2>7
  <2>9. Good(Step(t, g), ps, E \cup OfCall(ps, first, CallOf(ps, p)))
    BY <1>1, <2>3, <2>8, NewCallNow
  <2>10. Good(Run(s, SubSeq(gs, 1, j + 1)), ps, D(j + 1))
    BY <2>4, <2>6, <2>7, <2>9
  <2> QED BY <1>8, <2>10
<1>9. Good(Run(s, gs), ps, D(n))
  <2>1. \A m \in 0..n : m \in G
    <3> HIDE DEF G
    <3> QED BY <1>7, <1>8, UpTo
  <2>2. n \in G
    BY <2>1
  <2>3. SubSeq(gs, 1, n) = gs
    BY <1>4, PrefixEnds
  <2> HIDE DEF D
  <2> QED BY <2>2, <2>3
<1>10. D(n) = 1..Len(ps)
  <2>1. D(n) \subseteq 1..Len(ps)
    BY <1>9 DEF Good
  <2>2. ASSUME NEW k \in 1..Len(ps) PROVE k \in D(n)
    <3>1. CASE k < first
      <4>1. k \in 1..(first - 1)
        BY <1>1, <3>1
      <4> QED BY <4>1 DEF AfterTexts, AfterOld
    <3>2. CASE ~(k < first) /\ ps[k] \in {"reasoning", "content"}
      <4>1. k \in first..Len(ps)
        BY <1>1, <3>2
      <4> QED BY <3>2, <4>1 DEF AfterTexts, SortFrom
    <3>3. CASE ~(k < first) /\ ps[k] \in {"name", "args"}
      <4>1. k \in CallsFrom(ps, first)
        BY <1>1, <3>3 DEF CallsFrom
      <4>2. CASE k \in OldPieces(ps, first)
        BY <4>2 DEF AfterTexts, AfterOld
      <4>3. CASE k \notin OldPieces(ps, first)
        <5>1. k \in NewPieces(ps, first) /\ Named(ps, first, CallOf(ps, k))
          BY <4>1, <4>3 DEF OldPieces, NewPieces
        <5>2. PICK g \in CallsFrom(ps, first) :
                /\ CallOf(ps, g) = CallOf(ps, k)
                /\ g \in Heads(ps, first, Named(ps, first, CallOf(ps, k)))
          BY <1>1, <4>1, HeadOf
        <5>3. g \in Heads(ps, first, TRUE)
          BY <5>1, <5>2 DEF Heads
        <5>4. PICK i \in 1..n : h[i] = g
          BY <1>2, <1>4, <5>3 DEF Range
        <5> QED BY <5>1, <5>2, <5>4
      <4> QED BY <4>2, <4>3
    <3>4. ps[k] \in {"reasoning", "content", "name", "args"}
      BY <1>1 DEF Sorts
    <3> QED BY <3>1, <3>2, <3>3, <3>4
  <2> QED BY <2>1, <2>2
<1> QED BY <1>3, <1>9, <1>10

\* A delta that is not split has one field, and entries of one call.
LEMMA OneCall ==
  ASSUME NEW d, NEW ps, NEW first, IsDelta(d, ps, first), d.tools # << >>,
         Cardinality(Indices(d)) <= 1
  PROVE  \E h \in CallsFrom(ps, first) :
           /\ h \in Heads(ps, first, Named(ps, first, CallOf(ps, h)))
           /\ CallsFrom(ps, first) = OfCall(ps, first, CallOf(ps, h))
           /\ CallPart(d, ps, OfCall(ps, first, CallOf(ps, h)))
<1>1. PICK a \in Seq(Nat), m \in Nat :
        /\ Range(a) = CallsFrom(ps, first) /\ a = Ascending(CallsFrom(ps, first), Len(ps))
        /\ m = Len(a) /\ DOMAIN a = 1..m /\ DOMAIN d.tools = 1..m
        /\ \A i \in 1..m : /\ d.tools[i].index = CallOf(ps, a[i])
                           /\ a[i] \in CallsFrom(ps, first)
  BY ToolsAre
<1>2. /\ d \in PartType /\ first \in Nat
      /\ d.tools = Entries(ps, Ascending(CallsFrom(ps, first), Len(ps)))
  BY DEF IsDelta
<1>3. 1 \in 1..m
  <2>1. d.tools \in Seq(ToolType)
    BY <1>2 DEF PartType
  <2>2. DOMAIN d.tools # {}
    <3>1. \A t \in Seq(ToolType) : t # << >> => DOMAIN t # {}
      <4>1. \A t \in Seq(ToolType) : DOMAIN t = {} => t = << >>
        OBVIOUS
      <4> QED BY <4>1
    <3> QED BY <2>1, <3>1
  <2> QED BY <1>1, <2>2
<1>4. PICK k \in CallsFrom(ps, first) : k = a[1]
  BY <1>1, <1>3
<1>5. PICK h \in CallsFrom(ps, first) :
        /\ CallOf(ps, h) = CallOf(ps, k)
        /\ h \in Heads(ps, first, Named(ps, first, CallOf(ps, k)))
  BY <1>2, HeadOf
<1>6. Indices(d) = {d.tools[i].index : i \in 1..m} /\ IsFiniteSet(Indices(d))
  <2>1. Indices(d) = {d.tools[i].index : i \in 1..m}
    BY <1>1 DEF Indices
  <2>2. IsFiniteSet(1..m)
    BY FS_Interval
  <2>3. PICK f : f = [i \in 1..m |-> d.tools[i].index]
    OBVIOUS
  <2>4. PICK I : I = Indices(d) /\ I = {f[i] : i \in 1..m}
    BY <2>1, <2>3
  <2>5. IsFiniteSet(I)
    <3>1. f \in Surjection(1..m, I)
      BY <2>3, <2>4 DEF Surjection
    <3> QED BY <2>2, <3>1, FS_Surjection
  <2> QED BY <2>1, <2>4, <2>5
<1>7. \A i \in 1..m : CallOf(ps, a[i]) = CallOf(ps, h)
  <2> SUFFICES ASSUME NEW i \in 1..m, CallOf(ps, a[i]) # CallOf(ps, h) PROVE FALSE
    OBVIOUS
  <2>1. PICK x, y : x = CallOf(ps, a[i]) /\ y = CallOf(ps, h) /\ x # y
    OBVIOUS
  <2>2. x \in Indices(d)
    BY <1>1, <1>6, <2>1
  <2>3. y \in Indices(d)
    <3>1. d.tools[1].index = y
      BY <1>1, <1>3, <1>4, <1>5, <2>1
    <3> QED BY <1>3, <1>6, <3>1
  <2>4. {x, y} \subseteq Indices(d)
    BY <2>2, <2>3
  <2>5. Cardinality({x, y}) = 2
    <3>1. PICK T : T = {x} /\ IsFiniteSet(T) /\ Cardinality(T) = 1
      BY FS_Singleton
    <3>2. PICK U : U = T \cup {y}
      OBVIOUS
    <3>3. Cardinality(U) = Cardinality(T) + 1
      <4>1. y \notin T
        BY <2>1, <3>1
      <4> QED BY <3>1, <3>2, <4>1, FS_AddElement
    <3>4. Cardinality(U) = 2
      BY <3>1, <3>3
    <3>5. U = {x, y}
      BY <3>1, <3>2
    <3> QED BY <3>4, <3>5
  <2>6. Cardinality({x, y}) <= Cardinality(Indices(d))
    BY <1>6, <2>4, FS_Subset
  <2>7. Cardinality(Indices(d)) \in Nat
    BY <1>6, FS_CardinalityType
  <2> QED BY <2>5, <2>6, <2>7
<1>8. CallsFrom(ps, first) = OfCall(ps, first, CallOf(ps, h))
  <2>1. \A c \in CallsFrom(ps, first) : CallOf(ps, c) = CallOf(ps, h)
    <3> SUFFICES ASSUME NEW c \in CallsFrom(ps, first) PROVE CallOf(ps, c) = CallOf(ps, h)
      OBVIOUS
    <3>1. PICK i \in 1..m : c = a[i]
      BY <1>1 DEF Range
    <3> QED BY <1>7, <3>1
  <2> QED BY <2>1 DEF OfCall
<1>9. CallPart(d, ps, OfCall(ps, first, CallOf(ps, h)))
  BY <1>2, <1>8 DEF CallPart
<1> QED BY <1>5, <1>8, <1>9

\* One step does for a delta that is not split.
LEMMA WholeStep ==
  ASSUME NEW s, NEW ps, NEW first, ReadyFor(s, ps, first), NEW d, IsDelta(d, ps, first),
         Fields(d) <= 1, Cardinality(Indices(d)) <= 1
  PROVE  Good(Step(s, d), ps, 1..Len(ps))
<1>1. /\ d \in PartType /\ ps \in Seq(Sorts) /\ first \in 1..Len(ps) /\ first \in Nat
      /\ d.tools = Entries(ps, Ascending(CallsFrom(ps, first), Len(ps)))
      /\ d.reasoning.is => /\ ~hidden
                           /\ d.reasoning.text = Ascending(SortFrom(ps, first, "reasoning"), Len(ps))
      /\ ~d.reasoning.is => hidden \/ SortFrom(ps, first, "reasoning") = {}
      /\ d.content.text = Ascending(SortFrom(ps, first, "content"), Len(ps))
      /\ ~d.content.is => SortFrom(ps, first, "content") = {}
  BY DEF IsDelta
<1>2. Good(s, ps, 1..(first - 1)) /\ Legal(ps, first)
  BY DEF ReadyFor
<1>3. PICK R, K, C : /\ R = SortFrom(ps, first, "reasoning")
                     /\ K = SortFrom(ps, first, "content") /\ C = CallsFrom(ps, first)
  OBVIOUS
<1>4. /\ R \subseteq 1..Len(ps) /\ K \subseteq 1..Len(ps) /\ C \subseteq 1..Len(ps)
      /\ \A k \in R : ps[k] = "reasoning" /\ k \in first..Len(ps)
      /\ \A k \in K : ps[k] = "content" /\ k \in first..Len(ps)
  BY <1>1, <1>3 DEF SortFrom, CallsFrom
<1>5. 1..Len(ps) = (((1..(first - 1)) \cup C) \cup R) \cup K
  <2>1. ASSUME NEW k \in 1..Len(ps)
        PROVE  k \in 1..(first - 1) \/ k \in C \/ k \in R \/ k \in K
    <3>1. k \in 1..(first - 1) \/ k \in first..Len(ps)
      BY <1>1
    <3>2. ps[k] \in {"reasoning", "content", "name", "args"}
      BY <1>1 DEF Sorts
    <3> QED BY <1>3, <3>1, <3>2 DEF SortFrom, CallsFrom
  <2>2. 1..(first - 1) \subseteq 1..Len(ps)
    BY <1>1
  <2> QED BY <1>4, <2>1, <2>2
<1>6. Fields(d) = (IF d.reasoning.is THEN 1 ELSE 0) + (IF d.content.is THEN 1 ELSE 0)
                    + (IF d.tools # << >> THEN 1 ELSE 0)
  BY <1>1, TextsSplit DEF Fields
<1>7. CASE d.tools # << >>
  <2>1. ~d.reasoning.is /\ ~d.content.is
    BY <1>6, <1>7
  <2>2. K = {} /\ Unheard(ps, R)
    BY <1>1, <1>3, <1>4, <2>1 DEF Unheard
  <2>3. PICK h \in C :
          /\ h \in Heads(ps, first, Named(ps, first, CallOf(ps, h)))
          /\ C = OfCall(ps, first, CallOf(ps, h)) /\ CallPart(d, ps, C)
    <3>1. PICK h \in CallsFrom(ps, first) :
            /\ h \in Heads(ps, first, Named(ps, first, CallOf(ps, h)))
            /\ CallsFrom(ps, first) = OfCall(ps, first, CallOf(ps, h))
            /\ CallPart(d, ps, OfCall(ps, first, CallOf(ps, h)))
      BY <1>7, OneCall
    <3> QED BY <1>3, <3>1
  <2>4. Good(Step(s, d), ps, (1..(first - 1)) \cup C)
    <3>1. CASE Named(ps, first, CallOf(ps, h))
      <4>1. h \in Heads(ps, first, TRUE)
        BY <2>3, <3>1 DEF Heads
      <4>2. Behind(ps, first, 1..(first - 1), h)
        <5>1. 1..(first - 1) \subseteq 1..Len(ps) /\ \A k \in 1..(first - 1) : k < first
          BY <1>1
        <5> QED BY <5>1 DEF Behind
      <4>3. CallPart(d, ps, OfCall(ps, first, CallOf(ps, h)))
        BY <2>3
      <4>4. Good(Step(s, d), ps, (1..(first - 1)) \cup OfCall(ps, first, CallOf(ps, h)))
        BY <1>1, <1>2, <4>1, <4>2, <4>3, NewCallNow
      <4> QED BY <2>3, <4>4
    <3>2. CASE ~Named(ps, first, CallOf(ps, h))
      <4>1. OldPieces(ps, first) = C
        BY <1>3, <2>3, <3>2 DEF OldPieces, OfCall
      <4>2. s.proc.state = "call" /\ OldCall(ps, 1..(first - 1), C, s.proc.name)
        <5>1. OldPieces(ps, first) # {}
          BY <2>3, <4>1
        <5>2. /\ s.proc.state = "call"
              /\ OldCall(ps, 1..(first - 1), OldPieces(ps, first), s.proc.name)
          BY <5>1, OldPiecesAre
        <5> QED BY <4>1, <5>2
      <4>3. C # {}
        BY <2>3
      <4> QED BY <1>2, <1>4, <2>3, <4>2, <4>3, OldCallPart
    <3> QED BY <3>1, <3>2
  <2>5. Good(Step(s, d), ps, ((1..(first - 1)) \cup C) \cup R)
    BY <1>4, <2>2, <2>4, NoPart
  <2>6. 1..Len(ps) = ((1..(first - 1)) \cup C) \cup R
    BY <1>5, <2>2
  <2> QED BY <2>5, <2>6
<1>8. CASE d.tools = << >>
  <2>1. C = {}
    <3>1. PICK n \in Nat : n = Len(ps)
      BY <1>1
    <3>2. PICK a \in Seq(Nat) : a = Ascending(C, n)
      BY <3>1, AscendingIs
    <3>3. [i \in DOMAIN a |-> Entry(ps, a[i])] = << >>
      BY <1>1, <1>3, <1>8, <3>1, <3>2 DEF Entries
    <3>4. DOMAIN a = {}
      BY <3>3
    <3>5. a = << >>
      BY <3>4
    <3> QED BY <1>4, <3>1, <3>2, <3>5, AscendingNone
  <2>2. (1..(first - 1)) \cup C = 1..(first - 1)
    BY <2>1
  <2>3. CASE d.reasoning.is
    <3>1. ~d.content.is
      BY <1>6, <2>3
    <3>2. K = {}
      BY <1>1, <1>3, <3>1
    <3>3. \A k \in 1..(first - 1), b \in R : ps[k] = "reasoning" => k < b
      BY <1>1, <1>4
    <3>4. ~hidden /\ d.reasoning.text = Ascending(R, Len(ps)) /\ \A k \in R : ps[k] = "reasoning"
      BY <1>1, <1>3, <1>4, <2>3
    <3>5. Good(Step(s, d), ps, (1..(first - 1)) \cup R)
      BY <1>1, <1>2, <1>4, <1>8, <2>3, <3>3, <3>4, ReasoningPart
    <3>6. 1..Len(ps) = (1..(first - 1)) \cup R
      BY <1>5, <2>2, <3>2
    <3> QED BY <3>5, <3>6
  <2>4. CASE ~d.reasoning.is
    <3>1. \A k \in 1..(first - 1), b \in K : ps[k] = "content" => k < b
      BY <1>1, <1>4
    <3>2. d.content.text = Ascending(K, Len(ps)) /\ \A k \in K : ps[k] = "content"
      BY <1>1, <1>3, <1>4
    <3>3. Good(Step(s, d), ps, (1..(first - 1)) \cup K)
      BY <1>1, <1>2, <1>4, <1>8, <2>4, <3>1, <3>2, ContentPart
    <3>4. Unheard(ps, R)
      BY <1>1, <1>3, <1>4, <2>4 DEF Unheard
    <3>5. Good(Step(s, d), ps, ((1..(first - 1)) \cup K) \cup R)
      BY <1>4, <3>3, <3>4, NoPart
    <3>6. 1..Len(ps) = ((1..(first - 1)) \cup K) \cup R
      BY <1>5, <2>2
    <3> QED BY <3>5, <3>6
  <2> QED BY <2>3, <2>4
<1> QED BY <1>7, <1>8

\* Whatever is merged into a delta, its parts tell all of it.
LEMMA DeltaTold ==
  ASSUME NEW s, NEW ps, NEW first, ReadyFor(s, ps, first), NEW d, IsDelta(d, ps, first)
  PROVE  Good(Run(s, SplitDelta(d)), ps, 1..Len(ps))
<1>1. d \in PartType /\ Legal(ps, first)
  BY DEF IsDelta, ReadyFor
<1>2. CASE Fields(d) <= 1 /\ Cardinality(Indices(d)) <= 1
  <2>1. SplitDelta(d) = <<d>>
    BY <1>2 DEF SplitDelta
  <2>2. Run(s, <<d>>) = Step(s, d)
    BY <1>1, RunOne
  <2>3. Good(Step(s, d), ps, 1..Len(ps))
    BY <1>2, WholeStep
  <2> QED BY <2>1, <2>2, <2>3
<1>3. CASE ~(Fields(d) <= 1 /\ Cardinality(Indices(d)) <= 1)
  <2>1. PICK a \in Seq(PartType), b \in Seq(PartType), c \in Seq(PartType), e \in Seq(PartType) :
          /\ a = Groups(d, FALSE) /\ b = Texts(d) /\ c = Groups(d, TRUE) /\ e = a \o b
    <3>1. PICK a \in Seq(PartType), b \in Seq(PartType), c \in Seq(PartType) :
            a = Groups(d, FALSE) /\ b = Texts(d) /\ c = Groups(d, TRUE)
      BY <1>1, GroupsTyped, TextsTyped
    <3>2. a \o b \in Seq(PartType)
      BY ConcatProperties
    <3> QED BY <3>1, <3>2
  <2>2. SplitDelta(d) = e \o c
    BY <1>3, <2>1 DEF SplitDelta
  <2>3. Run(s, e \o c) = Run(Run(s, e), c)
    BY RunConcat
  <2>4. Run(s, a \o b) = Run(Run(s, a), b)
    BY RunConcat
  <2>5. PICK m : m = Run(s, a) /\ Good(m, ps, AfterOld(ps, first))
    BY <2>1, OldStage DEF AfterOld
  <2>6. PICK t : t = Run(m, b) /\ Good(t, ps, AfterTexts(ps, first))
    BY <2>1, <2>5, TextStage
  <2>7. Good(Run(t, c), ps, 1..Len(ps))
    BY <1>1, <2>1, <2>6, NewStage
  <2> QED BY <2>1, <2>2, <2>3, <2>4, <2>5, <2>6, <2>7
<1> QED BY <1>2, <1>3

-----------------------------------------------------------------------------
\* All that was generated is in the items.

LostInv == phase # "rejected" /\ Good(Current, pieces, 1..Len(pieces))

\* What has been done stays done when more is generated.
LEMMA MorePieces ==
  ASSUME NEW s, NEW ps, Good(s, ps, 1..Len(ps)), NEW qs \in Seq(Sorts), Len(ps) <= Len(qs),
         \A k \in 1..Len(ps) : qs[k] = ps[k]
  PROVE  Good(s, qs, 1..Len(ps))
<1>1. PICK n \in Nat, m \in Nat :
        n = Len(ps) /\ m = Len(qs) /\ n <= m /\ \A k \in 1..n : qs[k] = ps[k]
  <2>1. Len(ps) \in Nat /\ Len(qs) \in Nat
    BY DEF Good
  <2> QED BY <2>1
<1>2. \A k \in 1..n : CallOf(qs, k) = CallOf(ps, k)
  <2>1. ASSUME NEW k \in 1..n PROVE CallOf(qs, k) = CallOf(ps, k)
    <3>1. k \in Nat /\ \A j \in 1..k : qs[j] = ps[j]
      BY <1>1
    <3> QED BY <3>1, CallAlike
  <2> QED BY <2>1
<1>3. \A sort : OfSort(qs, 1..n, sort) = OfSort(ps, 1..n, sort)
  <2>1. ASSUME NEW sort PROVE OfSort(qs, 1..n, sort) = OfSort(ps, 1..n, sort)
    <3>1. PICK a, b : a = {k \in 1..n : qs[k] = sort} /\ b = {k \in 1..n : ps[k] = sort}
      OBVIOUS
    <3>2. a \cap 1..m = b \cap 1..n
      BY <1>1, <3>1
    <3>3. Ascending(a, m) = Ascending(b, n)
      BY <3>2, AscendingSame
    <3> QED BY <1>1, <3>1, <3>3 DEF OfSort
  <2> QED BY <2>1
<1>4. \A x : ArgsOf(qs, 1..n, x) = ArgsOf(ps, 1..n, x)
  <2>1. ASSUME NEW x PROVE ArgsOf(qs, 1..n, x) = ArgsOf(ps, 1..n, x)
    <3>1. PICK a, b : /\ a = {k \in 1..n : qs[k] = "args" /\ CallOf(qs, k) = x}
                      /\ b = {k \in 1..n : ps[k] = "args" /\ CallOf(ps, k) = x}
      OBVIOUS
    <3>2. a \cap 1..m = b \cap 1..n
      BY <1>1, <1>2, <3>1
    <3>3. Ascending(a, m) = Ascending(b, n)
      BY <3>2, AscendingSame
    <3> QED BY <1>1, <3>1, <3>3 DEF ArgsOf
  <2> QED BY <2>1
<1>5. PICK L : L = Looks(s) /\ TextsRight(L, ps, 1..n) /\ CallsRight(L, ps, 1..n)
  BY <1>1 DEF Good
<1>6. TextsRight(L, qs, 1..n)
  BY <1>3, <1>5 DEF TextsRight
<1>7. CallsRight(L, qs, 1..n)
  BY <1>1, <1>2, <1>4, <1>5 DEF CallsRight
<1>8. s.proc.state = "call" => s.proc.call = CallOf(qs, s.proc.name)
  <2>1. s.proc.state = "call" => s.proc.name \in 1..n
    BY <1>1, LastName
  <2> QED BY <1>2, <2>1 DEF Good
<1>9. RunInv(s) /\ ~s.rejected /\ 1..n \subseteq 1..m
  BY <1>1 DEF Good
<1> QED BY <1>1, <1>5, <1>6, <1>7, <1>8, <1>9 DEF Good

\* At first nothing was generated and there is no item.
LEMMA LostStarts == ItemsInit => LostInv
<1> SUFFICES ASSUME ItemsInit PROVE LostInv
  OBVIOUS
<1>1. ToldInv
  BY ToldStarts
<1>2. /\ Current.proc.state = None /\ Current.items = << >> /\ ~Current.rejected
      /\ pieces = << >> /\ Len(pieces) = 0 /\ phase = "streaming"
  BY DEF ItemsInit, Current, Fresh
<1>3. Looks(Current) = << >>
  <2>1. DOMAIN << >> = {} /\ << >> = [i \in {} |-> LookOf(Current.items[i])]
    OBVIOUS
  <2> QED BY <1>2, <2>1 DEF Looks, Kept
<1>4. \A state : TextIn(<< >>, state) = << >>
  <2>1. ASSUME NEW state PROVE TextIn(<< >>, state) = << >>
    <3>1. [i \in DOMAIN << >> |-> IF (<< >>)[i].state = state THEN (<< >>)[i].text ELSE << >>] = << >>
      OBVIOUS
    <3> QED BY <3>1, FlattenNone DEF TextIn
  <2> QED BY <2>1
<1>5. \A sort : OfSort(<< >>, 1..0, sort) = << >>
  <2>1. Len(<< >>) = 0 /\ 0 \in Nat
    OBVIOUS
  <2>2. \A set : Ascending(set, 0) = << >>
    BY <2>1, AscendingNext
  <2> QED BY <2>1, <2>2 DEF OfSort
<1>6. TextsRight(<< >>, << >>, 1..0)
  BY <1>4, <1>5 DEF TextsRight
<1>7. CallsRight(<< >>, << >>, 1..0)
  BY DEF CallsRight
<1>8. None # "call"
  BY DEF None
<1> QED BY <1>1, <1>2, <1>3, <1>6, <1>7, <1>8 DEF LostInv, Good, ToldInv

\* The stream stands at a run that has all of it.
LEMMA LostPart ==
  ASSUME NEW s, NEW ps, Good(s, ps, 1..Len(ps)), pieces' = ps, hidden' = hidden,
         proc' = s.proc, items' = s.items, trace' = s.trace, phase' # "rejected"
  PROVE  LostInv'
<1>1. Current' = s
  <2>1. s \in RunType /\ s.rejected = FALSE
    BY DEF Good, RunInv, RunType
  <2>2. s = [proc |-> s.proc, items |-> s.items, trace |-> s.trace, rejected |-> s.rejected]
    BY <2>1 DEF RunType
  <2> QED BY <2>1, <2>2 DEF Current
<1>2. PICK n, L : n = Len(ps) /\ L = Looks(s)
  OBVIOUS
<1>3. /\ RunInv(s) /\ ~s.rejected /\ ps \in Seq(Sorts) /\ 1..n \subseteq 1..Len(ps)
      /\ TextsRight(L, ps, 1..n) /\ CallsRight(L, ps, 1..n)
      /\ s.proc.state = "call" => s.proc.call = CallOf(ps, s.proc.name)
  BY <1>2 DEF Good
<1>4. Looks(Current)' = L /\ Len(pieces)' = n
  BY <1>1, <1>2
<1>5. TextsRight(Looks(Current), pieces, 1..Len(pieces))'
  BY <1>3, <1>4 DEF TextsRight
<1>6. CallsRight(Looks(Current), pieces, 1..Len(pieces))'
  BY <1>3, <1>4
<1>7. RunInv(Current)'
  BY <1>1, <1>3
<1>8. Good(Current, pieces, 1..Len(pieces))'
  BY <1>1, <1>3, <1>4, <1>5, <1>6, <1>7 DEF Good
<1> QED BY <1>8 DEF LostInv

\* A batch of pieces.
LEMMA LostParse ==
  ASSUME ToldInv, KeptInv, LostInv,
         NEW n \in 1..MaxBatch, NEW blank \in BOOLEAN, NEW aligned \in BOOLEAN,
         Parse(n, blank, aligned)
  PROVE  LostInv'
<1>1. PICK more, ps : more \in [1..n -> Sorts] /\ ps = pieces \o more /\ pieces' = ps
  BY DEF Parse
<1> DEFINE first == Len(pieces) + 1
<1>2. /\ pieces \in Seq(Sorts) /\ Len(pieces) \in Nat /\ Good(Current, pieces, 1..Len(pieces))
      /\ Follows(pieces, "args") => Current.proc.state = "call"
  BY DEF ToldInv, KeptInv, LostInv, Parse, Current
<1>3. more \in Seq(Sorts) /\ Len(more) = n /\ n \in Nat /\ n >= 1
  BY <1>1
<1>4. /\ ps \in Seq(Sorts) /\ Len(pieces) <= Len(ps) /\ first \in 1..Len(ps)
      /\ first - 1 = Len(pieces) /\ SubSeq(ps, 1, first - 1) = pieces
      /\ \A k \in 1..Len(pieces) : ps[k] = pieces[k]
  <2>1. ps \in Seq(Sorts) /\ \A k \in 1..Len(pieces) : ps[k] = pieces[k]
    BY <1>1, <1>2, <1>3, ConcatProperties
  <2>2. Len(ps) = Len(pieces) + n
    <3>1. Len(pieces \o more) = Len(pieces) + Len(more)
      BY <1>2, <1>3, ConcatProperties
    <3> QED BY <1>1, <1>3, <3>1
  <2>3. Len(pieces) <= Len(ps) /\ first \in 1..Len(ps) /\ first - 1 = Len(pieces)
    BY <1>2, <1>3, <2>2
  <2>4. SubSeq(pieces \o more, 1, Len(pieces)) = pieces
    BY <1>2, <1>3
  <2> QED BY <1>1, <2>1, <2>3, <2>4
<1>5. PICK d : d = Delta(ps, first, blank, aligned)
  OBVIOUS
<1>6. PICK s : /\ s = Run(Current, SplitDelta(d))
               /\ proc' = s.proc /\ items' = s.items /\ trace' = s.trace /\ hidden' = hidden
               /\ phase' = IF s.rejected THEN "rejected" ELSE "streaming"
               /\ Legal(ps, first)
  BY <1>1, <1>5 DEF Parse, Processed, Current, Legal
<1> HIDE DEF first
<1>7. ReadyFor(Current, ps, first)
  <2>1. Good(Current, ps, 1..Len(pieces))
    BY <1>2, <1>4, MorePieces
  <2> QED BY <1>2, <1>4, <1>6, <2>1 DEF ReadyFor
<1>8. Good(s, ps, 1..Len(ps))
  <2>1. IsDelta(d, ps, first)
    BY <1>4, <1>5, DeltaIs
  <2> QED BY <1>6, <1>7, <2>1, DeltaTold
<1>9. phase' # "rejected"
  BY <1>6, <1>8 DEF Good
<1> QED BY <1>1, <1>6, <1>8, <1>9, LostPart

\* The end of the stream.
LEMMA LostEnd ==
  ASSUME LostInv, NEW truncated \in BOOLEAN, EndStream(truncated)
  PROVE  LostInv'
<1>1. PICK b, s, c :
        /\ b = [proc |-> proc, items |-> items, trace |-> trace]
        /\ s = CloseCurrent(b, truncated) /\ c = CloseCurrent(Current, truncated)
  OBVIOUS
<1>2. /\ proc' = s.proc /\ items' = s.items /\ trace' = s.trace
      /\ pieces' = pieces /\ hidden' = hidden /\ phase' # "rejected"
  BY <1>1 DEF EndStream
<1>3. s.proc = c.proc /\ s.items = c.items /\ s.trace = c.trace
  BY <1>1 DEF CloseCurrent, Current
<1>4. Good(Current, pieces, 1..Len(pieces)) /\ RunInv(Current) /\ Current \in RunType
  BY DEF LostInv, Good, RunInv
<1>5. RunInv(c) /\ Looks(c) = Looks(Current) /\ c.proc.state = None /\ ~c.rejected
  <2>1. RunInv(c)
    BY <1>1, <1>4, CloseKeeps
  <2>2. Looks(c) = Looks(Current) /\ c.proc.state = None /\ c.rejected = Current.rejected
    BY <1>1, <1>4, CloseLooks
  <2> QED BY <1>4, <2>1, <2>2 DEF Good
<1>6. Good(c, pieces, 1..Len(pieces))
  BY <1>4, <1>5 DEF Good, None
<1> QED BY <1>2, <1>3, <1>6, LostPart

\* What stands is what it looks like.
LEMMA StandingIs ==
  ASSUME RunInv(Current)
  PROVE  /\ DOMAIN Standing = DOMAIN Looks(Current)
         /\ \A i \in DOMAIN Standing :
              /\ Standing[i].state = Looks(Current)[i].state
              /\ Standing[i].name = Looks(Current)[i].name
              /\ Standing[i].text = Looks(Current)[i].text
<1>1. /\ items \in Seq(ItemType) /\ Current.items = items /\ Current.proc = proc
      /\ Current \in RunType
  BY DEF RunInv, RunType, Current
<1>2. PICK m \in Nat : m = Len(items) /\ DOMAIN items = 1..m
  BY <1>1
<1>3. PICK K \in Seq(LookType) : /\ K = Kept(Current) /\ Len(K) = m /\ DOMAIN K = 1..m
                                 /\ \A i \in 1..m : K[i] = LookOf(items[i])
  <2>1. Kept(Current) \in Seq(LookType)
    BY <1>1, LooksTyped
  <2>2. /\ DOMAIN Kept(Current) = 1..m
        /\ \A i \in 1..m : Kept(Current)[i] = LookOf(items[i])
    BY <1>1, <1>2 DEF Kept
  <2>3. Len(Kept(Current)) = m
    BY <1>2, <2>1, <2>2
  <2> QED BY <2>1, <2>2, <2>3
<1>4. CASE proc.state = None
  <2>1. Standing = items
    <3>1. items \o << >> = items
      BY <1>1
    <3> QED BY <1>4, <3>1 DEF Standing
  <2>2. Looks(Current) = K
    BY <1>1, <1>3, <1>4 DEF Looks
  <2> QED BY <1>2, <1>3, <2>1, <2>2 DEF LookOf
<1>5. CASE proc.state # None
  <2>1. PICK it : /\ Standing = items \o <<it>>
                  /\ it.state = proc.state /\ it.name = proc.name /\ it.text = proc.text
    <3> DEFINE e == [id |-> proc.opened, state |-> proc.state, name |-> proc.name,
                     text |-> proc.text, logs |-> proc.logs, status |-> "in_progress"]
    <3>1. Standing = items \o <<e>>
      BY <1>5 DEF Standing
    <3>2. e.state = proc.state /\ e.name = proc.name /\ e.text = proc.text
      OBVIOUS
    <3> HIDE DEF e
    <3> QED BY <3>1, <3>2
  <2>2. PICK e : e = LookOf(proc) /\ Looks(Current) = Append(K, e)
    BY <1>1, <1>3, <1>5 DEF Looks
  <2>3. /\ DOMAIN (items \o <<it>>) = 1..m + 1 /\ (items \o <<it>>)[m + 1] = it
        /\ \A i \in 1..m : (items \o <<it>>)[i] = items[i]
    BY <1>1, <1>2
  <2>4. /\ DOMAIN Append(K, e) = 1..m + 1 /\ Append(K, e)[m + 1] = e
        /\ \A i \in 1..m : Append(K, e)[i] = K[i]
    BY <1>3
  <2>5. \A i \in 1..m + 1 : i \in 1..m \/ i = m + 1
    OBVIOUS
  <2>6. \A i \in 1..m + 1 : /\ (items \o <<it>>)[i].state = Append(K, e)[i].state
                            /\ (items \o <<it>>)[i].name = Append(K, e)[i].name
                            /\ (items \o <<it>>)[i].text = Append(K, e)[i].text
    <3>1. \A i \in 1..m : /\ K[i].state = items[i].state /\ K[i].name = items[i].name
                          /\ K[i].text = items[i].text
      BY <1>3 DEF LookOf
    <3>2. e.state = it.state /\ e.name = it.name /\ e.text = it.text
      BY <2>1, <2>2 DEF LookOf
    <3> QED BY <2>3, <2>4, <2>5, <3>1, <3>2
  <2> QED BY <2>1, <2>2, <2>3, <2>4, <2>6
<1> QED BY <1>4, <1>5

\* Then nothing is lost (split_delta, emit_delta).
LEMMA LostNothing == LostInv => NothingLost
<1> SUFFICES ASSUME LostInv PROVE NothingLost
  OBVIOUS
<1>1. PICK L, n :
        /\ n \in Nat /\ L = Looks(Current) /\ n = Len(pieces) /\ DOMAIN pieces = 1..n
        /\ TextsRight(L, pieces, 1..n) /\ CallsRight(L, pieces, 1..n)
  BY DEF LostInv, Good
<1>2. /\ DOMAIN Standing = DOMAIN L
      /\ \A i \in DOMAIN L : /\ Standing[i].state = L[i].state /\ Standing[i].name = L[i].name
                             /\ Standing[i].text = L[i].text
  BY <1>1, StandingIs DEF LostInv, Good
<1>3. \A state : TextOf(state) = TextIn(L, state)
  <2>1. ASSUME NEW state PROVE TextOf(state) = TextIn(L, state)
    <3>1. [i \in DOMAIN Standing |-> IF Standing[i].state = state THEN Standing[i].text ELSE << >>]
            = [i \in DOMAIN L |-> IF L[i].state = state THEN L[i].text ELSE << >>]
      BY <1>2
    <3> QED BY <3>1 DEF TextOf, TextIn
  <2> QED BY <2>1
<1>4. \A sort : Places(pieces, 1, {sort}) = OfSort(pieces, 1..n, sort)
  <2>1. \A sort : {i \in 1..n : pieces[i] \in {sort}} = {i \in 1..n : pieces[i] = sort}
    OBVIOUS
  <2> QED BY <1>1, <2>1 DEF Places, OfSort
<1>5. /\ TextOf("content") = Places(pieces, 1, {"content"})
      /\ TextOf("reasoning") = IF hidden THEN << >> ELSE Places(pieces, 1, {"reasoning"})
  BY <1>1, <1>3, <1>4 DEF TextsRight
<1>6. \A i : i \in Calls <=> i \in DOMAIN L /\ L[i].state = "call"
  BY <1>2 DEF Calls
<1>7. {Standing[i].name : i \in Calls} = {k \in DOMAIN pieces : pieces[k] = "name"}
  <2>1. \A k : (\E i \in Calls : Standing[i].name = k) <=> k \in 1..n /\ pieces[k] = "name"
    BY <1>1, <1>2, <1>6 DEF CallsRight
  <2> QED BY <1>1, <2>1
<1>8. \A i, j \in Calls : i < j => Standing[i].name < Standing[j].name
  BY <1>1, <1>2, <1>6 DEF CallsRight
<1>9. ASSUME NEW i \in Calls
      PROVE  Standing[i].text
               = Ascending({k \in DOMAIN pieces :
                              pieces[k] = "args" /\ CallOf(pieces, k) = CallOf(pieces, Standing[i].name)},
                           Len(pieces))
  <2>1. Standing[i].text = ArgsOf(pieces, 1..n, CallOf(pieces, Standing[i].name))
    BY <1>1, <1>2, <1>6 DEF CallsRight
  <2> QED BY <1>1, <2>1 DEF ArgsOf
<1>10. phase # "rejected"
  BY DEF LostInv
<1> QED BY <1>5, <1>7, <1>8, <1>9, <1>10 DEF NothingLost

\* Whatever is generated and however it is merged into deltas, all of it is in
\* the items, in its order and with the call it belongs to (split_delta,
\* emit_delta).
THEOREM NothingIsLost == MCSpec => []NothingLost
<1>1. MCInit => LostInv
  BY LostStarts DEF MCInit
<1>2. ToldInv /\ KeptInv /\ LostInv /\ [MCNext]_<<part, serverVars, itemVars>> => LostInv'
  <2> SUFFICES ASSUME ToldInv, KeptInv, LostInv, [MCNext]_<<part, serverVars, itemVars>>
               PROVE  LostInv'
    OBVIOUS
  <2>1. CASE UNCHANGED itemVars
    BY <2>1 DEF LostInv, itemVars, Current, Good, TextsRight
  <2>2. ASSUME NEW n \in 1..MaxBatch, NEW blank \in BOOLEAN, NEW aligned \in BOOLEAN,
               Parse(n, blank, aligned)
        PROVE  LostInv'
    BY <2>2, LostParse
  <2>3. ASSUME NEW truncated \in BOOLEAN, EndStream(truncated)
        PROVE  LostInv'
    BY <2>3, LostEnd
  <2>4. ItemsNext => LostInv'
    BY <2>2, <2>3 DEF ItemsNext
  <2> QED BY <2>1, <2>4 DEF MCNext
<1> QED BY <1>1, <1>2, LostNothing, ItemsAreTold, KeptAlways, PTL DEF MCSpec
=============================================================================
