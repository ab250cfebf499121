--------------------------- MODULE ResponseServer ---------------------------
(***************************************************************************)
(* The Responses API server: the store of responses, background tasks, the *)
(* event list of each background stream with its readers, and              *)
(* cancellation.  One event loop runs all of it, so an action is what runs *)
(* between two suspensions; no code suspends while it holds the store's    *)
(* lock, which is why the lock is not part of the state.                   *)
(*                                                                         *)
(* The content of a response is the number of items it has completed; how  *)
(* deltas become items is ResponseItems.                                   *)
(***************************************************************************)
EXTENDS Naturals, Sequences

CONSTANTS
  Ids,        \* the responses
  Readers,    \* the clients that read a background stream
  Skips,      \* leading events a reader asks to skip, be there as many or not
  MaxItems,   \* bound on the items of a response
  Nobody      \* what a reader looks at before it asks

ASSUME SkipsAssumption == Skips \subseteq Nat
ASSUME MaxItemsAssumption == MaxItems \in Nat

VARIABLES
  kind,       \* how each response was asked for
  task,       \* its background task, or its handler
  made,       \* the items generated so far
  store,      \* response_store: status and items
  stopping,   \* whether its task is to receive a CancelledError
  cancel,     \* the cancel call that waits for the task
  events,     \* event_store: the events of a background stream
  signal,     \* the asyncio.Event beside them
  reader      \* what each reader looks at, its next event and where it is

serverVars == <<kind, task, made, store, stopping, cancel, events, signal, reader>>

Background == {"stream", "poll"}
Terminal == {"completed", "incomplete"}
Running == {"new", "waiting"}

Init ==
  /\ kind = [id \in Ids |-> "none"]
  /\ task = [id \in Ids |-> "none"]
  /\ made = [id \in Ids |-> 0]
  /\ store = [id \in Ids |-> [status |-> "absent", items |-> 0]]
  /\ stopping = [id \in Ids |-> FALSE]
  /\ cancel = [id \in Ids |-> "none"]
  /\ events = [id \in Ids |-> << >>]
  /\ signal = [id \in Ids |-> FALSE]
  /\ reader = [r \in Readers |-> [of |-> Nobody, next |-> 0, pc |-> "idle"]]

-----------------------------------------------------------------------------
\* Setting the signal wakes everybody who waits for it.
Woken(id) ==
  [r \in Readers |->
     IF reader[r].of = id /\ reader[r].pc = "waiting"
     THEN [reader[r] EXCEPT !.pc = "woken"]
     ELSE reader[r]]

\* Mutant of Emit: readers are only woken at the end.
EmitQuiet(id, new) ==
  IF kind[id] = "stream"
  THEN /\ events' = [events EXCEPT ![id] = @ \o new]
       /\ IF new = <<"item">>
          THEN UNCHANGED <<signal, reader>>
          ELSE signal' = [signal EXCEPT ![id] = TRUE] /\ reader' = Woken(id)
  ELSE UNCHANGED <<events, signal, reader>>

\* Events are appended and signalled for each of them; only a background
\* stream keeps any.
Emit(id, new) ==
  IF kind[id] = "stream"
  THEN /\ events' = [events EXCEPT ![id] = @ \o new]
       /\ signal' = [signal EXCEPT ![id] = TRUE]
       /\ reader' = Woken(id)
  ELSE UNCHANGED <<events, signal, reader>>

\* A background response is stored as queued before its task exists.
Create(id, k) ==
  /\ kind[id] = "none"
  /\ kind' = [kind EXCEPT ![id] = k]
  /\ task' = [task EXCEPT ![id] = IF k \in Background THEN "new" ELSE "waiting"]
  /\ store' = IF k \in Background
              THEN [store EXCEPT ![id].status = "queued"]
              ELSE store
  /\ UNCHANGED <<made, stopping, cancel, events, signal, reader>>

\* The first step of the task runs up to the wait for the engine.
Begin(id) ==
  /\ task[id] = "new" /\ ~stopping[id]
  /\ task' = [task EXCEPT ![id] = "waiting"]
  /\ Emit(id, <<"created", "in_progress">>)
  /\ UNCHANGED <<kind, made, store, stopping, cancel>>

\* An output of the engine completes an item.
Produce(id) ==
  /\ task[id] = "waiting" /\ ~stopping[id]
  /\ made[id] < MaxItems
  /\ made' = [made EXCEPT ![id] = @ + 1]
  /\ Emit(id, <<"item">>)
  /\ UNCHANGED <<kind, task, store, stopping, cancel>>

\* The stored response, unless it has been cancelled meanwhile.
Stored(id, status) ==
  IF store[id].status = "cancelled"
  THEN store
  ELSE [store EXCEPT ![id] = [status |-> status, items |-> made[id]]]

\* The last output: the response is stored, then the terminal event is sent.
Finish(id, status) ==
  /\ task[id] = "waiting" /\ ~stopping[id]
  /\ task' = [task EXCEPT ![id] = "over"]
  /\ store' = Stored(id, status)
  /\ Emit(id, <<status>>)
  /\ UNCHANGED <<kind, made, stopping, cancel>>

\* An exception ends the generation. A stream turns a GenerationError into an
\* error event; the others leave no trace but the signal.
Fail(id, told) ==
  /\ task[id] = "waiting" /\ ~stopping[id]
  /\ task' = [task EXCEPT ![id] = "over"]
  /\ Emit(id, told)
  /\ UNCHANGED <<kind, made, store, stopping, cancel>>

\* The client of a response in the foreground goes away: nothing is stored.
Disconnect(id) ==
  /\ kind[id] = "reply" /\ task[id] = "waiting"
  /\ task' = [task EXCEPT ![id] = "over"]
  /\ UNCHANGED <<kind, made, store, stopping, cancel, events, signal, reader>>

-----------------------------------------------------------------------------
\* The status changes at once; the task is asked to stop and waited for.
Cancel(id) ==
  /\ store[id].status = "queued"
  /\ store' = [store EXCEPT ![id].status = "cancelled"]
  /\ stopping' = [stopping EXCEPT ![id] = task[id] \in Running]
  /\ cancel' = [cancel EXCEPT ![id] = "awaiting"]
  /\ UNCHANGED <<kind, task, made, events, signal, reader>>

\* Mutant of Failed: cancelled responses are failed as well.
FailedAlways(id) == [store EXCEPT ![id].status = "failed"]

\* What a task that polls cannot deliver is an ErrorResponse, and that makes
\* the response failed if it is not settled.
Failed(id) ==
  IF store[id].status \in {"completed", "cancelled"}
  THEN store
  ELSE [store EXCEPT ![id].status = "failed"]

\* Mutant of Interrupted: a stream does not end when it is interrupted.
InterruptedPoll(id) ==
  /\ task[id] = "waiting" /\ stopping[id] /\ kind[id] = "poll"
  /\ task' = [task EXCEPT ![id] = "over"]
  /\ store' = Failed(id)
  /\ UNCHANGED <<kind, made, stopping, cancel, events, signal, reader>>

\* CancelledError at the wait for the engine.
Interrupted(id) ==
  /\ task[id] = "waiting" /\ stopping[id]
  /\ task' = [task EXCEPT ![id] = "over"]
  /\ store' = IF kind[id] = "poll" THEN Failed(id) ELSE store
  /\ Emit(id, << >>)
  /\ UNCHANGED <<kind, made, stopping, cancel>>

\* A task cancelled before its first step never runs.
NeverRun(id) ==
  /\ task[id] = "new" /\ stopping[id]
  /\ task' = [task EXCEPT ![id] = "over"]
  /\ UNCHANGED <<kind, made, store, stopping, cancel, events, signal, reader>>

\* The cancel call returns when the task is over.
CancelReturns(id) ==
  /\ cancel[id] = "awaiting" /\ task[id] = "over"
  /\ cancel' = [cancel EXCEPT ![id] = "returned"]
  /\ UNCHANGED <<kind, task, made, store, stopping, events, signal, reader>>

-----------------------------------------------------------------------------
\* A reader at the end of the list waits, with the signal cleared: one that
\* was set meanwhile costs a second look, which finds as little.
AtEnd(r, i) == i > Len(events[reader[r].of])

Looking(r, i) ==
  reader' = [reader EXCEPT ![r].next = i,
                           ![r].pc = IF AtEnd(r, i) THEN "waiting" ELSE "sent"]

Cleared(r) == signal' = [signal EXCEPT ![reader[r].of] = FALSE]

\* Asking for a stream only needs a stored response.
Open(r, id, n) ==
  /\ reader[r].pc = "idle"
  /\ store[id].status # "absent"
  /\ reader' = [reader EXCEPT ![r] = [of |-> id, next |-> n + 1, pc |-> "opened"]]
  /\ UNCHANGED <<kind, task, made, store, stopping, cancel, events, signal>>

\* The generator starts at the first read, and there is nothing to read of a
\* response that is polled or whose task has not begun.
Refuse(r) ==
  /\ reader[r].pc = "opened"
  /\ events[reader[r].of] = << >>
  /\ reader' = [reader EXCEPT ![r].pc = "refused"]
  /\ UNCHANGED <<kind, task, made, store, stopping, cancel, events, signal>>

\* From the top of the loop: clear the signal, then look.
Look(r) ==
  /\ \/ reader[r].pc = "woken"
     \/ reader[r].pc = "opened" /\ events[reader[r].of] # << >>
  /\ Cleared(r)
  /\ Looking(r, reader[r].next)
  /\ UNCHANGED <<kind, task, made, store, stopping, cancel, events>>

\* Mutant of EndsReader: the event is not recognised.
EndsReaderDone(event) == event = "done"

\* The event that ends a reader.
EndsReader(event) == event = "completed"

\* The client has taken an event and asks for more.
Advance(r) ==
  LET i == reader[r].next IN
  /\ reader[r].pc = "sent"
  /\ IF EndsReader(events[reader[r].of][i])
     THEN /\ reader' = [reader EXCEPT ![r].pc = "ended"]
          /\ UNCHANGED signal
     ELSE /\ Looking(r, i + 1)
          /\ IF AtEnd(r, i + 1) THEN Cleared(r) ELSE UNCHANGED signal
  /\ UNCHANGED <<kind, task, made, store, stopping, cancel, events>>

-----------------------------------------------------------------------------
Generate(id) ==
  \/ Produce(id)
  \/ \E status \in Terminal : Finish(id, status)
  \/ \E told \in {<<"error">>, << >>} : Fail(id, told)
  \/ Interrupted(id)

Read(r) == Refuse(r) \/ Look(r) \/ Advance(r)

Next ==
  \/ \E id \in Ids : \/ \E k \in Background \cup {"reply"} : Create(id, k)
                     \/ Begin(id)
                     \/ Generate(id)
                     \/ Disconnect(id)
                     \/ Cancel(id)
                     \/ NeverRun(id)
                     \/ CancelReturns(id)
  \/ \E r \in Readers : \/ \E id \in Ids, n \in Skips : Open(r, id, n)
                        \/ Read(r)

\* The loop runs every task that is ready, the engine ends every request, and
\* the clients considered keep reading.
Fairness ==
  /\ \A id \in Ids : /\ WF_serverVars(Begin(id))
                     /\ WF_serverVars(Generate(id))
                     /\ WF_serverVars(NeverRun(id))
                     /\ WF_serverVars(CancelReturns(id))
  /\ \A r \in Readers : WF_serverVars(Read(r))

Spec == Init /\ [][Next]_serverVars

FairSpec == Spec /\ Fairness

\* The outcome a stream has announced: nothing follows a terminal event.
Announced(id) ==
  LET e == events[id] IN
  IF e # << >> /\ e[Len(e)] \in Terminal THEN e[Len(e)] ELSE "nothing"

Verdict == INSTANCE Verdicts WITH
  verdict <- [id \in Ids |-> store[id].status],
  announced <- [id \in Ids |-> Announced(id)]

\* Outcomes are decided once and announced truly: a cancelled response is not
\* overwritten by its own task, a finished one is not cancelled, and what the
\* stream announces is in the store before (serving.py, the guards of
\* responses_full_generator, _run_background_request and cancel_responses).
ImplementsVerdicts == Verdict!VerdictSpec

\* A reader that waits has read everything: clearing a signal that two readers
\* share never loses an event for the other (responses_background_stream_generator).
NoLostWakeup ==
  \A r \in Readers :
    reader[r].pc = "waiting" => reader[r].next > Len(events[reader[r].of])

TypeOK ==
  /\ kind \in [Ids -> Background \cup {"none", "reply"}]
  /\ task \in [Ids -> Running \cup {"none", "over"}]
  /\ made \in [Ids -> 0..MaxItems]
  /\ store \in [Ids -> [status : Terminal \cup {"absent", "queued", "failed", "cancelled"},
                        items : 0..MaxItems]]
  /\ stopping \in [Ids -> BOOLEAN]
  /\ cancel \in [Ids -> {"none", "awaiting", "returned"}]
  /\ events \in [Ids -> Seq(Terminal \cup {"created", "in_progress", "item", "error"})]
  /\ signal \in [Ids -> BOOLEAN]
  /\ reader \in [Readers -> [of : Ids \cup {Nobody}, next : Nat,
                   pc : {"idle", "opened", "refused", "woken", "sent", "waiting", "ended"}]]
=============================================================================
