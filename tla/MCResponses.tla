---------------------------- MODULE MCResponses ----------------------------
(***************************************************************************)
(* The Responses server and the items of its streams, with the properties. *)
(* A behaviour is about one of them: responses share nothing but the loop, *)
(* so one response with two readers shows what can go wrong in the server, *)
(* and the server only counts the items.                                   *)
(***************************************************************************)
EXTENDS ResponseServer, ResponseItems

VARIABLE part   \* which of the two is looked at

MCInit ==
  /\ part \in {"server", "items"}
  /\ Init
  /\ ItemsInit

MCNext ==
  \/ part = "server" /\ Next /\ UNCHANGED <<part, itemVars>>
  \/ part = "items" /\ ItemsNext /\ UNCHANGED <<part, serverVars>>

MCSpec == MCInit /\ [][MCNext]_<<part, serverVars, itemVars>> /\ Fairness

\* A cancel call waits for the task, and returns.
CancelAnswered ==
  \A id \in Ids : cancel[id] = "awaiting" ~> cancel[id] = "returned"

\* A reader with the end of a completed stream still before it gets there.
CompletedIsRead ==
  \A r \in Readers, id \in Ids :
    (/\ reader[r].of = id /\ reader[r].pc # "refused"
     /\ Announced(id) = "completed" /\ reader[r].next <= Len(events[id]))
      ~> reader[r].pc = "ended"

\* Clients are answered: a cancel call returns whether the task has begun, is
\* over or is interrupted (cancel_responses), and a reader of a stream that
\* completes reaches its end if it asked from no later than that
\* (responses_background_stream_generator). One that asks from behind the last
\* event, where a client is that comes back with the last number it saw, is not
\* among them: nothing checks starting_after, and it waits for ever.
ClientsAnswered == CancelAnswered /\ CompletedIsRead

\* What the test of the stream says: its last event is response.incomplete when
\* the budget ran out and response.completed otherwise, so either one ends it.
TerminalEndsReader ==
  \A r \in Readers, id \in Ids :
    (reader[r].of = id /\ Announced(id) # "nothing")
      ~> reader[r].pc \in {"ended", "refused"}

\* What the comment in _run_background_request says: a request that has failed
\* is stored as failed.
FailureIsStored ==
  \A id \in Ids :
    kind[id] = "poll" /\ task[id] = "over" => store[id].status # "queued"
=============================================================================
