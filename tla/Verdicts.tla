------------------------------ MODULE Verdicts ------------------------------
(***************************************************************************)
(* What the Responses API promises about the outcome of a response: it is  *)
(* decided once, it is never revised, and what a stream announces as the   *)
(* outcome is what the store says from then on.                            *)
(***************************************************************************)
CONSTANT Ids        \* the responses

VARIABLES
  verdict,    \* the outcome of each response, as the store tells it
  announced   \* the outcome its stream has announced

verdictVars == <<verdict, announced>>

Outcomes == {"completed", "incomplete"}
Settled == Outcomes \cup {"failed", "cancelled"}

VerdictInit ==
  /\ verdict = [id \in Ids |-> "absent"]
  /\ announced = [id \in Ids |-> "nothing"]

\* A background response is in the store before it is generated.
Accept(id) ==
  /\ verdict[id] = "absent"
  /\ verdict' = [verdict EXCEPT ![id] = "queued"]
  /\ UNCHANGED announced

\* Any other response enters the store with its outcome.
Answer(id, v) ==
  /\ verdict[id] = "absent"
  /\ verdict' = [verdict EXCEPT ![id] = v]
  /\ UNCHANGED announced

\* A response in the background is decided; nothing is announced of one that
\* is read by polling, was cancelled or failed.
Settle(id, v) ==
  /\ verdict[id] = "queued"
  /\ verdict' = [verdict EXCEPT ![id] = v]
  /\ \/ UNCHANGED announced
     \/ v \in Outcomes /\ announced' = [announced EXCEPT ![id] = v]

VerdictNext ==
  \E id \in Ids : \/ Accept(id)
                  \/ \E v \in Outcomes : Answer(id, v)
                  \/ \E v \in Settled : Settle(id, v)

VerdictSpec == VerdictInit /\ [][VerdictNext]_verdictVars

\* An announcement is never contradicted by the store.
AnnouncedHolds ==
  \A id \in Ids : announced[id] \in Outcomes => verdict[id] = announced[id]
=============================================================================
