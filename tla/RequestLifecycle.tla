-------------------------- MODULE RequestLifecycle --------------------------
(***************************************************************************)
(* What the serving engine promises to the clients, without queues,        *)
(* budgets or memory: a submitted request receives tokens a few at a time, *)
(* and is closed by its last token or by its client.  What was delivered   *)
(* is never taken back, a closed request receives nothing.                 *)
(***************************************************************************)
EXTENDS Requests, Naturals

CONSTANTS
  MaxOut,      \* the length limit of every request
  MaxPerStep   \* tokens a request may receive at once

VARIABLES
  client,      \* "none", "open", "closed", by request
  out          \* tokens delivered, by request

Open == {r \in Request : client[r] = "open"}

Init ==
  /\ client = [r \in Request |-> "none"]
  /\ out = [r \in Request |-> 0]

Submit(r) ==
  /\ client[r] # "open"
  /\ client' = [client EXCEPT ![r] = "open"]
  /\ out' = [out EXCEPT ![r] = 0]

Cancel(r) ==
  /\ client[r] = "open"
  /\ client' = [client EXCEPT ![r] = "closed"]
  /\ UNCHANGED out

\* One engine step delivers to some of the open requests; the last token
\* closes the request.
Deliver ==
  /\ \A r \in Request :
       \/ out'[r] = out[r] /\ client'[r] = client[r]
       \/ /\ r \in Open
          /\ out'[r] \in out[r] + 1..out[r] + MaxPerStep
          /\ out'[r] <= MaxOut[r]
          /\ client'[r] \in {"open", "closed"}
          /\ out'[r] = MaxOut[r] => client'[r] = "closed"
  /\ DOMAIN client' = Request /\ DOMAIN out' = Request

Next ==
  \/ \E r \in Request : Submit(r)
  \/ \E r \in Request : Cancel(r)
  \/ Deliver

Spec == Init /\ [][Next]_<<client, out>>
=============================================================================
