------------------------------ MODULE OpenFair ------------------------------
(***************************************************************************)
(* The planner under an arbitrary scheduler.  Requests with a span of      *)
(* tokens to prefill arrive, are evicted and finish; every step shows the  *)
(* planner some of them with some number of decoders and a cap.  A granted *)
(* request may fail admission; one that runs may advance to any position,  *)
(* because the prefix hit is looked up after the plan.                     *)
(***************************************************************************)
EXTENDS FairPrefill

CONSTANTS
  MaxDecoders,    \* bound: running decoders
  Caps,           \* the caps a step may be planned with, 0 is off
  Spans           \* the <<start, end>> a request may arrive with

ASSUME TurnAssumption ==
  /\ MaxDecoders \in Nat /\ Caps \subseteq Nat /\ Spans \subseteq Nat \X Nat

VARIABLES
  turn,           \* "idle", "planning", "planned"
  view,           \* the view of the current step
  cap,            \* the cap of the current step
  start, end,     \* num_computed_tokens and prefill end of every request
  passedLong      \* history: plans in a row that passed over a long prefill,
                  \* counted up to |Request|

turnVars == <<fairVars, turn, view, cap, start, end, passedLong>>

Prefilling == {r \in Request : start[r] < end[r]}

Arrangements(S) == {q \in UNION {[1..n -> S] : n \in 0..Cardinality(S)} :
                      \A i, j \in DOMAIN q : q[i] = q[j] => i = j}

NoView == [decoders |-> 0, prefills |-> <<>>,
           start |-> [r \in Request |-> 0], end |-> [r \in Request |-> 0]]

TurnInit ==
  /\ FairInit
  /\ turn = "idle"
  /\ view = NoView
  /\ cap = 0
  /\ start = [r \in Request |-> 0]
  /\ end = [r \in Request |-> 0]
  /\ passedLong = [r \in Request |-> 0]

Arrive(r, span) ==
  /\ turn = "idle"
  /\ r \notin Prefilling
  /\ start' = [start EXCEPT ![r] = span[1]]
  /\ end' = [end EXCEPT ![r] = span[2]]
  /\ UNCHANGED <<fairVars, turn, view, cap, passedLong>>

\* _preempt_request: the request starts over.
Evict(r) ==
  /\ turn = "idle"
  /\ r \in Prefilling /\ start[r] > 0
  /\ start' = [start EXCEPT ![r] = 0]
  /\ UNCHANGED <<fairVars, turn, view, cap, end, passedLong>>

PlanTurn(d, prefills, c) ==
  LET w == [decoders |-> d, prefills |-> prefills, start |-> start, end |-> end]
  IN  /\ turn = "idle"
      /\ FairPlan(w, c)
      /\ turn' = "planning"
      /\ view' = w
      /\ cap' = c
      /\ passedLong' = [r \in Request |-> IF r \in ToSet(prefills) /\ c > 0
                                        THEN passedLong[r] ELSE 0]
      /\ UNCHANGED <<start, end>>

GrantTurn ==
  /\ turn = "planning"
  /\ FairGrant(view)
  /\ UNCHANGED <<turn, view, cap, start, end, passedLong>>

PlanDone ==
  /\ turn = "planning" /\ order = <<>>
  /\ turn' = "planned"
  /\ UNCHANGED <<fairVars, view, cap, start, end, passedLong>>

\* A decode-only step: the bridge calls neither plan nor observe.
DecodeTurn ==
  /\ turn = "idle"
  /\ FairDefer
  /\ UNCHANGED <<turn, view, cap, start, end, passedLong>>

\* What a step may serve: granted requests, or the solo prefill.
Servable == {r \in ToSet(view.prefills) : granting => grants[r] > 0}

\* Where a step may take the requests it serves.
Positions(served) ==
  {f \in [served -> UNION {start[r] + 1..end[r] : r \in served}] :
     \A r \in served : f[r] \in start[r] + 1..end[r]}

ObserveTurn(served, to) ==
  LET offered == Offered(served)
  IN  /\ turn = "planned"
      /\ FairObserve(served)
      /\ turn' = "idle"
      /\ start' = [r \in Request |-> IF r \in served THEN to[r] ELSE start[r]]
      /\ passedLong' = [r \in Request |->
                          CASE r \in offered -> 0
                            [] r \in eligible_long \ offered ->
                                 Least(passedLong[r] + 1, Cardinality(Request))
                            [] OTHER -> passedLong[r]]
      /\ view' = NoView
      /\ cap' = 0
      /\ UNCHANGED end

TurnNext ==
  \/ \E r \in Request, span \in Spans : Arrive(r, span)
  \/ \E r \in Request : Evict(r)
  \/ \E d \in 0..MaxDecoders, p \in Arrangements(Prefilling), c \in Caps : PlanTurn(d, p, c)
  \/ GrantTurn
  \/ PlanDone
  \/ DecodeTurn
  \/ \E served \in SUBSET Servable :
       \E to \in Positions(served) : ObserveTurn(served, to)

TurnSpec == TurnInit /\ [][TurnNext]_turnVars

-----------------------------------------------------------------------------
\* The type invariant: queue lists each known prefill once.
TurnTypeOK ==
  /\ queue \in Arrangements(Request)
  /\ deferred_long \subseteq ToSet(queue)
  /\ eligible_long \subseteq Request
  /\ granting \in BOOLEAN
  /\ grants \in [Request -> Nat]
  /\ order \in Arrangements(Request)
  /\ turn \in {"idle", "planning", "planned"}

\* A long prefill that could use the budget is passed over by fewer plans
\* in a row than there are requests: neither a stream of new tails, nor a
\* request whose admission keeps failing, nor evictions starve it.
LongBypassBounded == \A r \in Request : passedLong[r] < Cardinality(Request)
=============================================================================
