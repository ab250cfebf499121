----------------------------- MODULE FairPrefill -----------------------------
(***************************************************************************)
(* The prefill budget of a contended step                                  *)
(* (src/tp4/glm53_speedup/fair_prefill.py, class FairPrefill).             *)
(*                                                                         *)
(* plan() is called once per engine step, before any request is scheduled: *)
(* it orders the prefills (running ones and the waiting heads that fit in  *)
(* the free slots) and grants each of them tokens from one total allowance.*)
(* observe() is called when the step's token counts are known: it rotates  *)
(* the queue and remembers which long prefills were passed over.           *)
(*                                                                         *)
(* The grant loop of plan() is one action per iteration (FairGrant).       *)
(***************************************************************************)
EXTENDS Requests, Tokens, Sequences, FiniteSets, SequencesExt

CONSTANTS
  K,              \* num_spec_tokens
  DraftSlots,     \* max_num_new_slots_for_drafting
  MaxScheduled,   \* max_num_scheduled_tokens
  MaxBatched      \* max_num_batched_tokens

ASSUME FairAssumption ==
  /\ {K, DraftSlots, MaxScheduled, MaxBatched} \subseteq Nat
  /\ MaxScheduled > 0

VARIABLES
  queue,          \* round-robin order of the known prefills
  deferred_long,  \* long prefills passed over, first in line now
  eligible_long,  \* long prefills that could have used this step's budget
  granting,       \* grants is not None: the step is contended
  grants,         \* tokens granted in this step, by request
  order,          \* requests the grant loop has not visited yet
  budget, inputs  \* locals of plan: the tokens and input rows it has left

fairVars == <<queue, deferred_long, eligible_long, granting, grants, order,
              budget, inputs>>

FairInit ==
  /\ queue = <<>>
  /\ deferred_long = {}
  /\ eligible_long = {}
  /\ granting = FALSE
  /\ grants = [r \in Request |-> 0]
  /\ order = <<>>
  /\ budget = 0
  /\ inputs = 0

-----------------------------------------------------------------------------
(***************************************************************************)
(* What plan reads of the scheduler is a record:                           *)
(*   decoders     how many running requests are decoding                   *)
(*   prefills     the running prefills, then the ready waiting heads up to *)
(*                the number of free slots, without repetition             *)
(*   start, end   num_computed_tokens and the prefill end, by request      *)
(* grants maps every request outside prefills to 0: limit reads a missing  *)
(* grant as 0, and defer_waiting asks only about members of prefills.      *)
(***************************************************************************)
\* The members of seq that are in ids, in their order.
Only(seq, ids) ==
  LET only[n \in 0..Len(seq)] ==
        IF n = 0 THEN <<>>
        ELSE IF seq[n] \in ids THEN Append(only[n - 1], seq[n]) ELSE only[n - 1]
  IN  only[Len(seq)]

\* allowance_for: short of the prefill end a grant ends on a block boundary.
AllowanceFor(w, r, tokens, scratch) ==
  LET start == w.start[r]
      end   == w.end[r]
      raw   == Least(Least(tokens, scratch - DraftSlots), Most(0, end - start))
  IN  Most(0, IF start + raw < end THEN FloorTo(start + raw, Block) - start ELSE raw)

\* Mutant of DecodeReserved: each decoder is counted for its sampled token only.
DecodeReservedOne(w) == w.decoders

\* The full-depth queries of the running decoders.
DecodeReserved(w) == w.decoders * (K + 1)

\* The step's allowance before the first grant.
PlanBudget(w, cap) == Least(cap, MaxScheduled - DecodeReserved(w))
PlanInputs(w) == MaxBatched - DecodeReserved(w) - w.decoders * DraftSlots

\* A terminal tail: less than a block is left and all of it can be granted.
TerminalTail(w, r, cap) ==
  LET remaining == w.end[r] - w.start[r]
  IN  /\ 0 < remaining /\ remaining < Block
      /\ AllowanceFor(w, r, PlanBudget(w, cap), PlanInputs(w)) = remaining

\* The other prefills that could use some of the budget.
EligibleLong(w, cap) ==
  {r \in ToSet(w.prefills) :
     /\ ~TerminalTail(w, r, cap)
     /\ AllowanceFor(w, r, PlanBudget(w, cap), PlanInputs(w)) > 0}

\* The queue without departed requests, newcomers at its end.
Queued(w) ==
  LET ids == ToSet(w.prefills)
  IN  Only(queue, ids) \o Only(w.prefills, ids \ ToSet(queue))

\* Mutant of GrantOrder: short tails always go first.
GrantOrderTailsFirst(w, cap, q) ==
  LET ids   == ToSet(w.prefills)
      tails == {r \in ids : TerminalTail(w, r, cap)}
  IN  Only(q, tails) \o Only(q, ids \ tails)

\* Long prefills passed over before, then the short tails, then the rest.
GrantOrder(w, cap, q) ==
  LET ids       == ToSet(w.prefills)
      tails     == {r \in ids : TerminalTail(w, r, cap)}
      protected == (deferred_long \cap ids) \cap EligibleLong(w, cap)
  IN  Only(q, protected) \o Only(q, tails) \o Only(q, ids \ (protected \cup tails))

\* plan(), up to the grant loop.  A solo prefill keeps the original budget.
FairPlan(w, cap) ==
  LET contended == cap > 0 /\ (w.decoders > 0 \/ Len(w.prefills) > 1)
      q == IF cap > 0 THEN Queued(w) ELSE <<>>
  IN  /\ queue' = q
      /\ deferred_long' = deferred_long \cap ToSet(q)
      /\ granting' = contended
      /\ grants' = [r \in Request |-> 0]
      /\ eligible_long' = IF contended THEN EligibleLong(w, cap) ELSE {}
      /\ order' = IF contended THEN GrantOrder(w, cap, q) ELSE <<>>
      /\ budget' = IF contended THEN PlanBudget(w, cap) ELSE 0
      /\ inputs' = IF contended THEN PlanInputs(w) ELSE 0

\* One iteration of the grant loop.
FairGrant(w) ==
  LET r == Head(order)
      a == AllowanceFor(w, r, budget, inputs)
  IN  /\ order # <<>>
      /\ order' = SubSeq(order, 2, Len(order))
      /\ grants' = [grants EXCEPT ![r] = a]
      /\ budget' = budget - a
      /\ inputs' = IF a > 0 THEN inputs - (a + DraftSlots) ELSE inputs
      /\ UNCHANGED <<queue, deferred_long, eligible_long, granting>>

\* defer_for_decode: only this step's offers are cleared.
FairDefer ==
  /\ granting' = TRUE
  /\ grants' = [r \in Request |-> 0]
  /\ eligible_long' = {}
  /\ order' = <<>>
  /\ UNCHANGED <<queue, deferred_long, budget, inputs>>

\* limit: at most the grant when the step is contended.
FairLimit(r, count) == IF granting THEN Least(count, grants[r]) ELSE count

\* Mutant of Offered: a grant that could not be used was no offer.
OfferedServed(served) == {r \in ToSet(queue) : r \in served}

\* The requests that had their turn: a grant that failed KV admission counts.
Offered(served) == {r \in ToSet(queue) : r \in served \/ grants[r] > 0}

\* observe(counts): served is the set of ids with a positive count.
FairObserve(served) ==
  LET offered == Offered(served)
  IN  /\ deferred_long' = (deferred_long \cup eligible_long) \ offered
      /\ queue' = Only(queue, ToSet(queue) \ offered) \o Only(queue, offered)
      /\ budget' = 0 /\ inputs' = 0
      /\ UNCHANGED <<eligible_long, granting, grants, order>>
=============================================================================
