-------------------------- MODULE ServingScheduler --------------------------
(***************************************************************************)
(* The engine's scheduling step with the speedup bridge in it: schedule()  *)
(* and update_from_output() of the patched vLLM scheduler, and the hooks   *)
(* order_running, prefill_limit, defer_waiting and select of               *)
(* src/tp4/glm53_speedup/scheduler.py, over the components SplitCadence,   *)
(* FairPrefill and ChunkSplit.                                             *)
(*                                                                         *)
(* One engine step is                                                      *)
(*                                                                         *)
(*   idle --Begin--> running --...--> waiting --...--> select --> model    *)
(*     ^                                                            |      *)
(*     +--------------------------Update----------------------------+      *)
(*                                                                         *)
(* The grant loop, the running loop and the waiting loop take one action   *)
(* per iteration.  Scheduling is synchronous: requests arrive while the    *)
(* engine is idle, aborts are taken before a step and while the model runs.*)
(*                                                                         *)
(* Left out: connectors, encoders, LoRA, structured output, streaming      *)
(* sessions, pausing and async scheduling (the bridge refuses to start     *)
(* with most of them), the padding of one-token admissions (a prefix hit   *)
(* always leaves more than one token under the DFlash2 drafter), and       *)
(* shared-prefix junctions (ChunkedPrompt has them).                       *)
(***************************************************************************)
EXTENDS SplitCadence, FairPrefill, ChunkSplit

CONSTANTS
  Prompt,       \* num_prompt_tokens, by request
  MaxOut,       \* max_tokens, by request
  MaxModelLen,  \* max_model_len: the context, which the server fits requests to
  Cached,       \* requests whose R(P) prefix may be in the prefix cache
  Stream,       \* ids that stand for an endless stream of requests
  Impatient,    \* requests whose client may abort them
  MaxSeqs,      \* max_num_running_reqs
  KVBlocks,     \* blocks in the pool
  Watermark,    \* watermark_blocks: kept free by an admission beside others
  Cap, LowCap,  \* GLM53_SPEEDUP_MIXED_PREFILL and the adaptive chunk
  AdaptiveAt,   \* decoders from which the adaptive chunk applies
  KChoices      \* verification depths the acceptance policy may choose

ASSUME ServingAssumption ==
  /\ Prompt \in [Request -> Nat \ {0}] /\ MaxOut \in [Request -> Nat \ {0}]
  /\ Cached \cup Stream \cup Impatient \subseteq Request
  /\ {MaxSeqs, KVBlocks, Watermark, AdaptiveAt} \subseteq Nat
  /\ Cap \in Nat \ {0} /\ Cap % Block = 0
  /\ LowCap \in Nat \ {0} /\ LowCap % Block = 0 /\ LowCap <= Cap
  /\ KChoices \subseteq 1..K /\ K \in KChoices
  /\ \A s \in Selectors : s.burst = 0
  /\ MaxModelLen \in Nat /\ MaxModelLen <= KVBlocks * Block
  /\ \A r \in Request : Prompt[r] + MaxOut[r] <= MaxModelLen

\* Full-depth queries of all the sequences fit in a step: with a budget of
\* 14336 tokens, which the bridge insists on, for up to 16 sequences and K = 7.
ASSUME BudgetAssumption ==
  /\ MaxSeqs * (K + 1) <= MaxScheduled
  /\ MaxSeqs * (K + 1 + DraftSlots) <= MaxBatched

VARIABLES
  pc,                         \* where the engine step is
  status,                     \* RequestStatus, "new" before it arrives
  running, waiting, skipped,  \* the scheduler's three queues
  computed, tokens, spec,     \* num_computed_tokens, num_tokens, drafts at hand
  kv,                         \* KV blocks held
  idx,                        \* req_index
  tokenBudget, inputBudget,   \* locals of schedule()
  counts, drafts,             \* num_scheduled_tokens, scheduled drafts
  preempted,                  \* preempted_reqs
  stepSkipped,                \* step_skipped_waiting
  missed                      \* history, see below

\* missed[r] counts the steps in a row that left the running decoder r without
\* a token, up to 2.

requestVars == <<status, running, waiting, skipped, computed, tokens, spec, kv>>
stepVars == <<idx, tokenBudget, inputBudget, counts, drafts, preempted, stepSkipped>>
vars == <<cadenceVars, fairVars, pc, requestVars, stepVars, missed>>

Zero == [r \in Request |-> 0]

Init ==
  /\ CadenceInit /\ FairInit
  /\ pc = "idle"
  /\ status = [r \in Request |-> "new"]
  /\ running = <<>> /\ waiting = <<>> /\ skipped = <<>>
  /\ computed = Zero /\ tokens = Prompt /\ spec = Zero /\ kv = Zero
  /\ idx = 1 /\ tokenBudget = 0 /\ inputBudget = 0
  /\ counts = Zero /\ drafts = Zero
  /\ preempted = {} /\ stepSkipped = <<>>
  /\ missed = Zero

-----------------------------------------------------------------------------
(* What the hooks read of the scheduler. *)

Live == {r \in Request : status[r] \in {"waiting", "preempted", "running"}}
Served == {r \in Request : counts[r] > 0}

IsPrefilling(r) == computed[r] < PrefillEnd(Prompt[r], tokens[r])

RunningDecoders == {r \in ToSet(running) : ~IsPrefilling(r)}

\* chunk_cap
EffectiveCap ==
  IF Cardinality(RunningDecoders) >= AdaptiveAt THEN LowCap ELSE Cap

\* Mutant of CadenceView: a chunk that may end the prompt counts as nonfinal.
CadenceViewFinal ==
  [running    |-> ToSet(running),
   prefilling |-> ToSet(running) \ RunningDecoders,
   waiting    |-> waiting # <<>> \/ skipped # <<>>,
   nonfinal   |-> {r \in ToSet(running) :
                     /\ tokens[r] = Prompt[r]
                     /\ computed[r] > 0
                     /\ computed[r] < Prompt[r]},
   content    |-> {}]

\* What SplitCadence.begin reads.  Replayed output is no original prompt.
CadenceView ==
  [running    |-> ToSet(running),
   prefilling |-> ToSet(running) \ RunningDecoders,
   waiting    |-> waiting # <<>> \/ skipped # <<>>,
   nonfinal   |-> {r \in ToSet(running) :
                     /\ tokens[r] = Prompt[r]
                     /\ computed[r] > 0
                     /\ computed[r] + EffectiveCap < Prompt[r]},
   content    |-> {}]

\* The running prefills, then the waiting heads up to the free slots.
PlanView ==
  LET heads == skipped \o waiting
      slots == Most(0, MaxSeqs - Len(running))
  IN  [decoders |-> Cardinality(RunningDecoders),
       prefills |-> Only(running, ToSet(running) \ RunningDecoders)
                      \o SubSeq(heads, 1, Least(slots, Len(heads))),
       start    |-> computed,
       end      |-> [r \in Request |-> PrefillEnd(Prompt[r], tokens[r])]]

\* Mutant of PrefillLimit: the grant is not a limit.
PrefillLimitUngranted(r, n) == IF r \in allowed THEN n ELSE 0

\* prefill_limit: the cadence first, then the grant of a prefill.
PrefillLimit(r, n) ==
  LET count == IF r \in allowed THEN n ELSE 0
  IN  IF IsPrefilling(r) THEN FairLimit(r, count) ELSE count

\* defer_waiting: withheld by the cadence, or planned with a zero grant.
DeferWaiting(r) ==
  r \notin allowed \/ (granting /\ r \in ToSet(queue) /\ grants[r] = 0)

-----------------------------------------------------------------------------
(* KV blocks (allocate_slots). *)

Free == KVBlocks - FoldSet(LAMBDA r, n : kv[r] + n, 0, Request)

\* Blocks that hold n tokens.
BlocksFor(n) == (n + Block - 1) \div Block

\* num_tokens_need_slot: the new tokens and the drafter's lookahead, as far as
\* the context goes.
Slots(start, n) == BlocksFor(Least(start + n + K, MaxModelLen))

\* Mutant of Fits: one block too many.
FitsOver(r, n) == Slots(computed[r], n) - kv[r] <= Free + 1

\* A running request gets what it needs or nothing.
Fits(r, n) == Slots(computed[r], n) - kv[r] <= Free

\* An admission must also fit with its full sequence, above the watermark.
Admissible(r, start, n) ==
  Most(Slots(start, n), BlocksFor(tokens[r]))
    + (IF running = <<>> THEN 0 ELSE Watermark) <= Free

-----------------------------------------------------------------------------
(* Requests come and go. *)

Without(seq, r) == Only(seq, ToSet(seq) \ {r})

\* An id of the stream is used again once the bridge has forgotten it.
Forgotten(r) ==
  r \notin known_decoders \cup decoder_ids \cup ToSet(queue)

\* add_request
Add(r) ==
  /\ pc = "idle"
  /\ \/ status[r] = "new"
     \/ r \in Stream /\ status[r] \in {"finished", "aborted"} /\ Forgotten(r)
  /\ status' = [status EXCEPT ![r] = "waiting"]
  /\ waiting' = Append(waiting, r)
  /\ computed' = [computed EXCEPT ![r] = 0]
  /\ tokens' = [tokens EXCEPT ![r] = Prompt[r]]
  /\ UNCHANGED <<cadenceVars, fairVars, pc, running, skipped, spec, kv, stepVars, missed>>

\* finish_requests: a client goes away, also while the model runs.
Abort(r) ==
  /\ pc \in {"idle", "model"}
  /\ r \in Live \cap Impatient
  /\ status' = [status EXCEPT ![r] = "aborted"]
  /\ running' = Without(running, r)
  /\ waiting' = Without(waiting, r)
  /\ skipped' = Without(skipped, r)
  /\ computed' = [computed EXCEPT ![r] = 0]
  /\ spec' = [spec EXCEPT ![r] = 0]
  /\ kv' = [kv EXCEPT ![r] = 0]
  /\ missed' = [missed EXCEPT ![r] = 0]
  /\ UNCHANGED <<cadenceVars, fairVars, pc, tokens, stepVars>>

-----------------------------------------------------------------------------
(* The step. *)

\* order_running: the cadence chooses the kind of the step; only a decode
\* turn leaves the prefill plan alone.
Begin ==
  /\ pc = "idle" /\ Live # {}
  /\ CadenceBegin(CadenceView)
  /\ IF phase' = "decode" THEN FairDefer ELSE FairPlan(PlanView, EffectiveCap)
  /\ pc' = "running"
  /\ idx' = 1
  /\ tokenBudget' = MaxScheduled
  /\ inputBudget' = MaxBatched
  /\ counts' = Zero /\ drafts' = Zero
  /\ preempted' = {} /\ stepSkipped' = <<>>
  /\ UNCHANGED <<requestVars, missed>>

\* One iteration of the grant loop of plan().
Grant ==
  /\ pc = "running"
  /\ FairGrant(PlanView)
  /\ UNCHANGED <<cadenceVars, pc, requestVars, stepVars, missed>>

HasBudget == tokenBudget > 0 /\ inputBudget > DraftSlots

Chunk(r, start, n) ==
  Split(start, PrefillLimit(r, n), Prompt[r], tokens[r], 0, MaxScheduled).n

\* The running loop stands at running[idx].
AtRunning == pc = "running" /\ order = <<>> /\ idx <= Len(running) /\ HasBudget

\* Mutant of Asked: the drafts may run past the context.
AskedPast(r) == tokens[r] + spec[r] - computed[r]

\* What is left of a running request: near the end of the context only as many
\* drafts as leave room for the token that is sampled after them.
Asked(r) == Least(tokens[r] + spec[r] - computed[r], MaxModelLen - computed[r] - 1)

\* The tokens the loop would give to running[idx].
RunningTokens ==
  LET r == running[idx]
  IN  Chunk(r, computed[r],
            Least(Asked(r), Least(tokenBudget, inputBudget - DraftSlots)))

Charge(r, n, ndrafts) ==
  /\ counts' = [counts EXCEPT ![r] = n]
  /\ drafts' = [drafts EXCEPT ![r] = ndrafts]
  /\ tokenBudget' = tokenBudget - n
  /\ inputBudget' = inputBudget - (n + DraftSlots)

RunSkip ==
  /\ AtRunning /\ RunningTokens = 0
  /\ idx' = idx + 1
  /\ UNCHANGED <<cadenceVars, fairVars, pc, requestVars, tokenBudget, inputBudget,
                 counts, drafts, preempted, stepSkipped, missed>>

RunServe ==
  LET r == running[idx]
      n == RunningTokens
  IN  /\ AtRunning /\ n > 0 /\ Fits(r, n)
      /\ Charge(r, n, Least(spec[r], Most(0, n + computed[r] - tokens[r])))
      /\ kv' = [kv EXCEPT ![r] = Most(kv[r], Slots(computed[r], n))]
      /\ spec' = [spec EXCEPT ![r] = 0]
      /\ idx' = idx + 1
      /\ UNCHANGED <<cadenceVars, fairVars, pc, status, running, waiting, skipped,
                     computed, tokens, preempted, stepSkipped, missed>>

\* Mutant of RunPreempt: the preempted request starts over without its output.
RunPreemptForgets ==
  LET r == running[idx]
      victim == Last(running)
  IN  /\ AtRunning /\ RunningTokens > 0 /\ ~Fits(r, RunningTokens)
      /\ running' = Front(running)
      /\ waiting' = <<victim>> \o waiting
      /\ status' = [status EXCEPT ![victim] = "preempted"]
      /\ computed' = [computed EXCEPT ![victim] = 0]
      /\ tokens' = [tokens EXCEPT ![victim] = Prompt[victim]]
      /\ spec' = [spec EXCEPT ![victim] = 0]
      /\ kv' = [kv EXCEPT ![victim] = 0]
      /\ preempted' = preempted \cup {victim}
      /\ pc' = IF victim = r THEN "select" ELSE pc
      /\ missed' = [missed EXCEPT ![victim] = 0]
      /\ UNCHANGED <<cadenceVars, fairVars, skipped, idx, tokenBudget,
                     inputBudget, counts, drafts, stepSkipped>>

\* _preempt_request on the tail of the running list; if that is the request
\* itself the running loop ends.
RunPreempt ==
  LET r == running[idx]
      victim == Last(running)
  IN  /\ AtRunning /\ RunningTokens > 0 /\ ~Fits(r, RunningTokens)
      /\ running' = Front(running)
      /\ waiting' = <<victim>> \o waiting
      /\ status' = [status EXCEPT ![victim] = "preempted"]
      /\ computed' = [computed EXCEPT ![victim] = 0]
      /\ spec' = [spec EXCEPT ![victim] = 0]
      /\ kv' = [kv EXCEPT ![victim] = 0]
      /\ preempted' = preempted \cup {victim}
      /\ pc' = IF victim = r THEN "select" ELSE pc
      /\ missed' = [missed EXCEPT ![victim] = 0]
      /\ UNCHANGED <<cadenceVars, fairVars, skipped, tokens, idx, tokenBudget,
                     inputBudget, counts, drafts, stepSkipped>>

\* After a preemption no waiting request is looked at.
RunEnd ==
  /\ pc = "running" /\ order = <<>> /\ ~AtRunning
  /\ pc' = IF preempted = {} THEN "waiting" ELSE "select"
  /\ UNCHANGED <<cadenceVars, fairVars, requestVars, stepVars, missed>>

-----------------------------------------------------------------------------
\* The waiting loop stands at the head of the skipped, then the waiting.
AtWaiting ==
  /\ pc = "waiting" /\ skipped \o waiting # <<>>
  /\ HasBudget /\ Len(running) < MaxSeqs

Waiter == Head(skipped \o waiting)

PopNext ==
  IF skipped # <<>>
  THEN skipped' = Tail(skipped) /\ UNCHANGED waiting
  ELSE waiting' = Tail(waiting) /\ UNCHANGED skipped

\* get_computed_blocks: the prefix cache has R(P) of the prompt or nothing.
Hits(r) == IF r \in Cached THEN {0, ReplayBoundary(Prompt[r])} ELSE {0}
PrefixHits == UNION {Hits(r) : r \in Request}

\* The tokens of an admission whose prefix hit is hit.
Wanted(r, hit) ==
  Least(tokens[r] - hit, Least(tokenBudget, inputBudget - DraftSlots))

Deferred(r, hit) == PrefillLimit(r, Wanted(r, hit)) = 0 /\ DeferWaiting(r)

\* A zero grant defers this waiter, not the whole queue.
AdmitDefer ==
  /\ AtWaiting
  /\ \E hit \in Hits(Waiter) : Deferred(Waiter, hit)
  /\ PopNext
  /\ stepSkipped' = Append(stepSkipped, Waiter)
  /\ UNCHANGED <<cadenceVars, fairVars, pc, status, running, computed, tokens, spec,
                 kv, idx, tokenBudget, inputBudget, counts, drafts, preempted, missed>>

AdmitServe(hit) ==
  LET r == Waiter
      n == Chunk(r, hit, Wanted(r, hit))
  IN  /\ AtWaiting /\ hit \in Hits(r) /\ ~Deferred(r, hit)
      /\ n > 0 /\ Admissible(r, hit, n)
      /\ PopNext
      /\ running' = Append(running, r)
      /\ status' = [status EXCEPT ![r] = "running"]
      /\ computed' = [computed EXCEPT ![r] = hit]
      /\ kv' = [kv EXCEPT ![r] = Slots(hit, n)]
      /\ Charge(r, n, 0)
      /\ UNCHANGED <<cadenceVars, fairVars, pc, tokens, spec, idx, preempted,
                     stepSkipped, missed>>

\* Mutant of Requeue: the skipped requests are dropped.
RequeueDrops ==
  /\ pc' = "select"
  /\ stepSkipped' = <<>>
  /\ UNCHANGED <<cadenceVars, fairVars, status, running, waiting, skipped, computed,
                 tokens, spec, kv, idx, tokenBudget, inputBudget, counts, drafts,
                 preempted, missed>>

\* The skipped requests go back in front, in their order.
Requeue ==
  /\ pc' = "select"
  /\ skipped' = stepSkipped \o skipped
  /\ stepSkipped' = <<>>
  /\ UNCHANGED <<cadenceVars, fairVars, status, running, waiting, computed, tokens,
                 spec, kv, idx, tokenBudget, inputBudget, counts, drafts, preempted,
                 missed>>

\* No chunk, or no memory, for the request at the head: the loop ends.
AdmitFail(hit) ==
  LET n == Chunk(Waiter, hit, Wanted(Waiter, hit))
  IN  /\ AtWaiting /\ hit \in Hits(Waiter) /\ ~Deferred(Waiter, hit)
      /\ n = 0 \/ ~Admissible(Waiter, hit, n)
      /\ Requeue

AdmitEnd == pc = "waiting" /\ ~AtWaiting /\ Requeue

-----------------------------------------------------------------------------
\* trim_batch applies to a batch of full-depth decoders only.
Uniform ==
  \A r \in Served : ~IsPrefilling(r) /\ drafts[r] = K /\ counts[r] = K + 1

\* select, then _update_after_schedule.
Select(k) ==
  LET trim(f, n) == IF Uniform THEN [r \in Request |-> IF r \in Served THEN n ELSE 0] ELSE f
  IN  /\ pc = "select"
      /\ CadenceObserve(Served)
      /\ IF phase = "decode" THEN UNCHANGED fairVars ELSE FairObserve(Served)
      /\ counts' = trim(counts, k + 1)
      /\ drafts' = trim(drafts, k)
      /\ computed' = [r \in Request |-> computed[r] + counts'[r]]
      /\ pc' = "model"
      /\ missed' = [r \in Request |-> IF r \in RunningDecoders \ Served
                                      THEN Least(missed[r] + 1, 2) ELSE 0]
      /\ UNCHANGED <<status, running, waiting, skipped, tokens, spec, kv, idx,
                     tokenBudget, inputBudget, preempted, stepSkipped>>

\* The requests that the model sampled a token for.
Sampled == {r \in Served : status[r] = "running" /\ computed[r] >= tokens[r]}

\* update_from_output and update_draft_token_ids: acc drafts of each request
\* are accepted, the others are rolled back; the requests in stops sampled a
\* stop token.
Update(acc, stops) ==
  LET length(r) == Least(tokens[r] + 1 + acc[r], Prompt[r] + MaxOut[r])
      done == {r \in Sampled : r \in stops \/ length(r) = Prompt[r] + MaxOut[r]}
  IN  /\ pc = "model"
      /\ pc' = "idle"
      /\ status' = [r \in Request |-> IF r \in done THEN "finished" ELSE status[r]]
      /\ running' = Only(running, ToSet(running) \ done)
      /\ tokens' = [r \in Request |-> IF r \in Sampled THEN length(r) ELSE tokens[r]]
      /\ computed' = [r \in Request |->
                        CASE r \in done -> 0
                          [] r \in Sampled \ done -> computed[r] - (drafts[r] - acc[r])
                          [] OTHER -> computed[r]]
      /\ spec' = [r \in Request |-> CASE r \in done -> 0
                                      [] r \in Sampled \ done -> K
                                      [] OTHER -> spec[r]]
      /\ kv' = [r \in Request |-> IF r \in done THEN 0 ELSE kv[r]]
      /\ missed' = [r \in Request |-> IF r \in done THEN 0 ELSE missed[r]]
      /\ counts' = Zero /\ drafts' = Zero
      /\ idx' = 1 /\ tokenBudget' = 0 /\ inputBudget' = 0 /\ preempted' = {}
      /\ UNCHANGED <<cadenceVars, fairVars, waiting, skipped, stepSkipped>>

\* The drafts that may be accepted, for every sampled request.
Acceptances ==
  {acc \in [Request -> 0..K] :
     \A r \in Request : acc[r] <= IF r \in Sampled THEN drafts[r] ELSE 0}

Step ==
  \/ Begin
  \/ Grant
  \/ RunSkip
  \/ RunServe
  \/ RunPreempt
  \/ RunEnd
  \/ AdmitDefer
  \/ \E hit \in PrefixHits : AdmitServe(hit)
  \/ \E hit \in PrefixHits : AdmitFail(hit)
  \/ AdmitEnd
  \/ \E k \in KChoices : Select(k)
  \/ \E acc \in Acceptances, stops \in SUBSET Sampled : Update(acc, stops)

Next ==
  \/ \E r \in Request : Add(r)
  \/ \E r \in Request : Abort(r)
  \/ Step

\* A step is under way, or there are requests to start one for.
Working == pc # "idle" \/ Live # {}

\* The engine's busy loop keeps stepping while there is work.  This is
\* WF_vars(Step): Step is enabled exactly when Working.
Fairness == []<>~Working \/ []<><<Step>>_vars

Spec == Init /\ [][Next]_vars /\ Fairness
-----------------------------------------------------------------------------
Status == {"new", "waiting", "preempted", "running", "finished", "aborted"}

\* The type invariant.
TypeOK ==
  /\ pc \in {"idle", "running", "waiting", "select", "model"}
  /\ status \in [Request -> Status]
  /\ {computed, tokens, spec, kv, counts, drafts} \subseteq [Request -> Nat]
  /\ {tokenBudget, inputBudget} \subseteq Nat
  /\ preempted \subseteq Request
  /\ missed \in [Request -> 0..2]

\* A live request is in exactly one queue, once, and in the one its status
\* says: no skip, preemption, abort or requeue loses or duplicates it.
OneQueue ==
  LET all == running \o waiting \o skipped \o stepSkipped
  IN  /\ ToSet(all) = Live /\ Len(all) = Cardinality(Live)
      /\ \A r \in Request : r \in ToSet(running) <=> status[r] = "running"

\* The pool is never overdrawn, what a running request has computed is
\* covered by blocks it holds, and no one else holds any.
KVCovered ==
  /\ Free >= 0
  /\ \A r \in Request :
       IF status[r] = "running" THEN computed[r] <= kv[r] * Block ELSE kv[r] = 0

\* No request and no block is lost on any path through the queues: skips,
\* preemptions, aborts and requeues (schedule, _preempt_request, _free_request).
NothingMislaid == OneQueue /\ KVCovered

\* The drafts of a decoder that the context has room for, with its last token
\* and the one to be sampled.
RoomForDrafts(r) == Least(K, MaxModelLen - tokens[r] - 1)

\* Every step but a prefill-only turn gives each decoder it found, unless
\* preempted, its whole query: the sampled token and all the drafts the context
\* has room for (none after a replay of preempted output), wherever it is in
\* the running list and whatever the prefills before it were granted.
\* So a running decoder is without tokens for at most one step in a row.
DecodersServed ==
  /\ (pc = "select" /\ phase # "prefill") =>
       \A r \in decoder_ids \cap ToSet(running) :
         counts[r] = drafts[r] + 1 /\ drafts[r] \in {0, RoomForDrafts(r)}
  /\ \A r \in Request : missed[r] <= 1

\* With decoders beside them, the prefills of a step together stay within
\* the cap of that step, admissions with a prefix hit included.
CapHeld ==
  (pc = "select" /\ decoder_ids # {}) =>
    FoldSet(LAMBDA r, n : counts[r] + n, 0, {r \in Served : IsPrefilling(r)})
      <= IF Cardinality(decoder_ids) >= AdaptiveAt THEN LowCap ELSE Cap

\* A prefill-only turn serves no one but its prefill, and leaves that
\* prompt unfinished: the decoders never wait for a first token.
OfferNonfinal ==
  (pc = "select" /\ phase = "prefill") =>
    \A r \in Served : r \in allowed /\ computed[r] + counts[r] < Prompt[r]

\* Prefills never take more of a step than was planned for them: the cap holds
\* beside decoders, and a turn without decoders finishes no prompt
\* (PrefillLimit and the split cadence in schedule).
PrefillsHeldBack == CapHeld /\ OfferNonfinal

\* The engine implements RequestLifecycle: a request is open while it is
\* live, and has received what it has beyond its prompt.  Preemption, the
\* rollback of rejected drafts and the truncation of a batch never retract,
\* repeat or overrun what was delivered.
Lifecycle ==
  INSTANCE RequestLifecycle WITH
    MaxPerStep <- K + 1,
    client <- [r \in Request |-> CASE status[r] = "new" -> "none"
                                   [] r \in Live -> "open"
                                   [] OTHER -> "closed"],
    out <- [r \in Request |-> tokens[r] - Prompt[r]]

ImplementsLifecycle == Lifecycle!Spec

\* Every request is finished or aborted in the end: prefills are not starved
\* by a stream of newcomers, preempted requests come back.
Completes == \A r \in Request : r \in Live ~> r \notin Live
=============================================================================
