# A TLA+ model of the GLM-5.3-Flash serving recipe for DGX Spark rings

The repository serves GLM-5.3-Flash on four (TP4) or two (TP2) DGX Sparks that
are cabled in a switchless ring. It takes a pinned vLLM, lays an overlay and a
set of patches over it, and adds its own packages under `src/tp4` and
`src/tp2`. This directory models the part of it that decides: which request
gets how many tokens in which engine step, where a prompt is cut into chunks and
which recurrent states it leaves behind, how far drafts are verified, and what
clients are promised on top of it; of the part that moves: the two RDMA
collectives that the ranks share, from their construction to their end; and of
the part that answers: the Responses API server that the runtime candidate
corrects.

Paths below are relative to the repository root.

## 1. Inventory

### Components, their state and their operations

| Component | Code | State | Operations | Modelled in |
|---|---|---|---|---|
| Split cadence | `src/tp4/glm53_speedup/cadence.py` | kind of the step, decoders seen, decoders owed a step, first-token debt, burst counters | `begin`, `observe`, `limit`, `deferred` | `SplitCadence`, `OpenCadence` |
| Fair prefill planner | `fair_prefill.py`, `adaptive_chunk.py` | round-robin queue, deferred long prefills, grants of the step | `plan`, `defer_for_decode`, `limit`, `observe`, `chunk_cap` | `FairPrefill`, `OpenFair` |
| Chunk split, replay boundary, checkpoint planner | overlay `v1/core/sched/scheduler.py` (`_mamba_block_aligned_split`), its tp4 patch, `glm53_replay_boundary.py`, `glm53_kda_ckpt_plan.py` | none: pure functions of a request | the split, `replay_boundary`, `request_boundary`, `plan_chunk`, `validate_plan` | `ChunkSplit`, `ChunkedPrompt` |
| Engine step with the bridge | overlay scheduler, its patch, `glm53_speedup/scheduler.py`, `kv_cache_manager.py` | queues, per-request progress, drafts, KV blocks, the step's budgets | `add_request`, `finish_requests`, `schedule`, `_preempt_request`, `_update_after_schedule`, `update_from_output`, `update_draft_token_ids`, the four hooks | `ServingScheduler`, `RequestLifecycle` |
| Acceptance policy: saturation growth | `policy.py` | depth, batch, streaks, observations due | `reset`, `choose`, `observe` | `SaturationGrowth`, `OpenGrowth` |
| Acceptance policy: averages and cost tables, capture geometry | `policy.py`, `geometry.py`, `graphs.py` | moving averages, depth, agreeing turns, captured graph sizes | `choose`, `observe`, `retain`, `discard`, `configure`, `trim_batch` | `EmaPolicy`, `PolicyBridge` (modes off, forced, ema); `ServingScheduler` (trim) |
| Runtime override file | `glm53_speedup/scheduler.py` (`refresh`, `_read_bounded`) | stamp of the file in force, settings, prefill cap | poll: stat, open, read, validate, fall back to off | `OverrideFile`, `PolicyBridge` |
| Replay-boundary registry | `glm53_replay_boundary.py` (`Registry`) | boundary entries by hash in order of use, blocks per group, tags, epoch | `record`, `moved`, `admit`, `_drop`, `_enforce_cap`, `clear` | `ReplayRegistry`, `OpenRegistry` |
| KDA state slots | `single_type_kv_cache_manager.py` (`MambaManager`) and its patch | block table per request, labels, short states, partial tails | admit a hit, give up skipped blocks, reserve, allocate, copy on write, label, free | `StateSlots`, `HybridState`; across requests `OpenRegistry` |
| RecoverSSM fused commit | `ops/recoverssm.py`, patches of `kda.py` and `model_runner.py` | deferred commits of the last step | commit plan, rules 1 and 2, host skip, handing over, flushing | `HybridState` |
| Lean all-reduce | `glm53_lean_allreduce/` | RDMA slots, doorbells, flags, sequence numbers, error words | kernel, proxy thread, time-out, poison, watchdog, close | `LeanAllReduce`, `LeanRuntime` |
| Prefill ring | `glm53_prefill_rdma/` | receive areas by parity, staging slots, posted and completed steps | reduce-scatter, all-gather: kernel, proxy, time-out, watchdog, close | `RingPlan`, `PrefillRing`, `RingRuntime` |
| Construction votes | `ring.py`, `lean_tp4.py`, the communicator's patch | errors and settings per rank and stage | gather, vote, compare, close, fall back | `CollectiveStart` |
| Responses server | candidate `entrypoints/openai/responses/serving.py` | stored responses, background tasks, event lists with their signals | create, generate, store, cancel, retrieve, read a stream | `ResponseServer`, `Verdicts` |
| Responses streaming | candidate `streaming_events.py`, `serving.py`, `parser/abstract_parser.py` | open item, items done, index | `split_delta`, open, delta, close | `ResponseItems` |
| Log-probabilities of content | candidate `content_logprobs.py` | raw text, its entries, cursor | `content_logprob_span` | no (`ResponseItems` takes its result) |
| Kernels, UTF-8 guard, greedy verification, telemetry, launch scripts, source import | see `PROJECT.json` | – | – | no (numerical, sequential or pure I/O) |

### How they interact

Scheduling is synchronous: the replay boundary insists on
`--no-async-scheduling` (`src/tp4/glm53_replay_boundary.py:344`), so one engine
step runs to its end before the next begins. Within a step the components call
each other in a fixed order:

1. `order_running` calls `SplitCadence.begin`. Unless the step is decode-only it
   then calls `FairPrefill.plan` with the adaptive cap.
2. The running loop asks `prefill_limit` for every running request (cadence
   first, then the grant), cuts the result with the chunk split, and allocates
   KV blocks. When the pool is full the tail of the list is preempted.
3. If nothing was preempted, the waiting loop does the same for the heads of
   the waiting queues; `defer_waiting` may put one aside for this step.
4. `select` reports the served requests to the cadence and the planner, and may
   trim a uniform batch of decoders to a smaller verification depth.
5. The model runs; clients may abort while it does. `update_from_output` rolls
   rejected drafts back, appends tokens and finishes requests.

Within the model, each rank's kernels call the collectives in the same order. A
collective is three actors per rank (kernel, proxy thread, NIC) and has no
acknowledgements: a buffer is written again because a later operation selects
it, and what makes that safe is only that nobody gets a result without
everybody's contribution. The scheduler and the workers meet in the state
blocks: the scheduler allocates and labels them before the step that writes
them, and the fused commit leaves some writes to the step after.

In front of the engine, one event loop runs the Responses server. A background
response is a task of its own that appends to a list of events; readers of the
list share one `asyncio.Event` with the task, and a cancel call changes the
stored status first and stops the task afterwards.

### What is hard here

* *Debts across steps.* A decode turn may serve only some of the decoders it
  owes, and requests turn into decoders or leave between two steps.
* *Grants made from stale lengths.* The prefix hit of a waiting prompt is looked
  up after its grant was computed; a granted prompt may fail KV admission.
* *Four queues.* Skips, preemptions, aborts and requeues move a request between
  them within a step.
* *Chunks that start in the middle of a block.* The replay boundary makes prefix
  hits end at half blocks, and every stop of the split must still be on the grid.
* *Writes after labels.* A decode step's state is committed at once or by the
  next step's verify; before that the step copies blocks on, other requests hit
  them, and finished requests give them back.
* *Hashes before states.* A state's hash is registered while the step is
  scheduled and the state is written when the model runs; meanwhile the hash may
  be found by another request, move to another block, or be evicted without the
  registry hearing of it.
* *Feedback that does not match.* Acceptance reports may be missing, late,
  duplicated, or belong to another batch or depth.
* *Starvation.* Tails overtake long prefills, deferred long prefills overtake
  tails, admissions fail, preempted requests come back.
* *Outcomes decided in two places.* A response's task and a cancel call both
  write its status, readers share a signal that each of them clears, and a task
  may die without a word.
* *Deltas without order.* What the model generated in order arrives merged, and
  items have to be put together from it as if it had not been.
* *Fabric.* Doorbells that keep only the newest sequence number, receive areas
  that a faster neighbour overwrites, failures seen by one rank only.

`PROJECT.json` lists each of these as a hazard at its line, with the properties
that would catch it.

## 2. Modules

```
scheduling      Requests, Tokens
                  SplitCadence ---- OpenCadence --+
                  FairPrefill ----- OpenFair -----+- SchedulerProofs
                  ChunkSplit ------ ChunkedPrompt --+
                  SplitCadence + FairPrefill + ChunkSplit = ServingScheduler -- SchedulerProofs
                                    ServingScheduler refines RequestLifecycle
states            StateSlots -----------------------+- HybridState -- StateProofs
                  ReplayRegistry -- OpenRegistry ---- RegistryProofs
policy            SaturationGrowth - OpenGrowth
                  OpenGrowth + EmaPolicy + OverrideFile = PolicyBridge -- PolicyProofs
                                    PolicyBridge refines OpenGrowth
collectives     World
                  CollectiveStart --------------------- StartProofs
                  LeanAllReduce + CollectiveStart = LeanRuntime -- LeanProofs
                                    LeanRuntime refines Lockstep
                  RingPlan + Lockstep = PrefillRing
                  PrefillRing + CollectiveStart = RingRuntime ---- RingProofs
                                    RingRuntime refines Lockstep
responses       ResponseServer ---- ServerProofs     refines Verdicts
                ResponseItems ----- ServerProofs
```

A component module has the component's own state and one operator per method,
parameterised by what the method reads of its surroundings. It is used twice:
an `Open...` module drives it with every input its caller could produce, and
`ServingScheduler` drives it with the scheduler's real state. The open modules
make the properties independent of the scheduler (and provable); the composed
module shows that the pieces fit.

* **`SplitCadence`** keeps the source's field names. `allowed` is the id set
  `limit` and `deferred` test; `Request` stands for `None` (no limit). `begin`
  is `CadenceBegin`, `observe` is `CadenceObserve`. `snapshot` and the trace
  counters are left out. In **`OpenCadence`** a step is `BeatBegin(v)` for any
  consistent view `v`, then `BeatObserve(served)` for any part of the allowed
  running requests: arrivals, evictions, failed admissions and finished requests
  are all in the choice of the next view. `withheld`, `offered`, `fresh`,
  `spent` and `converted` are history variables; no action reads them.
* **`FairPrefill`** splits `plan` into `FairPlan` (queue, tails, protected
  order) and `FairGrant` (one iteration of the grant loop), so the loop's
  running totals are checked and not recomputed. **`OpenFair`** has arrivals,
  evictions and prefix hits that land anywhere in the remaining span, and
  admissions that fail.
* **`ChunkSplit`** is the split with its patch, R(P), the export plan and its
  acceptance rule, as operators on token positions. **`ChunkedPrompt`** takes one
  request through them with every prompt length, replayed output, cached prefix,
  junction and sequence of offers within the bounds. Which states the cache then
  holds is `saved`.
* **`ServingScheduler`** is one engine step as a small program with a `pc`; the
  loops take one action per iteration. KV blocks are counted, not named. A
  prefix-cache hit is R(P) or nothing. The drafter's proposals and the sampler
  are external: any number of drafts may be accepted, any sampled request may
  stop. The running loop's cut at `max_model_len` is `Asked`; a token that reaches it
  is the request's last, as requests fit in the context. Ids in `Stream` are submitted again once the bridge has forgotten them,
  which stands for an endless stream of new requests.
* **`RequestLifecycle`** is what clients are promised: tokens are appended, at
  most a limit per step and per request, never retracted; a closed request gets
  nothing.
* **`SaturationGrowth`** and **`OpenGrowth`**: `reset`, `choose` and `observe`,
  with any batch, any baseline depth up to BaseK and any feedback.
* **`ReplayRegistry`** is the class `Registry`. `entries` is the order of the
  dictionary, `recs[k][b]` is `Entry.blocks` (`None`: not recorded), `tags` and
  `epoch` are the fields of that name. `label` is the pool's map from hash to
  block, seen from the block. `Victims` is the outcome of both loops of
  `_enforce_cap`: dropping one entry does not change whether another is dead.
  **`OpenRegistry`** surrounds it with the rest of `MambaManager`'s life of a
  registered state. `holds` is what is in a block now, `after` what will be once
  the model has run; `CaptureGroup` registers one group of a boundary and calls
  `record`, `CopyOnWrite` is the producer's next allocation and calls `moved`,
  `Lookup` calls `admit` and then applies the fence, `RunModel` ends the step.
  `CaptureNative` registers one of the image's own partial tails under the same
  hash, without the registry. The block pool itself is external: `Alloc` takes any free block and
  evicts its hash. `hits` and `own` are history.

* **`StateSlots`** is `MambaManager` in align mode for one request: a record of
  the block table and what the manager remembers about it, and one operator per
  method. A state is the number of tokens it follows; a label is the number of
  tokens the cache finds it under. **`HybridState`** puts it under `ChunkedPrompt`
  and adds the decode steps: `Scheduled` is `allocate_slots`, `DecodeStep` the
  verify with its commit plan (`CommitsNow` is rule 1, `HostSkip` the host's
  proof that rule 1 has nothing to do), `SkippedStep` and `Absent` rule 2,
  `Leave` and `Reused` the blocks' way back through the pool. There is one
  request; others appear as a step without it, as hits on its labels and as the
  next owner of its blocks. Every decode row is verified, with or without
  drafts. The retention interval is the block, so every boundary is kept.
* **`OverrideFile`** is one poll, one system call per action, against a writer
  that rewrites in place, replaces by rename, moves away and restores.
  **`EmaPolicy`** is mode ema with averages in fifths of a draft, rounded towards
  the old value as a float is in the limit. **`PolicyBridge`** is `refresh`,
  `select` and `observe` over them and `OpenGrowth`; the two places that poll are
  one action. The outer history is followed in mode ema only, which is the only
  mode that reads it; the depth that saturation growth starts from is any of
  `1..BaseK`.
* **`Lockstep`** is what both transports promise and what their buffers rest on:
  nobody leaves an operation before everybody has entered it.
* **`LeanAllReduce`** has, per rank, the kernel's position, its send slots and
  doorbells, the proxies' newest posted sequence, the writes in flight on each
  queue pair, received flags and error words. Sequence numbers are words modulo
  `SeqMod`. A sum is a set of contributions. **`LeanRuntime`** adds the
  construction.
* **`RingPlan`** is the arithmetic of `protocol.py` and `_prb.cu`: chunks, steps,
  pieces, items and what they wait for. **`PrefillRing`** runs it: the kernel's
  items, the proxy's posts and the NIC's writes are separate actions; a sum is
  the sequence of additions, because BF16 addition does not associate. `base` is
  `stage_base` of the calls launched so far and, last, `stage_next`. The kernel
  finds an item of its merged list by bisection, the model as the item with that
  many before it (`ItemAt`, `Ahead`). **`RingRuntime`** adds construction and
  close.
* **`CollectiveStart`** is one constructor with its stages as a parameter: work
  that may fail on any rank, a gathered vote, the comparison of settings, close
  and the communicator's decision to fall back.

* **`Verdicts`** is what the Responses API promises about outcomes: decided once,
  never revised, announced as the store has them.
* **`ResponseServer`** has, per response, how it was asked for (`stream` and
  `poll` are in the background, `reply` is not), its task, what is stored, the
  list of events and the signal; and per reader the response and the next event.
  Everything runs on one event loop, so an action is what runs between two
  suspensions: `Begin` is the task up to the engine, `Produce` one output,
  `Finish` the last output with storing and the terminal event, `Interrupted`
  what a `CancelledError` does, `NeverRun` the same for a task that has not begun,
  `Look` and `Advance` the two places where a reader stops. The content of a
  response is a number of items.
* **`ResponseItems`** generates reasoning, content, names and arguments piece by
  piece (`pieces`), merges those of a batch into one delta as the parser does, and
  takes the delta through `split_delta` and the processor. A text is the
  sequence of places it was generated at, so losing, doubling and moving are
  all visible.

Definitions whose comment begins with "Mutant of" are deliberately wrong
variants of the definition that follows them. Nothing uses them; replacing a
definition by one must make TLC report the property listed with it in
`PROJECT.json`.

## 3. Runs

`tlc -config <cfg> <module>`, in this directory. Everything finishes in a few
minutes; state counts are of distinct states.

| Run | Module, cfg | States | Question and answer |
|---|---|---|---|
| `planners` | `MCPlanners`, `Planners` | 367,464 | Cadence: under either selector no decoder is passed over twice without tokens between, every decoder has a turn before a prefill-only step, one converted turn per wave of new decoders, burst turns bounded per decoder and in a row. Planner: a long prefill is passed over by fewer plans in a row than there are requests. Holds. |
| `chunk` | `HybridState`, `HybridState` | 259,157 | A prompt chunk by chunk under both recipes, then decode steps with the fused commit: the cache never finds a state under a label it does not hold, the running state is where the next step reads it and no deferred commit reaches another owner's block, the states later prompts look for are kept, plans and allocations are carried out, no useful offer is refused. Holds. |
| `chunk_junction` | `ChunkedPrompt`, `ChunkedPromptJunction` | – | A junction that other requests share leaves its block-floored state. **Violated**: finding 1. |
| `serving` | `MCServing`, `Serving` | 68,382 | The whole step: one queue per request, KV covered, decoders given all the drafts the context has room for and none missed twice, the cap held, offers nonfinal, refinement of `RequestLifecycle`; and every request ends, against an endless stream of short requests. Holds. |
| `policy` | `MCPolicy`, `Policy` | 829,071 | Depth is earned by the batch that uses it and withdrawn at the first failure, an averaged depth is confirmed turn by turn and never locked low, a poll takes only settings that the file really had, and the settings follow the file in the end. Holds. |
| `registry` | `MCOpenRegistry`, `OpenRegistry` | 1,964,334 | The registry at its cap, two groups, with tails of the image's own: hits hold the state of their prefix, the entry being recorded survives, and what the pool finds is recorded or the image's own. Holds. |
| `registry_native` | `MCOpenRegistry`, `OpenRegistryNative` | – | Drops leave the image's own entries alone. **Violated**: finding 2. |
| `lean` | `MCLean`, `Lean` | 723,580 | Votes, then all-reduces across a wrap of the sequence number, with lost and late writes and dead ranks: outputs are the sum, a failure is noticed, slots and flags are not overwritten while needed, construction is all or none, nobody waits for ever, refinement of `Lockstep`. Holds. |
| `ring` | `MCRing`, `Ring` | 140,786 | Votes, then reduce-scatter and all-gather calls: sums in NCCL's order, no area or slot overwritten in use, a rank may close after its last call, refinement of `Lockstep`, and every call returns. Holds. |
| `responses` | `MCResponses`, `Responses` | 52,878 | Server: a response in any mode, a cancel call at any time, failures, two readers: refinement of `Verdicts`, no reader misses an event, those that ask from no later than the end of what completes come to it, cancel calls return. Items: every merging of up to six pieces: no call loses its tail or name, every piece is in one item, in order, the client has been told what is kept, only a call that was cut off is marked, log-probabilities are of the whole message. Holds. |
| `responses_failed` | `MCResponses`, `ResponsesFailed` | – | A polled response that fails is stored as failed. **Violated**: finding 3. |
| `responses_reader` | `MCResponses`, `ResponsesReader` | – | A terminal event ends its readers. **Violated**: finding 4. |

`MCPlanners` and `MCResponses` each look at two components that share nothing (of
the planners, `turnVars` and `beatVars` are the states): a behaviour chooses one (`planner`, `part`) and the other stays as it began.

A property that is a conjunction has named parts, which are the statements to
read: `NothingMislaid` is `OneQueue` and `KVCovered`; `PrefillsHeldBack` is
`CapHeld` and `OfferNonfinal`; `OffersHonoured` is `PlanCarriedOut` and
`OfferTaken`; `DoorbellSuffices` is `SendSlotsIntact` and
`ProxyFailsOnlyForPeer`; `BuffersIntact` is `AreaFree` and `StagedIntact`;
`RingShared` is `AllOrNone` and `CloseStrandsNobody`; `KeptTrue` is
`CutOffMarked` and `LogsOfWholeText`; `ClientsAnswered` is `CancelAnswered` and
`CompletedIsRead`.

Most modules also have a type invariant. The proofs use them; the runs leave them
out because every other property would fail with them.

### Bounds, and why they are enough

* **Geometry.** The deployed numbers (block 2304, hash unit 1152, tile 16, cap
  4608) enter only through their ratios and through comparisons, so the runs
  scale them to block 4, hash unit 2, tile 2 (a chunk may start at a half block,
  and a prompt length can be on neither grid, on the finer one, or on both).
  `MaxPrompt = 17` is four blocks and one token: first, middle, last and tail
  chunks all occur, and `Budget = 13` lets one offer span three blocks.
  `MaxReplay = 3` lets a resumed request's replay cross a hash boundary.
* **Requests.** Three. The cadence and the planner distinguish one request from
  "another" and from "a third that changes the set" (the served, the passed
  over, the newcomer); starvation needs two that alternate and one that starves.
  The cadence and growth properties are proved for any set of requests.
* **Fair planner.** Spans of 1 and 5 tokens under a cap of 4: a tail, and a
  prefill that needs more than one grant. Budgets of 7 and 9 beside up to two
  decoders make both budgets bind. Cap 0 is the mode being switched off.
* **`serving`.** Prompts of 25, 9 and 3 tokens with caps 8/4: a prompt of
  several chunks, one that fits in a few blocks and may hit the cache, and a
  short one that comes again and again. The context holds 29 tokens
  (`MaxModelLen`), which the long request fills to the last: its two drafts are cut
  to one and to none. Ten blocks hold any single request and not all three, so
  requests are preempted, by others and by themselves.
* **Windows.** One draft (`SpecTokens = 1`) in a block of 4, so that two windows
  fit a block and rule 1's margin is met from both sides; 2 and 3 drafts were
  checked as well. Six computed output tokens (`MaxOut`) cross a block boundary
  from every residue.
* **Policy.** Two requests, depths 1 to 4 (BaseK 2, two required turns: two
  consecutive deepenings, and streaks that are one short). Warm-up 1, a probe
  every second turn and two agreeing turns (8, 16 and 4 in the code) make every
  turn kind follow every other. Three changes of the file (`MaxWrites`) are
  a replacement while it is read, then a disappearance and a return.
* **Collectives.** Four ranks, as both require. `SeqMod = 8` with six operations
  completed before makes the sequence number wrap within three calls; 2 or 4
  slots are the least the code accepts for calls of one or two chunks. The ring's
  scenarios are a call sequence that uses each parity and slot twice, with rank
  0 at any speed relative to the others (`Reuse`), several chunks, CTAs and slots
  (`Wide`, `Long`), and a premature time-out (`Late`). In the ring, ranks that are
  not `free` take their steps in a fixed order: the interleavings among three
  lagging ranks are not examined by TLC. The proofs of `RingProofs` cover every
  interleaving, sequence of calls, size, number of slots and CTAs.
* **Registry.** Two boundaries compete for a cap of one, so that every second
  record evicts; three blocks are a captured boundary of two groups and one
  block to move to. Three registrations (`MaxEpoch`) are a complete boundary and
  the first group of the one that evicts it, or a boundary captured, evicted and
  begun again. One tail of the image's own at a time (`MaxNative`) is enough for
  a stale record to meet a reused block, which is how `admit` comes to refuse a
  hit. The proofs cover all of this without bounds.
* **Responses.** One response: responses share only the loop, which the actions
  have built in, and the proof covers any number. Two readers are what it
  takes to clear a signal for somebody else; they ask from the start or behind
  the third event (`Skips`), which may be the first item, the last event of all, or
  not there yet. The violated runs skip two, which every stream has. Two items let
  an event arrive while a reader waits, looks or is held up by its client.
* **Items.** Six pieces in deltas of up to four are two calls with arguments, text
  between and after them, and a tail that arrives with all of it.

In the planners run the two requests that may think are symmetric, and keys,
groups and blocks are in the registry runs: they are compared for equality only.
The other runs use no symmetry.

`CHECK_DEADLOCK FALSE` is set for the chunk runs (a prefilled prompt takes no
more chunks, a request that has left does nothing), for the serving run (an
engine whose requests are all finished idles) and for the two collectives (the
calls end), and for the responses runs (answers end). `NobodyStuck` and `CallsReturn` say there what a deadlock would be. In the open modules a step is always possible and deadlock is
checked.

### Fairness

* `ServingScheduler`: `[]<>~Working \/ []<><<Step>>_vars`, which is
  `WF_vars(Step)` with its enabling condition written out (`Step` is enabled
  exactly while a step is under way or a request is live). The engine's busy loop
  justifies it: it calls `step` again as long as there are unfinished requests,
  and the scheduler's loops are ordinary terminating code. Nothing is assumed of
  clients (arrivals and aborts), of acceptance, of stop tokens or of prefix hits:
  requests end at `max_tokens`.
* `PolicyBridge`: weak fairness of `Engine` (the same loop) and of `Tick` (time
  passes, so a poll becomes due). Nothing is assumed of whoever writes the file;
  `OverrideSettles` follows because the changes are finitely many.
* `RingRuntime`: weak fairness of the whole next-state relation: as long as some
  thread, kernel or NIC can take a step, one does. That is less than each of
  them being scheduled fairly, and it is enough because no behaviour is infinite.
* `ResponseServer`: weak fairness of each task's steps (`Begin`, `Generate`,
  `NeverRun`), of `CancelReturns` and of each reader. The event loop runs every
  callback that is ready, in the order in which they became ready; the engine
  ends every request (`Completes`, above); and the readers considered are those
  whose client keeps reading. Nobody has to cancel or ask.

`LeanRuntime` needs none: `NobodyStuck` is the invariant that a state without
successors is one in which everybody is done, and no behaviour is infinite.
Without fairness `Completes` and its like are trivially false. The violated
properties are safety properties, except `TerminalEndsReader`, which is checked
under the server's `Fairness`.

### Observations that are not findings

* A step may give no tokens to anybody: the whole cap is granted to a waiting
  prompt for which memory has no room, and no running prefill has a grant. The
  planner counts that as the prompt's turn, so it does not repeat for ever
  (`Completes`).
* Error and poison words of the all-reduce are sequence numbers, 0 meaning none
  (`lean_tp4.py:197`). A time-out of the operation whose number is 0, one in
  2^32 after the wrap, is not seen. Between a time-out and the watchdog's next
  round (10 ms) a captured graph may go on with an unwritten output; the process
  ends before a token of it is delivered only because the step takes longer.
* The settings are parsed outside the part of the constructors that is voted on
  (`lean_tp4.py:75`, `ring.py:146`): a malformed value on one rank raises there
  and leaves the others in their first vote.
* A decode step whose window crosses a block boundary in the middle gives the
  completed block up one step before it would be labelled. The cost is a missed
  reuse.
* The comment of `RequestHistory` fears a policy that is locked low. It is not:
  the desired depth is one more than the average, and every probe runs at full
  depth (`NotLockedLow`).
* A cancelled background stream ends without a terminal event, and its readers
  wait on. So do those of a stream that failed. No document says what they
  should see.
* A reader that asks from behind the last event of a completed stream, as one that
  has seen all of it and asks again does, waits for ever:
  `responses_background_stream_generator` begins at `starting_after + 1` whatever
  the stream's length (candidate `serving.py:1294`), and returns only on passing
  `response.completed`. No document says what such a reader should see, so
  `CompletedIsRead` speaks of readers that have the end still before them; the run
  has the others too, and their waiting is no loss of an event (`NoLostWakeup`).
* A task that polls and is interrupted ends in the branch for failed requests;
  only the guard there keeps the response cancelled (the mutant of `Failed`).

* For a prompt of an odd multiple of the hash unit (3456 tokens) R(P) is 1152,
  before the last cache position 2304. The boundary is then no stop and no state
  is kept at R(P), although `docs/configuration.md:84` reads as if one always
  were. The cost is a shorter hit, never a wrong state.
* A long prefill that was passed over is protected in the next plan, ahead of the
  tails, and takes the whole cap, which passes over the other long prefill. Two
  of them keep a short newcomer waiting in every plan while both last: the bound
  of `LongBypassBounded` has no counterpart for tails (`docs/configuration.md:69`
  speaks of newcomers too).
* The last delta may join content from both sides of a call
  (`parser/abstract_parser.py:1009`); `content_logprob_span` then looks for the
  joined text as one stretch, and finds one only where hidden text happens to be
  equal to it.

### Findings

1. **A junction after a half-block hit is lost** (`chunk_junction`). With
   the replay boundary on, the patch removes the stop at the next block boundary
   for a chunk that starts inside a block, but the junction stop is still
   computed as whole blocks *from the chunk's start*. It is off the grid, caches
   nothing, and the chunk runs past the junction's block. The comment at overlay
   `scheduler.py:471` promises that state to sibling requests.
2. **A drop may take an entry of the image's own** (`registry_native`). A
   record outlives the eviction of its block. When the pool reuses that block
   for the image's own partial tail of the same prefix, `_drop` of the boundary
   finds the block mapped under the entry's hash and unmaps it, although
   `glm53_replay_boundary.py:31` and `:256` say that such entries are left
   alone. The cost is a recomputed prefix, never a wrong state (`HitSound`).
3. **A polled response that fails stays queued** (`responses_failed`). Only
   `CancelledError` becomes an `ErrorResponse`; a `GenerationError` ends the task
   and nobody updates the store, although the comment at candidate
   `serving.py:1273` says that a failed request becomes `failed`. Its client polls
   for ever.
4. **Readers of an incomplete background stream wait for ever**
   (`responses_reader`). They stop only at `response.completed`
   (candidate `serving.py:1304`); a response that ran out of budget ends with
   `response.incomplete`, as `test_responses_identity.py:136` asserts.

## 4. Proofs

Checked by `tlapm` on each of the eight modules below. They hold for every set
of requests, groups, keys, blocks and participants, finite or not unless an
assumption says so, and every value of the constants the assumptions allow.

**`SchedulerProofs`** has the two planners, each on its own, and the engine step
that composes them.

The cadence, from `SelectorAssumption` (the import-time checks on the two
selectors: they exclude each other, the burst is at most 16). The properties of
`OpenCadence` speak about history: who was passed over, who had a turn. The
code keeps only debts. The inductive invariant ties the two together:

* `DebtInv`: whoever has been passed over and not served since is still in
  `owed_decode`; whoever has had no turn is in `first_debt`, and a debt implies
  a decoder that started since the last converted turn. This is needed because a
  repay step may serve only some of the decoders.
* `BurstInv`: an owed decoder's own counter is at least the number of turns it
  has really sat through, and `burst_run` bounds the converted turns in a row.
* `PlannedInv`: between `begin` and `observe` the chosen kind agrees with the
  debts `begin` saw.

Theorems: `CadenceTypeCorrect`, `CadenceNoDoubleWithhold`, `CadenceFirstTurn`,
`CadenceRepayOnce`, `CadenceBurstBounded`.

The fair planner, from `RequestAssumption` (finitely many requests are known),
`FairAssumption` and `TurnAssumption` (counts, caps and spans are numbers).
The code's queues are filtered all the time, so everything rests on what a filter
returns: `OnlyIs` says that it keeps exactly the members asked for, each as often
and in the order it had them. `TurnInv` is the inductive invariant. `WaitInv`: a
long prefill that was passed over is in `deferred_long`, and the number of plans
that did so, together with the number of requests in front of it in the queue,
stays below the number of requests. `PlanInv` is about the plan under way: either
no token is granted and the first of the protected prefills is at the head
(`Unspent`), or a request has tokens that no protected one is in front of
(`Taken`). So a plan that passes over a protected prefill has given tokens to a
request in front of it, `observe` puts that one at the end of the queue, and fewer
are in front than before (`BeforeShrinks`). From it `LongPrefillsGetTheirTurn`
(`LongBypassBounded`), for every set of requests.

The engine step, from `RequestAssumption`, `FairAssumption`, `BlockAssumption`,
`SplitAssumption` and `ServingAssumption` (prompts and answers are not empty, the caps
are whole blocks, a prompt with its answer fits in the context and the context in
the pool: the server refuses longer prompts, candidate `serving.py:279`, and
`get_max_tokens` cuts the answer, `serving.py:429`). `CoreInv` is inductive through
every action, in the middle of a step as between steps:

* `Typed`: the types, and those of the loop's own variables.
* `QueueInv`: `running`, `waiting`, `skipped` and the step's own skipped queue hold
  the live requests, each once, in agreement with `status`.
* `TokenInv`: a running request has at least one token to compute, and what it has
  computed and is given stays within its tokens and drafts. Without it taking back
  rejected drafts could make a position negative.
* `BlocksInv`: the pool is not overdrawn and a running request holds blocks for
  what it has computed and is given; a request that does not run holds none.
* `SeenInv`: the loop has given nothing to those it has not come to, so giving a
  request its tokens never overwrites a promise the budgets have paid for.

How many blocks are free is a sum over all requests (`FoldSet`). The prover cannot
unfold a fold over an arbitrary set, so `TotalIs`, `TotalChange` and `TotalEven`
give what changing one, none or each of the terms does to the sum; they argue by a
least subset for which the claim is wrong (`EverySubset`), as the library's
induction theorems cannot be used.

Theorems: `ServingTypeCorrect`; `NothingIsMislaid` (`NothingMislaid`); and
`ServingImplementsLifecycle`, the refinement: under the mapping each action is a
`Submit`, a `Cancel`, a `Deliver` or a stutter.

`HeldInv` is inductive beside `CoreInv`. `ShareInv`: beside decoders the step is
contended, and the grants made together with those still to be made stay within
the step's cap. `WithinGrants`: no prefill is given more than its grant. `OfferInv`:
nobody the cadence withholds has tokens, and the one prefill of a prefill-only step
cannot finish its prompt in it. From it `PrefillsAreHeldBack` (`PrefillsHeldBack`).

`DecodersAreServed` (`DecodersServed`) needs one assumption more,
`BudgetAssumption`: full-depth queries of all sequences fit in both budgets of a
step. The bridge insists on 14336 tokens (`glm53_speedup/scheduler.py:179`) and the
recipes run at most 16 sequences with 7 drafts (`docs/configuration.md:253`), which
is 128 tokens. `BudgetInv`: while the running loop is on its way, the budgets cover
what every request ahead of it may still claim, a decoder its last
token with all its drafts and a prefill its grant; until the grants are made they cover the reserve, which is why
the planner subtracts it first. So the loop never comes to a decoder with too little
left (`ServedInv`), and what a decoder is given is cut by nothing but the context
(`RoomForDrafts`), which always has room for the token it samples (`InContext`).
`MissedInv`: a decoder that a step left without tokens is in
`owed_decode`, which keeps the next step from being prefill-only.

**`PolicyProofs`**, from `GrowthAssumption` (1 <= BaseK <= TopK, Required >= 1),
`BridgeAssumption` and `EmaAssumption`. Of `OpenGrowth`: `EvidenceInv` says that while a turn is open, `members` and `cap` are the batch
and depth of that turn, and `MemberInv` that a member still due has had no
feedback and no longer a streak than its proven turns, and that an observed
member has either lost its streak at the base depth or was observed once, in
full. Above BaseK the first alternative is impossible because it closes the
turn, which is why a failure cannot be forgotten. `KeptProven` carries this over `choose`,
`DeepenProven` gives the two results about steps.

Theorems: `GrowthInvariant`, `GrowthTypeCorrect`, `GrowthFailureWithdraws`, and the
action property `GrowthIsEarned`.

Of the bridge: `BatchInv` gives
`BridgeImplementsGrowth`: every step of the bridge is a step of `OpenGrowth` or
leaves it alone, so what is proved of it holds of the bridge
(`PolicyFailureWithdraws`, `PolicyGrowthEarned`). `OverrideInv` ties the reader's
memory to the file: what has been read so far is the content of the inode that was
opened, a stamp identifies one content, and the content has been under the path
since the poll began. From it `PollsReadTheFile` and `StampsTellSettings`.
`CountInv` bounds the code's count of agreeing turns by the history's and gives
`DepthIsConfirmed`.

**`RegistryProofs`**, from `NoneAssumption` and `UseAssumption` (the markers are
no groups, records or labels). The invariant has three parts:

* `RegInv`: every tag leads to a current record of its entry (`Owned`), and a
  mapped block that is no tail of the image's own is recorded, tagged and mapped
  alike (`Accepted`). `DropKeeps` shows that any drop keeps both because it takes
  record, tag and mapping of a block together; `RecordKeeps` follows for any
  choice of victims, so nothing need be known of the order of use.
* `Slots`: a running slot's registered state belongs to the group that holds it.
  Without it `moved` might not recognise the entry that copy-on-write moves.
* `StateInv`: a mapped block will hold its state once the model has run; it holds
  it already unless it was registered or filled in this step, and then its hash
  is fenced. A hit passes the fence, so its state is already there.

Theorems: `RegistryHitSound`, `RegistryTagsOwned`, `RegistryHitsAccepted` and
`RegistryCaptureSurvives` (`CaptureSurvives`). For the last, `_enforce_cap` must be
known to spare the entry being recorded, which is incomplete and so among the first
to go; then `DropSpares` shows that dropping other entries takes neither a record
nor a tag nor a mapping of this one. Which of the others go, and in which order,
does not matter: the proof holds for every order of use.

**`StartProofs`**, from `StageAssumption` (the order of the stages in both
constructors). `Passed(n)`: all ranks have contributed to the first n stages,
nobody an error, and a difference of settings has not gone past the comparison.
`Spoiled`: an error or a difference that is there for ever. `StartInv` says that
a rank has passed what it has got through, and that a rank that gave up leaves a
spoiled construction; since a vote once cast stays, the two exclude each other,
whatever the order in which the ranks read it. Both transports use its lemmas.

**`LeanProofs`**, from `ScenarioAssumption` (calls of one or two chunks, at least
two slots per chunk, a word space more than twice the slots) and the assumptions
of the construction. The four ranks' progress is a ladder: a rank joins operation
n only after it has paired n, pairs it only after its peer has staged it, and
`Ladder` bounds what is staged and not joined by half the slots. Everything else
is measured against it:

* `KernelInv`: where the kernel stands in its call, and that a rank with no error
  word set has completed every call before. A poisoned rank walks through its
  rounds without effect.
* `ProxyInv`: doorbell, posted number and completions follow one another, and the
  NIC is never behind what the peer has used. So a word, although it wraps, names
  only one operation that can still be under way.
* `SendInv`: a send slot holds its newest operation, so nothing that has still to
  be read is written over.
* `FlagInv`: every receive slot holds an operation recent enough that an equal
  word cannot be an old one.
* `HealthInv`: a proxy fails only for its peer, and without premature time-outs
  nothing fails.

`LeanInvariant` is that invariant; from it `OutputsAreRight`, `NoLossIsQuiet`,
`DoorbellsSuffice`, `StartIsCollective` and the refinement `LeanKeepsLockstep`, for
every plan of calls, number of slots and queue pairs, and any start of the
sequence numbers.

**`RingProofs`** has four parts.

* The lockstep, from `WindowAssumption` and `BuffersAssumption` (at least two
  buffers per open operation, which both transports check at start). `LockstepInv`
  is the inductive invariant: nobody has left an operation that somebody has not
  entered, and nobody is more than a window ahead of what it has left. From it, two
  windows bound the skew (`SlotsAlwaysSuffice`): two participants that are inside
  operations of the same buffer are inside the same operation. Both transports
  refine `Lockstep`, so this is why slots and parities need no acknowledgement, for
  any number of ranks.
* The plan, for every geometry (kind, block length, chunk count).
  `SendsDependBack`: what a send relays was produced by an earlier item.
  `WaitsPointBack`: an item waits only for a send that the neighbour lists earlier,
  so list positions are a measure that every wait decreases and no circle of
  waiting exists. `StepsFit`: the completion arrays are large enough.
  `MergeIsExact`: the merged list holds every item of the streams once; the items
  before (stream, step) are counted by `Ahead`, which grows by exactly one from
  each item to the next, so a least counter-example cannot exist.
* The construction: `RingIsCollective`.
* The transport, from `ScenarioAssumption` and the assumptions of the construction.
  `RingInvariant` is the inductive invariant `RingInv`. It says of each direction
  where the kernel, the proxy and the NIC are, and that none is ahead of what feeds
  it (`KernelInv`, `BaseInv`, `CursorInv`); that what is posted has its data and
  what is worked had its flags (`PostInv`, `DepInv`); what the staging slots and
  their words hold from the time a chunk is staged until it is sent (`StageInv`,
  `WordsInv`); that a flag that is set names a write that was done, with the right
  chunk, and a write that was done has set it (`FlagInv`, `LandInv`); and that what
  has been written of an output is right (`OutInv`).

  No part is inductive alone. The argument that a write lands in a free area goes
  once around the ring: a rank may send in call n only if it has returned from
  n - 2, whose outputs needed writes of its neighbours, which had to post them, for
  which they had to have received others. `ReturnedSent` and `ReturnedEntered` follow
  it from item to send to item, using `MergeIsExact` (all items were worked) and the
  plan's tables; `WritesLandFree` concludes that the neighbour has returned from
  n - 2 and has relayed from it whatever it had to. With that, an area's new contents
  disturb nothing that is still to be read, and `FlagInv` and `PostInv` survive
  the write.

  From it `RingOutputRight`, `RingBuffersIntact`, the refinement
  `RingKeepsLockstep`, and with `HealthInv` (as long as no wait has given up, no
  proxy fails and whoever closed had sent everything) `RingIsShared`.

**`StateProofs`**, from `PromptAssumption` (block, hash, tile and EAGLE units are
positive, a block is whole hash units and a hash unit whole tiles) and
`WindowAssumption` (a verify window fits a block). Three facts about the rules
stand alone: `SkippedRowsWait` (the host skip leaves out nothing that rule 1 would
commit), `DeferredStaysInItsBlock` (after a deferred commit the next window cannot
leave the block, so nothing is copied out of it before the commit lands),
`ReservationCovers` (the pool is never asked for more state blocks than were
reserved).

The rest is the induction over `HybridSpec`. The invariant is `StateInv`; between
steps, what it says of the blocks (`Kept`) is

* `Place`: how many blocks there are, that only the running block may have a label
  inside it and that `tail` says so, and that labels tell the truth. While the
  prompt is prefilled the blocks end with the running one and `cached` is exact.
* `RunsIn`: the running block is real and has the state of the computed tokens, or
  a commit is deferred.
* `Spare`: a block beyond the running one is real and has no label, so a label
  cannot be on a block that the next verify writes.
* `Pending`: a block that is full, real, not labelled yet and not known to be short
  holds the state of its end. Without this, `cache_blocks` could label a block
  that was filled some steps ago with a state it does not have.
* `ShortKnown`: `partial` knows of a block whose state is short of its end, if a
  replay boundary applies. With no boundary the chunk must stop at the next block
  boundary instead, which is the last conjunct of `Taken`.
* `Due`: a deferred commit is one write of the computed tokens' state, into a block
  that the next window does not leave.

Every rule of `StateSlots` is first turned into a relation between the blocks
before and after (`FreedIs`, `AllocatedIs`, `CachedIs`, `RanIs`, `WroteIs`), and
the chunk split into what it guarantees (`PlanIs`, `SplitIs`: where the chunk ends,
that its states belong in different blocks, that the stops a later prompt looks for
are exported where the chunk passes them).
`ChunkKeeps` composes them for a chunk, `ReadyIs` for a verify up to the point where
its state is read; from there `CommitKeeps` and `DeferKeeps` go the two ways a commit
can take, and `FlushKeeps` is rule 2. When the request leaves, `LeaveInv` and
`ReusedInv` show that labels go with the blocks and no commit follows them.

From `StateInvariant`, for every prompt, block size, window, budget and number of
exports: `CacheTellsTheTruth` (`LabelsTrue`), `RunningStateIsRight` (`RunningTrue`),
`PromptsStayCached` (`StatesCached`) and `OffersCarriedOut` (`OffersHonoured`: an
offer that is large enough is taken, the blocks reserved suffice, the allocation's
assertions hold and the workers accept the plan).
The divisibilities of `PromptAssumption` are needed only for the workers to accept a
plan (`PlanAccepted`): a boundary is a whole number of tiles because a block and a
hash unit are.

**`ServerProofs`**, from `SkipsAssumption` and `MaxItemsAssumption`. `TaskInv`
ties what the store says to what the task may be doing: a background task that
runs and is not being stopped has a queued response, one that is being stopped a
cancelled one. `StreamInv`: an outcome is announced only when the task is over
and the store has it. Both are needed, because the code checks the status only
where it stores and never where it announces. From them every step is a step of
`Verdicts` or leaves it alone (`OutcomesDecidedOnce`), and `AnnouncementsHold`.
`WakeupsAreNotLost`: however many readers clear a signal for one another, one that
waits has read every event, because a new event wakes all that wait and a reader
begins to wait only in the step in which it has found nothing new.

Of the items of a stream, for every number of pieces and of pieces in a delta:
`RunInv` says what the events so far amount to, the items that are done and the
one that is open, and every part of every delta keeps it (`ToldInv`). From it
`ItemsAreTold` and `ClientsAgree` (`ClientAgrees`). `KeptInv` adds that arguments
can only follow while a call is open, since the last piece generated was then part
of it: so a stream that is cut off in a call has that call open, which is what
marking the last item relies on, and with `KeptRun` for the log-probabilities this
gives `WhatIsSaidIsTrue` (`KeptTrue`).

`NothingIsLost` (`NothingLost`) needs more than what stands at the end of a delta: what
stands after each of its parts. `Good(s, ps, done)` says that the items of a run `s`
hold the pieces `done` of a generation `ps` and nothing else, and that the open call
is the one its name begins. Each kind of part takes it from some pieces to more of
them, under a condition of its own: a text adds all of its sort that is left
(`TextPart`), the arguments of the open call go on with it (`OldCallPart`), and a
call that is new has a name and comes after every name before it (`NewCallPart`).
`split_delta` meets those conditions by its order: a group without a name is the
one that begins the delta, and goes on with the open call (`NamelessHead`), so it
comes before anything closes that call (`OldStage`); then the texts (`TextStage`);
then the new calls in the order of their names (`NewStage`). A delta that is not
split is one of the three (`WholeStep`). `LostInv` is `Good` of all that was
generated, and also says that no part is refused; that the open call is there when
arguments come first is from `KeptInv`. Sequences are compared as
the rising sequence of the numbers of a set, which is unique (`AscendingOnly`), so
that two selections of the generation are equal when their sets are.

The loop over the parts of a delta and the
flattening of sequences are functions on an interval: what holds of them for every
length is taken from a least length at which it would fail.

**Only model-checked**: `Completes`, `OverrideSettles`, `NotLockedLow`, `CallsReturn` and
`ClientsAnswered`, because liveness under fairness is out of the prover's reach;
and `NobodyStuck`, which is about `ENABLED`. Every other property of the passing
runs is stated by a theorem. Where an argument needs induction over numbers, as that
of the merged list does, it takes a least counter-example instead (`LeastExists`,
from the library's well-founded orders), which needs no operator as a parameter.

## 5. Not modelled, and why

* Connectors, encoders, LoRA, structured output, streaming sessions, pausing
  and asynchronous scheduling: the profiles run without them and the bridge
  refuses most of them at start.
* The policy's cost tables (mode `cost`) and mode ema4: other formulas for
  the same choice of depth, under the same counters.
* The recurrence of the state kernels, its two record buffers and the rows of
  the convolution; the block pool's order of eviction (any free block may be taken).
* The FP8 conversion of the ring, the order of additions of the all-reduce, and
  what a NIC does beyond the order of one queue pair.
* The votes of the sharded residual streams (`mhc_prefill_sharding.py`), which are
  taken per step, and the ring's two-second limit on close, which is modelled
  only where a peer died.
* Kernels, tensor layouts, telemetry, launch scripts, source import,
  UTF-8 guard and greedy verification: numerical, sequential or pure I/O.
  They are most of the repository's lines.
* Of the Responses server: the Harmony path (another model), parsing a whole
  answer at once, conversations across responses, requests that are not stored;
  the chat-completions server. The engine inside the output parser is not in the
  repository. The store is never emptied, so nothing of it is forgotten.
* Two ends of a Responses stream that the parser calls truncated. `EndStream` marks
  a cut-off only while the parser is inside a call that the client has been told of.
  With `tool_choice` "none" the calls are stripped from the delta
  (`parser/abstract_parser.py:690`) but the parser's `tool_call_truncated` is still
  passed on (`parser/engine/adapters.py:179`), and a call may be cut off before its
  name. `close_current` marks only an open call, so in the first case, and in the second
  unless a finished call is still open, it marks nothing. `CutOffMarked` says
  nothing of either.
* A negative `starting_after`.
* The alignment of log-probabilities with visible content: a search for a text in
  one string.
* The content of KV blocks and states: only positions and counts.

## 6. Plan

1. **Two requests in `HybridState`**, so that hits on labels of the same step and
   the reuse of blocks are steps of a second request.
2. **Per-step votes** of the sharded residual streams.
3. **Conversations**: a follow-up on a response that is still queued, was
   cancelled or was cut off, and the message store.
