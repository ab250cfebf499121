----------------------------- MODULE HybridState -----------------------------
(***************************************************************************)
(* ChunkedPrompt with the blocks that hold the request's recurrent states, *)
(* and the decode steps that follow: the workers verify drafts from the    *)
(* running block and commit the accepted ones (RecoverSSM,                 *)
(* src/tp4/vllm/models/glm5next/nvidia/ops/recoverssm.py), where the fused *)
(* commit (GLM53_RECOVERSSM_FUSED_COMMIT=1) leaves most commits to the     *)
(* next step's verify.                                                     *)
(*                                                                         *)
(* The other requests appear as what they can do to these blocks: run a    *)
(* step without this request, hit its labels, or take over its blocks once *)
(* it has left.                                                            *)
(***************************************************************************)
EXTENDS ChunkedPrompt, Sequences

CONSTANTS
  SpecTokens,   \* num_speculative_tokens
  MaxOut        \* bound: tokens computed beyond the prompt

ASSUME WindowAssumption ==
  Block \in Nat /\ SpecTokens \in Nat /\ SpecTokens + 1 <= Block

INSTANCE StateSlots

VARIABLES
  slots,        \* see StateSlots
  deferred,     \* the commit left to the next step: the tokens it brings the
                \* running block to, and the boundary it writes, 0 if none
  given         \* the running block after the request has left: what it holds
                \* and who has it, "self", "pool" or "other"

hybridVars == <<slots, deferred, given>>

Here   == given.owner = "self"
Theirs == -2    \* the state of another request

NoCommit == [to |-> 0, boundary |-> 0]

\* spec_query_len, the longest verify window.
SpecQueryLen == SpecTokens + 1

HybridInit ==
  /\ Init
  /\ slots = Admitted(hit)
  /\ deferred = NoCommit
  /\ given = [owner |-> "self", holds |-> Junk]

-----------------------------------------------------------------------------
\* allocate_slots: blocks are given up, allocated and labelled, in this order.
Scheduled(exports, end, final, prefillEnd, inside) ==
  CachedUpTo(Allocated(Skipped(slots, computed), exports, end),
             final, exports, prefillEnd, inside)

\* Positions inside a block that get a label when a chunk ends there.
InsideLabels ==
  {FloorTo(prompt, HashUnit)}
    \cup (IF HasBoundary(prompt, tokens) THEN {ReplayBoundary(prompt)} ELSE {})

\* A step with a chunk of the prompt.
PrefillStep ==
  /\ Here
  /\ Next
  /\ slots' = Ran(Scheduled(last'.exports, last'.end, last'.end,
                            PrefillEnd(prompt, tokens), InsideLabels),
                  computed, last'.exports, last'.end)
  /\ UNCHANGED <<deferred, given>>

-----------------------------------------------------------------------------
\* A commit lands in the blocks it was planned for: the running block, and the
\* one that a boundary completes.
Landed(s, commit) ==
  IF commit = NoCommit THEN s
  ELSE Wrote(IF commit.boundary > 0 THEN Wrote(s, Cdiv(commit.boundary), commit.boundary)
             ELSE s,
             Cdiv(commit.to), commit.to)

\* The step copies the running state on when it may leave its block, before
\* any deferred commit is applied.
Precopied(s, computedNow, end) ==
  IF computedNow = 0 \/ Cdiv(end) = Cdiv(computedNow) THEN s
  ELSE Wrote(s, Cdiv(end), Running(s, computedNow))

\* Mutant of CommitsNow: a window that could reach the next block is left out.
CommitsNowCrossing(from, to) == to \div Block > from \div Block

\* _fused_split_kernel, rule 1: a commit that completes a block, or after which
\* the next window could reach the next block, is not deferred.
CommitsNow(from, to) ==
  \/ to \div Block > from \div Block
  \/ (to % Block) + SpecQueryLen > Block

\* Mutant of HostSkip: the window is only held inside its block.
HostSkipWide(from, query) == (from % Block) + query <= Block

\* _glm53_rule1_host_skip: the host proves that rule 1 would commit nothing for
\* this row; the other rows of the batch decide as well.
HostSkip(from, query) == (from % Block) + query <= Block - SpecQueryLen

\* A decode step with k drafts that computes n more tokens: the sampled one
\* and those of the drafts that were accepted.  Every decode row is verified,
\* without drafts as well.  A deferred commit is handed to the verify that reads
\* its block, or else flushed by the build (prepare_fused): either way it lands
\* after the copies of the step and before its state is read.
DecodeStep(k, n) ==
  LET end    == computed + 1 + k
      to     == computed + n
      ready  == Landed(Precopied(Scheduled({}, end, computed + 1, 0, {}), computed, end),
                       deferred)
      right  == ready.blocks[Cdiv(end)].holds = computed
      commit == [to |-> to,
                 boundary |-> IF to \div Block > computed \div Block
                              THEN FloorTo(to, Block) ELSE 0]
  IN  /\ Here
      /\ computed >= PrefillEnd(prompt, tokens)
      /\ to <= prompt + MaxOut
      /\ computed' = to
      /\ last' = [start |-> computed, end |-> to, exports |-> {}]
      /\ IF ~right
         THEN slots' = Wrote(ready, Cdiv(to), Junk) /\ deferred' = NoCommit
         ELSE \E skip \in {FALSE} \cup {HostSkip(computed, k + 1)} :
                IF ~skip /\ CommitsNow(computed, to)
                THEN slots' = Landed(ready, commit) /\ deferred' = NoCommit
                ELSE slots' = ready /\ deferred' = commit
      /\ UNCHANGED <<kda_ckpt, prompt, tokens, shared, hit, saved, given>>

\* Mutant of Absent: the deferred commits wait for the next verify.
AbsentLeft(commit) == commit

\* flush_absent_requests, rule 2: the part of a deferred commit that is left
\* when a step without its request starts its work.
Absent(commit) == NoCommit

\* The engine runs a step that leaves the request out.
SkippedStep ==
  /\ Here /\ deferred # NoCommit
  /\ slots' = Landed(slots, deferred)
  /\ deferred' = NoCommit
  /\ UNCHANGED <<vars, given>>

\* The request finished, was aborted or preempted; its blocks go back.
Leave ==
  /\ Here /\ computed > hit
  /\ given' = [owner |-> "pool", holds |-> Running(slots, computed)]
  /\ slots' = Freed(slots, DOMAIN slots.blocks)
  /\ UNCHANGED <<vars, deferred>>

\* The next step gives the block to another request.  Deferred commits of
\* absent requests land first; then the new owner's state is written; then the
\* build hands out or lands what is still deferred.
Reused ==
  LET left == Absent(deferred)
  IN  /\ given.owner = "pool"
      /\ given' = [owner |-> "other",
                   holds |-> IF left = NoCommit THEN Theirs ELSE left.to]
      /\ deferred' = NoCommit
      /\ UNCHANGED <<vars, slots>>

HybridNext ==
  \/ PrefillStep
  \/ \E k \in 0..SpecTokens : \E n \in 1..k + 1 : DecodeStep(k, n)
  \/ SkippedStep
  \/ Leave
  \/ Reused

HybridSpec == HybridInit /\ [][HybridNext]_<<vars, hybridVars>>

-----------------------------------------------------------------------------
\* The type invariant.
HybridTypeOK ==
  /\ slots.cached \in Nat /\ slots.tail \in 0..Len(slots.blocks)
  /\ slots.partial \subseteq 1..Len(slots.blocks)
  /\ deferred.to \in 0..prompt + MaxOut

\* What the prefix cache finds under a label is the state after exactly that
\* many tokens, whether the request still runs in the block, has moved on or
\* has left, and while a commit is deferred: a hit resumes from it.
LabelsTrue == \A b \in Labels(slots) : b.holds = b.label

\* Between steps the running block holds the state of the computed tokens, or
\* the deferred commit brings it there before anyone reads it; a deferred
\* commit never lands in a block of another request.
RunningTrue ==
  /\ (Here /\ computed > 0) =>
       Running(Landed(slots, deferred), computed) = computed
  /\ given.owner = "other" => given.holds = Theirs

\* A prompt that is prefilled can be hit at the positions a later prompt will
\* look for: its last cache position unless R(P) supersedes it, and R(P) when
\* it is a stop, if they lie beyond the prefix it started from; and wherever
\* the chunk split counts a state as saved.
StatesCached ==
  LET hits == {b.label : b \in Labels(slots)}
  IN  /\ saved \subseteq hits
      /\ (tokens = prompt /\ computed >= prompt) =>
           {p \in {CacheStop(prompt, tokens), TailBoundary(prompt, tokens)} :
              hit < p /\ p < prompt} \subseteq hits

\* Whatever the next offer, the blocks that allocate_slots has reserved are as
\* many as the allocation takes, its assertions hold, and the workers accept
\* the plan.
PlanCarriedOut ==
  /\ PlanAccepted
  /\ (Here /\ computed < PrefillEnd(prompt, tokens)) =>
       \A n \in 1..Budget :
         LET split == Split(computed, n, prompt, tokens, shared, Budget)
             kept  == Skipped(slots, computed)
             end   == computed + split.n
         IN  split.n > 0 =>
               /\ Drawn(kept, split.exports, end) <= Reserved(kept, split.exports, end)
               /\ AllocationSound(kept, split.exports, end)

\* An offer that is large enough is taken, and what is taken can be carried out
\* by the allocation and the workers (_mamba_block_aligned_split,
\* plan_prefill_chunk).
OffersHonoured == PlanCarriedOut /\ OfferTaken
=============================================================================
