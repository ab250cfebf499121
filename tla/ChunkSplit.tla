----------------------------- MODULE ChunkSplit -----------------------------
(***************************************************************************)
(* Where a prefill chunk may end: _mamba_block_aligned_split of the        *)
(* scheduler with the tp4 patch, the replay boundary                       *)
(* (src/tp4/glm53_replay_boundary.py) and the in-chunk KDA checkpoint plan *)
(* (src/tp4/glm53_kda_ckpt_plan.py).                                       *)
(*                                                                         *)
(* The prefix cache keeps recurrent states at a few positions of a prompt. *)
(* A state exists only where a chunk ends, or where the chunk exports it   *)
(* from inside (a checkpoint plan).  The operators here decide both.       *)
(***************************************************************************)
EXTENDS Tokens, FiniteSets, FiniteSetsExt

CONSTANTS
  HashUnit,     \* hash_block_size = drafter block, 1152 tokens
  Tile,         \* KDA prefill tile, CHUNK_TOKENS = 16
  EagleUnit,    \* cache_config.block_size, dropped before the last cache position
  MaxExports,   \* GLM53_KDA_CKPT_MAX
  KdaCkpt,      \* GLM53_KDA_CKPT = 1
  ReplayOn      \* GLM53_REPLAY_BOUNDARY = 1

ASSUME SplitAssumption ==
  /\ {HashUnit, Tile, EagleUnit} \subseteq Nat \ {0}
  /\ MaxExports \in Nat
  /\ Block % HashUnit = 0 /\ HashUnit % Tile = 0
  /\ KdaCkpt \in BOOLEAN /\ ReplayOn \in BOOLEAN

\* The block-table column that holds the state after p tokens.
Column(p) == (p + Block - 1) \div Block - 1

\* replay_boundary: R(P), the longest prefix a replay of the prompt can hit.
ReplayBoundary(prompt) == Most(0, FloorTo(prompt - 1, HashUnit) - HashUnit)

\* last_cache_position: a block boundary, one drafter block dropped.
LastCachePosition(tokens) == Most(0, FloorTo(tokens - EagleUnit, Block))

\* request_boundary applies: pure prompt prefill with a positive R(P).
HasBoundary(prompt, tokens) ==
  ReplayOn /\ tokens = prompt /\ ReplayBoundary(prompt) > 0

\* tail_boundary: R(P) takes the place of the prompt's last hash boundary.
TailBoundary(prompt, tokens) ==
  IF ~HasBoundary(prompt, tokens) THEN FloorTo(prompt, HashUnit)
  ELSE IF /\ LastCachePosition(tokens) < ReplayBoundary(prompt)
          /\ ReplayBoundary(prompt) < prompt
       THEN ReplayBoundary(prompt) ELSE 0

\* The last cache position as a stop: R(P) supersedes it when no state can
\* be exported from inside a chunk.
CacheStop(prompt, tokens) ==
  IF HasBoundary(prompt, tokens) /\ TailBoundary(prompt, tokens) > 0 /\ ~KdaCkpt
  THEN 0 ELSE LastCachePosition(tokens)

\* Mutant of Stops: the boundary is not a stop of its own.
StopsNoTail(start, end, prompt, tokens, shared) ==
  {IF start % Block # 0 /\ ~HasBoundary(prompt, tokens)
     THEN FloorTo(start, Block) + Block ELSE 0,
   CacheStop(prompt, tokens),
   IF start < shared /\ shared < end
     THEN start + FloorTo(shared - start, Block) ELSE 0}

\* The mandatory stops of a chunk [start, end); 0 is no stop.  shared is
\* request.shared_prefix_boundary, 0 when no other request shares a prefix.
Stops(start, end, prompt, tokens, shared) ==
  LET cache == CacheStop(prompt, tokens)
      tail  == TailBoundary(prompt, tokens)
  IN  {IF start % Block # 0 /\ ~HasBoundary(prompt, tokens)
         THEN FloorTo(start, Block) + Block ELSE 0,
       cache,
       IF cache < tail /\ tail < prompt THEN tail ELSE 0,
       IF start < shared /\ shared < end
         THEN start + FloorTo(shared - start, Block) ELSE 0}

\* Mutant of Inside: a stop at the chunk's start still counts.
InsideClosed(start, end, stops) == {s \in stops : start <= s /\ s < end}

Inside(start, end, stops) == {s \in stops : start < s /\ s < end}

-----------------------------------------------------------------------------
\* Mutant of PlanChunk: the boundary is exported whatever its column.
PlanChunkClash(start, end, stops, boundary) ==
  LET inside == Inside(start, end, stops)
      exportable(s) == /\ s % Block = 0 \/ s = boundary
                       /\ (s - start) % Tile = 0
                       /\ Cardinality({t \in inside : t < s}) < MaxExports
      stop_at == Min({end} \cup {s \in inside : ~exportable(s)})
  IN  [end |-> stop_at, exports |-> {s \in inside : s < stop_at}]

\* plan_chunk (both planners; boundary 0 is the planner without replay
\* boundary): the stops before the first one that cannot be exported become
\* exports.  If the boundary's column would clash with another state of the
\* chunk, the chunk ends at the boundary instead.
PlanChunk(start, end, stops, boundary) ==
  LET inside == Inside(start, end, stops)
      exportable(s) == /\ s % Block = 0 \/ s = boundary
                       /\ (s - start) % Tile = 0
                       /\ Cardinality({t \in inside : t < s}) < MaxExports
      stop_at == Min({end} \cup {s \in inside : ~exportable(s)})
      exports == {s \in inside : s < stop_at}
      clash   == /\ boundary \in exports
                 /\ \E s \in (exports \ {boundary}) \cup {stop_at} :
                      Column(s) = Column(boundary)
  IN  IF clash
      THEN [end |-> boundary, exports |-> {s \in exports : s < boundary}]
      ELSE [end |-> stop_at, exports |-> exports]

\* The chunk's end before the stops: short of the prefill end it is floored
\* to a block boundary (alignment_limit leaves the step budget as it is).
AlignedEnd(start, end, prefillEnd, budget) ==
  IF end < prefillEnd /\ (FloorTo(end, Block) > start \/ Block <= budget)
  THEN FloorTo(end, Block) ELSE end

\* The chunk may export states: pure prompt prefill from a block boundary,
\* or from anywhere under the replay boundary.
MayExport(start, prompt, tokens) ==
  /\ KdaCkpt /\ tokens = prompt
  /\ start % Block = 0 \/ HasBoundary(prompt, tokens)

\* _mamba_block_aligned_split: how many of the n tokens offered the chunk
\* takes, and the positions it exports from inside.
Split(start, n, prompt, tokens, shared, budget) ==
  LET prefillEnd == PrefillEnd(prompt, tokens)
      end   == AlignedEnd(start, start + n, prefillEnd, budget)
      stops == Stops(start, end, prompt, tokens, shared)
      plan  == PlanChunk(start, end, stops,
                 IF HasBoundary(prompt, tokens) THEN ReplayBoundary(prompt) ELSE 0)
  IN  IF start >= prefillEnd THEN [n |-> n, exports |-> {}]
      ELSE IF MayExport(start, prompt, tokens) /\ plan.exports # {}
      THEN [n |-> Most(plan.end - start, 0), exports |-> plan.exports]
      ELSE [n |-> Most(Min({end} \cup Inside(start, end, stops)) - start, 0),
            exports |-> {}]
=============================================================================
