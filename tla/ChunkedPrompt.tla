---------------------------- MODULE ChunkedPrompt ----------------------------
(***************************************************************************)
(* One request is prefilled chunk by chunk, offered any number of tokens   *)
(* in every step.  Its first chunk starts at the prefix the cache already  *)
(* holds; a resumed request has tokens > prompt.                           *)
(* A behaviour fixes GLM53_KDA_CKPT, which the two recipes set differently *)
(* (four nodes 1, two nodes 0): kda_ckpt is the KdaCkpt of ChunkSplit.     *)
(***************************************************************************)
EXTENDS Integers, FiniteSets, FiniteSetsExt

CONSTANTS
  Block, HashUnit, Tile, EagleUnit, MaxExports, ReplayOn,  \* see ChunkSplit
  KdaModes,     \* the settings of GLM53_KDA_CKPT that are examined
  MaxPrompt,    \* bound: prompt length
  MaxReplay,    \* bound: output tokens a resumed request replays
  Budget,       \* max_num_scheduled_tokens
  Junctions     \* TRUE: other requests share a prefix beyond the cached one

ASSUME PromptAssumption ==
  /\ {Block, HashUnit, Tile, EagleUnit} \subseteq Nat \ {0} /\ MaxExports \in Nat
  /\ Block % HashUnit = 0 /\ HashUnit % Tile = 0
  /\ KdaModes \subseteq BOOLEAN /\ ReplayOn \in BOOLEAN
  /\ {MaxPrompt, MaxReplay, Budget} \subseteq Nat

VARIABLES
  kda_ckpt,     \* GLM53_KDA_CKPT = 1, read at import
  prompt,       \* num_prompt_tokens
  tokens,       \* num_tokens
  shared,       \* shared_prefix_boundary
  hit,          \* the cached prefix the request started from
  computed,     \* num_computed_tokens
  saved,        \* positions of this request whose state the cache has
  last          \* the chunk just taken: start, end, exports

INSTANCE ChunkSplit WITH KdaCkpt <- kda_ckpt

vars == <<kda_ckpt, prompt, tokens, shared, hit, computed, saved, last>>

Init ==
  /\ kda_ckpt \in KdaModes
  /\ prompt \in 1..MaxPrompt
  /\ tokens \in prompt..(prompt + MaxReplay)
  /\ hit \in {h \in 0..ReplayBoundary(tokens) : h % HashUnit = 0}
  /\ shared \in {0} \cup (IF Junctions THEN {s \in hit + 1..tokens - 1 : s % HashUnit = 0}
                          ELSE {})
  /\ computed = hit
  /\ saved = {}
  /\ last = [start |-> hit, end |-> hit, exports |-> {}]

\* cache_blocks and cache_partial_block: a chunk's final state is cached on
\* a block boundary, at R(P) and at the prompt's last hash boundary.
Cacheable(p) ==
  \/ p % Block = 0
  \/ HasBoundary(prompt, tokens) /\ p = ReplayBoundary(prompt)
  \/ p = FloorTo(prompt, HashUnit)

\* One step of the engine offers n tokens to the request.
Chunk(n) ==
  LET split == Split(computed, n, prompt, tokens, shared, Budget)
      end   == computed + split.n
  IN  /\ computed + n <= PrefillEnd(prompt, tokens)
      /\ split.n > 0
      /\ computed' = end
      /\ saved' = saved \cup split.exports
                        \cup (IF Cacheable(end) THEN {end} ELSE {})
      /\ last' = [start |-> computed, end |-> end, exports |-> split.exports]
      /\ UNCHANGED <<kda_ckpt, prompt, tokens, shared, hit>>

Next == \E n \in 1..Budget : Chunk(n)

Spec == Init /\ [][Next]_vars

-----------------------------------------------------------------------------
\* The type invariant.
TypeOK ==
  /\ computed \in hit..PrefillEnd(prompt, tokens)
  /\ saved \subseteq hit..PrefillEnd(prompt, tokens)
  /\ last.start <= last.end

\* validate_plan and _glm53_ckpt_columns: the workers accept every plan the
\* scheduler makes, that is, its exports lie inside the chunk on the tile
\* grid and no two states of the chunk share a block-table column.
PlanAccepted ==
  last.exports # {} =>
    /\ 0 <= last.start /\ last.start < last.end /\ last.start % Tile = 0
    /\ \A p \in last.exports :
         /\ last.start < p /\ p < last.end /\ (p - last.start) % Tile = 0
         /\ \A q \in (last.exports \ {p}) \cup {last.end} : Column(q) # Column(p)

\* From any state an offer of one block or of all that is left makes progress.
OfferTaken ==
  \A n \in 1..Budget :
    (/\ computed < PrefillEnd(prompt, tokens)
     /\ computed + n = PrefillEnd(prompt, tokens) \/ n >= Block)
      => Split(computed, n, prompt, tokens, shared, Budget).n > 0

\* "Marconi shared-prefix junction, block-floored: cache its state so
\* sibling requests sharing the prefix can reuse it" (_mamba_block_aligned_split).
JunctionKept ==
  (computed = PrefillEnd(prompt, tokens) /\ hit < FloorTo(shared, Block))
    => FloorTo(shared, Block) \in saved
=============================================================================
