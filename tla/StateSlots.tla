----------------------------- MODULE StateSlots -----------------------------
(***************************************************************************)
(* The blocks of one request in the KDA group: MambaManager in align mode  *)
(* (vllm/v1/core/single_type_kv_cache_manager.py with the tp4 patch), and  *)
(* what the workers write into them.                                       *)
(*                                                                         *)
(* A block holds one recurrent state.  The state after p tokens belongs in *)
(* the Cdiv(p)-th block of the request; only the running one and those a   *)
(* hit may need are real, the others are the null block.  The prefix cache *)
(* finds a block under a label, a number of tokens of this prompt: the     *)
(* scheduler labels blocks before the step that writes them has run.       *)
(*                                                                         *)
(* The slots of a request are a record; an operation maps one to the next. *)
(***************************************************************************)
EXTENDS Integers, Sequences, FiniteSetsExt

CONSTANTS
  Block,        \* block_size of the group, see Tokens
  ReplayOn      \* GLM53_REPLAY_BOUNDARY = 1

Cdiv(p) == (p + Block - 1) \div Block

\* holds: the tokens after which the state in the block is, label: those it is
\* found under, 0 if none.  Junk is no state of this request.
Junk      == -1
NullBlock == [holds |-> 0, label |-> 0]
Fresh     == [holds |-> Junk, label |-> 0]

Slots(blocks, partial, tail, cached) ==
  [blocks  |-> blocks,   \* req_to_blocks
   partial |-> partial,  \* _partial_state_block_idx: never label them as full
   tail    |-> tail,     \* _partial_hit_reqs: block with a label inside, or 0
   cached  |-> cached,   \* num_cached_block
   last    |-> 0,        \* last_state_block_idx, or 0
   pool    |-> {}]       \* labelled blocks that are not the request's

Real(s, i) == i \in DOMAIN s.blocks /\ s.blocks[i] # NullBlock

\* add_local_computed_blocks: a request that hits h tokens gets the one block
\* that holds their state.
Admitted(h) ==
  LET inside == h % Block # 0
  IN  Slots([i \in 1..Cdiv(h) |->
               IF i < Cdiv(h) THEN NullBlock ELSE [holds |-> h, label |-> h]],
            IF inside /\ ReplayOn THEN {Cdiv(h)} ELSE {},
            IF inside THEN Cdiv(h) ELSE 0,
            h \div Block)

\* Labelled blocks stay in the cache when a request gives them up.
Freed(s, is) ==
  [s EXCEPT !.blocks = [i \in DOMAIN @ |-> IF i \in is THEN NullBlock ELSE @[i]],
            !.pool = @ \cup {b \in {s.blocks[i] : i \in is} : b.label > 0}]

\* remove_skipped_blocks: those before the running one, back to the first that
\* is null, and the one that was running before the last allocation.
Skipped(s, computed) ==
  LET end    == Min({Max({computed - 1, 0}) \div Block, Len(s.blocks)})
      before == {i \in 1..end : \A j \in i..end : Real(s, j)}
      old    == {i \in {s.last} : i < Cdiv(computed) /\ Real(s, i)}
  IN  Freed(s, before \cup old)

\* get_num_blocks_to_allocate, without the blocks a hit takes out of eviction.
Reserved(s, exports, end) ==
  LET has_partial_hit == IF s.tail > 0 THEN 1 ELSE 0
      missing         == Max({Cdiv(end) - Len(s.blocks), 0}) + has_partial_hit
  IN  IF missing > 0 THEN 1 + has_partial_hit + Cardinality(exports) ELSE 0

\* allocate_new_blocks appends unless the block is there already.
Allocates(s, end) == Cdiv(end) > Len(s.blocks) \/ s.tail > 0

\* The blocks it takes from the pool.
Drawn(s, exports, end) ==
  IF ~Allocates(s, end) THEN 0
  ELSE Cardinality({i \in Len(s.blocks) + 1..Cdiv(end) :
                      i = Cdiv(end) \/ \E p \in exports : Cdiv(p) = i})
       + (IF s.tail > 0 THEN 1 ELSE 0)

\* Its assertions.
AllocationSound(s, exports, end) ==
  Allocates(s, end) =>
    /\ s.tail > 0 => Real(s, s.tail)
    /\ Len(s.blocks) < Cdiv(end) - 1 =>
         \A p \in exports :
           /\ Cdiv(p) < Cdiv(end)
           /\ Cdiv(p) <= Len(s.blocks) =>
                /\ ReplayOn
                /\ Cdiv(p) = Len(s.blocks) /\ Real(s, Cdiv(p))

\* Mutant of Allocated: a label inside the running block stays on it.
AllocatedInPlace(s, exports, end) ==
  LET n    == Len(s.blocks)
      real == {Cdiv(end)} \cup {Cdiv(p) : p \in exports}
  IN  IF ~Allocates(s, end) THEN s
      ELSE [s EXCEPT !.blocks = [i \in 1..Max({n, Cdiv(end)}) |->
                                   IF i <= n THEN s.blocks[i]
                                   ELSE IF i \in real THEN Fresh ELSE NullBlock],
                     !.last = IF n > 0 THEN n ELSE @,
                     !.tail = 0]

\* allocate_new_blocks: a block for the end of the chunk and one for each
\* export.  A label inside the running block goes to a copy of it: a request
\* that has just hit it takes the copy (_apply_cow), one that runs in it keeps
\* its block and the label moves (move_block_hashes).
Allocated(s, exports, end) ==
  LET n    == Len(s.blocks)
      real == {Cdiv(end)} \cup {Cdiv(p) : p \in exports}
      kept == [i \in 1..n |-> IF i = s.tail THEN [s.blocks[i] EXCEPT !.label = 0]
                              ELSE s.blocks[i]]
  IN  IF ~Allocates(s, end) THEN s
      ELSE [s EXCEPT !.blocks = [i \in 1..Max({n, Cdiv(end)}) |->
                                   IF i <= n THEN kept[i]
                                   ELSE IF i \in real THEN Fresh ELSE NullBlock],
                     !.last = IF n > 0 THEN n ELSE @,
                     !.pool = @ \cup {s.blocks[i] : i \in {s.tail} \ {0}},
                     !.tail = 0]

-----------------------------------------------------------------------------
\* Mutant of Short: a chunk end inside a block is not remembered.
ShortForgotten(s, n, exports, prefillEnd) ==
  s.partial \ {Cdiv(p) : p \in {q \in exports \cup {n} : q % Block = 0}}

\* _record_state_write_position, and the exports of the replay boundary: the
\* blocks whose state is short of the boundary they end at.
Short(s, n, exports, prefillEnd) ==
  LET written == (IF ReplayOn THEN exports ELSE {})
                 \cup {p \in {n} : p % Block = 0 \/ p < prefillEnd}
  IN  (s.partial \ {Cdiv(p) : p \in {q \in written : q % Block = 0}})
        \cup {Cdiv(p) : p \in {q \in written : q % Block # 0}}

\* cache_blocks, when the step leaves n tokens computed that are final: full
\* blocks are labelled, but for those with a state that is short; then the end
\* of the chunk if it is one of the positions inside a block worth keeping, and
\* an export there.
CachedUpTo(s, n, exports, prefillEnd, inside) ==
  LET partial == Short(s, n, exports, prefillEnd)
      full    == {i \in s.cached + 1..n \div Block : Real(s, i) /\ i \notin partial}
      off     == IF ReplayOn THEN {p \in exports : p % Block # 0} ELSE {}
      tail    == {p \in {n} \cap inside : p % Block # 0 /\ Real(s, Cdiv(p))}
      label   == [i \in DOMAIN s.blocks |->
                    IF \E p \in off \cup tail : Cdiv(p) = i
                    THEN CHOOSE p \in off \cup tail : Cdiv(p) = i
                    ELSE IF i \in full THEN i * Block ELSE s.blocks[i].label]
  IN  [s EXCEPT !.blocks = [i \in DOMAIN @ |-> [@[i] EXCEPT !.label = label[i]]],
                !.partial = partial,
                !.tail = IF tail = {} THEN @ ELSE Cdiv(n),
                !.cached = IF tail = {} THEN Max({@, n \div Block}) ELSE n \div Block]

-----------------------------------------------------------------------------
\* What the workers write.  A write to the null block is lost.
Wrote(s, i, p) == IF Real(s, i) THEN [s EXCEPT !.blocks[i].holds = p] ELSE s

\* The state a step starts from: the running block's.
Running(s, computed) == IF computed = 0 THEN 0 ELSE s.blocks[Cdiv(computed)].holds

\* A prefill chunk writes the states at its exports and at its end.
Ran(s, computed, exports, end) ==
  LET right == Running(s, computed) = computed
  IN  [s EXCEPT !.blocks = [i \in DOMAIN @ |->
         IF Real(s, i) /\ \E p \in exports \cup {end} : Cdiv(p) = i
         THEN [@[i] EXCEPT !.holds =
                 IF right THEN CHOOSE p \in exports \cup {end} : Cdiv(p) = i ELSE Junk]
         ELSE @[i]]]

Labels(s) ==
  {b \in s.pool \cup {s.blocks[i] : i \in DOMAIN s.blocks} : b.label > 0}
=============================================================================
