------------------------------ MODULE RingPlan ------------------------------
(***************************************************************************)
(* The fixed plan of a prefill ring collective: how a call of `rows` rows  *)
(* is cut into chunks, what each direction sends at each numbered step,    *)
(* and in which order the kernel works.  protocol.py and _prb.cu compute   *)
(* the same plan; every rank follows it relative to its own number.        *)
(*                                                                         *)
(* A direction's steps are runs of consecutive steps called pieces.  In a  *)
(* piece the k-th step carries chunk p.chunk + k and, unless its data are  *)
(* the sender's own, consumes step p.dep + k of the neighbour it receives  *)
(* from in that direction.                                                 *)
(***************************************************************************)
EXTENDS Integers, Sequences

Fwd == 0    \* r sends to r + 1
Bwd == 1    \* r sends to r - 1
Dir == {Fwd, Bwd}

CeilDiv(a, b) == (a + b - 1) \div b

\* Chunks of a block of q rows: a multiple of four, unless the block is tiny.
ChunkCount(q, crMax) ==
  LET n == 4 * CeilDiv(CeilDiv(q, crMax), 4) IN IF n < q THEN n ELSE q

\* Reduce-scatter ("RS"): na chunks take NCCL's forward chain, nb the other one,
\* nb1 of them before FA1.  All-gather ("AG"): nh chunks are relayed forward.
GeometryOf(kind, q, nc) ==
  [kind |-> kind, q |-> q, nc |-> nc, na |-> nc \div 4, nb |-> nc - nc \div 4,
   nb1 |-> (nc - nc \div 4) \div 2, nh |-> nc \div 2]

Geometry(kind, rows, crMax) ==
  GeometryOf(kind, rows \div 4, ChunkCount(rows \div 4, crMax))

\* Rows of chunk k of a block.
ChunkRows(g, k) == (k * g.q) \div g.nc .. ((k + 1) * g.q) \div g.nc - 1

Steps(g, d) ==
  IF g.kind = "RS"
  THEN IF d = Fwd THEN 3 * g.na + g.nb ELSE 2 * g.nb
  ELSE g.nc + (IF d = Fwd THEN g.nh ELSE g.nc - g.nh)

\* Leading steps whose data the kernel stages; the others are relays.
Staged(g, d) == IF g.kind = "RS" THEN Steps(g, d) ELSE g.nc

\* blk is the block of the sender's input, relative to its rank.
Piece(first, count, src, blk, chunk, dep) ==
  [first |-> first, count |-> count, src |-> src, blk |-> blk, chunk |-> chunk, dep |-> dep]

\* Mutant of Pieces: FA2 takes what FA0 sent.
PiecesShort(g, d) ==
  IF g.kind = "RS" /\ d = Fwd
  THEN { Piece(0, g.na, "raw", -1, 0, -1),
         Piece(g.na, g.nb1, "raw", 1, g.na, -1),
         Piece(g.na + g.nb1, g.na, "red", -2, 0, 0),
         Piece(2 * g.na + g.nb1, g.nb - g.nb1, "raw", 1, g.na + g.nb1, -1),
         Piece(2 * g.na + g.nb, g.na, "red", 1, 0, 0) }
  ELSE IF g.kind = "RS"
  THEN { Piece(0, g.nb, "raw", -2, g.na, -1), Piece(g.nb, g.nb, "red", -1, g.na, 0) }
  ELSE IF d = Fwd
  THEN { Piece(0, g.nc, "raw", 0, 0, -1), Piece(g.nc, g.nh, "relay", 0, 0, 0) }
  ELSE { Piece(0, g.nc - g.nh, "raw", 0, g.nh, -1),
         Piece(g.nc - g.nh, g.nh, "raw", 0, 0, -1),
         Piece(g.nc, g.nc - g.nh, "relay", 0, g.nh, 0) }

Pieces(g, d) ==
  IF g.kind = "RS" /\ d = Fwd
  THEN { Piece(0, g.na, "raw", -1, 0, -1),                                    \* FA0
         Piece(g.na, g.nb1, "raw", 1, g.na, -1),                              \* FB1
         Piece(g.na + g.nb1, g.na, "red", -2, 0, 0),                          \* FA1
         Piece(2 * g.na + g.nb1, g.nb - g.nb1, "raw", 1, g.na + g.nb1, -1),   \* FB2
         Piece(2 * g.na + g.nb, g.na, "red", 1, 0, g.na + g.nb1) }            \* FA2
  ELSE IF g.kind = "RS"
  THEN { Piece(0, g.nb, "raw", -2, g.na, -1),                                 \* BB1
         Piece(g.nb, g.nb, "red", -1, g.na, 0) }                              \* BB2
  ELSE IF d = Fwd
  THEN { Piece(0, g.nc, "raw", 0, 0, -1),                                     \* G0F
         Piece(g.nc, g.nh, "relay", 0, 0, 0) }                                \* G1F
  ELSE { Piece(0, g.nc - g.nh, "raw", 0, g.nh, -1),                           \* G0Bhi
         Piece(g.nc - g.nh, g.nh, "raw", 0, 0, -1),                           \* G0Blo
         Piece(g.nc, g.nc - g.nh, "relay", 0, g.nh, 0) }                      \* G1B

InPiece(p, s) == p.first <= s /\ s < p.first + p.count

SendStep(g, d, s) ==
  LET p == CHOOSE p \in Pieces(g, d) : InPiece(p, s)
      k == s - p.first
  IN [src |-> p.src, blk |-> p.blk, chunk |-> p.chunk + k,
      dep |-> IF p.src = "raw" THEN -1 ELSE p.dep + k]

-----------------------------------------------------------------------------
(***************************************************************************)
(* The kernel's work list merges streams of items by step; an output item  *)
(* sits one step after the last send it consumes.                          *)
(***************************************************************************)
Stream(kind, first, count) == [kind |-> kind, first |-> first, count |-> count]

\* Mutant of Streams: outputs of the second chain come before its sends.
StreamsEarly(g) ==
  IF g.kind = "RS"
  THEN << Stream("outB", 0, g.nb), Stream("stageF", 0, Steps(g, Fwd)),
          Stream("stageB", 0, Steps(g, Bwd)),
          Stream("outA", 2 * g.na + g.nb + 1, g.na) >>
  ELSE << Stream("stageF", 0, g.nc), Stream("stageB", 0, g.nc),
          Stream("outPrev", 1, g.nc), Stream("outNext", 1, g.nc),
          Stream("outFarF", g.nc + 1, g.nh), Stream("outFarB", g.nc + 1, g.nc - g.nh) >>

Streams(g) ==
  IF g.kind = "RS"
  THEN << Stream("stageF", 0, Steps(g, Fwd)), Stream("stageB", 0, Steps(g, Bwd)),
          Stream("outB", g.nb + 1, g.nb), Stream("outA", 2 * g.na + g.nb + 1, g.na) >>
  ELSE << Stream("stageF", 0, g.nc), Stream("stageB", 0, g.nc),
          Stream("outPrev", 1, g.nc), Stream("outNext", 1, g.nc),
          Stream("outFarF", g.nc + 1, g.nh), Stream("outFarB", g.nc + 1, g.nc - g.nh) >>

Items(g) == IF g.kind = "RS" THEN 4 * g.nc ELSE 5 * g.nc

\* Items of a stream at steps before t.
Before(st, t) ==
  IF t <= st.first THEN 0 ELSE IF t - st.first < st.count THEN t - st.first ELSE st.count

\* Items before the m-th stream's at step t: at the same step streams come in
\* their order.
Ahead(g, m, t) ==
  LET part(l) == IF l > Len(Streams(g)) THEN 0
                 ELSE Before(Streams(g)[l], IF l < m THEN t + 1 ELSE t)
  IN part(1) + part(2) + part(3) + part(4) + part(5) + part(6)

\* The m-th stream has an item at step t.
HasItem(g, m, t) ==
  /\ m \in 1..Len(Streams(g)) /\ t \in 0..Items(g)
  /\ Streams(g)[m].first <= t /\ t < Streams(g)[m].first + Streams(g)[m].count

\* Item i of the merged list: the j-th of the stream `kind`.
ItemAt(g, i) ==
  LET at == CHOOSE at \in (1..Len(Streams(g))) \X (0..Items(g)) :
              HasItem(g, at[1], at[2]) /\ Ahead(g, at[1], at[2]) = i
      st == Streams(g)[at[1]]
  IN [kind |-> st.kind, j |-> at[2] - st.first]

\* Forward step that carries B chunk c.
FbStep(g, c) == IF c < g.nb1 THEN g.na + c ELSE 2 * g.na + c

DirOf(kind) == IF kind = "stageF" THEN Fwd ELSE Bwd
Staging(kind) == kind \in {"stageF", "stageB"}

\* The incoming <<direction, step>> that an item waits for.
ItemDeps(g, kind, j) ==
  IF Staging(kind)
  THEN LET st == SendStep(g, DirOf(kind), j)
       IN IF st.src = "red" THEN {<<DirOf(kind), st.dep>>} ELSE {}
  ELSE IF kind = "outA" THEN {<<Fwd, 2 * g.na + g.nb + j>>}
  ELSE IF kind = "outB" THEN {<<Bwd, g.nb + j>>, <<Fwd, FbStep(g, j)>>}
  ELSE IF kind = "outPrev" THEN {<<Fwd, j>>}
  ELSE IF kind = "outNext" THEN {<<Bwd, j>>}
  ELSE IF kind = "outFarF" THEN {<<Fwd, g.nc + j>>}
  ELSE {<<Bwd, g.nc + j>>}

\* Chunk of the neighbour's block that backward step s carries.
OutNextChunk(g, s) == IF s < g.nc - g.nh THEN g.nh + s ELSE s - (g.nc - g.nh)

\* The <<block, chunk>> of the result that an output item writes, the block
\* relative to the rank.
OutChunk(g, kind, j) ==
  IF kind = "outA" THEN <<0, j>>
  ELSE IF kind = "outB" THEN <<0, g.na + j>>
  ELSE IF kind = "outPrev" THEN <<-1, j>>
  ELSE IF kind = "outNext" THEN <<1, OutNextChunk(g, j)>>
  ELSE IF kind = "outFarF" THEN <<2, j>>
  ELSE <<2, g.nh + j>>

-----------------------------------------------------------------------------
\* Receive slots that the layout has for each direction, for calls of at most
\* maxRows rows.
StepsCap(maxRows, crMax) ==
  (3 * (4 * CeilDiv(CeilDiv(maxRows \div 4, crMax), 4))) \div 2 + 2
=============================================================================
