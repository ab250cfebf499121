----------------------------- MODULE RingProofs -----------------------------
(***************************************************************************)
(* The prefill ring and the lockstep that both transports share.           *)
(*                                                                         *)
(* The lockstep, for every set of participants and every window: slots and *)
(* receive areas may be reused without acknowledgements because the skew   *)
(* is at most twice the window.                                            *)
(*                                                                         *)
(* The plan, for every number of rows and chunks: each step has one        *)
(* meaning, every dependent send and every item of the work list points    *)
(* back, and the layout has a slot for each step.  These are the facts     *)
(* behind "no deadlock by construction" in protocol.py.                    *)
(*                                                                         *)
(* The ring at work, in every scenario: the kernels' outputs are right,    *)
(* nothing is written over before it is read, a rank that closes strands   *)
(* nobody, and the ring keeps the lockstep.                                *)
(***************************************************************************)
EXTENDS RingRuntime, StartProofs, WellFoundedInduction, FiniteSetTheorems, SequenceTheorems

\* A participant is within its window, and no result is early.
LockstepInv ==
  /\ LockstepTypeOK
  /\ \A p \in Party : entered[p] <= left[p] + Window
  /\ NoEarlyResult

\* Initially nothing is entered.
LEMMA LockstepStarts == LockstepInit => LockstepInv
  BY WindowAssumption DEF LockstepInit, LockstepInv, LockstepTypeOK, NoEarlyResult

\* Entering moves one participant forward inside its window.
LEMMA EnterKeeps ==
  ASSUME NEW p \in Party, LockstepInv, Enter(p) PROVE LockstepInv'
<1>1. LockstepTypeOK'
  BY DEF Enter, LockstepInv, LockstepTypeOK
<1>2. ASSUME NEW q \in Party PROVE (entered[q] <= left[q] + Window)'
  BY WindowAssumption DEF Enter, LockstepInv, LockstepTypeOK
<1>3. NoEarlyResult'
  BY DEF Enter, LockstepInv, LockstepTypeOK, NoEarlyResult
<1> QED BY <1>1, <1>2, <1>3 DEF LockstepInv

\* Leaving waits for everybody's entry, which is what NoEarlyResult needs.
LEMMA LeaveKeeps ==
  ASSUME NEW p \in Party, LockstepInv, Leave(p) PROVE LockstepInv'
<1>1. LockstepTypeOK'
  BY DEF Leave, LockstepInv, LockstepTypeOK
<1>2. ASSUME NEW q \in Party PROVE (entered[q] <= left[q] + Window)'
  BY WindowAssumption DEF Leave, LockstepInv, LockstepTypeOK
<1>3. NoEarlyResult'
  BY DEF Leave, LockstepInv, LockstepTypeOK, NoEarlyResult
<1> QED BY <1>1, <1>2, <1>3 DEF LockstepInv

\* The lockstep keeps its invariant for every set of participants and every
\* window.
THEOREM LockstepInvariant == LockstepSpec => []LockstepInv
<1>1. LockstepInv /\ [LockstepNext]_lockstepVars => LockstepInv'
  <2> SUFFICES ASSUME LockstepInv, [LockstepNext]_lockstepVars PROVE LockstepInv'
    OBVIOUS
  <2>1. CASE LockstepNext
    BY <2>1, EnterKeeps, LeaveKeeps DEF LockstepNext
  <2>2. CASE UNCHANGED lockstepVars
    BY <2>2 DEF LockstepInv, LockstepTypeOK, NoEarlyResult, lockstepVars
  <2> QED BY <2>1, <2>2
<1> QED BY LockstepStarts, <1>1, PTL DEF LockstepSpec

\* A participant ahead is within a window of its own result, that result is
\* not early, and the participant behind is within a window of its entry: two
\* windows in all.
LEMMA SkewIsTwoWindows == LockstepInv => SlotsSuffice
<1> SUFFICES ASSUME LockstepInv, NEW p \in Party, NEW q \in Party
             PROVE entered[p] <= left[q] + Buffers
  BY DEF SlotsSuffice
<1>1. /\ entered[p] \in Nat /\ left[p] \in Nat
      /\ entered[q] \in Nat /\ left[q] \in Nat
  BY DEF LockstepInv, LockstepTypeOK
<1>2. entered[p] <= left[p] + Window
  BY DEF LockstepInv
<1>3. left[p] <= entered[q]
  BY DEF LockstepInv, NoEarlyResult
<1>4. entered[q] <= left[q] + Window
  BY DEF LockstepInv
<1> QED BY <1>1, <1>2, <1>3, <1>4, WindowAssumption, BuffersAssumption

\* No slot and no receive area is written while an operation that uses it is
\* unfinished anywhere.
THEOREM SlotsAlwaysSuffice == LockstepSpec => []SlotsSuffice
  BY LockstepInvariant, SkewIsTwoWindows, PTL

\* Nobody runs ahead of a participant that has not contributed.
THEOREM ResultsWait == LockstepSpec => []NoEarlyResult
<1>1. LockstepInv => NoEarlyResult
  BY DEF LockstepInv
<1> QED BY LockstepInvariant, <1>1, PTL

-----------------------------------------------------------------------------
(***************************************************************************)
(* The plan.                                                               *)
(***************************************************************************)

\* What the proofs use of a geometry.
IsGeometry(g) ==
  /\ g \in [kind : {"RS", "AG"}, q : Nat, nc : Nat, na : Nat, nb : Nat, nb1 : Nat, nh : Nat]
  /\ g.nc > 0
  /\ 4 * g.na <= g.nc /\ g.nc < 4 * g.na + 4 /\ g.na + g.nb = g.nc
  /\ 2 * g.nb1 <= g.nb /\ g.nb < 2 * g.nb1 + 2
  /\ 2 * g.nh <= g.nc /\ g.nc < 2 * g.nh + 2

\* GeometryOf makes one from any kind, block and number of chunks.
LEMMA GeometryIs ==
  ASSUME NEW kind \in {"RS", "AG"}, NEW q \in Nat, NEW nc \in Nat \ {0}
  PROVE  IsGeometry(GeometryOf(kind, q, nc))
<1> DEFINE a == nc \div 4
           b == (nc - a) \div 2
           h == nc \div 2
<1>1. a \in Nat /\ 4 * a <= nc /\ nc < 4 * a + 4
  OBVIOUS
<1>2. nc - a \in Nat
  BY <1>1
<1>3. b \in Nat /\ 2 * b <= nc - a /\ nc - a < 2 * b + 2
  BY <1>2
<1>4. h \in Nat /\ 2 * h <= nc /\ nc < 2 * h + 2
  OBVIOUS
<1>5. QED
  BY <1>1, <1>2, <1>3, <1>4 DEF IsGeometry, GeometryOf

\* The steps of a direction are natural numbers.
LEMMA StepsNat ==
  ASSUME NEW g, IsGeometry(g), NEW d \in Dir
  PROVE  Steps(g, d) \in Nat
BY DEF IsGeometry, Steps, Dir, Fwd, Bwd

\* Every step of a direction lies in a piece.
LEMMA PiecesCover ==
  ASSUME NEW g, IsGeometry(g), NEW d \in Dir, NEW s \in 0..(Steps(g, d) - 1)
  PROVE  \E p \in Pieces(g, d) : InPiece(p, s)
<1>1. CASE g.kind = "RS" /\ d = Fwd
  BY <1>1 DEF IsGeometry, Steps, Pieces, Piece, InPiece, Dir, Fwd, Bwd
<1>2. CASE g.kind = "RS" /\ d = Bwd
  BY <1>2 DEF IsGeometry, Steps, Pieces, Piece, InPiece, Dir, Fwd, Bwd
<1>3. CASE g.kind = "AG" /\ d = Fwd
  BY <1>3 DEF IsGeometry, Steps, Pieces, Piece, InPiece, Dir, Fwd, Bwd
<1>4. CASE g.kind = "AG" /\ d = Bwd
  BY <1>4 DEF IsGeometry, Steps, Pieces, Piece, InPiece, Dir, Fwd, Bwd
<1>5. QED
  BY <1>1, <1>2, <1>3, <1>4 DEF IsGeometry, Dir

\* And in no other.
LEMMA PiecesApart ==
  ASSUME NEW g, IsGeometry(g), NEW d \in Dir, NEW s \in Int,
         NEW p \in Pieces(g, d), NEW o \in Pieces(g, d), InPiece(p, s), InPiece(o, s)
  PROVE  p = o
<1>1. CASE g.kind = "RS" /\ d = Fwd
  BY <1>1 DEF IsGeometry, Pieces, Piece, InPiece, Dir, Fwd, Bwd
<1>2. CASE g.kind = "RS" /\ d = Bwd
  BY <1>2 DEF IsGeometry, Pieces, Piece, InPiece, Dir, Fwd, Bwd
<1>3. CASE g.kind = "AG" /\ d = Fwd
  BY <1>3 DEF IsGeometry, Pieces, Piece, InPiece, Dir, Fwd, Bwd
<1>4. CASE g.kind = "AG" /\ d = Bwd
  BY <1>4 DEF IsGeometry, Pieces, Piece, InPiece, Dir, Fwd, Bwd
<1>5. QED
  BY <1>1, <1>2, <1>3, <1>4 DEF IsGeometry, Dir

\* SendStep describes a step as the piece it lies in says.
LEMMA StepIsPiece ==
  ASSUME NEW g, IsGeometry(g), NEW d \in Dir, NEW s \in 0..(Steps(g, d) - 1),
         NEW p \in Pieces(g, d), InPiece(p, s)
  PROVE  SendStep(g, d, s) =
           [src |-> p.src, blk |-> p.blk, chunk |-> p.chunk + (s - p.first),
            dep |-> IF p.src = "raw" THEN -1 ELSE p.dep + (s - p.first)]
<1> DEFINE o == CHOOSE o \in Pieces(g, d) : InPiece(o, s)
<1>1. o \in Pieces(g, d) /\ InPiece(o, s)
  OBVIOUS
<1>2. s \in Int
  BY StepsNat
<1>3. o = p
  BY <1>1, <1>2, PiecesApart
<1>4. QED
  BY <1>3 DEF SendStep

\* protocol.py: "Every dependent send (a reduction or a relay) consumes a chunk
\* its neighbour sent at least one step earlier".  It is the same chunk, and
\* relays come after the staged steps.
THEOREM SendsDependBack ==
  ASSUME NEW g, IsGeometry(g), NEW d \in Dir, NEW s \in 0..(Steps(g, d) - 1),
         SendStep(g, d, s).src # "raw"
  PROVE  /\ SendStep(g, d, s).dep \in 0..(s - 1)
         /\ SendStep(g, d, SendStep(g, d, s).dep).chunk = SendStep(g, d, s).chunk
         /\ SendStep(g, d, s).src = "relay" <=> s >= Staged(g, d)
<1> PICK p \in Pieces(g, d) : InPiece(p, s)
  BY PiecesCover
<1> DEFINE k == s - p.first
           t == p.dep + k
<1>1. SendStep(g, d, s) =
        [src |-> p.src, blk |-> p.blk, chunk |-> p.chunk + k,
         dep |-> IF p.src = "raw" THEN -1 ELSE t]
  BY StepIsPiece
<1>2. p.src # "raw"
  BY <1>1
<1>3. PICK o \in Pieces(g, d) :
        InPiece(o, t) /\ o.chunk + (t - o.first) = p.chunk + k /\ t \in 0..(s - 1)
        /\ (p.src = "relay" <=> s >= Staged(g, d))
  <2>1. CASE g.kind = "RS" /\ d = Fwd
    BY <2>1, <1>2 DEF IsGeometry, Steps, Staged, Pieces, Piece, InPiece, Dir, Fwd, Bwd
  <2>2. CASE g.kind = "RS" /\ d = Bwd
    BY <2>2, <1>2 DEF IsGeometry, Steps, Staged, Pieces, Piece, InPiece, Dir, Fwd, Bwd
  <2>3. CASE g.kind = "AG" /\ d = Fwd
    BY <2>3, <1>2 DEF IsGeometry, Steps, Staged, Pieces, Piece, InPiece, Dir, Fwd, Bwd
  <2>4. CASE g.kind = "AG" /\ d = Bwd
    BY <2>4, <1>2 DEF IsGeometry, Steps, Staged, Pieces, Piece, InPiece, Dir, Fwd, Bwd
  <2>5. QED
    BY <2>1, <2>2, <2>3, <2>4 DEF IsGeometry, Dir
<1>4. t \in 0..(Steps(g, d) - 1)
  BY <1>3, StepsNat
<1>5. SendStep(g, d, t).chunk = o.chunk + (t - o.first)
  BY <1>3, <1>4, StepIsPiece
<1>6. QED
  BY <1>1, <1>2, <1>3, <1>5

-----------------------------------------------------------------------------
\* protocol.py: "every wait points to an earlier item on every rank".  The step
\* at which an item stands in the list is after that of every send it waits
\* for, and the sender has such a step.
THEOREM WaitsPointBack ==
  ASSUME NEW g, IsGeometry(g), NEW n \in 1..Len(Streams(g)),
         NEW j \in 0..(Streams(g)[n].count - 1),
         NEW dep \in ItemDeps(g, Streams(g)[n].kind, j)
  PROVE  /\ dep[1] \in Dir
         /\ dep[2] \in 0..(Steps(g, dep[1]) - 1)
         /\ dep[2] < Streams(g)[n].first + j
<1> DEFINE kind == Streams(g)[n].kind
<1> USE DEF Streams, Stream
<1>1. CASE kind \in {"stageF", "stageB"}
  <2> DEFINE d == DirOf(kind)
  <2>1. d \in Dir /\ j \in 0..(Steps(g, d) - 1) /\ Streams(g)[n].first = 0
    <3>1. CASE g.kind = "RS"
      BY <1>1, <3>1, StepsNat DEF DirOf, Dir, Fwd, Bwd
    <3>2. CASE g.kind = "AG"
      BY <1>1, <3>2 DEF DirOf, Dir, Fwd, Bwd, IsGeometry, Steps
    <3>3. QED
      BY <3>1, <3>2 DEF IsGeometry
  <2>2. SendStep(g, d, j).src = "red" /\ dep = <<d, SendStep(g, d, j).dep>>
    BY <1>1 DEF ItemDeps, Staging
  <2>3. SendStep(g, d, j).dep \in 0..(j - 1)
    BY <2>1, <2>2, SendsDependBack
  <2>4. QED
    BY <2>1, <2>2, <2>3, StepsNat
<1>2. CASE kind \notin {"stageF", "stageB"} /\ g.kind = "RS"
  <2>1. CASE n = 3
    <3>1. kind = "outB" /\ Streams(g)[n].first = g.nb + 1 /\ j \in 0..(g.nb - 1)
      BY <1>2, <2>1
    <3>2. dep = <<Bwd, g.nb + j>> \/ dep = <<Fwd, FbStep(g, j)>>
      BY <3>1 DEF ItemDeps, Staging
    <3>3. FbStep(g, j) \in 0..(3 * g.na + g.nb - 1) /\ FbStep(g, j) < g.nb + 1 + j
      BY <3>1 DEF IsGeometry, FbStep
    <3>4. QED
      BY <1>2, <3>1, <3>2, <3>3 DEF IsGeometry, Steps, Dir, Fwd, Bwd
  <2>2. CASE n = 4
    <3>1. kind = "outA" /\ Streams(g)[n].first = 2 * g.na + g.nb + 1 /\ j \in 0..(g.na - 1)
      BY <1>2, <2>2
    <3>2. dep = <<Fwd, 2 * g.na + g.nb + j>>
      BY <3>1 DEF ItemDeps, Staging
    <3>3. QED
      BY <1>2, <3>1, <3>2 DEF IsGeometry, Steps, Dir, Fwd, Bwd
  <2>3. QED
    BY <1>2, <2>1, <2>2
<1>3. CASE kind \notin {"stageF", "stageB"} /\ g.kind = "AG"
  BY <1>3 DEF ItemDeps, Staging, IsGeometry, Steps, Dir, Fwd, Bwd
<1>4. QED
  BY <1>1, <1>2, <1>3 DEF IsGeometry

-----------------------------------------------------------------------------
\* Division rounds down.
LEMMA DivIs ==
  ASSUME NEW a \in Nat, NEW c \in Nat \ {0}
  PROVE  a \div c \in Nat /\ c * (a \div c) <= a /\ a < c * (a \div c) + c
OBVIOUS

\* A larger dividend rounds up to no less.
LEMMA CeilMonotone ==
  ASSUME NEW a \in Nat, NEW b \in Nat, a <= b, NEW c \in Nat \ {0}
  PROVE  CeilDiv(a, c) \in Nat /\ CeilDiv(a, c) <= CeilDiv(b, c)
<1> DEFINE x == (a + c - 1) \div c
           y == (b + c - 1) \div c
<1>1. x \in Nat /\ c * x <= a + c - 1
  BY DivIs
<1>2. y \in Nat /\ b + c - 1 < c * y + c
  BY DivIs
<1>3. c * x < c * (y + 1)
  BY <1>1, <1>2
<1>4. x < y + 1
  BY <1>1, <1>2, <1>3
<1>5. QED
  BY <1>1, <1>2, <1>4 DEF CeilDiv

\* The layout has a receive slot and a flag for every step of every call of at
\* most maxRows rows: prb_launch never refuses one for its geometry.
THEOREM StepsFit ==
  ASSUME NEW kind \in {"RS", "AG"}, NEW rows \in Nat, NEW maxRows \in Nat,
         NEW crMax \in Nat \ {0}, 4 <= rows, rows <= maxRows, NEW d \in Dir
  PROVE  Steps(Geometry(kind, rows, crMax), d) <= StepsCap(maxRows, crMax)
<1> DEFINE q == rows \div 4
           most == maxRows \div 4
           n == 4 * CeilDiv(CeilDiv(q, crMax), 4)
           N == 4 * CeilDiv(CeilDiv(most, crMax), 4)
           nc == ChunkCount(q, crMax)
           g == GeometryOf(kind, q, nc)
<1>1. q \in Nat \ {0} /\ most \in Nat /\ q <= most
  OBVIOUS
<1>2. CeilDiv(q, crMax) \in Nat /\ CeilDiv(most, crMax) \in Nat
      /\ CeilDiv(q, crMax) <= CeilDiv(most, crMax)
  BY <1>1, CeilMonotone
<1>3. n \in Nat /\ N \in Nat /\ n <= N
  BY <1>2, CeilMonotone
<1>4. CeilDiv(q, crMax) # 0
  <2> DEFINE x == (q + crMax - 1) \div crMax
  <2>1. q + crMax - 1 < crMax * x + crMax /\ x \in Nat
    BY <1>1, DivIs
  <2>2. x # 0
    BY <1>1, <2>1
  <2>3. QED
    BY <2>2 DEF CeilDiv
<1>5. n # 0
  BY <1>2, <1>4 DEF CeilDiv
<1>6. nc \in Nat \ {0} /\ nc <= n
  BY <1>1, <1>3, <1>5 DEF ChunkCount
<1>7. IsGeometry(g) /\ g.nc = nc
  BY <1>1, <1>6, GeometryIs DEF GeometryOf
<1>8. 2 * Steps(g, d) <= 3 * nc + 3
  BY <1>7 DEF IsGeometry, Steps, Dir, Fwd, Bwd
<1>9. Steps(g, d) \in Nat
  BY <1>7, StepsNat
<1>10. Steps(g, d) <= (3 * N) \div 2 + 2
  BY <1>3, <1>6, <1>8, <1>9
<1>11. QED
  BY <1>10 DEF Geometry, StepsCap

-----------------------------------------------------------------------------
(***************************************************************************)
(* The construction.                                                       *)
(***************************************************************************)

\* A construction that has succeeded is one that the votes allow.
LEMMA BuiltIs == Built => StartInv
<1> SUFFICES ASSUME Built PROVE StartInv
  OBVIOUS
<1> DEFINE Ballots == [i \in 1..LastStage |-> [stage |-> i, error |-> FALSE, setting |-> "a"]]
<1>1. /\ setting = [r \in Rank |-> "a"] /\ stage = [r \in Rank |-> LastStage]
      /\ votes = [r \in Rank |-> Ballots]
      /\ held = [r \in Rank |-> "started"] /\ outcome = [r \in Rank |-> "ready"]
  BY DEF Built
<1>2. LastStage \in Nat /\ LastStage \in 1..LastStage
  BY StageNumbers
<1>3. Ballots \in Seq(Contribution) /\ Len(Ballots) = LastStage
      /\ \A i \in 1..LastStage : ~Ballots[i].error /\ Ballots[i].setting = "a"
  <2>1. \A i \in 1..LastStage : Ballots[i] \in Contribution
    BY <1>2 DEF Contribution
  <2>2. Ballots \in Seq(Contribution) /\ Len(Ballots) = LastStage
    BY <1>2, <2>1
  <2> QED BY <2>2
<1> HIDE DEF Ballots
<1>4. StartTypeOK
  BY <1>1, <1>2, <1>3 DEF StartTypeOK
<1>5. TrueSettings
  BY <1>1, <1>2, <1>3 DEF TrueSettings
<1>6. Passed(LastStage)
  BY <1>1, <1>2, <1>3 DEF Passed, AllAlike
<1>7. ASSUME NEW r \in Rank PROVE RankInv(r)
  BY <1>1, <1>6 DEF RankInv, BuildingInv, ReadyInv, GivenUpInv, HeldInv
<1> QED BY <1>4, <1>5, <1>7 DEF StartInv

\* The ring exists on all ranks or on none (ring.py, the votes of PrefillRing
\* and of its caller): no rank calls one that a neighbour has released.
THEOREM RingIsCollective == RuntimeSpec => []AllOrNone
<1>1. RuntimeInit => StartInv
  BY StartStarts, BuiltIs DEF RuntimeInit
<1>2. StartInv /\ [RuntimeNext]_runtimeVars => StartInv'
  <2> SUFFICES ASSUME StartInv, [RuntimeNext]_runtimeVars PROVE StartInv'
    OBVIOUS
  <2>1. ASSUME NEW r \in Rank, Construct(r) PROVE StartInv'
    BY <2>1, StartKept DEF Construct
  <2>2. (\E r \in Rank : Operate(r)) \/ UNCHANGED runtimeVars => UNCHANGED startVars
    BY DEF Operate, runtimeVars
  <2> QED BY <2>1, <2>2, StartIdle DEF RuntimeNext
<1>3. StartInv => AllOrNone
  BY StartAgrees DEF Agreed, AllOrNone
<1>4. RuntimeSpec => RuntimeInit /\ [][RuntimeNext]_runtimeVars
  BY PTL DEF RuntimeSpec
<1> QED BY <1>1, <1>2, <1>3, <1>4, PTL

-----------------------------------------------------------------------------
(***************************************************************************)
(* The merged work list.                                                   *)
(*                                                                         *)
(* merge_items orders the items of all streams by the step they stand at.  *)
(* The place of an item is the number of items before it, so the list      *)
(* holds each item of the plan exactly once, at a place of its own.        *)
(***************************************************************************)

\* A set of numbers has a least one.
LEMMA LeastExists ==
  ASSUME NEW T, T \subseteq Nat, T # {}
  PROVE  \E x \in T : \A y \in T : x <= y
<1>1. PICK x \in T : \A y \in T : ~ (<<y, x>> \in OpToRel(<, Nat))
  BY NatLessThanWellFounded, WFMin
<1>2. \A y \in T : ~(y < x)
  BY <1>1 DEF OpToRel
<1> QED BY <1>2

\* A geometry has four streams or six.
LEMMA StreamsAre ==
  ASSUME NEW g, IsGeometry(g)
  PROVE  /\ Len(Streams(g)) = IF g.kind = "RS" THEN 4 ELSE 6
         /\ \A m \in 1..Len(Streams(g)) :
              /\ Streams(g)[m].first \in Nat /\ Streams(g)[m].count \in Nat
              /\ Streams(g)[m].first + Streams(g)[m].count <= Items(g)
         /\ Items(g) \in Nat \ {0}
<1>1. CASE g.kind = "RS"
  <2>1. Len(Streams(g)) = 4 /\ Items(g) \in Nat \ {0}
    BY <1>1 DEF IsGeometry, Streams, Items
  <2>2. ASSUME NEW m \in 1..4
        PROVE  /\ Streams(g)[m].first \in Nat /\ Streams(g)[m].count \in Nat
               /\ Streams(g)[m].first + Streams(g)[m].count <= Items(g)
    <3>1. m = 1 \/ m = 2 \/ m = 3 \/ m = 4
      OBVIOUS
    <3> QED BY <1>1, <3>1 DEF IsGeometry, Streams, Stream, Items, Steps, Dir, Fwd, Bwd
  <2> QED BY <1>1, <2>1, <2>2
<1>2. CASE g.kind = "AG"
  <2>1. Len(Streams(g)) = 6 /\ Items(g) \in Nat \ {0}
    BY <1>2 DEF IsGeometry, Streams, Items
  <2>2. ASSUME NEW m \in 1..6
        PROVE  /\ Streams(g)[m].first \in Nat /\ Streams(g)[m].count \in Nat
               /\ Streams(g)[m].first + Streams(g)[m].count <= Items(g)
    <3>1. m = 1 \/ m = 2 \/ m = 3 \/ m = 4 \/ m = 5 \/ m = 6
      OBVIOUS
    <3> QED BY <1>2, <3>1 DEF IsGeometry, Streams, Stream, Items
  <2> QED BY <1>2, <2>1, <2>2
<1> QED BY <1>1, <1>2 DEF IsGeometry

\* A plan has four streams for a reduce-scatter and six for an all-gather.
LEMMA LenIs == ASSUME NEW g, IsGeometry(g) PROVE Len(Streams(g)) \in {4, 6}
  BY StreamsAre

\* Every plan has items.
LEMMA ItemsNat == ASSUME NEW g, IsGeometry(g) PROVE Items(g) \in Nat \ {0}
  BY StreamsAre

\* A stream stands among the first six, and fits into the work list.
LEMMA StreamNumbers ==
  ASSUME NEW g, IsGeometry(g), NEW m \in 1..Len(Streams(g))
  PROVE  /\ m \in 1..6
         /\ Streams(g)[m].first \in Nat /\ Streams(g)[m].count \in Nat
         /\ Streams(g)[m].first + Streams(g)[m].count <= Items(g)
<1>1. m \in 1..6
  <2> PICK n \in {4, 6} : Len(Streams(g)) = n
    BY LenIs
  <2> QED OBVIOUS
<1> QED BY <1>1, StreamsAre

\* Streams have different kinds.
LEMMA KindsApart ==
  ASSUME NEW g, IsGeometry(g), NEW m \in 1..Len(Streams(g)), NEW l \in 1..Len(Streams(g)),
         Streams(g)[m].kind = Streams(g)[l].kind
  PROVE  m = l
<1>1. CASE g.kind = "RS"
  BY <1>1 DEF Streams, Stream
<1>2. CASE g.kind = "AG"
  BY <1>2 DEF Streams, Stream
<1> QED BY <1>1, <1>2 DEF IsGeometry

\* Items of stream l at steps before t.
Cut(g, l, t) == IF l > Len(Streams(g)) THEN 0 ELSE Before(Streams(g)[l], t)

\* Stream l has an item at step t.
Has(g, l, t) ==
  l \in 1..Len(Streams(g)) /\ Streams(g)[l].first <= t /\ t < Streams(g)[l].first + Streams(g)[l].count

\* A stream advances by one at each of its steps.
LEMMA CutSteps ==
  ASSUME NEW g, IsGeometry(g), NEW l \in 1..6, NEW t \in Nat
  PROVE  /\ Cut(g, l, t) \in Nat /\ Cut(g, l, 0) = 0
         /\ Cut(g, l, t + 1) = IF Has(g, l, t) THEN Cut(g, l, t) + 1 ELSE Cut(g, l, t)
<1>1. CASE l > Len(Streams(g))
  BY <1>1, StreamsAre DEF Cut, Has
<1>2. CASE l <= Len(Streams(g))
  <2> PICK f \in Nat, c \in Nat : Streams(g)[l].first = f /\ Streams(g)[l].count = c
    BY <1>2, StreamsAre
  <2> QED BY <1>2, StreamsAre DEF Cut, Has, Before
<1> QED BY <1>1, <1>2, StreamsAre

\* No fewer items of a stream stand before a later step.
LEMMA CutMonotone ==
  ASSUME NEW g, IsGeometry(g), NEW l \in 1..6, NEW t \in Nat, NEW u \in Nat, t <= u
  PROVE  Cut(g, l, t) <= Cut(g, l, u)
<1>1. CASE l > Len(Streams(g))
  BY <1>1, StreamsAre DEF Cut, Has
<1>2. CASE l <= Len(Streams(g))
  <2> PICK f \in Nat, c \in Nat : Streams(g)[l].first = f /\ Streams(g)[l].count = c
    BY <1>2, StreamsAre
  <2> QED BY <1>2, StreamsAre DEF Cut, Before
<1> QED BY <1>1, <1>2, StreamsAre

\* After the last step all items are listed.
LEMMA CutAll ==
  ASSUME NEW g, IsGeometry(g), NEW t \in Nat, t >= Items(g)
  PROVE  Cut(g, 1, t) + Cut(g, 2, t) + Cut(g, 3, t) + Cut(g, 4, t) + Cut(g, 5, t) + Cut(g, 6, t)
           = Items(g)
<1>1. CASE g.kind = "RS"
  BY <1>1 DEF IsGeometry, Streams, Stream, Items, Steps, Dir, Fwd, Bwd, Cut, Before
<1>2. CASE g.kind = "AG"
  BY <1>2 DEF IsGeometry, Streams, Stream, Items, Cut, Before
<1> QED BY <1>1, <1>2 DEF IsGeometry

\* The place of an item in the list, stream by stream (protocol.py, merged_items).
LEMMA AheadIs ==
  ASSUME NEW g, NEW m \in Nat, NEW t \in Nat
  PROVE  Ahead(g, m, t) =
           Cut(g, 1, IF 1 < m THEN t + 1 ELSE t) + Cut(g, 2, IF 2 < m THEN t + 1 ELSE t)
         + Cut(g, 3, IF 3 < m THEN t + 1 ELSE t) + Cut(g, 4, IF 4 < m THEN t + 1 ELSE t)
         + Cut(g, 5, IF 5 < m THEN t + 1 ELSE t) + Cut(g, 6, IF 6 < m THEN t + 1 ELSE t)
BY DEF Ahead, Cut

\* Going on from an item to a later one, the number of items ahead grows.
LEMMA AheadGrows ==
  ASSUME NEW g, IsGeometry(g), NEW m \in 1..6, NEW t \in Nat, NEW l \in 1..7, NEW u \in Nat,
         Has(g, m, t), t < u \/ (t = u /\ m < l)
  PROVE  Ahead(g, m, t) \in Nat /\ Ahead(g, l, u) \in Nat /\ Ahead(g, m, t) < Ahead(g, l, u)
<1> DEFINE a(k) == Cut(g, k, IF k < m THEN t + 1 ELSE t)
           b(k) == Cut(g, k, IF k < l THEN u + 1 ELSE u)
<1>1. ASSUME NEW k \in 1..6 PROVE a(k) \in Nat /\ b(k) \in Nat /\ a(k) <= b(k)
  <2> PICK x \in Nat, y \in Nat :
        x = (IF k < m THEN t + 1 ELSE t) /\ y = (IF k < l THEN u + 1 ELSE u) /\ x <= y
    OBVIOUS
  <2>1. Cut(g, k, x) \in Nat /\ Cut(g, k, y) \in Nat /\ Cut(g, k, x) <= Cut(g, k, y)
    BY CutMonotone, CutSteps
  <2> QED BY <2>1
<1>2. a(m) < b(m)
  <2> PICK y \in Nat : y = (IF m < l THEN u + 1 ELSE u) /\ t + 1 <= y
    OBVIOUS
  <2>1. Cut(g, m, t + 1) <= Cut(g, m, y)
    BY CutMonotone
  <2>2. Cut(g, m, t + 1) = Cut(g, m, t) + 1 /\ Cut(g, m, t) \in Nat
    BY CutSteps
  <2>3. Cut(g, m, y) \in Nat
    BY CutSteps
  <2> QED BY <2>1, <2>2, <2>3
<1>3. Ahead(g, m, t) = a(1) + a(2) + a(3) + a(4) + a(5) + a(6)
  BY AheadIs
<1>4. Ahead(g, l, u) = b(1) + b(2) + b(3) + b(4) + b(5) + b(6)
  BY AheadIs
<1> HIDE DEF a, b
<1>5. m = 1 \/ m = 2 \/ m = 3 \/ m = 4 \/ m = 5 \/ m = 6
  OBVIOUS
<1> QED BY <1>1, <1>2, <1>3, <1>4, <1>5

\* HasItem's bound on the step excludes no item.
LEMMA HasIs ==
  ASSUME NEW g, IsGeometry(g), NEW m, NEW t \in Nat
  PROVE  HasItem(g, m, t) <=> Has(g, m, t)
BY StreamsAre DEF HasItem, Has

\* Each number below Items is that of an item.
LEMMA AheadOnto ==
  ASSUME NEW g, IsGeometry(g), NEW i \in 0..(Items(g) - 1)
  PROVE  \E m \in 1..Len(Streams(g)), t \in 0..Items(g) : HasItem(g, m, t) /\ Ahead(g, m, t) = i
<1> DEFINE T == {t \in Nat : i < Ahead(g, 7, t)}
<1>1. Items(g) \in Nat
  BY StreamsAre
<1>2. ASSUME NEW t \in Nat, NEW m \in 1..6 PROVE
        /\ Ahead(g, m, t) \in Nat
        /\ Ahead(g, m + 1, t) = IF Has(g, m, t) THEN Ahead(g, m, t) + 1 ELSE Ahead(g, m, t)
  <2>1. ASSUME NEW k \in 1..6
        PROVE  /\ Cut(g, k, t) \in Nat /\ Cut(g, k, t + 1) \in Nat
               /\ Cut(g, k, t + 1) = IF Has(g, k, t) THEN Cut(g, k, t) + 1 ELSE Cut(g, k, t)
    <3>1. t + 1 \in Nat
      OBVIOUS
    <3>2. Cut(g, k, t) \in Nat /\ Cut(g, k, t + 1) \in Nat
      BY <3>1, CutSteps
    <3>3. Cut(g, k, t + 1) = IF Has(g, k, t) THEN Cut(g, k, t) + 1 ELSE Cut(g, k, t)
      BY CutSteps
    <3> QED BY <3>2, <3>3
  <2> DEFINE c(k) == Cut(g, k, t)
             n(k) == Cut(g, k, t + 1)
  <2>2. /\ c(1) \in Nat /\ c(2) \in Nat /\ c(3) \in Nat /\ c(4) \in Nat /\ c(5) \in Nat
        /\ c(6) \in Nat
        /\ n(1) \in Nat /\ n(2) \in Nat /\ n(3) \in Nat /\ n(4) \in Nat /\ n(5) \in Nat
        /\ n(6) \in Nat
    BY <2>1
  <2>3. n(m) = IF Has(g, m, t) THEN c(m) + 1 ELSE c(m)
    BY <2>1
  <2>4. ASSUME NEW l \in 1..7
        PROVE  Ahead(g, l, t) = (IF 1 < l THEN n(1) ELSE c(1)) + (IF 2 < l THEN n(2) ELSE c(2))
                 + (IF 3 < l THEN n(3) ELSE c(3)) + (IF 4 < l THEN n(4) ELSE c(4))
                 + (IF 5 < l THEN n(5) ELSE c(5)) + (IF 6 < l THEN n(6) ELSE c(6))
    BY AheadIs, l \in Nat
  <2> HIDE DEF c, n
  <2>5. Ahead(g, m, t) \in Nat /\ Ahead(g, m + 1, t) = Ahead(g, m, t) + n(m) - c(m)
    <3>1. m = 1 \/ m = 2 \/ m = 3 \/ m = 4 \/ m = 5 \/ m = 6
      OBVIOUS
    <3> QED BY <2>2, <2>4, <3>1
  <2>6. n(m) \in Nat /\ c(m) \in Nat
    BY <2>1 DEF n, c
  <2> QED BY <2>3, <2>5, <2>6
<1>3. Ahead(g, 7, Items(g)) = Items(g)
  BY <1>1, AheadIs, CutAll
<1>4. PICK t \in T : \A u \in T : t <= u
  <2>1. Items(g) \in T
    BY <1>1, <1>3
  <2> QED BY <2>1, LeastExists
<1>5. i < Ahead(g, 7, t) /\ t \in Nat
  OBVIOUS
<1>6. Ahead(g, 1, t) <= i
  <2>1. CASE t = 0
    BY <2>1, AheadIs, CutSteps
  <2>2. CASE t # 0
    <3>1. t - 1 \in Nat /\ ~(i < Ahead(g, 7, t - 1))
      BY <1>4, <2>2
    <3>2. Ahead(g, 7, t - 1) = Ahead(g, 1, t)
      BY <3>1, AheadIs
    <3>3. Ahead(g, 1, t) \in Nat
      BY <1>2
    <3> QED BY <3>1, <3>2, <3>3
  <2> QED BY <2>1, <2>2
<1>7. PICK m \in 1..6 : Ahead(g, m, t) <= i /\ i < Ahead(g, m + 1, t)
  <2> DEFINE A(m) == Ahead(g, m, t)
  <2>1. /\ A(1) \in Nat /\ A(2) \in Nat /\ A(3) \in Nat /\ A(4) \in Nat /\ A(5) \in Nat
        /\ A(6) \in Nat
    BY <1>2, <1>5
  <2> HIDE DEF A
  <2>2. A(1) <= i /\ i < A(7)
    BY <1>5, <1>6 DEF A
  <2>3. \/ A(1) <= i /\ i < A(1 + 1)
        \/ A(2) <= i /\ i < A(2 + 1)
        \/ A(3) <= i /\ i < A(3 + 1)
        \/ A(4) <= i /\ i < A(4 + 1)
        \/ A(5) <= i /\ i < A(5 + 1)
        \/ A(6) <= i /\ i < A(6 + 1)
    BY <2>1, <2>2
  <2> QED BY <2>3 DEF A
<1>8. Has(g, m, t) /\ Ahead(g, m, t) = i
  <2>1. Ahead(g, m, t) \in Nat /\ Ahead(g, m + 1, t) = IF Has(g, m, t) THEN Ahead(g, m, t) + 1 ELSE Ahead(g, m, t)
    BY <1>2, <1>5
  <2> QED BY <2>1, <1>7
<1>9. t \in 0..Items(g)
  BY <1>1, <1>8, StreamsAre DEF Has
<1> QED BY <1>8, <1>9, HasIs DEF Has

\* The j-th item of a stream of the plan.
IsItem(g, kind, j) ==
  \E m \in 1..Len(Streams(g)) :
    Streams(g)[m].kind = kind /\ j \in 0..(Streams(g)[m].count - 1)

\* An item's place in the list.
LEMMA PlaceInList ==
  ASSUME NEW g, IsGeometry(g), NEW m \in 1..Len(Streams(g)), NEW t \in Nat, Has(g, m, t)
  PROVE  Ahead(g, m, t) \in 0..(Items(g) - 1)
<1>1. m \in 1..6 /\ Items(g) \in Nat /\ t < Items(g)
  <2> PICK f \in Nat, c \in Nat : Streams(g)[m].first = f /\ Streams(g)[m].count = c
    BY StreamNumbers
  <2>1. t < f + c /\ f + c <= Items(g) /\ m \in 1..6
    BY StreamNumbers DEF Has
  <2> QED BY <2>1, ItemsNat
<1>2. Ahead(g, m, t) \in Nat /\ Ahead(g, m, t) < Ahead(g, 7, Items(g))
  BY <1>1, AheadGrows
<1>3. Ahead(g, 7, Items(g)) = Items(g)
  BY <1>1, AheadIs, CutAll
<1> QED BY <1>1, <1>2, <1>3

\* No other item has it.
LEMMA PlacesApart ==
  ASSUME NEW g, IsGeometry(g), NEW m \in 1..Len(Streams(g)), NEW t \in Nat, Has(g, m, t),
         NEW l \in 1..Len(Streams(g)), NEW u \in Nat, Has(g, l, u), Ahead(g, m, t) = Ahead(g, l, u)
  PROVE  m = l /\ t = u
<1>1. m \in 1..6 /\ l \in 1..6 /\ m \in 1..7 /\ l \in 1..7
  BY StreamNumbers, SMTT(40)
<1> PICK a \in Nat : a = Ahead(g, m, t) /\ a = Ahead(g, l, u)
  BY PlaceInList
<1>2. ASSUME t < u \/ (t = u /\ m < l) PROVE FALSE
  <2>1. Ahead(g, m, t) < Ahead(g, l, u)
    BY <1>1, <1>2, AheadGrows
  <2> QED BY <2>1
<1>3. ASSUME u < t \/ (u = t /\ l < m) PROVE FALSE
  <2>1. Ahead(g, l, u) < Ahead(g, m, t)
    BY <1>1, <1>3, AheadGrows
  <2> QED BY <2>1
<1> QED BY <1>1, <1>2, <1>3

\* Each place of the list holds an item of some stream.
LEMMA ItemIs ==
  ASSUME NEW g, IsGeometry(g), NEW i \in 0..(Items(g) - 1)
  PROVE  \E m \in 1..Len(Streams(g)), t \in Nat :
           /\ Has(g, m, t) /\ Ahead(g, m, t) = i
           /\ ItemAt(g, i).kind = Streams(g)[m].kind /\ ItemAt(g, i).j = t - Streams(g)[m].first
<1> DEFINE P(a) == HasItem(g, a[1], a[2]) /\ Ahead(g, a[1], a[2]) = i
           All == (1..Len(Streams(g))) \X (0..Items(g))
           at == CHOOSE a \in All : P(a)
<1>1. \E a \in All : P(a)
  <2> PICK m \in 1..Len(Streams(g)), t \in 0..Items(g) : HasItem(g, m, t) /\ Ahead(g, m, t) = i
    BY AheadOnto
  <2>1. <<m, t>> \in All /\ P(<<m, t>>)
    OBVIOUS
  <2> QED BY <2>1
<1>2. at \in All /\ P(at)
  BY <1>1
<1>3. ItemAt(g, i).kind = Streams(g)[at[1]].kind /\ ItemAt(g, i).j = at[2] - Streams(g)[at[1]].first
  BY DEF ItemAt
<1> HIDE DEF at
<1>4. at[1] \in 1..Len(Streams(g)) /\ at[2] \in Nat
  BY <1>2
<1>5. Has(g, at[1], at[2]) /\ Ahead(g, at[1], at[2]) = i
  BY <1>2, <1>4, HasIs
<1> QED BY <1>3, <1>4, <1>5

\* No two places of the list have the same item.
LEMMA ItemsApart ==
  ASSUME NEW g, IsGeometry(g), NEW i \in 0..(Items(g) - 1), NEW k \in 0..(Items(g) - 1),
         ItemAt(g, i).kind = ItemAt(g, k).kind, ItemAt(g, i).j = ItemAt(g, k).j
  PROVE  i = k
<1> PICK m \in 1..Len(Streams(g)), t \in Nat :
      /\ Has(g, m, t) /\ Ahead(g, m, t) = i
      /\ ItemAt(g, i).kind = Streams(g)[m].kind /\ ItemAt(g, i).j = t - Streams(g)[m].first
  BY ItemIs
<1> PICK l \in 1..Len(Streams(g)), u \in Nat :
      /\ Has(g, l, u) /\ Ahead(g, l, u) = k
      /\ ItemAt(g, k).kind = Streams(g)[l].kind /\ ItemAt(g, k).j = u - Streams(g)[l].first
  BY ItemIs
<1>1. m = l
  BY KindsApart
<1>2. t = u
  <2> PICK f \in Nat : Streams(g)[m].first = f
    BY StreamNumbers
  <2>1. t - f = u - f
    BY <1>1
  <2> QED BY <2>1
<1> QED BY <1>1, <1>2

\* Every item of every stream is in the list.
LEMMA ItemsListed ==
  ASSUME NEW g, IsGeometry(g), NEW kind, NEW j, IsItem(g, kind, j)
  PROVE  \E i \in 0..(Items(g) - 1) : ItemAt(g, i).kind = kind /\ ItemAt(g, i).j = j
<1> PICK m \in 1..Len(Streams(g)) :
      Streams(g)[m].kind = kind /\ j \in 0..(Streams(g)[m].count - 1)
  BY DEF IsItem
<1> PICK f \in Nat, c \in Nat : Streams(g)[m].first = f /\ Streams(g)[m].count = c
  BY StreamsAre
<1> PICK t \in Nat : t = f + j
  OBVIOUS
<1>1. Has(g, m, t)
  BY DEF Has
<1> PICK i \in 0..(Items(g) - 1) : i = Ahead(g, m, t)
  BY <1>1, PlaceInList
<1>2. PICK l \in 1..Len(Streams(g)), u \in Nat :
        /\ Has(g, l, u) /\ Ahead(g, l, u) = i
        /\ ItemAt(g, i).kind = Streams(g)[l].kind /\ ItemAt(g, i).j = u - Streams(g)[l].first
  BY ItemIs
<1>3. l = m /\ u = t
  BY <1>1, <1>2, PlacesApart
<1>4. t - f = j
  OBVIOUS
<1> QED BY <1>2, <1>3, <1>4

\* What the list gives is an item of a stream.
LEMMA ListHasItems ==
  ASSUME NEW g, IsGeometry(g), NEW i \in 0..(Items(g) - 1)
  PROVE  IsItem(g, ItemAt(g, i).kind, ItemAt(g, i).j)
<1> PICK m \in 1..Len(Streams(g)), t \in Nat :
      /\ Has(g, m, t) /\ Ahead(g, m, t) = i
      /\ ItemAt(g, i).kind = Streams(g)[m].kind /\ ItemAt(g, i).j = t - Streams(g)[m].first
  BY ItemIs
<1>1. t - Streams(g)[m].first \in 0..(Streams(g)[m].count - 1)
  BY StreamsAre DEF Has
<1> QED BY <1>1 DEF IsItem

\* The kernel's list has each item of each stream exactly once (_prb.cu,
\* item_at, whose failure would be "merge arithmetic broken").
THEOREM MergeIsExact ==
  ASSUME NEW g, IsGeometry(g)
  PROVE  /\ \A i \in 0..(Items(g) - 1) : IsItem(g, ItemAt(g, i).kind, ItemAt(g, i).j)
         /\ \A kind, j : IsItem(g, kind, j) =>
              \E i \in 0..(Items(g) - 1) : ItemAt(g, i).kind = kind /\ ItemAt(g, i).j = j
         /\ \A i, k \in 0..(Items(g) - 1) :
              ItemAt(g, i).kind = ItemAt(g, k).kind /\ ItemAt(g, i).j = ItemAt(g, k).j => i = k
BY ItemsApart, ItemsListed, ListHasItems

-----------------------------------------------------------------------------
(***************************************************************************)
(* The steps.                                                              *)
(*                                                                         *)
(* What the tables of protocol.py say of a step, piece by piece.           *)
(***************************************************************************)

\* What a piece says of a step in it.
Says(g, d, s, p) ==
  /\ SendStep(g, d, s).src = p.src /\ SendStep(g, d, s).blk = p.blk
  /\ SendStep(g, d, s).chunk = p.chunk + (s - p.first)
  /\ SendStep(g, d, s).dep = IF p.src = "raw" THEN -1 ELSE p.dep + (s - p.first)

\* A step of a piece is what the piece says.
LEMMA PieceSays ==
  ASSUME NEW g, IsGeometry(g), NEW d \in Dir, NEW s \in 0..(Steps(g, d) - 1),
         NEW p \in Pieces(g, d), InPiece(p, s)
  PROVE  Says(g, d, s, p)
BY StepIsPiece DEF Says

\* The kinds of steps.
LEMMA StepFacts ==
  ASSUME NEW g, IsGeometry(g), NEW d \in Dir, NEW s \in 0..(Steps(g, d) - 1)
  PROVE  /\ SendStep(g, d, s).src \in {"raw", "red", "relay"}
         /\ SendStep(g, d, s).src = "relay" <=> s >= Staged(g, d)
         /\ SendStep(g, d, s).src = "red" => g.kind = "RS"
         /\ SendStep(g, d, s).src = "relay" => g.kind = "AG"
         /\ SendStep(g, d, s).blk \in -2..1
         /\ SendStep(g, d, s).chunk \in 0..(g.nc - 1)
         /\ g.kind = "AG" => SendStep(g, d, s).blk = 0
<1> PICK p \in Pieces(g, d) : InPiece(p, s)
  BY PiecesCover
<1>1. Says(g, d, s, p)
  BY PieceSays
<1>2. /\ p.src \in {"raw", "red", "relay"}
      /\ p.src = "relay" <=> s >= Staged(g, d)
      /\ p.src = "red" => g.kind = "RS"
      /\ p.src = "relay" => g.kind = "AG"
      /\ p.blk \in -2..1
      /\ p.chunk + (s - p.first) \in 0..(g.nc - 1)
      /\ g.kind = "AG" => p.blk = 0
  <2>1. CASE g.kind = "RS" /\ d = Fwd
    BY <2>1 DEF IsGeometry, Steps, Staged, Pieces, Piece, InPiece, Dir, Fwd, Bwd
  <2>2. CASE g.kind = "RS" /\ d = Bwd
    BY <2>2 DEF IsGeometry, Steps, Staged, Pieces, Piece, InPiece, Dir, Fwd, Bwd
  <2>3. CASE g.kind = "AG" /\ d = Fwd
    BY <2>3 DEF IsGeometry, Steps, Staged, Pieces, Piece, InPiece, Dir, Fwd, Bwd
  <2>4. CASE g.kind = "AG" /\ d = Bwd
    BY <2>4 DEF IsGeometry, Steps, Staged, Pieces, Piece, InPiece, Dir, Fwd, Bwd
  <2> QED BY <2>1, <2>2, <2>3, <2>4 DEF IsGeometry, Dir
<1> QED BY <1>1, <1>2 DEF Says

\* What a reduction adds to, and what a relay passes on.
LEMMA DepFacts ==
  ASSUME NEW g, IsGeometry(g), NEW d \in Dir, NEW s \in 0..(Steps(g, d) - 1),
         SendStep(g, d, s).src # "raw"
  PROVE  LET t == SendStep(g, d, s).dep
         IN /\ t \in 0..(Steps(g, d) - 1) /\ t < s
            /\ SendStep(g, d, t).chunk = SendStep(g, d, s).chunk
            /\ \/ /\ SendStep(g, d, s).src = "relay" /\ SendStep(g, d, s).blk = 0
                  /\ SendStep(g, d, t).src = "raw" /\ SendStep(g, d, t).blk = 0
               \/ /\ SendStep(g, d, s).src = "red" /\ d = Bwd /\ SendStep(g, d, s).blk = -1
                  /\ SendStep(g, d, t).src = "raw" /\ SendStep(g, d, t).blk = -2
               \/ /\ SendStep(g, d, s).src = "red" /\ d = Fwd /\ SendStep(g, d, s).blk = -2
                  /\ SendStep(g, d, t).src = "raw" /\ SendStep(g, d, t).blk = -1
               \/ /\ SendStep(g, d, s).src = "red" /\ d = Fwd /\ SendStep(g, d, s).blk = 1
                  /\ SendStep(g, d, t).src = "red" /\ SendStep(g, d, t).blk = -2
<1> PICK p \in Pieces(g, d) : InPiece(p, s)
  BY PiecesCover
<1>1. Says(g, d, s, p)
  BY PieceSays
<1>2. p.src # "raw"
  BY <1>1 DEF Says
<1> DEFINE t == SendStep(g, d, s).dep
<1>3. t = p.dep + (s - p.first)
  BY <1>1, <1>2 DEF Says
<1>4. PICK o \in Pieces(g, d) :
        /\ InPiece(o, t) /\ t \in 0..(s - 1) /\ o.chunk + (t - o.first) = p.chunk + (s - p.first)
        /\ \/ p.src = "relay" /\ p.blk = 0 /\ o.src = "raw" /\ o.blk = 0
           \/ p.src = "red" /\ d = Bwd /\ p.blk = -1 /\ o.src = "raw" /\ o.blk = -2
           \/ p.src = "red" /\ d = Fwd /\ p.blk = -2 /\ o.src = "raw" /\ o.blk = -1
           \/ p.src = "red" /\ d = Fwd /\ p.blk = 1 /\ o.src = "red" /\ o.blk = -2
  <2> HIDE DEF t
  <2>1. CASE g.kind = "RS" /\ d = Fwd
    BY <2>1, <1>2, <1>3 DEF IsGeometry, Steps, Staged, Pieces, Piece, InPiece, Dir, Fwd, Bwd
  <2>2. CASE g.kind = "RS" /\ d = Bwd
    BY <2>2, <1>2, <1>3 DEF IsGeometry, Steps, Staged, Pieces, Piece, InPiece, Dir, Fwd, Bwd
  <2>3. CASE g.kind = "AG" /\ d = Fwd
    BY <2>3, <1>2, <1>3 DEF IsGeometry, Steps, Staged, Pieces, Piece, InPiece, Dir, Fwd, Bwd
  <2>4. CASE g.kind = "AG" /\ d = Bwd
    BY <2>4, <1>2, <1>3 DEF IsGeometry, Steps, Staged, Pieces, Piece, InPiece, Dir, Fwd, Bwd
  <2> QED BY <2>1, <2>2, <2>3, <2>4 DEF IsGeometry, Dir
<1>5. t \in 0..(Steps(g, d) - 1) /\ t < s
  BY <1>4, StepsNat
<1>6. Says(g, d, t, o)
  BY <1>4, <1>5, PieceSays
<1> HIDE DEF t
<1>7. SendStep(g, d, t).chunk = SendStep(g, d, s).chunk
  BY <1>1, <1>4, <1>6 DEF Says
<1>8. \/ /\ SendStep(g, d, s).src = "relay" /\ SendStep(g, d, s).blk = 0
         /\ SendStep(g, d, t).src = "raw" /\ SendStep(g, d, t).blk = 0
      \/ /\ SendStep(g, d, s).src = "red" /\ d = Bwd /\ SendStep(g, d, s).blk = -1
         /\ SendStep(g, d, t).src = "raw" /\ SendStep(g, d, t).blk = -2
      \/ /\ SendStep(g, d, s).src = "red" /\ d = Fwd /\ SendStep(g, d, s).blk = -2
         /\ SendStep(g, d, t).src = "raw" /\ SendStep(g, d, t).blk = -1
      \/ /\ SendStep(g, d, s).src = "red" /\ d = Fwd /\ SendStep(g, d, s).blk = 1
         /\ SendStep(g, d, t).src = "red" /\ SendStep(g, d, t).blk = -2
  BY <1>1, <1>4, <1>6 DEF Says
<1> QED BY <1>5, <1>7, <1>8 DEF t

\* The steps that output items read.
LEMMA ReducedSteps ==
  ASSUME NEW g, IsGeometry(g), g.kind = "RS"
  PROVE  /\ \A j \in 0..(g.na - 1) :
              LET s == 2 * g.na + g.nb + j
              IN /\ s \in 0..(Steps(g, Fwd) - 1)
                 /\ SendStep(g, Fwd, s).src = "red" /\ SendStep(g, Fwd, s).blk = 1
                 /\ SendStep(g, Fwd, s).chunk = j
         /\ \A j \in 0..(g.nb - 1) :
              /\ g.nb + j \in 0..(Steps(g, Bwd) - 1)
              /\ SendStep(g, Bwd, g.nb + j).src = "red"
              /\ SendStep(g, Bwd, g.nb + j).chunk = g.na + j
              /\ FbStep(g, j) \in 0..(Steps(g, Fwd) - 1)
              /\ SendStep(g, Fwd, FbStep(g, j)).src = "raw"
              /\ SendStep(g, Fwd, FbStep(g, j)).blk = 1
              /\ SendStep(g, Fwd, FbStep(g, j)).chunk = g.na + j
<1>1. Fwd \in Dir /\ Bwd \in Dir
  BY DEF Dir
<1>2. ASSUME NEW j \in 0..(g.na - 1)
      PROVE  LET s == 2 * g.na + g.nb + j
             IN /\ s \in 0..(Steps(g, Fwd) - 1)
                /\ SendStep(g, Fwd, s).src = "red" /\ SendStep(g, Fwd, s).blk = 1
                /\ SendStep(g, Fwd, s).chunk = j
  <2> DEFINE s == 2 * g.na + g.nb + j
             p == Piece(2 * g.na + g.nb, g.na, "red", 1, 0, g.na + g.nb1)
  <2>1. p \in Pieces(g, Fwd) /\ InPiece(p, s) /\ s \in 0..(Steps(g, Fwd) - 1)
    BY DEF IsGeometry, Steps, Pieces, Piece, InPiece, Fwd, Bwd
  <2>2. Says(g, Fwd, s, p)
    BY <1>1, <2>1, PieceSays
  <2>3. p.src = "red" /\ p.blk = 1 /\ p.chunk + (s - p.first) = j
    BY DEF Piece, IsGeometry
  <2> QED BY <2>1, <2>2, <2>3 DEF Says
<1>3. ASSUME NEW j \in 0..(g.nb - 1)
      PROVE  /\ g.nb + j \in 0..(Steps(g, Bwd) - 1)
             /\ SendStep(g, Bwd, g.nb + j).src = "red"
             /\ SendStep(g, Bwd, g.nb + j).chunk = g.na + j
  <2> DEFINE s == g.nb + j
             p == Piece(g.nb, g.nb, "red", -1, g.na, 0)
  <2>1. p \in Pieces(g, Bwd) /\ InPiece(p, s) /\ s \in 0..(Steps(g, Bwd) - 1)
    BY DEF IsGeometry, Steps, Pieces, Piece, InPiece, Fwd, Bwd
  <2>2. Says(g, Bwd, s, p)
    BY <1>1, <2>1, PieceSays
  <2>3. p.src = "red" /\ p.chunk + (s - p.first) = g.na + j
    BY DEF Piece, IsGeometry
  <2> QED BY <2>1, <2>2, <2>3 DEF Says
<1>4. ASSUME NEW j \in 0..(g.nb - 1)
      PROVE  /\ FbStep(g, j) \in 0..(Steps(g, Fwd) - 1)
             /\ SendStep(g, Fwd, FbStep(g, j)).src = "raw"
             /\ SendStep(g, Fwd, FbStep(g, j)).blk = 1
             /\ SendStep(g, Fwd, FbStep(g, j)).chunk = g.na + j
  <2> DEFINE s == FbStep(g, j)
  <2>1. PICK p \in Pieces(g, Fwd) :
          /\ InPiece(p, s) /\ s \in 0..(Steps(g, Fwd) - 1)
          /\ p.src = "raw" /\ p.blk = 1 /\ p.chunk + (s - p.first) = g.na + j
    BY DEF IsGeometry, Steps, Pieces, Piece, InPiece, Fwd, Bwd, FbStep
  <2>2. Says(g, Fwd, s, p)
    BY <1>1, <2>1, PieceSays
  <2> QED BY <2>1, <2>2 DEF Says
<1> QED BY <1>2, <1>3, <1>4

\* The steps of an all-gather: own chunks, then relays (protocol.py, ag_schedule).
LEMMA GatheredSteps ==
  ASSUME NEW g, IsGeometry(g), g.kind = "AG"
  PROVE  /\ \A j \in 0..(g.nc - 1) :
              /\ j \in 0..(Steps(g, Fwd) - 1) /\ j \in 0..(Steps(g, Bwd) - 1)
              /\ SendStep(g, Fwd, j).src = "raw" /\ SendStep(g, Fwd, j).chunk = j
              /\ SendStep(g, Bwd, j).src = "raw"
              /\ SendStep(g, Bwd, j).chunk = OutNextChunk(g, j)
         /\ \A j \in 0..(g.nh - 1) :
              /\ g.nc + j \in 0..(Steps(g, Fwd) - 1)
              /\ SendStep(g, Fwd, g.nc + j).src = "relay"
              /\ SendStep(g, Fwd, g.nc + j).chunk = j
         /\ \A j \in 0..(g.nc - g.nh - 1) :
              /\ g.nc + j \in 0..(Steps(g, Bwd) - 1)
              /\ SendStep(g, Bwd, g.nc + j).src = "relay"
              /\ SendStep(g, Bwd, g.nc + j).chunk = g.nh + j
<1>1. Fwd \in Dir /\ Bwd \in Dir
  BY DEF Dir
<1>2. ASSUME NEW j \in 0..(g.nc - 1)
      PROVE  /\ j \in 0..(Steps(g, Fwd) - 1)
             /\ SendStep(g, Fwd, j).src = "raw" /\ SendStep(g, Fwd, j).chunk = j
  <2>1. PICK p \in Pieces(g, Fwd) :
          /\ InPiece(p, j) /\ j \in 0..(Steps(g, Fwd) - 1)
          /\ p.src = "raw" /\ p.chunk + (j - p.first) = j
    BY DEF IsGeometry, Steps, Pieces, Piece, InPiece, Fwd, Bwd
  <2>2. Says(g, Fwd, j, p)
    BY <1>1, <2>1, PieceSays
  <2> QED BY <2>1, <2>2 DEF Says
<1>3. ASSUME NEW j \in 0..(g.nc - 1)
      PROVE  /\ j \in 0..(Steps(g, Bwd) - 1)
             /\ SendStep(g, Bwd, j).src = "raw" /\ SendStep(g, Bwd, j).chunk = OutNextChunk(g, j)
  <2>1. PICK p \in Pieces(g, Bwd) :
          /\ InPiece(p, j) /\ j \in 0..(Steps(g, Bwd) - 1)
          /\ p.src = "raw" /\ p.chunk + (j - p.first) = OutNextChunk(g, j)
    BY DEF IsGeometry, Steps, Pieces, Piece, InPiece, Fwd, Bwd, OutNextChunk
  <2>2. Says(g, Bwd, j, p)
    BY <1>1, <2>1, PieceSays
  <2> QED BY <2>1, <2>2 DEF Says
<1>4. ASSUME NEW j \in 0..(g.nh - 1)
      PROVE  /\ g.nc + j \in 0..(Steps(g, Fwd) - 1)
             /\ SendStep(g, Fwd, g.nc + j).src = "relay" /\ SendStep(g, Fwd, g.nc + j).chunk = j
  <2>1. PICK p \in Pieces(g, Fwd) :
          /\ InPiece(p, g.nc + j) /\ g.nc + j \in 0..(Steps(g, Fwd) - 1)
          /\ p.src = "relay" /\ p.chunk + ((g.nc + j) - p.first) = j
    BY DEF IsGeometry, Steps, Pieces, Piece, InPiece, Fwd, Bwd
  <2>2. Says(g, Fwd, g.nc + j, p)
    BY <1>1, <2>1, PieceSays
  <2> QED BY <2>1, <2>2 DEF Says
<1>5. ASSUME NEW j \in 0..(g.nc - g.nh - 1)
      PROVE  /\ g.nc + j \in 0..(Steps(g, Bwd) - 1)
             /\ SendStep(g, Bwd, g.nc + j).src = "relay"
             /\ SendStep(g, Bwd, g.nc + j).chunk = g.nh + j
  <2>1. PICK p \in Pieces(g, Bwd) :
          /\ InPiece(p, g.nc + j) /\ g.nc + j \in 0..(Steps(g, Bwd) - 1)
          /\ p.src = "relay" /\ p.chunk + ((g.nc + j) - p.first) = g.nh + j
    BY DEF IsGeometry, Steps, Pieces, Piece, InPiece, Fwd, Bwd
  <2>2. Says(g, Bwd, g.nc + j, p)
    BY <1>1, <2>1, PieceSays
  <2> QED BY <2>1, <2>2 DEF Says
<1> QED BY <1>2, <1>3, <1>4, <1>5

-----------------------------------------------------------------------------
(***************************************************************************)
(* Calls and cursors.                                                      *)
(***************************************************************************)

\* The rank whose writes of direction d come to r.
Source(r, d) == IF d = Fwd THEN (r + 3) % 4 ELSE (r + 1) % 4

\* A cursor has passed step s of call n.
Past(c, n, s) == c.call > n \/ (c.call = n /\ c.step > s)

\* The steps of a call, those staged, the staging stream of a direction, the places of
\* a work list, and the receive slots of an area.
CallSteps(n, d) == 0..(Steps(G(n), d) - 1)
StageSteps(n, d) == 0..(Staged(G(n), d) - 1)
StageKind(d) == IF d = Fwd THEN "stageF" ELSE "stageB"
Indices(n) == 0..(Items(G(n)) - 1)
Cells == 0..(StepsCap(scenario.maxRows, scenario.crMax) - 1)

\* The ring around: a rank's neighbours, and the rank opposite.
LEMMA RanksAround ==
  ASSUME NEW r \in Rank, NEW d \in Dir
  PROVE  /\ Source(r, d) \in Rank /\ Neighbour(r, d) \in Rank
         /\ Source(Neighbour(r, d), d) = r /\ Neighbour(Source(r, d), d) = r
<1>1. r = 0 \/ r = 1 \/ r = 2 \/ r = 3
  BY DEF Rank
<1> QED BY <1>1 DEF Source, Neighbour, Rank, Dir, Fwd, Bwd

\* A rank, its two neighbours and the rank opposite are all ranks.
LEMMA AllAround ==
  ASSUME NEW r \in Rank, NEW q \in Rank
  PROVE  q = r \/ q = Source(r, Fwd) \/ q = Source(r, Bwd) \/ q = Source(Source(r, Bwd), Bwd)
<1>1. r = 0 \/ r = 1 \/ r = 2 \/ r = 3
  BY DEF Rank
<1>2. q = 0 \/ q = 1 \/ q = 2 \/ q = 3
  BY DEF Rank
<1> QED BY <1>1, <1>2 DEF Source, Dir, Fwd, Bwd

\* There are two directions.
LEMMA DirsAre == Fwd \in Dir /\ Bwd \in Dir /\ Fwd # Bwd
  BY DEF Dir, Fwd, Bwd

\* The call's plan, its list and its sends, all of one geometry.
LEMMA CallIs ==
  ASSUME scenario \in Scenarios, NEW n \in 1..Calls
  PROVE  /\ Shape(n) \in Shapes
         /\ G(n) = Geometry(scenario.calls[n].kind, scenario.calls[n].rows, scenario.crMax)
         /\ scenario.calls[n].kind \in {"RS", "AG"} /\ scenario.calls[n].rows \in Nat
         /\ scenario.maxRows \in Nat /\ scenario.crMax \in Nat \ {0}
         /\ 4 <= scenario.calls[n].rows /\ scenario.calls[n].rows <= scenario.maxRows
<1>1. scenario.calls \in Seq([kind : {"RS", "AG"}, rows : Nat]) /\ n \in 1..Len(scenario.calls)
  BY ScenarioAssumption DEF Calls
<1>2. scenario.calls[n] \in [kind : {"RS", "AG"}, rows : Nat]
  <2> DEFINE S == [kind : {"RS", "AG"}, rows : Nat]
  <2>1. scenario.calls \in Seq(S) /\ n \in 1..Len(scenario.calls)
    BY <1>1
  <2> HIDE DEF S
  <2>2. scenario.calls[n] \in S
    BY <2>1
  <2> QED BY <2>2 DEF S
<1>3. scenario.calls[n].kind \in {"RS", "AG"} /\ scenario.calls[n].rows \in Nat
  BY <1>2
<1>4. Shape(n) \in Shapes
  <2>1. Shape(n) \in {<<scenario.calls[m], scenario.crMax>> : m \in 1..Len(scenario.calls)}
    BY <1>1 DEF Shape
  <2> QED BY <2>1 DEF Shapes
<1>5. G(n) = Geometry(scenario.calls[n].kind, scenario.calls[n].rows, scenario.crMax)
  BY <1>4 DEF G, PlanOf, Shape
<1>6. /\ scenario.maxRows \in Nat /\ scenario.crMax \in Nat \ {0}
      /\ 4 <= scenario.calls[n].rows /\ scenario.calls[n].rows <= scenario.maxRows
  BY <1>1, <1>3, ScenarioAssumption
<1> QED BY <1>3, <1>4, <1>5, <1>6

\* A scenario has numbers of calls, slots and CTAs that the code accepts.
LEMMA CallsNat ==
  ASSUME scenario \in Scenarios
  PROVE  Calls \in Nat /\ scenario.nslot \in Nat /\ scenario.nslot >= 2 /\ scenario.grid \in Nat \ {0}
BY ScenarioAssumption DEF Calls

\* The number of chunks of a block is not zero.
LEMMA ChunksPositive ==
  ASSUME NEW q \in Nat \ {0}, NEW crMax \in Nat \ {0}
  PROVE  ChunkCount(q, crMax) \in Nat \ {0}
<1> DEFINE x == (q + crMax - 1) \div crMax
           y == (CeilDiv(q, crMax) + 3) \div 4
<1>1. x \in Nat /\ q + crMax - 1 < crMax * x + crMax
  BY DivIs
<1>2. x # 0
  BY <1>1
<1>3. CeilDiv(q, crMax) \in Nat \ {0}
  BY <1>1, <1>2 DEF CeilDiv
<1>4. CeilDiv(CeilDiv(q, crMax), 4) \in Nat \ {0}
  BY <1>3 DEF CeilDiv
<1> QED BY <1>4 DEF ChunkCount

\* Every call has a plan (_prb.cu, prb_launch checks its rows).
LEMMA PlanIs ==
  ASSUME scenario \in Scenarios, NEW n \in 1..Calls
  PROVE  IsGeometry(G(n))
<1> DEFINE q == scenario.calls[n].rows \div 4
<1>1. q \in Nat \ {0}
  BY CallIs
<1>2. ChunkCount(q, scenario.crMax) \in Nat \ {0}
  BY <1>1, CallIs, ChunksPositive
<1>3. IsGeometry(GeometryOf(scenario.calls[n].kind, q, ChunkCount(q, scenario.crMax)))
  BY <1>1, <1>2, CallIs, GeometryIs
<1> QED BY <1>3, CallIs DEF Geometry

\* Each direction has steps, of which the first are staged.
LEMMA StepsAre ==
  ASSUME NEW g, IsGeometry(g), NEW d \in Dir
  PROVE  /\ Steps(g, d) \in Nat \ {0} /\ Staged(g, d) \in Nat \ {0} /\ Staged(g, d) <= Steps(g, d)
BY DEF IsGeometry, Steps, Staged, Dir, Fwd, Bwd

\* Every step of a call has its receive slot and flag.
LEMMA StepsInArea ==
  ASSUME scenario \in Scenarios, NEW n \in 1..Calls, NEW d \in Dir
  PROVE  /\ Steps(G(n), d) \in Nat \ {0}
         /\ Staged(G(n), d) \in Nat \ {0} /\ Staged(G(n), d) <= Steps(G(n), d)
         /\ StageSteps(n, d) \subseteq CallSteps(n, d) /\ CallSteps(n, d) \subseteq Cells
<1>1. /\ Steps(G(n), d) \in Nat \ {0}
      /\ Staged(G(n), d) \in Nat \ {0} /\ Staged(G(n), d) <= Steps(G(n), d)
  BY PlanIs, StepsAre
<1>2. Steps(G(n), d) <= StepsCap(scenario.maxRows, scenario.crMax)
  BY CallIs, StepsFit
<1>3. StepsCap(scenario.maxRows, scenario.crMax) \in Int
  BY CallIs DEF StepsCap, CeilDiv
<1> QED BY <1>1, <1>2, <1>3 DEF StageSteps, CallSteps, Cells

\* The proxy's table of sends is the plan's.
LEMMA SendIs ==
  ASSUME scenario \in Scenarios, NEW n \in 1..Calls, NEW d \in Dir, NEW s \in CallSteps(n, d)
  PROVE  Send(n, d, s) = SendStep(G(n), d, s)
BY CallIs DEF Send, SendsOf, G, CallSteps

\* The kernel's work list is the plan's.
LEMMA ItemOfIs ==
  ASSUME scenario \in Scenarios, NEW n \in 1..Calls
  PROVE  /\ Items(G(n)) \in Nat \ {0}
         /\ DOMAIN ListOf[Shape(n)] = Indices(n)
         /\ \A i \in Indices(n) : Item(n, i) = ItemAt(G(n), i)
BY CallIs, PlanIs, ItemsNat DEF Item, ListOf, G, Indices

-----------------------------------------------------------------------------
(***************************************************************************)
(* Items.                                                                  *)
(*                                                                         *)
(* What an item waits for is a step of the neighbour that exists, and the  *)
(* last step of each direction is waited for by some item.                 *)
(***************************************************************************)

\* The items of the streams by name.
LEMMA StagingItems ==
  ASSUME NEW g, IsGeometry(g), NEW d \in Dir, NEW j
  PROVE  IsItem(g, StageKind(d), j) <=> j \in 0..(Staged(g, d) - 1)
<1>1. CASE g.kind = "RS"
  <2>1. Len(Streams(g)) = 4
    BY <1>1 DEF Streams
  <2> QED BY <1>1, <2>1 DEF IsItem, Streams, Stream, Staged, StageKind, Dir, Fwd, Bwd
<1>2. CASE g.kind = "AG"
  <2>1. Len(Streams(g)) = 6
    BY <1>2 DEF Streams
  <2> QED BY <1>2, <2>1 DEF IsItem, Streams, Stream, Staged, StageKind, Dir, Fwd, Bwd
<1> QED BY <1>1, <1>2 DEF IsGeometry

\* A staging stream belongs to one direction.
LEMMA StagingKinds ==
  /\ \A d \in Dir : Staging(StageKind(d)) /\ DirOf(StageKind(d)) = d
  /\ \A kind : Staging(kind) => DirOf(kind) \in Dir /\ kind = StageKind(DirOf(kind))
BY DEF Staging, StageKind, DirOf, Dir, Fwd, Bwd

\* The items that write the output, by kind of call.
LEMMA OutputItems ==
  ASSUME NEW g, IsGeometry(g), NEW kind, NEW j, ~Staging(kind)
  PROVE  IsItem(g, kind, j) <=>
           \/ g.kind = "RS" /\ kind = "outA" /\ j \in 0..(g.na - 1)
           \/ g.kind = "RS" /\ kind = "outB" /\ j \in 0..(g.nb - 1)
           \/ g.kind = "AG" /\ kind = "outPrev" /\ j \in 0..(g.nc - 1)
           \/ g.kind = "AG" /\ kind = "outNext" /\ j \in 0..(g.nc - 1)
           \/ g.kind = "AG" /\ kind = "outFarF" /\ j \in 0..(g.nh - 1)
           \/ g.kind = "AG" /\ kind = "outFarB" /\ j \in 0..(g.nc - g.nh - 1)
<1>1. CASE g.kind = "RS"
  <2>1. Len(Streams(g)) = 4
    BY <1>1 DEF Streams
  <2> QED BY <1>1, <2>1 DEF IsItem, Streams, Stream, Staging
<1>2. CASE g.kind = "AG"
  <2>1. Len(Streams(g)) = 6
    BY <1>2 DEF Streams
  <2> QED BY <1>2, <2>1 DEF IsItem, Streams, Stream, Staging
<1> QED BY <1>1, <1>2 DEF IsGeometry

\* Items wait for steps of the plan.
LEMMA DepsTyped ==
  ASSUME NEW g, IsGeometry(g), NEW kind, NEW j, IsItem(g, kind, j), NEW dep \in ItemDeps(g, kind, j)
  PROVE  dep[1] \in Dir /\ dep[2] \in 0..(Steps(g, dep[1]) - 1)
<1> PICK m \in 1..Len(Streams(g)) :
      Streams(g)[m].kind = kind /\ j \in 0..(Streams(g)[m].count - 1)
  BY DEF IsItem
<1> QED BY WaitsPointBack

\* Some item waits for the last step of each direction.
LEMMA LastIsRead ==
  ASSUME NEW g, IsGeometry(g), NEW d \in Dir
  PROVE  \E kind, j : IsItem(g, kind, j) /\ <<d, Steps(g, d) - 1>> \in ItemDeps(g, kind, j)
<1>1. CASE g.kind = "RS" /\ d = Fwd /\ g.na > 0
  <2>1. IsItem(g, "outA", g.na - 1)
    BY <1>1, OutputItems DEF Staging, IsGeometry
  <2>2. 2 * g.na + g.nb + (g.na - 1) = Steps(g, d) - 1
    BY <1>1 DEF Steps, IsGeometry
  <2>3. ItemDeps(g, "outA", g.na - 1) = {<<Fwd, 2 * g.na + g.nb + (g.na - 1)>>}
    BY DEF ItemDeps, Staging
  <2> QED BY <1>1, <2>1, <2>2, <2>3
<1>2. CASE g.kind = "RS" /\ d = Fwd /\ g.na = 0
  <2>1. IsItem(g, "outB", g.nb - 1)
    BY <1>2, OutputItems DEF Staging, IsGeometry
  <2>2. FbStep(g, g.nb - 1) = Steps(g, d) - 1
    BY <1>2 DEF Steps, IsGeometry, FbStep
  <2>3. ItemDeps(g, "outB", g.nb - 1) = {<<Bwd, g.nb + (g.nb - 1)>>, <<Fwd, FbStep(g, g.nb - 1)>>}
    BY DEF ItemDeps, Staging
  <2> QED BY <1>2, <2>1, <2>2, <2>3
<1>3. CASE g.kind = "RS" /\ d = Bwd
  <2>1. IsItem(g, "outB", g.nb - 1)
    BY <1>3, OutputItems DEF Staging, IsGeometry
  <2>2. g.nb + (g.nb - 1) = Steps(g, d) - 1
    BY <1>3 DEF Steps, IsGeometry, Fwd, Bwd
  <2>3. ItemDeps(g, "outB", g.nb - 1) = {<<Bwd, g.nb + (g.nb - 1)>>, <<Fwd, FbStep(g, g.nb - 1)>>}
    BY DEF ItemDeps, Staging
  <2> QED BY <1>3, <2>1, <2>2, <2>3
<1>4. CASE g.kind = "AG" /\ d = Fwd /\ g.nh > 0
  <2>1. IsItem(g, "outFarF", g.nh - 1)
    BY <1>4, OutputItems DEF Staging, IsGeometry
  <2>2. g.nc + (g.nh - 1) = Steps(g, d) - 1
    BY <1>4 DEF Steps, IsGeometry
  <2>3. ItemDeps(g, "outFarF", g.nh - 1) = {<<Fwd, g.nc + (g.nh - 1)>>}
    BY DEF ItemDeps, Staging
  <2> QED BY <1>4, <2>1, <2>2, <2>3
<1>5. CASE g.kind = "AG" /\ d = Fwd /\ g.nh = 0
  <2>1. IsItem(g, "outPrev", g.nc - 1)
    BY <1>5, OutputItems DEF Staging, IsGeometry
  <2>2. g.nc - 1 = Steps(g, d) - 1
    BY <1>5 DEF Steps, IsGeometry
  <2>3. ItemDeps(g, "outPrev", g.nc - 1) = {<<Fwd, g.nc - 1>>}
    BY DEF ItemDeps, Staging
  <2> QED BY <1>5, <2>1, <2>2, <2>3
<1>6. CASE g.kind = "AG" /\ d = Bwd
  <2>1. IsItem(g, "outFarB", g.nc - g.nh - 1)
    BY <1>6, OutputItems DEF Staging, IsGeometry
  <2>2. g.nc + (g.nc - g.nh - 1) = Steps(g, d) - 1
    BY <1>6 DEF Steps, IsGeometry, Fwd, Bwd
  <2>3. ItemDeps(g, "outFarB", g.nc - g.nh - 1) = {<<Bwd, g.nc + (g.nc - g.nh - 1)>>}
    BY DEF ItemDeps, Staging
  <2> QED BY <1>6, <2>1, <2>2, <2>3
<1>7. g.na \in Nat /\ g.nh \in Nat
  BY DEF IsGeometry
<1>8. CASE d = Fwd
  <2>1. CASE g.kind = "RS"
    BY <1>1, <1>2, <1>7, <1>8, <2>1
  <2>2. CASE g.kind = "AG"
    BY <1>4, <1>5, <1>7, <1>8, <2>2
  <2> QED BY <2>1, <2>2 DEF IsGeometry
<1>9. CASE d = Bwd
  BY <1>3, <1>6, <1>9 DEF IsGeometry
<1> QED BY <1>8, <1>9 DEF Dir

\* Some item waits for a backward step that is not the sender's own data.
LEMMA FarIsRead ==
  ASSUME NEW g, IsGeometry(g)
  PROVE  \E kind, j, s :
           /\ IsItem(g, kind, j) /\ <<Bwd, s>> \in ItemDeps(g, kind, j)
           /\ s \in 0..(Steps(g, Bwd) - 1) /\ SendStep(g, Bwd, s).src # "raw"
<1>1. CASE g.kind = "RS"
  <2>1. 0 \in 0..(g.nb - 1)
    BY DEF IsGeometry
  <2>2. IsItem(g, "outB", 0)
    BY <1>1, <2>1, OutputItems DEF Staging
  <2>3. <<Bwd, g.nb + 0>> \in ItemDeps(g, "outB", 0)
    BY DEF ItemDeps, Staging
  <2>4. g.nb + 0 \in 0..(Steps(g, Bwd) - 1) /\ SendStep(g, Bwd, g.nb + 0).src = "red"
    BY <1>1, <2>1, ReducedSteps
  <2> QED BY <2>2, <2>3, <2>4
<1>2. CASE g.kind = "AG"
  <2>1. 0 \in 0..(g.nc - g.nh - 1)
    BY DEF IsGeometry
  <2>2. IsItem(g, "outFarB", 0)
    BY <1>2, <2>1, OutputItems DEF Staging
  <2>3. <<Bwd, g.nc + 0>> \in ItemDeps(g, "outFarB", 0)
    BY DEF ItemDeps, Staging
  <2>4. g.nc + 0 \in 0..(Steps(g, Bwd) - 1) /\ SendStep(g, Bwd, g.nc + 0).src = "relay"
    BY <1>2, <2>1, GatheredSteps
  <2> QED BY <2>2, <2>3, <2>4
<1> QED BY <1>1, <1>2 DEF IsGeometry

-----------------------------------------------------------------------------
(***************************************************************************)
(* Data.                                                                   *)
(*                                                                         *)
(* What each step carries, and how the sums grow: every partial sum that   *)
(* goes round is the one that NCCL's ring would have at that place.        *)
(***************************************************************************)

\* Sums of one rank to four, in the order of NCCL's ring.
Sum1(a) == <<{a}>>
Sum2(a, b) == <<{a, b}>>
Sum3(a, b, c) == <<{a, b}, {c}>>
Sum4(a, b, c, e) == <<{a, b}, {c}, {e}>>

\* The ranks summed in what rank r sends.
SumOf(r, d, src, blk) ==
  IF src = "raw" THEN Sum1(r)
  ELSE IF src = "relay" THEN Sum1(Source(r, d))
  ELSE IF d = Bwd THEN Sum2(r, (r + 1) % 4)
  ELSE IF blk = -2 THEN Sum2(r, (r + 3) % 4)
  ELSE Sum3((r + 2) % 4, (r + 3) % 4, r)

\* Addition of two commutes.
LEMMA SumsTurn == ASSUME NEW a, NEW b PROVE Sum2(a, b) = Sum2(b, a)
<1>1. {a, b} = {b, a}
  OBVIOUS
<1> QED BY <1>1 DEF Sum2

\* The first two of three commute.
LEMMA SumsTurn3 == ASSUME NEW a, NEW b, NEW c PROVE Sum3(a, b, c) = Sum3(b, a, c)
<1>1. {a, b} = {b, a}
  OBVIOUS
<1> QED BY <1>1 DEF Sum3

\* Data of a chunk.
Data(n, block, k, sum) == [call |-> n, block |-> block, chunk |-> k, sum |-> sum]

\* What step s of direction d of call n carries from rank r.
Payload(r, n, d, s) ==
  LET st == SendStep(G(n), d, s)
  IN Data(n, IF st.src = "relay" THEN Source(r, d) ELSE (r + 4 + st.blk) % 4, st.chunk,
          SumOf(r, d, st.src, st.blk))

\* The places of the output of a call.
Area(r, n) == Blocks(r, n) \X (0..(G(n).nc - 1))

\* The places of the output that an item writes.
Target(r, n, kind, j) ==
  IF ~Staging(kind) THEN {<<(r + 4 + OutChunk(G(n), kind, j)[1]) % 4, OutChunk(G(n), kind, j)[2]>>}
  ELSE IF G(n).kind = "AG" /\ kind = "stageF" THEN {<<r, j>>}
  ELSE {}

\* One rank is one.
LEMMA OneRank == ASSUME NEW a PROVE Cardinality({a}) = 1
  BY FS_Singleton

\* Two ranks are two.
LEMMA TwoRanks == ASSUME NEW a, NEW b, a # b PROVE Cardinality({a, b}) = 2
<1>1. IsFiniteSet({a}) /\ Cardinality({a}) = 1
  BY FS_Singleton
<1>2. Cardinality({a} \union {b}) = Cardinality({a}) + 1
  BY <1>1, FS_AddElement
<1>3. {a} \union {b} = {a, b}
  OBVIOUS
<1> QED BY <1>1, <1>2, <1>3

\* A sequence that has one element more.
LEMMA AppendIs ==
  ASSUME NEW S, NEW w \in S, NEW p \in Seq(S), NEW t \in Seq(S),
         Len(t) = Len(p) + 1, t[Len(t)] = w, \A i \in 1..Len(p) : t[i] = p[i]
  PROVE  Append(p, w) = t
<1>1. /\ Append(p, w) \in Seq(S) /\ Len(Append(p, w)) = Len(p) + 1
      /\ \A i \in 1..Len(p) : Append(p, w)[i] = p[i]
      /\ Append(p, w)[Len(p) + 1] = w
  BY AppendProperties
<1> DEFINE a == Append(p, w)
<1>2. \A i \in 1..Len(a) : a[i] = t[i]
  BY <1>1
<1> HIDE DEF a
<1> QED BY <1>1, <1>2, SeqEqual DEF a

\* Sums grow at the end.
LEMMA AppendTo ==
  ASSUME NEW u, NEW v, NEW w
  PROVE  Append(<<u>>, w) = <<u, w>> /\ Append(<<u, v>>, w) = <<u, v, w>>
<1> DEFINE S == {u, v, w}
<1>1. Append(<<u>>, w) = <<u, w>>
  <2> DEFINE p == <<u>>
             t == <<u, w>>
  <2>1. p \in Seq(S) /\ t \in Seq(S)
    OBVIOUS
  <2>2. Len(p) = 1 /\ Len(t) = 2 /\ t[2] = w /\ t[1] = p[1]
    OBVIOUS
  <2> HIDE DEF p, t
  <2>3. Append(p, w) = t
    <3>1. Len(t) = Len(p) + 1 /\ t[Len(t)] = w
      BY <2>2
    <3>2. \A i \in 1..Len(p) : t[i] = p[i]
      BY <2>2
    <3> QED BY <2>1, <3>1, <3>2, AppendIs
  <2> QED BY <2>3 DEF p, t
<1>2. Append(<<u, v>>, w) = <<u, v, w>>
  <2> DEFINE p == <<u, v>>
             t == <<u, v, w>>
  <2>1. p \in Seq(S) /\ t \in Seq(S)
    OBVIOUS
  <2>2. Len(p) = 2 /\ Len(t) = 3 /\ t[3] = w /\ t[1] = p[1] /\ t[2] = p[2]
    OBVIOUS
  <2> HIDE DEF p, t
  <2>3. Append(p, w) = t
    <3>1. Len(t) = Len(p) + 1 /\ t[Len(t)] = w
      BY <2>2
    <3>2. \A i \in 1..Len(p) : t[i] = p[i]
      BY <2>2
    <3> QED BY <2>1, <3>1, <3>2, AppendIs
  <2> QED BY <2>3 DEF p, t
<1> QED BY <1>1, <1>2

\* Sums of chunks that belong together.
LEMMA AddJoins ==
  ASSUME NEW n \in Nat \ {0}, NEW block, NEW k, NEW x, NEW y, Len(x) = 1, Cardinality(x[1]) = 1
  PROVE  Add(Data(n, block, k, x), Data(n, block, k, y)) = Data(n, block, k, <<x[1] \union y[1]>>)
BY DEF Add, Data, Empty

\* A sum of more than one rank takes the next as its last term (_prb.cu, the BF16
\* additions of an item).
LEMMA AddAppends ==
  ASSUME NEW n \in Nat \ {0}, NEW block, NEW k, NEW x, NEW y, ~(Len(x) = 1 /\ Cardinality(x[1]) = 1)
  PROVE  Add(Data(n, block, k, x), Data(n, block, k, y)) = Data(n, block, k, Append(x, y[1]))
BY DEF Add, Data, Empty

\* The first addition.
LEMMA AddFirst ==
  ASSUME NEW n \in Nat \ {0}, NEW block, NEW k, NEW a, NEW b
  PROVE  Add(Data(n, block, k, Sum1(a)), Data(n, block, k, Sum1(b))) = Data(n, block, k, Sum2(a, b))
<1> USE DEF Sum1, Sum2, Sum3, Sum4
<1> DEFINE x == <<{a}>>
           y == <<{b}>>
<1>1. Len(x) = 1 /\ x[1] = {a} /\ y[1] = {b} /\ {a} \union {b} = {a, b}
  OBVIOUS
<1>2. Add(Data(n, block, k, x), Data(n, block, k, y)) = Data(n, block, k, <<x[1] \union y[1]>>)
  <2> HIDE DEF x, y
  <2> QED BY <1>1, AddJoins, OneRank
<1> QED BY <1>1, <1>2

\* The second addition.
LEMMA AddSecond ==
  ASSUME NEW n \in Nat \ {0}, NEW block, NEW k, NEW a, NEW b, NEW c, a # b
  PROVE  Add(Data(n, block, k, Sum2(a, b)), Data(n, block, k, Sum1(c))) =
           Data(n, block, k, Sum3(a, b, c))
<1> USE DEF Sum1, Sum2, Sum3, Sum4
<1> DEFINE x == <<{a, b}>>
           y == <<{c}>>
<1>1. x[1] = {a, b} /\ y[1] = {c}
  OBVIOUS
<1>2. Append(x, {c}) = <<{a, b}, {c}>>
  BY AppendTo
<1>3. Cardinality(x[1]) # 1
  <2>1. Cardinality({a, b}) = 2
    BY TwoRanks
  <2> QED BY <1>1, <2>1
<1> HIDE DEF x, y
<1>4. Add(Data(n, block, k, x), Data(n, block, k, y)) = Data(n, block, k, Append(x, y[1]))
  BY <1>3, AddAppends
<1>5. Add(Data(n, block, k, x), Data(n, block, k, y)) = Data(n, block, k, Sum3(a, b, c))
  BY <1>1, <1>2, <1>4
<1> QED BY <1>5 DEF x, y

\* The third addition.
LEMMA AddThird ==
  ASSUME NEW n \in Nat \ {0}, NEW block, NEW k, NEW a, NEW b, NEW c, NEW e
  PROVE  Add(Data(n, block, k, Sum3(a, b, c)), Data(n, block, k, Sum1(e))) =
           Data(n, block, k, Sum4(a, b, c, e))
<1> USE DEF Sum1, Sum2, Sum3, Sum4
<1> DEFINE x == <<{a, b}, {c}>>
           y == <<{e}>>
<1>1. Len(x) = 2 /\ y[1] = {e}
  OBVIOUS
<1>2. Append(x, {e}) = <<{a, b}, {c}, {e}>>
  BY AppendTo
<1> HIDE DEF x, y
<1>3. Len(x) # 1
  BY <1>1
<1>4. Add(Data(n, block, k, x), Data(n, block, k, y)) = Data(n, block, k, Append(x, y[1]))
  BY <1>3, AddAppends
<1>5. Add(Data(n, block, k, x), Data(n, block, k, y)) = Data(n, block, k, Sum4(a, b, c, e))
  BY <1>1, <1>2, <1>4
<1> QED BY <1>5 DEF x, y

\* A relay passes on what came.
LEMMA RelayCarries ==
  ASSUME scenario \in Scenarios, NEW n \in 1..Calls, NEW r \in Rank, NEW d \in Dir,
         NEW s \in CallSteps(n, d), SendStep(G(n), d, s).src = "relay"
  PROVE  Payload(Source(r, d), n, d, SendStep(G(n), d, s).dep) = Payload(r, n, d, s)
<1> DEFINE t == SendStep(G(n), d, s).dep
           p == Source(r, d)
<1>1. IsGeometry(G(n)) /\ s \in 0..(Steps(G(n), d) - 1)
  BY PlanIs DEF CallSteps
<1>2. /\ SendStep(G(n), d, t).chunk = SendStep(G(n), d, s).chunk
      /\ SendStep(G(n), d, t).src = "raw" /\ SendStep(G(n), d, t).blk = 0
  BY <1>1, DepFacts
<1>3. p \in Rank /\ (p + 4 + 0) % 4 = p
  BY RanksAround DEF Rank
<1> HIDE DEF t
<1>4. Payload(p, n, d, t) = Data(n, p, SendStep(G(n), d, s).chunk, Sum1(p))
  BY <1>2, <1>3 DEF Payload, SumOf
<1>5. Payload(r, n, d, s) = Data(n, p, SendStep(G(n), d, s).chunk, Sum1(p))
  BY DEF Payload, SumOf
<1> QED BY <1>4, <1>5 DEF t

\* A staging item puts into its slot what the plan says.
LEMMA OutgoingIs ==
  ASSUME scenario \in Scenarios, NEW n \in 1..Calls, NEW r \in Rank, NEW d \in Dir, NEW it,
         DirOf(it.kind) = d, it.j \in StageSteps(n, d),
         SendStep(G(n), d, it.j).src = "red" =>
           Incoming(r, n, <<d, SendStep(G(n), d, it.j).dep>>) =
             Payload(Source(r, d), n, d, SendStep(G(n), d, it.j).dep)
  PROVE  Outgoing(r, n, it) = Payload(r, n, d, it.j)
<1> DEFINE s == it.j
           st == SendStep(G(n), d, s)
           t == st.dep
           p == Source(r, d)
           k == st.chunk
           b == (r + 4 + st.blk) % 4
<1>1. IsGeometry(G(n)) /\ s \in CallSteps(n, d) /\ s \in 0..(Steps(G(n), d) - 1)
      /\ s < Staged(G(n), d) /\ Staged(G(n), d) \in Nat
  <2>1. IsGeometry(G(n)) /\ s \in CallSteps(n, d)
    BY PlanIs, StepsInArea
  <2> QED BY <2>1, StepsInArea DEF CallSteps, StageSteps
<1>2. Send(n, d, s) = st
  BY <1>1, SendIs
<1>3. st.src = "raw" \/ st.src = "red"
  BY <1>1, StepFacts
<1>4. n \in Nat \ {0}
  BY CallsNat
<1> HIDE DEF st
<1>5. Own(r, n, b, k) = Data(n, b, k, Sum1(r))
  BY DEF Own, Data, Sum1
<1>6. CASE st.src = "raw"
  <2>1. Outgoing(r, n, it) = Data(n, b, k, Sum1(r))
    BY <1>2, <1>5, <1>6 DEF Outgoing
  <2>2. Payload(r, n, d, s) = Data(n, b, k, Sum1(r))
    BY <1>6 DEF Payload, SumOf, st
  <2> QED BY <2>1, <2>2
<1>7. CASE st.src = "red"
  <2>1. Outgoing(r, n, it) = Add(Payload(p, n, d, t), Data(n, b, k, Sum1(r)))
    BY <1>2, <1>5, <1>7 DEF Outgoing, st
  <2>2. Payload(r, n, d, s) =
          Data(n, b, k, SumOf(r, d, "red", st.blk))
    BY <1>7 DEF Payload, st
  <2> DEFINE u == SendStep(G(n), d, t)
  <2>3. /\ u.chunk = k
        /\ \/ d = Bwd /\ st.blk = -1 /\ u.src = "raw" /\ u.blk = -2
           \/ d = Fwd /\ st.blk = -2 /\ u.src = "raw" /\ u.blk = -1
           \/ d = Fwd /\ st.blk = 1 /\ u.src = "red" /\ u.blk = -2
    BY <1>1, <1>7, DepFacts DEF st
  <2>4. Payload(p, n, d, t) = Data(n, (p + 4 + u.blk) % 4, k, SumOf(p, d, u.src, u.blk))
    BY <2>3 DEF Payload
  <2> HIDE DEF u, t, k, s, b
  <2>5. CASE d = Bwd /\ st.blk = -1 /\ u.src = "raw" /\ u.blk = -2
    <3>1. p \in Rank /\ (p + 4 + u.blk) % 4 = b /\ p = (r + 1) % 4
      BY <2>5 DEF Rank, Source, Fwd, Bwd, b
    <3>2. Payload(p, n, d, t) = Data(n, b, k, Sum1(p))
      BY <2>4, <2>5, <3>1 DEF SumOf
    <3>3. Outgoing(r, n, it) = Data(n, b, k, Sum2(p, r))
      <4>1. Add(Data(n, b, k, Sum1(p)), Data(n, b, k, Sum1(r))) = Data(n, b, k, Sum2(p, r))
        BY <1>4, AddFirst
      <4> QED BY <2>1, <3>2, <4>1
    <3>4. SumOf(r, d, "red", st.blk) = Sum2(p, r)
      BY <2>5, <3>1, SumsTurn DEF SumOf, Fwd, Bwd
    <3> QED BY <2>2, <3>3, <3>4 DEF s
  <2>6. CASE d = Fwd /\ st.blk = -2 /\ u.src = "raw" /\ u.blk = -1
    <3>1. p \in Rank /\ (p + 4 + u.blk) % 4 = b /\ p = (r + 3) % 4
      BY <2>6 DEF Rank, Source, Fwd, Bwd, b
    <3>2. Payload(p, n, d, t) = Data(n, b, k, Sum1(p))
      BY <2>4, <2>6, <3>1 DEF SumOf
    <3>3. Outgoing(r, n, it) = Data(n, b, k, Sum2(p, r))
      <4>1. Add(Data(n, b, k, Sum1(p)), Data(n, b, k, Sum1(r))) = Data(n, b, k, Sum2(p, r))
        BY <1>4, AddFirst
      <4> QED BY <2>1, <3>2, <4>1
    <3>4. SumOf(r, d, "red", st.blk) = Sum2(p, r)
      BY <2>6, <3>1, SumsTurn DEF SumOf, Fwd, Bwd
    <3> QED BY <2>2, <3>3, <3>4 DEF s
  <2>7. CASE d = Fwd /\ st.blk = 1 /\ u.src = "red" /\ u.blk = -2
    <3>1. /\ p \in Rank /\ (p + 4 + u.blk) % 4 = b /\ p = (r + 3) % 4
          /\ (p + 3) % 4 = (r + 2) % 4 /\ p # (p + 3) % 4
      BY <2>7 DEF Rank, Source, Fwd, Bwd, b
    <3>2. Payload(p, n, d, t) = Data(n, b, k, Sum2(p, (p + 3) % 4))
      BY <2>4, <2>7, <3>1 DEF SumOf, Fwd, Bwd
    <3>3. Outgoing(r, n, it) = Data(n, b, k, Sum3(p, (p + 3) % 4, r))
      <4>1. Add(Data(n, b, k, Sum2(p, (p + 3) % 4)), Data(n, b, k, Sum1(r))) =
              Data(n, b, k, Sum3(p, (p + 3) % 4, r))
        BY <1>4, <3>1, AddSecond
      <4> QED BY <2>1, <3>2, <4>1
    <3>4. SumOf(r, d, "red", st.blk) = Sum3(p, (p + 3) % 4, r)
      BY <2>7, <3>1, SumsTurn3 DEF SumOf, Fwd, Bwd
    <3> QED BY <2>2, <3>3, <3>4 DEF s
  <2> QED BY <2>3, <2>5, <2>6, <2>7
<1> QED BY <1>3, <1>6, <1>7

Chunk == [call : Nat, block : Rank, chunk : Nat, sum : Seq(SUBSET Rank)]

\* Sums are sequences of sets of ranks.
LEMMA SumsTyped ==
  ASSUME NEW a \in Rank, NEW b \in Rank, NEW c \in Rank
  PROVE  /\ Sum1(a) \in Seq(SUBSET Rank) /\ Sum2(a, b) \in Seq(SUBSET Rank)
         /\ Sum3(a, b, c) \in Seq(SUBSET Rank)
<1> DEFINE S == SUBSET Rank
<1>1. {a} \in S /\ {b} \in S /\ {c} \in S /\ {a, b} \in S
  OBVIOUS
<1> HIDE DEF S
<1>2. Sum1(a) \in Seq(S)
  BY <1>1 DEF Sum1
<1>3. Sum2(a, b) \in Seq(S)
  BY <1>1 DEF Sum2
<1>4. Sum3(a, b, c) \in Seq(S)
  BY <1>1 DEF Sum3
<1> QED BY <1>2, <1>3, <1>4 DEF S

\* What a step carries is a chunk of its call.
LEMMA PayloadIs ==
  ASSUME scenario \in Scenarios, NEW n \in 1..Calls, NEW r \in Rank, NEW d \in Dir,
         NEW s \in CallSteps(n, d)
  PROVE  Payload(r, n, d, s) \in Chunk /\ Payload(r, n, d, s).call = n
<1> PICK blk \in -2..1, k \in 0..(G(n).nc - 1) :
      blk = SendStep(G(n), d, s).blk /\ k = SendStep(G(n), d, s).chunk
  BY PlanIs, StepFacts DEF CallSteps
<1>1. n \in Nat /\ k \in Nat /\ (r + 4 + blk) % 4 \in Rank /\ Source(r, d) \in Rank
      /\ (r + 1) % 4 \in Rank /\ (r + 2) % 4 \in Rank /\ (r + 3) % 4 \in Rank
  <2>1. Source(r, d) \in Rank
    BY RanksAround
  <2>2. n \in Nat /\ k \in Nat
    BY CallsNat, PlanIs DEF IsGeometry
  <2>3. (r + 4 + blk) % 4 \in Rank
    BY DEF Rank
  <2>4. (r + 1) % 4 \in Rank /\ (r + 2) % 4 \in Rank /\ (r + 3) % 4 \in Rank
    BY DEF Rank
  <2> QED BY <2>1, <2>2, <2>3, <2>4
<1> PICK block \in Rank : block = IF SendStep(G(n), d, s).src = "relay" THEN Source(r, d) ELSE (r + 4 + blk) % 4
  BY <1>1
<1>2. SumOf(r, d, SendStep(G(n), d, s).src, blk) \in Seq(SUBSET Rank)
  BY <1>1, SumsTyped DEF SumOf
<1> PICK sum \in Seq(SUBSET Rank) : sum = SumOf(r, d, SendStep(G(n), d, s).src, blk)
  BY <1>2
<1>3. Payload(r, n, d, s) = Data(n, block, k, sum)
  BY DEF Payload
<1>4. Data(n, block, k, sum) \in Chunk /\ Data(n, block, k, sum).call = n
  BY <1>1 DEF Data, Chunk
<1> QED BY <1>3, <1>4

\* So is what a slot holds before its first use.
LEMMA EmptyIs == Empty \in Chunk
<1> DEFINE S == SUBSET Rank
<1>1. <<>> \in Seq(S)
  OBVIOUS
<1>2. 0 \in Rank /\ 0 \in Nat
  BY DEF Rank
<1> QED BY <1>1, <1>2 DEF Empty, Chunk

\* The result spelled out, in NCCL's association.
LEMMA RightIs ==
  ASSUME NEW n, NEW b, NEW k
  PROVE  Right(n, b, k) =
           Data(n, b, k, IF G(n).kind = "RS" THEN Sum4((b + 1) % 4, (b + 2) % 4, (b + 3) % 4, b)
                         ELSE Sum1(b))
BY DEF Right, NcclSum, Data, Sum1, Sum4

\* An all-gather's own block is copied as it is.
LEMMA OwnCopy ==
  ASSUME scenario \in Scenarios, NEW n \in 1..Calls, NEW r \in Rank, G(n).kind = "AG",
         NEW j \in StageSteps(n, Fwd)
  PROVE  Payload(r, n, Fwd, j) = Right(n, r, j) /\ <<r, j>> \in Area(r, n)
<1>1. j \in 0..(G(n).nc - 1) /\ IsGeometry(G(n))
  BY PlanIs DEF StageSteps, Staged
<1> DEFINE st == SendStep(G(n), Fwd, j)
<1>2. st.src = "raw" /\ st.chunk = j
  BY <1>1, GatheredSteps
<1>3. st.blk = 0
  BY <1>1, GatheredSteps, StepFacts, DirsAre
<1> HIDE DEF st
<1>4. (r + 4 + 0) % 4 = r
  BY DEF Rank
<1>5. Payload(r, n, Fwd, j) = Data(n, r, j, Sum1(r))
  BY <1>2, <1>3, <1>4 DEF Payload, SumOf, st
<1>6. Right(n, r, j) = Data(n, r, j, Sum1(r))
  BY RightIs
<1>7. <<r, j>> \in Area(r, n)
  BY <1>1 DEF Area, Blocks
<1> QED BY <1>5, <1>6, <1>7

\* What a step that an output item reads carries.
LEMMA CarriesRaw ==
  ASSUME NEW n, NEW p \in Rank, NEW d \in Dir, NEW s, NEW k, NEW b,
         SendStep(G(n), d, s).src = "raw", SendStep(G(n), d, s).chunk = k,
         b = (p + 4 + SendStep(G(n), d, s).blk) % 4
  PROVE  Payload(p, n, d, s) = Data(n, b, k, Sum1(p))
BY DEF Payload, SumOf

\* A relay carries the neighbour's own chunk.
LEMMA CarriesRelay ==
  ASSUME NEW n, NEW p \in Rank, NEW d \in Dir, NEW s, NEW k,
         SendStep(G(n), d, s).src = "relay", SendStep(G(n), d, s).chunk = k
  PROVE  Payload(p, n, d, s) = Data(n, Source(p, d), k, Sum1(Source(p, d)))
BY DEF Payload, SumOf

\* What has come for an item is what the plan says.
Came(r, n, d, s) == Incoming(r, n, <<d, s>>) = Payload(Source(r, d), n, d, s)

\* The forward half of a reduce-scatter (_prb.cu, the outA items): the sum of three that
\* came and the rank's own.
LEMMA OutAIs ==
  ASSUME scenario \in Scenarios, NEW n \in 1..Calls, NEW r \in Rank, G(n).kind = "RS", NEW it,
         it.kind = "outA", it.j \in 0..(G(n).na - 1), Came(r, n, Fwd, 2 * G(n).na + G(n).nb + it.j)
  PROVE  Output(r, n, it) = Right(n, r, it.j)
<1> DEFINE g == G(n)
           j == it.j
           s == 2 * g.na + g.nb + j
           p == Source(r, Fwd)
<1>1. IsGeometry(g) /\ n \in Nat \ {0}
  BY PlanIs, CallsNat
<1>2. SendStep(g, Fwd, s).src = "red" /\ SendStep(g, Fwd, s).blk = 1 /\ SendStep(g, Fwd, s).chunk = j
  BY <1>1, ReducedSteps
<1>3. /\ (p + 4 + 1) % 4 = r /\ (p + 2) % 4 = (r + 1) % 4 /\ (p + 3) % 4 = (r + 2) % 4
      /\ p = (r + 3) % 4
  BY DEF Source, Fwd, Bwd, Rank
<1>4. Own(r, n, r, OutChunk(g, it.kind, j)[2]) = Data(n, r, j, Sum1(r))
  BY DEF Own, OutChunk, Data, Sum1
<1>5. Output(r, n, it) = Add(Incoming(r, n, <<Fwd, s>>), Data(n, r, j, Sum1(r)))
  BY <1>4 DEF Output
<1>6. Incoming(r, n, <<Fwd, s>>) = Payload(p, n, Fwd, s)
  BY DEF Came
<1>7. Right(n, r, j) = Data(n, r, j, Sum4((r + 1) % 4, (r + 2) % 4, (r + 3) % 4, r))
  BY RightIs
<1> HIDE DEF s, p, j
<1>8. Payload(p, n, Fwd, s) = Data(n, r, j, Sum3((r + 1) % 4, (r + 2) % 4, (r + 3) % 4))
  BY <1>2, <1>3 DEF Payload, SumOf, Fwd, Bwd
<1>9. Output(r, n, it) = Data(n, r, j, Sum4((r + 1) % 4, (r + 2) % 4, (r + 3) % 4, r))
  BY <1>1, <1>5, <1>6, <1>8, AddThird
<1> QED BY <1>7, <1>9 DEF j

\* The other half (the outB items): two partial sums that came and the rank's own.
LEMMA OutBIs ==
  ASSUME scenario \in Scenarios, NEW n \in 1..Calls, NEW r \in Rank, G(n).kind = "RS", NEW it,
         it.kind = "outB", it.j \in 0..(G(n).nb - 1), Came(r, n, Bwd, G(n).nb + it.j),
         Came(r, n, Fwd, FbStep(G(n), it.j))
  PROVE  Output(r, n, it) = Right(n, r, G(n).na + it.j)
<1> DEFINE g == G(n)
           j == it.j
           k == g.na + j
           s == g.nb + j
           t == FbStep(g, j)
           q == Source(r, Bwd)
           p == Source(r, Fwd)
<1>1. IsGeometry(g) /\ n \in Nat \ {0}
  BY PlanIs, CallsNat
<1>2. /\ s \in 0..(Steps(g, Bwd) - 1)
      /\ SendStep(g, Bwd, s).src = "red" /\ SendStep(g, Bwd, s).chunk = k
      /\ SendStep(g, Fwd, t).src = "raw" /\ SendStep(g, Fwd, t).chunk = k
      /\ SendStep(g, Fwd, t).blk = 1
  BY <1>1, ReducedSteps
<1>3. SendStep(g, Bwd, s).blk = -1
  BY <1>1, <1>2, DirsAre, DepFacts
<1>4. /\ (q + 4 + (-1)) % 4 = r /\ q = (r + 1) % 4 /\ (q + 1) % 4 = (r + 2) % 4
      /\ (p + 4 + 1) % 4 = r /\ p = (r + 3) % 4 /\ q # (q + 1) % 4
  BY DEF Source, Fwd, Bwd, Rank
<1>5. Own(r, n, r, OutChunk(g, it.kind, j)[2]) = Data(n, r, k, Sum1(r))
  BY DEF Own, OutChunk, Data, Sum1
<1>6. Output(r, n, it) = Add(Add(Incoming(r, n, <<Bwd, s>>), Incoming(r, n, <<Fwd, t>>)), Data(n, r, k, Sum1(r)))
  BY <1>5 DEF Output
<1>7. Incoming(r, n, <<Fwd, t>>) = Payload(p, n, Fwd, t) /\ Incoming(r, n, <<Bwd, s>>) = Payload(q, n, Bwd, s)
  BY DEF Came
<1>8. Right(n, r, k) = Data(n, r, k, Sum4((r + 1) % 4, (r + 2) % 4, (r + 3) % 4, r))
  BY RightIs
<1> HIDE DEF s, t, p, q, k, j
<1>9. Payload(q, n, Bwd, s) = Data(n, r, k, Sum2((r + 1) % 4, (r + 2) % 4))
  BY <1>2, <1>3, <1>4 DEF Payload, SumOf
<1>10. Payload(p, n, Fwd, t) = Data(n, r, k, Sum1((r + 3) % 4))
  BY <1>2, <1>4 DEF Payload, SumOf
<1>11. Add(Payload(q, n, Bwd, s), Payload(p, n, Fwd, t)) =
         Data(n, r, k, Sum3((r + 1) % 4, (r + 2) % 4, (r + 3) % 4))
  BY <1>1, <1>4, <1>9, <1>10, AddSecond
<1>12. Output(r, n, it) = Data(n, r, k, Sum4((r + 1) % 4, (r + 2) % 4, (r + 3) % 4, r))
  BY <1>1, <1>6, <1>7, <1>11, AddThird
<1> QED BY <1>8, <1>12 DEF k, j

\* The outputs of an all-gather are copies of what came.
LEMMA OutCopies ==
  ASSUME scenario \in Scenarios, NEW n \in 1..Calls, NEW r \in Rank, G(n).kind = "AG", NEW it,
         it.kind \in {"outPrev", "outNext", "outFarF", "outFarB"}, IsItem(G(n), it.kind, it.j),
         \A dep \in ItemDeps(G(n), it.kind, it.j) : Came(r, n, dep[1], dep[2])
  PROVE  LET c == OutChunk(G(n), it.kind, it.j)
         IN Output(r, n, it) = Right(n, (r + 4 + c[1]) % 4, c[2])
<1> DEFINE g == G(n)
           j == it.j
           q == Source(r, Bwd)
           p == Source(r, Fwd)
<1>1. IsGeometry(g) /\ n \in Nat \ {0}
  BY PlanIs, CallsNat
<1>2. /\ p \in Rank /\ q \in Rank /\ (r + 4 + (-1)) % 4 = p /\ (r + 4 + 1) % 4 = q
      /\ (p + 4 + 0) % 4 = p /\ (q + 4 + 0) % 4 = q
      /\ Source(p, Fwd) = (r + 4 + 2) % 4 /\ Source(q, Bwd) = (r + 4 + 2) % 4
      /\ (r + 4 + 2) % 4 \in Rank
  BY DEF Source, Fwd, Bwd, Rank
<1>3. ASSUME NEW d \in Dir, NEW s, ItemDeps(g, it.kind, j) = {<<d, s>>}
      PROVE  Output(r, n, it) = Payload(Source(r, d), n, d, s)
  <2>1. Came(r, n, d, s)
    BY <1>3
  <2>2. (CHOOSE dep \in ItemDeps(g, it.kind, j) : TRUE) = <<d, s>>
    BY <1>3
  <2>3. Output(r, n, it) = Incoming(r, n, CHOOSE dep \in ItemDeps(g, it.kind, j) : TRUE)
    BY DEF Output
  <2> QED BY <2>1, <2>2, <2>3 DEF Came
<1>4. ASSUME NEW b, NEW k
      PROVE  Right(n, b, k) = Data(n, b, k, Sum1(b))
  BY RightIs
<1>5. CASE it.kind = "outPrev"
  <2>1. ItemDeps(g, it.kind, j) = {<<Fwd, j>>} /\ OutChunk(g, it.kind, j)[1] = -1 /\ OutChunk(g, it.kind, j)[2] = j
    BY <1>5 DEF ItemDeps, Staging, OutChunk
  <2>2. j \in 0..(g.nc - 1)
    BY <1>1, <1>5, OutputItems DEF Staging
  <2>3. SendStep(g, Fwd, j).src = "raw" /\ SendStep(g, Fwd, j).chunk = j /\ SendStep(g, Fwd, j).blk = 0
    BY <1>1, <2>2, GatheredSteps, StepFacts, DirsAre
  <2>4. Output(r, n, it) = Payload(p, n, Fwd, j)
    BY <1>3, <2>1, DirsAre
  <2> HIDE DEF p, q, j
  <2>5. Payload(p, n, Fwd, j) = Data(n, p, j, Sum1(p))
    BY <1>2, <2>3, CarriesRaw, DirsAre
  <2> QED BY <1>2, <1>4, <2>1, <2>4, <2>5 DEF j
<1>6. CASE it.kind = "outNext"
  <2>1. ItemDeps(g, it.kind, j) = {<<Bwd, j>>} /\ OutChunk(g, it.kind, j)[1] = 1
        /\ OutChunk(g, it.kind, j)[2] = OutNextChunk(g, j)
    BY <1>6 DEF ItemDeps, Staging, OutChunk
  <2>2. j \in 0..(g.nc - 1)
    BY <1>1, <1>6, OutputItems DEF Staging
  <2>3. SendStep(g, Bwd, j).src = "raw" /\ SendStep(g, Bwd, j).chunk = OutNextChunk(g, j) /\ SendStep(g, Bwd, j).blk = 0
    BY <1>1, <2>2, GatheredSteps, StepFacts, DirsAre
  <2>4. Output(r, n, it) = Payload(q, n, Bwd, j)
    BY <1>3, <2>1, DirsAre
  <2> HIDE DEF p, q, j
  <2>5. Payload(q, n, Bwd, j) = Data(n, q, OutNextChunk(g, j), Sum1(q))
    BY <1>2, <2>3, CarriesRaw, DirsAre
  <2> QED BY <1>2, <1>4, <2>1, <2>4, <2>5 DEF j
<1>7. CASE it.kind = "outFarF"
  <2> DEFINE s == g.nc + j
  <2>1. ItemDeps(g, it.kind, j) = {<<Fwd, s>>} /\ OutChunk(g, it.kind, j)[1] = 2 /\ OutChunk(g, it.kind, j)[2] = j
    BY <1>7 DEF ItemDeps, Staging, OutChunk
  <2>2. j \in 0..(g.nh - 1)
    BY <1>1, <1>7, OutputItems DEF Staging
  <2>3. SendStep(g, Fwd, s).src = "relay" /\ SendStep(g, Fwd, s).chunk = j
    BY <1>1, <2>2, GatheredSteps
  <2>4. Output(r, n, it) = Payload(p, n, Fwd, s)
    BY <1>3, <2>1, DirsAre
  <2> HIDE DEF p, q, j, s
  <2>5. Payload(p, n, Fwd, s) = Data(n, Source(p, Fwd), j, Sum1(Source(p, Fwd)))
    BY <1>2, <2>3, CarriesRelay, DirsAre
  <2> QED BY <1>2, <1>4, <2>1, <2>4, <2>5 DEF j
<1>8. CASE it.kind = "outFarB"
  <2> DEFINE s == g.nc + j
  <2>1. ItemDeps(g, it.kind, j) = {<<Bwd, s>>} /\ OutChunk(g, it.kind, j)[1] = 2 /\ OutChunk(g, it.kind, j)[2] = g.nh + j
    BY <1>8 DEF ItemDeps, Staging, OutChunk
  <2>2. j \in 0..(g.nc - g.nh - 1)
    BY <1>1, <1>8, OutputItems DEF Staging
  <2>3. SendStep(g, Bwd, s).src = "relay" /\ SendStep(g, Bwd, s).chunk = g.nh + j
    BY <1>1, <2>2, GatheredSteps
  <2>4. Output(r, n, it) = Payload(q, n, Bwd, s)
    BY <1>3, <2>1, DirsAre
  <2> DEFINE k == g.nh + j
  <2> HIDE DEF p, q, j, s, k
  <2>5. Payload(q, n, Bwd, s) = Data(n, Source(q, Bwd), k, Sum1(Source(q, Bwd)))
    BY <1>2, <2>3, CarriesRelay, DirsAre DEF k
  <2> QED BY <1>2, <1>4, <2>1, <2>4, <2>5 DEF j, k
<1> QED BY <1>5, <1>6, <1>7, <1>8

\* What an output item writes is what the result must have at its place.
LEMMA OutputIs ==
  ASSUME scenario \in Scenarios, NEW n \in 1..Calls, NEW r \in Rank, NEW it,
         IsItem(G(n), it.kind, it.j), ~Staging(it.kind),
         \A dep \in ItemDeps(G(n), it.kind, it.j) : Came(r, n, dep[1], dep[2])
  PROVE  LET c == Place(r, G(n), it)
         IN /\ Output(r, n, it) = Right(n, c[1], c[2]) /\ c \in Area(r, n)
            /\ Target(r, n, it.kind, it.j) = {c}
<1> DEFINE g == G(n)
           b == (r + 4 + OutChunk(g, it.kind, it.j)[1]) % 4
           k == OutChunk(g, it.kind, it.j)[2]
<1>1. IsGeometry(g)
  BY PlanIs
<1>2. Place(r, g, it) = <<b, k>> /\ Target(r, n, it.kind, it.j) = {<<b, k>>}
  BY DEF Place, Target
<1>3. (r + 4 + 0) % 4 = r
  BY DEF Rank
<1>4. Output(r, n, it) = Right(n, b, k) /\ <<b, k>> \in Area(r, n)
  <2>1. CASE g.kind = "RS" /\ it.kind = "outA"
    <3>1. it.j \in 0..(g.na - 1)
      BY <1>1, <2>1, OutputItems
    <3>2. ItemDeps(g, it.kind, it.j) = {<<Fwd, 2 * g.na + g.nb + it.j>>}
      BY <2>1 DEF ItemDeps, Staging
    <3>3. Came(r, n, Fwd, 2 * g.na + g.nb + it.j)
      BY <3>2
    <3>4. b = r /\ k = it.j
      BY <1>3, <2>1 DEF OutChunk
    <3>5. Output(r, n, it) = Right(n, r, it.j)
      BY <2>1, <3>1, <3>3, OutAIs
    <3>6. it.j \in 0..(g.nc - 1)
      BY <1>1, <3>1 DEF IsGeometry
    <3>7. <<r, it.j>> \in Area(r, n)
      BY <2>1, <3>6 DEF Area, Blocks
    <3> QED BY <3>4, <3>5, <3>7
  <2>2. CASE g.kind = "RS" /\ it.kind = "outB"
    <3>1. it.j \in 0..(g.nb - 1)
      BY <1>1, <2>2, OutputItems
    <3>2. ItemDeps(g, it.kind, it.j) = {<<Bwd, g.nb + it.j>>, <<Fwd, FbStep(g, it.j)>>}
      BY <2>2 DEF ItemDeps, Staging
    <3>3. Came(r, n, Bwd, g.nb + it.j) /\ Came(r, n, Fwd, FbStep(g, it.j))
      BY <3>2
    <3>4. b = r /\ k = g.na + it.j
      BY <1>3, <2>2 DEF OutChunk
    <3>5. Output(r, n, it) = Right(n, r, g.na + it.j)
      BY <2>2, <3>1, <3>3, OutBIs
    <3>6. g.na + it.j \in 0..(g.nc - 1)
      BY <1>1, <3>1 DEF IsGeometry
    <3>7. <<r, g.na + it.j>> \in Area(r, n)
      BY <2>2, <3>6 DEF Area, Blocks
    <3> QED BY <3>4, <3>5, <3>7
  <2>3. CASE g.kind = "AG"
    <3>1. it.kind \in {"outPrev", "outNext", "outFarF", "outFarB"}
      BY <1>1, <2>3, OutputItems
    <3>2. Output(r, n, it) = Right(n, b, k)
      BY <2>3, <3>1, OutCopies
    <3>3. k \in 0..(g.nc - 1)
      BY <1>1, <2>3, OutputItems DEF IsGeometry, OutChunk, OutNextChunk
    <3>4. b \in Rank
      BY <3>1 DEF OutChunk, Rank
    <3>5. <<b, k>> \in Area(r, n)
      BY <2>3, <3>3, <3>4 DEF Area, Blocks
    <3> QED BY <3>2, <3>5
  <2>4. \/ g.kind = "RS" /\ (it.kind = "outA" \/ it.kind = "outB")
        \/ g.kind = "AG"
    BY <1>1, OutputItems
  <2> QED BY <2>1, <2>2, <2>3, <2>4
<1> QED BY <1>2, <1>4

\* Every place of the result is written by some item.
LEMMA AreaCovered ==
  ASSUME scenario \in Scenarios, NEW n \in 1..Calls, NEW r \in Rank, NEW c \in Area(r, n)
  PROVE  \E kind, j : IsItem(G(n), kind, j) /\ c \in Target(r, n, kind, j)
<1> DEFINE g == G(n)
<1>1. IsGeometry(g)
  BY PlanIs
<1> PICK b \in Blocks(r, n), k \in 0..(g.nc - 1) : c = <<b, k>>
  BY DEF Area
<1>2. ASSUME NEW kind, NEW j, IsItem(g, kind, j), ~Staging(kind),
             (r + 4 + OutChunk(g, kind, j)[1]) % 4 = b, OutChunk(g, kind, j)[2] = k
      PROVE  \E kind_1, j_1 : IsItem(g, kind_1, j_1) /\ c \in Target(r, n, kind_1, j_1)
  BY <1>2 DEF Target
<1>3. CASE g.kind = "RS"
  <2>1. b = r /\ (r + 4 + 0) % 4 = b
    BY <1>3 DEF Blocks, Rank
  <2>2. CASE k < g.na
    <3>1. IsItem(g, "outA", k) /\ ~Staging("outA")
      BY <1>1, <1>3, <2>2, OutputItems DEF Staging, IsGeometry
    <3>2. OutChunk(g, "outA", k)[1] = 0 /\ OutChunk(g, "outA", k)[2] = k
      BY DEF OutChunk
    <3> QED BY <1>2, <2>1, <3>1, <3>2
  <2>3. CASE ~(k < g.na)
    <3>1. IsItem(g, "outB", k - g.na) /\ ~Staging("outB")
      BY <1>1, <1>3, <2>3, OutputItems DEF Staging, IsGeometry
    <3>2. OutChunk(g, "outB", k - g.na)[1] = 0 /\ OutChunk(g, "outB", k - g.na)[2] = k
      BY <1>1 DEF OutChunk, IsGeometry
    <3> QED BY <1>2, <2>1, <3>1, <3>2
  <2> QED BY <2>2, <2>3
<1>4. CASE g.kind = "AG"
  <2>1. b \in Rank
    BY <1>4 DEF Blocks
  <2>2. CASE b = r
    <3>1. k \in 0..(Staged(g, Fwd) - 1)
      BY <1>4 DEF Staged
    <3>2. IsItem(g, "stageF", k)
      BY <1>1, <3>1, StagingItems, DirsAre DEF StageKind
    <3>3. c \in Target(r, n, "stageF", k)
      BY <1>4, <2>2 DEF Target, Staging
    <3> QED BY <3>2, <3>3
  <2>3. CASE b = (r + 4 + (-1)) % 4
    <3>1. IsItem(g, "outPrev", k) /\ ~Staging("outPrev")
      BY <1>1, <1>4, OutputItems DEF Staging
    <3>2. OutChunk(g, "outPrev", k)[1] = -1 /\ OutChunk(g, "outPrev", k)[2] = k
      BY DEF OutChunk
    <3> QED BY <1>2, <2>3, <3>1, <3>2
  <2>4. CASE b = (r + 4 + 1) % 4
    <3> PICK j \in 0..(g.nc - 1) : OutNextChunk(g, j) = k
      <4>1. CASE k < g.nh
        <5>1. k + (g.nc - g.nh) \in 0..(g.nc - 1) /\ OutNextChunk(g, k + (g.nc - g.nh)) = k
          BY <1>1, <4>1 DEF IsGeometry, OutNextChunk
        <5> QED BY <5>1
      <4>2. CASE ~(k < g.nh)
        <5>1. k - g.nh \in 0..(g.nc - 1) /\ OutNextChunk(g, k - g.nh) = k
          BY <1>1, <4>2 DEF IsGeometry, OutNextChunk
        <5> QED BY <5>1
      <4> QED BY <4>1, <4>2
    <3>1. IsItem(g, "outNext", j) /\ ~Staging("outNext")
      BY <1>1, <1>4, OutputItems DEF Staging
    <3>2. OutChunk(g, "outNext", j)[1] = 1 /\ OutChunk(g, "outNext", j)[2] = k
      BY DEF OutChunk
    <3> QED BY <1>2, <2>4, <3>1, <3>2
  <2>5. CASE b = (r + 4 + 2) % 4
    <3>1. CASE k < g.nh
      <4>1. IsItem(g, "outFarF", k) /\ ~Staging("outFarF")
        BY <1>1, <1>4, <3>1, OutputItems DEF Staging, IsGeometry
      <4>2. OutChunk(g, "outFarF", k)[1] = 2 /\ OutChunk(g, "outFarF", k)[2] = k
        BY DEF OutChunk
      <4> QED BY <1>2, <2>5, <4>1, <4>2
    <3>2. CASE ~(k < g.nh)
      <4>1. IsItem(g, "outFarB", k - g.nh) /\ ~Staging("outFarB")
        BY <1>1, <1>4, <3>2, OutputItems DEF Staging, IsGeometry
      <4>2. OutChunk(g, "outFarB", k - g.nh)[1] = 2 /\ OutChunk(g, "outFarB", k - g.nh)[2] = k
        BY <1>1 DEF OutChunk, IsGeometry
      <4> QED BY <1>2, <2>5, <4>1, <4>2
    <3> QED BY <3>1, <3>2
  <2>6. b = r \/ b = (r + 4 + (-1)) % 4 \/ b = (r + 4 + 1) % 4 \/ b = (r + 4 + 2) % 4
    BY <2>1 DEF Rank
  <2> QED BY <2>2, <2>3, <2>4, <2>5, <2>6
<1> QED BY <1>1, <1>3, <1>4 DEF IsGeometry

-----------------------------------------------------------------------------
(***************************************************************************)
(* The invariant.                                                          *)
(*                                                                         *)
(* No buffer is acknowledged. What keeps them apart is a circle of facts,  *)
(* none of which is inductive alone: the proxy posts a step only when its  *)
(* data are there (PostInv), the kernel works an item only when what it    *)
(* waits for has come (DepInv), so a kernel that returns from a call has   *)
(* seen the last write of both neighbours (ReturnedSent), which had posted *)
(* everything and begun the call; hence writes of the next but one call in *)
(* the same area find it read (WritesLandFree), flags and receive slots    *)
(* still hold what they name (FlagInv), and staging slots what has not     *)
(* been sent (StageInv). The result is right because every item added up   *)
(* the data that the plan names (OutInv).                                  *)
(***************************************************************************)

\* Rank r's kernel has worked the j-th item of a stream in call n.
Worked(r, n, kind, j) ==
  \/ entered[r] > n
  \/ entered[r] = n /\ \E i \in done[r] : Item(n, i).kind = kind /\ Item(n, i).j = j

\* The staging slots of a direction.
Slots == 0..(scenario.nslot - 1)

RingTypeOK ==
  /\ scenario \in Scenarios
  /\ entered \in [Rank -> Nat] /\ left \in [Rank -> Nat]
  /\ done \in [Rank -> SUBSET Nat]
  /\ base \in [Rank -> Seq([Dir -> Nat])]
  /\ slot \in [Rank -> [Dir -> [Slots -> Chunk]]]
  /\ ready \in [Rank -> [Dir -> [Slots -> Nat]]]
  /\ post \in [Rank -> [Dir -> [call : Nat, step : Nat]]]
  /\ nic \in [Rank -> [Dir -> [call : Nat, step : Nat]]]
  /\ recv \in [Rank -> [{0, 1} -> [Dir -> [Cells -> Chunk]]]]
  /\ flag \in [Rank -> [{0, 1} -> [Dir -> [Cells -> Nat]]]]
  /\ DOMAIN out = Rank

HealthTypeOK ==
  /\ poison \in [Rank -> Nat]
  /\ failed \in [Rank -> BOOLEAN] /\ alive \in [Rank -> BOOLEAN]

\* A kernel is in at most one call, and returns when it has worked all items.
KernelInv(r) ==
  /\ left[r] <= entered[r] /\ entered[r] <= left[r] + 1 /\ entered[r] <= Calls
  /\ entered[r] > 0 =>
       /\ done[r] \subseteq Indices(entered[r])
       /\ left[r] = entered[r] => done[r] = Indices(entered[r])

\* The chunks of later calls come later in the staged sequences.
BaseInv(r) ==
  /\ Len(base[r]) = entered[r] + 1
  /\ \A d \in Dir : \A n \in 1..entered[r], m \in 1..(entered[r] + 1) :
       n < m => base[r][n][d] + Staged(G(n), d) <= base[r][m][d]

CursorOK(c, d) ==
  /\ c.call \in 1..(Calls + 1)
  /\ c.call <= Calls => c.step < Steps(G(c.call), d)
  /\ c.call = Calls + 1 => c.step = 0

\* The NIC follows the proxy, and the proxy the kernel.
CursorInv(r, d) ==
  /\ CursorOK(post[r][d], d) /\ CursorOK(nic[r][d], d)
  /\ nic[r][d].call <= post[r][d].call
  /\ nic[r][d].call = post[r][d].call => nic[r][d].step <= post[r][d].step
  /\ post[r][d].call <= entered[r] + 1
  /\ post[r][d].call = entered[r] + 1 => post[r][d].step = 0

\* A posted step has its data: a staged one is worked, a relay's chunk came
\* and is there until it has been passed on.
PostInv(r, d, n, s) ==
  Past(post[r][d], n, s) =>
    IF s < Staged(G(n), d) THEN Worked(r, n, StageKind(d), s)
    ELSE LET dep == SendStep(G(n), d, s).dep
         IN /\ Past(nic[Source(r, d)][d], n, dep)
            /\ ~Past(nic[r][d], n, s) => flag[r][Parity(n)][d][dep] = n

\* The j-th staged chunk of call n: its slot holds it from when it is worked
\* until it is sent, and what was in the slot before was sent when it was.
StageInv(r, d, n, j) ==
  LET gi == base[r][n][d] + j
      k == gi % scenario.nslot
      worked == Worked(r, n, StageKind(d), j)
  IN /\ ~worked => ready[r][d][k] # gi + 1
     /\ worked /\ ~Past(nic[r][d], n, j) => ready[r][d][k] = gi + 1 /\ slot[r][d][k] = Payload(r, n, d, j)
     /\ worked /\ gi >= scenario.nslot => SendDone(r, d) >= gi - scenario.nslot + 1

\* No ready word is that of a chunk of a later call.
WordsInv(r, d) == \A k \in Slots : ready[r][d][k] <= base[r][entered[r] + 1][d]

\* Worked items had what they wait for.
DepInv(r, n, kind, j) ==
  Worked(r, n, kind, j) =>
    \A dep \in ItemDeps(G(n), kind, j) : Past(nic[Source(r, dep[1])][dep[1]], n, dep[2])

\* A flag that is set names a write that was done, with its data.
FlagInv(p, d, e, s) ==
  LET m == flag[p][e][d][s]
  IN m # 0 =>
       /\ m \in 1..Calls /\ Parity(m) = e /\ s \in CallSteps(m, d)
       /\ Past(nic[Source(p, d)][d], m, s)
       /\ recv[p][e][d][s] = Payload(Source(p, d), m, d, s)

\* A write that was done has set its flag.
LandInv(p, d, n, s) == Past(nic[Source(p, d)][d], n, s) => flag[p][Parity(n)][d][s] >= n

\* The right result at the places D.
Answer(n, D) == [c \in D |-> Right(n, c[1], c[2])]

\* The result so far is right, and has what the worked items write.
OutInv(r) ==
  entered[r] > 0 =>
    /\ DOMAIN out[r] \subseteq Area(r, entered[r])
    /\ out[r] = Answer(entered[r], DOMAIN out[r])
    /\ \A i \in done[r] :
         Target(r, entered[r], Item(entered[r], i).kind, Item(entered[r], i).j) \subseteq DOMAIN out[r]

KernelsInv == \A r \in Rank : KernelInv(r)
BasesInv == \A r \in Rank : BaseInv(r)
CursorsInv == \A r \in Rank, d \in Dir : CursorInv(r, d)
PostsInv == \A r \in Rank, d \in Dir, n \in 1..Calls : \A s \in CallSteps(n, d) : PostInv(r, d, n, s)
StagesInv ==
  \A r \in Rank, d \in Dir :
    WordsInv(r, d) /\ \A n \in 1..entered[r] : \A j \in StageSteps(n, d) : StageInv(r, d, n, j)
DepsInv == \A r \in Rank, n \in 1..Calls : \A kind, j : IsItem(G(n), kind, j) => DepInv(r, n, kind, j)
FlagsInv == \A p \in Rank, d \in Dir, e \in {0, 1}, s \in Cells : FlagInv(p, d, e, s)
LandsInv == \A p \in Rank, d \in Dir, n \in 1..Calls : \A s \in CallSteps(n, d) : LandInv(p, d, n, s)
OutsInv == \A r \in Rank : OutInv(r)

CoreInv ==
  /\ RingTypeOK /\ KernelsInv /\ BasesInv /\ CursorsInv /\ PostsInv /\ StagesInv /\ DepsInv
  /\ FlagsInv /\ LandsInv /\ OutsInv

\* As long as no wait has given up, no proxy fails, and a rank that has closed
\* had returned from all calls and sent everything.
HealthInv ==
  (\A q \in Rank : poison[q] = 0) =>
    \A r \in Rank : ~failed[r] /\ (~alive[r] => left[r] = Calls /\ Quiet(r))

RingInv == CoreInv /\ HealthTypeOK /\ HealthInv

\* The counters are numbers.
LEMMA Cursors ==
  ASSUME RingTypeOK, NEW r \in Rank, NEW d \in Dir
  PROVE  /\ nic[r][d].call \in Nat /\ nic[r][d].step \in Nat
         /\ post[r][d].call \in Nat /\ post[r][d].step \in Nat
         /\ entered[r] \in Nat /\ left[r] \in Nat
BY DEF RingTypeOK

\* Two cursors are the same when their call and step are.
LEMMA CursorsSame ==
  ASSUME RingTypeOK, NEW r \in Rank, NEW d \in Dir,
         nic[r][d].call = post[r][d].call, nic[r][d].step = post[r][d].step
  PROVE  nic[r][d] = post[r][d]
<1>1. nic[r][d] \in [call : Nat, step : Nat] /\ post[r][d] \in [call : Nat, step : Nat]
  BY DEF RingTypeOK
<1> QED BY <1>1

\* What was sent was posted, and what was posted is of a call that has begun.
LEMMA PostFirst ==
  ASSUME RingTypeOK, CursorsInv, NEW r \in Rank, NEW d \in Dir, NEW n \in Nat, NEW s \in Nat
  PROVE  /\ Past(nic[r][d], n, s) => Past(post[r][d], n, s)
         /\ Past(post[r][d], n, s) => n <= entered[r]
<1>1. CursorInv(r, d)
  BY DEF CursorsInv
<1> QED BY <1>1, Cursors DEF CursorInv, Past

\* The write that the NIC does next.
LEMMA NextWrite ==
  ASSUME RingTypeOK, CursorsInv, KernelsInv, NEW r \in Rank, NEW d \in Dir, nic[r][d] # post[r][d]
  PROVE  /\ nic[r][d].call \in 1..Calls /\ nic[r][d].call <= entered[r]
         /\ nic[r][d].step \in CallSteps(nic[r][d].call, d)
         /\ Past(post[r][d], nic[r][d].call, nic[r][d].step)
         /\ ~Past(nic[r][d], nic[r][d].call, nic[r][d].step)
<1>1. CursorInv(r, d) /\ KernelInv(r)
  BY DEF CursorsInv, KernelsInv
<1> PICK c \in Nat, s \in Nat, pc \in Nat, ps \in Nat, e \in Nat :
      /\ c = nic[r][d].call /\ s = nic[r][d].step /\ pc = post[r][d].call /\ ps = post[r][d].step
      /\ e = entered[r]
  BY Cursors
<1>2. c < pc \/ (c = pc /\ s < ps)
  <2>1. ~(c = pc /\ s = ps)
    BY CursorsSame
  <2> QED BY <1>1, <2>1 DEF CursorInv
<1>3. Calls \in Nat
  BY CallsNat DEF RingTypeOK
<1>4. c <= e /\ e <= Calls /\ c \in 1..Calls
  BY <1>1, <1>2, <1>3 DEF CursorInv, CursorOK, KernelInv
<1>5. s < Steps(G(c), d)
  BY <1>1, <1>4 DEF CursorInv, CursorOK
<1>6. Steps(G(c), d) \in Nat
  BY <1>4, StepsInArea DEF RingTypeOK
<1>7. s \in CallSteps(c, d)
  BY <1>5, <1>6 DEF CallSteps
<1> QED BY <1>2, <1>4, <1>7 DEF Past

\* A kernel that has returned from call n has worked all of its items.
LEMMA ReturnedWorked ==
  ASSUME RingTypeOK, KernelsInv, NEW r \in Rank, NEW n \in 1..Calls, left[r] >= n,
         NEW kind, NEW j, IsItem(G(n), kind, j)
  PROVE  Worked(r, n, kind, j)
<1>1. KernelInv(r) /\ entered[r] \in Nat /\ left[r] \in Nat /\ n \in Nat /\ n > 0
  BY CallsNat DEF KernelsInv, RingTypeOK
<1>2. CASE entered[r] > n
  BY <1>2 DEF Worked
<1>3. CASE entered[r] = n
  <2>1. done[r] = Indices(n)
    BY <1>1, <1>3 DEF KernelInv
  <2>2. IsGeometry(G(n))
    BY PlanIs DEF RingTypeOK
  <2>3. PICK i \in Indices(n) : ItemAt(G(n), i).kind = kind /\ ItemAt(G(n), i).j = j
    BY <2>2, ItemsListed DEF Indices
  <2>4. Item(n, i) = ItemAt(G(n), i)
    BY ItemOfIs DEF RingTypeOK
  <2> QED BY <1>3, <2>1, <2>3, <2>4 DEF Worked
<1> QED BY <1>1, <1>2, <1>3 DEF KernelInv

\* The neighbours have sent all of a call that a rank has returned from.
LEMMA ReturnedSent ==
  ASSUME RingTypeOK, KernelsInv, CursorsInv, DepsInv, NEW r \in Rank, NEW d \in Dir,
         NEW n \in 1..Calls, left[r] >= n
  PROVE  nic[Source(r, d)][d].call > n
<1> DEFINE last == Steps(G(n), d) - 1
           q == Source(r, d)
<1>1. IsGeometry(G(n)) /\ q \in Rank /\ n \in Nat
  BY PlanIs, RanksAround, CallsNat DEF RingTypeOK
<1>2. PICK kind, j : IsItem(G(n), kind, j) /\ <<d, last>> \in ItemDeps(G(n), kind, j)
  BY <1>1, LastIsRead
<1>3. Worked(r, n, kind, j)
  BY <1>2, ReturnedWorked
<1>4. DepInv(r, n, kind, j)
  BY <1>2 DEF DepsInv
<1>5. Past(nic[q][d], n, last)
  BY <1>2, <1>3, <1>4 DEF DepInv
<1>6. CursorInv(q, d)
  BY <1>1 DEF CursorsInv
<1> PICK c \in Nat, s \in Nat : c = nic[q][d].call /\ s = nic[q][d].step
  BY <1>1, Cursors
<1>7. Steps(G(n), d) \in Nat \ {0} /\ Calls \in Nat
  BY StepsInArea, CallsNat DEF RingTypeOK
<1>8. c = n => s < Steps(G(n), d)
  BY <1>6 DEF CursorInv, CursorOK
<1> QED BY <1>1, <1>5, <1>7, <1>8 DEF Past

\* Nobody returns from a call that somebody has not begun.
LEMMA ReturnedEntered ==
  ASSUME RingTypeOK, KernelsInv, CursorsInv, DepsInv, PostsInv, NEW r \in Rank,
         NEW n \in 1..Calls, left[r] >= n, NEW q \in Rank
  PROVE  entered[q] >= n
<1>1. IsGeometry(G(n)) /\ n \in Nat /\ Calls \in Nat
  BY PlanIs, CallsNat DEF RingTypeOK
<1>2. CASE q = r
  BY <1>2 DEF KernelsInv, KernelInv, RingTypeOK
<1>3. ASSUME NEW d \in Dir, q = Source(r, d) PROVE entered[q] >= n
  <2>1. nic[q][d].call > n
    BY <1>3, ReturnedSent
  <2>2. Past(nic[q][d], n, 0)
    BY <2>1 DEF Past
  <2> QED BY <1>1, <2>2, PostFirst
<1>4. CASE q = Source(Source(r, Bwd), Bwd)
  <2> DEFINE p == Source(r, Bwd)
  <2>1. Bwd \in Dir /\ p \in Rank /\ q = Source(p, Bwd)
    BY <1>4, DirsAre, RanksAround
  <2>2. PICK kind, j, s :
          /\ IsItem(G(n), kind, j) /\ <<Bwd, s>> \in ItemDeps(G(n), kind, j)
          /\ s \in 0..(Steps(G(n), Bwd) - 1) /\ SendStep(G(n), Bwd, s).src # "raw"
    BY <1>1, FarIsRead
  <2>3. DepInv(r, n, kind, j) /\ Worked(r, n, kind, j)
    BY <2>2, ReturnedWorked DEF DepsInv
  <2>4. Past(nic[p][Bwd], n, s) /\ s \in Nat
    BY <2>2, <2>3, <1>1, StepsNat, DirsAre DEF DepInv
  <2>5. Past(post[p][Bwd], n, s)
    BY <1>1, <2>1, <2>4, PostFirst
  <2>6. PostInv(p, Bwd, n, s)
    BY <2>1, <2>2 DEF PostsInv, CallSteps
  <2> DEFINE t == SendStep(G(n), Bwd, s).dep
  <2>7. t \in Nat
    BY <1>1, <2>1, <2>2, DepFacts, StepsNat
  <2>8. Past(nic[q][Bwd], n, t)
    <3>1. CASE s < Staged(G(n), Bwd)
      <4>1. Worked(p, n, StageKind(Bwd), s)
        BY <2>5, <2>6, <3>1 DEF PostInv
      <4>2. s \in 0..(Staged(G(n), Bwd) - 1)
        BY <1>1, <2>4, <3>1, StepsAre, DirsAre
      <4>3. IsItem(G(n), StageKind(Bwd), s)
        BY <1>1, <4>2, StagingItems, DirsAre
      <4>4. DepInv(p, n, StageKind(Bwd), s)
        BY <2>1, <4>3 DEF DepsInv
      <4>5. SendStep(G(n), Bwd, s).src = "red"
        BY <1>1, <2>1, <2>2, <3>1, StepFacts, StepsAre
      <4>6. <<Bwd, t>> \in ItemDeps(G(n), StageKind(Bwd), s)
        BY <2>1, <4>5, StagingKinds DEF ItemDeps
      <4> QED BY <2>1, <4>1, <4>4, <4>6 DEF DepInv
    <3>2. CASE ~(s < Staged(G(n), Bwd))
      BY <2>1, <2>5, <2>6, <3>2 DEF PostInv
    <3> QED BY <3>1, <3>2
  <2> HIDE DEF t
  <2>9. Past(post[q][Bwd], n, t)
    BY <1>1, <2>1, <2>7, <2>8, PostFirst
  <2> QED BY <1>1, <2>1, <2>7, <2>9, PostFirst
<1> QED BY <1>2, <1>3, <1>4, AllAround, DirsAre

\* A set flag means that the write has come, with its data.
LEMMA CameIs ==
  ASSUME RingTypeOK, FlagsInv, NEW r \in Rank, NEW n \in 1..Calls, NEW d \in Dir,
         NEW s \in CallSteps(n, d), flag[r][Parity(n)][d][s] = n
  PROVE  Came(r, n, d, s) /\ Past(nic[Source(r, d)][d], n, s)
<1>1. n \in Nat /\ n # 0 /\ Parity(n) \in {0, 1}
  BY CallsNat DEF RingTypeOK, Parity
<1>2. s \in Cells
  BY StepsInArea DEF RingTypeOK
<1>3. FlagInv(r, d, Parity(n), s)
  BY <1>1, <1>2 DEF FlagsInv
<1> QED BY <1>1, <1>3 DEF FlagInv, Came, Incoming

\* The staged sequences start at numbers.
LEMMA BaseTyped ==
  ASSUME RingTypeOK, BasesInv, NEW r \in Rank, NEW d \in Dir, NEW n \in 1..(entered[r] + 1)
  PROVE  base[r][n] \in [Dir -> Nat] /\ base[r][n][d] \in Nat
<1> DEFINE S == [Dir -> Nat]
<1>1. base[r] \in Seq(S) /\ Len(base[r]) = entered[r] + 1
  BY DEF RingTypeOK, BasesInv, BaseInv
<1> HIDE DEF S
<1>2. base[r][n] \in S
  BY <1>1
<1> QED BY <1>2 DEF S

\* An earlier call's chunks end before a later call's begin.
LEMMA BasesGrow ==
  ASSUME RingTypeOK, BasesInv, NEW r \in Rank, NEW d \in Dir, NEW n \in 1..entered[r],
         NEW m \in 1..(entered[r] + 1), n < m
  PROVE  base[r][n][d] + Staged(G(n), d) <= base[r][m][d]
BY DEF BasesInv, BaseInv

\* A chunk's number is its own.
LEMMA StagedApart ==
  ASSUME RingTypeOK, BasesInv, KernelsInv, NEW r \in Rank, NEW d \in Dir,
         NEW n \in 1..entered[r], NEW j \in StageSteps(n, d),
         NEW m \in 1..entered[r], NEW i \in StageSteps(m, d), base[r][n][d] + j = base[r][m][d] + i
  PROVE  n = m /\ j = i
<1>1. entered[r] \in Nat /\ Calls \in Nat /\ entered[r] <= Calls
  BY CallsNat DEF RingTypeOK, KernelsInv, KernelInv
<1> PICK x \in Nat, y \in Nat : x = Staged(G(n), d) /\ y = Staged(G(m), d)
  <2>1. n \in 1..Calls /\ m \in 1..Calls
    BY <1>1
  <2> QED BY <2>1, StepsInArea DEF RingTypeOK
<1> PICK a \in Nat, b \in Nat : a = base[r][n][d] /\ b = base[r][m][d]
  BY <1>1, BaseTyped
<1>2. j \in 0..(x - 1) /\ i \in 0..(y - 1)
  BY DEF StageSteps
<1>3. n < m => a + x <= b
  BY <1>1, BasesGrow
<1>4. m < n => b + y <= a
  BY <1>1, BasesGrow
<1> QED BY <1>1, <1>2, <1>3, <1>4

\* SendDone counts the chunks that have been sent.
LEMMA SendDoneCounts ==
  ASSUME RingTypeOK, BasesInv, KernelsInv, CursorsInv, NEW r \in Rank, NEW d \in Dir,
         NEW n \in 1..entered[r], NEW j \in StageSteps(n, d)
  PROVE  /\ SendDone(r, d) \in Nat
         /\ Past(nic[r][d], n, j) => SendDone(r, d) >= base[r][n][d] + j + 1
         /\ ~Past(nic[r][d], n, j) => SendDone(r, d) <= base[r][n][d] + j
<1>1. entered[r] \in Nat /\ Calls \in Nat /\ entered[r] <= Calls
  BY CallsNat DEF RingTypeOK, KernelsInv, KernelInv
<1>2. PICK c \in Nat, s \in Nat : c = nic[r][d].call /\ s = nic[r][d].step
  BY Cursors
<1>3. c \in 1..(entered[r] + 1)
  <2>1. CursorInv(r, d) /\ post[r][d].call \in Nat
    BY Cursors DEF CursorsInv
  <2> QED BY <1>1, <1>2, <2>1 DEF CursorInv, CursorOK
<1>4. PICK x \in Nat : x = Staged(G(n), d)
  BY <1>1, StepsInArea DEF RingTypeOK
<1>5. PICK a \in Nat, b \in Nat : a = base[r][n][d] /\ b = base[r][c][d]
  BY <1>1, <1>3, BaseTyped
<1>6. j \in 0..(x - 1)
  BY <1>4 DEF StageSteps
<1>7. PICK sent : sent = SendDone(r, d)
  OBVIOUS
<1>8. Past(nic[r][d], n, j) <=> c > n \/ (c = n /\ s > j)
  BY <1>2 DEF Past
<1>9. n < c => a + x <= b
  BY <1>1, <1>3, <1>4, <1>5, BasesGrow
<1>10. CASE c > Calls
  <2>1. sent = b /\ n < c
    BY <1>1, <1>2, <1>5, <1>7, <1>10 DEF SendDone
  <2>2. sent \in Nat /\ sent >= a + j + 1
    BY <1>6, <1>9, <2>1
  <2> QED BY <1>5, <1>7, <1>8, <2>1, <2>2
<1>11. CASE c <= Calls
  <2>1. PICK y \in Nat : y = Staged(G(c), d)
    BY <1>1, <1>3, <1>11, StepsInArea DEF RingTypeOK
  <2>2. sent = b + (IF s < y THEN s ELSE y)
    BY <1>1, <1>2, <1>5, <1>7, <1>11, <2>1 DEF SendDone
  <2>3. c < n => b + y <= a
    BY <1>1, <1>3, <1>5, <2>1, BasesGrow
  <2>4. c = n => b = a /\ x = y
    BY <1>4, <1>5, <2>1
  <2>5. sent \in Nat /\ sent <= b + y /\ sent <= b + s /\ sent >= b /\ (s > j /\ y > j => sent > b + j)
    <3>1. j \in Nat
      BY <1>6
    <3> QED BY <2>2, <3>1
  <2>6. n < c => sent >= a + j + 1
    BY <1>6, <1>9, <2>5
  <2>7. c < n => sent <= a + j
    BY <1>6, <2>3, <2>5
  <2>8. c = n => (s > j => sent >= a + j + 1) /\ (~(s > j) => sent <= a + j)
    BY <1>6, <2>4, <2>5
  <2>9. n < c \/ c < n \/ c = n
    OBVIOUS
  <2>10. ~(n < c /\ c < n) /\ ~(n < c /\ c = n)
    OBVIOUS
  <2> QED BY <1>5, <1>7, <1>8, <2>5, <2>6, <2>7, <2>8, <2>9, <2>10
<1> QED BY <1>1, <1>10, <1>11

\* A write lands in a free area.
LEMMA WritesLandFree ==
  ASSUME RingTypeOK, KernelsInv, CursorsInv, DepsInv, PostsInv, NEW r \in Rank, NEW d \in Dir,
         nic[r][d] # post[r][d],
         NEW m \in 1..(nic[r][d].call - 1), Parity(m) = Parity(nic[r][d].call)
  PROVE  left[Neighbour(r, d)] >= m /\ nic[Neighbour(r, d)][d].call > m
<1> DEFINE p == Neighbour(r, d)
           q == Neighbour(p, d)
<1>1. p \in Rank /\ q \in Rank /\ Source(q, d) = p
  BY RanksAround
<1> PICK n \in Nat : n = nic[r][d].call
  BY Cursors
<1>2. n \in 1..Calls /\ n <= entered[r] /\ Calls \in Nat
  BY NextWrite, CallsNat DEF RingTypeOK
<1>3. m + 2 <= n /\ m \in 1..Calls /\ m + 1 \in 1..Calls
  <2>1. m \in 1..(n - 1) /\ m % 2 = n % 2
    BY DEF Parity
  <2>2. m \in Nat /\ m + 2 <= n /\ m >= 1
    BY <2>1
  <2> QED BY <1>2, <2>2
<1>4. left[r] \in Nat /\ left[r] >= m + 1
  BY <1>2, <1>3 DEF KernelsInv, KernelInv, RingTypeOK
<1>5. entered[p] >= m + 1 /\ entered[q] >= m + 1
  BY <1>1, <1>3, <1>4, ReturnedEntered
<1>6. left[p] >= m /\ left[q] >= m
  <2>1. ASSUME NEW x \in Rank, entered[x] >= m + 1 PROVE left[x] >= m
    <3>1. KernelInv(x) /\ entered[x] \in Nat /\ left[x] \in Nat
      BY DEF KernelsInv, RingTypeOK
    <3> QED BY <2>1, <3>1 DEF KernelInv
  <2> QED BY <1>1, <1>5, <2>1
<1>7. nic[p][d].call > m
  BY <1>1, <1>3, <1>6, ReturnedSent
<1> QED BY <1>6, <1>7

\* What the NIC is about to send is there.
LEMMA NextIsThere ==
  ASSUME RingTypeOK, KernelsInv, CursorsInv, PostsInv, StagesInv, FlagsInv, NEW r \in Rank, NEW d \in Dir,
         nic[r][d] # post[r][d]
  PROVE  LET n == nic[r][d].call
             s == nic[r][d].step
             gi == base[r][n][d] + s
         IN IF s < Staged(G(n), d)
            THEN /\ ready[r][d][gi % scenario.nslot] = gi + 1
                 /\ slot[r][d][gi % scenario.nslot] = Payload(r, n, d, s)
            ELSE Incoming(r, n, <<d, Send(n, d, s).dep>>) = Payload(r, n, d, s)
<1> PICK n \in Nat, s \in Nat : n = nic[r][d].call /\ s = nic[r][d].step
  BY Cursors
<1>1. /\ n \in 1..Calls /\ n <= entered[r] /\ s \in CallSteps(n, d)
      /\ Past(post[r][d], n, s) /\ ~Past(nic[r][d], n, s)
  BY NextWrite
<1>2. PostInv(r, d, n, s)
  BY <1>1 DEF PostsInv
<1>3. CASE s < Staged(G(n), d)
  <2>1. Worked(r, n, StageKind(d), s)
    BY <1>1, <1>2, <1>3 DEF PostInv
  <2>2. s \in StageSteps(n, d) /\ n \in 1..entered[r]
    BY <1>1, <1>3, StepsInArea DEF StageSteps, RingTypeOK
  <2>3. StageInv(r, d, n, s)
    BY <2>2 DEF StagesInv
  <2> QED BY <1>1, <1>3, <2>1, <2>3 DEF StageInv
<1>4. CASE ~(s < Staged(G(n), d))
  <2> DEFINE t == SendStep(G(n), d, s).dep
  <2>1. flag[r][Parity(n)][d][t] = n
    BY <1>1, <1>2, <1>4 DEF PostInv
  <2>2. IsGeometry(G(n)) /\ s \in 0..(Steps(G(n), d) - 1)
    BY <1>1, PlanIs DEF RingTypeOK, CallSteps
  <2>3. SendStep(G(n), d, s).src = "relay"
    BY <2>2, <1>4, StepFacts, StepsAre
  <2>4. t \in CallSteps(n, d)
    BY <2>2, <2>3, DepFacts DEF CallSteps
  <2>5. Incoming(r, n, <<d, t>>) = Payload(Source(r, d), n, d, t)
    BY <1>1, <2>1, <2>4, CameIs DEF Came
  <2>6. Payload(Source(r, d), n, d, t) = Payload(r, n, d, s)
    BY <1>1, <2>3, RelayCarries DEF RingTypeOK
  <2>7. Send(n, d, s).dep = t
    BY <1>1, SendIs DEF RingTypeOK
  <2> QED BY <1>4, <2>5, <2>6, <2>7
<1> QED BY <1>3, <1>4

-----------------------------------------------------------------------------
(***************************************************************************)
(* The steps that leave most alone.                                        *)
(***************************************************************************)

\* The plan does not change.
LEMMA PlanStays ==
  ASSUME UNCHANGED scenario
  PROVE  /\ Calls' = Calls /\ Cells' = Cells /\ Slots' = Slots
         /\ \A n : G(n)' = G(n) /\ Indices(n)' = Indices(n)
         /\ \A n, i : Item(n, i)' = Item(n, i)
         /\ \A n, d : CallSteps(n, d)' = CallSteps(n, d) /\ StageSteps(n, d)' = StageSteps(n, d)
         /\ \A r, n : Area(r, n)' = Area(r, n)
         /\ \A n, b, k : Right(n, b, k)' = Right(n, b, k)
         /\ \A n, D : Answer(n, D)' = Answer(n, D)
         /\ \A r, n, d, s : Payload(r, n, d, s)' = Payload(r, n, d, s)
         /\ \A r, n, kind, j : Target(r, n, kind, j)' = Target(r, n, kind, j)
         /\ \A c, d : CursorOK(c, d)' = CursorOK(c, d)
<1>1. Calls' = Calls /\ Cells' = Cells /\ Slots' = Slots
  BY DEF Calls, Cells, Slots
<1>2. ASSUME NEW n PROVE G(n)' = G(n)
  BY DEF G, Shape
<1>3. ASSUME NEW n PROVE Indices(n)' = Indices(n)
  BY <1>2 DEF Indices
<1>4. ASSUME NEW n, NEW i PROVE Item(n, i)' = Item(n, i)
  BY DEF Item, Shape
<1>5. ASSUME NEW n, NEW d PROVE CallSteps(n, d)' = CallSteps(n, d) /\ StageSteps(n, d)' = StageSteps(n, d)
  BY <1>2 DEF CallSteps, StageSteps
<1>6. ASSUME NEW r, NEW n PROVE Area(r, n)' = Area(r, n)
  BY <1>2 DEF Area, Blocks
<1>7. ASSUME NEW n, NEW b, NEW k PROVE Right(n, b, k)' = Right(n, b, k)
  BY <1>2 DEF Right
<1>8. ASSUME NEW n, NEW D PROVE Answer(n, D)' = Answer(n, D)
  BY <1>7 DEF Answer
<1>9. ASSUME NEW r, NEW n, NEW d, NEW s PROVE Payload(r, n, d, s)' = Payload(r, n, d, s)
  BY <1>2 DEF Payload
<1>10. ASSUME NEW r, NEW n, NEW kind, NEW j PROVE Target(r, n, kind, j)' = Target(r, n, kind, j)
  BY <1>2 DEF Target
<1>11. ASSUME NEW c, NEW d PROVE CursorOK(c, d)' = CursorOK(c, d)
  BY <1>1, <1>2 DEF CursorOK
<1> QED BY <1>1, <1>2, <1>3, <1>4, <1>5, <1>6, <1>7, <1>8, <1>9, <1>10, <1>11

\* The kernels, proxies and NICs do nothing.
Still == UNCHANGED <<scenario, kernelVars, post, wireVars>>

\* Worked items depend on the kernel only.
LEMMA WorkedStays ==
  ASSUME UNCHANGED <<scenario, entered, done>>
  PROVE  \A r, n, kind, j : Worked(r, n, kind, j)' = Worked(r, n, kind, j)
BY PlanStays DEF Worked

\* What is left alone keeps the invariant.
LEMMA StillKeeps == CoreInv /\ Still => CoreInv'
<1> SUFFICES ASSUME CoreInv, Still PROVE CoreInv'
  OBVIOUS
<1>1. /\ UNCHANGED <<scenario, entered, left, done, base, slot, ready, out, post, nic, recv, flag>>
      /\ UNCHANGED scenario
      /\ UNCHANGED <<scenario, entered, done>>
  BY DEF Still, kernelVars, wireVars
<1> USE <1>1, PlanStays
<1>2. RingTypeOK'
  BY DEF CoreInv, RingTypeOK
<1>3. KernelsInv'
  BY DEF CoreInv, KernelsInv, KernelInv
<1>4. BasesInv'
  BY DEF CoreInv, BasesInv, BaseInv
<1>5. CursorsInv'
  BY DEF CoreInv, CursorsInv, CursorInv
<1>6. PostsInv'
  BY WorkedStays DEF CoreInv, PostsInv, PostInv
<1>7. StagesInv'
  <2>1. ASSUME NEW r, NEW d PROVE SendDone(r, d)' = SendDone(r, d)
    BY DEF SendDone
  <2> QED BY <2>1, WorkedStays, SMTT(40) DEF CoreInv, StagesInv, StageInv, WordsInv
<1>8. DepsInv'
  BY WorkedStays DEF CoreInv, DepsInv, DepInv
<1>9. FlagsInv'
  BY DEF CoreInv, FlagsInv, FlagInv
<1>10. LandsInv'
  BY DEF CoreInv, LandsInv, LandInv
<1>11. OutsInv'
  BY DEF CoreInv, OutsInv, OutInv
<1> QED BY <1>2, <1>3, <1>4, <1>5, <1>6, <1>7, <1>8, <1>9, <1>10, <1>11 DEF CoreInv

\* A cursor that advances passes exactly the step it was at.
LEMMA AdvanceIs ==
  ASSUME scenario \in Scenarios, NEW d \in Dir, NEW n \in 1..Calls, NEW s \in CallSteps(n, d)
  PROVE  LET c == Advance(n, d, s)
         IN /\ c \in [call : Nat, step : Nat] /\ CursorOK(c, d)
            /\ (c.call = n /\ c.step = s + 1) \/ (c.call = n + 1 /\ c.step = 0)
            /\ \A m \in 1..Calls : \A t \in CallSteps(m, d) :
                 Past(c, m, t) <=> m < n \/ (m = n /\ t <= s)
<1> PICK x \in Nat \ {0} : x = Steps(G(n), d)
  BY StepsInArea
<1>1. n \in Nat /\ n # 0 /\ Calls \in Nat /\ n <= Calls /\ s \in 0..(x - 1)
  BY CallsNat DEF CallSteps
<1>2. CASE s + 1 < x
  <2> DEFINE c == [call |-> n, step |-> s + 1]
  <2>1. Advance(n, d, s) = c
    BY <1>2 DEF Advance
  <2>2. c \in [call : Nat, step : Nat] /\ CursorOK(c, d)
    BY <1>1, <1>2 DEF CursorOK
  <2>3. ASSUME NEW m \in 1..Calls, NEW t \in CallSteps(m, d)
        PROVE  Past(c, m, t) <=> m < n \/ (m = n /\ t <= s)
    <3>1. m \in Nat /\ t \in Int
      BY <1>1 DEF CallSteps
    <3> QED BY <1>1, <3>1 DEF Past
  <2>4. c.call = n
    OBVIOUS
  <2>5. c.step = s + 1
    OBVIOUS
  <2> HIDE DEF c
  <2>6. (c.call = n /\ c.step = s + 1) \/ (c.call = n + 1 /\ c.step = 0)
    BY <2>4, <2>5
  <2>7. \A m \in 1..Calls : \A t \in CallSteps(m, d) : Past(c, m, t) <=> m < n \/ (m = n /\ t <= s)
    BY <2>3
  <2> QED BY <2>1, <2>2, <2>6, <2>7
<1>3. CASE ~(s + 1 < x)
  <2> DEFINE c == [call |-> n + 1, step |-> 0]
  <2>1. Advance(n, d, s) = c
    BY <1>3 DEF Advance
  <2>2. c \in [call : Nat, step : Nat] /\ CursorOK(c, d)
    <3>1. n + 1 <= Calls => 0 < Steps(G(n + 1), d)
      BY <1>1, StepsInArea
    <3> QED BY <1>1, <3>1 DEF CursorOK
  <2>3. ASSUME NEW m \in 1..Calls, NEW t \in CallSteps(m, d)
        PROVE  Past(c, m, t) <=> m < n \/ (m = n /\ t <= s)
    <3> PICK y \in Nat : y = Steps(G(m), d)
      BY StepsInArea
    <3>1. m \in Nat /\ t \in 0..(y - 1)
      BY <1>1 DEF CallSteps
    <3>2. m = n => y = x
      OBVIOUS
    <3> QED BY <1>1, <1>3, <3>1, <3>2 DEF Past
  <2>4. (c.call = n /\ c.step = s + 1) \/ (c.call = n + 1 /\ c.step = 0)
    OBVIOUS
  <2> HIDE DEF c
  <2> QED BY <2>1, <2>2, <2>3, <2>4
<1> QED BY <1>2, <1>3

\* The proxy's next step.
LEMMA NextPost ==
  ASSUME RingTypeOK, CursorsInv, KernelsInv, NEW r \in Rank, NEW d \in Dir, post[r][d].call <= entered[r]
  PROVE  /\ post[r][d].call \in 1..Calls
         /\ post[r][d].step \in CallSteps(post[r][d].call, d)
<1>1. CursorInv(r, d) /\ KernelInv(r)
  BY DEF CursorsInv, KernelsInv
<1> PICK c \in Nat, s \in Nat, e \in Nat : c = post[r][d].call /\ s = post[r][d].step /\ e = entered[r]
  BY Cursors
<1>2. Calls \in Nat
  BY CallsNat DEF RingTypeOK
<1>3. c \in 1..Calls
  BY <1>1, <1>2 DEF CursorInv, CursorOK, KernelInv
<1>4. s < Steps(G(c), d) /\ Steps(G(c), d) \in Nat
  BY <1>1, <1>3, StepsInArea DEF CursorInv, CursorOK, RingTypeOK
<1> QED BY <1>3, <1>4 DEF CallSteps

\* Posting a write keeps the invariant (_prb.cu, proxy_main).
LEMMA PostKeeps ==
  ASSUME CoreInv, NEW r \in Rank, NEW d \in Dir, Post(r, d)
  PROVE  CoreInv'
<1> DEFINE n == post[r][d].call
           s == post[r][d].step
           new == Advance(n, d, s)
<1>1. /\ UNCHANGED <<entered, left, done, base, slot, ready, out, nic, recv, flag>>
      /\ UNCHANGED scenario
      /\ UNCHANGED <<scenario, entered, done>>
      /\ CanPost(r, d)
      /\ post' = [post EXCEPT ![r][d] = new]
  BY DEF Post, kernelVars, wireVars
<1>2. /\ RingTypeOK /\ KernelsInv /\ BasesInv /\ CursorsInv /\ PostsInv /\ StagesInv /\ DepsInv
      /\ FlagsInv /\ LandsInv /\ OutsInv /\ scenario \in Scenarios
  BY DEF CoreInv, RingTypeOK
<1>3. n \in 1..Calls /\ s \in CallSteps(n, d) /\ n <= entered[r]
  BY <1>1, <1>2, NextPost DEF CanPost
<1>4. /\ new \in [call : Nat, step : Nat] /\ CursorOK(new, d)
      /\ (new.call = n /\ new.step = s + 1) \/ (new.call = n + 1 /\ new.step = 0)
      /\ \A m \in 1..Calls : \A t \in CallSteps(m, d) :
           Past(new, m, t) <=> m < n \/ (m = n /\ t <= s)
  BY <1>2, <1>3, AdvanceIs
<1>5. \A q \in Rank, e \in Dir : post'[q][e] = IF q = r /\ e = d THEN new ELSE post[q][e]
  BY <1>1, <1>2 DEF RingTypeOK
<1> HIDE DEF new
<1>6. RingTypeOK'
  <2>1. post' \in [Rank -> [Dir -> [call : Nat, step : Nat]]]
    BY <1>1, <1>2, <1>4 DEF RingTypeOK
  <2> QED BY <1>1, <1>2, <2>1, PlanStays DEF RingTypeOK
<1>7. KernelsInv'
  BY <1>1, <1>2, PlanStays DEF KernelsInv, KernelInv
<1>8. BasesInv'
  BY <1>1, <1>2, PlanStays DEF BasesInv, BaseInv
<1>9. CursorsInv'
  <2>1. ASSUME NEW q \in Rank, NEW e \in Dir PROVE CursorInv(q, e)'
    <3>1. CursorInv(q, e)
      BY <1>2 DEF CursorsInv
    <3>2. CASE q = r /\ e = d
      <4>1. post'[q][e] = new
        BY <1>5, <3>2
      <4>2. CursorOK(new, d) /\ CursorOK(nic[r][d], d)
        BY <1>4, <3>1, <3>2 DEF CursorInv
      <4> PICK c \in Nat, t \in Nat, E \in Nat : c = nic[r][d].call /\ t = nic[r][d].step /\ E = entered[r]
        BY <1>2, Cursors
      <4>3. n \in Nat /\ s \in Nat /\ c <= n /\ (c = n => t <= s) /\ n <= E
        BY <1>2, <1>3, <3>1, <3>2, Cursors DEF CursorInv
      <4>4. c <= new.call /\ (c = new.call => t <= new.step) /\ new.call <= E + 1 /\ (new.call = E + 1 => new.step = 0)
        BY <1>4, <4>3
      <4> QED BY <1>1, <3>2, <4>1, <4>2, <4>4, PlanStays DEF CursorInv
    <3>3. CASE ~(q = r /\ e = d)
      <4>1. post'[q][e] = post[q][e]
        BY <1>5, <3>3
      <4> QED BY <1>1, <3>1, <4>1, PlanStays DEF CursorInv
    <3> QED BY <3>2, <3>3
  <2> QED BY <2>1 DEF CursorsInv
<1>10. PostsInv'
  <2>1. ASSUME NEW q \in Rank, NEW e \in Dir, NEW m \in 1..Calls, NEW t \in CallSteps(m, e)
        PROVE  PostInv(q, e, m, t)'
    <3>1. PostInv(q, e, m, t)
      BY <1>2 DEF PostsInv
    <3>2. CASE Past(post'[q][e], m, t) => Past(post[q][e], m, t)
      BY <1>1, <3>1, <3>2, PlanStays, WorkedStays DEF PostInv
    <3>3. CASE Past(post'[q][e], m, t) /\ ~Past(post[q][e], m, t)
      <4>1. q = r /\ e = d
        BY <1>5, <3>3
      <4>2. m < n \/ (m = n /\ t <= s)
        BY <1>4, <1>5, <3>3, <4>1
      <4>3. m = n /\ t = s
        <5>1. m \in Nat /\ n \in Nat /\ s \in Nat /\ t \in Nat
          <6>1. m \in Nat /\ n \in Nat /\ s \in Nat
            BY <1>2, <4>1, CallsNat, Cursors
          <6>2. Steps(G(m), e) \in Nat
            BY <1>2, StepsInArea
          <6> QED BY <6>1, <6>2 DEF CallSteps
        <5> QED BY <3>3, <4>1, <4>2, <5>1 DEF Past
      <4>4. CASE s < Staged(G(n), d)
        <5> DEFINE gi == base[r][n][d] + s
        <5>1. ready[r][d][gi % scenario.nslot] = gi + 1
          BY <1>1, <4>4 DEF CanPost
        <5>2. s \in StageSteps(n, d) /\ n \in 1..entered[r]
          <6>1. Staged(G(n), d) \in Nat /\ Steps(G(n), d) \in Nat /\ entered[r] \in Nat
            BY <1>2, <1>3, StepsInArea DEF RingTypeOK
          <6> QED BY <1>3, <4>4, <6>1 DEF StageSteps, CallSteps
        <5>3. StageInv(r, d, n, s)
          BY <1>2, <5>2 DEF StagesInv
        <5>4. Worked(r, n, StageKind(d), s)
          BY <5>1, <5>3 DEF StageInv
        <5> QED BY <1>1, <4>1, <4>3, <4>4, <5>4, PlanStays, WorkedStays DEF PostInv
      <4>5. CASE ~(s < Staged(G(n), d))
        <5> DEFINE dep == SendStep(G(n), d, s).dep
        <5>1. Send(n, d, s).dep = dep
          BY <1>2, <1>3, SendIs
        <5>2. flag[r][Parity(n)][d][dep] = n
          BY <1>1, <4>5, <5>1 DEF CanPost, Arrived
        <5>3. IsGeometry(G(n)) /\ s \in 0..(Steps(G(n), d) - 1)
          BY <1>2, <1>3, PlanIs DEF CallSteps
        <5>4. dep \in CallSteps(n, d)
          BY <4>5, <5>3, StepFacts, StepsAre, DepFacts DEF CallSteps
        <5>5. Past(nic[Source(r, d)][d], n, dep)
          BY <1>2, <1>3, <5>2, <5>4, CameIs
        <5>6. /\ flag[r][Parity(m)][d][SendStep(G(m), d, t).dep] = m
              /\ Past(nic[Source(r, d)][d], m, SendStep(G(m), d, t).dep)
              /\ ~(t < Staged(G(m), d))
          BY <4>3, <4>5, <5>2, <5>5
        <5> HIDE DEF n, s
        <5> QED BY <1>1, <4>1, <5>6, PlanStays DEF PostInv
      <4> QED BY <4>4, <4>5
    <3> QED BY <3>2, <3>3
  <2> QED BY <1>1, <2>1, PlanStays DEF PostsInv
<1>11. StagesInv'
  <2>1. ASSUME NEW q, NEW e PROVE SendDone(q, e)' = SendDone(q, e)
    BY <1>1, PlanStays DEF SendDone
  <2> QED BY <1>1, <1>2, <2>1, PlanStays, WorkedStays, SMTT(40) DEF StagesInv, StageInv, WordsInv
<1>12. DepsInv'
  BY <1>1, <1>2, PlanStays, WorkedStays DEF DepsInv, DepInv
<1>13. FlagsInv'
  BY <1>1, <1>2, PlanStays DEF FlagsInv, FlagInv
<1>14. LandsInv'
  BY <1>1, <1>2, PlanStays DEF LandsInv, LandInv
<1>15. OutsInv'
  BY <1>1, <1>2, PlanStays DEF OutsInv, OutInv
<1> QED BY <1>6, <1>7, <1>8, <1>9, <1>10, <1>11, <1>12, <1>13, <1>14, <1>15 DEF CoreInv

-----------------------------------------------------------------------------
(***************************************************************************)
(* The writes.                                                             *)
(***************************************************************************)

\* One entry of a table is replaced.
LEMMA PutEntry ==
  ASSUME NEW A, NEW B, NEW f \in [A -> B], NEW a \in A, NEW v \in B
  PROVE  /\ [f EXCEPT ![a] = v] \in [A -> B]
         /\ \A b \in A : [f EXCEPT ![a] = v][b] = IF b = a THEN v ELSE f[b]
  OBVIOUS

\* Receive slots or flags of all ranks, and one of them replaced.
Tables(C, S) == [Rank -> [{0, 1} -> [Dir -> [C -> S]]]]
Put(f, q, x, d, s, v) == [f EXCEPT ![q][x][d][s] = v]

\* h is f but for one entry.
Replaced(f, h, q, x, d, s, v, C) ==
  \A q1 \in Rank, x1 \in {0, 1}, d1 \in Dir, s1 \in C :
    h[q1][x1][d1][s1] = IF q1 = q /\ x1 = x /\ d1 = d /\ s1 = s THEN v ELSE f[q1][x1][d1][s1]

\* One entry of the receive slots or flags is replaced.
LEMMA PutCell ==
  ASSUME NEW C, NEW S, NEW f \in Tables(C, S),
         NEW q \in Rank, NEW x \in {0, 1}, NEW d \in Dir, NEW s \in C, NEW v \in S
  PROVE  /\ Put(f, q, x, d, s, v) \in Tables(C, S)
         /\ Replaced(f, Put(f, q, x, d, s, v), q, x, d, s, v, C)
<1> PICK h : h = Put(f, q, x, d, s, v)
  OBVIOUS
<1> PICK T1, T2, T3 : T1 = [C -> S] /\ T2 = [Dir -> [C -> S]] /\ T3 = [{0, 1} -> [Dir -> [C -> S]]]
  OBVIOUS
<1>1. /\ f \in [Rank -> T3] /\ f[q] \in [{0, 1} -> T2] /\ f[q][x] \in [Dir -> T1]
      /\ f[q][x][d] \in [C -> S]
  <2>1. f \in [Rank -> T3] /\ f[q] \in T3
    BY DEF Tables
  <2>2. f[q] \in [{0, 1} -> T2] /\ f[q][x] \in T2
    BY <2>1
  <2>3. f[q][x] \in [Dir -> T1] /\ f[q][x][d] \in T1
    BY <2>2
  <2> QED BY <2>1, <2>2, <2>3
<1> PICK h3 : h3 = [f[q][x][d] EXCEPT ![s] = v]
  OBVIOUS
<1> PICK h2 : h2 = [f[q][x] EXCEPT ![d] = h3]
  OBVIOUS
<1> PICK h1 : h1 = [f[q] EXCEPT ![x] = h2]
  OBVIOUS
<1>2. h = [f EXCEPT ![q] = h1]
  BY DEF Put
<1>3. h3 \in T1 /\ \A s1 \in C : h3[s1] = IF s1 = s THEN v ELSE f[q][x][d][s1]
  BY <1>1, PutEntry
<1>4. h2 \in T2 /\ \A d1 \in Dir : h2[d1] = IF d1 = d THEN h3 ELSE f[q][x][d1]
  BY <1>1, <1>3, PutEntry
<1>5. h1 \in T3 /\ \A x1 \in {0, 1} : h1[x1] = IF x1 = x THEN h2 ELSE f[q][x1]
  BY <1>1, <1>4, PutEntry
<1>6. h \in [Rank -> T3] /\ \A q1 \in Rank : h[q1] = IF q1 = q THEN h1 ELSE f[q1]
  BY <1>1, <1>2, <1>5, PutEntry
<1>7. ASSUME NEW q1 \in Rank, NEW x1 \in {0, 1}, NEW d1 \in Dir, NEW s1 \in C
      PROVE  h[q1][x1][d1][s1] =
               IF q1 = q /\ x1 = x /\ d1 = d /\ s1 = s THEN v ELSE f[q1][x1][d1][s1]
  <2>1. CASE q1 = q /\ x1 = x /\ d1 = d
    <3>1. h[q1][x1][d1] = h3
      BY <1>4, <1>5, <1>6, <2>1
    <3> QED BY <1>3, <2>1, <3>1
  <2>2. CASE ~(q1 = q /\ x1 = x /\ d1 = d)
    <3>1. h[q1][x1][d1] = f[q1][x1][d1]
      <4>1. CASE q1 # q
        BY <1>6, <4>1
      <4>2. CASE q1 = q /\ x1 # x
        BY <1>5, <1>6, <4>2
      <4>3. CASE q1 = q /\ x1 = x /\ d1 # d
        BY <1>4, <1>5, <1>6, <4>3
      <4> QED BY <2>2, <4>1, <4>2, <4>3
    <3> QED BY <2>2, <3>1
  <2> QED BY <2>1, <2>2
<1>8. h \in Tables(C, S)
  BY <1>6 DEF Tables
<1> QED BY <1>7, <1>8 DEF Replaced

\* A write takes nothing from the kernels and the proxies, and its data are there.
LEMMA TransferFrame ==
  ASSUME NEW r \in Rank, NEW d \in Dir, Transfer(r, d)
  PROVE  /\ UNCHANGED scenario /\ UNCHANGED <<scenario, entered, done>> /\ UNCHANGED <<scenario, base>>
         /\ UNCHANGED <<entered, left, done, base, slot, ready, out, post>>
         /\ nic[r][d] # post[r][d]
BY DEF Transfer, CanTransfer, kernelVars

\* The NIC advances by the step it has done.
LEMMA TransferMoves ==
  ASSUME RingTypeOK, NEW r \in Rank, NEW d \in Dir, Transfer(r, d),
         NEW new \in [call : Nat, step : Nat], new = Advance(nic[r][d].call, d, nic[r][d].step)
  PROVE  /\ nic' \in [Rank -> [Dir -> [call : Nat, step : Nat]]]
         /\ \A q \in Rank, f \in Dir : nic'[q][f] = IF q = r /\ f = d THEN new ELSE nic[q][f]
<1>1. nic' = [nic EXCEPT ![r][d] = new]
  BY DEF Transfer
<1>2. nic \in [Rank -> [Dir -> [call : Nat, step : Nat]]]
  BY DEF RingTypeOK
<1> QED BY <1>1, <1>2

\* It sets one flag of the neighbour, and fills one receive slot.
LEMMA TransferSets ==
  ASSUME RingTypeOK, NEW r \in Rank, NEW d \in Dir, Transfer(r, d),
         NEW n \in Nat, n = nic[r][d].call, NEW s \in Cells, s = nic[r][d].step,
         NEW p \in Rank, p = Neighbour(r, d), NEW e \in {0, 1}, e = Parity(n)
  PROVE  flag' \in Tables(Cells, Nat) /\ Replaced(flag, flag', p, e, d, s, n, Cells)
<1> PICK F : F = flag
  OBVIOUS
<1> PICK F1 : F1 = flag'
  OBVIOUS
<1>1. F1 = Put(F, p, e, d, s, n)
  BY DEF Transfer, Put
<1>2. F \in Tables(Cells, Nat)
  BY DEF RingTypeOK, Tables
<1>3. F1 \in Tables(Cells, Nat) /\ Replaced(F, F1, p, e, d, s, n, Cells)
  BY <1>1, <1>2, PutCell
<1> QED BY <1>3

\* The write puts what its step carries into the neighbour's receive slot.
LEMMA TransferFills ==
  ASSUME CoreInv, NEW r \in Rank, NEW d \in Dir, Transfer(r, d),
         NEW n \in Nat, n = nic[r][d].call, NEW s \in Cells, s = nic[r][d].step,
         NEW p \in Rank, p = Neighbour(r, d), NEW e \in {0, 1}, e = Parity(n),
         NEW v \in Chunk, v = Payload(r, n, d, s)
  PROVE  recv' \in Tables(Cells, Chunk) /\ Replaced(recv, recv', p, e, d, s, v, Cells)
<1> PICK F : F = recv
  OBVIOUS
<1> PICK F1 : F1 = recv'
  OBVIOUS
<1> DEFINE data == IF s < Staged(G(n), d)
                   THEN slot[r][d][(base[r][n][d] + s) % scenario.nslot]
                   ELSE Incoming(r, n, <<d, Send(n, d, s).dep>>)
<1>1. F1 = Put(F, p, e, d, s, data)
  BY DEF Transfer, Put
<1>2. data = v
  BY TransferFrame, NextIsThere DEF CoreInv
<1> HIDE DEF data
<1>3. F1 = Put(F, p, e, d, s, v)
  BY <1>1, <1>2
<1>4. F \in Tables(Cells, Chunk)
  BY DEF CoreInv, RingTypeOK, Tables
<1> HIDE DEF Chunk
<1>5. F1 \in Tables(Cells, Chunk) /\ Replaced(F, F1, p, e, d, s, v, Cells)
  BY <1>3, <1>4, PutCell
<1> QED BY <1>5

\* The NIC does not overtake the proxy.
LEMMA AdvanceBehind ==
  ASSUME scenario \in Scenarios, NEW d \in Dir, NEW n \in 1..Calls, NEW s \in CallSteps(n, d),
         NEW c \in Nat, NEW t \in Nat, c = n => t < Steps(G(n), d), c > n \/ (c = n /\ t > s)
  PROVE  LET new == Advance(n, d, s)
         IN /\ new.call <= c
            /\ new.call = c => new.step <= t
<1> PICK new : new = Advance(n, d, s)
  OBVIOUS
<1>1. /\ (new.call = n /\ new.step = s + 1) \/ (new.call = n + 1 /\ new.step = 0)
      /\ \A m \in 1..Calls : \A u \in CallSteps(m, d) :
           Past(new, m, u) <=> m < n \/ (m = n /\ u <= s)
  BY AdvanceIs
<1>2. n \in Nat /\ s \in Nat /\ Steps(G(n), d) \in Nat
  BY CallsNat, StepsInArea DEF CallSteps
<1>3. CASE new.call = n /\ new.step = s + 1
  BY <1>2, <1>3
<1>4. CASE new.call = n + 1 /\ new.step = 0
  <2>1. c # n
    <3> SUFFICES ASSUME c = n PROVE FALSE
      OBVIOUS
    <3>1. t \in CallSteps(n, d)
      BY <1>2 DEF CallSteps
    <3>2. Past(new, n, t)
      BY <1>2, <1>4 DEF Past
    <3>3. t <= s
      BY <1>1, <1>2, <3>1, <3>2
    <3> QED BY <1>2, <3>3
  <2> QED BY <1>2, <1>4, <2>1
<1> QED BY <1>1, <1>3, <1>4

\* Of s steps of a call the staged ones are sent chunks.
SentOf(s, x) == IF s < x THEN s ELSE x

\* One step more is at most one staged chunk more.
LEMMA SentOneMore ==
  ASSUME NEW s \in Nat, NEW x \in Nat
  PROVE  /\ SentOf(s, x) \in Nat /\ SentOf(s + 1, x) \in Nat
         /\ SentOf(s, x) <= SentOf(s + 1, x) /\ SentOf(s, x) <= x /\ SentOf(0, x) = 0
BY DEF SentOf

\* What is sent grows.
LEMMA SendDoneGrows ==
  ASSUME CoreInv, UNCHANGED <<scenario, base>>, NEW r \in Rank, NEW d \in Dir,
         nic[r][d].call \in 1..Calls, nic[r][d].call <= entered[r],
         nic[r][d].step \in CallSteps(nic[r][d].call, d),
         nic'[r][d] = Advance(nic[r][d].call, d, nic[r][d].step)
  PROVE  SendDone(r, d)' \in Nat /\ SendDone(r, d) \in Nat /\ SendDone(r, d)' >= SendDone(r, d)
<1>1. PICK n, s : n = nic[r][d].call /\ s = nic[r][d].step
  OBVIOUS
<1>2. /\ n \in 1..Calls /\ n \in Nat /\ s \in Nat /\ n <= entered[r] /\ entered[r] \in Nat
      /\ Calls \in Nat /\ scenario \in Scenarios /\ entered[r] <= Calls
  BY <1>1, CallsNat, Cursors DEF CoreInv, RingTypeOK, KernelsInv, KernelInv
<1>3. PICK x \in Nat : x = Staged(G(n), d)
  BY <1>2, StepsInArea
<1>4. PICK b \in Nat, b1 \in Nat : b = base[r][n][d] /\ b1 = base[r][n + 1][d]
  BY <1>2, BaseTyped DEF CoreInv
<1>5. b + x <= b1
  <2>1. RingTypeOK /\ BasesInv
    BY DEF CoreInv
  <2>2. n \in 1..entered[r] /\ n + 1 \in 1..(entered[r] + 1) /\ n < n + 1
    BY <1>2
  <2>3. base[r][n][d] + Staged(G(n), d) <= base[r][n + 1][d]
    BY <2>1, <2>2, BasesGrow
  <2> QED BY <1>3, <1>4, <2>3
<1>6. PICK w \in Nat, w1 \in Nat : /\ w = SentOf(s, x) /\ w1 = SentOf(s + 1, x)
                                 /\ w <= w1 /\ w <= x
  <2>1. /\ SentOf(s, x) \in Nat /\ SentOf(s + 1, x) \in Nat
        /\ SentOf(s, x) <= SentOf(s + 1, x) /\ SentOf(s, x) <= x
    BY <1>2, <1>3, SentOneMore
  <2> QED BY <2>1
<1>7. SendDone(r, d) = b + w
  BY <1>1, <1>2, <1>3, <1>4, <1>6 DEF SendDone, SentOf
<1>8. PICK new : new = nic'[r][d]
  OBVIOUS
<1>9. (new.call = n /\ new.step = s + 1) \/ (new.call = n + 1 /\ new.step = 0)
  BY <1>1, <1>2, <1>8, AdvanceIs
<1>10. SendDone(r, d)' = IF new.call > Calls THEN base[r][new.call][d]
                         ELSE base[r][new.call][d] + SentOf(new.step, Staged(G(new.call), d))
  BY <1>8, PlanStays DEF SendDone, SentOf
<1>11. PICK sent : sent = SendDone(r, d)'
  OBVIOUS
<1>12. sent = b + w1 \/ sent = b1
  <2>1. CASE new.call = n /\ new.step = s + 1
    <3>1. ~(n > Calls)
      BY <1>2
    <3>2. sent = base[r][n][d] + SentOf(s + 1, Staged(G(n), d))
      BY <1>10, <1>11, <2>1, <3>1
    <3> QED BY <1>3, <1>4, <1>6, <3>2
  <2>2. CASE new.call = n + 1 /\ new.step = 0 /\ n + 1 > Calls
    BY <1>4, <1>10, <1>11, <2>2
  <2>3. CASE new.call = n + 1 /\ new.step = 0 /\ ~(n + 1 > Calls)
    <3>1. PICK x1 \in Nat : x1 = Staged(G(n + 1), d)
      BY <1>2, <2>3, StepsInArea
    <3>2. SentOf(0, x1) = 0
      BY SentOneMore
    <3>3. sent = base[r][n + 1][d] + SentOf(0, x1)
      BY <1>10, <1>11, <2>3, <3>1
    <3> QED BY <1>4, <3>2, <3>3
  <2> QED BY <1>9, <2>1, <2>2, <2>3
<1>13. /\ b + w \in Nat /\ b + w1 \in Nat /\ b + w <= b + w1 /\ b + w <= b1
  BY <1>5, <1>6
<1>14. sent \in Nat /\ sent >= b + w
  BY <1>12, <1>13
<1> QED BY <1>7, <1>11, <1>13, <1>14

\* A write of the NIC keeps the invariant: it lands in an area that is free, and carries
\* what its step must.
LEMMA TransferKeeps ==
  ASSUME CoreInv, NEW r \in Rank, NEW d \in Dir, Transfer(r, d)
  PROVE  CoreInv'
<1> PICK p, n, s : p = Neighbour(r, d) /\ n = nic[r][d].call /\ s = nic[r][d].step
  OBVIOUS
<1> PICK e, new, v : e = Parity(n) /\ new = Advance(n, d, s) /\ v = Payload(r, n, d, s)
  OBVIOUS
<1>1. /\ UNCHANGED scenario /\ UNCHANGED <<scenario, entered, done>> /\ UNCHANGED <<scenario, base>>
      /\ UNCHANGED <<entered, left, done, base, slot, ready, out, post>>
      /\ nic[r][d] # post[r][d]
  BY TransferFrame
<1>2. /\ RingTypeOK /\ KernelsInv /\ BasesInv /\ CursorsInv /\ PostsInv /\ StagesInv /\ DepsInv
      /\ FlagsInv /\ LandsInv /\ OutsInv /\ scenario \in Scenarios
  BY DEF CoreInv, RingTypeOK
<1>3. /\ n \in 1..Calls /\ s \in CallSteps(n, d) /\ n <= entered[r]
      /\ Past(post[r][d], n, s) /\ ~Past(nic[r][d], n, s)
  BY <1>1, <1>2, NextWrite
<1>4. /\ new \in [call : Nat, step : Nat] /\ CursorOK(new, d)
      /\ \A m \in 1..Calls : \A t \in CallSteps(m, d) :
           Past(new, m, t) <=> m < n \/ (m = n /\ t <= s)
  BY <1>2, <1>3, AdvanceIs
<1>5. /\ n \in Nat /\ n > 0 /\ s \in Nat /\ e \in {0, 1} /\ s \in Cells /\ p \in Rank /\ Source(p, d) = r
      /\ Calls \in Nat
  BY <1>2, <1>3, CallsNat, Cursors, StepsInArea, RanksAround DEF Parity
<1>6. /\ nic' \in [Rank -> [Dir -> [call : Nat, step : Nat]]]
      /\ \A q \in Rank, f \in Dir : nic'[q][f] = IF q = r /\ f = d THEN new ELSE nic[q][f]
  BY <1>2, <1>4, TransferMoves
<1>7. /\ flag' \in Tables(Cells, Nat)
      /\ \A q \in Rank, x \in {0, 1}, f \in Dir, t \in Cells :
           flag'[q][x][f][t] = IF q = p /\ x = e /\ f = d /\ t = s THEN n ELSE flag[q][x][f][t]
  <2>1. flag' \in Tables(Cells, Nat) /\ Replaced(flag, flag', p, e, d, s, n, Cells)
    BY <1>2, <1>5, TransferSets
  <2> QED BY <2>1 DEF Replaced
<1>8. /\ recv' \in Tables(Cells, Chunk)
      /\ \A q \in Rank, x \in {0, 1}, f \in Dir, t \in Cells :
           recv'[q][x][f][t] = IF q = p /\ x = e /\ f = d /\ t = s THEN v ELSE recv[q][x][f][t]
  <2>1. v \in Chunk
    BY <1>2, <1>3, PayloadIs
  <2>2. recv' \in Tables(Cells, Chunk) /\ Replaced(recv, recv', p, e, d, s, v, Cells)
    BY <1>5, <2>1, TransferFills
  <2> QED BY <2>2 DEF Replaced
<1>9. \A q \in Rank, f \in Dir, m \in 1..Calls : \A t \in CallSteps(m, f) :
        /\ Past(nic[q][f], m, t) => Past(nic'[q][f], m, t)
        /\ Past(nic'[q][f], m, t) /\ ~Past(nic[q][f], m, t) => q = r /\ f = d /\ m = n /\ t = s
  <2> SUFFICES ASSUME NEW q \in Rank, NEW f \in Dir, NEW m \in 1..Calls, NEW t \in CallSteps(m, f)
               PROVE  /\ Past(nic[q][f], m, t) => Past(nic'[q][f], m, t)
                      /\ Past(nic'[q][f], m, t) /\ ~Past(nic[q][f], m, t) => q = r /\ f = d /\ m = n /\ t = s
    OBVIOUS
  <2>1. CASE q = r /\ f = d
    <3>1. nic'[q][f] = new
      BY <1>6, <2>1
    <3>2. m \in Nat /\ t \in Nat
      BY <1>2, <1>5, StepsInArea DEF CallSteps
    <3>3. Past(new, m, t) <=> m < n \/ (m = n /\ t <= s)
      BY <1>4, <2>1
    <3>4. Past(nic[q][f], m, t) <=> m < n \/ (m = n /\ t < s)
      BY <1>5, <2>1, <3>2 DEF Past
    <3> QED BY <1>5, <2>1, <3>1, <3>2, <3>3, <3>4
  <2>2. CASE ~(q = r /\ f = d)
    BY <1>6, <2>2
  <2> QED BY <2>1, <2>2
<1>10. flag[p][e][d][s] \in Nat /\ flag[p][e][d][s] < n
  <2>1. FlagInv(p, d, e, s) /\ flag[p][e][d][s] \in Nat
    <3>1. FlagInv(p, d, e, s)
      BY <1>2, <1>5 DEF FlagsInv
    <3>2. flag \in [Rank -> [{0, 1} -> [Dir -> [Cells -> Nat]]]]
      BY <1>2 DEF RingTypeOK
    <3>3. flag[p] \in [{0, 1} -> [Dir -> [Cells -> Nat]]] /\ flag[p][e] \in [Dir -> [Cells -> Nat]]
      BY <1>5, <3>2
    <3> QED BY <1>5, <3>1, <3>3
  <2>2. PICK m \in Nat : m = flag[p][e][d][s]
    BY <2>1
  <2>3. PICK c : c = nic[r][d]
    OBVIOUS
  <2>4. c.call = n /\ c.step = s
    BY <2>3
  <2>5. m # 0 => Past(c, m, s)
    BY <1>5, <2>1, <2>2, <2>3 DEF FlagInv
  <2>6. m < n
    BY <1>5, <2>4, <2>5 DEF Past
  <2> QED BY <2>2, <2>6
<1> QED
  <2>1. RingTypeOK'
    <3> HIDE DEF Chunk
    <3> QED BY <1>1, <1>2, <1>6, <1>7, <1>8, PlanStays, ZenonT(60) DEF RingTypeOK, Tables
  <2>2. KernelsInv'
    BY <1>1, <1>2, PlanStays DEF KernelsInv, KernelInv
  <2>3. BasesInv'
    BY <1>1, <1>2, PlanStays DEF BasesInv, BaseInv
  <2>4. CursorsInv'
    <3>1. ASSUME NEW q \in Rank, NEW f \in Dir PROVE CursorInv(q, f)'
      <4>1. CursorInv(q, f)
        BY <1>2 DEF CursorsInv
      <4>2. CASE q = r /\ f = d
        <5> PICK c \in Nat, t \in Nat : c = post[r][d].call /\ t = post[r][d].step
          BY <1>2, Cursors
        <5>1. c = n => t < Steps(G(n), d)
          BY <1>3, <1>5, <4>1, <4>2 DEF CursorInv, CursorOK
        <5>2. c > n \/ (c = n /\ t > s)
          BY <1>3 DEF Past
        <5>3. new.call <= c /\ (new.call = c => new.step <= t)
          BY <1>2, <1>3, <5>1, <5>2, AdvanceBehind
        <5>4. nic'[q][f] = new
          BY <1>6, <4>2
        <5> QED BY <1>1, <1>4, <4>1, <4>2, <5>3, <5>4, PlanStays DEF CursorInv
      <4>3. CASE ~(q = r /\ f = d)
        <5>1. nic'[q][f] = nic[q][f]
          BY <1>6, <4>3
        <5> QED BY <1>1, <4>1, <5>1, PlanStays DEF CursorInv
      <4> QED BY <4>2, <4>3
    <3> QED BY <3>1 DEF CursorsInv
  <2>5. PostsInv'
    <3>1. ASSUME NEW q \in Rank, NEW f \in Dir, NEW m \in 1..Calls, NEW t \in CallSteps(m, f)
          PROVE  PostInv(q, f, m, t)'
      <4>1. PostInv(q, f, m, t)
        BY <1>2 DEF PostsInv
      <4>2. CASE ~Past(post[q][f], m, t)
        BY <1>1, <4>2 DEF PostInv
      <4>3. CASE Past(post[q][f], m, t) /\ t < Staged(G(m), f)
        <5>1. Worked(q, m, StageKind(f), t)
          BY <4>1, <4>3 DEF PostInv
        <5> QED BY <1>1, <4>3, <5>1, PlanStays, WorkedStays DEF PostInv
      <4>4. CASE Past(post[q][f], m, t) /\ ~(t < Staged(G(m), f))
        <5> PICK u : u = SendStep(G(m), f, t).dep
          OBVIOUS
        <5>1. u \in CallSteps(m, f) /\ Source(q, f) \in Rank
          <6>1. IsGeometry(G(m)) /\ t \in 0..(Steps(G(m), f) - 1)
            BY <1>2, PlanIs DEF CallSteps
          <6> QED BY <4>4, <6>1, StepFacts, StepsAre, DepFacts, RanksAround DEF CallSteps
        <5>2. Past(nic[Source(q, f)][f], m, u) /\ (~Past(nic[q][f], m, t) => flag[q][Parity(m)][f][u] = m)
          BY <4>1, <4>4 DEF PostInv
        <5>3. Past(nic'[Source(q, f)][f], m, u)
          BY <1>9, <5>1, <5>2
        <5>4. ~Past(nic'[q][f], m, t) => flag'[q][Parity(m)][f][u] = m
          <6> SUFFICES ASSUME ~Past(nic'[q][f], m, t) PROVE flag'[q][Parity(m)][f][u] = m
            OBVIOUS
          <6>1. ~Past(nic[q][f], m, t)
            BY <1>9
          <6>2. flag[q][Parity(m)][f][u] = m
            BY <5>2, <6>1
          <6>3. m \in Nat /\ m > 0 /\ Parity(m) \in {0, 1} /\ u \in Cells
            BY <1>2, <1>5, <5>1, StepsInArea DEF Parity
          <6>4. ~(q = p /\ Parity(m) = e /\ f = d /\ u = s)
            <7> SUFFICES ASSUME q = p /\ Parity(m) = e /\ f = d /\ u = s PROVE FALSE
              OBVIOUS
            <7>1. m < n
              BY <1>10, <6>2
            <7>2. m \in 1..(n - 1) /\ Parity(m) = Parity(n)
              BY <1>5, <6>3, <7>1
            <7>3. nic[p][d].call > m
              BY <1>1, <1>2, <7>2, WritesLandFree
            <7> QED BY <6>1, <7>3 DEF Past
          <6> QED BY <1>7, <6>2, <6>3, <6>4
        <5>5. PostInv(q, f, m, t)' <=>
                (Past(post[q][f], m, t) =>
                   /\ Past(nic'[Source(q, f)][f], m, u)
                   /\ ~Past(nic'[q][f], m, t) => flag'[q][Parity(m)][f][u] = m)
          BY <1>1, <4>4, PlanStays DEF PostInv
        <5> QED BY <5>3, <5>4, <5>5
      <4> QED BY <4>2, <4>3, <4>4
    <3> QED BY <1>1, <3>1, PlanStays DEF PostsInv
  <2>6. StagesInv'
    <3>1. ASSUME NEW q \in Rank, NEW f \in Dir
          PROVE  SendDone(q, f)' = SendDone(q, f) \/
                   (SendDone(q, f)' \in Nat /\ SendDone(q, f) \in Nat /\ SendDone(q, f)' >= SendDone(q, f))
      <4>1. CASE q = r /\ f = d
        BY <1>1, <1>3, <1>6, <4>1, SendDoneGrows
      <4>2. CASE ~(q = r /\ f = d)
        <5>1. nic'[q][f] = nic[q][f]
          BY <1>6, <4>2
        <5> QED BY <1>1, <5>1, PlanStays DEF SendDone
      <4> QED BY <4>1, <4>2
    <3>2. ASSUME NEW q \in Rank, NEW f \in Dir PROVE WordsInv(q, f)'
      BY <1>1, <1>2, PlanStays DEF StagesInv, WordsInv
    <3>3. ASSUME NEW q \in Rank, NEW f \in Dir, NEW m \in 1..entered[q], NEW j \in StageSteps(m, f)
          PROVE  StageInv(q, f, m, j)'
      <4>1. StageInv(q, f, m, j)
        BY <1>2 DEF StagesInv
      <4>2. m \in 1..Calls /\ j \in CallSteps(m, f)
        <5>1. entered[q] \in Nat /\ entered[q] <= Calls
          BY <1>2 DEF RingTypeOK, KernelsInv, KernelInv
        <5> QED BY <1>2, <1>5, <5>1, StepsInArea
      <4>3. Past(nic[q][f], m, j) => Past(nic'[q][f], m, j)
        BY <1>9, <4>2
      <4> PICK gi : gi = base[q][m][f] + j
        OBVIOUS
      <4>4. gi \in Nat /\ scenario.nslot \in Nat
        <5>1. base[q][m][f] \in Nat /\ j \in Nat
          <6>1. entered[q] \in Nat /\ Staged(G(m), f) \in Nat
            BY <1>2, <4>2, StepsInArea DEF RingTypeOK
          <6> QED BY <1>2, <6>1, BaseTyped DEF StageSteps
        <5> QED BY <1>2, <5>1, CallsNat
      <4>5. Worked(q, m, StageKind(f), j) /\ gi >= scenario.nslot => SendDone(q, f)' >= gi - scenario.nslot + 1
        <5>1. Worked(q, m, StageKind(f), j) /\ gi >= scenario.nslot => SendDone(q, f) >= gi - scenario.nslot + 1
          BY <4>1 DEF StageInv
        <5> QED BY <3>1, <4>4, <5>1
      <4> QED BY <1>1, <4>1, <4>3, <4>5, PlanStays, WorkedStays DEF StageInv
    <3> QED BY <1>1, <3>2, <3>3, PlanStays DEF StagesInv
  <2>7. DepsInv'
    <3>1. ASSUME NEW q \in Rank, NEW m \in 1..Calls, NEW kind, NEW j, IsItem(G(m), kind, j)
          PROVE  DepInv(q, m, kind, j)'
      <4>1. DepInv(q, m, kind, j)
        BY <1>2, <3>1 DEF DepsInv
      <4>2. ASSUME Worked(q, m, kind, j), NEW dep \in ItemDeps(G(m), kind, j)
            PROVE  Past(nic'[Source(q, dep[1])][dep[1]], m, dep[2])
        <5>1. IsGeometry(G(m))
          BY <1>2, PlanIs
        <5>2. dep[1] \in Dir /\ dep[2] \in CallSteps(m, dep[1])
          BY <3>1, <5>1, DepsTyped DEF CallSteps
        <5>3. Past(nic[Source(q, dep[1])][dep[1]], m, dep[2])
          BY <4>1, <4>2 DEF DepInv
        <5> QED BY <1>9, <5>2, <5>3, RanksAround
      <4> QED BY <1>1, <4>2, PlanStays, WorkedStays DEF DepInv
    <3> QED BY <1>1, <3>1, PlanStays DEF DepsInv
  <2>8. FlagsInv'
    <3>1. ASSUME NEW q \in Rank, NEW f \in Dir, NEW x \in {0, 1}, NEW t \in Cells
          PROVE  FlagInv(q, f, x, t)'
      <4>1. CASE q = p /\ x = e /\ f = d /\ t = s
        <5>1. flag'[q][x][f][t] = n /\ recv'[q][x][f][t] = v
          BY <1>7, <1>8, <4>1
        <5>2. Past(nic'[r][d], n, s)
          BY <1>3, <1>4, <1>5, <1>6
        <5>3. FlagInv(q, f, x, t)' <=>
                (n # 0 => /\ n \in 1..Calls /\ Parity(n) = e /\ s \in CallSteps(n, d)
                          /\ Past(nic'[r][d], n, s)
                          /\ recv'[p][e][d][s] = v)
          BY <1>1, <1>5, <4>1, <5>1, PlanStays, SMTT(40) DEF FlagInv
        <5> QED BY <1>3, <4>1, <5>1, <5>2, <5>3
      <4>2. CASE ~(q = p /\ x = e /\ f = d /\ t = s)
        <5>1. flag'[q][x][f][t] = flag[q][x][f][t] /\ recv'[q][x][f][t] = recv[q][x][f][t]
          BY <1>7, <1>8, <4>2
        <5>2. FlagInv(q, f, x, t)
          BY <1>2 DEF FlagsInv
        <5> PICK m : m = flag[q][x][f][t]
          OBVIOUS
        <5>3. m # 0 => Past(nic'[Source(q, f)][f], m, t)
          BY <1>9, <5>2, RanksAround DEF FlagInv
        <5>4. FlagInv(q, f, x, t)' <=>
                (m # 0 => /\ m \in 1..Calls /\ Parity(m) = x /\ t \in CallSteps(m, f)
                          /\ Past(nic'[Source(q, f)][f], m, t)
                          /\ recv[q][x][f][t] = Payload(Source(q, f), m, f, t))
          BY <1>1, <5>1, PlanStays DEF FlagInv
        <5> QED BY <5>2, <5>3, <5>4 DEF FlagInv
      <4> QED BY <4>1, <4>2
    <3> QED BY <1>1, <3>1, PlanStays DEF FlagsInv
  <2>9. LandsInv'
    <3>1. ASSUME NEW q \in Rank, NEW f \in Dir, NEW m \in 1..Calls, NEW t \in CallSteps(m, f)
          PROVE  LandInv(q, f, m, t)'
      <4> SUFFICES ASSUME Past(nic'[Source(q, f)][f], m, t)
                   PROVE  flag'[q][Parity(m)][f][t] >= m
        BY DEF LandInv
      <4>1. m \in Nat /\ Parity(m) \in {0, 1} /\ t \in Cells /\ Source(q, f) \in Rank
            /\ flag[q][Parity(m)][f][t] \in Nat
        <5>1. m \in Nat /\ Parity(m) \in {0, 1} /\ Source(q, f) \in Rank
          BY <1>5, RanksAround DEF Parity
        <5>4. t \in Cells
          BY <1>2, StepsInArea
        <5>2. flag[q] \in [{0, 1} -> [Dir -> [Cells -> Nat]]]
          BY <1>2 DEF RingTypeOK
        <5>3. flag[q][Parity(m)] \in [Dir -> [Cells -> Nat]]
          BY <5>1, <5>2
        <5> QED BY <5>1, <5>3, <5>4
      <4>2. CASE Past(nic[Source(q, f)][f], m, t)
        <5>1. flag[q][Parity(m)][f][t] >= m
          BY <1>2, <4>2 DEF LandsInv, LandInv
        <5> PICK x : x = Parity(m)
          OBVIOUS
        <5>2. CASE q = p /\ x = e /\ f = d /\ t = s
          <6>1. flag'[q][x][f][t] = n
            BY <1>7, <4>1, <5>2, SMTT(40)
          <6>2. flag[q][x][f][t] < n
            BY <1>10, <5>2
          <6> QED BY <1>5, <4>1, <5>1, <6>1, <6>2
        <5>3. CASE ~(q = p /\ x = e /\ f = d /\ t = s)
          BY <1>7, <4>1, <5>1, <5>3
        <5> QED BY <5>2, <5>3
      <4>3. CASE ~Past(nic[Source(q, f)][f], m, t)
        <5>1. Source(q, f) = r /\ f = d /\ m = n /\ t = s
          BY <1>9, <4>1, <4>3
        <5>2. q = p
          BY <5>1, RanksAround
        <5> QED BY <1>5, <1>7, <4>1, <5>1, <5>2, SMTT(40)
      <4> QED BY <4>2, <4>3
    <3> QED BY <1>1, <3>1, PlanStays DEF LandsInv
  <2>10. OutsInv'
    BY <1>1, <1>2, PlanStays DEF OutsInv, OutInv
  <2> QED BY <2>1, <2>2, <2>3, <2>4, <2>5, <2>6, <2>7, <2>8, <2>9, <2>10 DEF CoreInv

-----------------------------------------------------------------------------
(***************************************************************************)
(* The kernel.                                                             *)
(***************************************************************************)

\* The item that a CTA works on, and what it leaves alone.
LEMMA WorkFrame ==
  ASSUME NEW r \in Rank, NEW i, WorkItem(r, i)
  PROVE  /\ UNCHANGED scenario /\ UNCHANGED <<scenario, base>>
         /\ UNCHANGED <<entered, base, post, nic, recv, flag>>
         /\ done' = [done EXCEPT ![r] = done[r] \union {i}]
         /\ left' = [left EXCEPT ![r] =
                       IF Cardinality(done'[r]) = Items(G(entered[r])) THEN entered[r] ELSE left[r]]
BY DEF WorkItem, wireVars

\* The item is of the current call, not worked yet, and what it waits for has come
\* (_prb.cu, the waits of prb_sync_kernel).
LEMMA WorkIs ==
  ASSUME CoreInv, NEW r \in Rank, NEW i, WorkItem(r, i), NEW n, n = entered[r]
  PROVE  /\ n \in 1..Calls /\ left[r] + 1 = n
         /\ i \in Indices(n) /\ i \notin done[r] /\ done[r] \subseteq Indices(n)
         /\ IsItem(G(n), Item(n, i).kind, Item(n, i).j)
         /\ ~Worked(r, n, Item(n, i).kind, Item(n, i).j)
         /\ \A dep \in ItemDeps(G(n), Item(n, i).kind, Item(n, i).j) :
              Came(r, n, dep[1], dep[2]) /\ Past(nic[Source(r, dep[1])][dep[1]], n, dep[2])
         /\ Staging(Item(n, i).kind) => SlotFree(r, n, Item(n, i))
<1> PICK kind, j : kind = Item(n, i).kind /\ j = Item(n, i).j
  OBVIOUS
<1>1. RingTypeOK /\ scenario \in Scenarios /\ KernelInv(r) /\ FlagsInv
  BY DEF CoreInv, RingTypeOK, KernelsInv
<1>2. CanWork(r, i)
  BY DEF WorkItem
<1>3. n \in Nat /\ left[r] \in Nat /\ left[r] # n /\ Calls \in Nat
  BY <1>1, <1>2, CallsNat DEF CanWork, Idle, RingTypeOK
<1>4. n \in 1..Calls /\ left[r] + 1 = n
  BY <1>1, <1>3 DEF KernelInv
<1>5. done[r] \subseteq Indices(n)
  BY <1>1, <1>3, <1>4 DEF KernelInv
<1>6. i \in Indices(n) /\ i \notin done[r]
  <2>1. i \in DOMAIN ListOf[Shape(n)] \ done[r]
    BY <1>2 DEF CanWork, InHand
  <2> QED BY <1>1, <1>4, <2>1, ItemOfIs
<1>7. IsGeometry(G(n)) /\ Item(n, i) = ItemAt(G(n), i)
  BY <1>1, <1>4, <1>6, PlanIs, ItemOfIs
<1>8. IsItem(G(n), kind, j)
  BY <1>6, <1>7, ListHasItems DEF Indices
<1>9. ~Worked(r, n, kind, j)
  <2> SUFFICES ASSUME Worked(r, n, kind, j) PROVE FALSE
    OBVIOUS
  <2>1. PICK k \in done[r] : Item(n, k).kind = kind /\ Item(n, k).j = j
    BY <1>3 DEF Worked
  <2>2. k \in Indices(n) /\ Item(n, k) = ItemAt(G(n), k)
    BY <1>1, <1>4, <1>5, <2>1, ItemOfIs
  <2>3. i = k
    BY <1>6, <1>7, <2>1, <2>2, ItemsApart DEF Indices
  <2> QED BY <1>6, <2>1, <2>3
<1>10. ASSUME NEW dep \in ItemDeps(G(n), kind, j)
       PROVE  Came(r, n, dep[1], dep[2]) /\ Past(nic[Source(r, dep[1])][dep[1]], n, dep[2])
  <2>1. dep[1] \in Dir /\ dep[2] \in CallSteps(n, dep[1])
    BY <1>7, <1>8, DepsTyped DEF CallSteps
  <2>2. flag[r][Parity(n)][dep[1]][dep[2]] = n
    BY <1>2 DEF CanWork, Workable, Arrived
  <2> QED BY <1>1, <1>4, <2>1, <2>2, CameIs
<1>11. Staging(kind) => SlotFree(r, n, Item(n, i))
  BY <1>2 DEF CanWork, Workable
<1> QED BY <1>4, <1>5, <1>6, <1>8, <1>9, <1>10, <1>11

\* One more item is worked.
LEMMA WorkedGrows ==
  ASSUME CoreInv, NEW r \in Rank, NEW i, WorkItem(r, i), NEW n, n = entered[r],
         NEW kind, kind = Item(n, i).kind, NEW j, j = Item(n, i).j,
         NEW q \in Rank, NEW m \in Nat, NEW kind1, NEW j1
  PROVE  Worked(q, m, kind1, j1)' <=>
           Worked(q, m, kind1, j1) \/ (q = r /\ m = n /\ kind1 = kind /\ j1 = j)
<1>1. UNCHANGED scenario /\ entered' = entered /\ done' = [done EXCEPT ![r] = done[r] \union {i}]
  BY WorkFrame
<1>2. \A m1, k : Item(m1, k)' = Item(m1, k)
  BY <1>1, PlanStays
<1>3. n \in Nat
  BY DEF CoreInv, RingTypeOK
<1>4. done'[q] = IF q = r THEN done[q] \union {i} ELSE done[q]
  BY <1>1 DEF CoreInv, RingTypeOK
<1>5. CASE q = r /\ m = n
  <2>1. Worked(q, m, kind1, j1)' <=> \E k \in done[r] \union {i} : Item(n, k).kind = kind1 /\ Item(n, k).j = j1
    BY <1>1, <1>2, <1>3, <1>4, <1>5 DEF Worked
  <2>2. Worked(q, m, kind1, j1) <=> \E k \in done[r] : Item(n, k).kind = kind1 /\ Item(n, k).j = j1
    BY <1>3, <1>5 DEF Worked
  <2> QED BY <1>5, <2>1, <2>2
<1>6. CASE ~(q = r /\ m = n)
  <2>1. Worked(q, m, kind1, j1)' <=> Worked(q, m, kind1, j1)
    BY <1>1, <1>2, <1>4, <1>6 DEF Worked
  <2> QED BY <1>6, <2>1
<1> QED BY <1>5, <1>6

\* A staging item.
LEMMA StagingIs ==
  ASSUME CoreInv, NEW r \in Rank, NEW i, WorkItem(r, i), NEW n, n = entered[r],
         NEW kind, kind = Item(n, i).kind, NEW j, j = Item(n, i).j, Staging(kind),
         NEW d, d = DirOf(kind), NEW gi, gi = base[r][n][d] + j
  PROVE  /\ d \in Dir /\ kind = StageKind(d) /\ j \in StageSteps(n, d) /\ gi \in Nat
         /\ gi >= scenario.nslot => SendDone(r, d) >= gi - scenario.nslot + 1
         /\ Outgoing(r, n, Item(n, i)) = Payload(r, n, d, j)
<1>1. RingTypeOK /\ scenario \in Scenarios /\ BasesInv
  BY DEF CoreInv, RingTypeOK
<1>2. /\ n \in 1..Calls /\ IsItem(G(n), kind, j) /\ SlotFree(r, n, Item(n, i))
      /\ \A dep \in ItemDeps(G(n), kind, j) : Came(r, n, dep[1], dep[2])
  BY WorkIs
<1>3. d \in Dir /\ kind = StageKind(d)
  BY StagingKinds
<1>4. IsGeometry(G(n))
  BY <1>1, <1>2, PlanIs
<1>5. j \in StageSteps(n, d)
  BY <1>2, <1>3, <1>4, StagingItems DEF StageSteps
<1>6. gi \in Nat
  <2>1. base[r][n][d] \in Nat
    <3>1. n \in Nat /\ n >= 1
      BY <1>1, <1>2, CallsNat
    <3> QED BY <1>1, <1>3, <3>1, BaseTyped
  <2>2. Staged(G(n), d) \in Nat
    BY <1>3, <1>4, StepsAre
  <2> QED BY <1>5, <2>1, <2>2 DEF StageSteps
<1>7. gi >= scenario.nslot => SendDone(r, d) >= gi - scenario.nslot + 1
  BY <1>2 DEF SlotFree, StageIndex
<1>8. SendStep(G(n), d, j).src = "red" =>
        Incoming(r, n, <<d, SendStep(G(n), d, j).dep>>) =
          Payload(Source(r, d), n, d, SendStep(G(n), d, j).dep)
  <2> SUFFICES ASSUME SendStep(G(n), d, j).src = "red"
               PROVE  Came(r, n, d, SendStep(G(n), d, j).dep)
    BY DEF Came
  <2>1. <<d, SendStep(G(n), d, j).dep>> \in ItemDeps(G(n), kind, j)
    BY <1>3 DEF ItemDeps
  <2> QED BY <1>2, <2>1
<1>9. Outgoing(r, n, Item(n, i)) = Payload(r, n, d, j)
  <2> PICK it : it = Item(n, i)
    OBVIOUS
  <2>1. DirOf(it.kind) = d /\ it.j = j
    OBVIOUS
  <2>2. it.j \in StageSteps(n, d)
    BY <1>5, <2>1
  <2>3. SendStep(G(n), d, it.j).src = "red" =>
          Incoming(r, n, <<d, SendStep(G(n), d, it.j).dep>>) =
            Payload(Source(r, d), n, d, SendStep(G(n), d, it.j).dep)
    BY <1>8, <2>1
  <2>4. Outgoing(r, n, it) = Payload(r, n, d, it.j)
    BY <1>1, <1>2, <1>3, <2>1, <2>2, <2>3, OutgoingIs
  <2> QED BY <2>1, <2>4
<1> QED BY <1>3, <1>5, <1>6, <1>7, <1>9

\* Quotient and remainder.
LEMMA DivMod ==
  ASSUME NEW a \in Int, NEW m \in Nat \ {0}
  PROVE  a % m \in 0..(m - 1) /\ a \div m \in Int /\ a = m * (a \div m) + (a % m)
  OBVIOUS

\* What is left of a division is one of the numbers below the divisor.
LEMMA ModIn ==
  ASSUME NEW a \in Int, NEW m \in Nat \ {0}
  PROVE  a % m \in 0..(m - 1)
  OBVIOUS

\* A chunk's number names a slot of the staging queue.
LEMMA NumberIsSlot ==
  ASSUME scenario.nslot \in Nat \ {0}, NEW a \in Int
  PROVE  a % scenario.nslot \in Slots
<1> PICK N \in Nat \ {0} : N = scenario.nslot
  OBVIOUS
<1>1. a % N \in 0..(N - 1)
  BY ModIn
<1> QED BY <1>1 DEF Slots

\* Chunks that share a slot are a number of slots apart.
LEMMA SlotShared ==
  ASSUME NEW a \in Nat, NEW b \in Nat, NEW m \in Nat \ {0}, a % m = b % m, b < a
  PROVE  b + m <= a
<1> DEFINE x == a \div m
           y == b \div m
           k == a % m
<1>1. x \in Int /\ y \in Int /\ k \in Int /\ a = m * x + k /\ b = m * y + k
  BY DivMod
<1> HIDE DEF x, y, k
<1>2. m * x \in Int /\ m * y \in Int /\ m * y < m * x
  <2>1. m * x \in Int /\ m * y \in Int
    BY <1>1
  <2> QED BY <1>1, <2>1
<1>3. y < x
  <2> SUFFICES ASSUME x <= y PROVE FALSE
    BY <1>1
  <2> PICK z \in Nat : z = y - x
    BY <1>1
  <2>1. m * y = m * x + m * z /\ m * z >= 0 /\ m * z \in Int
    BY <1>1
  <2> QED BY <1>2, <2>1
<1> PICK z \in Nat : z = x - y - 1
  BY <1>1, <1>3
<1>4. m * x = m * y + m + m * z /\ m * z >= 0 /\ m * z \in Int
  BY <1>1
<1>5. m * x >= m * y + m
  BY <1>2, <1>4
<1> QED BY <1>1, <1>2, <1>5

\* Staging slots or ready words of all ranks, and one of them replaced.
Queues(C, S) == [Rank -> [Dir -> [C -> S]]]
PutIn(f, q, d, s, v) == [f EXCEPT ![q][d][s] = v]
ReplacedIn(f, h, q, d, s, v, C) ==
  \A q1 \in Rank, d1 \in Dir, s1 \in C :
    h[q1][d1][s1] = IF q1 = q /\ d1 = d /\ s1 = s THEN v ELSE f[q1][d1][s1]

\* One staging slot or ready word is replaced.
LEMMA PutSlot ==
  ASSUME NEW C, NEW S, NEW f \in Queues(C, S), NEW q \in Rank, NEW d \in Dir, NEW s \in C, NEW v \in S
  PROVE  /\ PutIn(f, q, d, s, v) \in Queues(C, S)
         /\ ReplacedIn(f, PutIn(f, q, d, s, v), q, d, s, v, C)
<1> PICK h : h = PutIn(f, q, d, s, v)
  OBVIOUS
<1> PICK T1, T2 : T1 = [C -> S] /\ T2 = [Dir -> [C -> S]]
  OBVIOUS
<1>1. f \in [Rank -> T2] /\ f[q] \in [Dir -> T1] /\ f[q][d] \in [C -> S]
  <2>1. f \in [Rank -> T2] /\ f[q] \in T2
    BY DEF Queues
  <2>2. f[q] \in [Dir -> T1] /\ f[q][d] \in T1
    BY <2>1
  <2> QED BY <2>1, <2>2
<1> PICK h2 : h2 = [f[q][d] EXCEPT ![s] = v]
  OBVIOUS
<1> PICK h1 : h1 = [f[q] EXCEPT ![d] = h2]
  OBVIOUS
<1>2. h = [f EXCEPT ![q] = h1]
  BY DEF PutIn
<1>3. h2 \in T1 /\ \A s1 \in C : h2[s1] = IF s1 = s THEN v ELSE f[q][d][s1]
  BY <1>1, PutEntry
<1>4. h1 \in T2 /\ \A d1 \in Dir : h1[d1] = IF d1 = d THEN h2 ELSE f[q][d1]
  BY <1>1, <1>3, PutEntry
<1>5. h \in [Rank -> T2] /\ \A q1 \in Rank : h[q1] = IF q1 = q THEN h1 ELSE f[q1]
  BY <1>1, <1>2, <1>4, PutEntry
<1>6. ASSUME NEW q1 \in Rank, NEW d1 \in Dir, NEW s1 \in C
      PROVE  h[q1][d1][s1] = IF q1 = q /\ d1 = d /\ s1 = s THEN v ELSE f[q1][d1][s1]
  <2>1. CASE q1 = q /\ d1 = d
    <3>1. h[q1][d1] = h2
      BY <1>4, <1>5, <2>1
    <3> QED BY <1>3, <2>1, <3>1
  <2>2. CASE ~(q1 = q /\ d1 = d)
    <3>1. h[q1][d1] = f[q1][d1]
      <4>1. CASE q1 # q
        BY <1>5, <4>1
      <4>2. CASE q1 = q /\ d1 # d
        BY <1>4, <1>5, <4>2
      <4> QED BY <2>2, <4>1, <4>2
    <3> QED BY <2>2, <3>1
  <2> QED BY <2>1, <2>2
<1>7. h \in Queues(C, S)
  BY <1>5 DEF Queues
<1> QED BY <1>6, <1>7 DEF ReplacedIn

\* The replaced entry.
LEMMA SlotThere ==
  ASSUME NEW C, NEW f, NEW h, NEW q \in Rank, NEW d \in Dir, NEW s \in C, NEW v,
         ReplacedIn(f, h, q, d, s, v, C)
  PROVE  h[q][d][s] = v
BY DEF ReplacedIn

\* The other entries.
LEMMA SlotElsewhere ==
  ASSUME NEW C, NEW f, NEW h, NEW q, NEW d, NEW s, NEW v, ReplacedIn(f, h, q, d, s, v, C),
         NEW q1 \in Rank, NEW d1 \in Dir, NEW s1 \in C, ~(q1 = q /\ d1 = d /\ s1 = s)
  PROVE  h[q1][d1][s1] = f[q1][d1][s1]
BY DEF ReplacedIn

\* Of two chunks that share a slot the earlier one is sent before the later one
\* is staged.
LEMMA SlotTaken ==
  ASSUME NEW a \in Nat, NEW b \in Nat, NEW m \in Nat \ {0}, a % m = b % m, a # b,
         NEW sent \in Nat, sent <= a, b >= m => sent >= b - m + 1, a >= m => sent >= a - m + 1
  PROVE  ~(sent <= b)
<1>1. a < b => a + m <= b
  BY SlotShared
<1>2. b < a => b + m <= a
  BY SlotShared
<1> QED BY <1>1, <1>2

\* A staging item fills its slot and publishes the ready word.
LEMMA StagingFills ==
  ASSUME CoreInv, NEW r \in Rank, NEW i, WorkItem(r, i), NEW n, n = entered[r],
         NEW kind, kind = Item(n, i).kind, NEW j, j = Item(n, i).j, Staging(kind),
         NEW d, d = DirOf(kind), NEW gi, gi = base[r][n][d] + j, NEW k, k = gi % scenario.nslot
  PROVE  /\ k \in Slots
         /\ ready' \in Queues(Slots, Nat) /\ ReplacedIn(ready, ready', r, d, k, gi + 1, Slots)
         /\ slot' \in Queues(Slots, Chunk)
         /\ ReplacedIn(slot, slot', r, d, k, Payload(r, n, d, j), Slots)
<1>1. RingTypeOK /\ scenario \in Scenarios
  BY DEF CoreInv, RingTypeOK
<1>2. d \in Dir /\ j \in StageSteps(n, d) /\ gi \in Nat /\ gi + 1 \in Nat
      /\ Outgoing(r, n, Item(n, i)) = Payload(r, n, d, j)
  BY StagingIs
<1>3. k \in Slots
  <2>1. scenario.nslot \in Nat \ {0}
    BY <1>1, CallsNat
  <2>2. \A a \in Int : a % scenario.nslot \in Slots
    BY <2>1, NumberIsSlot
  <2> QED BY <1>2, <2>2
<1>4. Payload(r, n, d, j) \in Chunk
  <2>1. n \in 1..Calls
    BY WorkIs
  <2>2. j \in CallSteps(n, d)
    BY <1>1, <1>2, <2>1, StepsInArea
  <2> QED BY <1>1, <1>2, <2>1, <2>2, PayloadIs
<1> PICK it : it = Item(n, i)
  OBVIOUS
<1>5. ready' = PutIn(ready, r, d, k, gi + 1) /\ slot' = PutIn(slot, r, d, k, Outgoing(r, n, it))
  BY DEF WorkItem, StageIndex, PutIn
<1>6. slot' = PutIn(slot, r, d, k, Payload(r, n, d, j))
  BY <1>2, <1>5
<1>7. ready \in Queues(Slots, Nat) /\ slot \in Queues(Slots, Chunk)
  BY <1>1 DEF RingTypeOK, Queues
<1>8. ready' \in Queues(Slots, Nat) /\ ReplacedIn(ready, ready', r, d, k, gi + 1, Slots)
  BY <1>2, <1>3, <1>5, <1>7, PutSlot
<1>9. slot' \in Queues(Slots, Chunk) /\ ReplacedIn(slot, slot', r, d, k, Payload(r, n, d, j), Slots)
  BY <1>2, <1>3, <1>4, <1>6, <1>7, PutSlot
<1> QED BY <1>3, <1>8, <1>9

\* A slot is filled again only when what was in it has been sent.
LEMMA StagesGrow ==
  ASSUME CoreInv, NEW r \in Rank, NEW i, WorkItem(r, i),
         NEW q \in Rank, NEW f \in Dir, NEW m \in 1..entered[q], NEW l \in StageSteps(m, f)
  PROVE  StageInv(q, f, m, l)'
<1> PICK n, kind, j : n = entered[r] /\ kind = Item(n, i).kind /\ j = Item(n, i).j
  OBVIOUS
<1>20. PICK gi : gi = base[q][m][f] + l
  OBVIOUS
<1>21. PICK k : k = gi % scenario.nslot
  OBVIOUS
<1>1. /\ RingTypeOK /\ scenario \in Scenarios /\ BasesInv /\ KernelsInv /\ CursorsInv /\ PostsInv
      /\ StageInv(q, f, m, l)
  BY DEF CoreInv, RingTypeOK, StagesInv
<1>2. UNCHANGED scenario /\ UNCHANGED <<scenario, base>> /\ UNCHANGED <<entered, base, post, nic, recv, flag>>
  BY WorkFrame
<1>3. m \in Nat /\ m \in 1..Calls /\ entered[q] \in Nat /\ scenario.nslot \in Nat \ {0}
  <2>1. entered[q] \in Nat /\ entered[q] <= Calls
    BY <1>1 DEF RingTypeOK, KernelsInv, KernelInv
  <2>2. Calls \in Nat /\ scenario.nslot \in Nat \ {0}
    BY <1>1, CallsNat
  <2> QED BY <2>1, <2>2
<1>4. l \in Nat /\ l < Staged(G(m), f) /\ l \in CallSteps(m, f) /\ gi \in Nat
  <2>1. Staged(G(m), f) \in Nat /\ l \in CallSteps(m, f)
    BY <1>1, <1>3, StepsInArea
  <2>2. base[q][m][f] \in Nat
    BY <1>1, <1>3, BaseTyped
  <2> QED BY <1>20, <2>1, <2>2 DEF StageSteps
<1>22. PICK N \in Nat \ {0} : N = scenario.nslot
  BY <1>3
<1>5. k \in Slots
  <2>1. gi % N \in 0..(N - 1)
    BY <1>4, ModIn
  <2> QED BY <1>21, <1>22, <2>1 DEF Slots
<1>6. SendDone(q, f)' = SendDone(q, f)
  BY <1>2, PlanStays DEF SendDone
<1> PICK w, w1 : /\ w = Worked(q, m, StageKind(f), l) /\ w1 = Worked(q, m, StageKind(f), l)'
  OBVIOUS
<1>7. w1 <=> w \/ (q = r /\ m = n /\ StageKind(f) = kind /\ l = j)
  BY <1>3, WorkedGrows
<1>8. StageInv(q, f, m, l)' <=>
        /\ ~w1 => ready'[q][f][k] # gi + 1
        /\ w1 /\ ~Past(nic[q][f], m, l) =>
             ready'[q][f][k] = gi + 1 /\ slot'[q][f][k] = Payload(q, m, f, l)
        /\ w1 /\ gi >= scenario.nslot => SendDone(q, f) >= gi - scenario.nslot + 1
  BY <1>2, <1>6, <1>20, <1>21, PlanStays DEF StageInv
<1>9. /\ ~w => ready[q][f][k] # gi + 1
      /\ w /\ ~Past(nic[q][f], m, l) => ready[q][f][k] = gi + 1 /\ slot[q][f][k] = Payload(q, m, f, l)
      /\ w /\ gi >= scenario.nslot => SendDone(q, f) >= gi - scenario.nslot + 1
  BY <1>1, <1>20, <1>21 DEF StageInv
<1>10. ASSUME w1 <=> w, ready'[q][f][k] = ready[q][f][k], slot'[q][f][k] = slot[q][f][k]
       PROVE  StageInv(q, f, m, l)'
  BY <1>8, <1>9, <1>10
<1>11. CASE ~Staging(kind)
  <2>1. StageKind(f) # kind
    BY <1>11, StagingKinds
  <2>2. slot' = slot /\ ready' = ready
    BY <1>11 DEF WorkItem
  <2> QED BY <1>7, <1>10, <2>1, <2>2
<1>12. CASE Staging(kind)
  <2> PICK d : d = DirOf(kind)
    OBVIOUS
  <2>20. PICK hi : hi = base[r][n][d] + j
    OBVIOUS
  <2>21. PICK h : h = hi % scenario.nslot
    OBVIOUS
  <2>1. /\ d \in Dir /\ kind = StageKind(d) /\ j \in StageSteps(n, d) /\ hi \in Nat
        /\ hi >= scenario.nslot => SendDone(r, d) >= hi - scenario.nslot + 1
    BY <1>12, <2>20, StagingIs
  <2>2. /\ h \in Slots
        /\ ReplacedIn(ready, ready', r, d, h, hi + 1, Slots)
        /\ ReplacedIn(slot, slot', r, d, h, Payload(r, n, d, j), Slots)
    BY <1>12, <2>20, <2>21, StagingFills
  <2>3. n \in 1..entered[r] /\ n \in Nat /\ n \in 1..Calls /\ ~Worked(r, n, kind, j)
    <3>1. n \in 1..Calls /\ ~Worked(r, n, kind, j) /\ Calls \in Nat
      BY <1>1, WorkIs, CallsNat
    <3> QED BY <3>1
  <2>4. StageKind(f) = kind <=> f = d
    BY <2>1, StagingKinds
  <2>5. CASE q = r /\ f = d /\ h = k
    <3>1. ready'[q][f][k] = hi + 1 /\ slot'[q][f][k] = Payload(r, n, d, j)
      BY <2>1, <2>2, <2>5, SlotThere
    <3>2. CASE m = n /\ l = j
      <4>1. gi = hi /\ w1
        BY <1>7, <1>20, <2>20, <2>4, <2>5, <3>2
      <4> QED BY <1>8, <2>1, <2>5, <3>1, <3>2, <4>1
    <3>3. CASE ~(m = n /\ l = j)
      <4>1. gi # hi
        <5> SUFFICES ASSUME gi = hi PROVE FALSE
          OBVIOUS
        <5>1. base[r][m][d] + l = base[r][n][d] + j
          BY <1>20, <2>20, <2>5
        <5>2. m \in 1..entered[r] /\ l \in StageSteps(m, d)
          BY <2>5
        <5> QED BY <1>1, <2>1, <2>3, <3>3, <5>1, <5>2, StagedApart
      <4>2. w1 <=> w
        BY <1>7, <3>3
      <4>3. ASSUME w, ~Past(nic[q][f], m, l) PROVE FALSE
        <5> PICK S : S = SendDone(q, f)
          OBVIOUS
        <5>1. S \in Nat /\ S <= gi
          BY <1>1, <1>20, <4>3, SendDoneCounts
        <5>2. (gi >= N => S >= gi - N + 1) /\ (hi >= N => S >= hi - N + 1) /\ gi % N = hi % N
          BY <1>9, <1>21, <1>22, <2>21, <2>1, <2>5, <4>3
        <5>3. ~(S <= hi)
          BY <1>4, <1>22, <2>1, <4>1, <5>1, <5>2, SlotTaken
        <5>4. Past(nic[r][d], n, j)
          <6>1. ~(SendDone(r, d) <= base[r][n][d] + j)
            BY <2>5, <2>20, <5>3
          <6> QED BY <1>1, <2>1, <2>3, <6>1, SendDoneCounts
        <5>5. Past(post[r][d], n, j) /\ j \in CallSteps(n, d) /\ j < Staged(G(n), d)
          <6>1. Staged(G(n), d) \in Nat /\ j \in CallSteps(n, d)
            BY <1>1, <2>1, <2>3, StepsInArea
          <6>2. j \in Nat /\ j < Staged(G(n), d)
            BY <2>1, <6>1 DEF StageSteps
          <6> QED BY <1>1, <2>1, <2>3, <5>4, <6>1, <6>2, PostFirst
        <5>6. PostInv(r, d, n, j)
          BY <1>1, <2>1, <2>3, <5>5 DEF PostsInv
        <5> QED BY <2>1, <2>3, <5>5, <5>6 DEF PostInv
      <4>4. ready'[q][f][k] # gi + 1
        <5>1. hi + 1 # gi + 1
          BY <1>4, <2>1, <4>1
        <5> QED BY <3>1, <5>1
      <4> QED BY <1>8, <1>9, <4>2, <4>3, <4>4
    <3> QED BY <3>2, <3>3
  <2>6. CASE ~(q = r /\ f = d /\ h = k)
    <3>0. ~(q = r /\ f = d /\ k = h)
      BY <2>6
    <3>1. ready'[q][f][k] = ready[q][f][k] /\ slot'[q][f][k] = slot[q][f][k]
      <4>1. ready'[q][f][k] = ready[q][f][k]
        BY <1>5, <2>2, <3>0, SlotElsewhere
      <4>2. slot'[q][f][k] = slot[q][f][k]
        BY <1>5, <2>2, <3>0, SlotElsewhere
      <4> QED BY <4>1, <4>2
    <3>2. ~(q = r /\ m = n /\ f = d /\ l = j)
      BY <1>20, <1>21, <2>20, <2>21, <2>6
    <3>3. w1 <=> w
      BY <1>7, <2>4, <3>2
    <3> QED BY <1>10, <3>1, <3>3
  <2> QED BY <2>5, <2>6
<1> QED BY <1>11, <1>12

\* The ready words stay below the next call's.
LEMMA WordsGrow ==
  ASSUME CoreInv, NEW r \in Rank, NEW i, WorkItem(r, i), NEW q \in Rank, NEW f \in Dir
  PROVE  WordsInv(q, f)'
<1> PICK n, kind, j : n = entered[r] /\ kind = Item(n, i).kind /\ j = Item(n, i).j
  OBVIOUS
<1>1. RingTypeOK /\ scenario \in Scenarios /\ BasesInv /\ WordsInv(q, f)
  BY DEF CoreInv, RingTypeOK, StagesInv
<1>2. UNCHANGED scenario /\ UNCHANGED <<entered, base, post, nic, recv, flag>>
  BY WorkFrame
<1> SUFFICES ASSUME NEW k \in Slots PROVE ready'[q][f][k] <= base[q][entered[q] + 1][f]
  BY <1>2, PlanStays DEF WordsInv
<1>3. ready[q][f][k] <= base[q][entered[q] + 1][f]
  BY <1>1 DEF WordsInv
<1>4. CASE ~Staging(kind)
  <2>1. ready' = ready
    BY <1>4 DEF WorkItem
  <2> QED BY <1>3, <2>1
<1>5. CASE Staging(kind)
  <2> PICK d : d = DirOf(kind)
    OBVIOUS
  <2> PICK hi : hi = base[r][n][d] + j
    OBVIOUS
  <2> PICK h : h = hi % scenario.nslot
    OBVIOUS
  <2>1. d \in Dir /\ j \in StageSteps(n, d) /\ hi \in Nat
    BY <1>5, StagingIs
  <2>2. ReplacedIn(ready, ready', r, d, h, hi + 1, Slots)
    BY <1>5, StagingFills
  <2>3. CASE q = r /\ f = d /\ k = h
    <3>1. ready'[q][f][k] = hi + 1
      <4>1. h \in Slots
        BY <2>3
      <4> QED BY <2>1, <2>2, <2>3, <4>1, SlotThere
    <3>2. n \in 1..Calls /\ n \in Nat /\ n >= 1 /\ Calls \in Nat
      <4>1. n \in 1..Calls
        BY WorkIs
      <4> QED BY <1>1, <4>1, CallsNat
    <3> PICK a \in Nat, b \in Nat, x \in Nat :
          a = base[r][n][d] /\ b = base[r][n + 1][d] /\ x = Staged(G(n), d)
      <4>1. base[r][n][d] \in Nat /\ base[r][n + 1][d] \in Nat
        BY <1>1, <2>1, <3>2, BaseTyped
      <4> QED BY <1>1, <2>1, <3>2, <4>1, StepsInArea
    <3>3. a + x <= b
      BY <1>1, <2>1, <3>2, BasesGrow
    <3>4. j \in Nat /\ j < x
      BY <2>1 DEF StageSteps
    <3>5. hi + 1 <= b
      BY <3>3, <3>4
    <3> QED BY <2>3, <3>1, <3>5
  <2>4. CASE ~(q = r /\ f = d /\ k = h)
    <3>1. ready'[q][f][k] = ready[q][f][k]
      BY <2>2, <2>4, SlotElsewhere, SMTT(40)
    <3> QED BY <1>3, <3>1
  <2> QED BY <2>3, <2>4
<1> QED BY <1>4, <1>5

\* The result when one more place of it is written.
LEMMA WrittenIs ==
  ASSUME DOMAIN out = Rank, NEW r \in Rank, NEW n, NEW c, NEW v, v = Right(n, c[1], c[2]),
         out[r] = Answer(n, DOMAIN out[r]), out' = Written(r, c, v)
  PROVE  /\ DOMAIN out' = Rank /\ out'[r] = Answer(n, DOMAIN out[r] \union {c})
         /\ \A q \in Rank : q # r => out'[q] = out[q]
<1> PICK D : D = DOMAIN out[r]
  OBVIOUS
<1> PICK new : new = [x \in D \union {c} |-> IF x = c THEN v ELSE out[r][x]]
  OBVIOUS
<1>1. out' = [out EXCEPT ![r] = new]
  BY DEF Written
<1>2. \A x \in D : out[r][x] = Right(n, x[1], x[2])
  <2>1. out[r] = Answer(n, D)
    OBVIOUS
  <2>2. \A x \in D : Answer(n, D)[x] = Right(n, x[1], x[2])
    BY DEF Answer
  <2> QED BY <2>1, <2>2
<1>3. new = [x \in D \union {c} |-> Right(n, x[1], x[2])]
  <2>1. \A x \in D \union {c} : (IF x = c THEN v ELSE out[r][x]) = Right(n, x[1], x[2])
    BY <1>2
  <2> QED BY <2>1
<1>4. new = Answer(n, D \union {c})
  BY <1>3 DEF Answer
<1> QED BY <1>1, <1>4

\* The result after an item that writes all of its places.
LEMMA OutExtends ==
  ASSUME CoreInv, NEW r \in Rank, NEW i, WorkItem(r, i), NEW n, n = entered[r],
         NEW D, DOMAIN out[r] \subseteq D, D \subseteq Area(r, n), out'[r] = Answer(n, D),
         Target(r, n, Item(n, i).kind, Item(n, i).j) \subseteq D
  PROVE  OutInv(r)'
<1>1. UNCHANGED scenario /\ entered' = entered /\ done' = [done EXCEPT ![r] = done[r] \union {i}]
  BY WorkFrame
<1>2. n \in 1..Calls /\ Calls \in Nat
  BY WorkIs, CallsNat DEF CoreInv, RingTypeOK
<1>3. DOMAIN out'[r] = D
  BY DEF Answer
<1>4. done'[r] = done[r] \union {i}
  BY <1>1 DEF CoreInv, RingTypeOK
<1>5. ASSUME NEW l \in done'[r]
      PROVE  Target(r, n, Item(n, l).kind, Item(n, l).j) \subseteq D
  <2>1. CASE l = i
    BY <2>1
  <2>2. CASE l # i
    <3>1. l \in done[r]
      BY <1>4, <2>2
    <3>2. OutInv(r)
      BY DEF CoreInv, OutsInv
    <3>3. Target(r, n, Item(n, l).kind, Item(n, l).j) \subseteq DOMAIN out[r]
      BY <1>2, <3>1, <3>2 DEF OutInv
    <3> QED BY <3>3
  <2> QED BY <2>1, <2>2
<1>6. entered'[r] = n /\ Area(r, n)' = Area(r, n) /\ Answer(n, D)' = Answer(n, D)
  BY <1>1, PlanStays
<1>7. \A l : Item(n, l)' = Item(n, l) /\ \A kind, j : Target(r, n, kind, j)' = Target(r, n, kind, j)
  BY <1>1, PlanStays
<1>8. /\ D \subseteq Area(r, n)' /\ out'[r] = Answer(n, D)'
      /\ \A l \in done'[r] : Target(r, n, Item(n, l).kind, Item(n, l).j)' \subseteq D
  BY <1>5, <1>6, <1>7
<1> QED BY <1>3, <1>6, <1>8 DEF OutInv

\* What a worked item writes is right.
LEMMA OutsGrow ==
  ASSUME CoreInv, NEW r \in Rank, NEW i, WorkItem(r, i)
  PROVE  DOMAIN out' = Rank /\ \A q \in Rank : OutInv(q)'
<1> PICK n, it : n = entered[r] /\ it = Item(n, i)
  OBVIOUS
<1> PICK kind, j : kind = it.kind /\ j = it.j
  OBVIOUS
<1>1. /\ UNCHANGED scenario /\ entered' = entered
      /\ done' = [done EXCEPT ![r] = done[r] \union {i}]
  BY WorkFrame
<1>2. /\ n \in 1..Calls /\ IsItem(G(n), kind, j)
      /\ \A dep \in ItemDeps(G(n), kind, j) : Came(r, n, dep[1], dep[2])
  BY WorkIs
<1>3. RingTypeOK /\ scenario \in Scenarios /\ DOMAIN out = Rank /\ n > 0
  BY <1>2, CallsNat DEF CoreInv, RingTypeOK
<1>4. DOMAIN out[r] \subseteq Area(r, n) /\ out[r] = Answer(n, DOMAIN out[r])
  BY <1>3 DEF CoreInv, OutsInv, OutInv
<1>5. ASSUME NEW c, c \in Area(r, n), NEW v, v = Right(n, c[1], c[2]), out' = Written(r, c, v),
             Target(r, n, kind, j) \subseteq {c}
      PROVE  DOMAIN out' = Rank /\ OutInv(r)' /\ \A q \in Rank : q # r => out'[q] = out[q]
  <2>1. /\ DOMAIN out' = Rank /\ out'[r] = Answer(n, DOMAIN out[r] \union {c})
        /\ \A q \in Rank : q # r => out'[q] = out[q]
    BY <1>3, <1>4, <1>5, WrittenIs
  <2>2. OutInv(r)'
    <3>1. DOMAIN out[r] \union {c} \subseteq Area(r, n) /\ DOMAIN out[r] \subseteq DOMAIN out[r] \union {c}
      BY <1>4, <1>5
    <3>2. Target(r, n, kind, j) \subseteq DOMAIN out[r] \union {c}
      BY <1>5
    <3> QED BY <2>1, <3>1, <3>2, OutExtends
  <2> QED BY <2>1, <2>2
<1>6. DOMAIN out' = Rank /\ OutInv(r)' /\ \A q \in Rank : q # r => out'[q] = out[q]
  <2>1. CASE ~Staging(kind)
    <3> PICK c, v : c = Place(r, G(n), it) /\ v = Output(r, n, it)
      OBVIOUS
    <3>1. out' = Written(r, c, v)
      BY <2>1 DEF WorkItem
    <3>2. v = Right(n, c[1], c[2]) /\ c \in Area(r, n) /\ Target(r, n, kind, j) = {c}
      BY <1>2, <1>3, <2>1, OutputIs, ZenonT(60)
    <3> QED BY <1>5, <3>1, <3>2
  <2>2. CASE Staging(kind) /\ G(n).kind = "AG" /\ DirOf(kind) = Fwd
    <3> PICK c, v : c = <<r, j>> /\ v = Outgoing(r, n, it)
      OBVIOUS
    <3>1. out' = Written(r, c, v)
      BY <2>2 DEF WorkItem
    <3>2. /\ kind = StageKind(Fwd) /\ j \in StageSteps(n, Fwd)
          /\ v = Payload(r, n, Fwd, j)
      BY <2>2, StagingIs
    <3>3. v = Right(n, r, j) /\ c \in Area(r, n) /\ c[1] = r /\ c[2] = j
      BY <1>2, <1>3, <2>2, <3>2, OwnCopy
    <3>4. Target(r, n, kind, j) \subseteq {c}
      BY <2>2 DEF Target
    <3> QED BY <1>5, <3>1, <3>3, <3>4
  <2>3. CASE Staging(kind) /\ ~(G(n).kind = "AG" /\ DirOf(kind) = Fwd)
    <3>1. out' = out
      BY <2>3 DEF WorkItem
    <3>2. Target(r, n, kind, j) = {}
      <4>1. Staging(kind) => (kind = "stageF" <=> DirOf(kind) = Fwd)
        BY StagingKinds DEF StageKind, DirOf, Fwd, Bwd, Staging
      <4> QED BY <2>3, <4>1 DEF Target
    <3>3. out'[r] = Answer(n, DOMAIN out[r]) /\ Target(r, n, kind, j) \subseteq DOMAIN out[r]
      BY <1>4, <3>1, <3>2
    <3>4. OutInv(r)'
      BY <1>4, <3>3, OutExtends
    <3> QED BY <1>3, <3>1, <3>4
  <2> QED BY <2>1, <2>2, <2>3
<1>7. ASSUME NEW q \in Rank, q # r PROVE OutInv(q)'
  <2>1. out'[q] = out[q] /\ done'[q] = done[q] /\ entered'[q] = entered[q] /\ OutInv(q)
    BY <1>1, <1>6, <1>7 DEF CoreInv, RingTypeOK, OutsInv
  <2> PICK m, D : m = entered[q] /\ D = done[q]
    OBVIOUS
  <2>2. /\ Area(q, m)' = Area(q, m) /\ \A E : Answer(m, E)' = Answer(m, E)
        /\ \A l : Item(m, l)' = Item(m, l)
        /\ \A k1, l : Target(q, m, k1, l)' = Target(q, m, k1, l)
    BY <1>1, PlanStays
  <2>3. entered'[q] = m /\ done'[q] = D
    BY <2>1
  <2>4. m > 0 =>
          /\ DOMAIN out[q] \subseteq Area(q, m) /\ out[q] = Answer(m, DOMAIN out[q])
          /\ \A l \in D : Target(q, m, Item(m, l).kind, Item(m, l).j) \subseteq DOMAIN out[q]
    BY <2>1 DEF OutInv
  <2> QED BY <2>1, <2>2, <2>3, <2>4 DEF OutInv
<1> QED BY <1>6, <1>7

\* A kernel returns when all items are worked.
LEMMA WorkReturns ==
  ASSUME CoreInv, NEW r \in Rank, NEW i, WorkItem(r, i)
  PROVE  /\ left' \in [Rank -> Nat] /\ done' \in [Rank -> SUBSET Nat]
         /\ KernelsInv'
<1> PICK n : n = entered[r]
  OBVIOUS
<1>1. /\ UNCHANGED scenario /\ entered' = entered
      /\ done' = [done EXCEPT ![r] = done[r] \union {i}]
      /\ left' = [left EXCEPT ![r] = IF Cardinality(done'[r]) = Items(G(n)) THEN n ELSE left[r]]
  BY WorkFrame
<1>2. n \in 1..Calls /\ left[r] + 1 = n /\ i \in Indices(n) /\ i \notin done[r] /\ done[r] \subseteq Indices(n)
  BY WorkIs
<1>3. RingTypeOK /\ scenario \in Scenarios /\ KernelsInv
  BY DEF CoreInv, RingTypeOK
<1>4. n \in Nat /\ n > 0 /\ Calls \in Nat /\ left \in [Rank -> Nat] /\ entered \in [Rank -> Nat]
      /\ done \in [Rank -> SUBSET Nat]
  BY <1>2, <1>3, CallsNat DEF RingTypeOK
<1>5. Indices(n) \subseteq Nat
  BY DEF Indices
<1> PICK D : D = done[r] \union {i}
  OBVIOUS
<1>6. done'[r] = D /\ D \subseteq Indices(n) /\ done' \in [Rank -> SUBSET Nat]
      /\ \A q \in Rank : q # r => done'[q] = done[q]
  BY <1>1, <1>2, <1>4, <1>5
<1> PICK new : new = IF Cardinality(D) = Items(G(n)) THEN n ELSE left[r]
  OBVIOUS
<1>7. left' \in [Rank -> Nat] /\ left'[r] = new /\ \A q \in Rank : q # r => left'[q] = left[q]
  <2>1. new \in Nat
    BY <1>4
  <2>2. left' = [left EXCEPT ![r] = new]
    BY <1>1, <1>6
  <2> QED BY <1>4, <2>1, <2>2
<1>8. new = n => D = Indices(n)
  <2> SUFFICES ASSUME new = n PROVE D = Indices(n)
    OBVIOUS
  <2>1. Cardinality(D) = Items(G(n))
    BY <1>2, <1>4
  <2>2. Items(G(n)) \in Nat \ {0}
    BY <1>2, <1>3, PlanIs, ItemsNat
  <2>3. IsFiniteSet(Indices(n)) /\ Cardinality(Indices(n)) = Items(G(n))
    <3> PICK x \in Nat \ {0} : x = Items(G(n))
      BY <2>2
    <3>1. IsFiniteSet(0..(x - 1)) /\ Cardinality(0..(x - 1)) = x
      <4>1. 0 \in Int /\ x - 1 \in Int /\ ~(0 > x - 1) /\ x - 1 - 0 + 1 = x
        OBVIOUS
      <4> QED BY <4>1, FS_Interval
    <3> QED BY <3>1 DEF Indices
  <2> QED BY <1>6, <2>1, <2>3, FS_Subset
<1>9. ASSUME NEW q \in Rank PROVE KernelInv(q)'
  <2>0. KernelInv(q)
    BY <1>3 DEF KernelsInv
  <2>1. CASE q = r
    <3>1. new <= n /\ n <= new + 1 /\ n <= Calls
      BY <1>2, <1>4
    <3>2. left'[q] = new /\ entered'[q] = n /\ done'[q] = D /\ Indices(n)' = Indices(n) /\ Calls' = Calls
      BY <1>1, <1>6, <1>7, <2>1, PlanStays
    <3>3. D \subseteq Indices(n) /\ (new = n => D = Indices(n))
      BY <1>6, <1>8
    <3> QED BY <3>1, <3>2, <3>3 DEF KernelInv
  <2>2. CASE q # r
    <3>1. left'[q] = left[q] /\ entered'[q] = entered[q] /\ done'[q] = done[q]
      BY <1>1, <1>6, <1>7, <2>2
    <3>2. Indices(entered[q])' = Indices(entered[q]) /\ Calls' = Calls
      BY <1>1, PlanStays
    <3> QED BY <2>0, <3>1, <3>2 DEF KernelInv
  <2> QED BY <2>1, <2>2
<1> QED BY <1>6, <1>7, <1>9 DEF KernelsInv

\* The slots and ready words keep their type.
LEMMA WorkTyped ==
  ASSUME CoreInv, NEW r \in Rank, NEW i, WorkItem(r, i)
  PROVE  RingTypeOK'
<1>1. /\ UNCHANGED scenario /\ UNCHANGED <<entered, base, post, nic, recv, flag>>
  BY WorkFrame
<1>2. RingTypeOK
  BY DEF CoreInv
<1>3. slot' \in Queues(Slots, Chunk) /\ ready' \in Queues(Slots, Nat)
  <2>1. CASE ~Staging(Item(entered[r], i).kind)
    <3>1. slot' = slot /\ ready' = ready
      BY <2>1 DEF WorkItem
    <3> QED BY <1>2, <3>1 DEF RingTypeOK, Queues
  <2>2. CASE Staging(Item(entered[r], i).kind)
    BY <2>2, StagingFills
  <2> QED BY <2>1, <2>2
<1>4. left' \in [Rank -> Nat] /\ done' \in [Rank -> SUBSET Nat] /\ DOMAIN out' = Rank
  BY WorkReturns, OutsGrow
<1> HIDE DEF Chunk
<1>5. Slots' = Slots /\ Cells' = Cells
  BY <1>1, PlanStays
<1> QED BY <1>1, <1>2, <1>3, <1>4, <1>5 DEF RingTypeOK, Queues

\* A CTA's step keeps the invariant.
LEMMA ItemKeeps ==
  ASSUME CoreInv, NEW r \in Rank, NEW i, WorkItem(r, i)
  PROVE  CoreInv'
<1> PICK n, kind, j : n = entered[r] /\ kind = Item(n, i).kind /\ j = Item(n, i).j
  OBVIOUS
<1>1. /\ UNCHANGED scenario /\ UNCHANGED <<scenario, base>>
      /\ UNCHANGED <<entered, base, post, nic, recv, flag>>
  BY WorkFrame
<1>2. /\ RingTypeOK /\ KernelsInv /\ BasesInv /\ CursorsInv /\ PostsInv /\ StagesInv /\ DepsInv
      /\ FlagsInv /\ LandsInv /\ OutsInv /\ scenario \in Scenarios
  BY DEF CoreInv, RingTypeOK
<1>3. \A q \in Rank, m \in Nat : \A kind1, j1 :
        Worked(q, m, kind1, j1)' <=>
          Worked(q, m, kind1, j1) \/ (q = r /\ m = n /\ kind1 = kind /\ j1 = j)
  BY WorkedGrows
<1>4. Calls \in Nat /\ 1..Calls \subseteq Nat
  BY <1>2, CallsNat
<1>5. RingTypeOK' /\ KernelsInv'
  BY WorkTyped, WorkReturns
<1>6. BasesInv'
  BY <1>1, <1>2, PlanStays DEF BasesInv, BaseInv
<1>7. CursorsInv'
  BY <1>1, <1>2, PlanStays DEF CursorsInv, CursorInv
<1>8. PostsInv'
  <2>1. ASSUME NEW q \in Rank, NEW f \in Dir, NEW m \in 1..Calls, NEW t \in CallSteps(m, f)
        PROVE  PostInv(q, f, m, t)'
    <3>1. PostInv(q, f, m, t)
      BY <1>2 DEF PostsInv
    <3>2. Worked(q, m, StageKind(f), t) => Worked(q, m, StageKind(f), t)'
      BY <1>3, <1>4
    <3> QED BY <1>1, <3>1, <3>2, PlanStays DEF PostInv
  <2> QED BY <1>1, <2>1, PlanStays DEF PostsInv
<1>9. StagesInv'
  <2>1. ASSUME NEW q \in Rank, NEW f \in Dir PROVE WordsInv(q, f)'
    BY WordsGrow
  <2>2. ASSUME NEW q \in Rank, NEW f \in Dir, NEW m \in 1..entered[q], NEW l \in StageSteps(m, f)
        PROVE  StageInv(q, f, m, l)'
    BY StagesGrow
  <2>3. \A m, f : StageSteps(m, f)' = StageSteps(m, f)
    BY <1>1, PlanStays
  <2> QED BY <1>1, <2>1, <2>2, <2>3 DEF StagesInv
<1>10. DepsInv'
  <2>1. ASSUME NEW q \in Rank, NEW m \in 1..Calls, NEW kind1, NEW j1, IsItem(G(m), kind1, j1)
        PROVE  DepInv(q, m, kind1, j1)'
    <3>1. DepInv(q, m, kind1, j1)
      BY <1>2, <2>1 DEF DepsInv
    <3>2. \A dep \in ItemDeps(G(n), kind, j) : Past(nic[Source(r, dep[1])][dep[1]], n, dep[2])
      BY WorkIs
    <3>3. ASSUME Worked(q, m, kind1, j1)'
          PROVE  \A dep \in ItemDeps(G(m), kind1, j1) : Past(nic[Source(q, dep[1])][dep[1]], m, dep[2])
      <4>1. Worked(q, m, kind1, j1) \/ (q = r /\ m = n /\ kind1 = kind /\ j1 = j)
        BY <1>3, <1>4, <3>3
      <4> QED BY <3>1, <3>2, <4>1 DEF DepInv
    <3> QED BY <1>1, <3>3, PlanStays DEF DepInv
  <2> QED BY <1>1, <2>1, PlanStays DEF DepsInv
<1>11. FlagsInv'
  BY <1>1, <1>2, PlanStays DEF FlagsInv, FlagInv
<1>12. LandsInv'
  BY <1>1, <1>2, PlanStays DEF LandsInv, LandInv
<1>13. OutsInv'
  BY OutsGrow DEF OutsInv
<1> QED BY <1>5, <1>6, <1>7, <1>8, <1>9, <1>10, <1>11, <1>12, <1>13 DEF CoreInv

-----------------------------------------------------------------------------
(***************************************************************************)
(* The beginning of a call.                                                *)
(***************************************************************************)

\* A sequence with one more element.
LEMMA AppendGives ==
  ASSUME NEW S, NEW s \in Seq(S), NEW x \in S
  PROVE  /\ Append(s, x) \in Seq(S) /\ Len(Append(s, x)) = Len(s) + 1
         /\ Append(s, x)[Len(s) + 1] = x
         /\ \A m \in 1..Len(s) : Append(s, x)[m] = s[m]
OBVIOUS

\* Beginning a call: the kernel is idle, and only the call's own state changes.
LEMMA BeginFrame ==
  ASSUME CoreInv, NEW r \in Rank, Begin(r), NEW n, n = entered[r] + 1
  PROVE  /\ UNCHANGED scenario /\ UNCHANGED <<left, slot, ready, post, nic, recv, flag>>
         /\ n \in Nat /\ n \in 1..Calls /\ left[r] = entered[r] /\ entered[r] = n - 1
         /\ entered' \in [Rank -> Nat] /\ done' \in [Rank -> SUBSET Nat] /\ DOMAIN out' = Rank
         /\ entered'[r] = n /\ done'[r] = {} /\ out'[r] = <<>>
         /\ \A q \in Rank : q # r => entered'[q] = entered[q] /\ done'[q] = done[q] /\ out'[q] = out[q]
<1>1. /\ UNCHANGED scenario /\ UNCHANGED <<left, slot, ready, post, nic, recv, flag>>
      /\ entered' = [entered EXCEPT ![r] = entered[r] + 1]
      /\ done' = [done EXCEPT ![r] = {}] /\ out' = [out EXCEPT ![r] = <<>>]
      /\ CanBegin(r)
  BY DEF Begin, wireVars
<1>2. /\ scenario \in Scenarios /\ entered \in [Rank -> Nat] /\ done \in [Rank -> SUBSET Nat]
      /\ DOMAIN out = Rank /\ left \in [Rank -> Nat]
  BY DEF CoreInv, RingTypeOK
<1>3. Calls \in Nat
  BY <1>2, CallsNat
<1>4. n \in Nat /\ n \in 1..Calls /\ left[r] = entered[r] /\ entered[r] = n - 1
  <2> PICK e \in Nat, c \in Nat : e = entered[r] /\ c = Calls
    BY <1>2, <1>3
  <2>1. left[r] = e /\ e < c
    BY <1>1 DEF CanBegin, Idle
  <2>2. e + 1 \in Nat /\ e + 1 \in 1..c /\ e = (e + 1) - 1
    BY <2>1
  <2> QED BY <2>1, <2>2
<1>5. /\ entered' \in [Rank -> Nat] /\ entered'[r] = n
      /\ \A q \in Rank : q # r => entered'[q] = entered[q]
  BY <1>1, <1>2, <1>4
<1>6. /\ done' \in [Rank -> SUBSET Nat] /\ done'[r] = {}
      /\ \A q \in Rank : q # r => done'[q] = done[q]
  BY <1>1, <1>2
<1>7. DOMAIN out' = Rank /\ out'[r] = <<>> /\ \A q \in Rank : q # r => out'[q] = out[q]
  BY <1>1, <1>2
<1> QED BY <1>1, <1>4, <1>5, <1>6, <1>7

\* The next call's chunks come after this one's.
LEMMA BeginBases ==
  ASSUME CoreInv, NEW r \in Rank, Begin(r), NEW n, n = entered[r] + 1
  PROVE  /\ base' \in [Rank -> Seq([Dir -> Nat])]
         /\ \A q \in Rank : q # r => base'[q] = base[q]
         /\ Len(base'[r]) = n + 1
         /\ \A m \in 1..n : base'[r][m] = base[r][m]
         /\ \A d \in Dir : base'[r][n + 1][d] = base[r][n][d] + Staged(G(n), d)
<1>1. RingTypeOK /\ BasesInv /\ scenario \in Scenarios
  BY DEF CoreInv, RingTypeOK
<1>2. n \in Nat /\ n \in 1..Calls /\ entered[r] = n - 1 /\ entered'[r] = n /\ UNCHANGED scenario
  BY BeginFrame
<1> PICK S : S = [Dir -> Nat]
  OBVIOUS
<1>3. base \in [Rank -> Seq(S)] /\ base[r] \in Seq(S) /\ Len(base[r]) = n
  BY <1>1, <1>2 DEF RingTypeOK, BasesInv, BaseInv
<1> PICK x : x = [d \in Dir |-> base[r][n][d] + Staged(G(n), d)]
  OBVIOUS
<1>4. x \in S
  <2>1. ASSUME NEW d \in Dir PROVE base[r][n][d] + Staged(G(n), d) \in Nat
    <3>1. n \in 1..(entered[r] + 1)
      BY <1>2
    <3>2. base[r][n][d] \in Nat
      BY <1>1, <3>1, BaseTyped
    <3>3. Staged(G(n), d) \in Nat
      BY <1>1, <1>2, StepsInArea
    <3> QED BY <3>2, <3>3
  <2> QED BY <2>1
<1>5. base' = [base EXCEPT ![r] = Append(base[r], x)]
  <2>1. base' = [base EXCEPT ![r] =
                   Append(base[r], [d \in Dir |-> base[r][entered'[r]][d] + Staged(G(entered'[r]), d)])]
    BY DEF Begin
  <2> QED BY <1>2, <2>1
<1>6. /\ Append(base[r], x) \in Seq(S) /\ Len(Append(base[r], x)) = n + 1
      /\ Append(base[r], x)[n + 1] = x /\ \A m \in 1..n : Append(base[r], x)[m] = base[r][m]
  BY <1>3, <1>4, AppendGives
<1>7. base'[r] = Append(base[r], x) /\ base' \in [Rank -> Seq(S)]
      /\ \A q \in Rank : q # r => base'[q] = base[q]
  BY <1>3, <1>5, <1>6
<1> QED BY <1>6, <1>7

\* Nothing is worked by beginning a call, and what was worked stays so.
LEMMA BeginWorked ==
  ASSUME CoreInv, NEW r \in Rank, Begin(r), NEW q \in Rank, NEW m \in 1..Calls,
         NEW kind, NEW j, IsItem(G(m), kind, j)
  PROVE  Worked(q, m, kind, j)' <=> Worked(q, m, kind, j)
<1> PICK n : n = entered[r] + 1
  OBVIOUS
<1>1. /\ UNCHANGED scenario
      /\ n \in Nat /\ left[r] = entered[r] /\ entered[r] = n - 1
      /\ entered'[r] = n /\ done'[r] = {}
      /\ q # r => entered'[q] = entered[q] /\ done'[q] = done[q]
  BY BeginFrame
<1>2. RingTypeOK /\ KernelsInv /\ m \in Nat
  <2>1. RingTypeOK /\ KernelsInv /\ scenario \in Scenarios
    BY DEF CoreInv, RingTypeOK
  <2>2. Calls \in Nat
    BY <2>1, CallsNat
  <2> QED BY <2>1, <2>2
<1>3. \A l : Item(m, l)' = Item(m, l)
  BY <1>1, PlanStays
<1>4. CASE q # r
  BY <1>1, <1>3, <1>4 DEF Worked
<1>5. CASE q = r /\ m < n
  <2>1. left[q] >= m
    BY <1>1, <1>2, <1>5
  <2>2. Worked(q, m, kind, j)
    BY <1>2, <2>1, ReturnedWorked
  <2> QED BY <1>1, <1>5, <2>2 DEF Worked
<1>6. CASE q = r /\ ~(m < n)
  <2>1. ~(entered[q] > m) /\ entered[q] # m /\ ~(entered'[q] > m) /\ done'[q] = {}
    <3> PICK e \in Nat : e = n - 1 /\ e = entered[q] /\ entered'[q] = e + 1
      BY <1>1, <1>2, <1>6 DEF RingTypeOK
    <3>1. ~(e > m) /\ e # m /\ ~(e + 1 > m)
      BY <1>2, <1>6
    <3> QED BY <1>1, <1>6, <3>1
  <2> QED BY <2>1 DEF Worked
<1> QED BY <1>4, <1>5, <1>6

\* Beginning a call keeps the invariant.
LEMMA BeginKeeps ==
  ASSUME CoreInv, NEW r \in Rank, Begin(r)
  PROVE  CoreInv'
<1> PICK n : n = entered[r] + 1
  OBVIOUS
<1>1. /\ UNCHANGED scenario /\ UNCHANGED <<left, slot, ready, post, nic, recv, flag>>
      /\ n \in Nat /\ n \in 1..Calls /\ left[r] = entered[r] /\ entered[r] = n - 1
      /\ entered' \in [Rank -> Nat] /\ done' \in [Rank -> SUBSET Nat] /\ DOMAIN out' = Rank
      /\ entered'[r] = n /\ done'[r] = {} /\ out'[r] = <<>>
      /\ \A q \in Rank : q # r => entered'[q] = entered[q] /\ done'[q] = done[q] /\ out'[q] = out[q]
  BY BeginFrame
<1>2. /\ RingTypeOK /\ KernelsInv /\ BasesInv /\ CursorsInv /\ PostsInv /\ StagesInv /\ DepsInv
      /\ FlagsInv /\ LandsInv /\ OutsInv /\ scenario \in Scenarios
  BY DEF CoreInv, RingTypeOK
<1>3. /\ base' \in [Rank -> Seq([Dir -> Nat])]
      /\ \A q \in Rank : q # r => base'[q] = base[q]
      /\ Len(base'[r]) = n + 1
      /\ \A m \in 1..n : base'[r][m] = base[r][m]
      /\ \A d \in Dir : base'[r][n + 1][d] = base[r][n][d] + Staged(G(n), d)
  BY BeginBases
<1>4. \A q \in Rank, m \in 1..Calls : \A kind, j :
        IsItem(G(m), kind, j) => (Worked(q, m, kind, j)' <=> Worked(q, m, kind, j))
  BY BeginWorked
<1>5. Calls \in Nat /\ 1..Calls \subseteq Nat
  BY <1>2, CallsNat
<1>6. \A q \in Rank, m \in 1..Calls, f \in Dir : \A t \in StageSteps(m, f) :
        Worked(q, m, StageKind(f), t)' <=> Worked(q, m, StageKind(f), t)
  <2> SUFFICES ASSUME NEW q \in Rank, NEW m \in 1..Calls, NEW f \in Dir, NEW t \in StageSteps(m, f)
               PROVE  Worked(q, m, StageKind(f), t)' <=> Worked(q, m, StageKind(f), t)
    OBVIOUS
  <2>1. IsGeometry(G(m)) /\ t \in 0..(Staged(G(m), f) - 1)
    BY <1>2, PlanIs DEF StageSteps
  <2>2. IsItem(G(m), StageKind(f), t)
    BY <2>1, StagingItems
  <2> QED BY <1>4, <2>2
<1>7. \A q \in Rank : entered[q] \in Nat /\ entered[q] <= Calls /\ entered'[q] <= Calls
  <2> SUFFICES ASSUME NEW q \in Rank
               PROVE  entered[q] \in Nat /\ entered[q] <= Calls /\ entered'[q] <= Calls
    OBVIOUS
  <2>1. entered[q] \in Nat /\ entered[q] <= Calls
    BY <1>2 DEF RingTypeOK, KernelsInv, KernelInv
  <2>2. q # r => entered'[q] = entered[q]
    BY <1>1
  <2>3. entered'[r] = n /\ n <= Calls
    <3>1. n <= Calls
      <4>1. n \in 1..Calls /\ Calls \in Nat
        BY <1>1, <1>5
      <4> QED BY <4>1
    <3> QED BY <1>1, <3>1
  <2> QED BY <2>1, <2>2, <2>3
<1>8. RingTypeOK'
  <2> HIDE DEF Chunk
  <2> QED BY <1>1, <1>2, <1>3, PlanStays DEF RingTypeOK
<1>9. KernelsInv'
  <2>1. ASSUME NEW q \in Rank PROVE KernelInv(q)'
    <3>1. KernelInv(q) /\ entered[q] \in Nat
      BY <1>2, <1>7 DEF KernelsInv
    <3> PICK e : e = entered[q]
      OBVIOUS
    <3>2. Indices(e)' = Indices(e) /\ Calls' = Calls
      BY <1>1, PlanStays
    <3>3. CASE q = r
      <4>1. n - 1 <= n /\ n <= n - 1 + 1 /\ n <= Calls /\ n - 1 # n
        BY <1>1, <1>5
      <4>2. left'[q] = n - 1 /\ entered'[q] = n /\ done'[q] = {}
        BY <1>1, <3>3
      <4> QED BY <3>2, <4>1, <4>2 DEF KernelInv
    <3>4. CASE q # r
      <4>1. left'[q] = left[q] /\ entered'[q] = e /\ done'[q] = done[q]
        BY <1>1, <3>4
      <4> QED BY <3>1, <3>2, <4>1 DEF KernelInv
    <3> QED BY <3>3, <3>4
  <2> QED BY <2>1 DEF KernelsInv
<1>10. BasesInv'
  <2>1. ASSUME NEW q \in Rank PROVE BaseInv(q)'
    <3>1. BaseInv(q) /\ \A m : G(m)' = G(m)
      BY <1>1, <1>2, PlanStays DEF BasesInv
    <3>2. CASE q # r
      BY <1>1, <1>3, <3>1, <3>2 DEF BaseInv
    <3>3. CASE q = r
      <4>1. ASSUME NEW d \in Dir, NEW m \in 1..n, NEW k \in 1..(n + 1), m < k
            PROVE  base'[r][m][d] + Staged(G(m), d) <= base'[r][k][d]
        <5>1. m \in 1..(entered[r] + 1) /\ n \in 1..(entered[r] + 1)
          BY <1>1
        <5> PICK bm \in Nat, bn \in Nat : bm = base[r][m][d] /\ bn = base[r][n][d]
          BY <1>2, <5>1, BaseTyped
        <5>2. m \in 1..Calls
          BY <1>1, <1>5
        <5> PICK sm \in Nat, sn \in Nat : sm = Staged(G(m), d) /\ sn = Staged(G(n), d)
          BY <1>1, <1>2, <5>2, StepsInArea
        <5>3. base'[r][m][d] = bm
          BY <1>3
        <5>4. CASE k \in 1..n
          <6>1. m \in 1..entered[r] /\ k \in 1..(entered[r] + 1)
            BY <1>1, <4>1, <5>4
          <6>2. base[r][m][d] + Staged(G(m), d) <= base[r][k][d]
            BY <1>2, <4>1, <6>1, BasesGrow
          <6> QED BY <1>3, <5>4, <6>2
        <5>5. CASE k = n + 1 /\ m = n
          BY <1>3, <5>3, <5>5
        <5>6. CASE k = n + 1 /\ m # n
          <6>1. m \in 1..entered[r] /\ m < n
            BY <1>1, <5>6, SMTT(40)
          <6>2. bm + sm <= bn
            BY <1>2, <5>1, <6>1, BasesGrow
          <6>3. base'[r][k][d] = bn + sn
            BY <1>3, <5>6
          <6>4. bm + sm <= bn + sn
            BY <6>2
          <6> QED BY <5>3, <6>3, <6>4
        <5>7. k \in 1..n \/ k = n + 1
          BY <1>1
        <5> QED BY <5>4, <5>5, <5>6, <5>7
      <4> QED BY <1>1, <1>3, <3>1, <3>3, <4>1 DEF BaseInv
    <3> QED BY <3>2, <3>3
  <2> QED BY <2>1 DEF BasesInv
<1>11. CursorsInv'
  <2>1. ASSUME NEW q \in Rank, NEW f \in Dir PROVE CursorInv(q, f)'
    <3>1. CursorInv(q, f)
      BY <1>2 DEF CursorsInv
    <3> PICK c \in Nat, t \in Nat : c = post[q][f].call /\ t = post[q][f].step
      BY <1>2, Cursors
    <3>2. c <= entered[q] + 1 /\ (c = entered[q] + 1 => t = 0)
      BY <3>1 DEF CursorInv
    <3>3. c <= entered'[q] + 1 /\ (c = entered'[q] + 1 => t = 0)
      BY <1>1, <1>7, <3>2
    <3> QED BY <1>1, <3>1, <3>3, PlanStays DEF CursorInv
  <2> QED BY <2>1 DEF CursorsInv
<1>12. \A q \in Rank, f \in Dir : SendDone(q, f)' = SendDone(q, f)
  <2> SUFFICES ASSUME NEW q \in Rank, NEW f \in Dir PROVE SendDone(q, f)' = SendDone(q, f)
    OBVIOUS
  <2> PICK at : at = nic[q][f]
    OBVIOUS
  <2>1. base'[q][at.call] = base[q][at.call]
    <3>1. CASE q # r
      BY <1>3, <3>1
    <3>2. CASE q = r
      <4>1. CursorInv(r, f)
        BY <1>2 DEF CursorsInv
      <4>2. at.call \in 1..n
        BY <1>1, <1>2, <1>5, <3>2, <4>1, Cursors, SMTT(40) DEF CursorInv, CursorOK
      <4> QED BY <1>3, <3>2, <4>2
    <3> QED BY <3>1, <3>2
  <2>2. Calls' = Calls /\ G(at.call)' = G(at.call) /\ nic'[q][f] = at
    BY <1>1, PlanStays
  <2>3. SendDone(q, f) = IF at.call > Calls THEN base[q][at.call][f]
                         ELSE base[q][at.call][f] + SentOf(at.step, Staged(G(at.call), f))
    BY DEF SendDone, SentOf
  <2>4. SendDone(q, f)' = IF at.call > Calls THEN base'[q][at.call][f]
                          ELSE base'[q][at.call][f] + SentOf(at.step, Staged(G(at.call), f))
    BY <2>2 DEF SendDone, SentOf
  <2> QED BY <2>1, <2>3, <2>4
<1>13. PostsInv'
  <2>1. ASSUME NEW q \in Rank, NEW f \in Dir, NEW m \in 1..Calls, NEW t \in CallSteps(m, f)
        PROVE  PostInv(q, f, m, t)'
    <3>1. PostInv(q, f, m, t)
      BY <1>2 DEF PostsInv
    <3>2. t < Staged(G(m), f) => (Worked(q, m, StageKind(f), t)' <=> Worked(q, m, StageKind(f), t))
      <4>1. Staged(G(m), f) \in Nat /\ Steps(G(m), f) \in Nat
        BY <1>2, StepsInArea
      <4>2. t < Staged(G(m), f) => t \in StageSteps(m, f)
        BY <4>1 DEF StageSteps, CallSteps
      <4> QED BY <1>6, <4>2
    <3> QED BY <1>1, <3>1, <3>2, PlanStays DEF PostInv
  <2> QED BY <1>1, <2>1, PlanStays DEF PostsInv
<1>14. StagesInv'
  <2>1. ASSUME NEW q \in Rank, NEW f \in Dir PROVE WordsInv(q, f)'
    <3>1. WordsInv(q, f) /\ Slots' = Slots
      BY <1>1, <1>2, PlanStays DEF StagesInv
    <3>2. CASE q # r
      BY <1>1, <1>3, <3>1, <3>2 DEF WordsInv
    <3>3. CASE q = r
      <4> SUFFICES ASSUME NEW k \in Slots PROVE ready[r][f][k] <= base'[r][n + 1][f]
        BY <1>1, <3>1, <3>3 DEF WordsInv
      <4>1. ready[r][f][k] <= base[r][n][f]
        BY <3>1, <3>3 DEF WordsInv
      <4>2. ready[r][f][k] \in Nat
        BY <1>2 DEF RingTypeOK
      <4>3. n \in 1..(entered[r] + 1)
        BY <1>1
      <4> PICK a \in Nat, b \in Nat, x \in Nat :
            a = ready[r][f][k] /\ b = base[r][n][f] /\ x = Staged(G(n), f)
        BY <1>1, <1>2, <4>2, <4>3, BaseTyped, StepsInArea
      <4>4. a <= b + x
        BY <4>1
      <4> QED BY <1>3, <4>4
    <3> QED BY <3>2, <3>3
  <2>2. ASSUME NEW q \in Rank, NEW f \in Dir, NEW m \in 1..entered'[q], NEW l \in StageSteps(m, f)
        PROVE  StageInv(q, f, m, l)'
    <3>1. m \in 1..Calls
      <4>1. entered'[q] \in Nat /\ entered'[q] <= Calls
        BY <1>1, <1>7
      <4> QED BY <1>5, <4>1
    <3>2. Worked(q, m, StageKind(f), l)' <=> Worked(q, m, StageKind(f), l)
      BY <1>6, <3>1
    <3>3. CASE base'[q][m] = base[q][m] /\ m \in 1..entered[q]
      <4>1. StageInv(q, f, m, l)
        BY <1>2, <3>3 DEF StagesInv
      <4> QED BY <1>1, <1>12, <3>2, <3>3, <4>1, PlanStays, SMTT(40) DEF StageInv
    <3>4. CASE q = r /\ m = n
      <4>1. ~Worked(q, m, StageKind(f), l)'
        BY <1>1, <3>4 DEF Worked
      <4>9. PICK k : k = (base[r][n][f] + l) % scenario.nslot
        OBVIOUS
      <4>2. n \in 1..(entered[r] + 1)
        BY <1>1
      <4> PICK b \in Nat, x \in Nat : b = base[r][n][f] /\ x = Staged(G(n), f)
        BY <1>1, <1>2, <4>2, BaseTyped, StepsInArea
      <4>3. l \in Nat
        BY <3>4 DEF StageSteps
      <4>4. k \in Slots
        <5>1. PICK N \in Nat \ {0}, z \in Nat : N = scenario.nslot /\ z = b + l
          BY <1>2, <4>3, CallsNat
        <5>2. z % N \in 0..(N - 1)
          BY ModIn, SMTT(40)
        <5> QED BY <4>9, <5>1, <5>2 DEF Slots
      <4>5. ready[r][f][k] <= b
        BY <1>1, <1>2, <4>4 DEF StagesInv, WordsInv
      <4>6. ready[r][f][k] \in Nat
        BY <1>2, <4>4 DEF RingTypeOK
      <4>7. ready[r][f][k] # b + l + 1
        BY <4>3, <4>5, <4>6
      <4>8. base'[q][m][f] = b
        BY <1>1, <1>3, <3>4
      <4> QED BY <1>1, <3>4, <4>1, <4>7, <4>8, <4>9 DEF StageInv
    <3>5. (base'[q][m] = base[q][m] /\ m \in 1..entered[q]) \/ (q = r /\ m = n)
      <4>1. CASE q # r
        BY <1>1, <1>3, <4>1
      <4>2. CASE q = r
        <5>1. m \in 1..n
          BY <1>1, <4>2
        <5>2. CASE m = n
          BY <4>2, <5>2
        <5>3. CASE m # n
          <6>1. m \in 1..(n - 1)
            BY <1>1, <5>1, <5>3
          <6>2. base'[r][m] = base[r][m]
            BY <1>3, <5>1
          <6> QED BY <1>1, <4>2, <6>1, <6>2
        <5> QED BY <5>2, <5>3
      <4> QED BY <4>1, <4>2
    <3> QED BY <3>3, <3>4, <3>5
  <2>3. \A m, f : StageSteps(m, f)' = StageSteps(m, f)
    BY <1>1, PlanStays
  <2> QED BY <2>1, <2>2, <2>3 DEF StagesInv
<1>15. DepsInv'
  <2>1. ASSUME NEW q \in Rank, NEW m \in 1..Calls, NEW kind, NEW j, IsItem(G(m), kind, j)
        PROVE  DepInv(q, m, kind, j)'
    <3>1. DepInv(q, m, kind, j) /\ (Worked(q, m, kind, j)' <=> Worked(q, m, kind, j))
      BY <1>2, <1>4, <2>1 DEF DepsInv
    <3> QED BY <1>1, <3>1, PlanStays DEF DepInv
  <2> QED BY <1>1, <2>1, PlanStays DEF DepsInv
<1>16. FlagsInv'
  BY <1>1, <1>2, PlanStays DEF FlagsInv, FlagInv
<1>17. LandsInv'
  BY <1>1, <1>2, PlanStays DEF LandsInv, LandInv
<1>18. OutsInv'
  <2>1. ASSUME NEW q \in Rank PROVE OutInv(q)'
    <3>1. CASE q = r
      <4>1. DOMAIN <<>> = {} /\ <<>> = Answer(n, {})
        BY DEF Answer
      <4>2. Answer(n, {})' = Answer(n, {})
        BY <1>1, PlanStays
      <4> QED BY <1>1, <3>1, <4>1, <4>2 DEF OutInv
    <3>2. CASE q # r
      <4> PICK m : m = entered[q]
        OBVIOUS
      <4>1. /\ Area(q, m)' = Area(q, m) /\ \A E : Answer(m, E)' = Answer(m, E)
            /\ \A l : Item(m, l)' = Item(m, l)
            /\ \A k1, l : Target(q, m, k1, l)' = Target(q, m, k1, l)
        BY <1>1, PlanStays
      <4>2. OutInv(q) /\ out'[q] = out[q] /\ done'[q] = done[q] /\ entered'[q] = m
        BY <1>1, <1>2, <3>2 DEF OutsInv
      <4> QED BY <4>1, <4>2 DEF OutInv
    <3> QED BY <3>1, <3>2
  <2> QED BY <2>1 DEF OutsInv
<1> QED BY <1>8, <1>9, <1>10, <1>11, <1>13, <1>14, <1>15, <1>16, <1>17, <1>18 DEF CoreInv

-----------------------------------------------------------------------------
(***************************************************************************)
(* The whole ring.                                                         *)
(*                                                                         *)
(* As long as no wait has given up nobody fails, and a rank closes only    *)
(* when its neighbours have everything (HealthInv).                        *)
(***************************************************************************)

\* Before the first call nothing is worked, posted or sent.
LEMMA RingStarts == RingInit => RingInv
<1> SUFFICES ASSUME RingInit PROVE RingInv
  OBVIOUS
<1> PICK C, S : C = [Dir -> Nat] /\ S = [call : Nat, step : Nat]
  OBVIOUS
<1>1. /\ scenario \in Scenarios
      /\ entered = [p \in Rank |-> 0] /\ left = [p \in Rank |-> 0]
      /\ done = [r \in Rank |-> {}]
      /\ base = [r \in Rank |-> <<[d \in Dir |-> 0]>>]
      /\ slot = [r \in Rank |-> [d \in Dir |-> [k \in Slots |-> Empty]]]
      /\ ready = [r \in Rank |-> [d \in Dir |-> [k \in Slots |-> 0]]]
      /\ post = [r \in Rank |-> [d \in Dir |-> [call |-> 1, step |-> 0]]]
      /\ nic = post
      /\ recv = [r \in Rank |-> [p \in {0, 1} |-> [d \in Dir |-> [s \in Cells |-> Empty]]]]
      /\ flag = [r \in Rank |-> [p \in {0, 1} |-> [d \in Dir |-> [s \in Cells |-> 0]]]]
      /\ out = [r \in Rank |-> <<>>]
      /\ poison = [r \in Rank |-> 0] /\ failed = [r \in Rank |-> FALSE]
      /\ alive = [r \in Rank |-> TRUE]
  BY PartyAssumption DEF RingInit, LockstepInit, Slots, Cells
<1>2. Calls \in Nat
  BY <1>1, CallsNat
<1>3. \A r \in Rank, d \in Dir :
        /\ entered[r] = 0 /\ left[r] = 0 /\ done[r] = {}
        /\ post[r][d] = [call |-> 1, step |-> 0] /\ nic[r][d] = [call |-> 1, step |-> 0]
        /\ Len(base[r]) = 1 /\ base[r][1][d] = 0
  BY <1>1
<1>4. \A r \in Rank, d \in Dir : nic[r][d].call = 1 /\ nic[r][d].step = 0
                                 /\ post[r][d].call = 1 /\ post[r][d].step = 0
  BY <1>3
<1>5. RingTypeOK
  <2>1. base \in [Rank -> Seq([Dir -> Nat])]
    <3>1. [d \in Dir |-> 0] \in [Dir -> Nat]
      OBVIOUS
    <3>2. <<[d \in Dir |-> 0]>> \in Seq([Dir -> Nat])
      BY <3>1
    <3> QED BY <1>1, <3>2
  <2>2. slot \in [Rank -> [Dir -> [Slots -> Chunk]]] /\ recv \in [Rank -> [{0, 1} -> [Dir -> [Cells -> Chunk]]]]
    <3> HIDE DEF Chunk
    <3>1. slot \in [Rank -> [Dir -> [Slots -> Chunk]]]
      BY <1>1, EmptyIs
    <3>2. recv \in [Rank -> [{0, 1} -> [Dir -> [Cells -> Chunk]]]]
      BY <1>1, EmptyIs
    <3> QED BY <3>1, <3>2
  <2>3. ready \in [Rank -> [Dir -> [Slots -> Nat]]] /\ flag \in [Rank -> [{0, 1} -> [Dir -> [Cells -> Nat]]]]
    BY <1>1
  <2>4. post \in [Rank -> [Dir -> [call : Nat, step : Nat]]] /\ nic \in [Rank -> [Dir -> [call : Nat, step : Nat]]]
    BY <1>1
  <2>5. /\ entered \in [Rank -> Nat] /\ left \in [Rank -> Nat] /\ done \in [Rank -> SUBSET Nat]
        /\ DOMAIN out = Rank
    BY <1>1
  <2> QED BY <1>1, <2>1, <2>2, <2>3, <2>4, <2>5 DEF RingTypeOK
<1>6. KernelsInv
  <2>1. ASSUME NEW r \in Rank PROVE KernelInv(r)
    <3>1. left[r] = 0 /\ entered[r] = 0
      BY <1>3, DirsAre
    <3> QED BY <1>2, <3>1 DEF KernelInv
  <2> QED BY <2>1 DEF KernelsInv
<1>7. BasesInv
  <2>1. ASSUME NEW r \in Rank PROVE BaseInv(r)
    <3>1. Len(base[r]) = 1 /\ entered[r] = 0
      BY <1>3, DirsAre
    <3> QED BY <3>1 DEF BaseInv
  <2> QED BY <2>1 DEF BasesInv
<1>8. CursorsInv
  <2>1. ASSUME NEW r \in Rank, NEW d \in Dir PROVE CursorInv(r, d)
    <3>1. 1 <= Calls => 0 < Steps(G(1), d)
      BY <1>1, <1>2, StepsInArea
    <3> QED BY <1>2, <1>3, <1>4, <3>1 DEF CursorInv, CursorOK
  <2> QED BY <2>1 DEF CursorsInv
<1>9. \A r \in Rank, d \in Dir, n \in 1..Calls : \A s \in CallSteps(n, d) :
        ~Past(nic[r][d], n, s) /\ ~Past(post[r][d], n, s)
  <2> SUFFICES ASSUME NEW r \in Rank, NEW d \in Dir, NEW n \in 1..Calls, NEW s \in CallSteps(n, d)
               PROVE  ~Past(nic[r][d], n, s) /\ ~Past(post[r][d], n, s)
    OBVIOUS
  <2>1. n \in Nat /\ n >= 1
    BY <1>2
  <2>2. s \in Int /\ s >= 0
    <3>1. Steps(G(n), d) \in Nat
      BY <1>1, StepsInArea
    <3> QED BY <3>1 DEF CallSteps
  <2> QED BY <1>4, <2>1, <2>2 DEF Past
<1>10. PostsInv
  BY <1>9 DEF PostsInv, PostInv
<1>11. StagesInv
  <2>1. ASSUME NEW r \in Rank, NEW d \in Dir PROVE WordsInv(r, d)
    <3>1. \A k \in Slots : ready[r][d][k] = 0
      BY <1>1
    <3>2. base[r][entered[r] + 1][d] = 0
      <4>1. entered[r] = 0 /\ base[r][1][d] = 0
        BY <1>3
      <4> QED BY <4>1
    <3> QED BY <3>1, <3>2 DEF WordsInv
  <2> QED BY <1>3, <2>1 DEF StagesInv
<1>12. DepsInv
  <2>1. ASSUME NEW r \in Rank, NEW n \in 1..Calls, NEW kind, NEW j PROVE ~Worked(r, n, kind, j)
    <3>1. n \in Nat /\ n >= 1
      BY <1>2
    <3>2. entered[r] = 0
      BY <1>3, DirsAre
    <3>3. ~(entered[r] > n) /\ entered[r] # n
      BY <3>1, <3>2
    <3> QED BY <3>3 DEF Worked
  <2> QED BY <2>1 DEF DepsInv, DepInv
<1>13. FlagsInv
  <2>1. \A p \in Rank, d \in Dir, e \in {0, 1}, s \in Cells : flag[p][e][d][s] = 0
    BY <1>1
  <2> QED BY <2>1 DEF FlagsInv, FlagInv
<1>14. LandsInv
  <2>1. \A p \in Rank, d \in Dir : Source(p, d) \in Rank
    BY RanksAround
  <2> QED BY <1>9, <2>1 DEF LandsInv, LandInv
<1>15. OutsInv
  <2>1. ASSUME NEW r \in Rank PROVE ~(entered[r] > 0)
    <3>1. entered[r] = 0
      BY <1>3, DirsAre
    <3> QED BY <3>1
  <2> QED BY <2>1 DEF OutsInv, OutInv
<1>16. HealthTypeOK /\ HealthInv
  BY <1>1 DEF HealthTypeOK, HealthInv
<1> QED BY <1>5, <1>6, <1>7, <1>8, <1>10, <1>11, <1>12, <1>13, <1>14, <1>15, <1>16 DEF RingInv, CoreInv

\* A wait that gives up was in a call.
LEMMA GiveUpIs ==
  ASSUME RingInv, NEW r \in Rank, GiveUp(r)
  PROVE  poison'[r] # 0 /\ poison' \in [Rank -> Nat]
<1>1. RingTypeOK /\ KernelInv(r) /\ poison \in [Rank -> Nat]
  BY DEF RingInv, CoreInv, KernelsInv, HealthTypeOK
<1>2. entered[r] # left[r] /\ poison' = [poison EXCEPT ![r] = entered[r]]
  BY DEF GiveUp, Idle
<1>3. entered[r] \in Nat /\ left[r] \in Nat /\ left[r] <= entered[r]
  BY <1>1 DEF KernelInv, RingTypeOK
<1>4. entered[r] # 0
  BY <1>2, <1>3
<1> QED BY <1>1, <1>2, <1>3, <1>4

\* No write fails when no wait has given up: a rank closes when it has returned
\* from its last call, and for that its neighbours had to send everything.
LEMMA TransferCannotFail ==
  ASSUME RingInv, NEW r \in Rank, NEW d \in Dir, TransferFails(r, d)
  PROVE  \E q \in Rank : poison[q] # 0
<1> SUFFICES ASSUME \A q \in Rank : poison[q] = 0 PROVE FALSE
  OBVIOUS
<1> PICK p, n : p = Neighbour(r, d) /\ n = nic[r][d].call
  OBVIOUS
<1>1. ~alive[p] /\ nic[r][d] # post[r][d]
  BY DEF TransferFails
<1>2. RingTypeOK /\ KernelsInv /\ CursorsInv /\ DepsInv /\ scenario \in Scenarios
  BY DEF RingInv, CoreInv, RingTypeOK
<1>3. p \in Rank /\ Source(p, d) = r
  BY RanksAround
<1>4. left[p] = Calls
  BY <1>1, <1>3 DEF RingInv, HealthInv
<1>5. n \in 1..Calls /\ Calls \in Nat
  BY <1>1, <1>2, NextWrite, CallsNat
<1>6. left[p] >= n
  BY <1>4, <1>5
<1>7. nic[Source(p, d)][d].call > n
  BY <1>2, <1>3, <1>5, <1>6, ReturnedSent
<1> QED BY <1>3, <1>5, <1>7

\* A step of a rank that is alive, and that changes no other's state.
LEMMA HealthStays ==
  ASSUME RingInv, NEW r \in Rank, alive[r], UNCHANGED <<poison, failed, alive>>, UNCHANGED scenario,
         \A q \in Rank : q # r => left'[q] = left[q] /\ post'[q] = post[q] /\ nic'[q] = nic[q]
  PROVE  HealthTypeOK' /\ HealthInv'
<1>1. HealthTypeOK /\ HealthInv
  BY DEF RingInv
<1>2. Calls' = Calls
  BY PlanStays
<1>3. \A q \in Rank : q # r => Quiet(q)' = Quiet(q)
  BY <1>2 DEF Quiet
<1>4. HealthTypeOK'
  BY <1>1 DEF HealthTypeOK
<1>5. HealthInv'
  BY <1>1, <1>2, <1>3 DEF HealthInv
<1> QED BY <1>4, <1>5

\* The steps of a rank, whatever schedule is examined.
LEMMA RingSteps ==
  ASSUME NEW r \in Rank, RingStep(r)
  PROVE  \/ Begin(r) \/ Stop(r) \/ GiveUp(r) \/ Watch(r)
         \/ \E i : WorkItem(r, i)
         \/ \E d \in Dir : Post(r, d) \/ Transfer(r, d) \/ TransferFails(r, d)
<1>1. ASSUME NEW m \in Moves(r),
             \/ m[1] = 0 /\ Begin(r)
             \/ m[1] = 1 /\ WorkItem(r, m[2])
             \/ m[1] = 2 /\ Post(r, m[2])
             \/ m[1] = 3 /\ Transfer(r, m[2])
             \/ m[1] = 4 /\ Stop(r)
      PROVE  Begin(r) \/ (\E i : WorkItem(r, i)) \/ (\E d \in Dir : Post(r, d))
             \/ (\E d \in Dir : Transfer(r, d)) \/ Stop(r)
  <2>1. (m[1] = 2 \/ m[1] = 3) => m[2] \in Dir
    BY DEF Moves
  <2> QED BY <1>1, <2>1
<1>2. (\E m \in Moves(r) :
         \/ m[1] = 0 /\ Begin(r)
         \/ m[1] = 1 /\ WorkItem(r, m[2])
         \/ m[1] = 2 /\ Post(r, m[2])
         \/ m[1] = 3 /\ Transfer(r, m[2])
         \/ m[1] = 4 /\ Stop(r))
      \/ (\E d \in Dir : TransferFails(r, d)) \/ GiveUp(r) \/ Watch(r)
  BY DEF RingStep
<1> QED BY <1>1, <1>2

\* Every step of the ring keeps its invariant.
LEMMA RingKeeps ==
  ASSUME RingInv, NEW r \in Rank, RingStep(r) PROVE RingInv'
<1>1. CoreInv /\ HealthTypeOK /\ HealthInv /\ RingTypeOK
  BY DEF RingInv, CoreInv
<1>2. CASE Begin(r)
  <2>1. /\ alive[r] /\ UNCHANGED <<poison, failed, alive>> /\ UNCHANGED scenario
        /\ left' = left /\ post' = post /\ nic' = nic
    BY <1>2 DEF Begin, CanBegin, healthVars, wireVars
  <2> QED BY <1>1, <1>2, <2>1, BeginKeeps, HealthStays DEF RingInv
<1>3. ASSUME NEW i, WorkItem(r, i) PROVE RingInv'
  <2>1. /\ alive[r] /\ UNCHANGED <<poison, failed, alive>> /\ UNCHANGED scenario
        /\ post' = post /\ nic' = nic
    BY <1>3 DEF WorkItem, CanWork, healthVars, wireVars
  <2>2. \A q \in Rank : q # r => left'[q] = left[q]
    BY <1>1, <1>3, WorkFrame DEF RingTypeOK
  <2>3. CoreInv'
    BY <1>1, <1>3, ItemKeeps
  <2> QED BY <2>1, <2>2, <2>3, HealthStays DEF RingInv
<1>4. ASSUME NEW d \in Dir, Post(r, d) PROVE RingInv'
  <2>1. /\ alive[r] /\ UNCHANGED <<poison, failed, alive>> /\ UNCHANGED scenario
        /\ left' = left /\ nic' = nic
    BY <1>4 DEF Post, CanPost, healthVars, kernelVars, wireVars
  <2>2. \A q \in Rank : q # r => post'[q] = post[q]
    BY <1>1, <1>4 DEF RingTypeOK, Post
  <2>3. CoreInv'
    BY <1>1, <1>4, PostKeeps
  <2> QED BY <2>1, <2>2, <2>3, HealthStays DEF RingInv
<1>5. ASSUME NEW d \in Dir, Transfer(r, d) PROVE RingInv'
  <2>1. /\ alive[r] /\ UNCHANGED <<poison, failed, alive>> /\ UNCHANGED scenario
        /\ left' = left /\ post' = post
    BY <1>5 DEF Transfer, CanTransfer, healthVars, kernelVars
  <2>2. \A q \in Rank : q # r => nic'[q] = nic[q]
    BY <1>1, <1>5 DEF RingTypeOK, Transfer
  <2>3. CoreInv'
    BY <1>1, <1>5, TransferKeeps
  <2> QED BY <2>1, <2>2, <2>3, HealthStays DEF RingInv
<1>6. CASE Stop(r)
  <2>1. /\ Still /\ UNCHANGED <<scenario, left, post, nic>> /\ UNCHANGED scenario
        /\ UNCHANGED <<poison, failed>> /\ alive' = [alive EXCEPT ![r] = FALSE]
        /\ CanStop(r)
    BY <1>6 DEF Stop, Still, kernelVars, wireVars
  <2>2. CoreInv'
    BY <1>1, <2>1, StillKeeps
  <2>3. HealthTypeOK'
    BY <1>1, <2>1 DEF HealthTypeOK
  <2>4. \A q \in Rank : (left[q] = Calls)' = (left[q] = Calls) /\ Quiet(q)' = Quiet(q)
    <3>1. Calls' = Calls
      BY <2>1, PlanStays
    <3> QED BY <2>1, <3>1 DEF Quiet
  <2>5. (\A q \in Rank : poison[q] = 0) => left[r] = Calls /\ Quiet(r)
    <3> SUFFICES ASSUME \A q \in Rank : poison[q] = 0 PROVE left[r] = Calls /\ Quiet(r)
      OBVIOUS
    <3>1. \A q \in Rank : ~alive[q] => ~(left[q] < Calls)
      <4>1. Calls \in Nat
        BY <1>1, CallsNat DEF RingTypeOK
      <4> QED BY <1>1, <4>1 DEF HealthInv
    <3> QED BY <2>1, <3>1 DEF CanStop
  <2>6. HealthInv'
    <3> SUFFICES ASSUME \A q \in Rank : poison[q] = 0, NEW q \in Rank
                 PROVE  ~failed[q] /\ (~alive'[q] => left[q] = Calls /\ Quiet(q))
      BY <2>1, <2>4 DEF HealthInv
    <3>1. CASE q = r
      BY <1>1, <2>5, <3>1 DEF HealthInv
    <3>2. CASE q # r
      <4>1. alive'[q] = alive[q]
        BY <2>1, <3>2
      <4> QED BY <1>1, <4>1 DEF HealthInv
    <3> QED BY <3>1, <3>2
  <2> QED BY <2>2, <2>3, <2>6 DEF RingInv
<1>7. ASSUME NEW d \in Dir, TransferFails(r, d) PROVE RingInv'
  <2>1. Still /\ UNCHANGED <<poison, alive>> /\ failed' = [failed EXCEPT ![r] = TRUE]
    BY <1>7 DEF TransferFails, Still
  <2>2. CoreInv'
    BY <1>1, <2>1, StillKeeps
  <2>3. HealthTypeOK'
    BY <1>1, <2>1 DEF HealthTypeOK
  <2>4. \E q \in Rank : poison[q] # 0
    BY <1>7, TransferCannotFail
  <2>5. HealthInv'
    BY <2>1, <2>4 DEF HealthInv
  <2> QED BY <2>2, <2>3, <2>5 DEF RingInv
<1>8. CASE GiveUp(r)
  <2>1. Still /\ UNCHANGED <<failed, alive>>
    BY <1>8 DEF GiveUp, Still
  <2>2. poison'[r] # 0 /\ poison' \in [Rank -> Nat]
    BY <1>8, GiveUpIs
  <2>3. CoreInv'
    BY <1>1, <2>1, StillKeeps
  <2>4. HealthTypeOK' /\ HealthInv'
    BY <1>1, <2>1, <2>2 DEF HealthTypeOK, HealthInv
  <2> QED BY <2>3, <2>4 DEF RingInv
<1>9. CASE Watch(r)
  <2>1. /\ Still /\ UNCHANGED <<poison, failed>> /\ alive' = [alive EXCEPT ![r] = FALSE]
        /\ failed[r] \/ poison[r] # 0
    BY <1>9 DEF Watch, Still
  <2>2. CoreInv'
    BY <1>1, <2>1, StillKeeps
  <2>3. HealthTypeOK'
    BY <1>1, <2>1 DEF HealthTypeOK
  <2>4. \E q \in Rank : poison[q] # 0
    BY <1>1, <2>1 DEF HealthInv
  <2>5. HealthInv'
    BY <2>1, <2>4 DEF HealthInv
  <2> QED BY <2>2, <2>3, <2>5 DEF RingInv
<1> QED BY <1>2, <1>3, <1>4, <1>5, <1>6, <1>7, <1>8, <1>9, RingSteps

-----------------------------------------------------------------------------
(***************************************************************************)
(* The theorems.                                                           *)
(***************************************************************************)

\* A step of the runtime is a step of the ring or leaves it alone.
LEMMA RuntimeMoves ==
  ASSUME [RuntimeNext]_runtimeVars
  PROVE  (\E r \in Rank : RingStep(r)) \/ UNCHANGED ringVars
<1>1. ASSUME NEW r \in Rank, Construct(r) PROVE UNCHANGED ringVars
  BY <1>1 DEF Construct
<1>2. ASSUME NEW r \in Rank, Operate(r) PROVE RingStep(r)
  BY <1>2 DEF Operate
<1>3. CASE UNCHANGED runtimeVars
  BY <1>3 DEF runtimeVars
<1> QED BY <1>1, <1>2, <1>3 DEF RuntimeNext

\* The invariant of the ring at work, in every scenario: whatever the calls,
\* their sizes, the slots, the CTAs and the order of the steps.
THEOREM RingInvariant == RuntimeSpec => []RingInv
<1>1. RuntimeInit => RingInv
  BY RingStarts DEF RuntimeInit
<1>2. RingInv /\ [RuntimeNext]_runtimeVars => RingInv'
  <2> SUFFICES ASSUME RingInv, [RuntimeNext]_runtimeVars PROVE RingInv'
    OBVIOUS
  <2>1. ASSUME NEW r \in Rank, RingStep(r) PROVE RingInv'
    BY <2>1, RingKeeps
  <2>2. CASE UNCHANGED ringVars
    <3>1. Still /\ UNCHANGED <<scenario, left, post, nic>> /\ UNCHANGED scenario
          /\ UNCHANGED <<poison, failed, alive>>
      BY <2>2 DEF ringVars, Still, kernelVars, wireVars, healthVars
    <3>2. CoreInv' /\ HealthTypeOK'
      BY <3>1, StillKeeps DEF RingInv, HealthTypeOK
    <3>3. Calls' = Calls
      BY <3>1, PlanStays
    <3>4. HealthInv'
      BY <3>1, <3>3 DEF RingInv, HealthInv, Quiet
    <3> QED BY <3>2, <3>4 DEF RingInv
  <2> QED BY <2>1, <2>2, RuntimeMoves
<1>3. RuntimeSpec => RuntimeInit /\ [][RuntimeNext]_runtimeVars
  BY PTL DEF RuntimeSpec
<1> QED BY <1>1, <1>2, <1>3, PTL

\* A kernel that returns has written its whole output, and every chunk of it is
\* right (_prb.cu, prb_sync_kernel): the sums in NCCL's association, and no chunk
\* of another call, block or step.
THEOREM RingOutputRight == RuntimeSpec => []OutputRight
<1>1. RingInv => OutputRight
  <2> SUFFICES ASSUME RingInv, NEW r \in Rank, Idle(r), left[r] > 0
               PROVE  out[r] = [c \in Blocks(r, left[r]) \X (0..(G(left[r]).nc - 1)) |->
                                  Right(left[r], c[1], c[2])]
    BY DEF OutputRight
  <2> PICK n : n = left[r]
    OBVIOUS
  <2>1. RingTypeOK /\ KernelInv(r) /\ OutInv(r) /\ scenario \in Scenarios
    BY DEF RingInv, CoreInv, KernelsInv, OutsInv, RingTypeOK
  <2>2. n = entered[r] /\ n \in 1..Calls
    <3>1. entered[r] = n /\ n \in Nat /\ Calls \in Nat
      BY <2>1, CallsNat DEF Idle, RingTypeOK
    <3>2. n <= Calls /\ n > 0
      BY <2>1, <3>1 DEF KernelInv
    <3> QED BY <3>1, <3>2
  <2>3. done[r] = Indices(n)
    BY <2>1, <2>2 DEF KernelInv
  <2>4. /\ DOMAIN out[r] \subseteq Area(r, n) /\ out[r] = Answer(n, DOMAIN out[r])
        /\ \A i \in done[r] : Target(r, n, Item(n, i).kind, Item(n, i).j) \subseteq DOMAIN out[r]
    BY <2>1, <2>2 DEF OutInv
  <2>5. ASSUME NEW c \in Area(r, n) PROVE c \in DOMAIN out[r]
    <3>1. PICK kind, j : IsItem(G(n), kind, j) /\ c \in Target(r, n, kind, j)
      BY <2>1, <2>2, AreaCovered
    <3>2. PICK i \in Indices(n) : ItemAt(G(n), i).kind = kind /\ ItemAt(G(n), i).j = j
      BY <2>1, <2>2, <3>1, PlanIs, ItemsListed DEF Indices
    <3>3. Item(n, i) = ItemAt(G(n), i)
      BY <2>1, <2>2, ItemOfIs
    <3> QED BY <2>3, <2>4, <3>1, <3>2, <3>3
  <2>6. out[r] = Answer(n, Area(r, n))
    <3>1. DOMAIN out[r] = Area(r, n)
      BY <2>4, <2>5
    <3> QED BY <2>4, <3>1
  <2> QED BY <2>6 DEF Answer, Area
<1> QED BY RingInvariant, <1>1, PTL

\* Nothing is written over before it has been read, although nothing acknowledges
\* a receive area or a slot's reader (_prb.cu, the parities and the staging slots).
THEOREM RingBuffersIntact == RuntimeSpec => []BuffersIntact
<1>1. RingInv => BuffersIntact
  <2> SUFFICES ASSUME RingInv, NEW r \in Rank, NEW d \in Dir, CanTransfer(r, d)
               PROVE  /\ \A m \in 1..(nic[r][d].call - 1) :
                           Parity(m) = Parity(nic[r][d].call) =>
                             /\ left[Neighbour(r, d)] >= m
                             /\ nic[Neighbour(r, d)][d].call > m
                      /\ nic[r][d].step < Staged(G(nic[r][d].call), d) =>
                           LET gi == base[r][nic[r][d].call][d] + nic[r][d].step
                           IN ready[r][d][gi % scenario.nslot] = gi + 1
    BY DEF BuffersIntact, AreaFree, StagedIntact
  <2>1. /\ RingTypeOK /\ KernelsInv /\ CursorsInv /\ DepsInv /\ PostsInv /\ StagesInv /\ FlagsInv
        /\ nic[r][d] # post[r][d]
    BY DEF RingInv, CoreInv, CanTransfer
  <2>2. ASSUME NEW m \in 1..(nic[r][d].call - 1), Parity(m) = Parity(nic[r][d].call)
        PROVE  left[Neighbour(r, d)] >= m /\ nic[Neighbour(r, d)][d].call > m
    BY <2>1, <2>2, WritesLandFree
  <2>3. nic[r][d].step < Staged(G(nic[r][d].call), d) =>
          LET gi == base[r][nic[r][d].call][d] + nic[r][d].step
          IN ready[r][d][gi % scenario.nslot] = gi + 1
    BY <2>1, NextIsThere
  <2> QED BY <2>2, <2>3
<1> QED BY RingInvariant, <1>1, PTL

\* The ranks come into the ring together (ring.py, the votes) and leave it
\* without harm to the others: when one closes after its last call, all that it
\* had to send has landed.
THEOREM RingIsShared == RuntimeSpec => []RingShared
<1>1. RingInv => CloseStrandsNobody
  <2> SUFFICES ASSUME RingInv, NEW r \in Rank, ~alive[r], Calls > 0, \A q \in Rank : poison[q] = 0,
                      NEW d \in Dir, NEW s \in 0..(Steps(G(Calls), d) - 1)
               PROVE  flag[Neighbour(r, d)][Parity(Calls)][d][s] = Calls
    BY DEF CloseStrandsNobody
  <2> PICK p, n : p = Neighbour(r, d) /\ n = Calls
    OBVIOUS
  <2>1. RingTypeOK /\ LandsInv /\ FlagsInv /\ Quiet(r) /\ scenario \in Scenarios
    BY DEF RingInv, CoreInv, HealthInv, RingTypeOK
  <2>2. n \in Nat /\ n \in 1..Calls
    BY <2>1, CallsNat
  <2>3. s \in CallSteps(n, d) /\ s \in Cells /\ Parity(n) \in {0, 1}
    BY <2>1, <2>2, StepsInArea DEF CallSteps, Parity
  <2>4. p \in Rank /\ Source(p, d) = r
    BY RanksAround
  <2>5. nic[r][d].call = n + 1
    BY <2>1 DEF Quiet
  <2>6. Past(nic[r][d], n, s)
    BY <2>2, <2>5 DEF Past
  <2>7. flag[p][Parity(n)][d][s] >= n
    BY <2>1, <2>2, <2>3, <2>4, <2>6 DEF LandsInv, LandInv
  <2>8. FlagInv(p, d, Parity(n), s)
    BY <2>1, <2>3, <2>4 DEF FlagsInv
  <2> PICK m : m = flag[p][Parity(n)][d][s]
    OBVIOUS
  <2>9. m # 0 => m \in 1..n
    BY <2>8 DEF FlagInv
  <2> QED BY <2>2, <2>7, <2>9
<1> QED BY RingInvariant, RingIsCollective, <1>1, PTL DEF RingShared

\* Nobody has the result of a call that somebody has not begun.
LEMMA RingEarly == CoreInv => NoEarlyResult
<1> SUFFICES ASSUME CoreInv, NEW r \in Rank, NEW q \in Rank PROVE left[r] <= entered[q]
  BY PartyAssumption DEF NoEarlyResult
<1>1. RingTypeOK /\ KernelsInv /\ CursorsInv /\ DepsInv /\ PostsInv /\ KernelInv(r)
  BY DEF CoreInv, KernelsInv
<1>2. left[r] \in Nat /\ entered[r] \in Nat /\ entered[q] \in Nat /\ Calls \in Nat
  BY <1>1, CallsNat DEF RingTypeOK
<1>3. CASE left[r] = 0
  BY <1>2, <1>3
<1>4. CASE left[r] # 0
  <2> PICK n : n = left[r]
    OBVIOUS
  <2>1. n \in 1..Calls /\ left[r] >= n
    BY <1>1, <1>2, <1>4 DEF KernelInv
  <2>2. entered[q] >= n
    BY <1>1, <2>1, ReturnedEntered
  <2> QED BY <1>2, <2>2
<1> QED BY <1>3, <1>4

\* The kernel's return is the lockstep's leaving, its beginning the entering.
LEMMA ItemIsLockstep ==
  ASSUME CoreInv, NoEarlyResult', NEW r \in Rank, NEW i, WorkItem(r, i)
  PROVE  LockstepNext \/ UNCHANGED lockstepVars
<1> PICK n : n = entered[r]
  OBVIOUS
<1>1. /\ entered' = entered
      /\ left' = [left EXCEPT ![r] = IF Cardinality(done'[r]) = Items(G(n)) THEN n ELSE left[r]]
  BY WorkFrame
<1>2. left[r] + 1 = n /\ n \in 1..Calls
  BY WorkIs
<1>3. left \in [Rank -> Nat] /\ entered \in [Rank -> Nat]
  BY DEF CoreInv, RingTypeOK
<1>4. CASE ~(Cardinality(done'[r]) = Items(G(n)))
  <2>1. left' = left
    BY <1>1, <1>3, <1>4
  <2> QED BY <1>1, <2>1 DEF lockstepVars
<1>5. CASE Cardinality(done'[r]) = Items(G(n))
  <2>1. left' = [left EXCEPT ![r] = n] /\ left'[r] = n
    BY <1>1, <1>3, <1>5
  <2>2. ASSUME NEW q \in Rank PROVE entered[q] > left[r]
    <3>1. left'[r] <= entered'[q]
      BY PartyAssumption DEF NoEarlyResult
    <3>2. n <= entered[q] /\ entered[q] \in Nat /\ left[r] \in Nat
      BY <1>1, <1>3, <2>1, <3>1
    <3> QED BY <1>2, <3>2
  <2>3. left[r] < entered[r] /\ left' = [left EXCEPT ![r] = left[r] + 1]
    <3>1. left[r] \in Nat /\ n = left[r] + 1 /\ entered[r] = n
      BY <1>2, <1>3
    <3>2. left[r] < entered[r]
      BY <3>1
    <3> QED BY <2>1, <3>1, <3>2
  <2>4. Leave(r)
    BY <1>1, <2>2, <2>3, PartyAssumption DEF Leave
  <2> QED BY <2>4, PartyAssumption DEF LockstepNext
<1> QED BY <1>4, <1>5

\* A step of the ring enters, leaves, or is no step of the lockstep.
LEMMA RingIsLockstep ==
  ASSUME RingInv, NoEarlyResult', NEW r \in Rank, RingStep(r)
  PROVE  LockstepNext \/ UNCHANGED lockstepVars
<1>1. CoreInv
  BY DEF RingInv
<1>2. CASE Begin(r)
  <2>1. entered' = [entered EXCEPT ![r] = entered[r] + 1] /\ left' = left /\ entered[r] = left[r]
    BY <1>2 DEF Begin, CanBegin, Idle
  <2>2. entered[r] < left[r] + Window
    <3>1. left[r] \in Nat
      BY <1>1 DEF CoreInv, RingTypeOK
    <3> QED BY <2>1, <3>1, WindowAssumption
  <2>3. Enter(r)
    BY <2>1, <2>2 DEF Enter
  <2> QED BY <2>3, PartyAssumption DEF LockstepNext
<1>3. ASSUME NEW i, WorkItem(r, i) PROVE LockstepNext \/ UNCHANGED lockstepVars
  BY <1>1, <1>3, ItemIsLockstep
<1>4. ASSUME NEW d \in Dir, Post(r, d) PROVE UNCHANGED lockstepVars
  BY <1>4 DEF Post, kernelVars, lockstepVars
<1>5. ASSUME NEW d \in Dir, Transfer(r, d) PROVE UNCHANGED lockstepVars
  BY <1>5 DEF Transfer, kernelVars, lockstepVars
<1>6. CASE Stop(r)
  BY <1>6 DEF Stop, kernelVars, lockstepVars
<1>7. ASSUME NEW d \in Dir, TransferFails(r, d) PROVE UNCHANGED lockstepVars
  BY <1>7 DEF TransferFails, kernelVars, lockstepVars
<1>8. CASE GiveUp(r)
  BY <1>8 DEF GiveUp, kernelVars, lockstepVars
<1>9. CASE Watch(r)
  BY <1>9 DEF Watch, kernelVars, lockstepVars
<1> QED BY <1>2, <1>3, <1>4, <1>5, <1>6, <1>7, <1>8, <1>9, RingSteps

\* The ring keeps the lockstep that its two receive areas rely on, step by step:
\* a call's beginning enters, its kernel's return leaves, all else is a stutter.
THEOREM RingKeepsLockstep == RuntimeSpec => LockstepSpec
<1>1. RuntimeInit => LockstepInit
  BY DEF RuntimeInit, RingInit
<1>2. RingInv => NoEarlyResult
  BY RingEarly DEF RingInv
<1>3. RingInv /\ NoEarlyResult' /\ [RuntimeNext]_runtimeVars => [LockstepNext]_lockstepVars
  <2> SUFFICES ASSUME RingInv, NoEarlyResult', [RuntimeNext]_runtimeVars
               PROVE  LockstepNext \/ UNCHANGED lockstepVars
    OBVIOUS
  <2>1. ASSUME NEW r \in Rank, RingStep(r) PROVE LockstepNext \/ UNCHANGED lockstepVars
    BY <2>1, RingIsLockstep
  <2>2. UNCHANGED ringVars => UNCHANGED lockstepVars
    BY DEF ringVars, kernelVars, lockstepVars
  <2> QED BY <2>1, <2>2, RuntimeMoves
<1>4. RuntimeSpec => RuntimeInit /\ [][RuntimeNext]_runtimeVars
  BY PTL DEF RuntimeSpec
<1> QED BY RingInvariant, <1>1, <1>2, <1>3, <1>4, PTL DEF LockstepSpec
=============================================================================
