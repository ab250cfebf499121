----------------------------- MODULE StateProofs -----------------------------
(***************************************************************************)
(* The recurrent states of a request, for every block size, window, number *)
(* of exported checkpoints and prompt: the prefix cache never names a      *)
(* state that is not there, and a step always starts from the right one.   *)
(*                                                                         *)
(* Facts about the rules (when a commit may wait, what allocate_slots      *)
(* reserves, what the chunk split returns) come first.  Then what each     *)
(* rule of StateSlots does to the blocks is stated as a relation between   *)
(* the blocks before and after (FreedOf, AllocatedOf, ...), and composed   *)
(* into what a prefill chunk and a verify do (ChunkKeeps, ReadyOf,         *)
(* CommitKeeps, DeferKeeps).  StateInv is the inductive invariant.         *)
(***************************************************************************)
EXTENDS HybridState, FiniteSetTheorems, WellFoundedInduction, TLAPS

\* A larger of two numbers.
LEMMA MaxOfTwo ==
  ASSUME NEW a \in Int, NEW b \in Int
  PROVE  Max({a, b}) = IF a >= b THEN a ELSE b
BY DEF Max

\* Division is what it should be: the quotient and the rest are determined.
LEMMA Divides ==
  ASSUME NEW c \in Nat \ {0}, NEW d \in Nat, NEW r \in 0..c - 1
  PROVE  /\ (d * c + r) \div c = d
         /\ (d * c + r) % c = r
<1> DEFINE a == d * c + r
           q == a \div c
<1>1. a \in Nat
  OBVIOUS
<1>2. q \in Nat /\ c * q <= a /\ a < c * q + c /\ a % c = a - c * q
  BY <1>1
<1>3. ~(q < d)
  <2>1. ASSUME q < d PROVE FALSE
    <3>1. c * (q + 1) <= c * d
      BY <2>1, <1>2
    <3>2. c * (q + 1) = c * q + c
      BY <1>2
    <3>3. QED
      BY <3>1, <3>2, <1>2
  <2>2. QED
    BY <2>1
<1>4. ~(d < q)
  <2>1. ASSUME d < q PROVE FALSE
    <3>1. c * (d + 1) <= c * q
      BY <2>1, <1>2
    <3>2. c * (d + 1) = c * d + c
      OBVIOUS
    <3>3. QED
      BY <3>1, <3>2, <1>2
  <2>2. QED
    BY <2>1
<1>5. q = d
  BY <1>2, <1>3, <1>4
<1>6. QED
  BY <1>2, <1>5

\* A position is a number of whole blocks and a rest.
LEMMA Splits ==
  ASSUME NEW a \in Nat, NEW c \in Nat \ {0}
  PROVE  /\ a \div c \in Nat /\ a % c \in 0..c - 1
         /\ a = (a \div c) * c + (a % c)
OBVIOUS

\* Multiplying keeps the order.
LEMMA TimesKeepsOrder ==
  ASSUME NEW a \in Nat, NEW b \in Nat, NEW c \in Nat, a <= b
  PROVE  a * c <= b * c
OBVIOUS

\* A block has a size, and a verify window fits into one.
LEMMA BlockNat == Block \in Nat \ {0} /\ SpecQueryLen \in 1..Block
BY WindowAssumption DEF SpecQueryLen

\* The block of a position d blocks and r tokens in.
LEMMA CdivIs ==
  ASSUME NEW d \in Nat, NEW r \in 1..Block
  PROVE  Cdiv(d * Block + r) = d + 1
<1>1. d * Block + r + Block - 1 = (d + 1) * Block + (r - 1)
  BY BlockNat
<1>2. r - 1 \in 0..Block - 1
  BY BlockNat
<1>3. QED
  BY <1>1, <1>2, BlockNat, Divides DEF Cdiv

\* The host skip (_glm53_rule1_host_skip) leaves out no commit of rule 1: a row
\* that the host lets pass commits nothing at once, whichever of its drafts are
\* accepted.
THEOREM SkippedRowsWait ==
  ASSUME NEW from \in Nat, NEW q \in Nat, HostSkip(from, q), NEW n \in 1..q
  PROVE  ~CommitsNow(from, from + n)
<1> DEFINE d == from \div Block
           r == from % Block
<1>1. d \in Nat /\ r \in 0..Block - 1 /\ from = d * Block + r
  BY BlockNat, Splits
<1>2. r + n + SpecQueryLen <= Block
  BY <1>1, BlockNat DEF HostSkip
<1>3. from + n = d * Block + (r + n)
  BY <1>1, BlockNat
<1>4. r + n \in 0..Block - 1
  BY <1>1, <1>2, BlockNat
<1>5. (from + n) \div Block = d /\ (from + n) % Block = r + n
  <2>1. /\ (d * Block + (r + n)) \div Block = d
        /\ (d * Block + (r + n)) % Block = r + n
    BY <1>1, <1>4, BlockNat, Divides
  <2>2. QED
    BY <2>1, <1>3
<1>6. QED
  BY <1>1, <1>2, <1>5, BlockNat DEF CommitsNow

\* A commit that rule 1 defers brings the state to a block that the next verify
\* window, however long, cannot leave: the next step copies nothing out of it,
\* and reads the deferred state where it is.
THEOREM DeferredStaysInItsBlock ==
  ASSUME NEW from \in Nat, NEW n \in Nat \ {0}, ~CommitsNow(from, from + n),
         NEW k \in 0..SpecTokens
  PROVE  /\ Cdiv(from + n) = (from \div Block) + 1
         /\ Cdiv(from + n + 1 + k) = Cdiv(from + n)
<1> DEFINE to == from + n
           d == to \div Block
           r == to % Block
<1>0. to \in Nat
  OBVIOUS
<1> HIDE DEF to
<1>1. d \in Nat /\ r \in 0..Block - 1 /\ to = d * Block + r
  BY <1>0, BlockNat, Splits
<1>2. from \div Block \in Nat /\ from \div Block <= d
  <2>0. /\ from \div Block \in Nat /\ from % Block \in 0..Block - 1
        /\ from = (from \div Block) * Block + (from % Block)
    BY BlockNat, Splits
  <2>1. from \div Block \in Nat /\ (from \div Block) * Block <= from
    BY <2>0, BlockNat
  <2>2. ASSUME d < from \div Block PROVE FALSE
    <3>1. (d + 1) * Block <= (from \div Block) * Block
      BY <2>2, <2>1, <1>1, BlockNat, TimesKeepsOrder
    <3>2. (d + 1) * Block = d * Block + Block
      BY <1>1, BlockNat
    <3>3. QED
      BY <3>1, <3>2, <2>1, <1>1, BlockNat DEF to
  <2>3. QED
    BY <2>1, <2>2, <1>1
<1>3. from \div Block = d /\ r + SpecQueryLen <= Block
  BY <1>1, <1>2, BlockNat DEF CommitsNow, to
<1>4. r # 0
  <2>1. SUFFICES ASSUME r = 0 PROVE FALSE
    OBVIOUS
  <2>2. from = d * Block + (from % Block) /\ from % Block \in 0..Block - 1
    BY <1>3, BlockNat, Splits
  <2>3. QED
    BY <2>1, <2>2, <1>1, BlockNat DEF to
<1>5. r \in 1..Block /\ r + 1 + k \in 1..Block
  BY <1>1, <1>3, <1>4, WindowAssumption, SMTT(30) DEF SpecQueryLen
<1>6. to + 1 + k = d * Block + (r + 1 + k)
  BY <1>1, WindowAssumption
<1>7. Cdiv(to) = d + 1 /\ Cdiv(to + 1 + k) = d + 1
  BY <1>1, <1>5, <1>6, CdivIs
<1>8. QED
  BY <1>3, <1>7 DEF to

\* The blocks that allocate_slots sets aside before the allocation
\* (get_num_blocks_to_allocate) are enough for what allocate_new_blocks takes,
\* whatever the plan exports and whether or not a partial tail is copied: the
\* pool is never asked for a block that was not counted.
THEOREM ReservationCovers ==
  ASSUME NEW s, Len(s.blocks) \in Nat, s.tail \in Nat,
         NEW exports, IsFiniteSet(exports), NEW end \in Nat
  PROVE  Drawn(s, exports, end) <= Reserved(s, exports, end)
<1> DEFINE c == Cdiv(end)
           n == Len(s.blocks)
           tail == IF s.tail > 0 THEN 1 ELSE 0
           real == {i \in n + 1..c : i = c \/ \E p \in exports : Cdiv(p) = i}
           out == {Cdiv(p) : p \in exports}
<1>1. c \in Nat
  BY BlockNat DEF Cdiv
<1>2. IsFiniteSet(out) /\ Cardinality(out) <= Cardinality(exports)
  <2>1. [p \in exports |-> Cdiv(p)] \in Surjection(exports, out)
    BY DEF Surjection
  <2>2. QED
    BY <2>1, FS_Surjection
<1>3. Cardinality(exports) \in Nat /\ Cardinality(out) \in Nat
  BY <1>2, FS_CardinalityType
<1>4. /\ IsFiniteSet(out \cup {c})
      /\ Cardinality(out \cup {c}) <= Cardinality(out) + 1
  <2> HIDE DEF out
  <2>1. /\ IsFiniteSet(out \cup {c})
        /\ Cardinality(out \cup {c}) = IF c \in out THEN Cardinality(out) ELSE Cardinality(out) + 1
    BY <1>2, FS_AddElement
  <2>2. QED
    BY <1>3, <2>1
<1>5. real \subseteq out \cup {c}
  OBVIOUS
<1>6. /\ IsFiniteSet(real) /\ Cardinality(real) \in Nat
      /\ Cardinality(real) <= Cardinality(exports) + 1
  BY <1>2, <1>3, <1>4, <1>5, FS_Subset, FS_CardinalityType
<1>7. Max({c - n, 0}) = IF c - n >= 0 THEN c - n ELSE 0
  BY <1>1, MaxOfTwo
<1>8. CASE ~Allocates(s, end)
  BY <1>1, <1>3, <1>7, <1>8 DEF Drawn, Reserved, Allocates
<1>9. CASE Allocates(s, end)
  <2>1. Drawn(s, exports, end) = Cardinality(real) + tail
    BY <1>9 DEF Drawn
  <2>2. Reserved(s, exports, end) = 1 + tail + Cardinality(exports)
    BY <1>1, <1>7, <1>9 DEF Reserved, Allocates
  <2>3. QED
    BY <1>3, <1>6, <2>1, <2>2
<1>10. QED
  BY <1>8, <1>9

-----------------------------------------------------------------------------
\* Blocks of positions: the arithmetic of cdiv and of whole blocks.

\* The block of a position, from its whole blocks and its rest.
LEMMA CdivOf ==
  ASSUME NEW p \in Nat
  PROVE  /\ p \div Block \in Nat /\ p % Block \in 0..Block - 1
         /\ Cdiv(p) = IF p % Block = 0 THEN p \div Block ELSE p \div Block + 1
         /\ Cdiv(p) \in Nat
<1> PICK d, r : d = p \div Block /\ r = p % Block
  OBVIOUS
<1>1. d \in Nat /\ r \in 0..Block - 1 /\ p = d * Block + r
  BY BlockNat, Splits
<1>2. Cdiv(p) = IF r = 0 THEN d ELSE d + 1
  <2>1. CASE r # 0
    <3>1. r \in 1..Block
      BY <1>1, <2>1, BlockNat
    <3> QED BY <1>1, <2>1, <3>1, CdivIs
  <2>2. CASE r = 0 /\ d = 0
    <3>1. (0 * Block + (Block - 1)) \div Block = 0
      BY BlockNat, Divides
    <3>2. p + Block - 1 = 0 * Block + (Block - 1)
      BY <1>1, <2>2, BlockNat
    <3> QED BY <2>2, <3>1, <3>2 DEF Cdiv
  <2>3. CASE r = 0 /\ d # 0
    <3>1. d - 1 \in Nat /\ Block \in 1..Block
      BY <1>1, <2>3, BlockNat
    <3>2. p = (d - 1) * Block + Block
      BY <1>1, <2>3, BlockNat
    <3>3. Cdiv((d - 1) * Block + Block) = (d - 1) + 1
      BY <3>1, CdivIs
    <3> QED BY <1>1, <2>3, <3>2, <3>3
  <2> QED BY <2>1, <2>2, <2>3
<1> QED BY <1>1, <1>2

\* More tokens have no fewer whole blocks.
LEMMA QuotOrder ==
  ASSUME NEW p \in Nat, NEW q \in Nat, p <= q
  PROVE  p \div Block <= q \div Block
<1> PICK d, r, e, s : d = p \div Block /\ r = p % Block /\ e = q \div Block /\ s = q % Block
  OBVIOUS
<1>1. d \in Nat /\ r \in 0..Block - 1 /\ p = d * Block + r /\ e \in Nat /\ s \in 0..Block - 1
      /\ q = e * Block + s
  BY BlockNat, Splits
<1>2. ASSUME e < d PROVE FALSE
  <2>1. e + 1 \in Nat /\ e + 1 <= d /\ Block \in Nat
    BY <1>1, <1>2, BlockNat
  <2>2. (e + 1) * Block <= d * Block
    BY <1>1, <2>1, TimesKeepsOrder
  <2>3. (e + 1) * Block = e * Block + Block
    BY <1>1, BlockNat
  <2> QED BY <1>1, <2>2, <2>3, BlockNat
<1> QED BY <1>1, <1>2

\* A block more is one more.
LEMMA QuotNext ==
  ASSUME NEW p \in Nat
  PROVE  (p + Block) \div Block = p \div Block + 1 /\ (p + Block) % Block = p % Block
<1> PICK d, r : d = p \div Block /\ r = p % Block
  OBVIOUS
<1>1. d \in Nat /\ r \in 0..Block - 1 /\ p = d * Block + r
  BY BlockNat, Splits
<1>2. p + Block = (d + 1) * Block + r
  BY <1>1, BlockNat
<1>3. PICK e \in Nat : e = d + 1
  BY <1>1
<1>4. (e * Block + r) \div Block = e /\ (e * Block + r) % Block = r
  BY <1>1, BlockNat, Divides
<1> QED BY <1>2, <1>3, <1>4

\* Positions less than a block apart are in the same or the next block.
LEMMA QuotNear ==
  ASSUME NEW p \in Nat, NEW q \in Nat, q <= p + Block
  PROVE  q \div Block <= p \div Block + 1
<1>1. p + Block \in Nat
  BY BlockNat
<1>2. q \div Block <= (p + Block) \div Block
  BY <1>1, QuotOrder
<1> QED BY <1>2, QuotNext

\* Later positions are in later blocks, or the same.
LEMMA CdivOrder ==
  ASSUME NEW p \in Nat, NEW q \in Nat, p <= q
  PROVE  Cdiv(p) <= Cdiv(q)
<1>1. p + Block - 1 \in Nat /\ q + Block - 1 \in Nat /\ p + Block - 1 <= q + Block - 1
  BY BlockNat
<1> QED BY <1>1, QuotOrder DEF Cdiv

\* Positions less than a block apart: the later one is at most one block on,
\* which is why a verify window needs at most one block beyond the running one.
LEMMA CdivNear ==
  ASSUME NEW p \in Nat, NEW q \in Nat, q <= p + Block
  PROVE  Cdiv(q) <= Cdiv(p) + 1
<1>1. p + Block - 1 \in Nat /\ q + Block - 1 \in Nat /\ q + Block - 1 <= (p + Block - 1) + Block
  BY BlockNat
<1> QED BY <1>1, QuotNear DEF Cdiv

\* What comes after a whole number of blocks is in a later one.
LEMMA CdivAfter ==
  ASSUME NEW p \in Nat, NEW q \in Nat, p < q, p % Block = 0
  PROVE  Cdiv(p) < Cdiv(q) /\ Cdiv(p) = p \div Block
<1>1. Cdiv(p) = p \div Block /\ p \div Block \in Nat /\ Cdiv(q) \in Nat
  BY CdivOf
<1>2. CASE q % Block # 0
  BY <1>1, <1>2, CdivOf, QuotOrder
<1>3. CASE q % Block = 0
  <2> PICK d, e : d = p \div Block /\ e = q \div Block
    OBVIOUS
  <2>1. d \in Nat /\ e \in Nat /\ d <= e
    BY CdivOf, QuotOrder
  <2>2. p = d * Block /\ q = e * Block
    BY <1>3, BlockNat, Splits
  <2>3. d # e
    BY <2>2
  <2> QED BY <1>1, <1>3, <2>1, <2>3, CdivOf
<1> QED BY <1>2, <1>3

\* A number of whole blocks.
LEMMA WholeBlocks ==
  ASSUME NEW i \in Nat
  PROVE  i * Block \in Nat /\ (i * Block) \div Block = i /\ (i * Block) % Block = 0 /\ Cdiv(i * Block) = i
<1>1. i * Block \in Nat /\ i * Block + 0 = i * Block /\ 0 \in 0..Block - 1
  BY BlockNat
<1>2. (i * Block + 0) \div Block = i /\ (i * Block + 0) % Block = 0
  BY <1>1, BlockNat, Divides
<1> QED BY <1>1, <1>2, CdivOf

\* A position without rest is its whole blocks.
LEMMA WholeIs ==
  ASSUME NEW p \in Nat, p % Block = 0
  PROVE  p = (p \div Block) * Block /\ p = Cdiv(p) * Block /\ Cdiv(p) = p \div Block
<1> PICK d : d = p \div Block
  OBVIOUS
<1>1. d \in Nat /\ p = d * Block + (p % Block)
  BY BlockNat, Splits
<1>2. p = d * Block
  BY <1>1, BlockNat
<1>3. Cdiv(p) = p \div Block
  BY CdivOf
<1> QED BY <1>2, <1>3

\* Blocks that end before a position.
LEMMA EndsBefore ==
  ASSUME NEW i \in Nat, NEW p \in Nat
  PROVE  i <= p \div Block <=> i * Block <= p
<1>1. i * Block \in Nat /\ (i * Block) \div Block = i
  BY WholeBlocks
<1>2. ASSUME i * Block <= p PROVE i <= p \div Block
  BY <1>1, <1>2, QuotOrder
<1>3. ASSUME i <= p \div Block PROVE i * Block <= p
  <2> PICK d, r : d = p \div Block /\ r = p % Block
    OBVIOUS
  <2>1. d \in Nat /\ r \in Nat /\ p = d * Block + r /\ Block \in Nat
    BY BlockNat, Splits
  <2>2. i * Block <= d * Block
    BY <1>3, <2>1, TimesKeepsOrder
  <2> QED BY <1>1, <2>1, <2>2
<1> QED BY <1>2, <1>3

-----------------------------------------------------------------------------
\* Least elements, and the boundaries that a prompt has.

\* A set of numbers has a least one.
LEMMA LeastExists ==
  ASSUME NEW T, T \subseteq Nat, T # {}
  PROVE  \E x \in T : \A y \in T : x <= y
<1>1. PICK x \in T : \A y \in T : ~ (<<y, x>> \in OpToRel(<, Nat))
  BY NatLessThanWellFounded, WFMin
<1>2. \A y \in T : ~(y < x)
  BY <1>1 DEF OpToRel
<1> QED BY <1>2

\* min() of a set that is not empty is its least element.
LEMMA MinIs ==
  ASSUME NEW T, T \subseteq Nat, T # {}
  PROVE  Min(T) \in T /\ Min(T) \in Nat /\ \A y \in T : Min(T) <= y
<1>1. \E x \in T : \A y \in T : x =< y
  BY LeastExists
<1> QED BY <1>1 DEF Min

\* min() of two numbers.
LEMMA MinOfTwo ==
  ASSUME NEW a \in Int, NEW b \in Int
  PROVE  Min({a, b}) = IF a <= b THEN a ELSE b
BY DEF Min

\* The sizes that positions are rounded to (block, hash, tile, EAGLE) are not 0.
LEMMA Units == Block \in Nat \ {0} /\ HashUnit \in Nat \ {0} /\ Tile \in Nat \ {0} /\ EagleUnit \in Nat \ {0}
BY PromptAssumption

\* n // unit * unit.
LEMMA Floors ==
  ASSUME NEW n \in Nat, NEW u \in Nat \ {0}
  PROVE  /\ FloorTo(n, u) \in Nat /\ FloorTo(n, u) <= n /\ n < FloorTo(n, u) + u
         /\ FloorTo(n, u) % u = 0 /\ FloorTo(n, u) = (n \div u) * u
<1> PICK d, r : d = n \div u /\ r = n % u
  OBVIOUS
<1>1. d \in Nat /\ r \in 0..u - 1 /\ n = d * u + r
  BY Splits
<1>2. d * u \in Nat /\ d * u + 0 = d * u /\ 0 \in 0..u - 1
  BY <1>1
<1>3. (d * u + 0) % u = 0
  BY <1>1, <1>2, Divides
<1> QED BY <1>1, <1>2, <1>3 DEF FloorTo

\* A floor of what is not positive is not positive either.
LEMMA FloorsLow ==
  ASSUME NEW n \in Int, NEW u \in Nat \ {0}, n <= 0
  PROVE  FloorTo(n, u) \in Int /\ FloorTo(n, u) <= 0
<1> PICK d, r : d = n \div u /\ r = n % u
  OBVIOUS
<1>1. d \in Int /\ r \in 0..u - 1 /\ n = d * u + r
  OBVIOUS
<1>2. d * u \in Int /\ d * u <= 0
  BY <1>1
<1> QED BY <1>2 DEF FloorTo

\* R(P) is a hash boundary of the prompt, before its end.
LEMMA BoundaryIs ==
  ASSUME NEW p \in Nat \ {0}
  PROVE  /\ ReplayBoundary(p) \in Nat /\ ReplayBoundary(p) % HashUnit = 0 /\ ReplayBoundary(p) < p
         /\ ReplayBoundary(p) + HashUnit <= p - 1 \/ ReplayBoundary(p) = 0
<1> PICK H \in Nat \ {0} : H = HashUnit
  BY Units
<1> PICK n \in Nat : n = p - 1
  OBVIOUS
<1> PICK d, f : d = n \div H /\ f = FloorTo(n, H)
  OBVIOUS
<1>1. f \in Nat /\ f <= n /\ f = d * H /\ d \in Nat
  BY Floors, Splits
<1>9. ReplayBoundary(p) = IF 0 >= f - H THEN 0 ELSE f - H
  BY DEF ReplayBoundary, Most
<1>2. CASE f <= H
  <2>1. 0 % H = 0
    OBVIOUS
  <2>2. ReplayBoundary(p) = 0
    BY <1>1, <1>2, <1>9
  <2> QED BY <2>1, <2>2
<1>3. CASE f > H
  <2>1. d # 0
    BY <1>1, <1>3
  <2>9. d - 1 \in Nat
    BY <1>1, <2>1
  <2>2. PICK e \in Nat : d = e + 1
    <3>1. d = (d - 1) + 1
      BY <1>1
    <3> QED BY <2>9, <3>1
  <2>8. (e + 1) * H = e * H + H /\ e * H \in Nat
    OBVIOUS
  <2>3. f - H = e * H
    BY <1>1, <2>2, <2>8
  <2>5. e * H + 0 = e * H /\ 0 \in 0..H - 1
    BY <2>8
  <2>4. (e * H + 0) % H = 0
    BY <2>5, Divides
  <2>6. ReplayBoundary(p) = f - H
    BY <1>1, <1>3, <1>9
  <2>7. ReplayBoundary(p) % HashUnit = 0
    BY <2>3, <2>4, <2>5, <2>6
  <2> QED BY <1>1, <1>3, <2>6, <2>7
<1> QED BY <1>1, <1>2, <1>3

\* The last cache position is a block boundary before the end.
LEMMA CacheIs ==
  ASSUME NEW t \in Nat \ {0}
  PROVE  LastCachePosition(t) \in Nat /\ LastCachePosition(t) % Block = 0 /\ LastCachePosition(t) < t
<1> PICK E \in Nat \ {0} : E = EagleUnit
  BY Units
<1>1. CASE t - E \in Nat
  <2>1. FloorTo(t - E, Block) \in Nat /\ FloorTo(t - E, Block) <= t - E /\ FloorTo(t - E, Block) % Block = 0
    BY <1>1, Floors, Units
  <2> QED BY <2>1 DEF LastCachePosition, Most
<1>2. CASE ~(t - E \in Nat)
  <2>1. t - E \in Int /\ t - E <= 0
    BY <1>2
  <2>2. FloorTo(t - E, Block) \in Int /\ FloorTo(t - E, Block) <= 0
    BY <2>1, FloorsLow, Units
  <2>3. 0 % Block = 0
    BY Units
  <2> QED BY <2>2, <2>3 DEF LastCachePosition, Most
<1> QED BY <1>1, <1>2

-----------------------------------------------------------------------------
\* The plan of a chunk: where it ends and what it exports.

\* The blocks of two ends differ when the first is a whole number of blocks.
LEMMA WholeApart ==
  ASSUME NEW p \in Nat, NEW q \in Nat, p < q, p % Block = 0
  PROVE  Cdiv(p) # Cdiv(q)
BY CdivAfter, CdivOf

\* The ends of a chunk's plan: every stop before its end is exported, and no two
\* states of the chunk belong in the same block.
Ends(start, end, stops, boundary, e, X) ==
  /\ e \in Nat /\ start < e /\ e <= end
  /\ X = {s \in stops : start < s /\ s < e}
  /\ \A p \in X : (p % Block = 0 \/ p = boundary) /\ (p - start) % Tile = 0
  /\ \A p \in X, q \in X \cup {e} : Cdiv(p) = Cdiv(q) => p = q

\* plan_prefill_chunk: whatever stops and boundary it is given, the chunk ends
\* where Ends says, and the columns of its states differ.
LEMMA PlanIs ==
  ASSUME NEW start \in Nat, NEW end \in Nat, start < end, NEW stops \in SUBSET Nat,
         NEW boundary \in Nat, NEW plan, plan = PlanChunk(start, end, stops, boundary)
  PROVE  Ends(start, end, stops, boundary, plan.end, plan.exports)
<1> DEFINE inside == Inside(start, end, stops)
           exportable(s) == /\ s % Block = 0 \/ s = boundary
                            /\ (s - start) % Tile = 0
                            /\ Cardinality({t \in inside : t < s}) < MaxExports
           stop_at == Min({end} \cup {s \in inside : ~exportable(s)})
           exports == {s \in inside : s < stop_at}
           clash == /\ boundary \in exports
                    /\ \E s \in (exports \ {boundary}) \cup {stop_at} : Column(s) = Column(boundary)
<1>1. plan = IF clash THEN [end |-> boundary, exports |-> {s \in exports : s < boundary}]
             ELSE [end |-> stop_at, exports |-> exports]
  BY DEF PlanChunk
<1>2. inside = {s \in stops : start < s /\ s < end}
  BY DEF Inside
<1> PICK cut : cut = {s \in inside : ~exportable(s)}
  OBVIOUS
<1>3. cut \subseteq inside /\ \A s \in inside : s \notin cut => (s % Block = 0 \/ s = boundary) /\ (s - start) % Tile = 0
  OBVIOUS
<1>4. stop_at = Min({end} \cup cut)
  OBVIOUS
<1> HIDE DEF exportable, inside
<1>5. stop_at \in Nat /\ stop_at \in {end} \cup cut /\ stop_at <= end /\ \A s \in cut : stop_at <= s
  <2>1. {end} \cup cut \subseteq Nat
    BY <1>2, <1>3
  <2> HIDE DEF stop_at
  <2> QED BY <1>4, <2>1, MinIs
<1> HIDE DEF stop_at
<1>6. start < stop_at
  BY <1>2, <1>3, <1>5
<1>7. \A s \in exports : s \in Nat /\ start < s /\ s < stop_at /\ (s % Block = 0 \/ s = boundary) /\ (s - start) % Tile = 0
  <2> SUFFICES ASSUME NEW s \in exports
               PROVE  s \in Nat /\ start < s /\ s < stop_at /\ (s % Block = 0 \/ s = boundary) /\ (s - start) % Tile = 0
    OBVIOUS
  <2>1. s \in inside /\ s \in Nat /\ start < s /\ s < stop_at
    BY <1>2
  <2>2. s \notin cut
    BY <1>5, <2>1
  <2> QED BY <1>3, <2>1, <2>2
<1>8. exports = {s \in stops : start < s /\ s < stop_at}
  <2>1. \A s \in stops : s \in Nat
    OBVIOUS
  <2>2. \A s \in stops : s < stop_at => s < end
    BY <1>5, <2>1
  <2> QED BY <1>2, <2>2
<1> HIDE DEF exports
<1>9. \A s \in Nat : Column(s) = Cdiv(s) - 1 /\ Cdiv(s) \in Nat
  BY CdivOf DEF Column, Cdiv
<1>10. CASE clash
  <2>1. plan.end = boundary /\ plan.exports = {s \in exports : s < boundary}
    BY <1>1, <1>10
  <2>2. boundary \in exports
    BY <1>10
  <2>3. plan.exports = {s \in stops : start < s /\ s < boundary}
    <3>1. boundary < stop_at
      BY <1>8, <2>2
    <3>2. \A s \in stops : s \in Nat /\ (s < boundary => s < stop_at)
      BY <1>5, <3>1
    <3> QED BY <1>8, <2>1, <3>2
  <2>4. \A p \in plan.exports : p \in Nat /\ p < boundary /\ p % Block = 0 /\ (p - start) % Tile = 0
    BY <1>7, <2>1
  <2>5. \A p \in plan.exports, q \in plan.exports \cup {boundary} : Cdiv(p) = Cdiv(q) => p = q
    <3> SUFFICES ASSUME NEW p \in plan.exports, NEW q \in plan.exports \cup {boundary}, p # q
                 PROVE  Cdiv(p) # Cdiv(q)
      OBVIOUS
    <3>1. p \in Nat /\ q \in Nat /\ p % Block = 0 /\ (q < p => q % Block = 0)
      BY <2>4
    <3> QED BY <3>1, WholeApart
  <2>6. boundary \in Nat /\ start < boundary /\ boundary <= end
    BY <1>5, <1>7, <2>2
  <2> QED BY <2>1, <2>3, <2>4, <2>5, <2>6 DEF Ends
<1>11. CASE ~clash
  <2>1. plan.end = stop_at /\ plan.exports = exports
    BY <1>1, <1>11
  <2>2. \A p \in exports, q \in exports \cup {stop_at} : Cdiv(p) = Cdiv(q) => p = q
    <3> SUFFICES ASSUME NEW p \in exports, NEW q \in exports \cup {stop_at}, p # q
                 PROVE  Cdiv(p) # Cdiv(q)
      OBVIOUS
    <3>1. p \in Nat /\ q \in Nat /\ p < stop_at /\ q <= stop_at
      BY <1>5, <1>7
    <3>2. CASE p = boundary
      BY <1>9, <1>11, <3>1, <3>2
    <3>3. CASE q = boundary /\ q \in exports
      BY <1>5, <1>9, <1>11, <3>1, <3>3
    <3>4. CASE p # boundary /\ ~(q = boundary /\ q \in exports)
      <4>1. p % Block = 0 /\ (q < p => q % Block = 0)
        BY <1>7, <3>1, <3>4
      <4> QED BY <3>1, <4>1, WholeApart
    <3> QED BY <3>2, <3>3, <3>4
  <2> QED BY <1>5, <1>6, <1>7, <1>8, <2>1, <2>2 DEF Ends
<1> QED BY <1>10, <1>11

\* The replay flag and the number of exports are of the kind they should be.
LEMMA Ways == ReplayOn \in BOOLEAN /\ MaxExports \in Nat
BY PromptAssumption

\* The stops of a chunk are positions.
LEMMA StopsArePositions ==
  ASSUME NEW start \in Nat, NEW end \in Nat, NEW P \in Nat \ {0}, NEW T \in Nat \ {0}, NEW S \in Nat
  PROVE  /\ Stops(start, end, P, T, S) \subseteq Nat
         /\ CacheStop(P, T) \in Nat /\ CacheStop(P, T) % Block = 0 /\ TailBoundary(P, T) \in Nat
<1>1. CacheStop(P, T) \in Nat /\ CacheStop(P, T) % Block = 0
  <2>1. 0 \in Nat /\ 0 % Block = 0
    BY Units
  <2> QED BY <2>1, CacheIs DEF CacheStop
<1>2. TailBoundary(P, T) \in Nat
  BY BoundaryIs, Floors, Units DEF TailBoundary
<1>3. FloorTo(start, Block) + Block \in Nat
  BY Floors, Units
<1>4. start < S => start + FloorTo(S - start, Block) \in Nat
  <2> HAVE start < S
  <2>1. S - start \in Nat
    OBVIOUS
  <2> QED BY <2>1, Floors, Units
<1> QED BY <1>1, <1>2, <1>3, <1>4 DEF Stops

\* What a step takes of an offer: the chunk from start to e with the states X
\* exported from inside, when b says whether a replay boundary applies.
Taken(start, e, X, b) ==
  /\ e \in Nat /\ start < e /\ X \subseteq Nat
  /\ \A p \in X : start < p /\ p < e
  /\ \A p \in X, q \in X \cup {e} : Cdiv(p) = Cdiv(q) => p = q
  /\ \A p \in X : p % Block = 0 \/ ReplayOn
  /\ X # {} => b \/ start % Block = 0
  /\ ~b /\ start % Block # 0 => e <= FloorTo(start, Block) + Block

\* The end before the stops is inside the offer.
LEMMA AlignedIs ==
  ASSUME NEW start \in Nat, NEW end \in Nat, NEW pe \in Nat
  PROVE  /\ AlignedEnd(start, end, pe, Budget) \in Nat /\ AlignedEnd(start, end, pe, Budget) <= end
         /\ (start < end /\ end >= pe) \/ end >= start + Block => start < AlignedEnd(start, end, pe, Budget)
<1>1. FloorTo(end, Block) \in Nat /\ FloorTo(end, Block) <= end /\ end < FloorTo(end, Block) + Block
  BY Floors, Units
<1> QED BY <1>1, Units DEF AlignedEnd

\* The stop that a replay boundary, or else the last hash boundary, makes.
TailStop(P, T) ==
  IF CacheStop(P, T) < TailBoundary(P, T) /\ TailBoundary(P, T) < P THEN TailBoundary(P, T) ELSE 0

\* _mamba_block_aligned_split: where the chunk ends and what it exports.
Chosen(start, n, P, T, split) ==
  /\ Taken(start, start + split.n, split.exports, HasBoundary(P, T))
  /\ split.n <= n
  /\ \A p \in split.exports : (p % Block = 0 \/ p = ReplayBoundary(P)) /\ (p - start) % Tile = 0
  /\ \A p \in {CacheStop(P, T), TailStop(P, T)} :
       start < p /\ p < start + split.n => p \in split.exports

\* _mamba_block_aligned_split: an offer is taken if its aligned end is beyond
\* the computed tokens, and what is taken is a chunk as Chosen says.
LEMMA SplitIs ==
  ASSUME NEW start \in Nat, NEW n \in Nat \ {0}, NEW P \in Nat \ {0}, NEW T \in Nat \ {0}, NEW S \in Nat,
         start < PrefillEnd(P, T),
         NEW split, split = Split(start, n, P, T, S, Budget)
  PROVE  /\ split.n \in Nat
         /\ start < AlignedEnd(start, start + n, PrefillEnd(P, T), Budget) => split.n > 0
         /\ split.n > 0 => Chosen(start, n, P, T, split)
<1> PICK pe, end, stops, boundary, plan :
      /\ pe = PrefillEnd(P, T) /\ end = AlignedEnd(start, start + n, pe, Budget)
      /\ stops = Stops(start, end, P, T, S)
      /\ boundary = (IF HasBoundary(P, T) THEN ReplayBoundary(P) ELSE 0)
      /\ plan = PlanChunk(start, end, stops, boundary)
  OBVIOUS
<1> PICK low : low = Min({end} \cup Inside(start, end, stops))
  OBVIOUS
<1>1. split = IF MayExport(start, P, T) /\ plan.exports # {}
              THEN [n |-> Most(plan.end - start, 0), exports |-> plan.exports]
              ELSE [n |-> Most(low - start, 0), exports |-> {}]
  <2>1. PrefillEnd(P, T) \in Nat
    BY DEF PrefillEnd, Most
  <2>2. ~(start >= PrefillEnd(P, T))
    BY <2>1
  <2> QED BY <2>2 DEF Split
<1>2. pe \in Nat
  BY DEF PrefillEnd, Most
<1>3. end \in Nat /\ end <= start + n
  BY <1>2, AlignedIs
<1>4. stops \subseteq Nat
  BY <1>3, StopsArePositions
<1>5. boundary \in Nat
  BY BoundaryIs
<1>6. low \in Nat /\ low \in {end} \cup Inside(start, end, stops) /\ low <= end
      /\ \A p \in Inside(start, end, stops) : low <= p
  <2>1. {end} \cup Inside(start, end, stops) \subseteq Nat
    BY <1>3, <1>4 DEF Inside
  <2> QED BY <2>1, MinIs
<1>7. start < end => start < low
  BY <1>6 DEF Inside
<1>8. start < end => Ends(start, end, stops, boundary, plan.end, plan.exports)
  BY <1>3, <1>4, <1>5, PlanIs
<1>9. ~(start < end) => plan.exports = {}
  <2> SUFFICES ASSUME ~(start < end) PROVE plan.exports = {}
    OBVIOUS
  <2>1. Inside(start, end, stops) = {}
    BY <1>3, <1>4 DEF Inside
  <2> QED BY <2>1 DEF PlanChunk
<1>10. {CacheStop(P, T), TailStop(P, T)} \subseteq stops
  BY DEF Stops, TailStop
<1>11. ~HasBoundary(P, T) /\ start % Block # 0 => FloorTo(start, Block) + Block \in stops
  BY DEF Stops
<1>12. FloorTo(start, Block) \in Nat /\ start < FloorTo(start, Block) + Block
  BY Floors, Units
<1>13. CASE MayExport(start, P, T) /\ plan.exports # {}
  <2>1. split = [n |-> Most(plan.end - start, 0), exports |-> plan.exports]
    BY <1>1, <1>13
  <2>2. start < end /\ Ends(start, end, stops, boundary, plan.end, plan.exports)
    BY <1>8, <1>9, <1>13
  <2>3. plan.end \in Nat /\ start < plan.end /\ plan.end <= end
    BY <2>2 DEF Ends
  <2>4. split.n = plan.end - start /\ split.n \in Nat /\ split.n > 0 /\ start + split.n = plan.end
        /\ split.exports = plan.exports
    BY <2>1, <2>3 DEF Most
  <2>5. plan.exports = {s \in stops : start < s /\ s < plan.end}
    BY <2>2 DEF Ends
  <2>6. HasBoundary(P, T) \/ start % Block = 0
    BY <1>13 DEF MayExport
  <2>7. HasBoundary(P, T) => ReplayOn
    BY DEF HasBoundary
  <2>8. \A p \in plan.exports : (p % Block = 0 \/ p = boundary) /\ (p - start) % Tile = 0
    BY <2>2 DEF Ends
  <2>9. \A p \in plan.exports : p # 0 /\ (p % Block = 0 \/ (HasBoundary(P, T) /\ p = ReplayBoundary(P)))
    BY <1>4, <2>5, <2>8
  <2>10. \A p \in plan.exports, q \in plan.exports \cup {plan.end} : Cdiv(p) = Cdiv(q) => p = q
    BY <2>2 DEF Ends
  <2>11. Taken(start, plan.end, plan.exports, HasBoundary(P, T))
    BY <1>4, <2>3, <2>5, <2>6, <2>7, <2>9, <2>10 DEF Taken
  <2>12. Chosen(start, n, P, T, split)
    BY <1>3, <1>10, <2>3, <2>4, <2>5, <2>8, <2>9, <2>11 DEF Chosen
  <2> QED BY <2>4, <2>12
<1>14. CASE ~(MayExport(start, P, T) /\ plan.exports # {})
  <2>1. split = [n |-> Most(low - start, 0), exports |-> {}]
    BY <1>1, <1>14
  <2>2. split.n = Most(low - start, 0) /\ split.exports = {} /\ split.n \in Nat
        /\ (split.n > 0 <=> start < low)
    BY <1>6, <2>1 DEF Most
  <2>3. start < end => split.n > 0
    BY <1>7, <2>2
  <2>4. ASSUME split.n > 0 PROVE Chosen(start, n, P, T, split)
    <3>1. start < low /\ start + split.n = low
      BY <1>6, <2>2, <2>4 DEF Most
    <3>2. start < end
      BY <1>3, <1>6, <3>1
    <3>3. \A s \in stops : start < s => low <= s
      BY <1>3, <1>4, <1>6 DEF Inside
    <3>4. ~HasBoundary(P, T) /\ start % Block # 0 => low <= FloorTo(start, Block) + Block
      BY <1>11, <1>12, <3>3
    <3>5. Taken(start, low, {}, HasBoundary(P, T))
      BY <1>6, <3>1, <3>4 DEF Taken
    <3>6. \A p \in {CacheStop(P, T), TailStop(P, T)} : ~(start < p /\ p < low)
      BY <1>4, <1>6, <1>10, <3>3
    <3> QED BY <1>3, <1>6, <2>2, <3>1, <3>5, <3>6 DEF Chosen
  <2> QED BY <2>2, <2>3, <2>4
<1> QED BY <1>13, <1>14

-----------------------------------------------------------------------------
\* Blocks, and what giving up, allocating and writing do to them.

\* A block, and the blocks of a request.
BlockRec == [holds : Int, label : Nat]
SlotRec  == [blocks : Seq(BlockRec), partial : SUBSET Nat, tail : Nat, cached : Nat,
             last : Nat, pool : SUBSET BlockRec]

\* The parts of a request's state.
LEMMA SlotFields ==
  ASSUME NEW s \in SlotRec
  PROVE  /\ Len(s.blocks) \in Nat /\ DOMAIN s.blocks = 1..Len(s.blocks)
         /\ \A i \in 1..Len(s.blocks) : s.blocks[i] \in BlockRec
                                        /\ s.blocks[i].holds \in Int /\ s.blocks[i].label \in Nat
         /\ s.partial \subseteq Nat /\ s.tail \in Nat /\ s.cached \in Nat /\ s.last \in Nat
         /\ s.pool \subseteq BlockRec
<1>1. s.blocks \in Seq(BlockRec) /\ s.partial \subseteq Nat /\ s.tail \in Nat /\ s.cached \in Nat
      /\ s.last \in Nat /\ s.pool \subseteq BlockRec
  BY DEF SlotRec
<1>2. Len(s.blocks) \in Nat /\ DOMAIN s.blocks = 1..Len(s.blocks)
      /\ \A i \in 1..Len(s.blocks) : s.blocks[i] \in BlockRec
  BY <1>1
<1>3. \A b \in BlockRec : b.holds \in Int /\ b.label \in Nat
  BY DEF BlockRec
<1> QED BY <1>1, <1>2, <1>3

\* The null block and a fresh one are blocks.
LEMMA BlocksRec == NullBlock \in BlockRec /\ Fresh \in BlockRec /\ Junk \in Int
BY DEF NullBlock, Fresh, Junk, BlockRec

\* A sequence given by its elements.
LEMMA Listed ==
  ASSUME NEW n \in Nat, NEW f, NEW D, f \in [1..n -> D]
  PROVE  f \in Seq(D) /\ Len(f) = n /\ DOMAIN f = 1..n
OBVIOUS

\* What giving up the blocks in "is" leaves: null blocks in their place, and
\* those that have a label in the pool, where the cache finds them.
FreedOf(s, is, t) ==
  /\ t \in SlotRec /\ Len(t.blocks) = Len(s.blocks)
  /\ \A i \in 1..Len(s.blocks) : t.blocks[i] = IF i \in is THEN NullBlock ELSE s.blocks[i]
  /\ t.partial = s.partial /\ t.tail = s.tail /\ t.cached = s.cached /\ t.last = s.last
  /\ \A b : b \in t.pool <=> b \in s.pool \/ (b.label > 0 /\ \E i \in is : b = s.blocks[i])

\* Freed gives up blocks as FreedOf says.
LEMMA FreedIs ==
  ASSUME NEW s \in SlotRec, NEW is, is \subseteq 1..Len(s.blocks)
  PROVE  FreedOf(s, is, Freed(s, is))
<1> PICK t : t = Freed(s, is)
  OBVIOUS
<1> SUFFICES FreedOf(s, is, t)
  OBVIOUS
<1> DEFINE f == [i \in DOMAIN s.blocks |-> IF i \in is THEN NullBlock ELSE s.blocks[i]]
           new == {b \in {s.blocks[i] : i \in is} : b.label > 0}
<1>1. f \in [1..Len(s.blocks) -> BlockRec]
  BY SlotFields, BlocksRec
<1>2. f \in Seq(BlockRec) /\ Len(f) = Len(s.blocks) /\ \A i \in 1..Len(s.blocks) : f[i] = IF i \in is THEN NullBlock ELSE s.blocks[i]
  <2>1. \A i \in 1..Len(s.blocks) : f[i] = IF i \in is THEN NullBlock ELSE s.blocks[i]
    BY SlotFields
  <2> HIDE DEF f
  <2> QED BY <1>1, <2>1, SlotFields, Listed
<1>3. new \subseteq BlockRec
  BY SlotFields
<1>4. t = [s EXCEPT !.blocks = f, !.pool = s.pool \cup new]
  BY DEF Freed
<1> HIDE DEF f, new
<1>5. t \in SlotRec /\ t.blocks = f /\ t.partial = s.partial /\ t.tail = s.tail /\ t.cached = s.cached
      /\ t.last = s.last /\ t.pool = s.pool \cup new
  BY <1>2, <1>3, <1>4 DEF SlotRec
<1>6. \A b : b \in t.pool <=> b \in s.pool \/ (b.label > 0 /\ \E i \in is : b = s.blocks[i])
  BY <1>5 DEF new
<1> QED BY <1>2, <1>5, <1>6 DEF FreedOf

\* A block is real unless it holds nothing and has no label.
LEMMA RealIs ==
  ASSUME NEW s \in SlotRec, NEW i \in 1..Len(s.blocks)
  PROVE  Real(s, i) <=> s.blocks[i].holds # 0 \/ s.blocks[i].label # 0
<1>1. s.blocks[i] \in BlockRec /\ i \in DOMAIN s.blocks
  BY SlotFields
<1>2. s.blocks[i] = NullBlock <=> s.blocks[i].holds = 0 /\ s.blocks[i].label = 0
  BY <1>1 DEF BlockRec, NullBlock
<1>3. s.blocks[i].holds \in Int /\ s.blocks[i].label \in Nat
  BY SlotFields
<1> QED BY <1>1, <1>2, <1>3 DEF Real

\* The blocks that a chunk's allocation makes real.
Wanted(X, e, i) == i = Cdiv(e) \/ \E p \in X : Cdiv(p) = i

\* What the allocation for a chunk up to e with the states X leaves: the tail
\* block loses its label to its copy in the pool, new blocks are fresh where a
\* state of the chunk belongs and null elsewhere.
AllocatedOf(s, X, e, t) ==
  /\ t \in SlotRec /\ t.tail = 0 /\ t.partial = s.partial /\ t.cached = s.cached
  /\ Len(t.blocks) = Most(Len(s.blocks), Cdiv(e))
  /\ \A i \in 1..Len(s.blocks) :
       t.blocks[i] = IF i = s.tail THEN [s.blocks[i] EXCEPT !.label = 0] ELSE s.blocks[i]
  /\ \A i \in Len(s.blocks) + 1..Cdiv(e) : t.blocks[i] = IF Wanted(X, e, i) THEN Fresh ELSE NullBlock
  /\ \A b : b \in t.pool <=> b \in s.pool \/ (s.tail # 0 /\ b = s.blocks[s.tail])

\* Allocated (allocate_new_blocks) does what AllocatedOf says.
LEMMA AllocatedIs ==
  ASSUME NEW s \in SlotRec, s.tail <= Len(s.blocks), NEW X, X \subseteq Nat, NEW e \in Nat
  PROVE  AllocatedOf(s, X, e, Allocated(s, X, e))
<1> PICK t : t = Allocated(s, X, e)
  OBVIOUS
<1> SUFFICES AllocatedOf(s, X, e, t)
  OBVIOUS
<1> PICK n \in Nat, c \in Nat : n = Len(s.blocks) /\ c = Cdiv(e)
  BY SlotFields, CdivOf
<1> DEFINE kept == [i \in 1..n |-> IF i = s.tail THEN [s.blocks[i] EXCEPT !.label = 0] ELSE s.blocks[i]]
           real == {c} \cup {Cdiv(p) : p \in X}
           f == [i \in 1..Most(n, c) |-> IF i <= n THEN kept[i] ELSE IF i \in real THEN Fresh ELSE NullBlock]
           new == {s.blocks[i] : i \in {s.tail} \ {0}}
<1>1. CASE ~Allocates(s, e)
  <2>1. t = s /\ s.tail = 0 /\ c <= n
    BY <1>1, SlotFields DEF Allocated, Allocates
  <2>3. \A i \in n + 1..c : FALSE
    BY <2>1
  <2>4. \A i \in 1..n : i # s.tail
    BY <2>1
  <2>6. \A b : b \in t.pool <=> b \in s.pool \/ (s.tail # 0 /\ b = s.blocks[s.tail])
    BY <2>1
  <2>5. Most(n, c) = n
    BY <2>1 DEF Most
  <2> QED BY <2>1, <2>3, <2>4, <2>5, <2>6 DEF AllocatedOf
<1>2. CASE Allocates(s, e)
  <2>1. \A i \in 1..n : kept[i] \in BlockRec
    BY SlotFields DEF BlockRec
  <2>2. Most(n, c) \in Nat /\ Most(n, c) = Max({n, c})
    BY MaxOfTwo DEF Most
  <2>3. f \in [1..Most(n, c) -> BlockRec]
    <3> HIDE DEF kept
    <3> QED BY <2>1, <2>2, BlocksRec
  <2>4. \A i \in 1..Most(n, c) : f[i] = IF i <= n THEN kept[i] ELSE IF i \in real THEN Fresh ELSE NullBlock
    OBVIOUS
  <2>5. t = [s EXCEPT !.blocks = f, !.last = IF n > 0 THEN n ELSE s.last, !.pool = s.pool \cup new, !.tail = 0]
    BY <1>2, <2>2 DEF Allocated
  <2>6. new \subseteq BlockRec
    <3>1. \A i \in {s.tail} \ {0} : i \in 1..Len(s.blocks)
      BY SlotFields
    <3> QED BY <3>1, SlotFields
  <2>7. \A i \in 1..n : kept[i] = IF i = s.tail THEN [s.blocks[i] EXCEPT !.label = 0] ELSE s.blocks[i]
    OBVIOUS
  <2>8. \A i \in n + 1..c : i \in real <=> Wanted(X, e, i)
    BY DEF Wanted
  <2> HIDE DEF f, new, kept, real
  <2>9. f \in Seq(BlockRec) /\ Len(f) = Most(n, c)
    BY <2>2, <2>3, Listed
  <2>10. t \in SlotRec /\ t.blocks = f /\ t.tail = 0 /\ t.partial = s.partial /\ t.cached = s.cached
         /\ t.pool = s.pool \cup new
    <3> PICK l \in Nat : l = IF n > 0 THEN n ELSE s.last
      BY SlotFields
    <3> PICK q \in SUBSET BlockRec : q = s.pool \cup new
      BY <2>6, SlotFields
    <3>1. t = [s EXCEPT !.blocks = f, !.last = l, !.pool = q, !.tail = 0]
      BY <2>5
    <3>2. t.blocks = f /\ t.tail = 0 /\ t.partial = s.partial /\ t.cached = s.cached /\ t.pool = q /\ t.last = l
      BY <3>1 DEF SlotRec
    <3>3. t = [blocks |-> f, partial |-> s.partial, tail |-> 0, cached |-> s.cached, last |-> l, pool |-> q]
      BY <3>1 DEF SlotRec
    <3>4. t \in SlotRec
      BY <2>9, <3>3, SlotFields DEF SlotRec
    <3> QED BY <3>2, <3>4
  <2>11. \A i \in 1..n : f[i] = kept[i]
    BY <2>4 DEF Most
  <2>12. \A i \in n + 1..c : f[i] = IF i \in real THEN Fresh ELSE NullBlock
    BY <2>4 DEF Most
  <2>13. \A i \in 1..n : t.blocks[i] = IF i = s.tail THEN [s.blocks[i] EXCEPT !.label = 0] ELSE s.blocks[i]
    BY <2>7, <2>10, <2>11
  <2>14. \A i \in n + 1..c : t.blocks[i] = IF Wanted(X, e, i) THEN Fresh ELSE NullBlock
    BY <2>8, <2>10, <2>12
  <2>15. \A b : b \in t.pool <=> b \in s.pool \/ (s.tail # 0 /\ b = s.blocks[s.tail])
    BY <2>10 DEF new
  <2> QED BY <2>9, <2>10, <2>13, <2>14, <2>15 DEF AllocatedOf
<1> QED BY <1>1, <1>2 DEF AllocatedOf

\* What a write of state p into block i leaves: nothing but that block changes,
\* and a write to a null block is dropped.
WroteOf(s, i, p, t) ==
  /\ t \in SlotRec /\ Len(t.blocks) = Len(s.blocks)
  /\ t.partial = s.partial /\ t.tail = s.tail /\ t.cached = s.cached /\ t.pool = s.pool
  /\ \A j \in 1..Len(s.blocks) :
       /\ t.blocks[j].label = s.blocks[j].label
       /\ t.blocks[j].holds = IF j = i /\ Real(s, i) THEN p ELSE s.blocks[j].holds

\* Wrote does what WroteOf says.
LEMMA WroteIs ==
  ASSUME NEW s \in SlotRec, NEW i, NEW p \in Int
  PROVE  WroteOf(s, i, p, Wrote(s, i, p))
<1> PICK t : t = Wrote(s, i, p)
  OBVIOUS
<1> SUFFICES WroteOf(s, i, p, t)
  OBVIOUS
<1>1. CASE ~Real(s, i)
  BY <1>1 DEF Wrote, WroteOf
<1>2. CASE Real(s, i)
  <2>1. t = [s EXCEPT !.blocks[i].holds = p] /\ i \in 1..Len(s.blocks)
    BY <1>2, SlotFields DEF Wrote, Real
  <2>2. PICK f : f = [s.blocks EXCEPT ![i].holds = p]
    OBVIOUS
  <2>3. PICK b : b = [s.blocks[i] EXCEPT !.holds = p]
    OBVIOUS
  <2>4. b \in BlockRec /\ b.holds = p /\ b.label = s.blocks[i].label
    BY <2>1, <2>3, SlotFields DEF BlockRec
  <2>5. f = [s.blocks EXCEPT ![i] = b]
    BY <2>2, <2>3
  <2>6. f \in [1..Len(s.blocks) -> BlockRec] /\ f[i] = b /\ \A j \in 1..Len(s.blocks) : j # i => f[j] = s.blocks[j]
    <3>1. s.blocks \in [1..Len(s.blocks) -> BlockRec]
      BY DEF SlotRec
    <3> QED BY <2>1, <2>4, <2>5, <3>1
  <2>7. f \in Seq(BlockRec) /\ Len(f) = Len(s.blocks)
    BY <2>6, SlotFields, Listed
  <2>8. t = [s EXCEPT !.blocks = f]
    BY <2>1, <2>2
  <2>9. t \in SlotRec /\ t.blocks = f /\ t.partial = s.partial /\ t.tail = s.tail /\ t.cached = s.cached
        /\ t.pool = s.pool
    BY <2>7, <2>8 DEF SlotRec
  <2> QED BY <1>2, <2>4, <2>6, <2>7, <2>9 DEF WroteOf
<1> QED BY <1>1, <1>2 DEF WroteOf

\* remove_skipped_blocks gives up blocks before the running one only.
LEMMA SkippedIs ==
  ASSUME NEW s \in SlotRec, NEW c \in Nat
  PROVE  \E is \in SUBSET (1..Len(s.blocks)) :
           (\A i \in is : i < Cdiv(c)) /\ Skipped(s, c) = Freed(s, is)
<1> DEFINE end == Min({Max({c - 1, 0}) \div Block, Len(s.blocks)})
           before == {i \in 1..end : \A j \in i..end : Real(s, j)}
           old == {i \in {s.last} : i < Cdiv(c) /\ Real(s, i)}
<1>1. Skipped(s, c) = Freed(s, before \cup old)
  BY DEF Skipped
<1>2. Max({c - 1, 0}) = IF c = 0 THEN 0 ELSE c - 1
  BY MaxOfTwo
<1>3. Max({c - 1, 0}) \div Block \in Nat /\ (c # 0 => Cdiv(c) = (c - 1) \div Block + 1)
      /\ (c = 0 => Max({c - 1, 0}) \div Block = 0)
  <2>1. CASE c = 0
    <3>1. 0 \div Block = 0
      BY Units
    <3> QED BY <1>2, <2>1, <3>1
  <2>2. CASE c # 0
    <3>1. PICK m \in Nat : m = c - 1
      BY <2>2
    <3>2. c + Block - 1 = m + Block /\ m \div Block \in Nat
      BY <3>1, CdivOf, Units
    <3>3. Cdiv(c) = m \div Block + 1
      BY <3>1, <3>2, QuotNext DEF Cdiv
    <3> QED BY <1>2, <2>2, <3>1, <3>2, <3>3
  <2> QED BY <2>1, <2>2
<1>4. end \in Nat /\ end <= Len(s.blocks) /\ end <= Max({c - 1, 0}) \div Block
  <2>0. PICK m \in Nat, n \in Nat : m = Max({c - 1, 0}) \div Block /\ n = Len(s.blocks)
    BY <1>3, SlotFields
  <2>1. Min({m, n}) = IF m <= n THEN m ELSE n
    BY MinOfTwo
  <2>2. Min({m, n}) \in Nat /\ Min({m, n}) <= m /\ Min({m, n}) <= n
    BY <2>1
  <2> QED BY <2>0, <2>2
<1>5. before \subseteq 1..Len(s.blocks) /\ \A i \in before : i < Cdiv(c)
  <2> SUFFICES ASSUME NEW i \in before PROVE i \in 1..Len(s.blocks) /\ i < Cdiv(c)
    OBVIOUS
  <2>1. i \in 1..end
    OBVIOUS
  <2> HIDE DEF before, end
  <2>2. i \in Nat /\ 1 <= i /\ i <= Len(s.blocks) /\ i <= Max({c - 1, 0}) \div Block /\ Len(s.blocks) \in Nat
    <3> PICK m \in Nat, n \in Nat, z \in Nat : m = Max({c - 1, 0}) \div Block /\ n = Len(s.blocks) /\ z = end
      BY <1>3, <1>4, SlotFields
    <3>1. z <= n /\ z <= m /\ i \in 1..z
      BY <1>4, <2>1
    <3> QED BY <3>1
  <2>3. c # 0
    BY <1>3, <2>2
  <2> QED BY <1>2, <1>3, <2>2, <2>3
<1>6. old \subseteq 1..Len(s.blocks) /\ \A i \in old : i < Cdiv(c)
  BY SlotFields DEF Real
<1> HIDE DEF before, old
<1> QED BY <1>1, <1>5, <1>6

\* The states of a chunk that get a label inside a block.
Inner(n, inside, s) == {p \in {n} \cap inside : p % Block # 0 /\ Real(s, Cdiv(p))}
Marks(s, n, X, inside) == (IF ReplayOn THEN {p \in X : p % Block # 0} ELSE {}) \cup Inner(n, inside, s)

\* What cache_blocks leaves after a chunk up to n: a full block without a short
\* state gets its end as label, a state inside a block gets its own position.
CachedOf(s, n, X, pe, inside, t) ==
  /\ t \in SlotRec /\ Len(t.blocks) = Len(s.blocks)
  /\ t.partial = Short(s, n, X, pe) /\ t.pool = s.pool
  /\ t.tail = IF Inner(n, inside, s) = {} THEN 0 ELSE Cdiv(n)
  /\ t.cached = IF Inner(n, inside, s) = {} THEN Most(s.cached, n \div Block) ELSE n \div Block
  /\ \A i \in 1..Len(s.blocks) : t.blocks[i].holds = s.blocks[i].holds
  /\ \A p \in Marks(s, n, X, inside) :
       Cdiv(p) \in 1..Len(s.blocks) => t.blocks[Cdiv(p)].label = p
  /\ \A i \in 1..Len(s.blocks) :
       (\A p \in Marks(s, n, X, inside) : Cdiv(p) # i) =>
         t.blocks[i].label = IF /\ s.cached + 1 <= i /\ i <= n \div Block
                                /\ Real(s, i) /\ i \notin t.partial
                             THEN i * Block ELSE s.blocks[i].label

\* CachedUpTo (cache_blocks) does what CachedOf says, when the states of the
\* chunk are in different blocks.
LEMMA CachedIs ==
  ASSUME NEW s \in SlotRec, NEW n \in Nat, NEW X, X \subseteq Nat, NEW pe \in Nat, NEW inside, s.tail = 0,
         \A p \in X, q \in X \cup {n} : Cdiv(p) = Cdiv(q) => p = q
  PROVE  CachedOf(s, n, X, pe, inside, CachedUpTo(s, n, X, pe, inside))
<1> PICK t : t = CachedUpTo(s, n, X, pe, inside)
  OBVIOUS
<1> SUFFICES CachedOf(s, n, X, pe, inside, t)
  OBVIOUS
<1> PICK partial, marks, tail, k :
      /\ partial = Short(s, n, X, pe) /\ marks = Marks(s, n, X, inside) /\ tail = Inner(n, inside, s)
      /\ k = n \div Block
  OBVIOUS
<1> DEFINE full == {i \in s.cached + 1..k : Real(s, i) /\ i \notin partial}
           lab(i) == IF \E p \in marks : Cdiv(p) = i
                     THEN CHOOSE p \in marks : Cdiv(p) = i
                     ELSE IF i \in full THEN i * Block ELSE s.blocks[i].label
           label == [i \in DOMAIN s.blocks |-> lab(i)]
           f == [i \in DOMAIN s.blocks |-> [s.blocks[i] EXCEPT !.label = label[i]]]
<1>1. t = [s EXCEPT !.blocks = f, !.partial = partial, !.tail = IF tail = {} THEN s.tail ELSE Cdiv(n),
                    !.cached = IF tail = {} THEN Max({s.cached, k}) ELSE k]
  BY DEF CachedUpTo, Marks, Inner
<1>2. \A p \in marks, q \in marks : Cdiv(p) = Cdiv(q) => p = q
  BY DEF Marks, Inner
<1>3. marks \subseteq Nat
  BY DEF Marks, Inner
<1>4. \A i \in 1..Len(s.blocks) : lab(i) \in Nat
  <2> SUFFICES ASSUME NEW i \in 1..Len(s.blocks) PROVE lab(i) \in Nat
    OBVIOUS
  <2>1. i \in Nat /\ i * Block \in Nat /\ s.blocks[i].label \in Nat
    <3>1. i \in Nat
      BY SlotFields
    <3> QED BY <3>1, SlotFields, WholeBlocks
  <2>2. (\E p \in marks : Cdiv(p) = i) => (CHOOSE p \in marks : Cdiv(p) = i) \in Nat
    BY <1>3
  <2> QED BY <2>1, <2>2
<1>5. \A p \in marks : lab(Cdiv(p)) = p
  BY <1>2
<1>6. \A i \in 1..Len(s.blocks) : (\A p \in marks : Cdiv(p) # i) =>
        lab(i) = IF s.cached + 1 <= i /\ i <= k /\ Real(s, i) /\ i \notin partial
                 THEN i * Block ELSE s.blocks[i].label
  BY CdivOf, SlotFields
<1> HIDE DEF lab
<1>7. \A i \in 1..Len(s.blocks) : label[i] = lab(i)
  BY SlotFields
<1> HIDE DEF label
<1>8. \A i \in 1..Len(s.blocks) : f[i] = [s.blocks[i] EXCEPT !.label = lab(i)]
  BY <1>7, SlotFields
<1>9. \A i \in 1..Len(s.blocks) : f[i] \in BlockRec /\ f[i].holds = s.blocks[i].holds /\ f[i].label = lab(i)
  <2> SUFFICES ASSUME NEW i \in 1..Len(s.blocks)
               PROVE  f[i] \in BlockRec /\ f[i].holds = s.blocks[i].holds /\ f[i].label = lab(i)
    OBVIOUS
  <2>1. PICK b \in {s.blocks[i]}, l \in Nat : b = s.blocks[i] /\ l = lab(i)
    BY <1>4
  <2>2. f[i] = [b EXCEPT !.label = l] /\ b \in BlockRec
    BY <1>8, <2>1, SlotFields
  <2>3. f[i] \in BlockRec /\ f[i].holds = b.holds /\ f[i].label = l
    BY <2>2 DEF BlockRec
  <2> QED BY <2>1, <2>3
<1>10. f \in [1..Len(s.blocks) -> BlockRec]
  BY <1>9, SlotFields
<1> HIDE DEF f
<1>11. f \in Seq(BlockRec) /\ Len(f) = Len(s.blocks)
  BY <1>10, SlotFields, Listed
<1>12. partial \subseteq Nat
  <2>1. s.partial \subseteq Nat /\ \A p \in X \cup {n} : Cdiv(p) \in Nat
    BY CdivOf, SlotFields
  <2>2. Short(s, n, X, pe) \subseteq s.partial \cup {Cdiv(p) : p \in X \cup {n}}
    BY DEF Short
  <2> QED BY <2>1, <2>2
<1>13. Max({s.cached, k}) = Most(s.cached, k) /\ Most(s.cached, k) \in Nat /\ k \in Nat /\ Cdiv(n) \in Nat
  <2>1. k \in Nat /\ Cdiv(n) \in Nat /\ s.cached \in Nat
    BY CdivOf, SlotFields
  <2>2. Max({s.cached, k}) = IF s.cached >= k THEN s.cached ELSE k
    BY <2>1, MaxOfTwo
  <2> QED BY <2>1, <2>2 DEF Most
<1>14. PICK tl \in Nat : tl = IF tail = {} THEN 0 ELSE Cdiv(n)
  BY <1>13
<1>15. PICK cd \in Nat : cd = IF tail = {} THEN Most(s.cached, k) ELSE k
  BY <1>13
<1>16. t = [s EXCEPT !.blocks = f, !.partial = partial, !.tail = tl, !.cached = cd]
  BY <1>1, <1>13, <1>14, <1>15
<1>17. t = [blocks |-> f, partial |-> partial, tail |-> tl, cached |-> cd, last |-> s.last, pool |-> s.pool]
  BY <1>16 DEF SlotRec
<1>18. t \in SlotRec
  BY <1>11, <1>12, <1>17, SlotFields DEF SlotRec
<1>19. t.blocks = f /\ t.partial = partial /\ t.tail = tl /\ t.cached = cd /\ t.pool = s.pool
  BY <1>17
<1>20. \A p \in marks : Cdiv(p) \in 1..Len(s.blocks) => t.blocks[Cdiv(p)].label = p
  BY <1>5, <1>9, <1>19
<1>21. \A i \in 1..Len(s.blocks) : (\A p \in marks : Cdiv(p) # i) =>
         t.blocks[i].label = IF s.cached + 1 <= i /\ i <= k /\ Real(s, i) /\ i \notin partial
                             THEN i * Block ELSE s.blocks[i].label
  BY <1>6, <1>9, <1>19
<1>22. \A i \in 1..Len(s.blocks) : t.blocks[i].holds = s.blocks[i].holds
  BY <1>9, <1>19
<1> QED BY <1>11, <1>14, <1>15, <1>18, <1>19, <1>20, <1>21, <1>22 DEF CachedOf

\* A chunk that starts from the right state writes the right states.
RanOf(s, c, X, e, t) ==
  /\ t \in SlotRec /\ Len(t.blocks) = Len(s.blocks)
  /\ t.partial = s.partial /\ t.pool = s.pool /\ t.tail = s.tail /\ t.cached = s.cached
  /\ \A i \in 1..Len(s.blocks) : t.blocks[i].label = s.blocks[i].label
  /\ \A p \in X \cup {e} :
       Cdiv(p) \in 1..Len(s.blocks) /\ Real(s, Cdiv(p)) => t.blocks[Cdiv(p)].holds = p
  /\ \A i \in 1..Len(s.blocks) :
       ~Real(s, i) \/ (\A p \in X \cup {e} : Cdiv(p) # i) => t.blocks[i].holds = s.blocks[i].holds

\* Ran (the workers) writes each state of the chunk into its own block, provided
\* that it starts from the state of the computed tokens.
LEMMA RanIs ==
  ASSUME NEW s \in SlotRec, NEW c \in Nat, NEW X, X \subseteq Nat, NEW e \in Nat, Running(s, c) = c,
         \A p \in X, q \in X \cup {e} : Cdiv(p) = Cdiv(q) => p = q
  PROVE  RanOf(s, c, X, e, Ran(s, c, X, e))
<1> PICK t : t = Ran(s, c, X, e)
  OBVIOUS
<1> SUFFICES RanOf(s, c, X, e, t)
  OBVIOUS
<1> DEFINE ends == X \cup {e}
           g(i) == IF Real(s, i) /\ \E p \in ends : Cdiv(p) = i
                   THEN [s.blocks[i] EXCEPT !.holds = CHOOSE p \in ends : Cdiv(p) = i]
                   ELSE s.blocks[i]
           f == [i \in DOMAIN s.blocks |-> g(i)]
<1>1. t = [s EXCEPT !.blocks = f]
  BY DEF Ran
<1>2. ends \subseteq Nat /\ \A p \in ends, q \in ends : Cdiv(p) = Cdiv(q) => p = q
  OBVIOUS
<1>3. \A i \in 1..Len(s.blocks) :
        /\ (Real(s, i) /\ \E p \in ends : Cdiv(p) = i) =>
             \E p \in ends : Cdiv(p) = i /\ g(i) = [s.blocks[i] EXCEPT !.holds = p]
        /\ ~(Real(s, i) /\ \E p \in ends : Cdiv(p) = i) => g(i) = s.blocks[i]
  OBVIOUS
<1> HIDE DEF g, ends
<1>4. \A i \in 1..Len(s.blocks) : g(i) \in BlockRec /\ g(i).label = s.blocks[i].label
  BY <1>2, <1>3, SlotFields DEF BlockRec
<1>5. \A p \in ends : Cdiv(p) \in 1..Len(s.blocks) /\ Real(s, Cdiv(p)) => g(Cdiv(p)).holds = p
  <2> SUFFICES ASSUME NEW p \in ends, Cdiv(p) \in 1..Len(s.blocks), Real(s, Cdiv(p))
               PROVE  g(Cdiv(p)).holds = p
    OBVIOUS
  <2>1. PICK q \in ends : Cdiv(q) = Cdiv(p) /\ g(Cdiv(p)) = [s.blocks[Cdiv(p)] EXCEPT !.holds = q]
    BY <1>3
  <2>2. q = p
    BY <1>2, <2>1
  <2> QED BY <2>1, <2>2, SlotFields DEF BlockRec
<1>6. \A i \in 1..Len(s.blocks) : ~Real(s, i) \/ (\A p \in ends : Cdiv(p) # i) => g(i).holds = s.blocks[i].holds
  BY <1>3
<1>7. \A i \in 1..Len(s.blocks) : f[i] = g(i)
  BY SlotFields
<1>8. f \in [1..Len(s.blocks) -> BlockRec]
  BY <1>4, SlotFields
<1> HIDE DEF f
<1>9. f \in Seq(BlockRec) /\ Len(f) = Len(s.blocks)
  BY <1>8, SlotFields, Listed
<1>10. t \in SlotRec /\ t.blocks = f /\ t.partial = s.partial /\ t.pool = s.pool /\ t.tail = s.tail
       /\ t.cached = s.cached
  BY <1>1, <1>9 DEF SlotRec
<1> QED BY <1>4, <1>5, <1>6, <1>7, <1>9, <1>10 DEF ends, RanOf

-----------------------------------------------------------------------------
\* What the prefix cache can be hit at, and what allocate_slots leaves of it.

\* Labels tell the truth: of the blocks a request has, and of those in the pool.
BlocksTrue(s) == \A i \in 1..Len(s.blocks) : s.blocks[i].label > 0 => s.blocks[i].holds = s.blocks[i].label
PoolTrue(s)   == \A b \in s.pool : b.label > 0 => b.holds = b.label

\* What the cache can be hit at.
Hits(s) == {b.label : b \in Labels(s)}

\* The cache is hit in the pool or in a block of the request.
LEMMA HitsAre ==
  ASSUME NEW s \in SlotRec, NEW h
  PROVE  h \in Hits(s) <=> \/ \E b \in s.pool : b.label > 0 /\ b.label = h
                           \/ \E i \in 1..Len(s.blocks) : s.blocks[i].label > 0 /\ s.blocks[i].label = h
BY SlotFields DEF Hits, Labels

\* Labels that tell the truth, block by block or all together.
LEMMA TrueLabels ==
  ASSUME NEW s \in SlotRec
  PROVE  BlocksTrue(s) /\ PoolTrue(s) <=> \A b \in Labels(s) : b.holds = b.label
BY SlotFields DEF BlocksTrue, PoolTrue, Labels

\* What a request gives up stays in the cache.
LEMMA FreedKeeps ==
  ASSUME NEW s \in SlotRec, NEW is, is \subseteq 1..Len(s.blocks), NEW t, t = Freed(s, is),
         BlocksTrue(s), PoolTrue(s)
  PROVE  BlocksTrue(t) /\ PoolTrue(t) /\ Hits(s) \subseteq Hits(t)
<1>1. /\ t \in SlotRec /\ Len(t.blocks) = Len(s.blocks)
      /\ \A i \in 1..Len(s.blocks) : t.blocks[i] = IF i \in is THEN NullBlock ELSE s.blocks[i]
      /\ \A b : b \in t.pool <=> b \in s.pool \/ (b.label > 0 /\ \E i \in is : b = s.blocks[i])
  <2>1. FreedOf(s, is, t)
    BY FreedIs
  <2> QED BY <2>1 DEF FreedOf
<1>2. NullBlock.label = 0
  BY DEF NullBlock
<1>3. BlocksTrue(t)
  BY <1>1, <1>2 DEF BlocksTrue
<1>4. PoolTrue(t)
  BY <1>1 DEF BlocksTrue, PoolTrue
<1>5. ASSUME NEW h \in Hits(s) PROVE h \in Hits(t)
  <2>1. CASE \E b \in s.pool : b.label > 0 /\ b.label = h
    BY <1>1, <2>1, HitsAre
  <2>2. CASE \E i \in 1..Len(s.blocks) : s.blocks[i].label > 0 /\ s.blocks[i].label = h
    <3>1. PICK i \in 1..Len(s.blocks) : s.blocks[i].label > 0 /\ s.blocks[i].label = h
      BY <2>2
    <3>2. CASE i \in is
      <4>1. s.blocks[i] \in t.pool
        BY <1>1, <3>1, <3>2
      <4> QED BY <1>1, <3>1, <4>1, HitsAre
    <3>3. CASE i \notin is
      <4>1. t.blocks[i] = s.blocks[i]
        BY <1>1, <3>3
      <4> QED BY <1>1, <3>1, <4>1, HitsAre
    <3> QED BY <3>2, <3>3
  <2> QED BY <2>1, <2>2, HitsAre
<1> QED BY <1>3, <1>4, <1>5

\* The blocks of a request before the allocation, for c computed tokens.
Laid(s, c) ==
  /\ Len(s.blocks) \in {Cdiv(c), Cdiv(c) + 1} /\ s.tail \in {0, Cdiv(c)}
  /\ c > 0 /\ c % Block # 0 /\ s.blocks[Cdiv(c)].label > 0 => s.tail = Cdiv(c)
  /\ BlocksTrue(s) /\ PoolTrue(s)

\* The blocks that allocate_slots leaves, before they are labelled.
BegunOf(s, c, X, e, t) ==
  /\ t \in SlotRec /\ t.tail = 0 /\ t.partial = s.partial /\ t.cached = s.cached
  /\ Len(t.blocks) = Most(Len(s.blocks), Cdiv(e))
  /\ BlocksTrue(t) /\ PoolTrue(t) /\ Hits(s) \subseteq Hits(t)
  /\ \A i \in 1..Cdiv(c) - 1 : t.blocks[i] \in {NullBlock, s.blocks[i]}
  /\ c > 0 => /\ t.blocks[Cdiv(c)].holds = s.blocks[Cdiv(c)].holds
              /\ c % Block # 0 => t.blocks[Cdiv(c)].label = 0
  /\ \A i \in Cdiv(c) + 1..Len(s.blocks) : t.blocks[i] = s.blocks[i]
  /\ \A i \in Len(s.blocks) + 1..Cdiv(e) : t.blocks[i] = IF Wanted(X, e, i) THEN Fresh ELSE NullBlock

\* remove_skipped_blocks and allocate_new_blocks keep the running state, every
\* label and every hit (allocate_slots).
LEMMA BegunIs ==
  ASSUME NEW s \in SlotRec, NEW c \in Nat, Laid(s, c), NEW X, X \subseteq Nat,
         NEW e \in Nat, c < e
  PROVE  BegunOf(s, c, X, e, Allocated(Skipped(s, c), X, e))
<1> PICK t : t = Allocated(Skipped(s, c), X, e)
  OBVIOUS
<1> SUFFICES BegunOf(s, c, X, e, t)
  OBVIOUS
<1>0. PICK a \in Nat, z \in Nat, n \in Nat : a = Cdiv(c) /\ z = Cdiv(e) /\ n = Len(s.blocks)
  BY CdivOf, SlotFields
<1>1. n \in {a, a + 1} /\ s.tail \in {0, a} /\ BlocksTrue(s) /\ PoolTrue(s)
  BY <1>0 DEF Laid
<1>2. PICK is \in SUBSET (1..Len(s.blocks)) : (\A i \in is : i < Cdiv(c)) /\ Skipped(s, c) = Freed(s, is)
  BY SkippedIs
<1>3. PICK u : u = Skipped(s, c)
  OBVIOUS
<1>4. /\ u \in SlotRec /\ Len(u.blocks) = n
      /\ \A i \in 1..n : u.blocks[i] = IF i \in is THEN NullBlock ELSE s.blocks[i]
      /\ u.partial = s.partial /\ u.tail = s.tail /\ u.cached = s.cached
  <2>1. FreedOf(s, is, u)
    BY <1>2, <1>3, FreedIs
  <2> QED BY <1>0, <2>1 DEF FreedOf
<1>5. BlocksTrue(u) /\ PoolTrue(u) /\ Hits(s) \subseteq Hits(u)
  BY <1>1, <1>2, <1>3, FreedKeeps
<1>6. t = Allocated(u, X, e)
  BY <1>3
<1>7. u.tail <= Len(u.blocks)
  BY <1>1, <1>4
<1>8. /\ t \in SlotRec /\ t.tail = 0 /\ t.partial = u.partial /\ t.cached = u.cached
      /\ Len(t.blocks) = Most(n, z)
      /\ \A i \in 1..n : t.blocks[i] = IF i = s.tail THEN [u.blocks[i] EXCEPT !.label = 0] ELSE u.blocks[i]
      /\ \A i \in n + 1..z : t.blocks[i] = IF Wanted(X, e, i) THEN Fresh ELSE NullBlock
      /\ \A b : b \in t.pool <=> b \in u.pool \/ (s.tail # 0 /\ b = u.blocks[s.tail])
  <2>1. AllocatedOf(u, X, e, t)
    BY <1>4, <1>6, <1>7, AllocatedIs
  <2> QED BY <1>0, <1>4, <2>1 DEF AllocatedOf
<1>9. c > 0 => a # 0
  <2>1. c > 0 => 0 < Cdiv(c)
    <3>1. 0 % Block = 0
      BY Units
    <3> QED BY <3>1, CdivAfter, CdivOf
  <2> QED BY <1>0, <2>1
<1>10. \A i \in is : i < a
  BY <1>0, <1>2
<1>11. \A i \in 1..n : u.blocks[i] \in BlockRec
  BY <1>4, SlotFields
<1>12. \A i \in 1..n : /\ t.blocks[i].holds = u.blocks[i].holds
                       /\ t.blocks[i].label = IF i = s.tail THEN 0 ELSE u.blocks[i].label
  BY <1>8, <1>11 DEF BlockRec
<1>13. NullBlock.label = 0 /\ Fresh.label = 0
  BY DEF NullBlock, Fresh
<1>14. BlocksTrue(t)
  <2> SUFFICES ASSUME NEW i \in 1..Len(t.blocks), t.blocks[i].label > 0
               PROVE  t.blocks[i].holds = t.blocks[i].label
    BY DEF BlocksTrue
  <2>1. i \in 1..n \/ i \in n + 1..z
    BY <1>8 DEF Most
  <2>2. i \in 1..n
    BY <1>8, <1>13, <2>1
  <2> QED BY <1>4, <1>5, <1>12, <2>2, SMTT(30) DEF BlocksTrue
<1>15. s.tail # 0 => s.tail \in 1..n
  BY <1>1
<1>16. PoolTrue(t)
  BY <1>4, <1>5, <1>8, <1>15 DEF BlocksTrue, PoolTrue
<1>17. ASSUME NEW h \in Hits(u) PROVE h \in Hits(t)
  <2>1. CASE \E b \in u.pool : b.label > 0 /\ b.label = h
    BY <1>8, <2>1, HitsAre
  <2>2. CASE \E i \in 1..Len(u.blocks) : u.blocks[i].label > 0 /\ u.blocks[i].label = h
    <3>1. PICK i \in 1..n : u.blocks[i].label > 0 /\ u.blocks[i].label = h
      BY <1>4, <2>2
    <3>2. CASE i = s.tail
      <4>1. u.blocks[i] \in t.pool
        <5>1. s.tail # 0
          BY <3>2
        <5> QED BY <1>8, <3>2, <5>1
      <4> QED BY <1>8, <3>1, <4>1, HitsAre
    <3>3. CASE i # s.tail
      <4>1. t.blocks[i] = u.blocks[i] /\ i \in 1..Len(t.blocks)
        <5>1. t.blocks[i] = u.blocks[i]
          BY <1>8, <3>3
        <5> QED BY <1>8, <5>1 DEF Most
      <4> QED BY <1>8, <3>1, <4>1, HitsAre
    <3> QED BY <3>2, <3>3
  <2> QED BY <1>4, <2>1, <2>2, HitsAre
<1>18. \A i \in 1..a - 1 : t.blocks[i] \in {NullBlock, s.blocks[i]}
  <2> TAKE i \in 1..a - 1
  <2>1. i \in 1..n /\ i # s.tail
    BY <1>1
  <2> QED BY <1>4, <1>8, <2>1
<1>19. ASSUME c > 0
       PROVE  /\ t.blocks[a].holds = s.blocks[a].holds
              /\ c % Block # 0 => t.blocks[a].label = 0
  <2>1. a \in 1..n /\ a \notin is
    BY <1>1, <1>9, <1>10, <1>19
  <2>2. u.blocks[a] = s.blocks[a] /\ s.blocks[a].label \in Nat
    BY <1>0, <1>4, <2>1, SlotFields
  <2>3. c % Block # 0 /\ s.blocks[a].label > 0 => s.tail = a
    BY <1>0, <1>19 DEF Laid
  <2> QED BY <1>12, <2>1, <2>2, <2>3
<1>20. \A i \in a + 1..n : t.blocks[i] = s.blocks[i]
  <2> TAKE i \in a + 1..n
  <2>1. i \in 1..n /\ i # s.tail /\ i \notin is
    BY <1>1, <1>10
  <2> QED BY <1>4, <1>8, <2>1
<1> QED BY <1>0, <1>4, <1>5, <1>8, <1>14, <1>16, <1>17, <1>18, <1>19, <1>20 DEF BegunOf

-----------------------------------------------------------------------------
\* What is kept between steps.

\* The blocks of a request with c computed tokens, when d is the commit left to
\* the next step, pe the end of the prefill and b whether a replay boundary
\* applies: how many there are, and where a label inside a block is.
Place(s, c, pe) ==
  /\ Laid(s, c)
  /\ c < pe => Len(s.blocks) = Cdiv(c) /\ s.cached = c \div Block

\* The running block has the state of the computed tokens, or will have.
RunsIn(s, c, d) ==
  c > 0 => s.blocks[Cdiv(c)].holds # 0 /\ (d = NoCommit => s.blocks[Cdiv(c)].holds = c)

\* A block beyond the running one has been written and is found under no label.
Spare(s, c) ==
  \A i \in Cdiv(c) + 1..Len(s.blocks) : s.blocks[i].holds # 0 /\ s.blocks[i].label = 0

\* The full blocks that have no label yet hold what they will be found under.
Pending(s, c) ==
  \A i \in s.cached + 1..c \div Block :
    i <= Len(s.blocks) /\ Real(s, i) /\ i \notin s.partial => s.blocks[i].holds = i * Block

\* A state inside a block is known to be short of the block's end.
ShortKnown(s, c, pe, b) ==
  /\ \A i \in s.partial : i <= Cdiv(c)
  /\ c < pe /\ c % Block # 0 /\ b => Cdiv(c) \in s.partial

\* What is deferred is one write, of the running state into its block.
Due(s, c, d, pe) ==
  d # NoCommit =>
    /\ d = [to |-> c, boundary |-> 0] /\ c > 0
    /\ c % Block # 0 /\ (c % Block) + SpecQueryLen <= Block
    /\ s.tail = 0 /\ pe <= c

\* All of it: what a step relies on and what it leaves.
Kept(s, c, d, pe, b) ==
  Place(s, c, pe) /\ RunsIn(s, c, d) /\ Spare(s, c) /\ Pending(s, c) /\ ShortKnown(s, c, pe, b)
  /\ Due(s, c, d, pe)

\* Of the positions a chunk writes, those that _record_state_write_position and
\* the exports of the replay boundary take note of.
Noted(n, X, pe) == (IF ReplayOn THEN X ELSE {}) \cup {p \in {n} : p % Block = 0 \/ p < pe}

\* Which blocks _record_state_write_position notes as short of their end.
LEMMA ShortIs ==
  ASSUME NEW s, NEW n, NEW X, NEW pe, NEW i
  PROVE  i \in Short(s, n, X, pe) <=>
           \/ i \in s.partial /\ \A q \in Noted(n, X, pe) : q % Block = 0 => Cdiv(q) # i
           \/ \E q \in Noted(n, X, pe) : q % Block # 0 /\ Cdiv(q) = i
BY DEF Short, Noted

\* The blocks of a position that comes after another.
LEMMA LaterBlock ==
  ASSUME NEW c \in Nat, NEW p \in Nat, c < p
  PROVE  /\ Cdiv(c) \in Nat /\ Cdiv(p) \in Nat /\ Cdiv(c) <= Cdiv(p) /\ c \div Block < Cdiv(p)
         /\ c % Block = 0 => Cdiv(c) < Cdiv(p)
         /\ p % Block = 0 => p = Cdiv(p) * Block
<1>1. Cdiv(c) \in Nat /\ Cdiv(p) \in Nat /\ Cdiv(c) <= Cdiv(p) /\ c \div Block \in Nat
  BY CdivOf, CdivOrder
<1>2. c % Block # 0 => c \div Block < Cdiv(c)
  BY CdivOf
<1>3. c % Block = 0 => Cdiv(c) < Cdiv(p) /\ Cdiv(c) = c \div Block
  BY CdivAfter
<1>4. p % Block = 0 => p = Cdiv(p) * Block
  BY WholeIs
<1> QED BY <1>1, <1>2, <1>3, <1>4

\* A full block that the chunk labels is one whose end the chunk writes.
LEMMA FullIsWritten ==
  ASSUME NEW s \in SlotRec, NEW c \in Nat, NEW pe \in Nat, NEW b \in BOOLEAN, b => ReplayOn, c < pe,
         ShortKnown(s, c, pe, b), NEW e, NEW X, Taken(c, e, X, b),
         NEW i \in Nat, c \div Block < i, i <= e \div Block,
         i <= Cdiv(c) \/ Wanted(X, e, i),
         i \notin Short(s, e, X, pe)
  PROVE  i * Block \in X \cup {e} /\ Cdiv(i * Block) = i
<1>1. e \in Nat /\ c < e /\ X \subseteq Nat
  BY DEF Taken
<1>2. Cdiv(i * Block) = i /\ i * Block \in Nat
  BY WholeBlocks
<1>3. CASE Wanted(X, e, i)
  <2>1. PICK p \in X \cup {e} : Cdiv(p) = i
    BY <1>3 DEF Wanted
  <2>2. p \in Nat
    BY <1>1, <2>1
  <2>3. CASE p % Block = 0
    BY <2>1, <2>2, <2>3, WholeIs
  <2>4. CASE p % Block # 0
    <3>1. p # e
      BY <1>1, <2>1, <2>4, CdivOf
    <3>2. p \in X /\ ReplayOn
      BY <2>1, <2>4, <3>1 DEF Taken
    <3>3. p \in Noted(e, X, pe)
      BY <3>2 DEF Noted
    <3> QED BY <2>1, <2>4, <3>3, ShortIs
  <2> QED BY <1>2, <2>3, <2>4
<1>4. CASE i <= Cdiv(c)
  <2>1. c % Block # 0 /\ i = Cdiv(c) /\ i = c \div Block + 1
    BY <1>4, CdivOf
  <2>2. CASE b
    <3>1. i \in s.partial
      BY <2>1, <2>2 DEF ShortKnown
    <3>2. PICK q \in Noted(e, X, pe) : q % Block = 0 /\ Cdiv(q) = i
      BY <3>1, ShortIs
    <3>3. q \in X \cup {e} /\ q \in Nat
      BY <1>1, <3>2 DEF Noted
    <3> QED BY <1>2, <3>2, <3>3, WholeIs
  <2>3. CASE ~b
    <3>1. e <= FloorTo(c, Block) + Block
      BY <2>1, <2>3 DEF Taken
    <3>2. i * Block <= e
      BY <1>1, EndsBefore
    <3>3. PICK d \in Nat : d = c \div Block
      BY CdivOf
    <3>4. FloorTo(c, Block) + Block = (d + 1) * Block
      BY <3>3, Units DEF FloorTo
    <3>5. i * Block = FloorTo(c, Block) + Block
      BY <2>1, <3>3, <3>4
    <3> QED BY <1>1, <1>2, <3>1, <3>2, <3>5
  <2> QED BY <2>2, <2>3
<1> QED BY <1>3, <1>4

-----------------------------------------------------------------------------
\* A chunk of the prompt.

\* A chunk of the prompt: what allocate_slots and the workers make of the
\* blocks, and what the prefix cache can be hit at afterwards.
LEMMA ChunkKeeps ==
  ASSUME NEW s \in SlotRec, NEW c \in Nat, NEW pe \in Nat, NEW b \in BOOLEAN, b => ReplayOn, c < pe,
         Kept(s, c, NoCommit, pe, b), NEW e, NEW X, Taken(c, e, X, b), e <= pe, NEW inside,
         NEW t, t = Ran(CachedUpTo(Allocated(Skipped(s, c), X, e), e, X, pe, inside), c, X, e)
  PROVE  /\ t \in SlotRec /\ Kept(t, e, NoCommit, pe, b)
         /\ Hits(s) \subseteq Hits(t) /\ X \subseteq Hits(t)
         /\ (e % Block = 0 \/ e \in inside) => e \in Hits(t)
<1>1. e \in Nat /\ c < e /\ X \subseteq Nat /\ (\A p \in X : c < p /\ p < e)
      /\ (\A p \in X, q \in X \cup {e} : Cdiv(p) = Cdiv(q) => p = q)
      /\ (\A p \in X : p % Block = 0 \/ ReplayOn)
      /\ (X # {} => b \/ c % Block = 0)
  BY DEF Taken
<1>0. PICK a \in Nat, z \in Nat, k \in Nat, m \in Nat :
        a = Cdiv(c) /\ z = Cdiv(e) /\ k = c \div Block /\ m = e \div Block
  BY <1>1, CdivOf
<1> PICK u : u = Allocated(Skipped(s, c), X, e)
  OBVIOUS
<1> PICK v : v = CachedUpTo(u, e, X, pe, inside)
  OBVIOUS
<1>2. t = Ran(v, c, X, e)
  OBVIOUS
<1>3. Len(s.blocks) = a /\ s.cached = k /\ Laid(s, c)
  BY <1>0 DEF Kept, Place
<1>4. a <= z /\ k <= m /\ k <= a /\ (c % Block = 0 => a = k) /\ (c % Block # 0 => a = k + 1)
      /\ (e % Block = 0 => z = m) /\ (e % Block # 0 => z = m + 1)
  <2>1. c \div Block <= e \div Block /\ Cdiv(c) <= Cdiv(e)
    BY <1>1, CdivOrder, QuotOrder
  <2>2. Cdiv(c) = (IF c % Block = 0 THEN k ELSE k + 1) /\ Cdiv(e) = (IF e % Block = 0 THEN m ELSE m + 1)
    BY <1>0, <1>1, CdivOf
  <2> QED BY <1>0, <2>1, <2>2
<1>5. \A p \in X \cup {e} : /\ p \in Nat /\ Cdiv(p) \in Nat /\ a <= Cdiv(p) /\ Cdiv(p) <= z /\ k < Cdiv(p)
                            /\ c % Block = 0 => a < Cdiv(p)
                            /\ p % Block = 0 => p = Cdiv(p) * Block
  <2> SUFFICES ASSUME NEW p \in X \cup {e}
               PROVE  /\ p \in Nat /\ Cdiv(p) \in Nat /\ a <= Cdiv(p) /\ Cdiv(p) <= z /\ k < Cdiv(p)
                      /\ c % Block = 0 => a < Cdiv(p)
                      /\ p % Block = 0 => p = Cdiv(p) * Block
    OBVIOUS
  <2>1. p \in Nat /\ c < p /\ p <= e
    BY <1>1
  <2>2. Cdiv(p) <= Cdiv(e)
    BY <1>1, <2>1, CdivOrder
  <2> QED BY <1>0, <2>1, <2>2, LaterBlock
<1>b. BegunOf(s, c, X, e, u)
  BY <1>1, <1>3, BegunIs
<1>6. u \in SlotRec /\ u.tail = 0 /\ u.partial = s.partial /\ u.cached = k /\ Len(u.blocks) = z
      /\ BlocksTrue(u) /\ PoolTrue(u) /\ Hits(s) \subseteq Hits(u)
  <2>1. Most(a, z) = z
    BY <1>4 DEF Most
  <2> QED BY <1>0, <1>3, <1>b, <2>1 DEF BegunOf
<1>7. c > 0 => u.blocks[a].holds = c /\ (c % Block # 0 => u.blocks[a].label = 0)
  <2>1. c > 0 => s.blocks[a].holds = c
    BY <1>0 DEF Kept, RunsIn
  <2>2. c > 0 => u.blocks[Cdiv(c)].holds = s.blocks[Cdiv(c)].holds
                 /\ (c % Block # 0 => u.blocks[Cdiv(c)].label = 0)
    BY <1>b DEF BegunOf
  <2> QED BY <1>0, <2>1, <2>2
<1>8. \A i \in a + 1..z : u.blocks[i] = IF Wanted(X, e, i) THEN Fresh ELSE NullBlock
  BY <1>0, <1>3, <1>b DEF BegunOf
<1>9. \A i \in a + 1..z : u.blocks[i].label = 0 /\ (Real(u, i) <=> Wanted(X, e, i))
  <2>1. Fresh.label = 0 /\ NullBlock.label = 0 /\ Fresh # NullBlock
    BY DEF Fresh, NullBlock, Junk
  <2>2. \A i \in a + 1..z : i \in DOMAIN u.blocks
    BY <1>6, SlotFields
  <2> QED BY <1>8, <2>1, <2>2 DEF Real
<1>10. CachedOf(u, e, X, pe, inside, v)
  BY <1>1, <1>6, CachedIs
<1>11. PICK marks, part, tail : marks = Marks(u, e, X, inside) /\ part = Short(u, e, X, pe)
                                /\ tail = Inner(e, inside, u)
  OBVIOUS
<1>12. v \in SlotRec /\ Len(v.blocks) = z /\ v.partial = part /\ v.pool = u.pool
       /\ v.tail = (IF tail = {} THEN 0 ELSE z) /\ v.cached = m
       /\ (\A i \in 1..z : v.blocks[i].holds = u.blocks[i].holds)
  <2>1. Most(k, m) = m
    BY <1>4 DEF Most
  <2> QED BY <1>0, <1>6, <1>10, <1>11, <2>1 DEF CachedOf
<1>13. \A p \in marks : Cdiv(p) \in 1..z => v.blocks[Cdiv(p)].label = p
  BY <1>6, <1>10, <1>11 DEF CachedOf
<1>14. \A i \in 1..z : (\A p \in marks : Cdiv(p) # i) =>
         v.blocks[i].label = IF k + 1 <= i /\ i <= m /\ Real(u, i) /\ i \notin part
                             THEN i * Block ELSE u.blocks[i].label
  BY <1>0, <1>6, <1>10, <1>11, <1>12 DEF CachedOf
<1>15. marks \subseteq X \cup {e} /\ \A p \in marks : p % Block # 0
  BY <1>11 DEF Marks, Inner
<1>16. Running(v, c) = c
  <2>1. CASE c = 0
    BY <2>1 DEF Running
  <2>2. CASE c # 0
    <3>1. a \in 1..z
      <4>1. 0 < Cdiv(c)
        <5>1. 0 % Block = 0 /\ 0 < c
          BY <2>2, Units
        <5> QED BY <5>1, CdivAfter, CdivOf
      <4> QED BY <1>0, <1>4, <4>1
    <3> QED BY <1>0, <1>7, <1>12, <2>2, <3>1 DEF Running
  <2> QED BY <2>1, <2>2
<1>17. RanOf(v, c, X, e, t)
  BY <1>1, <1>2, <1>12, <1>16, RanIs
<1>18. t \in SlotRec /\ Len(t.blocks) = z /\ t.partial = part /\ t.pool = u.pool
       /\ t.tail = v.tail /\ t.cached = m
       /\ (\A i \in 1..z : t.blocks[i].label = v.blocks[i].label)
  BY <1>12, <1>17 DEF RanOf
<1>19. \A p \in X \cup {e} : Cdiv(p) \in 1..z /\ Real(v, Cdiv(p)) => t.blocks[Cdiv(p)].holds = p
  BY <1>12, <1>17 DEF RanOf
<1>20. \A i \in 1..z : (\A p \in X \cup {e} : Cdiv(p) # i) => t.blocks[i].holds = u.blocks[i].holds
  BY <1>12, <1>17 DEF RanOf
\* The blocks that get a state are there and real.
<1>21. \A p \in X \cup {e} : Cdiv(p) \in 1..z /\ Real(u, Cdiv(p)) /\ Real(v, Cdiv(p))
  <2> SUFFICES ASSUME NEW p \in X \cup {e}
               PROVE  Cdiv(p) \in 1..z /\ Real(u, Cdiv(p)) /\ Real(v, Cdiv(p))
    OBVIOUS
  <2>1. Cdiv(p) \in 1..z
    BY <1>5
  <2>2. u.blocks[Cdiv(p)].holds # 0
    <3>1. CASE Cdiv(p) = a
      <4>1. c > 0
        <5>1. 0 % Block = 0
          BY Units
        <5> QED BY <1>5, <3>1, <5>1
      <4> QED BY <1>7, <3>1, <4>1
    <3>2. CASE Cdiv(p) # a
      <4>1. Cdiv(p) \in a + 1..z /\ Wanted(X, e, Cdiv(p))
        BY <1>5, <3>2 DEF Wanted
      <4>2. Fresh.holds # 0
        BY DEF Fresh, Junk
      <4> QED BY <1>8, <4>1, <4>2
    <3> QED BY <3>1, <3>2
  <2> QED BY <1>6, <1>12, <2>1, <2>2, RealIs
<1>22. \A p \in X \cup {e} : t.blocks[Cdiv(p)].holds = p
  BY <1>19, <1>21
\* Full blocks are labelled by the states that the chunk writes.
<1>23. ASSUME NEW i \in 1..z, k + 1 <= i, i <= m, Real(u, i), i \notin part
       PROVE  i * Block \in X \cup {e} /\ Cdiv(i * Block) = i
  <2>1. i <= a \/ Wanted(X, e, i)
    BY <1>9, <1>23
  <2>2. i \notin Short(s, e, X, pe)
    BY <1>6, <1>11, <1>23 DEF Short
  <2> QED BY <1>0, <1>23, <2>1, <2>2, FullIsWritten DEF Kept
<1>24. BlocksTrue(t)
  <2> SUFFICES ASSUME NEW i \in 1..z, t.blocks[i].label > 0
               PROVE  t.blocks[i].holds = t.blocks[i].label
    BY <1>18 DEF BlocksTrue
  <2>1. CASE \E p \in marks : Cdiv(p) = i
    BY <1>13, <1>15, <1>18, <1>22, <2>1
  <2>2. CASE (\A p \in marks : Cdiv(p) # i) /\ k + 1 <= i /\ i <= m /\ Real(u, i) /\ i \notin part
    <3>1. t.blocks[i].label = i * Block
      BY <1>14, <1>18, <2>2
    <3>2. i * Block \in X \cup {e} /\ Cdiv(i * Block) = i
      BY <1>23, <2>2
    <3> QED BY <1>22, <3>1, <3>2
  <2>3. CASE (\A p \in marks : Cdiv(p) # i) /\ ~(k + 1 <= i /\ i <= m /\ Real(u, i) /\ i \notin part)
    <3>1. t.blocks[i].label = u.blocks[i].label
      BY <1>14, <1>18, <2>3
    <3>2. i <= a
      BY <1>9, <3>1
    <3>3. i = a => c % Block = 0
      <4>1. i = a => c > 0
        <5>1. 0 \div Block = 0 /\ 0 % Block = 0
          BY Units
        <5> QED BY <1>0, <1>4, <5>1
      <4> QED BY <1>7, <3>1, <4>1
    <3>4. \A p \in X \cup {e} : Cdiv(p) # i
      BY <1>5, <3>2, <3>3
    <3> QED BY <1>6, <1>20, <3>1, <3>4 DEF BlocksTrue
  <2> QED BY <2>1, <2>2, <2>3
<1>25. PoolTrue(t)
  BY <1>6, <1>18 DEF PoolTrue
<1>26. ASSUME NEW p \in marks PROVE p \in Hits(t)
  <2>1. Cdiv(p) \in 1..z /\ p \in Nat /\ p > 0
    BY <1>1, <1>5, <1>15, <1>21
  <2>2. t.blocks[Cdiv(p)].label = p
    BY <1>13, <1>18, <2>1
  <2> QED BY <1>18, <2>1, <2>2, HitsAre
\* No block loses the label it has.
<1>27. ASSUME NEW i \in 1..z, u.blocks[i].label > 0 PROVE t.blocks[i].label = u.blocks[i].label
  <2>1. i <= a /\ (i = a => c % Block = 0)
    <3>1. i <= a
      BY <1>9, <1>27
    <3>2. i = a => c > 0
      <4>1. 0 \div Block = 0 /\ 0 % Block = 0
        BY Units
      <4> QED BY <1>0, <1>4, <4>1
    <3> QED BY <1>7, <1>27, <3>1, <3>2
  <2>2. \A p \in marks : Cdiv(p) # i
    BY <1>5, <1>15, <2>1
  <2>3. i < k + 1
    BY <1>4, <2>1
  <2> QED BY <1>14, <1>18, <2>2, <2>3
<1>28. Hits(s) \subseteq Hits(t)
  <2> SUFFICES ASSUME NEW h \in Hits(u) PROVE h \in Hits(t)
    BY <1>6
  <2>1. CASE \E x \in u.pool : x.label > 0 /\ x.label = h
    BY <1>18, <2>1, HitsAre
  <2>2. CASE \E i \in 1..Len(u.blocks) : u.blocks[i].label > 0 /\ u.blocks[i].label = h
    BY <1>6, <1>18, <1>27, <2>2, HitsAre
  <2> QED BY <1>6, <2>1, <2>2, HitsAre
\* A state at the end of a block that the chunk writes gets a label.
<1>29. ASSUME NEW p \in X \cup {e}, p % Block = 0 PROVE p \in Hits(t)
  <2>1. PICK i \in 1..z : i = Cdiv(p)
    BY <1>21
  <2>2. p \in Nat /\ p = i * Block /\ k < i /\ p <= e
    BY <1>1, <1>5, <1>29, <2>1
  <2>3. i <= m
    BY <1>0, <1>1, <2>2, EndsBefore
  <2>4. Real(u, i)
    BY <1>21, <2>1
  <2>5. i \notin part
    <3>1. \A q \in Noted(e, X, pe) : q % Block # 0 => Cdiv(q) # i
      <4> SUFFICES ASSUME NEW q \in Noted(e, X, pe), Cdiv(q) = i PROVE q % Block = 0
        OBVIOUS
      <4>1. q \in X \cup {e}
        BY DEF Noted
      <4>2. q = p
        BY <1>1, <2>1, <4>1
      <4> QED BY <1>29, <4>2
    <3>2. CASE ReplayOn \/ p = e
      <4>1. p \in Noted(e, X, pe)
        BY <1>29, <3>2 DEF Noted
      <4> QED BY <1>11, <1>29, <2>1, <3>1, <4>1, ShortIs
    <3>3. CASE ~ReplayOn /\ p # e
      <4>1. c % Block = 0
        BY <1>1, <3>3
      <4>2. a < i
        BY <1>5, <2>1, <4>1
      <4>3. i \notin s.partial
        BY <1>0, <4>2, SlotFields DEF Kept, ShortKnown
      <4> QED BY <1>6, <1>11, <3>1, <4>3, ShortIs
    <3> QED BY <3>2, <3>3
  <2>6. \A q \in marks : Cdiv(q) # i
    <3> SUFFICES ASSUME NEW q \in marks, Cdiv(q) = i PROVE FALSE
      OBVIOUS
    <3>1. q = p
      BY <1>1, <1>15, <2>1
    <3> QED BY <1>15, <1>29, <3>1
  <2>7. t.blocks[i].label = p
    BY <1>14, <1>18, <2>2, <2>3, <2>4, <2>5, <2>6
  <2>8. p > 0
    BY <1>1
  <2> QED BY <1>18, <2>7, <2>8, HitsAre
<1>30. X \subseteq Hits(t)
  <2> SUFFICES ASSUME NEW p \in X PROVE p \in Hits(t)
    OBVIOUS
  <2>1. CASE p % Block = 0
    BY <1>29, <2>1
  <2>2. CASE p % Block # 0
    <3>1. p \in marks
      BY <1>1, <1>11, <2>2 DEF Marks
    <3> QED BY <1>26, <3>1
  <2> QED BY <2>1, <2>2
<1>31. ASSUME e % Block = 0 \/ e \in inside PROVE e \in Hits(t)
  <2>1. CASE e % Block = 0
    BY <1>29, <2>1
  <2>2. CASE e % Block # 0
    <3>1. e \in marks
      BY <1>11, <1>21, <1>31, <2>2 DEF Marks, Inner
    <3> QED BY <1>26, <3>1
  <2> QED BY <2>1, <2>2
<1>32. Place(t, e, pe)
  <2>1. e > 0 /\ e % Block # 0 /\ t.blocks[z].label > 0 => t.tail = z
    <3> SUFFICES ASSUME e % Block # 0, t.blocks[z].label > 0 PROVE t.tail = z
      OBVIOUS
    <3>1. z \in 1..z /\ m < z /\ (a = z => c % Block # 0)
      BY <1>0, <1>4, <1>5, <1>21
    <3>2. u.blocks[z].label = 0
      <4>1. CASE a = z
        <5>1. c > 0
          <6>1. 0 % Block = 0
            BY Units
          <6> QED BY <3>1, <4>1, <6>1
        <5> QED BY <1>7, <3>1, <4>1, <5>1
      <4>2. CASE a # z
        BY <1>4, <1>9, <4>2
      <4> QED BY <4>1, <4>2
    <3>3. \E p \in marks : Cdiv(p) = z
      BY <1>14, <1>18, <3>1, <3>2
    <3>4. e \in marks
      BY <1>0, <1>1, <1>15, <3>3
    <3>5. e \in tail
      BY <1>1, <1>11, <3>4 DEF Marks
    <3> QED BY <1>12, <1>18, <3>5
  <2>2. t.tail \in {0, z}
    BY <1>12, <1>18
  <2>3. Laid(t, e)
    BY <1>0, <1>18, <1>24, <1>25, <2>1, <2>2 DEF Laid
  <2> QED BY <1>0, <1>18, <2>3 DEF Place
<1>33. RunsIn(t, e, NoCommit)
  BY <1>1, <1>22 DEF RunsIn
<1>34. Spare(t, e) /\ Pending(t, e)
  BY <1>0, <1>18 DEF Spare, Pending
<1>35. ShortKnown(t, e, pe, b)
  <2>1. \A i \in part : i <= z
    <3> SUFFICES ASSUME NEW i \in part PROVE i <= z
      OBVIOUS
    <3>1. CASE i \in u.partial
      <4>1. i <= a /\ i \in Nat
        BY <1>0, <1>6, <3>1, SlotFields DEF Kept, ShortKnown
      <4> QED BY <1>4, <4>1
    <3>2. CASE i \notin u.partial
      <4>1. PICK q \in Noted(e, X, pe) : Cdiv(q) = i
        BY <1>11, <3>2, ShortIs
      <4>2. q \in X \cup {e}
        BY DEF Noted
      <4> QED BY <1>5, <4>1, <4>2
    <3> QED BY <3>1, <3>2
  <2>2. e < pe /\ e % Block # 0 => z \in part
    <3> SUFFICES ASSUME e < pe, e % Block # 0 PROVE z \in part
      OBVIOUS
    <3>1. e \in Noted(e, X, pe)
      BY DEF Noted
    <3> QED BY <1>0, <1>11, <3>1, ShortIs
  <2> QED BY <1>0, <1>18, <2>1, <2>2 DEF ShortKnown
<1>36. Due(t, e, NoCommit, pe)
  BY DEF Due
<1>37. Kept(t, e, NoCommit, pe, b)
  BY <1>32, <1>33, <1>34, <1>35, <1>36 DEF Kept
<1> QED BY <1>18, <1>28, <1>30, <1>31, <1>37

-----------------------------------------------------------------------------
\* A verify of drafts, and its commit.

\* The blocks a verify reads, with c tokens computed and a window up to end:
\* nothing is labelled beyond the whole blocks of c but the block that this
\* step is sure to complete.
ReadyOf(s, c, end, r) ==
  /\ r \in SlotRec /\ r.tail = 0 /\ PoolTrue(r) /\ Hits(s) \subseteq Hits(r)
  /\ Len(r.blocks) = Most(Len(s.blocks), Cdiv(end))
  /\ r.cached = Most(s.cached, (c + 1) \div Block)
  /\ \A i \in r.partial : i \in s.partial
  /\ r.blocks[Cdiv(end)].holds = c /\ r.blocks[Cdiv(c)].holds = c
  /\ \A i \in 1..Len(r.blocks) : r.blocks[i].label > 0 =>
       IF i <= c \div Block THEN r.blocks[i].holds = r.blocks[i].label
       ELSE i = c \div Block + 1 /\ i * Block = c + 1 /\ r.blocks[i].label = c + 1
  /\ \A i \in Cdiv(c) + 1..Len(r.blocks) : r.blocks[i].holds # 0

\* A verify window reaches the next block at most, and not even that after a
\* deferral.
LEMMA WindowIs ==
  ASSUME NEW c \in Nat, NEW k \in 0..SpecTokens
  PROVE  /\ c + 1 + k \in Nat /\ Cdiv(c + 1 + k) \in {Cdiv(c), Cdiv(c) + 1} /\ Cdiv(c) \in Nat
         /\ c % Block # 0 /\ (c % Block) + SpecQueryLen <= Block => Cdiv(c + 1 + k) = Cdiv(c)
<1>1. k \in Nat /\ 1 + k <= SpecQueryLen /\ SpecQueryLen <= Block /\ SpecQueryLen \in Nat /\ Block \in Nat
  BY WindowAssumption, BlockNat DEF SpecQueryLen
<1>2. c + 1 + k \in Nat /\ c <= c + 1 + k /\ c + 1 + k <= c + Block
  BY <1>1
<1>3. Cdiv(c + 1 + k) \in Nat /\ Cdiv(c) \in Nat
  BY <1>2, CdivOf
<1>4. Cdiv(c) <= Cdiv(c + 1 + k) /\ Cdiv(c + 1 + k) <= Cdiv(c) + 1
  BY <1>2, CdivOrder, CdivNear
<1>5. ASSUME c % Block # 0, (c % Block) + SpecQueryLen <= Block PROVE Cdiv(c + 1 + k) = Cdiv(c)
  <2>1. PICK d \in Nat, r \in Nat : d = c \div Block /\ r = c % Block
    BY CdivOf
  <2>2. c = d * Block + r
    BY <2>1, BlockNat, Splits
  <2>3. r \in 1..Block /\ r + 1 + k \in 1..Block
    BY <1>1, <1>5, <2>1
  <2>4. d * Block \in Nat
    BY <1>1, <2>1
  <2>5. c + 1 + k = d * Block + (r + 1 + k)
    BY <1>1, <2>2, <2>4
  <2> QED BY <2>2, <2>3, <2>5, CdivIs
<1> QED BY <1>2, <1>3, <1>4, <1>5

\* The blocks are ready when a verify runs: after the allocation, the copies and
\* a commit left by the step before, the block it reads has the running state.
LEMMA ReadyIs ==
  ASSUME NEW s \in SlotRec, NEW c \in Nat, NEW pe \in Nat, NEW b, NEW d, c > 0, pe <= c,
         Kept(s, c, d, pe, b), NEW k \in 0..SpecTokens
  PROVE  ReadyOf(s, c, c + 1 + k,
                 Landed(Precopied(CachedUpTo(Allocated(Skipped(s, c), {}, c + 1 + k), c + 1, {}, 0, {}),
                                  c, c + 1 + k), d))
<1> PICK end : end = c + 1 + k
  OBVIOUS
<1> PICK u : u = Allocated(Skipped(s, c), {}, end)
  OBVIOUS
<1> PICK v : v = CachedUpTo(u, c + 1, {}, 0, {})
  OBVIOUS
<1> PICK y : y = Precopied(v, c, end)
  OBVIOUS
<1> PICK r : r = Landed(y, d)
  OBVIOUS
<1> SUFFICES ReadyOf(s, c, end, r)
  OBVIOUS
<1>0. PICK a \in Nat, z \in Nat, q \in Nat, n \in Nat, N \in Nat :
        a = Cdiv(c) /\ z = Cdiv(end) /\ q = c \div Block /\ n = Len(s.blocks) /\ N = Most(n, z)
  <2>1. Cdiv(c) \in Nat /\ Cdiv(end) \in Nat /\ c \div Block \in Nat /\ Len(s.blocks) \in Nat
    BY WindowIs, CdivOf, SlotFields
  <2> QED BY <2>1 DEF Most
<1>1. end \in Nat /\ c < end /\ z \in {a, a + 1} /\ (d # NoCommit => z = a)
  <2>1. d # NoCommit => c % Block # 0 /\ (c % Block) + SpecQueryLen <= Block
    BY DEF Kept, Due
  <2>2. Cdiv(end) \in {a, a + 1} /\ (d # NoCommit => Cdiv(end) = Cdiv(c))
    BY <1>0, <2>1, WindowIs
  <2>3. end \in Nat /\ c < end
    BY WindowAssumption
  <2> QED BY <1>0, <2>2, <2>3
<1>2. n \in {a, a + 1} /\ Laid(s, c)
  BY <1>0 DEF Kept, Place, Laid
<1>3. N \in {a, a + 1} /\ n <= N /\ z <= N /\ (N = n \/ N = z)
  <2>1. n <= N /\ z <= N /\ (N = n \/ N = z)
    BY <1>0 DEF Most
  <2> QED BY <1>1, <1>2, <2>1
<1>4. (c % Block = 0 => a = q) /\ (c % Block # 0 => a = q + 1) /\ a > 0 /\ q <= a
  <2>1. Cdiv(c) = IF c % Block = 0 THEN q ELSE q + 1
    BY <1>0, CdivOf
  <2>2. 0 < Cdiv(c)
    <3>1. 0 % Block = 0
      BY Units
    <3> QED BY <3>1, CdivAfter, CdivOf
  <2> QED BY <1>0, <2>1, <2>2
<1>5. BegunOf(s, c, {}, end, u)
  BY <1>1, <1>2, BegunIs
<1>6. u \in SlotRec /\ u.tail = 0 /\ u.partial = s.partial /\ u.cached = s.cached /\ Len(u.blocks) = N
      /\ BlocksTrue(u) /\ PoolTrue(u) /\ Hits(s) \subseteq Hits(u)
  BY <1>0, <1>5 DEF BegunOf
<1>7. u.blocks[a].holds = s.blocks[a].holds /\ (c % Block # 0 => u.blocks[a].label = 0)
  BY <1>0, <1>5 DEF BegunOf
<1>8. \A i \in 1..a - 1 : u.blocks[i] \in {NullBlock, s.blocks[i]}
  BY <1>0, <1>5 DEF BegunOf
<1>9. \A i \in a + 1..N : u.blocks[i].holds # 0 /\ u.blocks[i].label = 0
  <2> SUFFICES ASSUME NEW i \in a + 1..N PROVE u.blocks[i].holds # 0 /\ u.blocks[i].label = 0
    OBVIOUS
  <2>1. CASE i <= n
    <3>1. u.blocks[i] = s.blocks[i]
      BY <1>0, <1>5, <2>1, SMTT(30) DEF BegunOf
    <3> QED BY <1>0, <2>1, <3>1, SMTT(30) DEF Kept, Spare
  <2>2. CASE i > n
    <3>1. i = z /\ i \in n + 1..z
      BY <1>1, <1>2, <1>3, <2>2
    <3>2. u.blocks[i] = Fresh
      BY <1>0, <1>5, <3>1 DEF BegunOf, Wanted
    <3> QED BY <3>2 DEF Fresh, Junk
  <2> QED BY <2>1, <2>2
<1>10. u.blocks[a].holds # 0 /\ (d = NoCommit => u.blocks[a].holds = c)
  BY <1>0, <1>7 DEF Kept, RunsIn
\* The labels of this step.
<1>11. CachedOf(u, c + 1, {}, 0, {}, v)
  <2>1. c + 1 \in Nat /\ {} \subseteq Nat /\ 0 \in Nat
    OBVIOUS
  <2> QED BY <1>6, <2>1, CachedIs
<1>12. Inner(c + 1, {}, u) = {} /\ Marks(u, c + 1, {}, {}) = {}
  BY DEF Inner, Marks
<1>13. v \in SlotRec /\ Len(v.blocks) = N /\ v.pool = u.pool /\ v.tail = 0
       /\ v.cached = Most(s.cached, (c + 1) \div Block) /\ v.partial = Short(u, c + 1, {}, 0)
       /\ (\A i \in 1..N : v.blocks[i].holds = u.blocks[i].holds)
  BY <1>6, <1>11, <1>12 DEF CachedOf
<1>23. Len(v.blocks) = N /\ \A i \in 1..N : v.blocks[i].holds = u.blocks[i].holds
  BY <1>13
<1>14. PICK m \in Nat : m = (c + 1) \div Block
  BY CdivOf
<1>15. \A i \in 1..N : v.blocks[i].label = IF s.cached + 1 <= i /\ i <= m /\ Real(u, i) /\ i \notin v.partial
                                           THEN i * Block ELSE u.blocks[i].label
  BY <1>6, <1>11, <1>12, <1>14 DEF CachedOf
<1>16. m \in {q, q + 1} /\ (m = q + 1 => (q + 1) * Block = c + 1 /\ (c + 1) % Block = 0 /\ Cdiv(c + 1) = q + 1)
  <2>1. q <= m /\ m <= q + 1
    <3>1. c + 1 \in Nat /\ c + 1 <= c + Block
      BY Units
    <3> QED BY <1>0, <1>14, <3>1, QuotOrder, QuotNear
  <2>2. ASSUME m = q + 1 PROVE (q + 1) * Block = c + 1
    <3>1. m * Block <= c + 1
      BY <1>14, EndsBefore
    <3>2. ~(m * Block <= c)
      BY <1>0, <2>2, EndsBefore, SMTT(30)
    <3>3. m * Block \in Nat
      BY WholeBlocks
    <3> QED BY <2>2, <3>1, <3>2, <3>3
  <2>3. q + 1 \in Nat
    OBVIOUS
  <2>4. ((q + 1) * Block) % Block = 0 /\ Cdiv((q + 1) * Block) = q + 1
    BY <2>3, WholeBlocks
  <2> QED BY <2>1, <2>2, <2>4
<1>17. \A i \in v.partial : i \in s.partial
  <2> SUFFICES ASSUME NEW i \in v.partial PROVE i \in s.partial
    OBVIOUS
  <2>1. \A x \in Noted(c + 1, {}, 0) : x % Block = 0
    BY DEF Noted
  <2>2. i \in Short(u, c + 1, {}, 0)
    BY <1>13
  <2> QED BY <1>6, <2>1, <2>2, ShortIs
<1>18. \A i \in s.partial : i <= q => i \in v.partial
  <2> SUFFICES ASSUME NEW i \in s.partial, i <= q PROVE i \in v.partial
    OBVIOUS
  <2>0. i \in Nat
    BY SlotFields
  <2>1. \A x \in Noted(c + 1, {}, 0) : x = c + 1 /\ q < Cdiv(x)
    <3>1. c \div Block < Cdiv(c + 1)
      BY LaterBlock
    <3> QED BY <1>0, <3>1 DEF Noted
  <2>2. \A x \in Noted(c + 1, {}, 0) : Cdiv(x) # i
    BY <2>0, <2>1
  <2>3. i \in Short(u, c + 1, {}, 0)
    BY <1>6, <2>2, ShortIs
  <2> QED BY <1>13, <2>3
\* The blocks up to the whole ones are as they were.
<1>19. ASSUME NEW i \in 1..N, i <= q, Real(u, i), s.cached < i, i \notin v.partial
       PROVE  u.blocks[i].holds = i * Block
  <2>1. i \in 1..n /\ i <= a
    BY <1>2, <1>4, <1>19
  <2>2. Real(s, i) /\ s.blocks[i].holds = u.blocks[i].holds
    <3>1. CASE i = a
      <4>1. s.blocks[a].holds # 0
        BY <1>7, <1>10
      <4> QED BY <1>0, <1>7, <2>1, <3>1, <4>1, RealIs
    <3>2. CASE i # a
      <4>1. u.blocks[i] \in {NullBlock, s.blocks[i]}
        BY <1>8, <2>1, <3>2
      <4>2. u.blocks[i] = s.blocks[i] /\ u.blocks[i] # NullBlock
        BY <1>19, <4>1 DEF Real
      <4>3. i \in DOMAIN s.blocks
        BY <1>0, <2>1, SlotFields
      <4> QED BY <4>2, <4>3 DEF Real
    <3> QED BY <3>1, <3>2
  <2>3. i \notin s.partial
    BY <1>18, <1>19
  <2>4. i \in s.cached + 1..c \div Block /\ i <= Len(s.blocks)
    BY <1>0, <1>19, <2>1, SlotFields
  <2> QED BY <2>2, <2>3, <2>4 DEF Kept, Pending
<1>20. \A i \in 1..N : u.blocks[i].label > 0 => i <= q
  <2> SUFFICES ASSUME NEW i \in 1..N, u.blocks[i].label > 0 PROVE i <= q
    OBVIOUS
  <2>1. i <= a
    BY <1>9
  <2> QED BY <1>4, <1>7, <2>1
\* The copy of the running state, and the deferred commit.
<1>21. y \in SlotRec /\ Len(y.blocks) = N /\ y.pool = v.pool /\ y.tail = 0 /\ y.cached = v.cached
       /\ y.partial = v.partial
       /\ (\A i \in 1..N : y.blocks[i].label = v.blocks[i].label)
       /\ (\A i \in 1..N : i # z \/ z = a => y.blocks[i].holds = v.blocks[i].holds)
       /\ y.blocks[z].holds = v.blocks[a].holds
  <2>1. CASE z = a
    <3>1. y = v
      BY <1>0, <2>1 DEF Precopied
    <3> QED BY <1>13, <2>1, <3>1
  <2>2. CASE z # a
    <3>1. PICK h \in Int : h = v.blocks[a].holds
      <4>1. a \in 1..N
        BY <1>3, <1>4
      <4> QED BY <1>13, <4>1, SlotFields
    <3>2. y = Wrote(v, z, h)
      BY <1>0, <2>2, <3>1 DEF Precopied, Running
    <3>3. WroteOf(v, z, h, y)
      BY <1>13, <3>1, <3>2, WroteIs
    <3>4. z \in a + 1..N /\ z \in 1..N
      BY <1>1, <1>3, <2>2
    <3>5. v.blocks[z].holds # 0
      BY <1>9, <1>23, <3>4, SMTT(30)
    <3>6. Real(v, z)
      BY <1>13, <3>4, <3>5, RealIs
    <3>7. /\ y \in SlotRec /\ Len(y.blocks) = N /\ y.pool = v.pool /\ y.tail = v.tail
          /\ y.cached = v.cached /\ y.partial = v.partial
      BY <1>23, <3>3 DEF WroteOf
    <3>8. \A i \in 1..N : /\ y.blocks[i].label = v.blocks[i].label
                         /\ y.blocks[i].holds = IF i = z THEN h ELSE v.blocks[i].holds
      BY <1>23, <3>3, <3>6 DEF WroteOf
    <3>9. /\ \A i \in 1..N : i # z \/ z = a => y.blocks[i].holds = v.blocks[i].holds
          /\ y.blocks[z].holds = v.blocks[a].holds
      BY <2>2, <3>1, <3>4, <3>8
    <3> QED BY <1>13, <3>7, <3>8, <3>9
  <2> QED BY <2>1, <2>2
<1>28. y \in SlotRec /\ Len(y.blocks) = N /\ y.pool = v.pool /\ y.tail = 0 /\ y.cached = v.cached
       /\ y.partial = v.partial
  BY <1>21
<1>31. \A i \in 1..N : y.blocks[i].label = v.blocks[i].label
  BY <1>21
<1>33. \A i \in 1..N : i # z \/ z = a => y.blocks[i].holds = u.blocks[i].holds
  BY <1>21, <1>23
<1>34. y.blocks[z].holds = v.blocks[a].holds
  BY <1>21
<1>22. r \in SlotRec /\ Len(r.blocks) = N /\ r.pool = v.pool /\ r.tail = 0 /\ r.cached = v.cached
       /\ r.partial = v.partial
       /\ (\A i \in 1..N : r.blocks[i].label = v.blocks[i].label)
       /\ (\A i \in 1..N : i <= q => r.blocks[i].holds = u.blocks[i].holds)
       /\ r.blocks[z].holds = c /\ r.blocks[a].holds = c
       /\ (\A i \in a + 1..N : r.blocks[i].holds # 0)
  <2>0. a \in 1..N /\ z \in 1..N
    BY <1>1, <1>3, <1>4
  <2>1. CASE d = NoCommit
    <3>1. r = y
      BY <2>1 DEF Landed
    <3>2. y.blocks[a].holds = c /\ y.blocks[z].holds = c
      <4>1. v.blocks[a].holds = c
        BY <1>10, <1>23, <2>0, <2>1
      <4>2. y.blocks[z].holds = c
        BY <1>34, <4>1
      <4>3. a # z => y.blocks[a].holds = c
        BY <1>23, <1>33, <2>0, <4>1
      <4> QED BY <4>2, <4>3
    <3>3. \A i \in 1..N : i <= q => y.blocks[i].holds = u.blocks[i].holds
      <4> SUFFICES ASSUME NEW i \in 1..N, i <= q PROVE y.blocks[i].holds = u.blocks[i].holds
        OBVIOUS
      <4>1. i # z \/ z = a
        BY <1>1, <1>4
      <4> QED BY <1>33, <4>1
    <3>4. \A i \in a + 1..N : y.blocks[i].holds # 0
      <4> SUFFICES ASSUME NEW i \in a + 1..N PROVE y.blocks[i].holds # 0
        OBVIOUS
      <4>1. i \in 1..N
        OBVIOUS
      <4>2. CASE i = z
        BY <3>2, <4>2
      <4>3. CASE i # z
        BY <1>9, <1>33, <4>1, <4>3
      <4> QED BY <4>2, <4>3
    <3> QED BY <1>28, <1>31, <3>1, <3>2, <3>3, <3>4, SMTT(30)
  <2>2. CASE d # NoCommit
    <3>1. d = [to |-> c, boundary |-> 0] /\ c % Block # 0 /\ z = a
      BY <1>1, <2>2 DEF Kept, Due
    <3>2. r = Wrote(y, a, c)
      BY <1>0, <2>2, <3>1 DEF Landed
    <3>3. WroteOf(y, a, c, r)
      BY <1>28, <3>2, WroteIs
    <3>4. y.blocks[a].holds # 0
      BY <1>10, <1>33, <2>0, <3>1
    <3>5. Real(y, a)
      BY <1>28, <2>0, <3>4, RealIs
    <3>12. \A i \in 1..N : r.blocks[i].holds = IF i = a /\ Real(y, a) THEN c ELSE y.blocks[i].holds
      BY <1>28, <3>3 DEF WroteOf
    <3>6. r.blocks[a].holds = c
      BY <2>0, <3>5, <3>12
    <3>7. \A i \in 1..N : i # a => r.blocks[i].holds = u.blocks[i].holds
      BY <1>33, <3>1, <3>12
    <3>8. \A i \in 1..N : i <= q => r.blocks[i].holds = u.blocks[i].holds
      BY <1>4, <3>1, <3>7
    <3>9. \A i \in a + 1..N : r.blocks[i].holds # 0
      BY <1>9, <3>7
    <3>10. /\ r \in SlotRec /\ Len(r.blocks) = Len(y.blocks) /\ r.pool = y.pool /\ r.tail = y.tail
           /\ r.cached = y.cached /\ r.partial = y.partial
           /\ \A i \in 1..Len(y.blocks) : r.blocks[i].label = y.blocks[i].label
      BY <3>3 DEF WroteOf
    <3>11. \A i \in 1..N : r.blocks[i].label = v.blocks[i].label
      BY <1>28, <1>31, <3>10
    <3> QED BY <1>28, <3>1, <3>6, <3>8, <3>9, <3>10, <3>11, SMTT(30)
  <2> QED BY <2>1, <2>2
<1>35. Len(r.blocks) = N /\ \A i \in 1..N : r.blocks[i].label = v.blocks[i].label
  BY <1>22
<1>36. \A i \in 1..N : r.blocks[i].label = IF s.cached + 1 <= i /\ i <= m /\ Real(u, i) /\ i \notin v.partial
                                           THEN i * Block ELSE u.blocks[i].label
  BY <1>15, <1>35
<1>24. ASSUME NEW i \in 1..N, r.blocks[i].label > 0
       PROVE  IF i <= q THEN r.blocks[i].holds = r.blocks[i].label
              ELSE i = q + 1 /\ i * Block = c + 1 /\ r.blocks[i].label = c + 1
  <2>1. CASE s.cached + 1 <= i /\ i <= m /\ Real(u, i) /\ i \notin v.partial
    <3>1. r.blocks[i].label = i * Block
      BY <1>36, <2>1
    <3>2. CASE i <= q
      <4>1. u.blocks[i].holds = i * Block
        BY <1>19, <2>1, <3>2, SlotFields
      <4> QED BY <1>22, <3>1, <3>2, <4>1
    <3>3. CASE ~(i <= q)
      <4>1. i = q + 1 /\ m = q + 1
        BY <1>16, <2>1, <3>3
      <4> QED BY <1>16, <3>1, <3>3, <4>1
    <3> QED BY <3>2, <3>3
  <2>2. CASE ~(s.cached + 1 <= i /\ i <= m /\ Real(u, i) /\ i \notin v.partial)
    <3>1. r.blocks[i].label = u.blocks[i].label
      BY <1>36, <2>2
    <3>2. i <= q
      BY <1>20, <1>24, <3>1
    <3>3. u.blocks[i].holds = u.blocks[i].label
      BY <1>6, <1>24, <3>1 DEF BlocksTrue
    <3> QED BY <1>22, <3>1, <3>2, <3>3
  <2> QED BY <2>1, <2>2
<1>25. ASSUME NEW i \in 1..N, u.blocks[i].label > 0 PROVE r.blocks[i].label = u.blocks[i].label
  <2>1. i <= q
    BY <1>20, <1>25
  <2>2. CASE s.cached + 1 <= i /\ i <= m /\ Real(u, i) /\ i \notin v.partial
    <3>1. u.blocks[i].holds = i * Block
      BY <1>19, <2>1, <2>2, SlotFields
    <3>2. u.blocks[i].holds = u.blocks[i].label
      BY <1>6, <1>25 DEF BlocksTrue
    <3> QED BY <1>36, <2>2, <3>1, <3>2
  <2>3. CASE ~(s.cached + 1 <= i /\ i <= m /\ Real(u, i) /\ i \notin v.partial)
    BY <1>36, <2>3
  <2> QED BY <2>2, <2>3
<1>26. Hits(s) \subseteq Hits(r)
  <2> SUFFICES ASSUME NEW h \in Hits(u) PROVE h \in Hits(r)
    BY <1>6
  <2>1. CASE \E x \in u.pool : x.label > 0 /\ x.label = h
    BY <1>13, <1>22, <2>1, HitsAre
  <2>2. CASE \E i \in 1..Len(u.blocks) : u.blocks[i].label > 0 /\ u.blocks[i].label = h
    BY <1>6, <1>22, <1>25, <1>35, <2>2, HitsAre, SMTT(30)
  <2> QED BY <1>6, <2>1, <2>2, HitsAre
<1>27. PoolTrue(r)
  BY <1>6, <1>13, <1>22 DEF PoolTrue
<1>29. \A i \in r.partial : i \in s.partial
  BY <1>17, <1>22
<1>30. \A i \in 1..Len(r.blocks) : r.blocks[i].label > 0 =>
         IF i <= c \div Block THEN r.blocks[i].holds = r.blocks[i].label
         ELSE i = c \div Block + 1 /\ i * Block = c + 1 /\ r.blocks[i].label = c + 1
  BY <1>0, <1>24, <1>35
<1>32. Len(r.blocks) = Most(Len(s.blocks), Cdiv(end)) /\ r.cached = Most(s.cached, (c + 1) \div Block)
  BY <1>0, <1>13, <1>22
<1> QED BY <1>0, <1>22, <1>26, <1>27, <1>29, <1>30, <1>32 DEF ReadyOf

\* What a verify that starts from the right state has to commit.
CommitOf(c, to) ==
  [to |-> to, boundary |-> IF to \div Block > c \div Block THEN FloorTo(to, Block) ELSE 0]

\* After a verify of n tokens: the whole blocks, and the block of the new state.
LEMMA StepIs ==
  ASSUME NEW c \in Nat, NEW k \in 0..SpecTokens, NEW n \in 1..k + 1
  PROVE  /\ c + n \in Nat /\ c < c + n
         /\ (c + n) \div Block \in {c \div Block, c \div Block + 1}
         /\ Cdiv(c + n) \in {Cdiv(c), Cdiv(c) + 1} /\ Cdiv(c + n) <= Cdiv(c + 1 + k)
         /\ c \div Block < Cdiv(c + n)
         /\ (c + n) \div Block = c \div Block + 1 => FloorTo(c + n, Block) = (c \div Block + 1) * Block
<1>1. k \in Nat /\ n \in Nat /\ 1 <= n /\ n <= k + 1 /\ n <= Block
  BY WindowAssumption, BlockNat DEF SpecQueryLen
<1>2. c + n \in Nat /\ c < c + n /\ c + n <= c + Block /\ c + 1 + k \in Nat /\ c + n <= c + 1 + k
  BY <1>1, Units
<1>3. c \div Block <= (c + n) \div Block /\ (c + n) \div Block <= c \div Block + 1
  BY <1>2, QuotOrder, QuotNear
<1>4. Cdiv(c) <= Cdiv(c + n) /\ Cdiv(c + n) <= Cdiv(c) + 1 /\ Cdiv(c + n) <= Cdiv(c + 1 + k)
  BY <1>2, CdivOrder, CdivNear
<1>5. Cdiv(c) \in Nat /\ Cdiv(c + n) \in Nat /\ c \div Block \in Nat /\ (c + n) \div Block \in Nat
  BY <1>2, CdivOf
<1>6. c \div Block < Cdiv(c + n)
  BY <1>2, LaterBlock
<1>7. FloorTo(c + n, Block) = ((c + n) \div Block) * Block
  BY <1>2, Floors, Units
<1> QED BY <1>2, <1>3, <1>4, <1>5, <1>6, <1>7

\* Blocks with the same labels are hit at the same positions: a state write
\* changes no label.
LEMMA SameHits ==
  ASSUME NEW r \in SlotRec, NEW t \in SlotRec, t.pool = r.pool, Len(t.blocks) = Len(r.blocks),
         \A i \in 1..Len(r.blocks) : t.blocks[i].label = r.blocks[i].label
  PROVE  Hits(t) = Hits(r)
<1>1. ASSUME NEW h PROVE h \in Hits(t) <=> h \in Hits(r)
  BY HitsAre
<1> QED BY <1>1

\* What a verify finds and what it has computed after it.
Verified(s, c, k, n, pe, b, r) ==
  /\ s \in SlotRec /\ c \in Nat /\ c > 0 /\ pe \in Nat /\ pe <= c /\ k \in 0..SpecTokens /\ n \in 1..k + 1
  /\ Len(s.blocks) \in {Cdiv(c), Cdiv(c) + 1}
  /\ \A i \in s.partial : i <= Cdiv(c)
  /\ ReadyOf(s, c, c + 1 + k, r)

\* A label on the block that the step completes is one that the new tokens fill.
Facts(a, z, q, N, to, m, c, r) ==
  /\ {a, z, q, N, to, m} \subseteq Nat /\ c < to /\ m \in {q, q + 1} /\ z \in {a, a + 1} /\ z <= N
  /\ q < z /\ N \in {a, a + 1} /\ 0 < a /\ q + 1 \in {a, a + 1}
  /\ z = (IF to % Block = 0 THEN m ELSE m + 1)
  /\ \A i \in a..N : r.blocks[i].holds # 0
  /\ \A i \in 1..N : r.blocks[i].label > 0 =>
       \/ i <= q /\ r.blocks[i].holds = r.blocks[i].label
       \/ i = q + 1 /\ m = q + 1 /\ r.blocks[i].label = (q + 1) * Block
  /\ r.cached \in Nat /\ q <= r.cached
  /\ \A i \in r.partial : i <= z

\* A verify that starts as Verified says gives the facts that both ways of
\* committing rest on.
LEMMA VerifiedIs ==
  ASSUME NEW s, NEW c, NEW k, NEW n, NEW pe, NEW b, NEW r, Verified(s, c, k, n, pe, b, r)
  PROVE  Facts(Cdiv(c), Cdiv(c + n), c \div Block, Len(r.blocks), c + n, (c + n) \div Block, c, r)
<1>0. PICK a, z, q, N, to, m : a = Cdiv(c) /\ z = Cdiv(to) /\ q = c \div Block /\ N = Len(r.blocks)
                               /\ to = c + n /\ m = to \div Block
  OBVIOUS
<1>1. s \in SlotRec /\ c \in Nat /\ c > 0 /\ k \in 0..SpecTokens /\ n \in 1..k + 1 /\ ReadyOf(s, c, c + 1 + k, r)
      /\ Len(s.blocks) \in {a, a + 1} /\ \A i \in s.partial : i <= a
  BY <1>0 DEF Verified
<1>2. to \in Nat /\ c < to /\ m \in {q, q + 1} /\ z \in {a, a + 1} /\ z <= Cdiv(c + 1 + k) /\ q < z
  BY <1>0, <1>1, StepIs
<1>3. a \in Nat /\ q \in Nat /\ m \in Nat /\ z \in Nat /\ z = (IF to % Block = 0 THEN m ELSE m + 1)
      /\ a = (IF c % Block = 0 THEN q ELSE q + 1)
  BY <1>0, <1>1, <1>2, CdivOf
<1>4. 0 < a
  <2>1. 0 % Block = 0
    BY Units
  <2>2. Cdiv(0) \in Nat /\ Cdiv(0) < Cdiv(c)
    BY <1>0, <1>1, <2>1, CdivAfter, CdivOf
  <2> QED BY <1>0, <1>3, <2>2
<1>5. Cdiv(c + 1 + k) \in {a, a + 1}
  BY <1>0, <1>1, WindowIs
<1>6. r \in SlotRec /\ N = Most(Len(s.blocks), Cdiv(c + 1 + k)) /\ r.blocks[a].holds = c
      /\ (\A i \in a + 1..N : r.blocks[i].holds # 0) /\ (\A i \in r.partial : i \in s.partial)
      /\ r.cached = Most(s.cached, (c + 1) \div Block)
  BY <1>0, <1>1 DEF ReadyOf
<1>7. N \in {a, a + 1} /\ z <= N
  BY <1>1, <1>2, <1>3, <1>5, <1>6 DEF Most
<1>8. \A i \in a..N : r.blocks[i].holds # 0
  <2> SUFFICES ASSUME NEW i \in a..N PROVE r.blocks[i].holds # 0
    OBVIOUS
  <2>1. i = a \/ i \in a + 1..N
    BY <1>3, <1>7
  <2> QED BY <1>1, <1>6, <2>1
<1>9. c + 1 <= to
  <2>1. n \in Nat /\ 1 <= n
    BY <1>1, WindowAssumption
  <2> QED BY <1>0, <1>1, <2>1
<1>10. ASSUME NEW i \in 1..N, r.blocks[i].label > 0
       PROVE  \/ i <= q /\ r.blocks[i].holds = r.blocks[i].label
              \/ i = q + 1 /\ m = q + 1 /\ r.blocks[i].label = (q + 1) * Block
  <2>1. IF i <= q THEN r.blocks[i].holds = r.blocks[i].label
        ELSE i = q + 1 /\ i * Block = c + 1 /\ r.blocks[i].label = c + 1
    BY <1>0, <1>1, <1>10 DEF ReadyOf
  <2>2. CASE ~(i <= q)
    <3>1. i = q + 1 /\ i * Block = c + 1 /\ r.blocks[i].label = c + 1
      BY <2>1, <2>2
    <3>2. i \in Nat /\ i * Block <= to
      BY <1>3, <1>9, <3>1
    <3>3. i <= m
      BY <1>0, <1>2, <3>2, EndsBefore
    <3> QED BY <1>2, <1>3, <3>1, <3>3
  <2> QED BY <2>1, <2>2
<1>11. r.cached \in Nat /\ q <= r.cached
  <2>1. s.cached \in Nat /\ c + 1 \in Nat
    BY <1>1, SlotFields
  <2>2. (c + 1) \div Block \in Nat /\ q <= (c + 1) \div Block
    <3>1. c <= c + 1
      BY <1>1
    <3> QED BY <1>0, <1>1, <2>1, <3>1, CdivOf, QuotOrder
  <2> QED BY <1>3, <1>6, <2>1, <2>2 DEF Most
<1>12. \A i \in r.partial : i <= z
  <2> SUFFICES ASSUME NEW i \in r.partial PROVE i <= z
    OBVIOUS
  <2>1. i \in Nat /\ i <= a
    BY <1>1, <1>6, SlotFields
  <2> QED BY <1>2, <1>3, <2>1
<1>13. N \in Nat
  BY <1>0, <1>6, SlotFields
<1>14. q + 1 \in {a, a + 1}
  BY <1>3
<1>15. Facts(a, z, q, N, to, m, c, r)
  BY <1>2, <1>3, <1>4, <1>7, <1>8, <1>10, <1>11, <1>12, <1>13, <1>14 DEF Facts
<1> QED BY <1>0, <1>15

\* The commit lands at once.
LEMMA CommitKeeps ==
  ASSUME NEW s, NEW c, NEW k, NEW n, NEW pe, NEW b, NEW r, Verified(s, c, k, n, pe, b, r),
         NEW t, t = Landed(r, CommitOf(c, c + n))
  PROVE  t \in SlotRec /\ Kept(t, c + n, NoCommit, pe, b) /\ PoolTrue(t) /\ Hits(t) = Hits(r)
<1>1. PICK a, z, q, N, to, m : a = Cdiv(c) /\ z = Cdiv(to) /\ q = c \div Block /\ N = Len(r.blocks)
                               /\ to = c + n /\ m = to \div Block
  OBVIOUS
<1>2. /\ {a, z, q, N, to, m} \subseteq Nat /\ c < to /\ m \in {q, q + 1} /\ z \in {a, a + 1} /\ z <= N
      /\ q < z /\ N \in {a, a + 1} /\ 0 < a /\ q + 1 \in {a, a + 1}
      /\ z = (IF to % Block = 0 THEN m ELSE m + 1)
      /\ \A i \in a..N : r.blocks[i].holds # 0
      /\ \A i \in 1..N : r.blocks[i].label > 0 =>
           \/ i <= q /\ r.blocks[i].holds = r.blocks[i].label
           \/ i = q + 1 /\ m = q + 1 /\ r.blocks[i].label = (q + 1) * Block
      /\ r.cached \in Nat /\ q <= r.cached
      /\ \A i \in r.partial : i <= z
  <2>1. Facts(a, z, q, N, to, m, c, r)
    BY <1>1, VerifiedIs
  <2> QED BY <2>1 DEF Facts
<1>3. r \in SlotRec /\ r.tail = 0 /\ PoolTrue(r) /\ c \in Nat /\ pe \in Nat /\ pe <= c
      /\ k \in 0..SpecTokens /\ n \in 1..k + 1
  BY DEF Verified, ReadyOf
<1>4. PICK w : w = IF m = q + 1 THEN (q + 1) * Block ELSE 0
  OBVIOUS
<1>5. CommitOf(c, c + n) = [to |-> to, boundary |-> w]
  <2>1. m > q <=> m = q + 1
    BY <1>2
  <2>2. m = q + 1 => FloorTo(to, Block) = (q + 1) * Block
    BY <1>1, <1>3, StepIs
  <2> QED BY <1>1, <1>4, <2>1, <2>2 DEF CommitOf
<1>6. w \in Nat /\ (w > 0 <=> m = q + 1) /\ (w > 0 => Cdiv(w) = q + 1)
  <2>1. q + 1 \in Nat /\ (q + 1) * Block \in Nat /\ (q + 1) * Block > 0
    BY <1>2, Units
  <2>2. Cdiv((q + 1) * Block) = q + 1
    BY <2>1, WholeBlocks
  <2> QED BY <1>4, <2>1, <2>2
<1>7. PICK x : x = IF w > 0 THEN Wrote(r, q + 1, w) ELSE r
  OBVIOUS
<1>8. t = Wrote(x, z, to)
  <2>1. [to |-> to, boundary |-> w] # NoCommit
    BY <1>2, <1>3 DEF NoCommit
  <2>2. t = Landed(r, [to |-> to, boundary |-> w])
    BY <1>5
  <2> QED BY <1>1, <1>6, <1>7, <2>1, <2>2 DEF Landed
<1>9. \A i \in a..N : i \in 1..N /\ Real(r, i)
  <2> SUFFICES ASSUME NEW i \in a..N PROVE i \in 1..N /\ Real(r, i)
    OBVIOUS
  <2>1. i \in 1..N
    BY <1>2
  <2>2. r.blocks[i].holds # 0
    BY <1>2
  <2> QED BY <1>1, <1>3, <2>1, <2>2, RealIs
<1>10. x \in SlotRec /\ Len(x.blocks) = N /\ x.partial = r.partial /\ x.tail = 0 /\ x.cached = r.cached
       /\ x.pool = r.pool
       /\ (\A j \in 1..N : /\ x.blocks[j].label = r.blocks[j].label
                           /\ x.blocks[j].holds = IF j = q + 1 /\ m = q + 1 THEN w ELSE r.blocks[j].holds)
  <2>1. CASE w > 0
    <3>1. x = Wrote(r, q + 1, w)
      BY <1>7, <2>1
    <3>2. WroteOf(r, q + 1, w, x)
      BY <1>3, <1>6, <3>1, WroteIs
    <3>3. q + 1 \in a..N
      BY <1>2
    <3>4. Real(r, q + 1) /\ m = q + 1
      BY <1>6, <1>9, <2>1, <3>3
    <3> QED BY <1>1, <1>3, <3>2, <3>4 DEF WroteOf
  <2>2. CASE ~(w > 0)
    <3>1. x = r /\ m # q + 1
      BY <1>6, <1>7, <2>2
    <3> QED BY <1>1, <1>3, <3>1
  <2> QED BY <2>1, <2>2
<1>11. z \in a..N /\ z \in 1..N
  BY <1>2
<1>12. x.blocks[z].holds # 0
  <2>1. r.blocks[z].holds # 0 /\ (m = q + 1 => w # 0)
    BY <1>2, <1>6, <1>11
  <2> QED BY <1>10, <1>11, <2>1
<1>13. Real(x, z)
  BY <1>10, <1>11, <1>12, RealIs
<1>14. WroteOf(x, z, to, t)
  BY <1>2, <1>8, <1>10, WroteIs
<1>15. t \in SlotRec /\ Len(t.blocks) = N /\ t.partial = r.partial /\ t.tail = 0 /\ t.cached = r.cached
       /\ t.pool = r.pool
       /\ (\A j \in 1..N : t.blocks[j].label = r.blocks[j].label)
       /\ (\A j \in 1..N : t.blocks[j].holds = IF j = z THEN to
                                               ELSE IF j = q + 1 /\ m = q + 1 THEN w ELSE r.blocks[j].holds)
  BY <1>10, <1>13, <1>14 DEF WroteOf
<1>16. m = q + 1 => q + 1 \in 1..N /\ t.blocks[q + 1].holds = (q + 1) * Block
  <2> SUFFICES ASSUME m = q + 1 PROVE q + 1 \in 1..N /\ t.blocks[q + 1].holds = (q + 1) * Block
    OBVIOUS
  <2>1. q + 1 \in 1..N
    BY <1>2
  <2>2. CASE z = q + 1
    <3>1. to % Block = 0
      BY <1>2, <2>2
    <3>2. to = z * Block
      BY <1>1, <1>2, <3>1, WholeIs
    <3> QED BY <1>15, <2>1, <2>2, <3>2
  <2>3. CASE z # q + 1
    BY <1>4, <1>15, <2>1, <2>3
  <2> QED BY <2>1, <2>2, <2>3
<1>17. BlocksTrue(t)
  <2> SUFFICES ASSUME NEW i \in 1..N, t.blocks[i].label > 0 PROVE t.blocks[i].holds = t.blocks[i].label
    BY <1>15 DEF BlocksTrue
  <2>1. t.blocks[i].label = r.blocks[i].label
    BY <1>15
  <2>2. CASE i <= q /\ r.blocks[i].holds = r.blocks[i].label
    <3>1. i # z /\ i # q + 1
      BY <1>2, <2>2
    <3> QED BY <1>15, <2>1, <2>2, <3>1
  <2>3. CASE i = q + 1 /\ m = q + 1 /\ r.blocks[i].label = (q + 1) * Block
    BY <1>16, <2>1, <2>3
  <2> QED BY <1>2, <2>1, <2>2, <2>3
<1>18. PoolTrue(t)
  BY <1>3, <1>15 DEF PoolTrue
<1>19. Place(t, to, pe)
  <2>1. ~(to % Block # 0 /\ t.blocks[z].label > 0)
    <3> SUFFICES ASSUME to % Block # 0, t.blocks[z].label > 0 PROVE FALSE
      OBVIOUS
    <3>1. z = m + 1 /\ r.blocks[z].label > 0
      BY <1>2, <1>11, <1>15
    <3> QED BY <1>2, <1>11, <3>1
  <2>2. Len(t.blocks) \in {z, z + 1} /\ t.tail = 0
    BY <1>2, <1>15
  <2>3. ~(to < pe)
    BY <1>2, <1>3
  <2> QED BY <1>1, <1>17, <1>18, <2>1, <2>2, <2>3 DEF Place, Laid
<1>20. RunsIn(t, to, NoCommit)
  <2>1. to # 0
    BY <1>2, <1>3
  <2> QED BY <1>1, <1>11, <1>15, <2>1 DEF RunsIn
<1>21. Spare(t, to)
  <2> SUFFICES ASSUME NEW i \in z + 1..N PROVE t.blocks[i].holds # 0 /\ t.blocks[i].label = 0
    BY <1>1, <1>15 DEF Spare
  <2>1. i \in a..N /\ i \in 1..N /\ i # z /\ i # q + 1 /\ ~(i <= q)
    BY <1>2
  <2>2. r.blocks[i].label \in Nat
    BY <1>1, <1>3, <2>1, SlotFields
  <2>3. ~(r.blocks[i].label > 0)
    BY <1>2, <2>1
  <2>4. t.blocks[i].label = r.blocks[i].label /\ t.blocks[i].holds = r.blocks[i].holds
    BY <1>15, <2>1
  <2> QED BY <1>2, <2>1, <2>2, <2>3, <2>4
<1>22. Pending(t, to)
  <2> SUFFICES ASSUME NEW i \in r.cached + 1..m PROVE t.blocks[i].holds = i * Block
    BY <1>1, <1>15 DEF Pending
  <2>1. i = q + 1 /\ m = q + 1
    BY <1>2
  <2> QED BY <1>16, <2>1
<1>23. ShortKnown(t, to, pe, b)
  <2>1. ~(to < pe)
    BY <1>2, <1>3
  <2> QED BY <1>1, <1>2, <1>15, <2>1 DEF ShortKnown
<1>24. Due(t, to, NoCommit, pe)
  BY DEF Due
<1>25. Kept(t, to, NoCommit, pe, b)
  BY <1>19, <1>20, <1>21, <1>22, <1>23, <1>24 DEF Kept
<1>26. Hits(t) = Hits(r)
  BY <1>1, <1>3, <1>15, SameHits
<1> QED BY <1>1, <1>15, <1>18, <1>25, <1>26

\* The commit is left to the next step.
LEMMA DeferKeeps ==
  ASSUME NEW s, NEW c, NEW k, NEW n, NEW pe, NEW b, NEW r, Verified(s, c, k, n, pe, b, r),
         ~CommitsNow(c, c + n)
  PROVE  Kept(r, c + n, CommitOf(c, c + n), pe, b)
<1>1. PICK a, z, q, N, to, m : a = Cdiv(c) /\ z = Cdiv(to) /\ q = c \div Block /\ N = Len(r.blocks)
                               /\ to = c + n /\ m = to \div Block
  OBVIOUS
<1>2. /\ {a, z, q, N, to, m} \subseteq Nat /\ c < to /\ m \in {q, q + 1} /\ z \in {a, a + 1} /\ z <= N
      /\ q < z /\ N \in {a, a + 1} /\ 0 < a /\ q + 1 \in {a, a + 1}
      /\ z = (IF to % Block = 0 THEN m ELSE m + 1)
      /\ \A i \in a..N : r.blocks[i].holds # 0
      /\ \A i \in 1..N : r.blocks[i].label > 0 =>
           \/ i <= q /\ r.blocks[i].holds = r.blocks[i].label
           \/ i = q + 1 /\ m = q + 1 /\ r.blocks[i].label = (q + 1) * Block
      /\ r.cached \in Nat /\ q <= r.cached
      /\ \A i \in r.partial : i <= z
  <2>1. Facts(a, z, q, N, to, m, c, r)
    BY <1>1, VerifiedIs
  <2> QED BY <2>1 DEF Facts
<1>3. r \in SlotRec /\ r.tail = 0 /\ PoolTrue(r) /\ c \in Nat /\ pe \in Nat /\ pe <= c
  BY DEF Verified, ReadyOf
<1>4. ~(m > q) /\ ~((to % Block) + SpecQueryLen > Block)
  BY <1>1 DEF CommitsNow
<1>5. m = q /\ to % Block # 0
  BY <1>2, <1>4
<1>6. (to % Block) + SpecQueryLen <= Block
  <2>1. to % Block \in Nat /\ SpecQueryLen \in Nat /\ Block \in Nat
    <3>1. to \in Nat
      BY <1>2
    <3> QED BY <3>1, CdivOf, BlockNat
  <2> QED BY <1>4, <2>1
<1>7. CommitOf(c, c + n) = [to |-> to, boundary |-> 0]
  BY <1>1, <1>4 DEF CommitOf
<1>8. \A i \in 1..N : r.blocks[i].label > 0 => i <= q /\ r.blocks[i].holds = r.blocks[i].label
  BY <1>2, <1>5
<1>9. BlocksTrue(r)
  BY <1>1, <1>8 DEF BlocksTrue
<1>10. Place(r, to, pe)
  <2>1. z \in 1..N /\ ~(r.blocks[z].label > 0)
    BY <1>2, <1>8
  <2>2. Len(r.blocks) \in {z, z + 1}
    BY <1>1, <1>2
  <2>3. ~(to < pe)
    BY <1>2, <1>3
  <2> QED BY <1>1, <1>3, <1>9, <2>1, <2>2, <2>3 DEF Place, Laid
<1>11. to > 0 /\ CommitOf(c, c + n) # NoCommit
  <2>1. to > 0 /\ to # 0
    BY <1>2, <1>3
  <2> QED BY <1>7, <2>1 DEF NoCommit
<1>12. RunsIn(r, to, CommitOf(c, c + n))
  <2>1. z \in a..N
    BY <1>2
  <2> QED BY <1>1, <1>2, <1>11, <2>1 DEF RunsIn
<1>13. Spare(r, to)
  <2> SUFFICES ASSUME NEW i \in z + 1..N PROVE r.blocks[i].holds # 0 /\ r.blocks[i].label = 0
    BY <1>1 DEF Spare
  <2>1. i \in a..N /\ i \in 1..N /\ ~(i <= q)
    BY <1>2
  <2>2. r.blocks[i].label \in Nat
    BY <1>1, <1>3, <2>1, SlotFields
  <2> QED BY <1>2, <1>8, <2>1, <2>2
<1>14. Pending(r, to)
  <2> SUFFICES ASSUME NEW i \in r.cached + 1..m PROVE FALSE
    BY <1>1 DEF Pending
  <2> QED BY <1>2, <1>5
<1>15. ShortKnown(r, to, pe, b)
  <2>1. ~(to < pe)
    BY <1>2, <1>3
  <2> QED BY <1>1, <1>2, <2>1 DEF ShortKnown
<1>16. Due(r, to, CommitOf(c, c + n), pe)
  <2>1. pe <= to
    BY <1>2, <1>3
  <2> QED BY <1>3, <1>5, <1>6, <1>7, <1>11, <2>1 DEF Due
<1> QED BY <1>1, <1>10, <1>12, <1>13, <1>14, <1>15, <1>16 DEF Kept

-----------------------------------------------------------------------------
\* Admission, flushes, the allocation's assertions and the tail of a prompt.

\* A request starts from the one block it hit.
LEMMA AdmittedIs ==
  ASSUME NEW h \in Nat, NEW pe \in Nat, NEW b \in BOOLEAN, b => ReplayOn
  PROVE  Admitted(h) \in SlotRec /\ Kept(Admitted(h), h, NoCommit, pe, b)
<1>1. PICK a \in Nat : a = Cdiv(h)
  BY CdivOf
<1>2. PICK s : s = Admitted(h)
  OBVIOUS
<1> DEFINE f == [i \in 1..a |-> IF i < a THEN NullBlock ELSE [holds |-> h, label |-> h]]
<1>3. PICK part : part = IF h % Block # 0 /\ ReplayOn THEN {a} ELSE {}
  OBVIOUS
<1>4. PICK tail : tail = IF h % Block # 0 THEN a ELSE 0
  OBVIOUS
<1>5. PICK k \in Nat : k = h \div Block
  BY CdivOf
<1>6. s = [blocks |-> f, partial |-> part, tail |-> tail, cached |-> k, last |-> 0, pool |-> {}]
  BY <1>1, <1>2, <1>3, <1>4, <1>5 DEF Admitted, Slots
<1>7. f \in [1..a -> BlockRec]
  <2>1. [holds |-> h, label |-> h] \in BlockRec
    BY DEF BlockRec
  <2> QED BY <2>1, BlocksRec
<1>8. \A i \in 1..a : f[i] = IF i < a THEN NullBlock ELSE [holds |-> h, label |-> h]
  OBVIOUS
<1> HIDE DEF f
<1>9. f \in Seq(BlockRec) /\ Len(f) = a
  BY <1>1, <1>7, Listed
<1>10. part \subseteq Nat /\ tail \in Nat
  BY <1>1, <1>3, <1>4
<1>11. s \in SlotRec
  BY <1>5, <1>6, <1>9, <1>10 DEF SlotRec
<1>12. s.blocks = f /\ Len(s.blocks) = a /\ s.partial = part /\ s.tail = tail /\ s.cached = k /\ s.pool = {}
  BY <1>6, <1>9
<1>13. \A i \in 1..a : IF i < a THEN s.blocks[i].holds = 0 /\ s.blocks[i].label = 0
                       ELSE s.blocks[i].holds = h /\ s.blocks[i].label = h
  BY <1>8, <1>12 DEF NullBlock
<1>14. h > 0 => a \in 1..a
  <2>1. 0 % Block = 0
    BY Units
  <2>2. h > 0 => 0 < Cdiv(h)
    BY <2>1, CdivAfter, CdivOf
  <2> QED BY <1>1, <2>2
<1>15. Place(s, h, pe)
  <2>1. BlocksTrue(s) /\ PoolTrue(s)
    BY <1>12, <1>13 DEF BlocksTrue, PoolTrue
  <2> QED BY <1>1, <1>4, <1>5, <1>12, <2>1 DEF Place, Laid
<1>16. RunsIn(s, h, NoCommit)
  BY <1>1, <1>13, <1>14 DEF RunsIn
<1>17. Spare(s, h) /\ Pending(s, h)
  BY <1>1, <1>5, <1>12 DEF Spare, Pending
<1>18. ShortKnown(s, h, pe, b)
  BY <1>1, <1>3, <1>12 DEF ShortKnown
<1>19. Kept(s, h, NoCommit, pe, b)
  BY <1>15, <1>16, <1>17, <1>18 DEF Kept, Due
<1> QED BY <1>2, <1>11, <1>19

\* A deferred commit is flushed by a step that leaves the request out.
LEMMA FlushKeeps ==
  ASSUME NEW s \in SlotRec, NEW c \in Nat, NEW d, d # NoCommit, NEW pe \in Nat, NEW b,
         Kept(s, c, d, pe, b), NEW t, t = Landed(s, d)
  PROVE  /\ t \in SlotRec /\ Kept(t, c, NoCommit, pe, b) /\ Hits(t) = Hits(s)
         /\ c > 0 => Running(t, c) = c
<1>1. PICK a \in Nat, n \in Nat, q \in Nat : a = Cdiv(c) /\ n = Len(s.blocks) /\ q = c \div Block
  BY CdivOf, SlotFields
<1>2. d = [to |-> c, boundary |-> 0] /\ c > 0 /\ c % Block # 0 /\ s.tail = 0 /\ pe <= c
  BY DEF Kept, Due
<1>3. a = q + 1
  BY <1>1, <1>2, CdivOf
<1>4. t = Wrote(s, a, c)
  BY <1>1, <1>2 DEF Landed
<1>5. n \in {a, a + 1} /\ BlocksTrue(s) /\ PoolTrue(s)
      /\ (s.blocks[a].label > 0 => s.tail = a)
  BY <1>1, <1>2 DEF Kept, Place, Laid
<1>6. a \in 1..n
  BY <1>3, <1>5
<1>7. s.blocks[a].holds # 0
  BY <1>1, <1>2 DEF Kept, RunsIn
<1>8. Real(s, a)
  BY <1>1, <1>6, <1>7, RealIs
<1>9. WroteOf(s, a, c, t)
  BY <1>4, WroteIs
<1>10. t \in SlotRec /\ Len(t.blocks) = n /\ t.partial = s.partial /\ t.tail = 0 /\ t.cached = s.cached
       /\ t.pool = s.pool
       /\ (\A j \in 1..n : t.blocks[j].label = s.blocks[j].label)
       /\ (\A j \in 1..n : j # a => t.blocks[j].holds = s.blocks[j].holds)
       /\ t.blocks[a].holds = c
  BY <1>1, <1>2, <1>6, <1>8, <1>9 DEF WroteOf
<1>11. ~(s.blocks[a].label > 0)
  BY <1>2, <1>3, <1>5
<1>12. BlocksTrue(t) /\ PoolTrue(t)
  <2>1. BlocksTrue(t)
    <3> SUFFICES ASSUME NEW i \in 1..n, t.blocks[i].label > 0 PROVE t.blocks[i].holds = t.blocks[i].label
      BY <1>10 DEF BlocksTrue
    <3>1. i # a
      BY <1>10, <1>11
    <3> QED BY <1>1, <1>5, <1>10, <3>1 DEF BlocksTrue
  <2> QED BY <1>5, <1>10, <2>1 DEF PoolTrue
<1>13. Place(t, c, pe)
  BY <1>1, <1>2, <1>5, <1>6, <1>10, <1>11, <1>12 DEF Place, Laid
<1>14. RunsIn(t, c, NoCommit)
  BY <1>1, <1>2, <1>10 DEF RunsIn
<1>15. Spare(t, c)
  <2> SUFFICES ASSUME NEW i \in a + 1..n PROVE t.blocks[i].holds # 0 /\ t.blocks[i].label = 0
    BY <1>1, <1>10 DEF Spare
  <2>1. i \in 1..n /\ i # a
    OBVIOUS
  <2>2. s.blocks[i].holds # 0 /\ s.blocks[i].label = 0
    BY <1>1 DEF Kept, Spare
  <2> QED BY <1>10, <2>1, <2>2
<1>16. Pending(t, c)
  <2> SUFFICES ASSUME NEW i \in s.cached + 1..q, i <= n, Real(t, i), i \notin s.partial
               PROVE  t.blocks[i].holds = i * Block
    BY <1>1, <1>10 DEF Pending
  <2>1. i \in 1..n /\ i # a
    BY <1>3, SlotFields
  <2>2. Real(s, i)
    BY <1>1, <1>10, <2>1, RealIs
  <2>3. s.blocks[i].holds = i * Block
    BY <1>1, <2>2 DEF Kept, Pending
  <2> QED BY <1>10, <2>1, <2>3
<1>17. ShortKnown(t, c, pe, b)
  <2>1. ~(c < pe)
    BY <1>2
  <2> QED BY <1>10, <2>1 DEF Kept, ShortKnown
<1>18. Kept(t, c, NoCommit, pe, b)
  BY <1>13, <1>14, <1>15, <1>16, <1>17 DEF Kept, Due
<1>19. Hits(t) = Hits(s)
  BY <1>1, <1>10, SameHits
<1>20. Running(t, c) = c
  BY <1>1, <1>2, <1>10 DEF Running
<1> QED BY <1>10, <1>18, <1>19, <1>20

\* The assertions of allocate_new_blocks hold for whatever a chunk exports.
LEMMA AllocationIsSound ==
  ASSUME NEW s \in SlotRec, NEW c \in Nat, NEW pe \in Nat, NEW b \in BOOLEAN, b => ReplayOn, c < pe,
         NEW d, Kept(s, c, d, pe, b), NEW e, NEW X, Taken(c, e, X, b),
         NEW u, u = Skipped(s, c)
  PROVE  AllocationSound(u, X, e) /\ u \in SlotRec
<1>1. PICK a \in Nat : a = Cdiv(c)
  BY CdivOf
<1>2. d = NoCommit /\ Len(s.blocks) = a /\ s.tail \in {0, a}
  BY <1>1 DEF Kept, Place, Due, Laid
<1>3. c > 0 => s.blocks[a].holds # 0
  BY <1>1, <1>2 DEF Kept, RunsIn
<1>4. PICK is \in SUBSET (1..Len(s.blocks)) : (\A i \in is : i < Cdiv(c)) /\ u = Freed(s, is)
  BY SkippedIs
<1>5. FreedOf(s, is, u)
  BY <1>4, FreedIs
<1>6. u \in SlotRec /\ Len(u.blocks) = a /\ u.tail = s.tail
      /\ \A i \in 1..a : u.blocks[i] = IF i \in is THEN NullBlock ELSE s.blocks[i]
  BY <1>2, <1>5 DEF FreedOf
<1>7. a > 0 => c > 0
  <2>1. 0 % Block = 0 /\ 0 \div Block = 0
    BY Units
  <2>2. c = 0 => Cdiv(c) = 0
    BY <2>1, CdivOf
  <2> QED BY <1>1, <2>2
<1>8. a > 0 => Real(u, a)
  <2> SUFFICES ASSUME a > 0 PROVE Real(u, a)
    OBVIOUS
  <2>1. a \notin is /\ a \in 1..a
    BY <1>1, <1>4
  <2>2. u.blocks[a].holds # 0
    BY <1>3, <1>6, <1>7, <2>1
  <2> QED BY <1>6, <2>1, <2>2, RealIs
<1>9. e \in Nat /\ X \subseteq Nat /\ (\A p \in X : c < p /\ p < e)
      /\ (\A p \in X, q \in X \cup {e} : Cdiv(p) = Cdiv(q) => p = q) /\ (X # {} => b \/ c % Block = 0)
  BY DEF Taken
<1>10. \A p \in X : Cdiv(p) < Cdiv(e)
  <2> SUFFICES ASSUME NEW p \in X PROVE Cdiv(p) < Cdiv(e)
    OBVIOUS
  <2>1. p \in Nat /\ p < e
    BY <1>9
  <2>2. Cdiv(p) <= Cdiv(e) /\ Cdiv(p) # Cdiv(e) /\ Cdiv(p) \in Nat /\ Cdiv(e) \in Nat
    BY <1>9, <2>1, CdivOf, CdivOrder
  <2> QED BY <2>2
<1>11. ASSUME NEW p \in X, Cdiv(p) <= a PROVE ReplayOn /\ Cdiv(p) = a /\ a > 0
  <2>1. p \in Nat /\ c < p
    BY <1>9
  <2>2. a <= Cdiv(p) /\ c % Block # 0 /\ Cdiv(p) \in Nat /\ c \div Block < Cdiv(p) /\ c \div Block \in Nat
    BY <1>1, <1>11, <2>1, LaterBlock, CdivOf, SMTT(30)
  <2> QED BY <1>9, <1>11, <2>2
<1>12. u.tail > 0 => Real(u, u.tail)
  BY <1>2, <1>6, <1>8
<1>13. AllocationSound(u, X, e)
  BY <1>6, <1>8, <1>10, <1>11, <1>12 DEF AllocationSound
<1> QED BY <1>6, <1>13

\* Quotients keep the order, whatever the unit.
LEMMA FloorBest ==
  ASSUME NEW u \in Nat \ {0}, NEW x \in Nat, NEW n \in Nat, x % u = 0, x <= n
  PROVE  x <= FloorTo(n, u)
<1>1. PICK d \in Nat, e \in Nat, r \in Nat : d = x \div u /\ e = n \div u /\ r = n % u
  OBVIOUS
<1>2. x = d * u /\ n = e * u + r /\ r < u
  BY <1>1, Splits
<1>3. ~(e < d)
  <2> SUFFICES ASSUME e + 1 <= d PROVE FALSE
    OBVIOUS
  <2>1. (e + 1) * u <= d * u
    BY TimesKeepsOrder
  <2>2. (e + 1) * u = e * u + u /\ e * u \in Nat /\ d * u \in Nat
    OBVIOUS
  <2> QED BY <1>2, <2>1, <2>2
<1>4. e * u >= d * u
  BY <1>3, TimesKeepsOrder
<1> QED BY <1>1, <1>2, <1>4 DEF FloorTo

\* Multiples of a multiple.
LEMMA Multiples ==
  ASSUME NEW u \in Nat \ {0}, NEW w \in Nat \ {0}, NEW x \in Nat, x % w = 0, w % u = 0
  PROVE  x % u = 0
<1>1. PICK d \in Nat, e \in Nat : d = x \div w /\ e = w \div u
  OBVIOUS
<1>2. x = d * w /\ w = e * u
  BY <1>1, Splits
<1>3. PICK f \in Nat : f = d * e
  OBVIOUS
<1>4. x = f * u + 0 /\ 0 \in 0..u - 1
  <2>1. d * (e * u) = (d * e) * u
    OBVIOUS
  <2> QED BY <1>2, <1>3, <2>1
<1> QED BY <1>4, Divides

\* A number less a multiple is a multiple only if the number is one.
LEMMA Differences ==
  ASSUME NEW u \in Nat \ {0}, NEW x \in Nat, NEW y \in Nat, y <= x, x % u = 0, (x - y) % u = 0
  PROVE  y % u = 0
<1>1. PICK z \in Nat : z = x - y
  OBVIOUS
<1>2. PICK d \in Nat, e \in Nat : d = x \div u /\ e = z \div u
  BY <1>1
<1>3. x = d * u /\ z = e * u
  BY <1>1, <1>2, Splits
<1>4. ~(d < e)
  <2> SUFFICES ASSUME d + 1 <= e PROVE FALSE
    OBVIOUS
  <2>1. (d + 1) * u <= e * u
    BY TimesKeepsOrder
  <2>2. (d + 1) * u = d * u + u /\ d * u \in Nat /\ e * u \in Nat
    OBVIOUS
  <2> QED BY <1>1, <1>3, <2>1, <2>2
<1>5. PICK f \in Nat : d = e + f
  <2>1. d - e \in Nat /\ d = e + (d - e)
    BY <1>4
  <2> QED BY <2>1
<1>6. d * u = e * u + f * u
  BY <1>5
<1>7. f * u \in Nat /\ e * u \in Nat /\ d * u \in Nat
  OBVIOUS
<1>8. y = f * u + 0 /\ 0 \in 0..u - 1
  BY <1>1, <1>3, <1>6, <1>7
<1> QED BY <1>8, Divides

\* The positions a later prompt looks for are stops, or the same stop.
LEMMA TailIsStop ==
  ASSUME NEW P \in Nat \ {0}, TailBoundary(P, P) # 0, TailBoundary(P, P) < P
  PROVE  TailBoundary(P, P) \in {CacheStop(P, P), TailStop(P, P)}
<1>1. PICK lc \in Nat, tail \in Nat, cache \in Nat, R \in Nat :
        lc = LastCachePosition(P) /\ tail = TailBoundary(P, P) /\ cache = CacheStop(P, P)
        /\ R = ReplayBoundary(P)
  <2>1. 0 \in Nat
    OBVIOUS
  <2> QED BY <2>1, CacheIs, StopsArePositions, BoundaryIs
<1>2. cache \in {0, lc}
  BY <1>1 DEF CacheStop
<1>3. CASE HasBoundary(P, P)
  <2>1. tail = R /\ lc < R
    BY <1>1, <1>3 DEF TailBoundary
  <2>2. cache < tail
    BY <1>2, <2>1
  <2> QED BY <1>1, <2>2 DEF TailStop
<1>4. CASE ~HasBoundary(P, P)
  <2>1. tail = FloorTo(P, HashUnit)
    BY <1>1, <1>4 DEF TailBoundary
  <2>2. lc % HashUnit = 0 /\ lc <= P
    <3>1. lc % Block = 0 /\ lc < P
      BY <1>1, CacheIs
    <3>2. Block % HashUnit = 0
      BY PromptAssumption
    <3>3. lc % HashUnit = 0
      BY <3>1, <3>2, <1>1, Units, Multiples
    <3>4. lc <= P
      BY <3>1, <1>1
    <3> QED BY <3>3, <3>4
  <2>3. lc <= tail
    BY <2>1, <2>2, FloorBest, Units
  <2>4. cache <= tail
    BY <1>2, <2>3
  <2> QED BY <1>1, <2>4 DEF TailStop
<1> QED BY <1>3, <1>4

-----------------------------------------------------------------------------
\* The inductive invariant of HybridSpec, and its theorems.

\* The numbers of the request, and its blocks.
StateType ==
  /\ prompt \in Nat \ {0} /\ tokens \in Nat \ {0} /\ shared \in Nat /\ hit \in Nat /\ computed \in Nat
  /\ slots \in SlotRec

\* While the request has its blocks.
BlocksKept ==
  Here => Kept(slots, computed, deferred, PrefillEnd(prompt, tokens), HasBoundary(prompt, tokens))

\* What a later prompt looks for is saved as soon as it has been computed.
Passed ==
  tokens = prompt =>
    \A p \in {CacheStop(prompt, tokens), TailBoundary(prompt, tokens)} :
      hit < p /\ p < prompt /\ p <= computed => p \in saved

\* A block that another request has taken over has that request's state.
ForeignIntact == given.owner = "other" => given.holds = Theirs

\* The inductive invariant.
StateInv ==
  StateType /\ BlocksKept /\ LabelsTrue /\ ForeignIntact /\ saved \subseteq Hits(slots) /\ Passed /\ PlanAccepted

\* The prefill ends at or after the prompt's end, and a replay boundary applies
\* only with boundary replay on.
LEMMA EndIsNat ==
  ASSUME NEW P \in Nat \ {0}, NEW T \in Nat \ {0}
  PROVE  PrefillEnd(P, T) \in Nat /\ P <= PrefillEnd(P, T)
         /\ HasBoundary(P, T) \in BOOLEAN /\ (HasBoundary(P, T) => ReplayOn)
BY Ways DEF PrefillEnd, Most, HasBoundary

\* What is kept between steps includes that labels tell the truth.
LEMMA KeptLabels ==
  ASSUME NEW s \in SlotRec, NEW c, NEW d, NEW pe, NEW b, Kept(s, c, d, pe, b)
  PROVE  \A x \in Labels(s) : x.holds = x.label
BY TrueLabels DEF Kept, Place, Laid

\* An admitted request starts right.
LEMMA InitInv == HybridInit => StateInv
<1> SUFFICES ASSUME HybridInit PROVE StateInv
  OBVIOUS
<1>1. Init /\ slots = Admitted(hit) /\ deferred = NoCommit /\ given = [owner |-> "self", holds |-> Junk]
  BY DEF HybridInit
<1>2. prompt \in Nat \ {0} /\ tokens \in Nat \ {0}
  BY <1>1, PromptAssumption DEF Init
<1>3. hit \in Nat /\ computed = hit /\ saved = {} /\ last.exports = {}
  BY <1>1, <1>2, BoundaryIs DEF Init
<1>4. shared \in Nat
  BY <1>1, <1>2, <1>3 DEF Init
<1>5. slots \in SlotRec
      /\ Kept(slots, computed, deferred, PrefillEnd(prompt, tokens), HasBoundary(prompt, tokens))
  BY <1>1, <1>2, <1>3, EndIsNat, AdmittedIs
<1>6. LabelsTrue
  BY <1>5, KeptLabels DEF LabelsTrue
<1>7. ForeignIntact /\ saved \subseteq Hits(slots) /\ Passed /\ PlanAccepted
  <2>1. ForeignIntact /\ saved \subseteq Hits(slots) /\ PlanAccepted
    BY <1>1, <1>3 DEF ForeignIntact, PlanAccepted
  <2>2. \A p \in {CacheStop(prompt, tokens), TailBoundary(prompt, tokens)} : p \in Nat
    BY <1>2, <1>3, <1>4, StopsArePositions
  <2>3. Passed
    BY <1>3, <2>2 DEF Passed
  <2> QED BY <2>1, <2>3
<1> QED BY <1>2, <1>3, <1>4, <1>5, <1>6, <1>7 DEF StateInv, StateType, BlocksKept

\* A step with a chunk of the prompt keeps the invariant.
LEMMA PrefillInv == StateInv /\ PrefillStep => StateInv'
<1> SUFFICES ASSUME StateInv, PrefillStep PROVE StateInv'
  OBVIOUS
<1>1. Here /\ UNCHANGED <<deferred, given>>
      /\ slots' = Ran(Scheduled(last'.exports, last'.end, last'.end, PrefillEnd(prompt, tokens), InsideLabels),
                      computed, last'.exports, last'.end)
  BY DEF PrefillStep
<1>2. PICK n \in 1..Budget : Chunk(n)
  BY DEF PrefillStep, Next
<1>3. StateType /\ Kept(slots, computed, deferred, PrefillEnd(prompt, tokens), HasBoundary(prompt, tokens))
  BY <1>1 DEF StateInv, BlocksKept
<1>4. PICK split : split = Split(computed, n, prompt, tokens, shared, Budget)
  OBVIOUS
<1>5. PICK e, X, pe, b, c : /\ e = computed + split.n /\ X = split.exports /\ c = computed
                            /\ pe = PrefillEnd(prompt, tokens) /\ b = HasBoundary(prompt, tokens)
  OBVIOUS
<1>6. /\ computed + n <= pe /\ split.n > 0 /\ computed' = e
      /\ saved' = saved \cup X \cup (IF Cacheable(e) THEN {e} ELSE {})
      /\ last' = [start |-> computed, end |-> e, exports |-> X]
      /\ UNCHANGED <<kda_ckpt, prompt, tokens, shared, hit>>
  BY <1>2, <1>4, <1>5 DEF Chunk
<1>7. pe \in Nat /\ prompt <= pe /\ b \in BOOLEAN /\ (b => ReplayOn)
  BY <1>3, <1>5, EndIsNat DEF StateType
<1>8. n \in Nat \ {0}
  BY PromptAssumption
<1>9. c \in Nat /\ c < pe
  BY <1>3, <1>5, <1>6, <1>7, <1>8 DEF StateType
<1>10. split.n \in Nat /\ Chosen(computed, n, prompt, tokens, split)
  BY <1>3, <1>4, <1>5, <1>6, <1>8, <1>9, SplitIs DEF StateType
<1>11. Taken(c, e, X, b) /\ e <= pe
  <2>1. Taken(c, e, X, b) /\ split.n <= n
    BY <1>5, <1>10 DEF Chosen
  <2> QED BY <1>3, <1>5, <1>6, <1>7, <1>8, <1>10, <2>1 DEF StateType
<1>12. e \in Nat /\ c < e /\ X \subseteq Nat /\ (\A p \in X : c < p /\ p < e)
       /\ (\A p \in X, q \in X \cup {e} : Cdiv(p) = Cdiv(q) => p = q)
  BY <1>11 DEF Taken
<1>13. deferred = NoCommit
  BY <1>3, <1>5, <1>7, <1>9 DEF Kept, Due
<1>14. slots' = Ran(CachedUpTo(Allocated(Skipped(slots, c), X, e), e, X, pe, InsideLabels), c, X, e)
  BY <1>1, <1>5, <1>6 DEF Scheduled
<1>15. slots \in SlotRec /\ Kept(slots, c, NoCommit, pe, b)
  BY <1>3, <1>5, <1>13 DEF StateType
<1>16. /\ slots' \in SlotRec /\ Kept(slots', e, NoCommit, pe, b)
       /\ Hits(slots) \subseteq Hits(slots') /\ X \subseteq Hits(slots')
       /\ (e % Block = 0 \/ e \in InsideLabels) => e \in Hits(slots')
  BY <1>7, <1>9, <1>11, <1>14, <1>15, ChunkKeeps
<1>17. StateType'
  BY <1>3, <1>6, <1>12, <1>16 DEF StateType
<1>18. BlocksKept'
  <2>1. PrefillEnd(prompt, tokens)' = pe /\ HasBoundary(prompt, tokens)' = b
    BY <1>5, <1>6 DEF PrefillEnd, HasBoundary, Most
  <2> QED BY <1>1, <1>6, <1>13, <1>16, <2>1 DEF BlocksKept
<1>19. LabelsTrue'
  BY <1>16, KeptLabels DEF LabelsTrue
<1>20. ForeignIntact'
  BY <1>1 DEF StateInv, ForeignIntact
<1>21. (saved \subseteq Hits(slots))'
  <2>1. Cacheable(e) => e % Block = 0 \/ e \in InsideLabels
    BY DEF Cacheable, InsideLabels
  <2>2. saved \subseteq Hits(slots)
    BY DEF StateInv
  <2> QED BY <1>6, <1>16, <2>1, <2>2
<1>22. Passed'
  <2> SUFFICES ASSUME tokens = prompt,
                      NEW p \in {CacheStop(prompt, tokens), TailBoundary(prompt, tokens)},
                      hit < p, p < prompt, p <= e
               PROVE  p \in saved'
    BY <1>6 DEF Passed, CacheStop, TailBoundary, HasBoundary
  <2>1. p \in Nat /\ p > 0 /\ hit \in Nat
    BY <1>3, StopsArePositions DEF StateType
  <2>2. CASE p <= c
    BY <1>5, <1>6, <2>2 DEF StateInv, Passed
  <2>3. CASE c < p /\ p < e
    <3>1. p \in {CacheStop(prompt, tokens), TailStop(prompt, tokens)}
      BY <1>3, <2>1, TailIsStop DEF StateType
    <3>2. p \in X
      BY <1>5, <1>10, <2>3, <3>1 DEF Chosen
    <3> QED BY <1>6, <3>2
  <2>4. CASE p = e
    <3>1. p = CacheStop(prompt, tokens) => p % Block = 0
      BY <1>3, StopsArePositions DEF StateType
    <3>2. p = TailBoundary(prompt, tokens) =>
            (HasBoundary(prompt, tokens) /\ p = ReplayBoundary(prompt)) \/ p = FloorTo(prompt, HashUnit)
      BY <2>1 DEF TailBoundary
    <3>3. Cacheable(e)
      BY <2>4, <3>1, <3>2 DEF Cacheable
    <3> QED BY <1>6, <2>4, <3>3
  <2> QED BY <1>9, <1>12, <2>1, <2>2, <2>3, <2>4
<1>23. PlanAccepted'
  <2> SUFFICES ASSUME NEW x \in X
               PROVE  /\ 0 <= c /\ c < e /\ c % Tile = 0
                      /\ c < x /\ x < e /\ (x - c) % Tile = 0
                      /\ \A q \in (X \ {x}) \cup {e} : Column(q) # Column(x)
    BY <1>5, <1>6 DEF PlanAccepted
  <2>1. (x % Block = 0 \/ x = ReplayBoundary(prompt)) /\ (x - c) % Tile = 0
    BY <1>5, <1>10 DEF Chosen
  <2>2. x \in Nat /\ c < x /\ x < e
    BY <1>12
  <2>3. Block % HashUnit = 0 /\ HashUnit % Tile = 0
    BY PromptAssumption
  <2>4. x % HashUnit = 0
    BY <1>3, <2>1, <2>2, <2>3, BoundaryIs, Multiples, Units DEF StateType
  <2>5. x % Tile = 0
    BY <2>2, <2>3, <2>4, Multiples, Units
  <2>6. c % Tile = 0
    <3>1. c \in Nat /\ c <= x
      BY <1>9, <2>2
    <3>2. (x - c) % Tile = 0 /\ Tile \in Nat \ {0}
      BY <2>1, Units
    <3> QED BY <2>2, <2>5, <3>1, <3>2, Differences
  <2>7. \A q \in Nat : Column(q) = Cdiv(q) - 1 /\ Cdiv(q) \in Nat
    BY CdivOf DEF Column, Cdiv
  <2>8. \A q \in (X \ {x}) \cup {e} : Column(q) # Column(x)
    <3> SUFFICES ASSUME NEW q \in (X \ {x}) \cup {e} PROVE Column(q) # Column(x)
      OBVIOUS
    <3>1. q \in X \cup {e} /\ q \in Nat /\ q # x
      BY <1>12
    <3>2. Cdiv(x) # Cdiv(q)
      BY <1>12, <3>1
    <3> QED BY <2>2, <2>7, <3>1, <3>2
  <2>9. 0 <= c /\ c < e
    BY <1>9, <1>12
  <2> QED BY <2>1, <2>2, <2>6, <2>8, <2>9
<1> QED BY <1>17, <1>18, <1>19, <1>20, <1>21, <1>22, <1>23 DEF StateInv

\* Nothing but the blocks and the computed tokens changes once the prompt is
\* prefilled.
LEMMA Carried ==
  ASSUME StateInv, UNCHANGED <<kda_ckpt, prompt, tokens, shared, hit, saved>>,
         slots' \in SlotRec, computed' \in Nat, Hits(slots) \subseteq Hits(slots'),
         computed' = computed \/ prompt <= computed,
         last' = last \/ last'.exports = {}
  PROVE  StateType' /\ (saved \subseteq Hits(slots))' /\ Passed' /\ PlanAccepted'
<1>1. StateType'
  BY DEF StateInv, StateType
<1>2. (saved \subseteq Hits(slots))'
  BY DEF StateInv
<1>3. Passed'
  <2> SUFFICES ASSUME tokens = prompt,
                      NEW p \in {CacheStop(prompt, tokens), TailBoundary(prompt, tokens)},
                      hit < p, p < prompt, p <= computed'
               PROVE  p \in saved
    BY DEF Passed, CacheStop, TailBoundary, HasBoundary
  <2>1. p \in Nat /\ prompt \in Nat /\ computed \in Nat
    BY StopsArePositions DEF StateInv, StateType
  <2>2. p <= computed
    BY <2>1
  <2> QED BY <2>2 DEF StateInv, Passed
<1>4. PlanAccepted'
  BY DEF StateInv, PlanAccepted
<1> QED BY <1>1, <1>2, <1>3, <1>4

\* A verify with its commit, at once or left to the next step, keeps it.
LEMMA DecodeInv ==
  ASSUME StateInv, NEW k \in 0..SpecTokens, NEW n \in 1..k + 1, DecodeStep(k, n)
  PROVE  StateInv'
<1>1. PICK end, to, ready, commit :
        /\ end = computed + 1 + k /\ to = computed + n
        /\ ready = Landed(Precopied(Scheduled({}, end, computed + 1, 0, {}), computed, end), deferred)
        /\ commit = [to |-> to, boundary |-> IF to \div Block > computed \div Block THEN FloorTo(to, Block) ELSE 0]
  OBVIOUS
<1>2. PICK c, pe, b : /\ c = computed /\ pe = PrefillEnd(prompt, tokens) /\ b = HasBoundary(prompt, tokens)
  OBVIOUS
<1>3. /\ Here /\ computed >= pe /\ computed' = to
      /\ last' = [start |-> computed, end |-> to, exports |-> {}]
      /\ UNCHANGED <<kda_ckpt, prompt, tokens, shared, hit, saved, given>>
  BY <1>1, <1>2 DEF DecodeStep
<1>4. IF ~(ready.blocks[Cdiv(end)].holds = computed)
      THEN slots' = Wrote(ready, Cdiv(to), Junk) /\ deferred' = NoCommit
      ELSE \E skip \in {FALSE} \cup {HostSkip(computed, k + 1)} :
             IF ~skip /\ CommitsNow(computed, to)
             THEN slots' = Landed(ready, commit) /\ deferred' = NoCommit
             ELSE slots' = ready /\ deferred' = commit
  BY <1>1 DEF DecodeStep
<1>5. StateType /\ Kept(slots, c, deferred, pe, b)
  BY <1>2, <1>3 DEF StateInv, BlocksKept
<1>6. pe \in Nat /\ prompt <= pe /\ b \in BOOLEAN
  BY <1>2, <1>5, EndIsNat DEF StateType
<1>7. c \in Nat /\ c > 0 /\ pe <= c /\ prompt <= c /\ slots \in SlotRec
  BY <1>2, <1>3, <1>5, <1>6 DEF StateType
<1>8. ready = Landed(Precopied(CachedUpTo(Allocated(Skipped(slots, c), {}, c + 1 + k), c + 1, {}, 0, {}),
                               c, c + 1 + k), deferred)
  BY <1>1, <1>2 DEF Scheduled
<1>9. ReadyOf(slots, c, c + 1 + k, ready)
  BY <1>5, <1>6, <1>7, <1>8, ReadyIs
<1>10. ready \in SlotRec /\ Hits(slots) \subseteq Hits(ready) /\ ready.blocks[Cdiv(end)].holds = computed
  BY <1>1, <1>2, <1>9 DEF ReadyOf
<1>11. Verified(slots, c, k, n, pe, b, ready)
  <2>1. Len(slots.blocks) \in {Cdiv(c), Cdiv(c) + 1}
    BY <1>5 DEF Kept, Place, Laid
  <2>2. \A i \in slots.partial : i <= Cdiv(c)
    BY <1>5 DEF Kept, ShortKnown
  <2> QED BY <1>6, <1>7, <1>9, <2>1, <2>2 DEF Verified
<1>12. commit = CommitOf(c, c + n) /\ to = c + n /\ c + n \in Nat
  <2>1. c + n \in Nat
    BY <1>7, WindowAssumption
  <2> QED BY <1>1, <1>2, <2>1 DEF CommitOf
<1>13. PICK skip \in {FALSE} \cup {HostSkip(computed, k + 1)} :
         IF ~skip /\ CommitsNow(computed, to)
         THEN slots' = Landed(ready, commit) /\ deferred' = NoCommit
         ELSE slots' = ready /\ deferred' = commit
  BY <1>4, <1>10
<1>14. slots' \in SlotRec /\ Kept(slots', c + n, deferred', pe, b) /\ Hits(slots) \subseteq Hits(slots')
  <2>1. CASE ~skip /\ CommitsNow(computed, to)
    <3>1. slots' = Landed(ready, CommitOf(c, c + n)) /\ deferred' = NoCommit
      BY <1>12, <1>13, <2>1
    <3>2. slots' \in SlotRec /\ Kept(slots', c + n, NoCommit, pe, b) /\ Hits(slots') = Hits(ready)
      BY <1>11, <3>1, CommitKeeps
    <3> QED BY <1>10, <3>1, <3>2
  <2>2. CASE ~(~skip /\ CommitsNow(computed, to))
    <3>1. slots' = ready /\ deferred' = CommitOf(c, c + n)
      BY <1>12, <1>13, <2>2
    <3>2. ~CommitsNow(c, c + n)
      <4>1. CASE skip
        <5>1. HostSkip(c, k + 1)
          BY <1>2, <4>1
        <5>2. k + 1 \in Nat
          BY WindowAssumption
        <5> QED BY <1>7, <5>1, <5>2, SkippedRowsWait
      <4>2. CASE ~skip
        BY <1>2, <1>12, <2>2, <4>2
      <4> QED BY <4>1, <4>2
    <3>3. Kept(ready, c + n, CommitOf(c, c + n), pe, b)
      BY <1>11, <3>2, DeferKeeps
    <3> QED BY <1>10, <3>1, <3>3
  <2> QED BY <2>1, <2>2
<1>15. StateType' /\ (saved \subseteq Hits(slots))' /\ Passed' /\ PlanAccepted'
  <2>1. computed' \in Nat /\ prompt <= computed /\ last'.exports = {}
    BY <1>2, <1>3, <1>7, <1>12
  <2> QED BY <1>3, <1>14, <2>1, Carried
<1>16. BlocksKept'
  <2>1. PrefillEnd(prompt, tokens)' = pe /\ HasBoundary(prompt, tokens)' = b
    BY <1>2, <1>3 DEF PrefillEnd, HasBoundary, Most
  <2> QED BY <1>3, <1>12, <1>14, <2>1 DEF BlocksKept
<1>17. LabelsTrue'
  BY <1>14, KeptLabels DEF LabelsTrue
<1>18. ForeignIntact'
  BY <1>3 DEF StateInv, ForeignIntact
<1> QED BY <1>15, <1>16, <1>17, <1>18 DEF StateInv

\* A step that leaves the request out, and flushes its commit, keeps it.
LEMMA SkippedInv == StateInv /\ SkippedStep => StateInv'
<1> SUFFICES ASSUME StateInv, SkippedStep PROVE StateInv'
  OBVIOUS
<1>1. Here /\ deferred # NoCommit /\ slots' = Landed(slots, deferred) /\ deferred' = NoCommit
      /\ UNCHANGED <<kda_ckpt, prompt, tokens, shared, hit, computed, saved, last, given>>
  BY DEF SkippedStep, vars
<1>2. PICK pe, b : pe = PrefillEnd(prompt, tokens) /\ b = HasBoundary(prompt, tokens)
  OBVIOUS
<1>3. StateType /\ Kept(slots, computed, deferred, pe, b)
  BY <1>1, <1>2 DEF StateInv, BlocksKept
<1>4. pe \in Nat
  BY <1>2, <1>3, EndIsNat DEF StateType
<1>5. slots' \in SlotRec /\ Kept(slots', computed, NoCommit, pe, b) /\ Hits(slots') = Hits(slots)
  BY <1>1, <1>3, <1>4, FlushKeeps DEF StateType
<1>6. StateType' /\ (saved \subseteq Hits(slots))' /\ Passed' /\ PlanAccepted'
  <2>1. computed' \in Nat
    BY <1>1, <1>3 DEF StateType
  <2> QED BY <1>1, <1>5, <2>1, Carried
<1>7. BlocksKept'
  <2>1. PrefillEnd(prompt, tokens)' = pe /\ HasBoundary(prompt, tokens)' = b
    BY <1>1, <1>2 DEF PrefillEnd, HasBoundary, Most
  <2> QED BY <1>1, <1>5, <2>1 DEF BlocksKept
<1>8. LabelsTrue'
  BY <1>5, KeptLabels DEF LabelsTrue
<1>9. ForeignIntact'
  BY <1>1 DEF StateInv, ForeignIntact
<1> QED BY <1>6, <1>7, <1>8, <1>9 DEF StateInv

\* The request leaves (finished, aborted or preempted) and the invariant stays.
LEMMA LeaveInv == StateInv /\ Leave => StateInv'
<1> SUFFICES ASSUME StateInv, Leave PROVE StateInv'
  OBVIOUS
<1>1. /\ Here /\ slots' = Freed(slots, DOMAIN slots.blocks) /\ given'.owner = "pool"
      /\ UNCHANGED <<kda_ckpt, prompt, tokens, shared, hit, computed, saved, last, deferred>>
  BY DEF Leave, vars
<1>2. StateType /\ LabelsTrue
  BY DEF StateInv
<1>3. slots \in SlotRec /\ DOMAIN slots.blocks = 1..Len(slots.blocks)
  BY <1>2, SlotFields DEF StateType
<1>4. BlocksTrue(slots) /\ PoolTrue(slots)
  BY <1>2, <1>3, TrueLabels DEF LabelsTrue
<1>5. PICK s : s = Freed(slots, DOMAIN slots.blocks)
  OBVIOUS
<1>6. FreedOf(slots, DOMAIN slots.blocks, s)
  BY <1>3, <1>5, FreedIs
<1>7. s \in SlotRec
  BY <1>6 DEF FreedOf
<1>8. BlocksTrue(s) /\ PoolTrue(s) /\ Hits(slots) \subseteq Hits(s)
  BY <1>3, <1>4, <1>5, FreedKeeps
<1>9. LabelsTrue'
  BY <1>1, <1>5, <1>7, <1>8, TrueLabels DEF LabelsTrue
<1>10. StateType' /\ (saved \subseteq Hits(slots))' /\ Passed' /\ PlanAccepted'
  <2>1. computed' \in Nat
    BY <1>1, <1>2 DEF StateType
  <2> QED BY <1>1, <1>5, <1>7, <1>8, <2>1, Carried
<1>11. BlocksKept' /\ ForeignIntact'
  BY <1>1 DEF BlocksKept, ForeignIntact, Here
<1> QED BY <1>9, <1>10, <1>11 DEF StateInv

\* Another request takes over the block: no commit is left to land in it.
LEMMA ReusedInv == StateInv /\ Reused => StateInv'
<1> SUFFICES ASSUME StateInv, Reused PROVE StateInv'
  OBVIOUS
<1>1. given' = [owner |-> "other", holds |-> Theirs]
      /\ UNCHANGED <<kda_ckpt, prompt, tokens, shared, hit, computed, saved, last, slots>>
  BY DEF Reused, Absent, vars
<1>2. StateType' /\ (saved \subseteq Hits(slots))' /\ Passed' /\ PlanAccepted'
  <2>1. computed' \in Nat /\ slots' \in SlotRec
    BY <1>1 DEF StateInv, StateType
  <2> QED BY <1>1, <2>1, Carried
<1>3. LabelsTrue'
  BY <1>1 DEF StateInv, LabelsTrue
<1>4. BlocksKept' /\ ForeignIntact'
  BY <1>1 DEF BlocksKept, ForeignIntact, Here
<1> QED BY <1>2, <1>3, <1>4 DEF StateInv

\* Steps of nobody keep it.
LEMMA StutterInv == StateInv /\ UNCHANGED <<vars, hybridVars>> => StateInv'
<1> SUFFICES ASSUME StateInv, UNCHANGED <<vars, hybridVars>> PROVE StateInv'
  OBVIOUS
<1>1. UNCHANGED <<kda_ckpt, prompt, tokens, shared, hit, computed, saved, last, slots, deferred, given>>
  BY DEF vars, hybridVars
<1>2. StateType' /\ (saved \subseteq Hits(slots))' /\ Passed' /\ PlanAccepted'
  <2>1. computed' \in Nat /\ slots' \in SlotRec
    BY <1>1 DEF StateInv, StateType
  <2> QED BY <1>1, <2>1, Carried
<1>3. LabelsTrue' /\ ForeignIntact'
  BY <1>1 DEF StateInv, LabelsTrue, ForeignIntact
<1>4. BlocksKept'
  <2>1. PrefillEnd(prompt, tokens)' = PrefillEnd(prompt, tokens)
        /\ HasBoundary(prompt, tokens)' = HasBoundary(prompt, tokens)
    BY <1>1 DEF PrefillEnd, HasBoundary, Most
  <2> QED BY <1>1, <2>1 DEF StateInv, BlocksKept, Here
<1> QED BY <1>2, <1>3, <1>4 DEF StateInv

\* The invariant holds between any two steps of the engine, for every prompt,
\* block size, window and number of exports.
THEOREM StateInvariant == HybridSpec => []StateInv
<1>1. HybridInit => StateInv
  BY InitInv
<1>2. StateInv /\ [HybridNext]_<<vars, hybridVars>> => StateInv'
  <2> SUFFICES ASSUME StateInv, [HybridNext]_<<vars, hybridVars>> PROVE StateInv'
    OBVIOUS
  <2>1. CASE PrefillStep
    BY <2>1, PrefillInv
  <2>2. ASSUME NEW k \in 0..SpecTokens, NEW n \in 1..k + 1, DecodeStep(k, n) PROVE StateInv'
    BY <2>2, DecodeInv
  <2>3. CASE SkippedStep
    BY <2>3, SkippedInv
  <2>4. CASE Leave
    BY <2>4, LeaveInv
  <2>5. CASE Reused
    BY <2>5, ReusedInv
  <2>6. CASE UNCHANGED <<vars, hybridVars>>
    BY <2>6, StutterInv
  <2> QED BY <2>1, <2>2, <2>3, <2>4, <2>5, <2>6 DEF HybridNext
<1> QED BY <1>1, <1>2, PTL DEF HybridSpec

\* The prefix cache never finds a block whose state is not the one after exactly
\* as many tokens as its label says (cache_blocks, _record_state_write_position,
\* the fused commit): a hit resumes from the right state.
THEOREM CacheTellsTheTruth == HybridSpec => []LabelsTrue
<1>1. StateInv => LabelsTrue
  BY DEF StateInv
<1> QED BY <1>1, StateInvariant, PTL

\* The running block has the state of the computed tokens, or the deferred
\* commit brings it there before it is read, and a deferred commit never lands in
\* a block of another request (recoverssm.py, prepare_fused, rules 1 and 2).
THEOREM RunningStateIsRight == HybridSpec => []RunningTrue
<1>1. StateInv => RunningTrue
  <2> SUFFICES ASSUME StateInv PROVE RunningTrue
    OBVIOUS
  <2>1. given.owner = "other" => given.holds = Theirs
    BY DEF StateInv, ForeignIntact
  <2>2. ASSUME Here, computed > 0 PROVE Running(Landed(slots, deferred), computed) = computed
    <3>1. PICK pe, b : pe = PrefillEnd(prompt, tokens) /\ b = HasBoundary(prompt, tokens)
      OBVIOUS
    <3>2. StateType /\ Kept(slots, computed, deferred, pe, b)
      BY <2>2, <3>1 DEF StateInv, BlocksKept
    <3>3. CASE deferred = NoCommit
      <4>1. Landed(slots, deferred) = slots
        BY <3>3 DEF Landed
      <4>2. slots.blocks[Cdiv(computed)].holds = computed
        BY <2>2, <3>2, <3>3 DEF Kept, RunsIn
      <4>3. computed # 0
        BY <2>2, <3>2 DEF StateType
      <4> QED BY <4>1, <4>2, <4>3 DEF Running
    <3>4. CASE deferred # NoCommit
      <4>1. pe \in Nat
        BY <3>1, <3>2, EndIsNat DEF StateType
      <4> QED BY <2>2, <3>2, <3>4, <4>1, FlushKeeps DEF StateType
    <3> QED BY <3>3, <3>4
  <2> QED BY <2>1, <2>2 DEF RunningTrue
<1> QED BY <1>1, StateInvariant, PTL

\* A prompt once prefilled is hit at its last cache position or at its replay
\* boundary, and every state that the chunk split counts as saved is found.
THEOREM PromptsStayCached == HybridSpec => []StatesCached
<1>1. StateInv => StatesCached
  <2> SUFFICES ASSUME StateInv PROVE StatesCached
    OBVIOUS
  <2>1. saved \subseteq Hits(slots) /\ Hits(slots) = {b.label : b \in Labels(slots)}
    BY DEF StateInv, Hits
  <2>2. ASSUME tokens = prompt, computed >= prompt,
               NEW p \in {CacheStop(prompt, tokens), TailBoundary(prompt, tokens)}, hit < p, p < prompt
        PROVE  p \in saved
    <3>1. p \in Nat /\ prompt \in Nat /\ computed \in Nat
      BY StopsArePositions DEF StateInv, StateType
    <3>2. p <= computed
      BY <2>2, <3>1
    <3> QED BY <2>2, <3>2 DEF StateInv, Passed
  <2> QED BY <2>1, <2>2 DEF StatesCached
<1> QED BY <1>1, StateInvariant, PTL

\* Every offer large enough is taken, and whatever is taken has its blocks
\* reserved, allocates without a failed assertion and is accepted by the workers.
THEOREM OffersCarriedOut == HybridSpec => []OffersHonoured
<1>1. StateInv => OffersHonoured
  <2> SUFFICES ASSUME StateInv PROVE OffersHonoured
    OBVIOUS
  <2>1. StateType /\ PlanAccepted
    BY DEF StateInv
  <2>2. PICK pe, b : pe = PrefillEnd(prompt, tokens) /\ b = HasBoundary(prompt, tokens)
    OBVIOUS
  <2>3. pe \in Nat /\ b \in BOOLEAN /\ (b => ReplayOn)
    BY <2>1, <2>2, EndIsNat DEF StateType
  <2>4. ASSUME Here, computed < pe, NEW n \in 1..Budget,
               NEW split, split = Split(computed, n, prompt, tokens, shared, Budget),
               NEW kept, kept = Skipped(slots, computed), NEW end, end = computed + split.n, split.n > 0
        PROVE  /\ Drawn(kept, split.exports, end) <= Reserved(kept, split.exports, end)
               /\ AllocationSound(kept, split.exports, end)
    <3>1. n \in Nat \ {0}
      BY PromptAssumption
    <3>2. Chosen(computed, n, prompt, tokens, split)
      BY <2>1, <2>2, <2>4, <3>1, SplitIs DEF StateType
    <3>3. Taken(computed, end, split.exports, b)
      BY <2>2, <2>4, <3>2 DEF Chosen
    <3>4. Kept(slots, computed, deferred, pe, b)
      BY <2>2, <2>4 DEF StateInv, BlocksKept
    <3>5. AllocationSound(kept, split.exports, end) /\ kept \in SlotRec
      BY <2>1, <2>3, <2>4, <3>3, <3>4, AllocationIsSound DEF StateType
    <3>6. IsFiniteSet(split.exports) /\ end \in Nat
      <4>1. split.exports \subseteq 0..end /\ end \in Nat
        BY <2>1, <3>3 DEF Taken, StateType
      <4>2. IsFiniteSet(0..end)
        BY <4>1, FS_Interval
      <4> QED BY <4>1, <4>2, FS_Subset
    <3>7. Len(kept.blocks) \in Nat /\ kept.tail \in Nat
      BY <3>5, SlotFields
    <3> QED BY <3>5, <3>6, <3>7, ReservationCovers
  <2>5. PlanCarriedOut
    BY <2>1, <2>2, <2>4 DEF PlanCarriedOut
  <2>6. ASSUME NEW n \in 1..Budget, computed < pe, computed + n = pe \/ n >= Block
        PROVE  Split(computed, n, prompt, tokens, shared, Budget).n > 0
    <3>1. n \in Nat \ {0}
      BY PromptAssumption
    <3>2. computed + n \in Nat
      BY <2>1, <3>1 DEF StateType
    <3>3. computed < AlignedEnd(computed, computed + n, pe, Budget)
      <4>1. (computed < computed + n /\ computed + n >= pe) \/ computed + n >= computed + Block
        BY <2>1, <2>3, <2>6, <3>1, Units DEF StateType
      <4> QED BY <2>1, <2>3, <3>2, <4>1, AlignedIs DEF StateType
    <3> QED BY <2>1, <2>2, <2>6, <3>1, <3>3, SplitIs DEF StateType
  <2>7. OfferTaken
    BY <2>2, <2>6 DEF OfferTaken
  <2> QED BY <2>5, <2>7 DEF OffersHonoured
<1> QED BY <1>1, StateInvariant, PTL
=============================================================================
