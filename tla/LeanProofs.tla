----------------------------- MODULE LeanProofs -----------------------------
(***************************************************************************)
(* Why the all-reduce needs no acknowledgements, for every plan, number of *)
(* queue pairs and slots, and wherever the sequence numbers stand: the     *)
(* four ranks' progress forms a ladder, each rung of which rests on a rung *)
(* of another rank, and twice half the slots bound its length.             *)
(***************************************************************************)
EXTENDS LeanRuntime, StartProofs

Word == 0..(SeqMod - 1)
Datum == SUBSET (Nat \X Rank)
Write == [seq : Word, len : Nat]

\* Shapes and ranges, with histories that are not bounded by the plan.
TransportTypeOK ==
  /\ scenario \in Scenarios /\ late \in Nat
  /\ launch \in [Rank -> Nat] /\ epoch \in [Rank -> Word]
  /\ pos \in [Rank -> {"idle", "stage", "pair", "join"} \X Nat]
  /\ send \in [Rank -> [Exchange -> [Slot -> [Lane -> Datum]]]]
  /\ bytes \in [Rank -> [Exchange -> [Slot -> Nat]]]
  /\ bell \in [Rank -> [Exchange -> Word]] /\ last \in [Rank -> [Exchange -> Word]]
  /\ wire \in [Rank -> [Exchange -> [Lane -> Seq(Write)]]]
  /\ recv \in [Rank -> [Exchange -> [Slot -> [Lane -> Datum]]]]
  /\ flag \in [Rank -> [Exchange -> [Slot -> [Lane -> Word]]]]
  /\ poison \in [Rank -> Word] /\ error \in [Rank -> [Exchange -> Word]]
  /\ failed \in [Rank -> [Exchange -> BOOLEAN]] /\ alive \in [Rank -> BOOLEAN]
  /\ called \in [Rank -> Nat] /\ staged \in [Rank -> Nat]
  /\ paired \in [Rank -> Nat] /\ written \in [Rank -> Nat]
  /\ output \in [Rank -> [Lane -> Datum]]

\* The last operation that rank r has published in exchange x, and the last whose
\* data from exchange x it has used.
Rung(r, x) == IF x = 1 THEN staged[r] ELSE paired[r]
Taken(r, x) == IF x = 1 THEN paired[r] ELSE written[r]
\* The last operation that the proxy has posted, and the NIC done on a lane.
Posted(r, x) == Rung(r, x) - Pending(r, x)
Done(r, x, l) == Posted(r, x) - Len(wire[r][x][l])

\* The ladder: a rank joins what it has paired and pairs what it has staged, and
\* neither before the peer of that exchange has published its part; what is
\* staged and not yet joined fills at most half the slots.
Ladder(S, P, W, slots) ==
  \A r \in Rank :
    /\ W[r] <= P[r] /\ P[r] <= S[r] /\ 2 * (S[r] - W[r]) <= slots
    /\ P[r] <= S[Peer(r, 1)]
    /\ W[r] <= P[Peer(r, 2)]

LadderInv == Ladder(staged, paired, written, scenario.slots)

\* Where a kernel is in its call.  A rank that is poisoned goes through the
\* rounds of its call without effect.
KernelInv(r) ==
  LET n == Chunks(r)
      c == pos[r][2]
      before == called[r] - n
  IN alive[r] =>
       /\ poison[r] = 0 <=> NoError(r)
       /\ launch[r] <= Len(Plan) /\ called[r] <= 2 * launch[r]
       /\ Round(r) = "idle" /\ poison[r] = 0 =>
            /\ staged[r] = called[r] /\ paired[r] = called[r] /\ written[r] = called[r]
            /\ epoch[r] = WordOf(called[r])
       /\ Round(r) # "idle" =>
            /\ launch[r] >= 1 /\ c \in 1..n /\ before >= 0 /\ epoch[r] = WordOf(before)
       /\ Round(r) = "stage" =>
            poison[r] = 0 /\ staged[r] = before + c - 1 /\ paired[r] = before /\ written[r] = before
       /\ Round(r) = "pair" =>
            /\ staged[r] = called[r] /\ written[r] = before
            /\ poison[r] = 0 => paired[r] = before + c - 1
       /\ Round(r) = "join" =>
            /\ staged[r] = called[r]
            /\ poison[r] = 0 => paired[r] = called[r] /\ written[r] = before + c - 1
       /\ pos[r] = Idle <=> Round(r) = "idle"

\* Doorbell, proxy and NIC of an exchange follow one another, and the NIC is not
\* behind what the peer has used.
ProxyInv(r, x) ==
  alive[r] =>
    /\ bell[r][x] = WordOf(Rung(r, x)) /\ last[r][x] = WordOf(Posted(r, x))
    /\ \A l \in Lane :
         /\ Taken(Peer(r, x), x) <= Done(r, x, l)
         /\ \A i \in 1..Len(wire[r][x][l]) :
              /\ wire[r][x][l][i].seq = WordOf(Done(r, x, l) + i)
              /\ wire[r][x][l][i].len = Done(r, x, l) + i

\* A send slot holds its latest operation.
SendInv(r, x) ==
  alive[r] =>
    \A s \in 1..Rung(r, x) :
      Rung(r, x) < s + scenario.slots =>
        /\ send[r][x][SlotOf(WordOf(s))] = Payload(r, x, s)
        /\ bytes[r][x][SlotOf(WordOf(s))] = s

\* Lane l of receive slot k holds operation s of the peer, which may be one from
\* before the start of the model or one that no flag was ever raised for.
Holding(r, x, k, l, s) ==
  LET q == Peer(r, x)
  IN /\ Taken(r, x) < s + scenario.slots /\ s <= Rung(q, x)
     /\ alive[q] => s <= Done(q, x, l)
     /\ (scenario.completed + s) % scenario.slots = k
     /\ flag[r][x][k][l] = IF scenario.completed + s < 1 THEN 0 ELSE WordOf(s)
     /\ s >= 1 => recv[r][x][k][l] = Payload(q, x, s)[l]

\* Every receive slot holds an operation that is recent enough.
FlagInv(r, x) ==
  alive[r] =>
    \A k \in Slot, l \in Lane : \E s \in (-scenario.slots)..Rung(Peer(r, x), x) : Holding(r, x, k, l, s)

\* Without late waits nothing ever fails, and a proxy fails only for its peer.
HealthInv ==
  /\ late <= scenario.late
  /\ \A r \in Rank, x \in Exchange : failed[r][x] => ~alive[Peer(r, x)]
  /\ scenario.late = 0 => \A r \in Rank : alive[r] /\ poison[r] = 0 /\ NoError(r)

LeanInv ==
  /\ TransportTypeOK /\ LadderInv /\ HealthInv /\ OutputRight
  /\ \A r \in Rank : KernelInv(r)
  /\ \A r \in Rank, x \in Exchange : ProxyInv(r, x) /\ SendInv(r, x) /\ FlagInv(r, x)

-----------------------------------------------------------------------------
(***************************************************************************)
(* Words and slots.                                                        *)
(***************************************************************************)
Positive == Nat \ {0}

\* Quotient and remainder.
LEMMA DivMod ==
  ASSUME NEW a \in Int, NEW m \in Positive
  PROVE  a % m \in 0..(m - 1) /\ a \div m \in Int /\ a = m * (a \div m) + (a % m)
  BY DEF Positive

\* The only multiple of m that is smaller than m is 0.
LEMMA SmallMultiple ==
  ASSUME NEW d \in Int, NEW m \in Positive, -m < m * d, m * d < m
  PROVE  d = 0
<1>1. CASE d >= 1
  <2>1. m * d >= m
    BY <1>1 DEF Positive
  <2> QED BY <2>1 DEF Positive
<1>2. CASE d <= -1
  <2>1. m * d <= -m
    BY <1>2 DEF Positive
  <2> QED BY <2>1 DEF Positive
<1> QED BY <1>1, <1>2

\* The remainder is the only one.
LEMMA ModUnique ==
  ASSUME NEW a \in Int, NEW m \in Positive, NEW q \in Int, NEW r \in 0..(m - 1), a = m * q + r
  PROVE  a % m = r
<1>1. /\ a % m \in 0..(m - 1) /\ a \div m \in Int
      /\ a = m * (a \div m) + (a % m)
  BY DivMod
<1>2. m * (q - (a \div m)) = (a % m) - r
  <2>1. m * (q - (a \div m)) = m * q - m * (a \div m)
    BY <1>1 DEF Positive
  <2>2. m * q \in Int /\ m * (a \div m) \in Int
    BY <1>1 DEF Positive
  <2> QED BY <1>1, <2>1, <2>2 DEF Positive
<1>3. q - (a \div m) = 0
  BY <1>1, <1>2, SmallMultiple DEF Positive
<1>4. m * (q - (a \div m)) = 0
  BY <1>3 DEF Positive
<1> QED BY <1>1, <1>2, <1>4

\* Numbers of the same remainder that are less than m apart are equal.
LEMMA ModApart ==
  ASSUME NEW a \in Int, NEW b \in Int, NEW m \in Positive, a % m = b % m, a < b + m, b < a + m
  PROVE  a = b
<1>1. /\ a \div m \in Int /\ b \div m \in Int
      /\ a = m * (a \div m) + (a % m)
      /\ b = m * (b \div m) + (b % m)
  BY DivMod
<1>2. m * (a \div m) - m * (b \div m) = a - b
  <2>1. m * (a \div m) \in Int /\ m * (b \div m) \in Int /\ a % m \in Int
    BY <1>1, DivMod DEF Positive
  <2> QED BY <1>1, <2>1
<1>3. m * ((a \div m) - (b \div m)) = a - b
  BY <1>1, <1>2 DEF Positive
<1>4. (a \div m) - (b \div m) = 0
  BY <1>1, <1>3, SmallMultiple DEF Positive
<1>5. m * ((a \div m) - (b \div m)) = 0
  BY <1>4 DEF Positive
<1> QED BY <1>3, <1>5

\* Adding before or after taking the remainder.
LEMMA ModAdd ==
  ASSUME NEW a \in Int, NEW c \in Int, NEW m \in Positive
  PROVE  ((a % m) + c) % m = (a + c) % m
<1> DEFINE r == ((a % m) + c) % m
           q == ((a % m) + c) \div m
<1>1. /\ a % m \in 0..(m - 1) /\ a \div m \in Int
      /\ a = m * (a \div m) + (a % m)
  BY DivMod
<1>2. (a % m) + c \in Int
  BY <1>1 DEF Positive
<1>3. r \in 0..(m - 1) /\ q \in Int /\ (a % m) + c = m * q + r
  BY <1>2, DivMod
<1>4. a + c = m * ((a \div m) + q) + r
  <2> DEFINE u == m * (a \div m)
             v == m * q
             w == m * ((a \div m) + q)
             x == a % m
  <2>1. w = u + v
    BY <1>1, <1>3 DEF Positive
  <2>2. u \in Int /\ v \in Int
    BY <1>1, <1>3 DEF Positive
  <2>3. a = u + x /\ x + c = v + r /\ x \in Int /\ r \in Int
    BY <1>1, <1>3 DEF Positive
  <2>4. a + c = w + r
    <3> HIDE DEF u, v, w, x, r
    <3> QED BY <2>1, <2>2, <2>3
  <2> QED BY <2>4
<1>5. (a + c) % m = r
  <2>1. (a \div m) + q \in Int /\ a + c \in Int
    BY <1>1, <1>3
  <2> HIDE DEF q, r
  <2> QED BY <1>3, <1>4, <2>1, ModUnique
<1> QED BY <1>5

\* The same with names for quotient and remainder.
LEMMA Division ==
  ASSUME NEW a \in Int, NEW m \in Positive
  PROVE  \E q \in Int, r \in 0..(m - 1) : a = m * q + r /\ a % m = r
  BY DivMod

\* Taking a coarser remainder first does not change a finer one.
LEMMA ModMod ==
  ASSUME NEW a \in Int, NEW m \in Positive, NEW k \in Positive, m % k = 0
  PROVE  (a % m) % k = a % k
<1>1. PICK q \in Int, r \in 0..(m - 1) : a = m * q + r /\ a % m = r
  BY Division
<1>2. PICK p \in Int, s \in 0..(k - 1) : a = k * p + s /\ a % k = s
  BY Division
<1>3. PICK t \in Int : m = k * t
  BY Division DEF Positive
<1>4. k \in Int /\ m \in Int /\ r \in Int /\ s \in Int
  BY DEF Positive
<1>5. r = k * (p - t * q) + s
  <2>1. m * q = k * (t * q)
    BY <1>3, <1>4
  <2>2. k * (p - t * q) = k * p - k * (t * q)
    BY <1>4
  <2>3. k * p \in Int /\ k * (t * q) \in Int
    BY <1>4
  <2> QED BY <1>1, <1>2, <1>4, <2>1, <2>2, <2>3
<1>6. p - t * q \in Int
  OBVIOUS
<1>7. r % k = s
  BY <1>4, <1>5, <1>6, ModUnique
<1> QED BY <1>1, <1>2, <1>7

\* The difference of two words is the distance of their operations.
LEMMA ModDifference ==
  ASSUME NEW a \in Int, NEW b \in Int, NEW m \in Positive, b <= a, a < b + m
  PROVE  ((a % m) + m - (b % m)) % m = a - b
<1>1. /\ a % m \in 0..(m - 1) /\ a \div m \in Int /\ a = m * (a \div m) + (a % m)
      /\ b % m \in 0..(m - 1) /\ b \div m \in Int /\ b = m * (b \div m) + (b % m)
  BY DivMod
<1>2. (a % m) + m - (b % m) = m * ((b \div m) - (a \div m) + 1) + (a - b)
  <2>1. m * ((b \div m) - (a \div m) + 1) = m * (b \div m) - m * (a \div m) + m
    BY <1>1 DEF Positive
  <2>2. m * (b \div m) \in Int /\ m * (a \div m) \in Int
    BY <1>1 DEF Positive
  <2> QED BY <1>1, <2>1, <2>2 DEF Positive
<1>3. /\ (a % m) + m - (b % m) \in Int
      /\ (b \div m) - (a \div m) + 1 \in Int
      /\ a - b \in 0..(m - 1)
  BY <1>1 DEF Positive
<1> QED BY <1>2, <1>3, ModUnique

\* A full turn changes nothing.
LEMMA ModTurn ==
  ASSUME NEW a \in Int, NEW m \in Positive
  PROVE  (a + m) % m = a % m
<1>1. PICK q \in Int, r \in 0..(m - 1) : a = m * q + r /\ a % m = r
  BY Division
<1>2. a + m = m * (q + 1) + r
  <2>1. m * (q + 1) = m * q + m
    BY DEF Positive
  <2>2. m * q \in Int
    BY DEF Positive
  <2> QED BY <1>1, <2>1, <2>2 DEF Positive
<1>3. a + m \in Int /\ q + 1 \in Int
  BY DEF Positive
<1> QED BY <1>1, <1>2, <1>3, ModUnique

\* Small numbers are their own remainders.
LEMMA ModSmall ==
  ASSUME NEW m \in Positive, NEW a \in 0..(m - 1)
  PROVE  a % m = a
<1>0. a \in Int
  OBVIOUS
<1>1. PICK q \in Int, r \in 0..(m - 1) : a = m * q + r /\ a % m = r
  BY <1>0, Division
<1>2. -m < m * q /\ m * q < m
  <2>1. m * q \in Int
    BY DEF Positive
  <2> QED BY <1>1, <2>1 DEF Positive
<1>3. q = 0
  BY <1>2, SmallMultiple
<1>4. m * q = 0
  BY <1>3 DEF Positive
<1> QED BY <1>1, <1>4 DEF Positive

\* What a scenario gives.
LEMMA ScenarioFacts ==
  ASSUME scenario \in Scenarios
  PROVE  /\ scenario.plan \in Seq(1..2)
         /\ scenario.completed \in Nat /\ scenario.late \in Nat
         /\ scenario.lanes \in Positive /\ scenario.slots \in Positive
         /\ SeqMod \in Positive /\ scenario.slots < SeqMod /\ SeqMod % scenario.slots = 0
         /\ \A i \in 1..Len(scenario.plan) :
              scenario.plan[i] \in 1..2 /\ 2 * scenario.plan[i] <= scenario.slots
         /\ scenario.late = 0 \/ scenario.completed + 2 * Len(scenario.plan) < SeqMod
<1>1. /\ scenario.plan \in Seq(1..2)
      /\ scenario.completed \in Nat /\ scenario.late \in Nat
      /\ scenario.lanes \in Nat \ {0} /\ scenario.slots \in Nat \ {0}
      /\ \A i \in 1..Len(scenario.plan) : scenario.slots >= 2 * scenario.plan[i]
      /\ SeqMod \in Nat /\ scenario.slots < SeqMod /\ SeqMod % scenario.slots = 0
      /\ scenario.late = 0 \/ scenario.completed + 2 * Len(scenario.plan) < SeqMod
  BY ScenarioAssumption
<1>2. \A i \in 1..Len(scenario.plan) : scenario.plan[i] \in 1..2
  BY <1>1
<1> QED BY <1>1, <1>2 DEF Positive

\* Words, their slots and their successors.
LEMMA WordFacts ==
  ASSUME scenario \in Scenarios, NEW a \in Int
  PROVE  /\ WordOf(a) \in Word
         /\ SlotOf(WordOf(a)) = (scenario.completed + a) % scenario.slots
         /\ SlotOf(WordOf(a)) \in Slot
         /\ \A i \in Int : (WordOf(a) + i) % SeqMod = WordOf(a + i)
<1>1. /\ scenario.completed + a \in Int
      /\ scenario.slots \in Positive /\ SeqMod \in Positive /\ SeqMod % scenario.slots = 0
  BY ScenarioFacts
<1>2. WordOf(a) \in Word
  BY <1>1, DivMod DEF WordOf, Word
<1>3. SlotOf(WordOf(a)) = (scenario.completed + a) % scenario.slots
  BY <1>1, ModMod DEF WordOf, SlotOf
<1>4. SlotOf(WordOf(a)) \in Slot
  BY <1>1, <1>3, DivMod DEF Slot
<1>5. ASSUME NEW i \in Int PROVE (WordOf(a) + i) % SeqMod = WordOf(a + i)
  <2>1. (WordOf(a) + i) % SeqMod = ((scenario.completed + a) + i) % SeqMod
    BY <1>1, ModAdd DEF WordOf
  <2>2. (scenario.completed + a) + i = scenario.completed + (a + i)
    BY ScenarioFacts
  <2> QED BY <2>1, <2>2 DEF WordOf
<1> QED BY <1>2, <1>3, <1>4, <1>5

\* Two operations of a slot are equal or at least as far apart as the slots.
LEMMA SlotApart ==
  ASSUME scenario \in Scenarios, NEW a \in Int, NEW b \in Int,
         (scenario.completed + a) % scenario.slots = (scenario.completed + b) % scenario.slots,
         a < b + scenario.slots, b < a + scenario.slots
  PROVE  a = b
<1>1. scenario.completed \in Int /\ scenario.slots \in Positive
  BY ScenarioFacts
<1>2. scenario.completed + a = scenario.completed + b
  BY <1>1, ModApart DEF Positive
<1> QED BY <1>1, <1>2

\* Operations of the same word are as far apart as the words.
LEMMA WordApart ==
  ASSUME scenario \in Scenarios, NEW a \in Int, NEW b \in Int,
         WordOf(a) = WordOf(b), a < b + SeqMod, b < a + SeqMod
  PROVE  a = b
<1>1. scenario.completed \in Int /\ SeqMod \in Positive
  BY ScenarioFacts
<1>2. scenario.completed + a = scenario.completed + b
  BY <1>1, ModApart DEF Positive, WordOf
<1> QED BY <1>1, <1>2

\* The distance that a word is behind another.
LEMMA WordDistance ==
  ASSUME scenario \in Scenarios, NEW a \in Int, NEW b \in Int, b <= a, a < b + SeqMod
  PROVE  (WordOf(a) + SeqMod - WordOf(b)) % SeqMod = a - b
<1>1. scenario.completed \in Int /\ SeqMod \in Positive
  BY ScenarioFacts
<1>2. (((scenario.completed + a) % SeqMod) + SeqMod - ((scenario.completed + b) % SeqMod)) % SeqMod
        = (scenario.completed + a) - (scenario.completed + b)
  <2>1. /\ scenario.completed + a \in Int /\ scenario.completed + b \in Int
        /\ scenario.completed + b <= scenario.completed + a
        /\ scenario.completed + a < (scenario.completed + b) + SeqMod
    BY <1>1 DEF Positive
  <2> QED BY <1>1, <2>1, ModDifference
<1>3. (scenario.completed + a) - (scenario.completed + b) = a - b
  BY <1>1
<1> QED BY <1>2, <1>3 DEF WordOf

\* Operations before the first turn of the words are their own words.
LEMMA WordSmall ==
  ASSUME scenario \in Scenarios, NEW a \in Int,
         0 <= scenario.completed + a, scenario.completed + a < SeqMod
  PROVE  WordOf(a) = scenario.completed + a
<1>1. scenario.completed + a \in 0..(SeqMod - 1) /\ SeqMod \in Positive
  BY ScenarioFacts DEF Positive
<1>2. (scenario.completed + a) % SeqMod = scenario.completed + a
  BY <1>1, ModSmall
<1> QED BY <1>2 DEF WordOf

\* The slot of an operation.
LEMMA SlotOfOperation ==
  ASSUME scenario \in Scenarios, NEW a \in Int
  PROVE  /\ SlotOf(WordOf(a)) \in Slot
         /\ SlotOf(WordOf(a)) = (scenario.completed + a) % scenario.slots
  BY WordFacts

\* Operations less than a round apart have slots of their own.
LEMMA SlotsDiffer ==
  ASSUME scenario \in Scenarios, NEW a \in Int, NEW b \in Int, a # b,
         a < b + scenario.slots, b < a + scenario.slots
  PROVE  SlotOf(WordOf(a)) # SlotOf(WordOf(b))
  BY SlotOfOperation, SlotApart

-----------------------------------------------------------------------------
(***************************************************************************)
(* The ladder.                                                             *)
(***************************************************************************)

\* The exchanges join the ranks in a ring of four.
LEMMA Pairs ==
  ASSUME NEW r \in Rank
  PROVE  /\ \A x \in Exchange :
              Peer(r, x) \in Rank /\ Peer(r, x) # r /\ Peer(Peer(r, x), x) = r
         /\ Peer(r, 1) # Peer(r, 2)
         /\ Peer(Peer(r, 1), 2) = Peer(Peer(r, 2), 1)
         /\ \A q \in Rank : q \in {r, Peer(r, 1), Peer(r, 2), Peer(Peer(r, 2), 1)}
  BY DEF Rank, Exchange, Peer

\* Once around the ring: nobody publishes more than all slots ahead of what its
\* peer has used.
LEMMA LadderLength ==
  ASSUME NEW S \in [Rank -> Nat], NEW P \in [Rank -> Nat], NEW W \in [Rank -> Nat],
         NEW slots \in Nat, Ladder(S, P, W, slots), NEW r \in Rank
  PROVE  S[r] <= P[Peer(r, 1)] + slots /\ P[r] <= W[Peer(r, 2)] + slots
<1> DEFINE p == Peer(r, 1)
           a == Peer(r, 2)
           b == Peer(a, 1)
<1>1. /\ p \in Rank /\ a \in Rank /\ b \in Rank
      /\ Peer(p, 2) = b /\ Peer(b, 2) = p /\ Peer(b, 1) = a
  BY DEF Rank, Peer
<1>2. /\ 2 * (S[r] - W[r]) <= slots /\ W[r] <= P[a] /\ P[r] <= S[p]
      /\ P[a] <= S[b]
      /\ 2 * (S[b] - W[b]) <= slots /\ W[b] <= P[p] /\ P[b] <= S[a]
      /\ 2 * (S[p] - W[p]) <= slots /\ W[p] <= P[b]
      /\ 2 * (S[a] - W[a]) <= slots
  BY <1>1 DEF Ladder
<1>3. \A q \in {r, p, a, b} : S[q] \in Nat /\ P[q] \in Nat /\ W[q] \in Nat
  BY <1>1
<1> HIDE DEF p, a, b
<1>4. S[r] <= P[p] + slots
  BY <1>2, <1>3
<1>5. P[r] <= W[a] + slots
  BY <1>2, <1>3
<1> QED BY <1>4, <1>5 DEF p, a

\* The same in the words of the invariant.
LEMMA RungsFit ==
  ASSUME TransportTypeOK, LadderInv, NEW r \in Rank, NEW x \in Exchange
  PROVE  /\ Rung(r, x) \in Nat /\ Taken(r, x) \in Nat /\ Taken(Peer(r, x), x) \in Nat
         /\ Rung(r, x) <= Taken(Peer(r, x), x) + scenario.slots
         /\ Taken(r, x) <= Rung(Peer(r, x), x)
<1>1. /\ staged \in [Rank -> Nat] /\ paired \in [Rank -> Nat] /\ written \in [Rank -> Nat]
      /\ scenario.slots \in Nat /\ Peer(r, x) \in Rank
  BY ScenarioFacts, Pairs DEF TransportTypeOK, Positive
<1>2. /\ staged[r] <= paired[Peer(r, 1)] + scenario.slots
      /\ paired[r] <= written[Peer(r, 2)] + scenario.slots
  BY <1>1, LadderLength DEF LadderInv
<1>3. paired[r] <= staged[Peer(r, 1)] /\ written[r] <= paired[Peer(r, 2)]
  BY DEF LadderInv, Ladder
<1> QED BY <1>1, <1>2, <1>3 DEF Rung, Taken, Exchange

-----------------------------------------------------------------------------
(***************************************************************************)
(* Assignments to one place of an array.                                   *)
(***************************************************************************)
LEMMA Update2 ==
  ASSUME NEW A, NEW B, NEW C, NEW f \in [A -> [B -> C]], NEW g,
         NEW a \in A, NEW b \in B, NEW v \in C, g = [f EXCEPT ![a][b] = v]
  PROVE  /\ g \in [A -> [B -> C]]
         /\ g[a][b] = v
         /\ \A i \in A, j \in B : i # a \/ j # b => g[i][j] = f[i][j]
  OBVIOUS

LEMMA Update3 ==
  ASSUME NEW A, NEW B, NEW C, NEW D, NEW f \in [A -> [B -> [C -> D]]], NEW g,
         NEW a \in A, NEW b \in B, NEW c \in C, NEW v \in D, g = [f EXCEPT ![a][b][c] = v]
  PROVE  /\ g \in [A -> [B -> [C -> D]]]
         /\ g[a][b][c] = v
         /\ \A k \in C : k # c => g[a][b][k] = f[a][b][k]
         /\ \A i \in A, j \in B : i # a \/ j # b => g[i][j] = f[i][j]
<1>1. g = [f EXCEPT ![a][b] = [f[a][b] EXCEPT ![c] = v]]
  OBVIOUS
<1>2. [f[a][b] EXCEPT ![c] = v] \in [C -> D]
  OBVIOUS
<1> QED BY <1>1, <1>2, Update2

LEMMA Update4 ==
  ASSUME NEW A, NEW B, NEW C, NEW D, NEW E, NEW f \in [A -> [B -> [C -> [D -> E]]]], NEW g,
         NEW a \in A, NEW b \in B, NEW c \in C, NEW d \in D, NEW v \in E,
         g = [f EXCEPT ![a][b][c][d] = v]
  PROVE  /\ g \in [A -> [B -> [C -> [D -> E]]]]
         /\ g[a][b][c][d] = v
         /\ \A k \in C, l \in D : k # c \/ l # d => g[a][b][k][l] = f[a][b][k][l]
         /\ \A i \in A, j \in B : i # a \/ j # b => g[i][j] = f[i][j]
<1> DEFINE F == [D -> E]
           h == [f[a][b][c] EXCEPT ![d] = v]
           m == [f[a][b] EXCEPT ![c] = h]
<1>1. g = [f EXCEPT ![a][b] = m]
  OBVIOUS
<1>2. h \in F /\ f[a][b][c] \in F /\ f \in [A -> [B -> [C -> F]]]
  OBVIOUS
<1>3. m \in [C -> F] /\ m[c] = h /\ \A k \in C : k # c => m[k] = f[a][b][k]
  <2> HIDE DEF F, h
  <2> QED BY <1>2
<1>4. /\ g \in [A -> [B -> [C -> F]]]
      /\ g[a][b] = m
      /\ \A i \in A, j \in B : i # a \/ j # b => g[i][j] = f[i][j]
  <2> DEFINE G == [C -> F]
  <2>1. m \in G /\ f \in [A -> [B -> G]]
    BY <1>2, <1>3
  <2> HIDE DEF G, m
  <2> QED BY <1>1, <2>1, Update2 DEF G
<1>5. g[a][b][c][d] = v /\ \A l \in D : l # d => g[a][b][c][l] = f[a][b][c][l]
  BY <1>2, <1>3, <1>4
<1> QED BY <1>3, <1>4, <1>5

-----------------------------------------------------------------------------
(***************************************************************************)
(* What a step that does not concern an exchange leaves.                   *)
(***************************************************************************)
LEMMA KernelStays ==
  ASSUME NEW r \in Rank, KernelInv(r), scenario' = scenario, alive'[r] => alive[r],
         poison'[r] = poison[r], error'[r] = error[r], launch'[r] = launch[r], pos'[r] = pos[r],
         epoch'[r] = epoch[r], called'[r] = called[r], staged'[r] = staged[r],
         paired'[r] = paired[r], written'[r] = written[r]
  PROVE  KernelInv(r)'
  BY DEF KernelInv, NoError, Chunks, Round, Plan, WordOf

LEMMA ProxyStays ==
  ASSUME NEW r \in Rank, NEW x \in Exchange, ProxyInv(r, x), scenario' = scenario,
         alive'[r] => alive[r], bell'[r][x] = bell[r][x], last'[r][x] = last[r][x],
         wire'[r][x] = wire[r][x], Rung(r, x)' = Rung(r, x),
         Taken(Peer(r, x), x)' # Taken(Peer(r, x), x) =>
           \A l \in Lane : alive[r] => Taken(Peer(r, x), x)' <= Done(r, x, l)
  PROVE  ProxyInv(r, x)'
<1>1. /\ Posted(r, x)' = Posted(r, x)
      /\ \A l : Done(r, x, l)' = Done(r, x, l)
      /\ \A s : WordOf(s)' = WordOf(s)
      /\ Lane' = Lane
  BY DEF Posted, Done, Pending, WordOf, Lane
<1>2. Rung(r, x)' = Rung(r, x) /\ bell'[r][x] = bell[r][x] /\ last'[r][x] = last[r][x]
      /\ wire'[r][x] = wire[r][x]
  OBVIOUS
<1> QED BY <1>1, <1>2 DEF ProxyInv

LEMMA SendStays ==
  ASSUME NEW r \in Rank, NEW x \in Exchange, SendInv(r, x), scenario' = scenario,
         alive'[r] => alive[r], send'[r][x] = send[r][x], bytes'[r][x] = bytes[r][x],
         Rung(r, x)' = Rung(r, x)
  PROVE  SendInv(r, x)'
<1>1. /\ \A s : SlotOf(WordOf(s))' = SlotOf(WordOf(s))
      /\ \A s : Payload(r, x, s)' = Payload(r, x, s)
  BY DEF SlotOf, WordOf, Payload, Plus, Term, Lane
<1> QED BY <1>1 DEF SendInv

\* The peer may publish more, or be gone.
LEMMA FlagStays ==
  ASSUME NEW r \in Rank, NEW x \in Exchange, FlagInv(r, x), scenario' = scenario,
         scenario.slots \in Int, Rung(Peer(r, x), x) \in Int, Rung(Peer(r, x), x)' \in Int,
         alive'[r] => alive[r], flag'[r][x] = flag[r][x], recv'[r][x] = recv[r][x],
         Taken(r, x)' = Taken(r, x),
         Rung(Peer(r, x), x) <= Rung(Peer(r, x), x)',
         alive'[Peer(r, x)] => alive[Peer(r, x)],
         \A l \in Lane : alive'[Peer(r, x)] => Done(Peer(r, x), x, l)' = Done(Peer(r, x), x, l)
  PROVE  FlagInv(r, x)'
<1> DEFINE q == Peer(r, x)
<1>1. Lane' = Lane /\ Slot' = Slot /\ (\A s : WordOf(s)' = WordOf(s))
      /\ \A s : Payload(q, x, s)' = Payload(q, x, s)
  BY DEF Lane, Slot, WordOf, Payload, Plus, Term
<1>2. SUFFICES ASSUME alive'[r], NEW k \in Slot, NEW l \in Lane
               PROVE  \E s \in (-scenario.slots)..Rung(q, x)' : Holding(r, x, k, l, s)'
  BY <1>1 DEF FlagInv
<1>3. PICK s \in (-scenario.slots)..Rung(q, x) : Holding(r, x, k, l, s)
  BY <1>2 DEF FlagInv
<1>4. s \in (-scenario.slots)..Rung(q, x)'
  BY <1>3
<1>5. Holding(r, x, k, l, s)'
  <2>1. /\ Taken(r, x) < s + scenario.slots /\ s <= Rung(q, x)
        /\ alive[q] => s <= Done(q, x, l)
        /\ (scenario.completed + s) % scenario.slots = k
        /\ flag[r][x][k][l] = IF scenario.completed + s < 1 THEN 0 ELSE WordOf(s)
        /\ s >= 1 => recv[r][x][k][l] = Payload(q, x, s)[l]
    BY <1>3 DEF Holding
  <2>2. /\ flag'[r][x][k][l] = flag[r][x][k][l] /\ recv'[r][x][k][l] = recv[r][x][k][l]
        /\ s <= Rung(q, x)' /\ Taken(r, x)' = Taken(r, x)
        /\ alive'[q] => s <= Done(q, x, l)'
    BY <1>3, <1>4, <2>1
  <2> QED BY <1>1, <2>1, <2>2 DEF Holding
<1> QED BY <1>4, <1>5

-----------------------------------------------------------------------------
(***************************************************************************)
(* Publishing an operation.                                                *)
(***************************************************************************)

\* Data of an operation.
LEMMA PayloadTyped ==
  ASSUME NEW r \in Rank, NEW x \in Exchange, NEW s \in Nat
  PROVE  Payload(r, x, s) \in [Lane -> Datum]
<1>1. Peer(r, 1) \in Rank
  BY Pairs DEF Exchange
<1>2. Term(s, r) \in [Lane -> Datum] /\ Term(s, Peer(r, 1)) \in [Lane -> Datum]
  BY <1>1 DEF Term, Datum
<1>3. Plus(Term(s, r), Term(s, Peer(r, 1))) \in [Lane -> Datum]
  BY <1>2 DEF Plus, Datum
<1> QED BY <1>2, <1>3 DEF Payload

\* Publishing is an assignment to a slot, its byte count and the doorbell.
LEMMA PublishWrites ==
  ASSUME TransportTypeOK, NEW r \in Rank, NEW x \in Exchange, NEW op \in Nat, NEW n \in Int,
         NEW data \in [Lane -> Datum], Publish(r, x, op, WordOf(n), data)
  PROVE  /\ send' \in [Rank -> [Exchange -> [Slot -> [Lane -> Datum]]]]
         /\ bytes' \in [Rank -> [Exchange -> [Slot -> Nat]]]
         /\ bell' \in [Rank -> [Exchange -> Word]]
         /\ bell'[r][x] = WordOf(n)
         /\ send'[r][x][SlotOf(WordOf(n))] = data /\ bytes'[r][x][SlotOf(WordOf(n))] = op
         /\ \A k \in Slot : k # SlotOf(WordOf(n)) =>
              send'[r][x][k] = send[r][x][k] /\ bytes'[r][x][k] = bytes[r][x][k]
         /\ \A p \in Rank, y \in Exchange : p # r \/ y # x =>
              send'[p][y] = send[p][y] /\ bytes'[p][y] = bytes[p][y] /\ bell'[p][y] = bell[p][y]
<1> DEFINE k == SlotOf(WordOf(n))
           D == [Lane -> Datum]
<1>1. /\ send \in [Rank -> [Exchange -> [Slot -> D]]]
      /\ bytes \in [Rank -> [Exchange -> [Slot -> Nat]]]
      /\ bell \in [Rank -> [Exchange -> Word]]
      /\ k \in Slot /\ WordOf(n) \in Word /\ data \in D
  BY WordFacts DEF TransportTypeOK
<1>2. /\ send' = [send EXCEPT ![r][x][k] = data]
      /\ bytes' = [bytes EXCEPT ![r][x][k] = op]
      /\ bell' = [bell EXCEPT ![r][x] = WordOf(n)]
  BY DEF Publish
<1> HIDE DEF k, D
<1>3. /\ send' \in [Rank -> [Exchange -> [Slot -> D]]]
      /\ send'[r][x][k] = data
      /\ \A j \in Slot : j # k => send'[r][x][j] = send[r][x][j]
      /\ \A p \in Rank, y \in Exchange : p # r \/ y # x => send'[p][y] = send[p][y]
  BY <1>1, <1>2, Update3
<1>4. /\ bytes' \in [Rank -> [Exchange -> [Slot -> Nat]]]
      /\ bytes'[r][x][k] = op
      /\ \A j \in Slot : j # k => bytes'[r][x][j] = bytes[r][x][j]
      /\ \A p \in Rank, y \in Exchange : p # r \/ y # x => bytes'[p][y] = bytes[p][y]
  BY <1>1, <1>2, Update3
<1>5. /\ bell' \in [Rank -> [Exchange -> Word]]
      /\ bell'[r][x] = WordOf(n)
      /\ \A p \in Rank, y \in Exchange : p # r \/ y # x => bell'[p][y] = bell[p][y]
  BY <1>1, <1>2, Update2
<1> QED BY <1>3, <1>4, <1>5 DEF k, D

\* Ranges that the invariant gives an exchange of a rank that lives.
LEMMA ProxyRanges ==
  ASSUME TransportTypeOK, LadderInv, NEW r \in Rank, NEW x \in Exchange, NEW l \in Lane,
         alive[r], ProxyInv(r, x)
  PROVE  /\ Pending(r, x) \in Nat /\ Posted(r, x) \in Int /\ Done(r, x, l) \in Int
         /\ Len(wire[r][x][l]) \in Nat
         /\ Taken(Peer(r, x), x) <= Done(r, x, l)
         /\ Done(r, x, l) <= Posted(r, x) /\ Posted(r, x) <= Rung(r, x)
         /\ Rung(r, x) <= Done(r, x, l) + scenario.slots
<1>1. /\ scenario.slots \in Nat /\ SeqMod \in Positive
      /\ bell[r][x] \in Int /\ last[r][x] \in Int /\ wire[r][x][l] \in Seq(Write)
  BY ScenarioFacts, SMTT(40) DEF TransportTypeOK, Positive, Word
<1>2. Pending(r, x) \in Nat
  <2>1. bell[r][x] + SeqMod - last[r][x] \in Int
    BY <1>1 DEF Positive
  <2> QED BY <1>1, <2>1, DivMod DEF Pending
<1>3. Rung(r, x) \in Nat /\ Rung(r, x) <= Taken(Peer(r, x), x) + scenario.slots
      /\ Taken(Peer(r, x), x) \in Nat
  BY RungsFit
<1>4. Taken(Peer(r, x), x) <= Done(r, x, l)
  BY DEF ProxyInv
<1>5. Len(wire[r][x][l]) \in Nat
  BY <1>1
<1>6. Posted(r, x) = Rung(r, x) - Pending(r, x) /\ Done(r, x, l) = Posted(r, x) - Len(wire[r][x][l])
  BY DEF Posted, Done
<1>7. /\ Done(r, x, l) <= Posted(r, x) /\ Posted(r, x) <= Rung(r, x)
      /\ Posted(r, x) \in Int /\ Done(r, x, l) \in Int
  BY <1>2, <1>3, <1>5, <1>6
<1>8. scenario.slots \in Nat
  BY <1>1
<1>9. Rung(r, x) <= Done(r, x, l) + scenario.slots
  BY <1>3, <1>4, <1>7, <1>8
<1> QED BY <1>2, <1>4, <1>5, <1>7, <1>9

\* The lanes of an exchange are not none.
LEMMA FirstLane ==
  ASSUME TransportTypeOK PROVE 1 \in Lane
  BY ScenarioFacts DEF TransportTypeOK, Lane, Positive

\* An operation that is published in its turn keeps proxy and send slots in
\* order: it takes the slot of one that everybody has done with.
LEMMA PublishKeeps ==
  ASSUME TransportTypeOK, LadderInv, NEW r \in Rank, NEW x \in Exchange,
         alive[r], ProxyInv(r, x), SendInv(r, x),
         NEW op \in Nat, op = Rung(r, x) + 1, op <= Taken(Peer(r, x), x) + scenario.slots,
         Publish(r, x, op, WordOf(op), Payload(r, x, op)),
         Rung(r, x)' = op, Taken(Peer(r, x), x)' = Taken(Peer(r, x), x),
         scenario' = scenario, last' = last, wire' = wire, alive' = alive
  PROVE  /\ ProxyInv(r, x)' /\ SendInv(r, x)'
         /\ \A l \in Lane : Done(r, x, l)' = Done(r, x, l)
<1>1. /\ scenario \in Scenarios /\ scenario.slots \in Nat /\ SeqMod \in Int
      /\ 0 < scenario.slots /\ scenario.slots < SeqMod
  BY ScenarioFacts DEF TransportTypeOK, Positive
<1>2. Payload(r, x, op) \in [Lane -> Datum]
  BY PayloadTyped
<1>3. /\ bell'[r][x] = WordOf(op)
      /\ send'[r][x][SlotOf(WordOf(op))] = Payload(r, x, op)
      /\ bytes'[r][x][SlotOf(WordOf(op))] = op
      /\ \A k \in Slot : k # SlotOf(WordOf(op)) =>
           send'[r][x][k] = send[r][x][k] /\ bytes'[r][x][k] = bytes[r][x][k]
  BY <1>2, PublishWrites
<1>4. /\ Lane' = Lane /\ \A s : WordOf(s)' = WordOf(s)
      /\ \A s : SlotOf(WordOf(s))' = SlotOf(WordOf(s))
      /\ \A s : Payload(r, x, s)' = Payload(r, x, s)
  BY DEF Lane, SlotOf, WordOf, Payload, Plus, Term
<1>5. Posted(r, x)' = Posted(r, x)
  <2>1. PICK l \in Lane : TRUE
    BY FirstLane
  <2>2. /\ Posted(r, x) \in Int /\ Posted(r, x) <= op
        /\ op < Posted(r, x) + SeqMod /\ last[r][x] = WordOf(Posted(r, x))
    <3>1. /\ Posted(r, x) \in Int /\ Done(r, x, l) \in Int
          /\ Taken(Peer(r, x), x) <= Done(r, x, l) /\ Done(r, x, l) <= Posted(r, x)
          /\ Posted(r, x) <= Rung(r, x)
      BY <2>1, ProxyRanges
    <3>2. Rung(r, x) \in Nat /\ Taken(Peer(r, x), x) \in Nat
      BY RungsFit
    <3>3. last[r][x] = WordOf(Posted(r, x))
      BY DEF ProxyInv
    <3>4. Posted(r, x) <= op /\ op < Posted(r, x) + SeqMod
      BY <1>1, <3>1, <3>2
    <3> QED BY <3>1, <3>3, <3>4
  <2>3. Pending(r, x)' = op - Posted(r, x)
    <3>1. (WordOf(op) + SeqMod - WordOf(Posted(r, x))) % SeqMod = op - Posted(r, x)
      BY <1>1, <2>2, WordDistance
    <3>2. Pending(r, x)' = (bell'[r][x] + SeqMod - last[r][x]) % SeqMod
      BY DEF Pending
    <3> QED BY <1>3, <2>2, <3>1, <3>2
  <2>4. Posted(r, x)' = op - Pending(r, x)'
    BY DEF Posted
  <2> QED BY <2>2, <2>3, <2>4
<1>6. \A l : Done(r, x, l)' = Done(r, x, l)
  BY <1>5 DEF Done
<1>7. ProxyInv(r, x)'
  BY <1>3, <1>4, <1>5, <1>6 DEF ProxyInv
<1>8. SendInv(r, x)'
  <2>1. SUFFICES ASSUME NEW s \in 1..op, op < s + scenario.slots
                 PROVE  /\ send'[r][x][SlotOf(WordOf(s))] = Payload(r, x, s)
                        /\ bytes'[r][x][SlotOf(WordOf(s))] = s
    BY <1>4 DEF SendInv
  <2>2. CASE s = op
    BY <1>3, <2>2
  <2>3. CASE s # op
    <3>1. s \in 1..Rung(r, x) /\ Rung(r, x) < s + scenario.slots
      BY <1>1, <2>1, <2>3, RungsFit
    <3>2. SlotOf(WordOf(s)) \in Slot /\ SlotOf(WordOf(s)) # SlotOf(WordOf(op))
      <4>1. /\ op \in Int /\ s \in Int
            /\ op < s + scenario.slots /\ s < op + scenario.slots
        BY <1>1, <2>1
      <4> QED BY <1>1, <2>3, <4>1, SlotsDiffer, SlotOfOperation
    <3> QED BY <1>3, <3>1, <3>2 DEF SendInv
  <2> QED BY <2>2, <2>3
<1> QED BY <1>6, <1>7, <1>8

-----------------------------------------------------------------------------
(***************************************************************************)
(* Reading an operation.                                                   *)
(***************************************************************************)

\* Flags that carry the word of the next operation stand for that operation and
\* no other: its data are there on every lane, and every slot's content is as
\* recent as the operation asks.
LEMMA ReadArrived ==
  ASSUME TransportTypeOK, LadderInv, NEW r \in Rank, NEW x \in Exchange,
         alive[r], FlagInv(r, x),
         NEW o \in Nat, o = Taken(r, x) + 1, Sequence(r) = WordOf(o), Arrived(r, x)
  PROVE  /\ o <= Rung(Peer(r, x), x)
         /\ \A l \in Lane : alive[Peer(r, x)] => o <= Done(Peer(r, x), x, l)
         /\ recv[r][x][SlotOf(Sequence(r))] = Payload(Peer(r, x), x, o)
         /\ \A k \in Slot, l \in Lane : \E s \in (-scenario.slots)..Rung(Peer(r, x), x) :
              Holding(r, x, k, l, s) /\ o < s + scenario.slots
<1> DEFINE q == Peer(r, x)
           mine == SlotOf(Sequence(r))
<1>1. /\ scenario \in Scenarios /\ scenario.slots \in Positive /\ SeqMod \in Positive
      /\ scenario.slots < SeqMod /\ scenario.completed \in Nat
  BY ScenarioFacts DEF TransportTypeOK
<1>2. mine \in Slot /\ mine = (scenario.completed + o) % scenario.slots
  <2>1. o \in Int
    OBVIOUS
  <2> QED BY <1>1, <2>1, SlotOfOperation
<1>3. Rung(q, x) \in Nat /\ Rung(q, x) <= Taken(r, x) + scenario.slots /\ Taken(r, x) \in Nat
  BY Pairs, RungsFit
<1>4. ASSUME NEW l \in Lane, NEW s \in (-scenario.slots)..Rung(q, x), Holding(r, x, mine, l, s)
      PROVE  s = o
  <2>1. /\ Taken(r, x) < s + scenario.slots /\ s <= Rung(q, x)
        /\ flag[r][x][mine][l] = IF scenario.completed + s < 1 THEN 0 ELSE WordOf(s)
    BY <1>4 DEF Holding
  <2>2. flag[r][x][mine][l] = WordOf(o)
    BY DEF Arrived
  <2>3. s \in Int /\ o <= s + scenario.slots /\ s < o + scenario.slots
    BY <1>1, <1>3, <2>1 DEF Positive
  <2>4. CASE scenario.completed + s < 1
    <3>1. 0 <= scenario.completed + o /\ scenario.completed + o < SeqMod /\ scenario.completed + o # 0
      BY <1>1, <1>3, <2>3, <2>4 DEF Positive
    <3>2. WordOf(o) = scenario.completed + o
      BY <1>1, <3>1, WordSmall
    <3> QED BY <2>1, <2>2, <2>4, <3>1, <3>2
  <2>5. CASE ~(scenario.completed + s < 1)
    <3>1. WordOf(s) = WordOf(o)
      BY <2>1, <2>2, <2>5
    <3>2. s < o + SeqMod /\ o < s + SeqMod
      BY <1>1, <2>3 DEF Positive
    <3> QED BY <1>1, <2>3, <3>1, <3>2, WordApart
  <2> QED BY <2>4, <2>5
<1>5. ASSUME NEW l \in Lane PROVE o \in (-scenario.slots)..Rung(q, x) /\ Holding(r, x, mine, l, o)
  <2>1. PICK s \in (-scenario.slots)..Rung(q, x) : Holding(r, x, mine, l, s)
    BY <1>2 DEF FlagInv
  <2>2. s = o
    BY <1>4, <2>1
  <2> QED BY <2>1, <2>2
<1>6. o <= Rung(q, x)
  BY <1>5, FirstLane DEF Holding
<1>7. \A l \in Lane : alive[q] => o <= Done(q, x, l)
  BY <1>5 DEF Holding
<1>8. recv[r][x][mine] = Payload(q, x, o)
  <2>1. recv[r][x][mine] \in [Lane -> Datum]
    BY <1>2 DEF TransportTypeOK
  <2>2. Payload(q, x, o) \in [Lane -> Datum]
    BY Pairs, PayloadTyped
  <2>3. \A l \in Lane : recv[r][x][mine][l] = Payload(q, x, o)[l]
    BY <1>3, <1>5 DEF Holding
  <2> QED BY <2>1, <2>2, <2>3
<1>9. ASSUME NEW k \in Slot, NEW l \in Lane
      PROVE  \E s \in (-scenario.slots)..Rung(q, x) :
               Holding(r, x, k, l, s) /\ o < s + scenario.slots
  <2>1. PICK s \in (-scenario.slots)..Rung(q, x) : Holding(r, x, k, l, s)
    BY DEF FlagInv
  <2>2. Taken(r, x) < s + scenario.slots /\ (scenario.completed + s) % scenario.slots = k
    BY <2>1 DEF Holding
  <2>3. CASE k = mine
    <3>1. s = o
      BY <1>4, <2>1, <2>3
    <3> QED BY <1>1, <2>1, <3>1 DEF Positive
  <2>4. CASE k # mine
    <3>1. o # s + scenario.slots
      <4>1. ASSUME o = s + scenario.slots PROVE FALSE
        <5>1. scenario.completed + s \in Int
          BY <1>1
        <5>2. ((scenario.completed + s) + scenario.slots) % scenario.slots = k
          BY <1>1, <2>2, <5>1, ModTurn
        <5>3. (scenario.completed + s) + scenario.slots = scenario.completed + o
          BY <1>1, <4>1 DEF Positive
        <5> QED BY <1>2, <2>4, <5>2, <5>3
      <4> QED BY <4>1
    <3> QED BY <1>1, <1>3, <2>1, <2>2, <3>1 DEF Positive
  <2> QED BY <2>3, <2>4
<1> QED BY <1>6, <1>7, <1>8, <1>9

-----------------------------------------------------------------------------
(***************************************************************************)
(* The initial state.                                                      *)
(***************************************************************************)

\* The operation whose flag a slot holds at the start.
LEMMA LatestOfSlot ==
  ASSUME scenario \in Scenarios, NEW k \in Slot
  PROVE  \E s \in (-scenario.slots)..0 :
           /\ 0 < s + scenario.slots
           /\ (scenario.completed + s) % scenario.slots = k
           /\ WordIn(k) = IF scenario.completed + s < 1 THEN 0 ELSE WordOf(s)
<1>1. scenario.completed \in Int /\ scenario.slots \in Positive /\ k \in 0..(scenario.slots - 1)
  BY ScenarioFacts DEF Slot
<1>2. scenario.completed + scenario.slots - k \in Int
  BY <1>1 DEF Positive
<1>3. PICK q \in Int, d \in 0..(scenario.slots - 1) :
        /\ scenario.completed + scenario.slots - k = scenario.slots * q + d
        /\ (scenario.completed + scenario.slots - k) % scenario.slots = d
  BY <1>1, <1>2, Division
<1>4. (scenario.completed - d) % scenario.slots = k
  <2>1. scenario.completed - d = scenario.slots * (q - 1) + k
    <3> DEFINE c == scenario.completed
               n == scenario.slots
               u == n * q
               w == n * (q - 1)
    <3>1. w = u - n /\ u \in Int
      BY <1>1 DEF Positive
    <3>2. c \in Int /\ n \in Int /\ d \in Int /\ k \in Int /\ w \in Int
      BY <1>1 DEF Positive
    <3>3. c + n - k = u + d
      BY <1>3
    <3>4. c - d = w + k
      <4> HIDE DEF c, n, u, w
      <4> QED BY <3>1, <3>2, <3>3
    <3> QED BY <3>4
  <2>2. scenario.completed - d \in Int /\ q - 1 \in Int
    BY <1>1 DEF Positive
  <2> QED BY <1>1, <2>1, <2>2, ModUnique
<1>5. /\ scenario.completed + (-d) = scenario.completed - d
      /\ -d \in (-scenario.slots)..0 /\ 0 < -d + scenario.slots
  BY <1>1 DEF Positive
<1>6. WordIn(k) = IF scenario.completed - d >= 1 THEN (scenario.completed - d) % SeqMod ELSE 0
  BY <1>3 DEF WordIn
<1>7. WordIn(k) = IF scenario.completed + (-d) < 1 THEN 0 ELSE WordOf(-d)
  BY <1>1, <1>5, <1>6 DEF WordOf, Positive
<1> QED BY <1>4, <1>5, <1>7

LEMMA LeanStarts == LeanInit => LeanInv
<1> SUFFICES ASSUME LeanInit PROVE LeanInv
  OBVIOUS
<1>1. scenario \in Scenarios
  BY DEF LeanInit
<1>2. /\ scenario.late \in Nat /\ scenario.slots \in Positive
      /\ SeqMod \in Positive /\ WordOf(0) \in Word /\ 0 \in Word
  BY <1>1, ScenarioFacts, WordFacts DEF Word, Positive
<1>3. \A k \in Slot : WordIn(k) \in Word
  <2>1. ASSUME NEW k \in Slot PROVE WordIn(k) \in Word
    <3>1. PICK s \in (-scenario.slots)..0 :
            WordIn(k) = IF scenario.completed + s < 1 THEN 0 ELSE WordOf(s)
      BY <1>1, LatestOfSlot
    <3>2. s \in Int
      BY <1>2 DEF Positive
    <3> QED BY <1>1, <1>2, <3>1, <3>2, WordFacts
  <2> QED BY <2>1
<1>4. Nothing \in [Lane -> Datum]
  BY DEF Nothing, Datum
<1>5. TransportTypeOK
  <2>1. late \in Nat /\ launch \in [Rank -> Nat] /\ epoch \in [Rank -> Word]
    BY <1>2 DEF LeanInit
  <2>2. pos \in [Rank -> {"idle", "stage", "pair", "join"} \X Nat]
    BY DEF LeanInit, Idle
  <2>3. /\ send \in [Rank -> [Exchange -> [Slot -> [Lane -> Datum]]]]
        /\ recv \in [Rank -> [Exchange -> [Slot -> [Lane -> Datum]]]]
    <3> DEFINE D == [Lane -> Datum]
    <3>1. Nothing \in D
      BY <1>4
    <3> HIDE DEF D
    <3>2. send \in [Rank -> [Exchange -> [Slot -> D]]] /\ recv = send
      BY <3>1 DEF LeanInit
    <3> QED BY <3>2 DEF D
  <2>4. bytes \in [Rank -> [Exchange -> [Slot -> Nat]]]
    BY DEF LeanInit
  <2>5. bell \in [Rank -> [Exchange -> Word]] /\ last \in [Rank -> [Exchange -> Word]]
    BY <1>2 DEF LeanInit
  <2>6. wire \in [Rank -> [Exchange -> [Lane -> Seq(Write)]]]
    <3>1. << >> \in Seq(Write)
      OBVIOUS
    <3> QED BY <3>1 DEF LeanInit
  <2>7. flag \in [Rank -> [Exchange -> [Slot -> [Lane -> Word]]]]
    BY <1>3 DEF LeanInit
  <2>8. /\ poison \in [Rank -> Word] /\ error \in [Rank -> [Exchange -> Word]]
        /\ failed \in [Rank -> [Exchange -> BOOLEAN]] /\ alive \in [Rank -> BOOLEAN]
        /\ called \in [Rank -> Nat] /\ staged \in [Rank -> Nat]
        /\ paired \in [Rank -> Nat] /\ written \in [Rank -> Nat]
    BY <1>2 DEF LeanInit
  <2>9. output \in [Rank -> [Lane -> Datum]]
    BY <1>4 DEF LeanInit
  <2> QED BY <1>1, <2>1, <2>2, <2>3, <2>4, <2>5, <2>6, <2>7, <2>8, <2>9 DEF TransportTypeOK
<1>6. \A r \in Rank : /\ alive[r] /\ launch[r] = 0 /\ pos[r] = Idle /\ poison[r] = 0 /\ NoError(r)
                      /\ called[r] = 0 /\ staged[r] = 0 /\ paired[r] = 0 /\ written[r] = 0
                      /\ epoch[r] = WordOf(0)
  BY DEF LeanInit, NoError
<1>7. \A r \in Rank, x \in Exchange : Rung(r, x) = 0 /\ Taken(r, x) = 0
  BY <1>6 DEF Rung, Taken
<1>8. LadderInv
  <2>1. \A r \in Rank : Peer(r, 1) \in Rank /\ Peer(r, 2) \in Rank
    BY Pairs DEF Exchange
  <2>2. scenario.slots \in Nat
    BY <1>2 DEF Positive
  <2>3. ASSUME NEW r \in Rank
        PROVE  /\ written[r] <= paired[r] /\ paired[r] <= staged[r]
               /\ 2 * (staged[r] - written[r]) <= scenario.slots
               /\ paired[r] <= staged[Peer(r, 1)] /\ written[r] <= paired[Peer(r, 2)]
    <3>1. /\ written[r] = 0 /\ paired[r] = 0 /\ staged[r] = 0
          /\ staged[Peer(r, 1)] = 0 /\ paired[Peer(r, 2)] = 0
      BY <1>6, <2>1
    <3> QED BY <2>2, <3>1
  <2> QED BY <2>3 DEF LadderInv, Ladder
<1>9. \A r \in Rank : KernelInv(r)
  <2>1. Len(Plan) \in Nat
    <3>1. Plan \in Seq(1..2)
      BY <1>1, ScenarioFacts DEF Plan
    <3> QED BY <3>1
  <2>2. ASSUME NEW r \in Rank PROVE KernelInv(r)
    <3>1. pos[r] = Idle /\ Idle[1] = "idle"
      BY <1>6 DEF Idle
    <3>2. Round(r) = "idle"
      BY <3>1 DEF Round
    <3> QED BY <1>6, <2>1, <3>1, <3>2 DEF KernelInv
  <2> QED BY <2>2
<1>10. \A r \in Rank, x \in Exchange :
         bell[r][x] = WordOf(0) /\ last[r][x] = WordOf(0) /\ failed[r][x] = FALSE
         /\ \A l \in Lane : wire[r][x][l] = <<>>
  BY DEF LeanInit
<1>11. \A r \in Rank, x \in Exchange :
         /\ Posted(r, x) = 0
         /\ \A l \in Lane : Done(r, x, l) = 0
  <2>1. (WordOf(0) + SeqMod - WordOf(0)) % SeqMod = 0
    <3>1. (WordOf(0) + SeqMod - WordOf(0)) % SeqMod = 0 - 0
      BY <1>1, <1>2, WordDistance DEF Positive
    <3> QED BY <3>1
  <2>2. ASSUME NEW r \in Rank, NEW x \in Exchange PROVE Posted(r, x) = 0
    BY <1>7, <1>10, <2>1 DEF Posted, Pending
  <2> QED BY <1>10, <2>2 DEF Done
<1>12. ASSUME NEW r \in Rank, NEW x \in Exchange PROVE ProxyInv(r, x)
  BY <1>7, <1>10, <1>11, Pairs DEF ProxyInv
<1>13. ASSUME NEW r \in Rank, NEW x \in Exchange PROVE SendInv(r, x)
  BY <1>7 DEF SendInv
<1>14. ASSUME NEW r \in Rank, NEW x \in Exchange PROVE FlagInv(r, x)
  <2>1. Peer(r, x) \in Rank
    BY Pairs
  <2>2. SUFFICES ASSUME NEW k \in Slot, NEW l \in Lane
                 PROVE  \E s \in (-scenario.slots)..0 : Holding(r, x, k, l, s)
    BY <1>7, <2>1 DEF FlagInv
  <2>3. PICK s \in (-scenario.slots)..0 :
           /\ 0 < s + scenario.slots
           /\ (scenario.completed + s) % scenario.slots = k
           /\ WordIn(k) = IF scenario.completed + s < 1 THEN 0 ELSE WordOf(s)
    BY <1>1, LatestOfSlot
  <2>4. flag[r][x][k][l] = WordIn(k)
    BY DEF LeanInit
  <2>5. s <= 0 /\ ~(s >= 1)
    BY <1>2 DEF Positive
  <2> QED BY <1>7, <1>11, <2>1, <2>3, <2>4, <2>5 DEF Holding
<1>15. HealthInv
  BY <1>2, <1>6, <1>10 DEF HealthInv, LeanInit
<1>16. OutputRight
  BY <1>6 DEF OutputRight
<1> QED BY <1>5, <1>8, <1>9, <1>12, <1>13, <1>14, <1>15, <1>16 DEF LeanInv

-----------------------------------------------------------------------------
(***************************************************************************)
(* Round 1.                                                                *)
(***************************************************************************)

\* Where a kernel within a call is.
LEMMA CallFacts ==
  ASSUME TransportTypeOK, NEW r \in Rank, alive[r], KernelInv(r), Round(r) # "idle"
  PROVE  /\ Round(r) \in {"stage", "pair", "join"}
         /\ Chunks(r) \in 1..2 /\ 2 * Chunks(r) <= scenario.slots /\ scenario.slots \in Nat
         /\ pos[r][2] \in 1..Chunks(r) /\ called[r] - Chunks(r) \in Nat /\ called[r] \in Nat
         /\ Op(r) \in Nat /\ Op(r) = called[r] - Chunks(r) + pos[r][2]
         /\ 1 <= Op(r) /\ Op(r) <= called[r]
         /\ called[r] <= 2 * launch[r] /\ launch[r] \in 1..Len(Plan)
         /\ Sequence(r) = WordOf(Op(r))
         /\ pos[r] = <<Round(r), pos[r][2]>>
<1>1. /\ scenario \in Scenarios /\ scenario.slots \in Nat /\ Plan \in Seq(1..2)
      /\ called[r] \in Nat /\ launch[r] \in Nat
      /\ pos[r] \in {"idle", "stage", "pair", "join"} \X Nat
  BY ScenarioFacts DEF TransportTypeOK, Plan, Positive
<1>2. /\ launch[r] \in 1..Len(Plan) /\ called[r] <= 2 * launch[r]
      /\ pos[r][2] \in 1..Chunks(r) /\ called[r] - Chunks(r) >= 0
      /\ epoch[r] = WordOf(called[r] - Chunks(r))
  <2>1. launch[r] <= Len(Plan) /\ launch[r] >= 1
    BY DEF KernelInv
  <2>2. Len(Plan) \in Nat
    BY <1>1
  <2>3. launch[r] \in 1..Len(Plan)
    BY <1>1, <2>1, <2>2
  <2> QED BY <2>3 DEF KernelInv
<1>3. Chunks(r) \in 1..2 /\ 2 * Chunks(r) <= scenario.slots
  BY <1>1, <1>2, ScenarioFacts DEF Chunks, Plan
<1>4. Op(r) = called[r] - Chunks(r) + pos[r][2]
  BY DEF Op
<1>5. Sequence(r) = WordOf(Op(r))
  <2>1. /\ called[r] - Chunks(r) \in Int /\ pos[r][2] \in Int
    BY <1>1, <1>2, <1>3
  <2>2. (WordOf(called[r] - Chunks(r)) + pos[r][2]) % SeqMod = WordOf(called[r] - Chunks(r) + pos[r][2])
    BY <1>1, <2>1, WordFacts
  <2> QED BY <1>2, <1>4, <2>2 DEF Sequence
<1>6. Round(r) \in {"stage", "pair", "join"} /\ pos[r] = <<Round(r), pos[r][2]>>
  BY <1>1 DEF Round
<1>7. /\ called[r] - Chunks(r) \in Nat /\ Op(r) \in Nat /\ 1 <= Op(r) /\ Op(r) <= called[r]
  BY <1>1, <1>2, <1>3, <1>4
<1> QED BY <1>1, <1>2, <1>3, <1>4, <1>5, <1>6, <1>7

\* The place after the current one.
LEMMA AfterFacts ==
  ASSUME NEW n \in 1..2, NEW c \in 1..n, NEW round \in {"stage", "pair", "join"}
  PROVE  /\ After(round, c, n) \in {"idle", "stage", "pair", "join"} \X Nat
         /\ c < n => After(round, c, n) = <<round, c + 1>>
         /\ c = n => /\ round = "stage" => After(round, c, n) = <<"pair", 1>>
                     /\ round = "pair" => After(round, c, n) = <<"join", 1>>
                     /\ round = "join" => After(round, c, n) = Idle
         /\ c < n \/ c = n
<1>1. CASE c < n
  BY <1>1 DEF After
<1>2. CASE c = n
  <2>1. ~(c < n)
    BY <1>2
  <2>2. CASE round = "stage"
    BY <1>2, <2>1, <2>2 DEF After
  <2>3. CASE round = "pair"
    BY <1>2, <2>1, <2>3 DEF After
  <2>4. CASE round = "join"
    BY <1>2, <2>1, <2>4 DEF After, Idle
  <2> QED BY <2>2, <2>3, <2>4
<1> QED BY <1>1, <1>2

LEMMA OutputStays ==
  ASSUME OutputRight, scenario' = scenario, written' = written, output' = output
  PROVE  OutputRight'
  BY DEF OutputRight, FullSum, Lane

LEMMA HealthStays ==
  ASSUME HealthInv, scenario' = scenario, UNCHANGED wordVars, alive' = alive, failed' = failed
  PROVE  HealthInv'
  BY DEF HealthInv, wordVars, NoError

\* Staging the next operation disturbs nothing that is on its way.
LEMMA StageKeeps ==
  ASSUME LeanInv, NEW r \in Rank, alive[r],
         NEW op \in Nat, op = staged[r] + 1, 2 * (op - written[r]) <= scenario.slots,
         StageChunk(r, op, WordOf(op)),
         UNCHANGED <<scenario, paired, written, output, wordVars, proxyVars, recvVars, alive>>
  PROVE  /\ send' \in [Rank -> [Exchange -> [Slot -> [Lane -> Datum]]]]
         /\ bytes' \in [Rank -> [Exchange -> [Slot -> Nat]]]
         /\ bell' \in [Rank -> [Exchange -> Word]]
         /\ staged' \in [Rank -> Nat] /\ staged'[r] = op
         /\ \A q \in Rank : q # r => staged'[q] = staged[q]
         /\ LadderInv' /\ HealthInv' /\ OutputRight'
         /\ \A q \in Rank, x \in Exchange : ProxyInv(q, x)' /\ SendInv(q, x)' /\ FlagInv(q, x)'
<1>1. /\ TransportTypeOK /\ LadderInv /\ HealthInv /\ OutputRight
      /\ \A q \in Rank, x \in Exchange : ProxyInv(q, x) /\ SendInv(q, x) /\ FlagInv(q, x)
  BY DEF LeanInv
<1>2. /\ scenario' = scenario /\ paired' = paired /\ written' = written /\ output' = output
      /\ last' = last /\ wire' = wire /\ failed' = failed /\ recv' = recv /\ flag' = flag
      /\ alive' = alive /\ UNCHANGED wordVars
  BY DEF proxyVars, recvVars
<1>3. /\ scenario \in Scenarios /\ scenario.slots \in Nat
      /\ staged \in [Rank -> Nat] /\ paired \in [Rank -> Nat] /\ written \in [Rank -> Nat]
  BY <1>1, ScenarioFacts DEF TransportTypeOK, Positive
<1>4. /\ staged' \in [Rank -> Nat] /\ staged'[r] = op
      /\ \A q \in Rank : q # r => staged'[q] = staged[q]
  BY <1>3 DEF StageChunk
<1>5. /\ Publish(r, 1, op, WordOf(op), Payload(r, 1, op))
      /\ 1 \in Exchange /\ op \in Int
  BY DEF StageChunk, Payload, Exchange
<1>6. Ladder(staged', paired, written, scenario.slots)
  <2>1. SUFFICES ASSUME NEW q \in Rank
                 PROVE  /\ written[q] <= paired[q] /\ paired[q] <= staged'[q]
                        /\ 2 * (staged'[q] - written[q]) <= scenario.slots
                        /\ paired[q] <= staged'[Peer(q, 1)]
                        /\ written[q] <= paired[Peer(q, 2)]
    BY DEF Ladder
  <2>2. Peer(q, 1) \in Rank /\ Peer(q, 2) \in Rank
    BY Pairs DEF Exchange
  <2>3. /\ written[q] <= paired[q] /\ paired[q] <= staged[q]
        /\ 2 * (staged[q] - written[q]) <= scenario.slots
        /\ paired[q] <= staged[Peer(q, 1)]
        /\ written[q] <= paired[Peer(q, 2)]
    BY <1>1 DEF LadderInv, Ladder
  <2>4. \A p \in Rank : staged[p] <= staged'[p] /\ staged[p] \in Nat /\ staged'[p] \in Nat /\ paired[p] \in Nat
    BY <1>3, <1>4
  <2>5. paired[q] <= staged'[q] /\ paired[q] <= staged'[Peer(q, 1)]
    BY <2>2, <2>3, <2>4
  <2>6. 2 * (staged'[q] - written[q]) <= scenario.slots
    BY <1>4, <2>3
  <2> QED BY <2>3, <2>5, <2>6
<1>7. LadderInv'
  BY <1>2, <1>6 DEF LadderInv
<1>8. op <= Taken(Peer(r, 1), 1) + scenario.slots
  BY <1>3, <1>4, <1>6, LadderLength DEF Taken
<1>9. /\ \A q \in Rank, x \in Exchange : q # r \/ x # 1 => Rung(q, x)' = Rung(q, x)
      /\ Rung(r, 1)' = op /\ Rung(r, 1) = staged[r]
      /\ \A q \in Rank, x \in Exchange : Taken(q, x)' = Taken(q, x)
  BY <1>2, <1>4 DEF Rung, Taken, Exchange
<1>10. /\ ProxyInv(r, 1)' /\ SendInv(r, 1)'
       /\ \A l \in Lane : Done(r, 1, l)' = Done(r, 1, l)
  <2>1. op = Rung(r, 1) + 1 /\ Rung(r, 1)' = op
    BY <1>9
  <2>2. Taken(Peer(r, 1), 1)' = Taken(Peer(r, 1), 1)
    BY <1>5, <1>9, Pairs
  <2>3. ProxyInv(r, 1) /\ SendInv(r, 1)
    BY <1>1, <1>5
  <2> QED BY <1>1, <1>2, <1>5, <1>8, <2>1, <2>2, <2>3, PublishKeeps
<1>11. /\ send' \in [Rank -> [Exchange -> [Slot -> [Lane -> Datum]]]]
       /\ bytes' \in [Rank -> [Exchange -> [Slot -> Nat]]]
       /\ bell' \in [Rank -> [Exchange -> Word]]
       /\ \A q \in Rank, x \in Exchange : q # r \/ x # 1 =>
            send'[q][x] = send[q][x] /\ bytes'[q][x] = bytes[q][x] /\ bell'[q][x] = bell[q][x]
  <2>1. Payload(r, 1, op) \in [Lane -> Datum]
    BY <1>5, PayloadTyped
  <2> QED BY <1>1, <1>5, <2>1, PublishWrites
<1>12. ASSUME NEW q \in Rank, NEW x \in Exchange, q # r \/ x # 1
       PROVE  /\ ProxyInv(q, x)' /\ SendInv(q, x)'
              /\ \A l \in Lane : Done(q, x, l)' = Done(q, x, l)
  <2>1. /\ Rung(q, x)' = Rung(q, x) /\ Taken(Peer(q, x), x)' = Taken(Peer(q, x), x)
        /\ send'[q][x] = send[q][x] /\ bytes'[q][x] = bytes[q][x] /\ bell'[q][x] = bell[q][x]
        /\ last'[q][x] = last[q][x] /\ wire'[q][x] = wire[q][x]
        /\ alive'[q] => alive[q]
        /\ ProxyInv(q, x) /\ SendInv(q, x)
    BY <1>1, <1>2, <1>9, <1>11, <1>12, Pairs
  <2>2. ProxyInv(q, x)'
    BY <1>2, <2>1, ProxyStays
  <2>3. SendInv(q, x)'
    BY <1>2, <2>1, SendStays
  <2>4. \A l \in Lane : Done(q, x, l)' = Done(q, x, l)
    BY <2>1 DEF Done, Posted, Pending
  <2> QED BY <2>2, <2>3, <2>4
<1>13. ASSUME NEW q \in Rank, NEW x \in Exchange PROVE FlagInv(q, x)'
  <2>1. Peer(q, x) \in Rank
    BY Pairs
  <2>2. /\ Rung(Peer(q, x), x) \in Int /\ Rung(Peer(q, x), x)' \in Int
        /\ Rung(Peer(q, x), x) <= Rung(Peer(q, x), x)'
    BY <1>3, <1>4, <1>9, <2>1 DEF Rung
  <2>3. \A l \in Lane : Done(Peer(q, x), x, l)' = Done(Peer(q, x), x, l)
    BY <1>10, <1>12, <2>1
  <2>4. /\ flag'[q][x] = flag[q][x] /\ recv'[q][x] = recv[q][x] /\ Taken(q, x)' = Taken(q, x)
        /\ alive'[q] => alive[q]
        /\ alive'[Peer(q, x)] => alive[Peer(q, x)]
        /\ FlagInv(q, x) /\ scenario.slots \in Int
    BY <1>1, <1>2, <1>3, <1>9
  <2> QED BY <1>2, <2>1, <2>2, <2>3, <2>4, FlagStays
<1>14. HealthInv' /\ OutputRight'
  BY <1>1, <1>2, HealthStays, OutputStays
<1> QED BY <1>4, <1>7, <1>10, <1>11, <1>12, <1>13, <1>14

\* Steps that leave the transport alone.
LEMMA ExchangeStays ==
  ASSUME TransportTypeOK,
         \A q \in Rank, x \in Exchange : ProxyInv(q, x) /\ SendInv(q, x) /\ FlagInv(q, x),
         scenario' = scenario, alive' = alive, staged' = staged, paired' = paired,
         written' = written, send' = send, bytes' = bytes, bell' = bell, last' = last,
         wire' = wire, recv' = recv, flag' = flag
  PROVE  \A q \in Rank, x \in Exchange : ProxyInv(q, x)' /\ SendInv(q, x)' /\ FlagInv(q, x)'
<1>1. SUFFICES ASSUME NEW q \in Rank, NEW x \in Exchange
               PROVE  ProxyInv(q, x)' /\ SendInv(q, x)' /\ FlagInv(q, x)'
  OBVIOUS
<1>2. Peer(q, x) \in Rank
  BY Pairs
<1>3. /\ \A p \in Rank : Rung(p, x)' = Rung(p, x) /\ Taken(p, x)' = Taken(p, x)
      /\ \A p \in Rank : \A l : Done(p, x, l)' = Done(p, x, l)
      /\ \A p \in Rank : Rung(p, x) \in Int
      /\ scenario.slots \in Int
  <2>1. \A p \in Rank : Rung(p, x)' = Rung(p, x) /\ Taken(p, x)' = Taken(p, x)
    BY DEF Rung, Taken
  <2>2. \A p \in Rank : \A l : Done(p, x, l)' = Done(p, x, l)
    BY <2>1 DEF Done, Posted, Pending
  <2>3. \A p \in Rank : Rung(p, x) \in Int
    BY DEF Rung, TransportTypeOK
  <2>4. scenario.slots \in Int
    BY ScenarioFacts DEF TransportTypeOK, Positive
  <2> QED BY <2>1, <2>2, <2>3, <2>4
<1>4. ProxyInv(q, x)'
  BY <1>2, <1>3, ProxyStays
<1>5. SendInv(q, x)'
  BY <1>3, SendStays
<1>6. FlagInv(q, x)'
  <2>1. Rung(Peer(q, x), x) <= Rung(Peer(q, x), x)'
    BY <1>2, <1>3
  <2> QED BY <1>2, <1>3, <2>1, FlagStays
<1> QED BY <1>4, <1>5, <1>6

\* Lanes, slots and words are those of the scenario.
LEMMA SameScenario ==
  ASSUME scenario' = scenario
  PROVE  Lane' = Lane /\ Slot' = Slot /\ Plan' = Plan /\ (\A a : WordOf(a)' = WordOf(a))
  BY DEF Lane, Slot, Plan, WordOf

\* A step of a kernel leaves the kernels of the other ranks.
LEMMA OtherKernels ==
  ASSUME LeanInv, NEW r \in Rank, scenario' = scenario, alive' = alive,
         \A q \in Rank : q # r =>
           /\ poison'[q] = poison[q] /\ error'[q] = error[q] /\ launch'[q] = launch[q]
           /\ pos'[q] = pos[q] /\ epoch'[q] = epoch[q] /\ called'[q] = called[q]
           /\ staged'[q] = staged[q] /\ paired'[q] = paired[q] /\ written'[q] = written[q]
  PROVE  \A q \in Rank : q # r => KernelInv(q)'
<1>1. SUFFICES ASSUME NEW q \in Rank, q # r PROVE KernelInv(q)'
  OBVIOUS
<1>2. KernelInv(q) /\ (alive'[q] => alive[q])
  BY DEF LeanInv
<1>3. /\ poison'[q] = poison[q] /\ error'[q] = error[q] /\ launch'[q] = launch[q]
      /\ pos'[q] = pos[q] /\ epoch'[q] = epoch[q] /\ called'[q] = called[q]
      /\ staged'[q] = staged[q] /\ paired'[q] = paired[q] /\ written'[q] = written[q]
  BY <1>1
<1> QED BY <1>2, <1>3, KernelStays

LEMMA LaunchKeeps ==
  ASSUME LeanInv, NEW r \in Rank, Launch(r)
  PROVE  LeanInv'
<1> DEFINE n == launch[r] + 1
           m == Plan[n]
<1>1. /\ TransportTypeOK /\ LadderInv /\ HealthInv /\ OutputRight /\ KernelInv(r)
      /\ \A q \in Rank, x \in Exchange : ProxyInv(q, x) /\ SendInv(q, x) /\ FlagInv(q, x)
  BY DEF LeanInv
<1>2. /\ alive[r] /\ pos[r] = Idle /\ n <= Len(Plan)
      /\ launch' = [launch EXCEPT ![r] = n]
      /\ called' = [called EXCEPT ![r] = @ + m]
      /\ UNCHANGED <<scenario, epoch, paired, written, output, wordVars, proxyVars, recvVars, alive>>
  BY DEF Launch
<1>3. /\ late' = late /\ poison' = poison /\ error' = error /\ last' = last /\ wire' = wire
      /\ failed' = failed /\ recv' = recv /\ flag' = flag /\ scenario' = scenario /\ epoch' = epoch
      /\ paired' = paired /\ written' = written /\ output' = output /\ alive' = alive
  BY <1>2 DEF wordVars, proxyVars, recvVars
<1>4. /\ scenario \in Scenarios /\ scenario.slots \in Nat /\ Plan \in Seq(1..2)
      /\ launch \in [Rank -> Nat] /\ called \in [Rank -> Nat] /\ poison[r] \in Word
      /\ pos \in [Rank -> {"idle", "stage", "pair", "join"} \X Nat]
      /\ staged \in [Rank -> Nat]
  BY <1>1, ScenarioFacts DEF TransportTypeOK, Plan, Positive
<1>5. n \in 1..Len(Plan) /\ m \in 1..2 /\ 2 * m <= scenario.slots
  <2>1. Len(Plan) \in Nat /\ launch[r] \in Nat
    BY <1>4
  <2>2. n \in 1..Len(Plan)
    BY <1>2, <2>1
  <2> QED BY <1>4, <2>2, ScenarioFacts DEF Plan
<1>6. /\ launch' \in [Rank -> Nat] /\ called' \in [Rank -> Nat]
      /\ launch'[r] = n /\ called'[r] = called[r] + m
      /\ \A q \in Rank : q # r => launch'[q] = launch[q] /\ called'[q] = called[q]
  <2>1. n \in Nat /\ called[r] + m \in Nat
    BY <1>4, <1>5
  <2> HIDE DEF n, m
  <2> QED BY <1>2, <1>4, <2>1
<1>7. /\ Round(r) = "idle" /\ (NoError(r) <=> poison[r] = 0)
      /\ called[r] <= 2 * launch[r]
      /\ poison[r] = 0 => /\ staged[r] = called[r] /\ paired[r] = called[r]
                          /\ written[r] = called[r] /\ epoch[r] = WordOf(called[r])
  BY <1>1, <1>2 DEF KernelInv
<1>8. /\ NoError(r)' = NoError(r) /\ Chunks(r)' = m /\ Len(Plan)' = Len(Plan)
      /\ \A a : WordOf(a)' = WordOf(a)
  BY <1>3, <1>6 DEF NoError, Chunks, Plan, WordOf
<1>9. CASE poison[r] = 0
  <2> DEFINE op == called[r] + 1
  <2>1. /\ StageChunk(r, op, (epoch[r] + 1) % SeqMod)
        /\ pos' = [pos EXCEPT ![r] = After("stage", 1, m)]
    BY <1>9 DEF Launch
  <2>2. (epoch[r] + 1) % SeqMod = WordOf(op)
    <3>1. called[r] \in Int /\ 1 \in Int
      BY <1>4
    <3>2. (WordOf(called[r]) + 1) % SeqMod = WordOf(called[r] + 1)
      BY <1>4, <3>1, WordFacts
    <3> QED BY <1>7, <1>9, <3>2
  <2>3. op \in Nat /\ op = staged[r] + 1 /\ 2 * (op - written[r]) <= scenario.slots
    BY <1>4, <1>5, <1>7, <1>9
  <2>4. StageChunk(r, op, WordOf(op))
    BY <2>1, <2>2
  <2>5. UNCHANGED <<scenario, paired, written, output, wordVars, proxyVars, recvVars, alive>>
    BY <1>2
  <2> HIDE DEF op
  <2>6. /\ send' \in [Rank -> [Exchange -> [Slot -> [Lane -> Datum]]]]
        /\ bytes' \in [Rank -> [Exchange -> [Slot -> Nat]]]
        /\ bell' \in [Rank -> [Exchange -> Word]]
        /\ staged' \in [Rank -> Nat] /\ staged'[r] = op
        /\ \A q \in Rank : q # r => staged'[q] = staged[q]
        /\ LadderInv' /\ HealthInv' /\ OutputRight'
        /\ \A q \in Rank, x \in Exchange : ProxyInv(q, x)' /\ SendInv(q, x)' /\ FlagInv(q, x)'
    BY <1>2, <2>3, <2>4, <2>5, StageKeeps
  <2>7. /\ After("stage", 1, m) \in {"idle", "stage", "pair", "join"} \X Nat
        /\ 1 < m => After("stage", 1, m) = <<"stage", 2>>
        /\ 1 = m => After("stage", 1, m) = <<"pair", 1>>
        /\ 1 < m \/ 1 = m
    <3>1. 1 \in 1..m /\ 1 + 1 = 2
      BY <1>5
    <3> HIDE DEF m, n
    <3> QED BY <1>5, <3>1, AfterFacts
  <2>8. /\ pos' \in [Rank -> {"idle", "stage", "pair", "join"} \X Nat]
        /\ pos'[r] = After("stage", 1, m)
        /\ \A q \in Rank : q # r => pos'[q] = pos[q]
    <3> HIDE DEF m
    <3> QED BY <1>4, <2>1, <2>7
  <2>9. TransportTypeOK'
    <3>1. Lane' = Lane /\ Slot' = Slot
      BY <1>3, SameScenario
    <3> QED BY <1>1, <1>3, <1>6, <2>6, <2>8, <3>1 DEF TransportTypeOK
  <2>10. KernelInv(r)'
    <3>1. /\ launch'[r] = n /\ called'[r] = called[r] + m /\ staged'[r] = called[r] + 1
          /\ paired'[r] = called[r] /\ written'[r] = called[r] /\ poison'[r] = 0
          /\ NoError(r)' /\ epoch'[r] = WordOf(called[r]) /\ called'[r] - Chunks(r)' = called[r]
          /\ n <= Len(Plan)' /\ n >= 1 /\ called'[r] <= 2 * n /\ m \in 1..2 /\ called[r] \in Nat
      BY <1>3, <1>4, <1>5, <1>6, <1>7, <1>8, <1>9, <2>6 DEF op
    <3>2. CASE 1 < m
      <4>1. pos'[r] = <<"stage", 2>> /\ m = 2
        BY <1>5, <2>7, <2>8, <3>2
      <4>2. Round(r)' = "stage" /\ pos'[r][2] = 2 /\ pos'[r] # Idle
        BY <4>1 DEF Round, Idle
      <4> QED BY <1>8, <3>1, <4>1, <4>2 DEF KernelInv
    <3>3. CASE 1 = m
      <4>1. pos'[r] = <<"pair", 1>>
        BY <2>7, <2>8, <3>3
      <4>2. Round(r)' = "pair" /\ pos'[r][2] = 1 /\ pos'[r] # Idle
        BY <4>1 DEF Round, Idle
      <4> QED BY <1>8, <3>1, <3>3, <4>2 DEF KernelInv
    <3> QED BY <2>7, <3>2, <3>3
  <2>11. \A q \in Rank : KernelInv(q)'
    <3>1. \A q \in Rank : q # r =>
           /\ poison'[q] = poison[q] /\ error'[q] = error[q] /\ launch'[q] = launch[q]
           /\ pos'[q] = pos[q] /\ epoch'[q] = epoch[q] /\ called'[q] = called[q]
           /\ staged'[q] = staged[q] /\ paired'[q] = paired[q] /\ written'[q] = written[q]
      BY <1>3, <1>6, <2>6, <2>8
    <3>2. \A q \in Rank : q # r => KernelInv(q)'
      BY <1>3, <3>1, OtherKernels
    <3> QED BY <2>10, <3>2
  <2> QED BY <2>6, <2>9, <2>11 DEF LeanInv
<1>10. CASE poison[r] # 0
  <2>1. /\ pos' = pos /\ send' = send /\ bytes' = bytes /\ bell' = bell /\ staged' = staged
    BY <1>10 DEF Launch, slotVars
  <2>2. TransportTypeOK'
    <3>1. Lane' = Lane /\ Slot' = Slot
      BY <1>3, SameScenario
    <3> QED BY <1>1, <1>3, <1>6, <2>1, <3>1 DEF TransportTypeOK
  <2>3. LadderInv' /\ HealthInv' /\ OutputRight'
    <3>1. LadderInv'
      BY <1>1, <1>3, <2>1 DEF LadderInv, Ladder
    <3>2. HealthInv' /\ OutputRight'
      <4>1. UNCHANGED wordVars
        BY <1>3 DEF wordVars
      <4> QED BY <1>1, <1>3, <4>1, HealthStays, OutputStays
    <3> QED BY <3>1, <3>2
  <2>4. KernelInv(r)'
    <3>1. Round(r)' = "idle" /\ pos'[r] = Idle /\ poison'[r] # 0 /\ ~NoError(r)'
      BY <1>2, <1>3, <1>7, <1>8, <1>10, <2>1 DEF Round
    <3>2. launch'[r] <= Len(Plan)' /\ called'[r] <= 2 * launch'[r]
      BY <1>4, <1>5, <1>6, <1>7, <1>8
    <3> QED BY <3>1, <3>2 DEF KernelInv
  <2>5. \A q \in Rank : KernelInv(q)'
    <3>1. \A q \in Rank : q # r =>
           /\ poison'[q] = poison[q] /\ error'[q] = error[q] /\ launch'[q] = launch[q]
           /\ pos'[q] = pos[q] /\ epoch'[q] = epoch[q] /\ called'[q] = called[q]
           /\ staged'[q] = staged[q] /\ paired'[q] = paired[q] /\ written'[q] = written[q]
      BY <1>3, <1>6, <2>1
    <3>2. \A q \in Rank : q # r => KernelInv(q)'
      BY <1>3, <3>1, OtherKernels
    <3> QED BY <2>4, <3>2
  <2>6. \A q \in Rank, x \in Exchange : ProxyInv(q, x)' /\ SendInv(q, x)' /\ FlagInv(q, x)'
    BY <1>1, <1>3, <2>1, ExchangeStays
  <2> QED BY <2>2, <2>3, <2>5, <2>6 DEF LeanInv
<1> QED BY <1>9, <1>10

LEMMA StageStepKeeps ==
  ASSUME LeanInv, NEW r \in Rank, Stage(r)
  PROVE  LeanInv'
<1> DEFINE n == Chunks(r)
           c == pos[r][2]
           op == Op(r)
<1>1. TransportTypeOK /\ KernelInv(r)
  BY DEF LeanInv
<1>2. /\ alive[r] /\ Round(r) = "stage" /\ StageChunk(r, op, Sequence(r))
      /\ pos' = [pos EXCEPT ![r] = After("stage", c, n)]
      /\ UNCHANGED <<scenario, launch, epoch, called, paired, written, output, wordVars,
                     proxyVars, recvVars, alive>>
  BY DEF Stage
<1>3. /\ late' = late /\ poison' = poison /\ error' = error /\ last' = last /\ wire' = wire
      /\ failed' = failed /\ recv' = recv /\ flag' = flag /\ scenario' = scenario /\ epoch' = epoch
      /\ paired' = paired /\ written' = written /\ output' = output /\ alive' = alive
      /\ launch' = launch /\ called' = called
  BY <1>2 DEF wordVars, proxyVars, recvVars
<1>4. /\ n \in 1..2 /\ 2 * n <= scenario.slots /\ scenario.slots \in Nat /\ c \in 1..n
      /\ called[r] - n \in Nat /\ called[r] \in Nat
      /\ op \in Nat /\ op = called[r] - n + c /\ Sequence(r) = WordOf(op)
  BY <1>1, <1>2, CallFacts
<1>5. /\ staged[r] = called[r] - n + c - 1 /\ paired[r] = called[r] - n /\ written[r] = called[r] - n
      /\ poison[r] = 0 /\ NoError(r) /\ launch[r] <= Len(Plan) /\ called[r] <= 2 * launch[r]
      /\ launch[r] >= 1 /\ epoch[r] = WordOf(called[r] - n)
  BY <1>1, <1>2 DEF KernelInv
<1> HIDE DEF n, c, op
<1>6. op = staged[r] + 1 /\ 2 * (op - written[r]) <= scenario.slots
  <2> DEFINE b == called[r] - n
  <2>1. b \in Int /\ c \in Int /\ n \in Int /\ op = b + c /\ c <= n
    BY <1>4
  <2>2. staged[r] = b + c - 1 /\ written[r] = b
    BY <1>5
  <2>3. op - written[r] = c /\ op = staged[r] + 1
    <3> HIDE DEF b
    <3> QED BY <2>1, <2>2
  <2> QED BY <1>4, <2>1, <2>3
<1>7. /\ send' \in [Rank -> [Exchange -> [Slot -> [Lane -> Datum]]]]
      /\ bytes' \in [Rank -> [Exchange -> [Slot -> Nat]]]
      /\ bell' \in [Rank -> [Exchange -> Word]]
      /\ staged' \in [Rank -> Nat] /\ staged'[r] = op
      /\ \A q \in Rank : q # r => staged'[q] = staged[q]
      /\ LadderInv' /\ HealthInv' /\ OutputRight'
      /\ \A q \in Rank, x \in Exchange : ProxyInv(q, x)' /\ SendInv(q, x)' /\ FlagInv(q, x)'
  <2>1. StageChunk(r, op, WordOf(op))
    BY <1>2, <1>4
  <2>2. UNCHANGED <<scenario, paired, written, output, wordVars, proxyVars, recvVars, alive>>
    BY <1>2
  <2> QED BY <1>2, <1>4, <1>6, <2>1, <2>2, StageKeeps
<1>8. /\ After("stage", c, n) \in {"idle", "stage", "pair", "join"} \X Nat
      /\ c < n => After("stage", c, n) = <<"stage", c + 1>>
      /\ c = n => After("stage", c, n) = <<"pair", 1>>
      /\ c < n \/ c = n
  BY <1>4, AfterFacts
<1>9. /\ pos' \in [Rank -> {"idle", "stage", "pair", "join"} \X Nat]
      /\ pos'[r] = After("stage", c, n)
      /\ \A q \in Rank : q # r => pos'[q] = pos[q]
  BY <1>1, <1>2, <1>8 DEF TransportTypeOK
<1>10. TransportTypeOK'
  <2>1. Lane' = Lane /\ Slot' = Slot
    BY <1>3, SameScenario
  <2> QED BY <1>1, <1>3, <1>7, <1>9, <2>1 DEF TransportTypeOK
<1>11. KernelInv(r)'
  <2>1. /\ NoError(r)' /\ poison'[r] = 0 /\ Chunks(r)' = n /\ Len(Plan)' = Len(Plan)
        /\ launch'[r] = launch[r] /\ called'[r] = called[r] /\ epoch'[r] = WordOf(called[r] - n)
        /\ (\A a : WordOf(a)' = WordOf(a))
        /\ staged'[r] = called[r] - n + c /\ paired'[r] = called[r] - n /\ written'[r] = called[r] - n
    <3>1. Chunks(r)' = n /\ Len(Plan)' = Len(Plan) /\ (\A a : WordOf(a)' = WordOf(a)) /\ NoError(r)'
      BY <1>3, <1>5 DEF Chunks, Plan, WordOf, NoError, n
    <3> QED BY <1>3, <1>4, <1>5, <1>7, <3>1
  <2>2. CASE c < n
    <3>1. /\ Round(r)' = "stage" /\ pos'[r][2] = c + 1 /\ pos'[r] # Idle
      BY <1>8, <1>9, <2>2 DEF Round, Idle
    <3>2. c + 1 \in 1..n
      BY <1>4, <2>2
    <3>3. called[r] - n + c = called[r] - n + (c + 1) - 1
      BY <1>4
    <3>4. called[r] - n >= 0
      BY <1>4
    <3> QED BY <1>3, <1>5, <2>1, <3>1, <3>2, <3>3, <3>4 DEF KernelInv
  <2>3. CASE c = n
    <3>1. /\ Round(r)' = "pair" /\ pos'[r][2] = 1 /\ pos'[r] # Idle
      BY <1>8, <1>9, <2>3 DEF Round, Idle
    <3>2. 1 \in 1..n /\ called[r] - n + c = called[r] /\ called[r] - n = called[r] - n + 1 - 1
      BY <1>4, <2>3
    <3>3. called[r] - n >= 0
      BY <1>4
    <3> QED BY <1>3, <1>5, <2>1, <3>1, <3>2, <3>3 DEF KernelInv
  <2> QED BY <1>8, <2>2, <2>3
<1>12. \A q \in Rank : KernelInv(q)'
  <2>1. \A q \in Rank : q # r =>
         /\ poison'[q] = poison[q] /\ error'[q] = error[q] /\ launch'[q] = launch[q]
         /\ pos'[q] = pos[q] /\ epoch'[q] = epoch[q] /\ called'[q] = called[q]
         /\ staged'[q] = staged[q] /\ paired'[q] = paired[q] /\ written'[q] = written[q]
    BY <1>3, <1>7, <1>9
  <2>2. \A q \in Rank : q # r => KernelInv(q)'
    BY <1>3, <2>1, OtherKernels
  <2> QED BY <1>11, <2>2
<1> QED BY <1>7, <1>10, <1>12 DEF LeanInv

-----------------------------------------------------------------------------
(***************************************************************************)
(* Proxy, NIC and watchdog.                                                *)
(***************************************************************************)

\* Steps of a proxy or a NIC leave kernels, outputs and send slots alone.
LEMMA ProcessesStay ==
  ASSUME LeanInv, UNCHANGED <<scenario, kernelVars, historyVars, wordVars, slotVars, alive>>
  PROVE  /\ LadderInv' /\ OutputRight'
         /\ \A q \in Rank : KernelInv(q)'
         /\ \A q \in Rank, x \in Exchange :
              SendInv(q, x)' /\ Rung(q, x)' = Rung(q, x) /\ Taken(q, x)' = Taken(q, x)
         /\ \A q \in Rank, x \in Exchange :
              Rung(q, x) \in Int /\ Rung(q, x)' \in Int /\ scenario.slots \in Int
<1>1. /\ scenario' = scenario /\ launch' = launch /\ pos' = pos /\ epoch' = epoch
      /\ called' = called /\ staged' = staged /\ paired' = paired /\ written' = written
      /\ output' = output /\ poison' = poison /\ error' = error /\ send' = send
      /\ bytes' = bytes /\ bell' = bell /\ alive' = alive
  BY DEF kernelVars, historyVars, wordVars, slotVars
<1>2. LadderInv' /\ OutputRight'
  BY <1>1, OutputStays DEF LeanInv, LadderInv, Ladder
<1>3. \A q \in Rank, x \in Exchange : Rung(q, x)' = Rung(q, x) /\ Taken(q, x)' = Taken(q, x)
  BY <1>1 DEF Rung, Taken
<1>4. \A q \in Rank, x \in Exchange : Rung(q, x) \in Int /\ scenario.slots \in Int
  <2>1. TransportTypeOK
    BY DEF LeanInv
  <2>2. scenario.slots \in Int
    BY <2>1, ScenarioFacts DEF TransportTypeOK, Positive
  <2> QED BY <2>1, <2>2 DEF Rung, TransportTypeOK
<1>5. ASSUME NEW q \in Rank PROVE KernelInv(q)'
  <2>1. KernelInv(q)
    BY DEF LeanInv
  <2> QED BY <1>1, <2>1, KernelStays
<1>6. ASSUME NEW q \in Rank, NEW x \in Exchange PROVE SendInv(q, x)'
  <2>1. SendInv(q, x)
    BY DEF LeanInv
  <2>2. send'[q][x] = send[q][x] /\ bytes'[q][x] = bytes[q][x] /\ (alive'[q] => alive[q])
    BY <1>1
  <2> QED BY <1>1, <1>3, <2>1, <2>2, SendStays
<1> QED BY <1>2, <1>3, <1>4, <1>5, <1>6

\* The writes that a proxy posts are those of the operations it has missed.
LEMMA PostedWrites ==
  ASSUME LeanInv, NEW r \in Rank, NEW x \in Exchange, alive[r]
  PROVE  LET writes == [i \in DOMAIN Missed(r, x) |-> WriteOf(r, x, Missed(r, x)[i])]
         IN /\ ~Overrun(r, x)
            /\ writes \in Seq(Write) /\ Len(writes) = Pending(r, x)
            /\ \A i \in 1..Pending(r, x) :
                 writes[i].seq = WordOf(Posted(r, x) + i) /\ writes[i].len = Posted(r, x) + i
<1> DEFINE n == Pending(r, x)
           writes == [i \in DOMAIN Missed(r, x) |-> WriteOf(r, x, Missed(r, x)[i])]
<1>1. /\ TransportTypeOK /\ LadderInv /\ ProxyInv(r, x) /\ SendInv(r, x)
  BY DEF LeanInv
<1>2. scenario \in Scenarios /\ scenario.slots \in Nat
  BY <1>1, ScenarioFacts DEF TransportTypeOK, Positive
<1>3. PICK l \in Lane : TRUE
  BY <1>1, FirstLane
<1>4. /\ n \in Nat /\ Posted(r, x) \in Int /\ Done(r, x, l) \in Int
      /\ Taken(Peer(r, x), x) <= Done(r, x, l)
      /\ Done(r, x, l) <= Posted(r, x)
      /\ Rung(r, x) <= Done(r, x, l) + scenario.slots
  BY <1>1, ProxyRanges
<1>5. /\ Rung(r, x) \in Nat /\ Taken(Peer(r, x), x) \in Nat
      /\ Posted(r, x) = Rung(r, x) - n
  BY <1>1, RungsFit DEF Posted
<1> HIDE DEF n
<1>6. n <= scenario.slots /\ 0 <= Posted(r, x) /\ Posted(r, x) + n = Rung(r, x)
  BY <1>2, <1>4, <1>5
<1>7. ~Overrun(r, x)
  <2>1. ~(n > scenario.slots)
    BY <1>2, <1>4, <1>6
  <2> QED BY <2>1 DEF Overrun, n
<1>8. DOMAIN writes = 1..n
  BY DEF Missed, n
<1>9. ASSUME NEW i \in 1..n
      PROVE  /\ writes[i].seq = WordOf(Posted(r, x) + i) /\ writes[i].len = Posted(r, x) + i
             /\ writes[i] \in Write
  <2> DEFINE s == Posted(r, x) + i
  <2>1. last[r][x] = WordOf(Posted(r, x))
    BY <1>1 DEF ProxyInv
  <2>2. Missed(r, x)[i] = WordOf(s)
    <3>1. Missed(r, x)[i] = (last[r][x] + i) % SeqMod
      BY DEF Missed, n
    <3>2. i \in Int
      BY <1>4
    <3> QED BY <1>2, <1>4, <2>1, <3>1, <3>2, WordFacts
  <2>3. s \in 1..Rung(r, x) /\ Rung(r, x) < s + scenario.slots
    BY <1>2, <1>4, <1>5, <1>6
  <2>4. bytes[r][x][SlotOf(WordOf(s))] = s
    <3> HIDE DEF s
    <3> QED BY <1>1, <2>3 DEF SendInv
  <2>5. writes[i] = [seq |-> WordOf(s), len |-> s]
    <3> HIDE DEF s
    <3>1. writes[i] = WriteOf(r, x, Missed(r, x)[i])
      BY <1>8
    <3> HIDE DEF writes
    <3> QED BY <2>2, <2>4, <3>1 DEF WriteOf
  <2>6. WordOf(s) \in Word /\ s \in Nat
    <3>1. s \in Nat
      BY <2>3, <1>5
    <3> HIDE DEF s
    <3>2. s \in Int
      BY <3>1
    <3> QED BY <1>2, <3>1, <3>2, WordFacts
  <2> HIDE DEF s, writes
  <2>7. writes[i].seq = WordOf(s) /\ writes[i].len = s /\ writes[i] \in Write
    BY <2>5, <2>6 DEF Write
  <2> QED BY <2>7 DEF s
<1>10. writes \in Seq(Write) /\ Len(writes) = n
  <2>1. writes \in [1..n -> Write]
    BY <1>8, <1>9
  <2> HIDE DEF writes
  <2> QED BY <1>4, <2>1
<1> QED BY <1>7, <1>9, <1>10 DEF n

\* Writes behind other writes.
LEMMA Appended ==
  ASSUME NEW S, NEW a \in Seq(S), NEW b \in Seq(S)
  PROVE  /\ Len(a \o b) = Len(a) + Len(b) /\ Len(a) \in Nat /\ Len(b) \in Nat
         /\ \A i \in 1..Len(a) : (a \o b)[i] = a[i]
         /\ \A i \in (Len(a) + 1)..(Len(a) + Len(b)) : (a \o b)[i] = b[i - Len(a)]
  OBVIOUS

LEMMA PostKeeps ==
  ASSUME LeanInv, NEW r \in Rank, NEW x \in Exchange, Post(r, x)
  PROVE  LeanInv'
<1> DEFINE writes == [i \in DOMAIN Missed(r, x) |-> WriteOf(r, x, Missed(r, x)[i])]
           n == Pending(r, x)
<1>1. /\ TransportTypeOK /\ LadderInv /\ HealthInv /\ ProxyInv(r, x)
      /\ \A q \in Rank, y \in Exchange : ProxyInv(q, y) /\ FlagInv(q, y)
  BY DEF LeanInv
<1>2. alive[r] /\ UNCHANGED <<scenario, kernelVars, historyVars, wordVars, slotVars, recvVars, alive>>
  BY DEF Post
<1>3. /\ ~Overrun(r, x) /\ writes \in Seq(Write) /\ Len(writes) = n
      /\ \A i \in 1..n :
           writes[i].seq = WordOf(Posted(r, x) + i) /\ writes[i].len = Posted(r, x) + i
  BY <1>2, PostedWrites
<1>4. /\ last' = [last EXCEPT ![r][x] = bell[r][x]]
      /\ wire' = [wire EXCEPT ![r][x] = [l \in Lane |-> @[l] \o writes]]
      /\ failed' = failed
  BY <1>3 DEF Post
<1> HIDE DEF writes
<1>5. /\ scenario' = scenario /\ launch' = launch /\ pos' = pos /\ epoch' = epoch
      /\ called' = called /\ staged' = staged /\ paired' = paired /\ written' = written
      /\ output' = output /\ late' = late /\ poison' = poison /\ error' = error /\ send' = send
      /\ bytes' = bytes /\ bell' = bell /\ alive' = alive /\ recv' = recv /\ flag' = flag
  BY <1>2 DEF kernelVars, historyVars, wordVars, slotVars, recvVars
<1>6. /\ LadderInv' /\ OutputRight'
      /\ \A q \in Rank : KernelInv(q)'
      /\ \A q \in Rank, y \in Exchange :
           SendInv(q, y)' /\ Rung(q, y)' = Rung(q, y) /\ Taken(q, y)' = Taken(q, y)
      /\ \A q \in Rank, y \in Exchange :
           Rung(q, y) \in Int /\ Rung(q, y)' \in Int /\ scenario.slots \in Int
  <2>1. UNCHANGED <<scenario, kernelVars, historyVars, wordVars, slotVars, alive>>
    BY <1>2
  <2> QED BY <2>1, ProcessesStay
<1>7. /\ last' \in [Rank -> [Exchange -> Word]] /\ last'[r][x] = bell[r][x]
      /\ \A q \in Rank, y \in Exchange : q # r \/ y # x => last'[q][y] = last[q][y]
  <2>1. last \in [Rank -> [Exchange -> Word]] /\ bell[r][x] \in Word
    BY <1>1 DEF TransportTypeOK
  <2> QED BY <1>4, <2>1, Update2
<1>8. /\ wire' \in [Rank -> [Exchange -> [Lane -> Seq(Write)]]]
      /\ \A l \in Lane : wire'[r][x][l] = wire[r][x][l] \o writes
      /\ \A q \in Rank, y \in Exchange : q # r \/ y # x => wire'[q][y] = wire[q][y]
  <2> DEFINE C == [Lane -> Seq(Write)]
             v == [l \in Lane |-> wire[r][x][l] \o writes]
  <2>1. wire \in [Rank -> [Exchange -> C]]
    BY <1>1 DEF TransportTypeOK
  <2>2. v \in C
    <3>1. \A l \in Lane : wire[r][x][l] \in Seq(Write)
      BY <2>1
    <3> QED BY <1>3, <3>1
  <2>3. wire' = [wire EXCEPT ![r][x] = v]
    BY <1>4, <2>1
  <2>4. \A l \in Lane : v[l] = wire[r][x][l] \o writes
    OBVIOUS
  <2> HIDE DEF C, v
  <2>5. /\ wire' \in [Rank -> [Exchange -> C]] /\ wire'[r][x] = v
        /\ \A q \in Rank, y \in Exchange : q # r \/ y # x => wire'[q][y] = wire[q][y]
    BY <2>1, <2>2, <2>3, Update2
  <2> QED BY <2>4, <2>5 DEF C
<1>9. TransportTypeOK'
  <2>1. Lane' = Lane /\ Slot' = Slot
    BY <1>5, SameScenario
  <2> QED BY <1>1, <1>4, <1>5, <1>7, <1>8, <2>1 DEF TransportTypeOK
<1>10. /\ Pending(r, x)' = 0 /\ Posted(r, x)' = Rung(r, x)
  <2>1. scenario \in Scenarios /\ SeqMod \in Positive /\ Rung(r, x) \in Int
        /\ bell[r][x] = WordOf(Rung(r, x))
    BY <1>1, <1>2, <1>6, ScenarioFacts DEF TransportTypeOK, ProxyInv
  <2>2. (WordOf(Rung(r, x)) + SeqMod - WordOf(Rung(r, x))) % SeqMod = Rung(r, x) - Rung(r, x)
    BY <2>1, WordDistance DEF Positive
  <2>3. Pending(r, x)' = (bell[r][x] + SeqMod - bell[r][x]) % SeqMod
    BY <1>5, <1>7 DEF Pending
  <2>4. Pending(r, x)' = 0
    BY <2>1, <2>2, <2>3
  <2>5. Posted(r, x)' = Rung(r, x) - Pending(r, x)'
    BY <1>6 DEF Posted
  <2> QED BY <2>1, <2>4, <2>5
<1>11. ASSUME NEW l \in Lane
       PROVE  /\ Done(r, x, l)' = Done(r, x, l)
              /\ Len(wire'[r][x][l]) = Len(wire[r][x][l]) + n
              /\ wire[r][x][l] \in Seq(Write) /\ n \in Nat
              /\ Posted(r, x) \in Int
              /\ Done(r, x, l) + Len(wire[r][x][l]) = Posted(r, x)
  <2>1. /\ n \in Nat /\ wire[r][x][l] \in Seq(Write) /\ Posted(r, x) \in Int
        /\ Posted(r, x) = Rung(r, x) - n /\ Rung(r, x) \in Int
        /\ Done(r, x, l) = Posted(r, x) - Len(wire[r][x][l])
    <3>1. wire[r][x][l] \in Seq(Write)
      BY <1>1 DEF TransportTypeOK
    <3>2. n \in Nat /\ Posted(r, x) \in Int
      BY <1>1, <1>2, ProxyRanges
    <3> QED BY <1>6, <3>1, <3>2 DEF Posted, Done
  <2>2. Len(wire'[r][x][l]) = Len(wire[r][x][l]) + n
    <3>1. wire'[r][x][l] = wire[r][x][l] \o writes
      BY <1>8
    <3>2. Len(wire[r][x][l] \o writes) = Len(wire[r][x][l]) + Len(writes)
      BY <1>3, <2>1, Appended
    <3> QED BY <1>3, <3>1, <3>2
  <2>3. Done(r, x, l)' = Rung(r, x) - Len(wire'[r][x][l])
    BY <1>10 DEF Done
  <2> HIDE DEF n
  <2>4. Len(wire[r][x][l]) \in Nat
    BY <2>1
  <2> QED BY <2>1, <2>2, <2>3, <2>4
<1>12. ProxyInv(r, x)'
  <2>1. /\ bell'[r][x] = WordOf(Rung(r, x)) /\ last'[r][x] = bell'[r][x]
        /\ \A l \in Lane : Taken(Peer(r, x), x) <= Done(r, x, l)
        /\ \A l \in Lane : \A i \in 1..Len(wire[r][x][l]) :
             /\ wire[r][x][l][i].seq = WordOf(Done(r, x, l) + i)
             /\ wire[r][x][l][i].len = Done(r, x, l) + i
    BY <1>1, <1>2, <1>5, <1>7 DEF ProxyInv
  <2>2. /\ Lane' = Lane /\ \A s : WordOf(s)' = WordOf(s)
    BY <1>5, SameScenario
  <2>3. Taken(Peer(r, x), x)' = Taken(Peer(r, x), x)
    BY <1>6, Pairs
  <2>4. ASSUME NEW l \in Lane, NEW i \in 1..Len(wire'[r][x][l])
        PROVE  /\ wire'[r][x][l][i].seq = WordOf(Done(r, x, l) + i)
               /\ wire'[r][x][l][i].len = Done(r, x, l) + i
    <3> DEFINE m == Len(wire[r][x][l])
    <3>1. /\ wire[r][x][l] \in Seq(Write) /\ m \in Nat /\ n \in Nat /\ i \in 1..(m + n)
          /\ Done(r, x, l) + m = Posted(r, x) /\ wire'[r][x][l] = wire[r][x][l] \o writes
          /\ Done(r, x, l) \in Int
      BY <1>1, <1>2, <1>8, <1>11, ProxyRanges
    <3>2. CASE i <= m
      <4>1. i \in 1..m /\ wire'[r][x][l][i] = wire[r][x][l][i]
        BY <1>3, <3>1, <3>2
      <4> QED BY <2>1, <4>1
    <3>3. CASE i > m
      <4> DEFINE j == i - m
      <4>1. j \in 1..n
        <5> HIDE DEF m, n
        <5> QED BY <3>1, <3>3
      <4>2. wire'[r][x][l][i] = writes[j]
        <5>1. i \in (m + 1)..(m + Len(writes))
          BY <1>3, <3>1, <3>3
        <5>2. (wire[r][x][l] \o writes)[i] = writes[i - m]
          BY <1>3, <3>1, <5>1, Appended
        <5> QED BY <3>1, <5>2
      <4>3. Posted(r, x) + j = Done(r, x, l) + i
        <5> HIDE DEF n
        <5>1. i \in Int
          BY <3>1
        <5> HIDE DEF m
        <5> QED BY <3>1, <5>1 DEF j
      <4> HIDE DEF j, n, m
      <4> QED BY <1>3, <4>1, <4>2, <4>3
    <3> QED BY <3>1, <3>2, <3>3
  <2> QED BY <1>6, <1>10, <1>11, <2>1, <2>2, <2>3, <2>4 DEF ProxyInv
<1>13. ASSUME NEW q \in Rank, NEW y \in Exchange, q # r \/ y # x
       PROVE  ProxyInv(q, y)' /\ \A l \in Lane : Done(q, y, l)' = Done(q, y, l)
  <2>1. /\ last'[q][y] = last[q][y] /\ wire'[q][y] = wire[q][y] /\ bell'[q][y] = bell[q][y]
        /\ Rung(q, y)' = Rung(q, y) /\ Taken(Peer(q, y), y)' = Taken(Peer(q, y), y)
        /\ ProxyInv(q, y) /\ (alive'[q] => alive[q])
    <3>1. last'[q][y] = last[q][y] /\ wire'[q][y] = wire[q][y]
      BY <1>7, <1>8, <1>13
    <3>2. Taken(Peer(q, y), y)' = Taken(Peer(q, y), y)
      BY <1>6, Pairs
    <3> QED BY <1>1, <1>5, <1>6, <3>1, <3>2
  <2>2. ProxyInv(q, y)'
    BY <1>5, <2>1, ProxyStays
  <2> QED BY <2>1, <2>2 DEF Done, Posted, Pending
<1>14. ASSUME NEW q \in Rank, NEW y \in Exchange PROVE FlagInv(q, y)'
  <2>1. Peer(q, y) \in Rank
    BY Pairs
  <2>2. \A l \in Lane : Done(Peer(q, y), y, l)' = Done(Peer(q, y), y, l)
    BY <1>11, <1>13, <2>1
  <2>3. Rung(Peer(q, y), y) <= Rung(Peer(q, y), y)'
    BY <1>6, <2>1
  <2>4. FlagInv(q, y) /\ (alive'[q] => alive[q]) /\ (alive'[Peer(q, y)] => alive[Peer(q, y)])
        /\ flag'[q][y] = flag[q][y] /\ recv'[q][y] = recv[q][y]
    BY <1>1, <1>5
  <2> QED BY <1>5, <1>6, <2>1, <2>2, <2>3, <2>4, FlagStays
<1>15. HealthInv'
  <2>1. UNCHANGED wordVars
    BY <1>2
  <2> QED BY <1>1, <1>4, <1>5, <2>1, HealthStays
<1> QED BY <1>6, <1>9, <1>12, <1>13, <1>14, <1>15 DEF LeanInv

\* The rest of a queue.
LEMMA Dequeued ==
  ASSUME NEW S, NEW a \in Seq(S), a # <<>>
  PROVE  /\ Len(a) \in Nat /\ 1 \in 1..Len(a) /\ Head(a) = a[1] /\ Head(a) \in S
         /\ Tail(a) \in Seq(S) /\ Len(Tail(a)) = Len(a) - 1
         /\ \A i \in 1..(Len(a) - 1) : Tail(a)[i] = a[i + 1]
  OBVIOUS

\* The oldest write of a lane finds its data and its slot's turn.
LEMMA WriteReady ==
  ASSUME LeanInv, NEW r \in Rank, NEW x \in Exchange, NEW l \in Lane, alive[r],
         wire[r][x][l] # <<>>
  PROVE  LET s == Done(r, x, l) + 1
             w == Head(wire[r][x][l])
         IN /\ s \in Nat /\ 1 <= s /\ s <= Rung(r, x)
            /\ Taken(Peer(r, x), x) < s /\ w.seq = WordOf(s)
            /\ SlotOf(w.seq) \in Slot /\ SlotOf(w.seq) = (scenario.completed + s) % scenario.slots
            /\ send[r][x][SlotOf(w.seq)] = Payload(r, x, s)
<1> DEFINE s == Done(r, x, l) + 1
           w == Head(wire[r][x][l])
<1>1. TransportTypeOK /\ LadderInv /\ ProxyInv(r, x) /\ SendInv(r, x)
  BY DEF LeanInv
<1>2. scenario \in Scenarios /\ scenario.slots \in Nat
  BY <1>1, ScenarioFacts DEF TransportTypeOK, Positive
<1>3. wire[r][x][l] \in Seq(Write)
  BY <1>1 DEF TransportTypeOK
<1>4. /\ Len(wire[r][x][l]) \in Nat /\ 1 \in 1..Len(wire[r][x][l]) /\ w = wire[r][x][l][1]
  BY <1>3, Dequeued
<1>5. w.seq = WordOf(s)
  BY <1>1, <1>4 DEF ProxyInv
<1>6. /\ Posted(r, x) \in Int /\ Done(r, x, l) \in Int
      /\ Taken(Peer(r, x), x) <= Done(r, x, l)
      /\ Done(r, x, l) = Posted(r, x) - Len(wire[r][x][l])
      /\ Posted(r, x) <= Rung(r, x)
      /\ Rung(r, x) <= Done(r, x, l) + scenario.slots
  BY <1>1, ProxyRanges DEF Done
<1>7. Rung(r, x) \in Nat /\ Taken(Peer(r, x), x) \in Nat
  BY <1>1, RungsFit
<1>8. /\ s \in Nat /\ 1 <= s /\ s <= Rung(r, x) /\ Taken(Peer(r, x), x) < s
      /\ Rung(r, x) < s + scenario.slots
  <2> DEFINE d == Done(r, x, l)
             g == Rung(r, x)
             t == Taken(Peer(r, x), x)
             z == scenario.slots
             n == Len(wire[r][x][l])
  <2>1. n >= 1 /\ n \in Nat
    BY <1>4
  <2>2. /\ Posted(r, x) \in Int /\ d \in Int /\ t <= d /\ d = Posted(r, x) - n
        /\ Posted(r, x) <= g /\ g <= d + z /\ g \in Nat /\ t \in Nat /\ z \in Nat
    BY <1>2, <1>6, <1>7
  <2> HIDE DEF d, g, t, z, n
  <2>3. d + 1 \in Nat /\ 1 <= d + 1 /\ d + 1 <= g /\ t < d + 1 /\ g < (d + 1) + z
    BY <2>1, <2>2
  <2> QED BY <2>3 DEF d, g, t, z
<1> HIDE DEF s
<1>9. SlotOf(WordOf(s)) \in Slot /\ SlotOf(WordOf(s)) = (scenario.completed + s) % scenario.slots
  <2>1. s \in Int
    BY <1>8
  <2> QED BY <1>2, <2>1, SlotOfOperation
<1>10. send[r][x][SlotOf(WordOf(s))] = Payload(r, x, s)
  <2>1. s \in 1..Rung(r, x)
    BY <1>7, <1>8
  <2> QED BY <1>1, <1>8, <2>1 DEF SendInv
<1> QED BY <1>5, <1>8, <1>9, <1>10 DEF s

LEMMA TransferKeeps ==
  ASSUME LeanInv, NEW r \in Rank, NEW x \in Exchange, NEW l \in Lane, Transfer(r, x, l)
  PROVE  LeanInv'
<1> DEFINE w == Head(wire[r][x][l])
           k == SlotOf(w.seq)
           p == Peer(r, x)
           s == Done(r, x, l) + 1
<1>1. /\ TransportTypeOK /\ LadderInv /\ HealthInv /\ ProxyInv(r, x) /\ SendInv(r, x)
      /\ \A q \in Rank, y \in Exchange : ProxyInv(q, y) /\ FlagInv(q, y)
  BY DEF LeanInv
<1>2. /\ alive[r] /\ alive[p] /\ wire[r][x][l] # <<>>
      /\ wire' = [wire EXCEPT ![r][x][l] = Tail(wire[r][x][l])]
      /\ recv' = [recv EXCEPT ![p][x][k][l] = send[r][x][k][l]]
      /\ flag' = [flag EXCEPT ![p][x][k][l] = w.seq]
      /\ UNCHANGED <<scenario, kernelVars, historyVars, wordVars, slotVars, last, failed, alive>>
  BY DEF Transfer
<1>3. /\ scenario' = scenario /\ launch' = launch /\ pos' = pos /\ epoch' = epoch
      /\ called' = called /\ staged' = staged /\ paired' = paired /\ written' = written
      /\ output' = output /\ late' = late /\ poison' = poison /\ error' = error /\ send' = send
      /\ bytes' = bytes /\ bell' = bell /\ alive' = alive /\ last' = last /\ failed' = failed
  BY <1>2 DEF kernelVars, historyVars, wordVars, slotVars
<1>4. /\ LadderInv' /\ OutputRight'
      /\ \A q \in Rank : KernelInv(q)'
      /\ \A q \in Rank, y \in Exchange :
           SendInv(q, y)' /\ Rung(q, y)' = Rung(q, y) /\ Taken(q, y)' = Taken(q, y)
      /\ \A q \in Rank, y \in Exchange :
           Rung(q, y) \in Int /\ Rung(q, y)' \in Int /\ scenario.slots \in Int
  <2>1. UNCHANGED <<scenario, kernelVars, historyVars, wordVars, slotVars, alive>>
    BY <1>2
  <2> QED BY <2>1, ProcessesStay
<1>5. /\ p \in Rank /\ Peer(p, x) = r /\ \A q \in Rank : Peer(q, x) = r => q = p
  BY Pairs
<1>6. /\ s \in Nat /\ 1 <= s /\ s <= Rung(r, x) /\ Taken(p, x) < s /\ w.seq = WordOf(s)
      /\ k \in Slot /\ k = (scenario.completed + s) % scenario.slots
      /\ send[r][x][k] = Payload(r, x, s)
  BY <1>2, WriteReady
<1>7. /\ scenario \in Scenarios /\ scenario.slots \in Nat /\ 0 < scenario.slots
      /\ scenario.completed \in Nat
      /\ wire[r][x][l] \in Seq(Write) /\ send[r][x][k][l] \in Datum /\ w.seq \in Word
  <2>1. /\ scenario \in Scenarios /\ scenario.slots \in Nat /\ 0 < scenario.slots
        /\ scenario.completed \in Nat
    BY <1>1, ScenarioFacts DEF TransportTypeOK, Positive
  <2>2. wire[r][x][l] \in Seq(Write) /\ send[r][x][k][l] \in Datum
    BY <1>1, <1>6 DEF TransportTypeOK
  <2>3. w \in Write
    BY <1>2, <2>2, Dequeued
  <2>4. w.seq \in Word
    BY <2>3 DEF Write
  <2> QED BY <2>1, <2>2, <2>4
<1>8. /\ Len(wire[r][x][l]) \in Nat /\ Tail(wire[r][x][l]) \in Seq(Write)
      /\ Len(Tail(wire[r][x][l])) = Len(wire[r][x][l]) - 1
      /\ \A i \in 1..(Len(wire[r][x][l]) - 1) : Tail(wire[r][x][l])[i] = wire[r][x][l][i + 1]
  BY <1>2, <1>7, Dequeued
<1>19. p = Peer(r, x) /\ s = Done(r, x, l) + 1
  OBVIOUS
<1> HIDE DEF w, k, p, s
<1>9. /\ wire' \in [Rank -> [Exchange -> [Lane -> Seq(Write)]]]
      /\ wire'[r][x][l] = Tail(wire[r][x][l])
      /\ \A m \in Lane : m # l => wire'[r][x][m] = wire[r][x][m]
      /\ \A q \in Rank, y \in Exchange : q # r \/ y # x => wire'[q][y] = wire[q][y]
  <2>1. wire \in [Rank -> [Exchange -> [Lane -> Seq(Write)]]]
    BY <1>1 DEF TransportTypeOK
  <2> DEFINE S == Seq(Write)
  <2>2. wire \in [Rank -> [Exchange -> [Lane -> S]]] /\ Tail(wire[r][x][l]) \in S
    BY <1>8, <2>1
  <2> HIDE DEF S
  <2>3. /\ wire' \in [Rank -> [Exchange -> [Lane -> S]]]
        /\ wire'[r][x][l] = Tail(wire[r][x][l])
        /\ \A m \in Lane : m # l => wire'[r][x][m] = wire[r][x][m]
        /\ \A q \in Rank, y \in Exchange : q # r \/ y # x => wire'[q][y] = wire[q][y]
    BY <1>2, <2>2, Update3
  <2> QED BY <2>3 DEF S
<1>10. /\ recv' \in [Rank -> [Exchange -> [Slot -> [Lane -> Datum]]]]
       /\ recv'[p][x][k][l] = send[r][x][k][l]
       /\ \A j \in Slot, m \in Lane : j # k \/ m # l => recv'[p][x][j][m] = recv[p][x][j][m]
       /\ \A q \in Rank, y \in Exchange : q # p \/ y # x => recv'[q][y] = recv[q][y]
  <2>1. recv \in [Rank -> [Exchange -> [Slot -> [Lane -> Datum]]]]
    BY <1>1 DEF TransportTypeOK
  <2> QED BY <1>2, <1>5, <1>6, <1>7, <2>1, Update4
<1>11. /\ flag' \in [Rank -> [Exchange -> [Slot -> [Lane -> Word]]]]
       /\ flag'[p][x][k][l] = WordOf(s)
       /\ \A j \in Slot, m \in Lane : j # k \/ m # l => flag'[p][x][j][m] = flag[p][x][j][m]
       /\ \A q \in Rank, y \in Exchange : q # p \/ y # x => flag'[q][y] = flag[q][y]
  <2>1. flag \in [Rank -> [Exchange -> [Slot -> [Lane -> Word]]]]
    BY <1>1 DEF TransportTypeOK
  <2> QED BY <1>2, <1>5, <1>6, <1>7, <2>1, Update4, SMTT(40)
<1>12. TransportTypeOK'
  <2>1. Lane' = Lane /\ Slot' = Slot
    BY <1>3, SameScenario
  <2> QED BY <1>1, <1>3, <1>9, <1>10, <1>11, <2>1 DEF TransportTypeOK
<1>13. /\ \A q \in Rank, y \in Exchange : Posted(q, y)' = Posted(q, y)
       /\ \A q \in Rank, y \in Exchange, m \in Lane :
            (q # r \/ y # x \/ m # l) => Done(q, y, m)' = Done(q, y, m)
       /\ Done(r, x, l)' = s /\ Done(r, x, l) \in Int
  <2>1. \A q \in Rank, y \in Exchange : Posted(q, y)' = Posted(q, y)
    BY <1>3, <1>4 DEF Posted, Pending
  <2>2. \A q \in Rank, y \in Exchange, m \in Lane :
          (q # r \/ y # x \/ m # l) => Done(q, y, m)' = Done(q, y, m)
    <3>1. \A q \in Rank, y \in Exchange, m \in Lane :
            (q # r \/ y # x \/ m # l) => wire'[q][y][m] = wire[q][y][m]
      BY <1>9
    <3> QED BY <2>1, <3>1 DEF Done
  <2>3. Posted(r, x) \in Int /\ Done(r, x, l) \in Int /\ Done(r, x, l) = Posted(r, x) - Len(wire[r][x][l])
    <3>1. Posted(r, x) \in Int /\ Done(r, x, l) \in Int
      BY <1>1, <1>2, ProxyRanges
    <3> QED BY <3>1 DEF Done
  <2>4. Done(r, x, l)' = Posted(r, x) - (Len(wire[r][x][l]) - 1)
    BY <1>8, <1>9, <2>1 DEF Done
  <2>5. Done(r, x, l)' = s
    <3> DEFINE g == Posted(r, x)
               n == Len(wire[r][x][l])
    <3>1. g \in Int /\ n \in Int /\ s = (g - n) + 1 /\ Done(r, x, l)' = g - (n - 1)
      BY <1>8, <1>19, <2>3, <2>4
    <3>2. (g - n) + 1 = g - (n - 1)
      <4> HIDE DEF g, n
      <4> QED BY <3>1
    <3> QED BY <3>1, <3>2
  <2> QED BY <2>1, <2>2, <2>3, <2>5
<1>14. ProxyInv(r, x)'
  <2>1. /\ bell'[r][x] = WordOf(Rung(r, x)) /\ last'[r][x] = WordOf(Posted(r, x))
        /\ \A m \in Lane : Taken(p, x) <= Done(r, x, m)
        /\ \A m \in Lane : \A i \in 1..Len(wire[r][x][m]) :
             /\ wire[r][x][m][i].seq = WordOf(Done(r, x, m) + i)
             /\ wire[r][x][m][i].len = Done(r, x, m) + i
    BY <1>1, <1>2, <1>3, <1>19 DEF ProxyInv
  <2>2. /\ Lane' = Lane /\ \A a : WordOf(a)' = WordOf(a)
    BY <1>3, SameScenario
  <2>3. Taken(p, x)' = Taken(p, x) /\ Rung(r, x)' = Rung(r, x) /\ Posted(r, x)' = Posted(r, x)
    BY <1>4, <1>5, <1>13
  <2>4. ASSUME NEW m \in Lane
        PROVE  /\ Taken(p, x) <= Done(r, x, m)'
               /\ \A i \in 1..Len(wire'[r][x][m]) :
                    /\ wire'[r][x][m][i].seq = WordOf(Done(r, x, m)' + i)
                    /\ wire'[r][x][m][i].len = Done(r, x, m)' + i
    <3>1. CASE m # l
      <4>1. wire'[r][x][m] = wire[r][x][m] /\ Done(r, x, m)' = Done(r, x, m)
        BY <1>9, <1>13, <3>1
      <4> QED BY <2>1, <4>1
    <3>2. CASE m = l
      <4>1. ASSUME NEW i \in 1..Len(wire'[r][x][l])
            PROVE  /\ wire'[r][x][l][i].seq = WordOf(s + i)
                   /\ wire'[r][x][l][i].len = s + i
        <5>1. i \in 1..(Len(wire[r][x][l]) - 1) /\ i + 1 \in 1..Len(wire[r][x][l])
          BY <1>8, <1>9
        <5>2. wire'[r][x][l][i] = wire[r][x][l][i + 1]
          BY <1>8, <1>9, <5>1
        <5>3. Done(r, x, l) + (i + 1) = s + i
          BY <1>13, <1>19
        <5>4. /\ wire[r][x][l][i + 1].seq = WordOf(Done(r, x, l) + (i + 1))
              /\ wire[r][x][l][i + 1].len = Done(r, x, l) + (i + 1)
          BY <2>1, <5>1
        <5> QED BY <5>2, <5>3, <5>4
      <4>2. Taken(p, x) <= s
        <5>1. Taken(p, x) \in Int
          BY <1>1, <1>5, RungsFit
        <5> QED BY <1>6, <5>1
      <4> QED BY <1>13, <3>2, <4>1, <4>2
    <3> QED BY <3>1, <3>2
  <2> QED BY <1>19, <2>1, <2>2, <2>3, <2>4 DEF ProxyInv
<1>15. ASSUME NEW q \in Rank, NEW y \in Exchange, q # r \/ y # x PROVE ProxyInv(q, y)'
  <2>1. /\ last'[q][y] = last[q][y] /\ bell'[q][y] = bell[q][y]
        /\ Rung(q, y)' = Rung(q, y) /\ ProxyInv(q, y) /\ (alive'[q] => alive[q])
    BY <1>1, <1>3, <1>4
  <2>2. wire'[q][y] = wire[q][y]
    BY <1>9, <1>15
  <2>3. Taken(Peer(q, y), y)' = Taken(Peer(q, y), y)
    BY <1>4, Pairs
  <2> QED BY <1>3, <2>1, <2>2, <2>3, ProxyStays
<1>16. FlagInv(p, x)'
  <2>1. Lane' = Lane /\ Slot' = Slot /\ (\A a : WordOf(a)' = WordOf(a))
        /\ \A a : Payload(r, x, a)' = Payload(r, x, a)
    BY <1>3 DEF Lane, Slot, WordOf, Payload, Plus, Term
  <2>2. /\ Taken(p, x)' = Taken(p, x) /\ Rung(r, x)' = Rung(r, x) /\ alive'[r] = alive[r]
    BY <1>3, <1>4, <1>5
  <2>3. SUFFICES ASSUME NEW j \in Slot, NEW m \in Lane
                 PROVE  \E a \in (-scenario.slots)..Rung(r, x) : Holding(p, x, j, m, a)'
    BY <1>3, <1>5, <2>1, <2>2 DEF FlagInv
  <2>4. CASE j = k /\ m = l
    <3>1. PICK a \in Nat : a = s
      BY <1>6
    <3>2. a \in (-scenario.slots)..Rung(r, x)
      <4>1. Rung(r, x) \in Int /\ -scenario.slots \in Int /\ -scenario.slots <= a
        BY <1>4, <1>7
      <4> QED BY <1>6, <3>1, <4>1
    <3>3. Taken(p, x)' < a + scenario.slots
      <4>1. Taken(p, x) \in Int
        BY <1>1, <1>5, RungsFit
      <4> QED BY <1>6, <1>7, <2>2, <3>1, <4>1
    <3>4. ~(scenario.completed + a < 1) /\ a <= Rung(r, x)'
      BY <1>6, <1>7, <2>2, <3>1
    <3>5. a <= Done(r, x, l)'
      BY <1>13, <3>1
    <3>6. recv'[p][x][j][m] = Payload(r, x, a)[l] /\ flag'[p][x][j][m] = WordOf(a)
      BY <1>6, <1>10, <1>11, <2>4, <3>1
    <3>7. (scenario.completed + a) % scenario.slots = j
      BY <1>6, <2>4, <3>1
    <3>8. Holding(p, x, j, m, a)'
      BY <1>3, <1>5, <2>1, <2>4, <3>3, <3>4, <3>5, <3>6, <3>7 DEF Holding
    <3> QED BY <3>2, <3>8
  <2>5. CASE j # k \/ m # l
    <3>1. PICK a \in (-scenario.slots)..Rung(r, x) : Holding(p, x, j, m, a)
      BY <1>1, <1>2, <1>5 DEF FlagInv
    <3>2. flag'[p][x][j][m] = flag[p][x][j][m] /\ recv'[p][x][j][m] = recv[p][x][j][m]
      BY <1>10, <1>11, <2>5
    <3>3. a <= Done(r, x, m)'
      <4>1. a <= Done(r, x, m) /\ a \in Int
        BY <1>2, <1>5, <3>1 DEF Holding
      <4>2. CASE m # l
        BY <1>13, <4>1, <4>2
      <4>3. CASE m = l
        BY <1>13, <1>19, <4>1, <4>3
      <4> QED BY <4>2, <4>3
    <3>4. Holding(p, x, j, m, a)'
      BY <1>3, <1>5, <2>1, <2>2, <3>1, <3>2, <3>3 DEF Holding
    <3> QED BY <3>1, <3>4
  <2> QED BY <2>4, <2>5
<1>17. ASSUME NEW q \in Rank, NEW y \in Exchange PROVE FlagInv(q, y)'
  <2>1. CASE q = p /\ y = x
    BY <1>16, <2>1
  <2>2. CASE q # p \/ y # x
    <3>1. Peer(q, y) \in Rank /\ (Peer(q, y) # r \/ y # x)
      BY <1>5, <2>2, Pairs
    <3>2. \A m \in Lane : Done(Peer(q, y), y, m)' = Done(Peer(q, y), y, m)
      BY <1>13, <3>1
    <3>3. Rung(Peer(q, y), y) <= Rung(Peer(q, y), y)'
      BY <1>4, <3>1
    <3>4. FlagInv(q, y) /\ (alive'[q] => alive[q]) /\ (alive'[Peer(q, y)] => alive[Peer(q, y)])
          /\ flag'[q][y] = flag[q][y] /\ recv'[q][y] = recv[q][y]
      BY <1>1, <1>3, <1>10, <1>11, <2>2
    <3> QED BY <1>3, <1>4, <3>1, <3>2, <3>3, <3>4, FlagStays
  <2> QED BY <2>1, <2>2
<1>18. HealthInv'
  <2>1. UNCHANGED wordVars
    BY <1>2
  <2> QED BY <1>1, <1>3, <2>1, HealthStays
<1> QED BY <1>4, <1>12, <1>14, <1>15, <1>17, <1>18 DEF LeanInv

LEMMA WriteFailsKeeps ==
  ASSUME LeanInv, NEW r \in Rank, NEW x \in Exchange, WriteFails(r, x)
  PROVE  LeanInv'
<1>1. /\ TransportTypeOK /\ HealthInv
      /\ \A q \in Rank, y \in Exchange : ProxyInv(q, y) /\ SendInv(q, y) /\ FlagInv(q, y)
  BY DEF LeanInv
<1>2. /\ alive[r] /\ ~alive[Peer(r, x)] /\ failed' = [failed EXCEPT ![r][x] = TRUE]
      /\ UNCHANGED <<scenario, kernelVars, historyVars, wordVars, slotVars, last, wire, recvVars, alive>>
  BY DEF WriteFails
<1>3. /\ scenario' = scenario /\ launch' = launch /\ pos' = pos /\ epoch' = epoch
      /\ called' = called /\ staged' = staged /\ paired' = paired /\ written' = written
      /\ output' = output /\ late' = late /\ poison' = poison /\ error' = error /\ send' = send
      /\ bytes' = bytes /\ bell' = bell /\ alive' = alive /\ last' = last /\ wire' = wire
      /\ recv' = recv /\ flag' = flag
  BY <1>2 DEF kernelVars, historyVars, wordVars, slotVars, recvVars
<1>4. LadderInv' /\ OutputRight' /\ \A q \in Rank : KernelInv(q)'
  <2>1. UNCHANGED <<scenario, kernelVars, historyVars, wordVars, slotVars, alive>>
    BY <1>2
  <2> QED BY <2>1, ProcessesStay
<1>5. /\ failed' \in [Rank -> [Exchange -> BOOLEAN]]
      /\ \A q \in Rank, y \in Exchange : q # r \/ y # x => failed'[q][y] = failed[q][y]
  <2>1. failed \in [Rank -> [Exchange -> BOOLEAN]]
    BY <1>1 DEF TransportTypeOK
  <2>2. PICK v \in BOOLEAN : v = TRUE
    OBVIOUS
  <2>3. failed' = [failed EXCEPT ![r][x] = v]
    BY <1>2, <2>2
  <2> QED BY <2>1, <2>3, Update2
<1>6. TransportTypeOK'
  <2>1. Lane' = Lane /\ Slot' = Slot
    BY <1>3, SameScenario
  <2> QED BY <1>1, <1>3, <1>5, <2>1 DEF TransportTypeOK
<1>7. HealthInv'
  <2>1. ASSUME NEW q \in Rank, NEW y \in Exchange, failed'[q][y] PROVE ~alive[Peer(q, y)]
    <3>1. CASE q = r /\ y = x
      BY <1>2, <3>1
    <3>2. CASE q # r \/ y # x
      BY <1>1, <1>5, <2>1, <3>2 DEF HealthInv
    <3> QED BY <3>1, <3>2
  <2>2. \A q \in Rank : NoError(q)' = NoError(q)
    BY <1>3 DEF NoError
  <2>3. \A q \in Rank, y \in Exchange : failed'[q][y] => ~alive'[Peer(q, y)]
    BY <1>3, <2>1
  <2>4. /\ late' <= scenario'.late
        /\ scenario'.late = 0 => \A q \in Rank : alive'[q] /\ poison'[q] = 0 /\ NoError(q)'
    BY <1>1, <1>3, <2>2 DEF HealthInv
  <2> QED BY <2>3, <2>4 DEF HealthInv
<1>8. \A q \in Rank, y \in Exchange : ProxyInv(q, y)' /\ SendInv(q, y)' /\ FlagInv(q, y)'
  BY <1>1, <1>3, ExchangeStays
<1> QED BY <1>4, <1>6, <1>7, <1>8 DEF LeanInv

LEMMA WatchdogKeeps ==
  ASSUME LeanInv, NEW r \in Rank, Watchdog(r)
  PROVE  LeanInv'
<1>1. /\ TransportTypeOK /\ LadderInv /\ HealthInv /\ OutputRight
      /\ \A q \in Rank : KernelInv(q)
      /\ \A q \in Rank, y \in Exchange : ProxyInv(q, y) /\ SendInv(q, y) /\ FlagInv(q, y)
  BY DEF LeanInv
<1>2. /\ scenario' = scenario /\ late' = late /\ called' = called /\ staged' = staged
      /\ paired' = paired /\ written' = written /\ output' = output
  BY DEF Watchdog, historyVars
<1>3. alive[r] /\ Unhealthy(r) /\ alive' = [alive EXCEPT ![r] = FALSE]
  BY DEF Watchdog
<1>4. /\ alive \in [Rank -> BOOLEAN] /\ scenario \in Scenarios /\ 0 \in Word
  <2>1. scenario \in Scenarios
    BY <1>1 DEF TransportTypeOK
  <2>2. SeqMod \in Positive
    BY <2>1, ScenarioFacts
  <2>3. 0 \in Word
    BY <2>2 DEF Word, Positive
  <2> QED BY <1>1, <2>1, <2>3 DEF TransportTypeOK
<1>5. /\ alive' \in [Rank -> BOOLEAN] /\ ~alive'[r]
      /\ \A q \in Rank : q # r => alive'[q] = alive[q]
      /\ \A q \in Rank : alive'[q] => alive[q]
  BY <1>3, <1>4
<1>6. \A q \in Rank : q # r =>
        /\ launch'[q] = launch[q] /\ pos'[q] = pos[q] /\ epoch'[q] = epoch[q]
        /\ poison'[q] = poison[q] /\ error'[q] = error[q] /\ send'[q] = send[q]
        /\ bytes'[q] = bytes[q] /\ bell'[q] = bell[q] /\ last'[q] = last[q]
        /\ wire'[q] = wire[q] /\ failed'[q] = failed[q] /\ recv'[q] = recv[q]
        /\ flag'[q] = flag[q]
  <2>1. SUFFICES ASSUME NEW q \in Rank, q # r
                 PROVE  /\ launch'[q] = launch[q] /\ pos'[q] = pos[q] /\ epoch'[q] = epoch[q]
                        /\ poison'[q] = poison[q] /\ error'[q] = error[q] /\ send'[q] = send[q]
                        /\ bytes'[q] = bytes[q] /\ bell'[q] = bell[q] /\ last'[q] = last[q]
                        /\ wire'[q] = wire[q] /\ failed'[q] = failed[q] /\ recv'[q] = recv[q]
                        /\ flag'[q] = flag[q]
    OBVIOUS
  <2> QED BY <1>1, <2>1 DEF Watchdog, TransportTypeOK
<1>7. TransportTypeOK'
  <2>1. Lane' = Lane /\ Slot' = Slot
    BY <1>2, SameScenario
  <2>2. /\ launch' \in [Rank -> Nat] /\ epoch' \in [Rank -> Word]
        /\ pos' \in [Rank -> {"idle", "stage", "pair", "join"} \X Nat]
        /\ poison' \in [Rank -> Word]
    BY <1>1, <1>4 DEF Watchdog, TransportTypeOK, Idle
  <2>3. /\ send' \in [Rank -> [Exchange -> [Slot -> [Lane -> Datum]]]]
        /\ recv' \in [Rank -> [Exchange -> [Slot -> [Lane -> Datum]]]]
    <3> DEFINE D == [Lane -> Datum]
               none == [x \in Exchange |-> [k \in Slot |-> Nothing]]
    <3>1. Nothing \in D
      BY DEF Nothing, Datum
    <3> HIDE DEF D
    <3>2. none \in [Exchange -> [Slot -> D]]
      BY <3>1
    <3>3. /\ send \in [Rank -> [Exchange -> [Slot -> D]]]
          /\ recv \in [Rank -> [Exchange -> [Slot -> D]]]
      BY <1>1 DEF TransportTypeOK, D
    <3>4. send' = [send EXCEPT ![r] = none] /\ recv' = [recv EXCEPT ![r] = none]
      BY DEF Watchdog
    <3> HIDE DEF none
    <3>5. /\ send' \in [Rank -> [Exchange -> [Slot -> D]]]
          /\ recv' \in [Rank -> [Exchange -> [Slot -> D]]]
      BY <3>2, <3>3, <3>4
    <3> QED BY <3>5 DEF D
  <2>4. /\ bytes' \in [Rank -> [Exchange -> [Slot -> Nat]]]
        /\ flag' \in [Rank -> [Exchange -> [Slot -> [Lane -> Word]]]]
    <3>1. [x \in Exchange |-> [k \in Slot |-> 0]] \in [Exchange -> [Slot -> Nat]]
      OBVIOUS
    <3>2. [x \in Exchange |-> [k \in Slot |-> [l \in Lane |-> 0]]] \in [Exchange -> [Slot -> [Lane -> Word]]]
      BY <1>4
    <3>3. /\ bytes \in [Rank -> [Exchange -> [Slot -> Nat]]]
          /\ flag \in [Rank -> [Exchange -> [Slot -> [Lane -> Word]]]]
      BY <1>1 DEF TransportTypeOK
    <3>4. /\ bytes' = [bytes EXCEPT ![r] = [x \in Exchange |-> [k \in Slot |-> 0]]]
          /\ flag' = [flag EXCEPT ![r] = [x \in Exchange |-> [k \in Slot |-> [l \in Lane |-> 0]]]]
      BY DEF Watchdog
    <3> QED BY <3>1, <3>2, <3>3, <3>4
  <2>5. /\ bell' \in [Rank -> [Exchange -> Word]] /\ last' \in [Rank -> [Exchange -> Word]]
        /\ error' \in [Rank -> [Exchange -> Word]]
        /\ failed' \in [Rank -> [Exchange -> BOOLEAN]]
    BY <1>1, <1>4 DEF Watchdog, TransportTypeOK
  <2>6. wire' \in [Rank -> [Exchange -> [Lane -> Seq(Write)]]]
    <3>1. [x \in Exchange |-> [l \in Lane |-> <<>>]] \in [Exchange -> [Lane -> Seq(Write)]]
      OBVIOUS
    <3>2. /\ wire \in [Rank -> [Exchange -> [Lane -> Seq(Write)]]]
          /\ wire' = [wire EXCEPT ![r] = [x \in Exchange |-> [l \in Lane |-> <<>>]]]
      BY <1>1 DEF TransportTypeOK, Watchdog
    <3> QED BY <3>1, <3>2
  <2> QED BY <1>1, <1>2, <1>5, <2>1, <2>2, <2>3, <2>4, <2>5, <2>6 DEF TransportTypeOK
<1>8. LadderInv' /\ OutputRight'
  BY <1>1, <1>2, OutputStays DEF LadderInv, Ladder
<1>9. HealthInv'
  <2>1. scenario.late # 0
    <3>1. CASE \E x \in Exchange : failed[r][x]
      BY <1>1, <3>1, Pairs DEF HealthInv
    <3>2. CASE ~NoError(r)
      BY <1>1, <3>2 DEF HealthInv
    <3> QED BY <1>3, <3>1, <3>2 DEF Unhealthy
  <2>2. ASSUME NEW q \in Rank, NEW x \in Exchange, failed'[q][x] PROVE ~alive'[Peer(q, x)]
    <3>1. Peer(q, x) \in Rank
      BY Pairs
    <3>2. CASE q = r
      <4>1. failed'[r] = [y \in Exchange |-> FALSE]
        BY <1>1 DEF Watchdog, TransportTypeOK
      <4> QED BY <2>2, <3>2, <4>1
    <3>3. CASE q # r
      <4>1. ~alive[Peer(q, x)]
        BY <1>1, <1>6, <2>2, <3>3 DEF HealthInv
      <4> QED BY <1>5, <3>1, <4>1
    <3> QED BY <3>2, <3>3
  <2> QED BY <1>1, <1>2, <2>1, <2>2 DEF HealthInv
<1>10. \A q \in Rank, x \in Exchange : Rung(q, x)' = Rung(q, x) /\ Taken(q, x)' = Taken(q, x)
  BY <1>2 DEF Rung, Taken
<1>11. ASSUME NEW q \in Rank PROVE KernelInv(q)'
  <2>1. CASE q = r
    BY <1>5, <2>1 DEF KernelInv
  <2>2. CASE q # r
    BY <1>1, <1>2, <1>5, <1>6, <2>2, KernelStays
  <2> QED BY <2>1, <2>2
<1>12. ASSUME NEW q \in Rank, NEW x \in Exchange PROVE ProxyInv(q, x)' /\ SendInv(q, x)'
  <2>1. CASE q = r
    BY <1>5, <2>1 DEF ProxyInv, SendInv
  <2>2. CASE q # r
    <3>1. Taken(Peer(q, x), x)' = Taken(Peer(q, x), x)
      BY <1>10, Pairs
    <3>2. /\ bell'[q][x] = bell[q][x] /\ last'[q][x] = last[q][x] /\ wire'[q][x] = wire[q][x]
          /\ send'[q][x] = send[q][x] /\ bytes'[q][x] = bytes[q][x]
          /\ ProxyInv(q, x) /\ SendInv(q, x) /\ (alive'[q] => alive[q])
          /\ Rung(q, x)' = Rung(q, x)
      BY <1>1, <1>5, <1>6, <1>10, <2>2
    <3>3. ProxyInv(q, x)'
      BY <1>2, <3>1, <3>2, ProxyStays
    <3>4. SendInv(q, x)'
      BY <1>2, <3>2, SendStays
    <3> QED BY <3>3, <3>4
  <2> QED BY <2>1, <2>2
<1>13. ASSUME NEW q \in Rank, NEW x \in Exchange PROVE FlagInv(q, x)'
  <2>1. CASE q = r
    BY <1>5, <2>1 DEF FlagInv
  <2>2. CASE q # r
    <3>1. Peer(q, x) \in Rank
      BY Pairs
    <3>2. ASSUME alive'[Peer(q, x)], NEW l \in Lane
          PROVE  Done(Peer(q, x), x, l)' = Done(Peer(q, x), x, l)
      <4>1. Peer(q, x) # r
        BY <1>5, <3>2
      <4> DEFINE p == Peer(q, x)
      <4>2. p \in Rank /\ p # r
        BY <3>1, <4>1
      <4> HIDE DEF p
      <4>3. Done(p, x, l)' = Done(p, x, l)
        BY <1>6, <1>10, <4>2 DEF Done, Posted, Pending
      <4> QED BY <4>3 DEF p
    <3>3. /\ Rung(Peer(q, x), x) \in Int /\ Rung(Peer(q, x), x)' \in Int
          /\ Rung(Peer(q, x), x) <= Rung(Peer(q, x), x)'
      <4>1. Rung(Peer(q, x), x) \in Int
        BY <1>1, <3>1 DEF Rung, TransportTypeOK
      <4> QED BY <1>10, <3>1, <4>1
    <3>4. /\ FlagInv(q, x) /\ (alive'[q] => alive[q]) /\ (alive'[Peer(q, x)] => alive[Peer(q, x)])
          /\ flag'[q][x] = flag[q][x] /\ recv'[q][x] = recv[q][x] /\ Taken(q, x)' = Taken(q, x)
      BY <1>1, <1>5, <1>6, <1>10, <2>2, <3>1
    <3>5. scenario.slots \in Int
      BY <1>4, ScenarioFacts DEF Positive
    <3> QED BY <1>2, <3>2, <3>3, <3>4, <3>5, FlagStays
  <2> QED BY <2>1, <2>2
<1> QED BY <1>7, <1>8, <1>9, <1>11, <1>12, <1>13 DEF LeanInv

-----------------------------------------------------------------------------
(***************************************************************************)
(* Rounds 2 and 3.                                                         *)
(***************************************************************************)

\* A wait that gave up leaves its mark: where that can happen at all no
\* operation's word is the healthy 0.
LEMMA WaitFacts ==
  ASSUME LeanInv, NEW r \in Rank, alive[r], Round(r) \in {"pair", "join"}, NEW x \in Exchange,
         Wait(r, x), scenario' = scenario, alive' = alive, failed' = failed
  PROVE  /\ late' \in Nat /\ error' \in [Rank -> [Exchange -> Word]] /\ poison' \in [Rank -> Word]
         /\ \A q \in Rank : q # r => error'[q] = error[q] /\ poison'[q] = poison[q]
         /\ HealthInv'
         /\ poison'[r] = 0 <=> NoError(r)'
         /\ poison'[r] = 0 => poison[r] = 0 /\ Arrived(r, x)
<1>1. TransportTypeOK /\ HealthInv /\ KernelInv(r)
  BY DEF LeanInv
<1>2. /\ scenario \in Scenarios /\ late \in Nat /\ scenario.late \in Nat
      /\ error \in [Rank -> [Exchange -> Word]] /\ poison \in [Rank -> Word]
  BY <1>1, ScenarioFacts DEF TransportTypeOK
<1>3. poison[r] = 0 <=> NoError(r)
  BY <1>1 DEF KernelInv
<1>4. CASE Arrived(r, x) /\ UNCHANGED wordVars
  <2>1. late' = late /\ error' = error /\ poison' = poison
    BY <1>4 DEF wordVars
  <2>2. NoError(r)' <=> NoError(r)
    BY <2>1 DEF NoError
  <2>3. HealthInv'
    BY <1>1, <1>4, HealthStays
  <2> QED BY <1>2, <1>3, <1>4, <2>1, <2>2, <2>3
<1>5. CASE /\ ~Arrived(r, x)
           /\ IF Unanswered(r, x) THEN UNCHANGED late ELSE r = 0 /\ late > 0 /\ late' = late - 1
           /\ error' = [error EXCEPT ![r][x] = Sequence(r)]
           /\ poison' = [poison EXCEPT ![r] = Sequence(r)]
  <2>1. late' \in Nat /\ late' <= late
    BY <1>2, <1>5
  <2>2. scenario.late # 0
    <3>1. Peer(r, x) \in Rank
      BY Pairs
    <3>2. CASE Unanswered(r, x)
      BY <1>1, <3>1, <3>2 DEF Unanswered, HealthInv
    <3>3. CASE ~Unanswered(r, x)
      <4>1. late > 0 /\ late <= scenario.late
        BY <1>1, <1>5, <3>3 DEF HealthInv
      <4> QED BY <1>2, <4>1
    <3> QED BY <3>2, <3>3
  <2>3. Sequence(r) \in Word /\ Sequence(r) # 0
    <3>1. /\ Op(r) \in Nat /\ 1 <= Op(r) /\ Op(r) <= called[r] /\ called[r] <= 2 * launch[r]
          /\ launch[r] \in 1..Len(Plan) /\ Sequence(r) = WordOf(Op(r)) /\ called[r] \in Nat
      BY <1>1, CallFacts
    <3>2. /\ scenario.completed \in Nat /\ SeqMod \in Nat /\ Plan \in Seq(1..2)
          /\ scenario.completed + 2 * Len(Plan) < SeqMod
      BY <1>2, <2>2, ScenarioFacts DEF Plan, Positive
    <3> DEFINE o == Op(r)
               n == Len(Plan)
               c == scenario.completed
    <3>3. o \in Nat /\ n \in Nat /\ c \in Nat /\ 1 <= o /\ o <= 2 * n /\ c + 2 * n < SeqMod
      BY <3>1, <3>2
    <3>4. 0 <= c + o /\ c + o < SeqMod /\ c + o # 0 /\ o \in Int
      <4> HIDE DEF o, n, c
      <4> QED BY <3>2, <3>3
    <3>5. WordOf(o) = c + o
      BY <1>2, <3>4, WordSmall
    <3>6. WordOf(o) \in Word
      BY <1>2, <3>4, WordFacts
    <3> QED BY <3>1, <3>4, <3>5, <3>6
  <2>4. /\ error' \in [Rank -> [Exchange -> Word]] /\ error'[r][x] = Sequence(r)
        /\ \A q \in Rank : q # r => error'[q] = error[q]
    BY <1>2, <1>5, <2>3
  <2>5. /\ poison' \in [Rank -> Word] /\ poison'[r] = Sequence(r)
        /\ \A q \in Rank : q # r => poison'[q] = poison[q]
    BY <1>2, <1>5, <2>3
  <2>6. ~NoError(r)' /\ poison'[r] # 0
    BY <2>3, <2>4, <2>5 DEF NoError
  <2>7. HealthInv'
    <3>1. late' <= scenario'.late
      BY <1>1, <1>2, <2>1 DEF HealthInv
    <3> QED BY <1>1, <2>2, <3>1 DEF HealthInv
  <2> QED BY <2>1, <2>4, <2>5, <2>6, <2>7
<1> QED BY <1>4, <1>5 DEF Wait

\* Using the next operation keeps the slots' turns: all that the peer has sent
\* is as recent as the operation asks.
LEMMA TakeKeeps ==
  ASSUME TransportTypeOK, LadderInv, NEW r \in Rank, NEW x \in Exchange, alive[r],
         FlagInv(r, x), ProxyInv(Peer(r, x), x),
         NEW o \in Nat, o = Taken(r, x) + 1, Sequence(r) = WordOf(o), Arrived(r, x),
         scenario' = scenario, alive' = alive, recv' = recv, flag' = flag, last' = last,
         wire' = wire, bell'[Peer(r, x)][x] = bell[Peer(r, x)][x],
         Taken(r, x)' = o, Rung(Peer(r, x), x)' = Rung(Peer(r, x), x)
  PROVE  FlagInv(r, x)' /\ ProxyInv(Peer(r, x), x)'
<1> DEFINE p == Peer(r, x)
<1>1. p \in Rank /\ Peer(p, x) = r
  BY Pairs
<1>2. /\ \A l \in Lane : alive[p] => o <= Done(p, x, l)
      /\ \A k \in Slot, l \in Lane : \E s \in (-scenario.slots)..Rung(p, x) :
           Holding(r, x, k, l, s) /\ o < s + scenario.slots
  BY ReadArrived
<1>3. Taken(r, x)' = o /\ Rung(p, x)' = Rung(p, x) /\ bell'[p][x] = bell[p][x] /\ ProxyInv(p, x)
  OBVIOUS
<1> HIDE DEF p
<1>4. /\ Lane' = Lane /\ Slot' = Slot /\ (\A a : WordOf(a)' = WordOf(a))
      /\ \A a : Payload(p, x, a)' = Payload(p, x, a)
  BY DEF Lane, Slot, WordOf, Payload, Plus, Term
<1>5. \A l \in Lane : Done(p, x, l)' = Done(p, x, l)
  BY <1>3 DEF Done, Posted, Pending
<1>6. FlagInv(r, x)'
  <2>1. SUFFICES ASSUME NEW k \in Slot, NEW l \in Lane
                 PROVE  \E s \in (-scenario.slots)..Rung(p, x) : Holding(r, x, k, l, s)'
    BY <1>3, <1>4 DEF FlagInv, p
  <2>2. PICK s \in (-scenario.slots)..Rung(p, x) :
          Holding(r, x, k, l, s) /\ o < s + scenario.slots
    BY <1>2
  <2>3. /\ s <= Rung(p, x) /\ (alive[p] => s <= Done(p, x, l))
        /\ (scenario.completed + s) % scenario.slots = k
        /\ flag[r][x][k][l] = (IF scenario.completed + s < 1 THEN 0 ELSE WordOf(s))
        /\ (s >= 1 => recv[r][x][k][l] = Payload(p, x, s)[l])
    BY <2>2 DEF Holding, p
  <2>4. Holding(r, x, k, l, s)'
    BY <1>3, <1>4, <1>5, <2>2, <2>3 DEF Holding, p
  <2> QED BY <2>2, <2>4
<1>7. ProxyInv(p, x)'
  <2>1. Taken(Peer(p, x), x)' = o
    BY <1>1, <1>3
  <2>2. wire'[p][x] = wire[p][x] /\ last'[p][x] = last[p][x] /\ (alive'[p] => alive[p])
    OBVIOUS
  <2> QED BY <1>1, <1>2, <1>3, <2>1, <2>2, ProxyStays
<1> QED BY <1>6, <1>7 DEF p

\* The pair sum that is published.
LEMMA PairSum ==
  ASSUME NEW r \in Rank, NEW s
  PROVE  Plus(Term(s, r), Payload(Peer(r, 1), 1, s)) = Payload(r, 2, s)
  BY DEF Payload

\* The two pair sums are everybody's.
LEMMA JoinSum ==
  ASSUME NEW r \in Rank, NEW s \in Nat
  PROVE  Plus(Payload(r, 2, s), Payload(Peer(r, 2), 2, s)) = FullSum(s)
<1> DEFINE p == Peer(r, 1)
           a == Peer(r, 2)
           b == Peer(a, 1)
<1>1. Rank = {r, p, a, b}
  <2>1. p \in Rank /\ a \in Rank
    BY Pairs DEF Exchange
  <2>2. b \in Rank
    BY <2>1, Pairs DEF Exchange
  <2>3. \A q \in Rank : q \in {r, p, a, b}
    BY Pairs
  <2> QED BY <2>1, <2>2, <2>3
<1>2. Payload(r, 2, s) = Plus(Term(s, r), Term(s, p)) /\ Payload(a, 2, s) = Plus(Term(s, a), Term(s, b))
  BY DEF Payload
<1> HIDE DEF p, a, b
<1>3. \A l \in Lane : Payload(r, 2, s)[l] = {<<s, r>>} \union {<<s, p>>}
                    /\ Payload(a, 2, s)[l] = {<<s, a>>} \union {<<s, b>>}
  BY <1>2 DEF Plus, Term
<1>4. {s} \X Rank = ({<<s, r>>} \union {<<s, p>>}) \union ({<<s, a>>} \union {<<s, b>>})
  BY <1>1
<1>5. Plus(Payload(r, 2, s), Payload(a, 2, s)) = [l \in Lane |-> {s} \X Rank]
  BY <1>3, <1>4 DEF Plus
<1> QED BY <1>5 DEF FullSum, a

\* Publishing the next pair sum disturbs nothing that is on its way, and frees
\* the neighbour's slot.
LEMMA PairPublishes ==
  ASSUME LeanInv, NEW r \in Rank, alive[r], Round(r) = "pair", poison[r] = 0, Arrived(r, 1),
         NEW op \in Nat, op = Op(r), Sequence(r) = WordOf(op),
         Publish(r, 2, op, WordOf(op), Plus(Term(op, r), recv[r][1][SlotOf(WordOf(op))])),
         paired' = [paired EXCEPT ![r] = op],
         UNCHANGED <<scenario, staged, written, output, proxyVars, recvVars, alive>>
  PROVE  /\ send' \in [Rank -> [Exchange -> [Slot -> [Lane -> Datum]]]]
         /\ bytes' \in [Rank -> [Exchange -> [Slot -> Nat]]]
         /\ bell' \in [Rank -> [Exchange -> Word]]
         /\ paired' \in [Rank -> Nat] /\ paired'[r] = op
         /\ \A q \in Rank : q # r => paired'[q] = paired[q]
         /\ LadderInv'
         /\ \A q \in Rank, x \in Exchange : ProxyInv(q, x)' /\ SendInv(q, x)' /\ FlagInv(q, x)'
<1>1. /\ TransportTypeOK /\ LadderInv /\ KernelInv(r)
      /\ \A q \in Rank, x \in Exchange : ProxyInv(q, x) /\ SendInv(q, x) /\ FlagInv(q, x)
  BY DEF LeanInv
<1>2. /\ scenario' = scenario /\ staged' = staged /\ written' = written /\ output' = output
      /\ last' = last /\ wire' = wire /\ failed' = failed /\ recv' = recv /\ flag' = flag
      /\ alive' = alive
  BY DEF proxyVars, recvVars
<1>3. /\ scenario \in Scenarios /\ scenario.slots \in Nat
      /\ staged \in [Rank -> Nat] /\ paired \in [Rank -> Nat] /\ written \in [Rank -> Nat]
  BY <1>1, ScenarioFacts DEF TransportTypeOK, Positive
<1>4. /\ op = paired[r] + 1 /\ op <= staged[r]
  <2>1. /\ op = called[r] - Chunks(r) + pos[r][2] /\ op <= called[r]
        /\ called[r] - Chunks(r) \in Nat /\ pos[r][2] \in 1..Chunks(r) /\ Chunks(r) \in 1..2
    BY <1>1, CallFacts
  <2>2. staged[r] = called[r] /\ paired[r] = called[r] - Chunks(r) + pos[r][2] - 1
    BY <1>1 DEF KernelInv
  <2> DEFINE b == called[r] - Chunks(r)
             c == pos[r][2]
  <2>3. b \in Int /\ c \in Int /\ op = b + c /\ paired[r] = b + c - 1
    BY <2>1, <2>2
  <2>4. op = paired[r] + 1
    <3> HIDE DEF b, c
    <3> QED BY <2>3
  <2> QED BY <2>1, <2>2, <2>4
<1>5. /\ paired' \in [Rank -> Nat] /\ paired'[r] = op
      /\ \A q \in Rank : q # r => paired'[q] = paired[q]
  BY <1>3
<1>6. /\ op <= Rung(Peer(r, 1), 1)
      /\ recv[r][1][SlotOf(Sequence(r))] = Payload(Peer(r, 1), 1, op)
  <2>1. 1 \in Exchange /\ op = Taken(r, 1) + 1 /\ FlagInv(r, 1)
    BY <1>1, <1>4 DEF Taken, Exchange
  <2> QED BY <1>1, <2>1, ReadArrived
<1>7. Publish(r, 2, op, WordOf(op), Payload(r, 2, op))
  BY <1>6, PairSum
<1>8. Ladder(staged, paired', written, scenario.slots)
  <2>1. SUFFICES ASSUME NEW q \in Rank
                 PROVE  /\ written[q] <= paired'[q] /\ paired'[q] <= staged[q]
                        /\ 2 * (staged[q] - written[q]) <= scenario.slots
                        /\ paired'[q] <= staged[Peer(q, 1)]
                        /\ written[q] <= paired'[Peer(q, 2)]
    BY DEF Ladder
  <2>2. Peer(q, 1) \in Rank /\ Peer(q, 2) \in Rank
    BY Pairs DEF Exchange
  <2>3. /\ written[q] <= paired[q] /\ paired[q] <= staged[q]
        /\ 2 * (staged[q] - written[q]) <= scenario.slots
        /\ paired[q] <= staged[Peer(q, 1)]
        /\ written[q] <= paired[Peer(q, 2)]
    BY <1>1 DEF LadderInv, Ladder
  <2>4. \A p \in Rank : paired[p] <= paired'[p] /\ paired[p] \in Nat /\ paired'[p] \in Nat /\ written[p] \in Nat
    BY <1>3, <1>4, <1>5
  <2>5. written[q] <= paired'[q] /\ written[q] <= paired'[Peer(q, 2)]
    BY <2>2, <2>3, <2>4
  <2>6. paired'[q] <= staged[q] /\ paired'[q] <= staged[Peer(q, 1)]
    <3>1. CASE q = r
      BY <1>4, <1>5, <1>6, <3>1 DEF Rung
    <3>2. CASE q # r
      BY <1>5, <2>3, <3>2
    <3> QED BY <3>1, <3>2
  <2> QED BY <2>3, <2>5, <2>6
<1>9. LadderInv'
  BY <1>2, <1>8 DEF LadderInv
<1>10. op <= Taken(Peer(r, 2), 2) + scenario.slots
  <2>1. paired'[r] <= written[Peer(r, 2)] + scenario.slots
    BY <1>3, <1>5, <1>8, LadderLength
  <2> QED BY <1>5, <2>1 DEF Taken
<1>11. /\ \A q \in Rank, x \in Exchange : q # r \/ x # 2 => Rung(q, x)' = Rung(q, x)
       /\ Rung(r, 2)' = op /\ Rung(r, 2) = paired[r]
       /\ \A q \in Rank, x \in Exchange : q # r \/ x # 1 => Taken(q, x)' = Taken(q, x)
       /\ Taken(r, 1)' = op /\ Taken(r, 1) = paired[r]
  BY <1>2, <1>5 DEF Rung, Taken, Exchange
<1>12. 1 \in Exchange /\ 2 \in Exchange /\ Peer(r, 1) \in Rank /\ Peer(r, 1) # r
       /\ Peer(r, 2) \in Rank /\ Peer(r, 2) # r /\ Peer(Peer(r, 1), 1) = r
  BY Pairs DEF Exchange
<1>13. /\ send' \in [Rank -> [Exchange -> [Slot -> [Lane -> Datum]]]]
       /\ bytes' \in [Rank -> [Exchange -> [Slot -> Nat]]]
       /\ bell' \in [Rank -> [Exchange -> Word]]
       /\ \A q \in Rank, x \in Exchange : q # r \/ x # 2 =>
            send'[q][x] = send[q][x] /\ bytes'[q][x] = bytes[q][x] /\ bell'[q][x] = bell[q][x]
  <2>1. Payload(r, 2, op) \in [Lane -> Datum] /\ op \in Int
    BY <1>12, PayloadTyped
  <2> QED BY <1>1, <1>7, <1>12, <2>1, PublishWrites
<1>14. /\ ProxyInv(r, 2)' /\ SendInv(r, 2)'
       /\ \A l \in Lane : Done(r, 2, l)' = Done(r, 2, l)
  <2>1. op = Rung(r, 2) + 1 /\ Rung(r, 2)' = op
    BY <1>4, <1>11
  <2>2. Taken(Peer(r, 2), 2)' = Taken(Peer(r, 2), 2)
    BY <1>11, <1>12
  <2>3. ProxyInv(r, 2) /\ SendInv(r, 2)
    BY <1>1, <1>12
  <2> QED BY <1>1, <1>2, <1>7, <1>10, <1>12, <2>1, <2>2, <2>3, PublishKeeps
<1>15. FlagInv(r, 1)' /\ ProxyInv(Peer(r, 1), 1)'
  <2>1. /\ op = Taken(r, 1) + 1 /\ Taken(r, 1)' = op
        /\ Rung(Peer(r, 1), 1)' = Rung(Peer(r, 1), 1)
        /\ bell'[Peer(r, 1)][1] = bell[Peer(r, 1)][1]
    BY <1>4, <1>11, <1>12, <1>13
  <2>2. FlagInv(r, 1) /\ ProxyInv(Peer(r, 1), 1)
    BY <1>1, <1>12
  <2> QED BY <1>1, <1>2, <1>12, <2>1, <2>2, TakeKeeps
<1>16. ASSUME NEW q \in Rank, NEW x \in Exchange, q # r \/ x # 2
       PROVE  SendInv(q, x)' /\ \A l \in Lane : Done(q, x, l)' = Done(q, x, l)
  <2>1. /\ Rung(q, x)' = Rung(q, x) /\ send'[q][x] = send[q][x] /\ bytes'[q][x] = bytes[q][x]
        /\ bell'[q][x] = bell[q][x]
    BY <1>11, <1>13, <1>16
  <2>2. SendInv(q, x) /\ (alive'[q] => alive[q]) /\ last'[q][x] = last[q][x] /\ wire'[q][x] = wire[q][x]
    BY <1>1, <1>2
  <2>3. SendInv(q, x)'
    BY <1>2, <2>1, <2>2, SendStays
  <2> QED BY <2>1, <2>2, <2>3 DEF Done, Posted, Pending
<1>17. ASSUME NEW q \in Rank, NEW x \in Exchange, q # r \/ x # 2, q # Peer(r, 1) \/ x # 1
       PROVE  ProxyInv(q, x)'
  <2>1. Peer(q, x) \in Rank /\ (Peer(q, x) # r \/ x # 1)
    BY <1>17, Pairs
  <2>2. Taken(Peer(q, x), x)' = Taken(Peer(q, x), x)
    BY <1>11, <2>1
  <2>3. Rung(q, x)' = Rung(q, x) /\ bell'[q][x] = bell[q][x]
    BY <1>11, <1>13, <1>17
  <2>4. ProxyInv(q, x) /\ (alive'[q] => alive[q]) /\ last'[q][x] = last[q][x] /\ wire'[q][x] = wire[q][x]
    BY <1>1, <1>2
  <2> QED BY <1>2, <2>2, <2>3, <2>4, ProxyStays
<1>18. ASSUME NEW q \in Rank, NEW x \in Exchange, q # r \/ x # 1
       PROVE  FlagInv(q, x)'
  <2>1. Peer(q, x) \in Rank
    BY Pairs
  <2>2. /\ Rung(Peer(q, x), x) \in Int /\ Rung(Peer(q, x), x)' \in Int
        /\ Rung(Peer(q, x), x) <= Rung(Peer(q, x), x)'
    <3>1. \A p \in Rank : Rung(p, x) \in Int
      BY <1>3 DEF Rung
    <3>2. CASE Peer(q, x) = r /\ x = 2
      BY <1>3, <1>4, <1>11, <3>2
    <3>3. CASE Peer(q, x) # r \/ x # 2
      BY <1>11, <2>1, <3>1, <3>3
    <3> QED BY <3>2, <3>3
  <2>3. \A l \in Lane : Done(Peer(q, x), x, l)' = Done(Peer(q, x), x, l)
    BY <1>14, <1>16, <2>1
  <2>4. /\ flag'[q][x] = flag[q][x] /\ recv'[q][x] = recv[q][x] /\ Taken(q, x)' = Taken(q, x)
        /\ (alive'[q] => alive[q]) /\ (alive'[Peer(q, x)] => alive[Peer(q, x)])
        /\ FlagInv(q, x) /\ scenario.slots \in Int
    BY <1>1, <1>2, <1>3, <1>11, <1>18
  <2> QED BY <1>2, <2>1, <2>2, <2>3, <2>4, FlagStays
<1>19. \A q \in Rank, x \in Exchange : ProxyInv(q, x)' /\ SendInv(q, x)' /\ FlagInv(q, x)'
  BY <1>12, <1>14, <1>15, <1>16, <1>17, <1>18
<1> QED BY <1>5, <1>9, <1>13, <1>19

LEMMA PairKeeps ==
  ASSUME LeanInv, NEW r \in Rank, Pair(r)
  PROVE  LeanInv'
<1> DEFINE n == Chunks(r)
           c == pos[r][2]
           op == Op(r)
<1>1. /\ TransportTypeOK /\ KernelInv(r) /\ OutputRight
      /\ \A q \in Rank, x \in Exchange : ProxyInv(q, x) /\ SendInv(q, x) /\ FlagInv(q, x)
  BY DEF LeanInv
<1>2. /\ alive[r] /\ Round(r) = "pair" /\ Wait(r, 1)
      /\ pos' = [pos EXCEPT ![r] = After("pair", c, n)]
      /\ UNCHANGED <<scenario, launch, epoch, called, staged, written, output, proxyVars,
                     recvVars, alive>>
  BY DEF Pair
<1>3. /\ last' = last /\ wire' = wire /\ staged' = staged
      /\ failed' = failed /\ recv' = recv /\ flag' = flag /\ scenario' = scenario /\ epoch' = epoch
      /\ written' = written /\ output' = output /\ alive' = alive
      /\ launch' = launch /\ called' = called
  BY <1>2 DEF proxyVars, recvVars
<1>4. /\ n \in 1..2 /\ c \in 1..n /\ called[r] - n \in Nat /\ called[r] \in Nat
      /\ op \in Nat /\ op = called[r] - n + c /\ Sequence(r) = WordOf(op)
  BY <1>1, <1>2, CallFacts
<1>5. /\ staged[r] = called[r] /\ written[r] = called[r] - n
      /\ launch[r] <= Len(Plan) /\ called[r] <= 2 * launch[r]
      /\ launch[r] >= 1 /\ epoch[r] = WordOf(called[r] - n)
      /\ poison[r] = 0 => paired[r] = called[r] - n + c - 1
  BY <1>1, <1>2 DEF KernelInv
<1>6. /\ late' \in Nat /\ error' \in [Rank -> [Exchange -> Word]] /\ poison' \in [Rank -> Word]
      /\ \A q \in Rank : q # r => error'[q] = error[q] /\ poison'[q] = poison[q]
      /\ HealthInv' /\ (poison'[r] = 0 <=> NoError(r)')
      /\ poison'[r] = 0 => poison[r] = 0 /\ Arrived(r, 1)
  <2>1. 1 \in Exchange /\ Round(r) \in {"pair", "join"}
    BY <1>2 DEF Exchange
  <2> QED BY <1>2, <1>3, <2>1, WaitFacts
<1>7. poison'[r] = 0 => error'[r][1] = 0
  BY <1>6 DEF NoError, Exchange
<1> HIDE DEF n, c, op
<1>8. /\ paired' \in [Rank -> Nat] /\ \A q \in Rank : q # r => paired'[q] = paired[q]
      /\ send' \in [Rank -> [Exchange -> [Slot -> [Lane -> Datum]]]]
      /\ bytes' \in [Rank -> [Exchange -> [Slot -> Nat]]]
      /\ bell' \in [Rank -> [Exchange -> Word]]
      /\ LadderInv'
      /\ \A q \in Rank, x \in Exchange : ProxyInv(q, x)' /\ SendInv(q, x)' /\ FlagInv(q, x)'
      /\ poison'[r] = 0 => paired'[r] = op
  <2>1. CASE poison'[r] = 0
    <3>1. /\ Publish(r, 2, op, WordOf(op), Plus(Term(op, r), recv[r][1][SlotOf(WordOf(op))]))
          /\ paired' = [paired EXCEPT ![r] = op]
      BY <1>4, <1>7, <2>1 DEF Pair, op
    <3>2. UNCHANGED <<scenario, staged, written, output, proxyVars, recvVars, alive>>
      BY <1>2
    <3>3. op = Op(r) /\ poison[r] = 0 /\ Arrived(r, 1)
      BY <1>6, <2>1 DEF op
    <3> QED BY <1>2, <1>4, <3>1, <3>2, <3>3, PairPublishes
  <2>2. CASE poison'[r] # 0
    <3>1. /\ send' = send /\ bytes' = bytes /\ bell' = bell /\ paired' = paired
      BY <2>2 DEF Pair, slotVars
    <3>2. LadderInv'
      BY <1>3, <3>1 DEF LeanInv, LadderInv, Ladder
    <3>3. \A q \in Rank, x \in Exchange : ProxyInv(q, x)' /\ SendInv(q, x)' /\ FlagInv(q, x)'
      BY <1>1, <1>3, <3>1, ExchangeStays
    <3>4. /\ paired \in [Rank -> Nat]
          /\ send \in [Rank -> [Exchange -> [Slot -> [Lane -> Datum]]]]
          /\ bytes \in [Rank -> [Exchange -> [Slot -> Nat]]]
          /\ bell \in [Rank -> [Exchange -> Word]]
      BY <1>1 DEF TransportTypeOK
    <3> QED BY <2>2, <3>1, <3>2, <3>3, <3>4
  <2> QED BY <2>1, <2>2
<1>9. /\ After("pair", c, n) \in {"idle", "stage", "pair", "join"} \X Nat
      /\ c < n => After("pair", c, n) = <<"pair", c + 1>>
      /\ c = n => After("pair", c, n) = <<"join", 1>>
      /\ c < n \/ c = n
  BY <1>4, AfterFacts
<1>10. /\ pos' \in [Rank -> {"idle", "stage", "pair", "join"} \X Nat]
       /\ pos'[r] = After("pair", c, n)
       /\ \A q \in Rank : q # r => pos'[q] = pos[q]
  BY <1>1, <1>2, <1>9 DEF TransportTypeOK
<1>11. TransportTypeOK'
  <2>1. Lane' = Lane /\ Slot' = Slot
    BY <1>3, SameScenario
  <2> QED BY <1>1, <1>3, <1>6, <1>8, <1>10, <2>1 DEF TransportTypeOK
<1>12. KernelInv(r)'
  <2>1. /\ Chunks(r)' = n /\ Len(Plan)' = Len(Plan)
        /\ launch'[r] = launch[r] /\ called'[r] = called[r] /\ epoch'[r] = WordOf(called[r] - n)
        /\ (\A a : WordOf(a)' = WordOf(a))
        /\ staged'[r] = called[r] /\ written'[r] = called[r] - n
        /\ poison'[r] = 0 => paired'[r] = called[r] - n + c
    <3>1. Chunks(r)' = n /\ Len(Plan)' = Len(Plan) /\ \A a : WordOf(a)' = WordOf(a)
      BY <1>3 DEF Chunks, Plan, WordOf, n
    <3> QED BY <1>3, <1>4, <1>5, <1>8, <3>1
  <2>2. CASE c < n
    <3>1. /\ Round(r)' = "pair" /\ pos'[r][2] = c + 1 /\ pos'[r] # Idle
      BY <1>9, <1>10, <2>2 DEF Round, Idle
    <3>2. c + 1 \in 1..n
      BY <1>4, <2>2
    <3>3. called[r] - n + c = called[r] - n + (c + 1) - 1
      BY <1>4
    <3>4. called[r] - n >= 0
      BY <1>4
    <3> QED BY <1>3, <1>5, <1>6, <2>1, <3>1, <3>2, <3>3, <3>4 DEF KernelInv
  <2>3. CASE c = n
    <3>1. /\ Round(r)' = "join" /\ pos'[r][2] = 1 /\ pos'[r] # Idle
      BY <1>9, <1>10, <2>3 DEF Round, Idle
    <3>2. 1 \in 1..n /\ called[r] - n + c = called[r] /\ called[r] - n = called[r] - n + 1 - 1
      BY <1>4, <2>3
    <3>3. called[r] - n >= 0
      BY <1>4
    <3> QED BY <1>3, <1>5, <1>6, <2>1, <3>1, <3>2, <3>3 DEF KernelInv
  <2> QED BY <1>9, <2>2, <2>3
<1>13. \A q \in Rank : KernelInv(q)'
  <2>1. \A q \in Rank : q # r =>
         /\ poison'[q] = poison[q] /\ error'[q] = error[q] /\ launch'[q] = launch[q]
         /\ pos'[q] = pos[q] /\ epoch'[q] = epoch[q] /\ called'[q] = called[q]
         /\ staged'[q] = staged[q] /\ paired'[q] = paired[q] /\ written'[q] = written[q]
    BY <1>3, <1>6, <1>8, <1>10
  <2>2. \A q \in Rank : q # r => KernelInv(q)'
    BY <1>3, <2>1, OtherKernels
  <2> QED BY <1>12, <2>2
<1>14. OutputRight'
  BY <1>1, <1>3, OutputStays
<1> QED BY <1>6, <1>8, <1>11, <1>13, <1>14 DEF LeanInv

\* Joining the next operation writes everybody's sum, and frees the other
\* neighbour's slot.
LEMMA JoinWrites ==
  ASSUME LeanInv, NEW r \in Rank, alive[r], Round(r) = "join", poison[r] = 0, Arrived(r, 2),
         NEW op \in Nat, op = Op(r), Sequence(r) = WordOf(op),
         written' = [written EXCEPT ![r] = op],
         output' = [output EXCEPT ![r] =
                      Plus(send[r][2][SlotOf(WordOf(op))], recv[r][2][SlotOf(WordOf(op))])],
         UNCHANGED <<scenario, staged, paired, slotVars, proxyVars, recvVars, alive>>
  PROVE  /\ written' \in [Rank -> Nat] /\ written'[r] = op
         /\ \A q \in Rank : q # r => written'[q] = written[q]
         /\ output' \in [Rank -> [Lane -> Datum]] /\ OutputRight'
         /\ LadderInv'
         /\ \A q \in Rank, x \in Exchange : ProxyInv(q, x)' /\ SendInv(q, x)' /\ FlagInv(q, x)'
<1>1. /\ TransportTypeOK /\ LadderInv /\ KernelInv(r) /\ OutputRight
      /\ \A q \in Rank, x \in Exchange : ProxyInv(q, x) /\ SendInv(q, x) /\ FlagInv(q, x)
  BY DEF LeanInv
<1>2. /\ scenario' = scenario /\ staged' = staged /\ paired' = paired
      /\ last' = last /\ wire' = wire /\ failed' = failed /\ recv' = recv /\ flag' = flag
      /\ alive' = alive /\ send' = send /\ bytes' = bytes /\ bell' = bell
  BY DEF proxyVars, recvVars, slotVars
<1>3. /\ scenario \in Scenarios /\ scenario.slots \in Nat /\ 0 < scenario.slots
      /\ staged \in [Rank -> Nat] /\ paired \in [Rank -> Nat] /\ written \in [Rank -> Nat]
      /\ output \in [Rank -> [Lane -> Datum]]
  BY <1>1, ScenarioFacts, SMTT(40) DEF TransportTypeOK, Positive
<1>4. /\ op = written[r] + 1 /\ 1 <= op /\ op <= paired[r] /\ paired[r] < op + scenario.slots
  <2>1. /\ op = called[r] - Chunks(r) + pos[r][2] /\ op <= called[r] /\ 1 <= op
        /\ called[r] - Chunks(r) \in Nat /\ pos[r][2] \in 1..Chunks(r) /\ Chunks(r) \in 1..2
        /\ 2 * Chunks(r) <= scenario.slots /\ called[r] \in Nat
    BY <1>1, CallFacts
  <2>2. paired[r] = called[r] /\ written[r] = called[r] - Chunks(r) + pos[r][2] - 1
    BY <1>1 DEF KernelInv
  <2> DEFINE b == called[r] - Chunks(r)
             c == pos[r][2]
             n == Chunks(r)
             d == called[r]
             z == scenario.slots
  <2>3. /\ b \in Int /\ c \in Int /\ n \in Int /\ d \in Int /\ z \in Int /\ op = b + c
        /\ written[r] = b + c - 1 /\ b = d - n /\ 1 <= c /\ 2 * n <= z /\ 0 < z /\ n >= 1
    BY <1>3, <2>1, <2>2
  <2>4. op = written[r] + 1 /\ d < op + z
    <3> HIDE DEF b, c, n, d, z
    <3>1. op = written[r] + 1
      BY <2>3
    <3>2. d < op + z
      BY <2>3
    <3> QED BY <3>1, <3>2
  <2> QED BY <2>1, <2>2, <2>4
<1>5. /\ written' \in [Rank -> Nat] /\ written'[r] = op
      /\ \A q \in Rank : q # r => written'[q] = written[q]
  BY <1>3
<1>6. 2 \in Exchange /\ Peer(r, 2) \in Rank /\ Peer(r, 2) # r /\ Peer(Peer(r, 2), 2) = r
  BY Pairs DEF Exchange
<1>7. /\ op <= paired[Peer(r, 2)]
      /\ recv[r][2][SlotOf(Sequence(r))] = Payload(Peer(r, 2), 2, op)
  <2>1. op = Taken(r, 2) + 1 /\ FlagInv(r, 2)
    BY <1>1, <1>4, <1>6 DEF Taken
  <2>2. op <= Rung(Peer(r, 2), 2)
        /\ recv[r][2][SlotOf(Sequence(r))] = Payload(Peer(r, 2), 2, op)
    BY <1>1, <1>6, <2>1, ReadArrived
  <2> QED BY <2>2 DEF Rung
<1>8. send[r][2][SlotOf(WordOf(op))] = Payload(r, 2, op)
  <2>1. SendInv(r, 2) /\ Rung(r, 2) = paired[r]
    BY <1>1, <1>6 DEF Rung
  <2>2. op \in 1..paired[r]
    BY <1>3, <1>4
  <2> QED BY <1>4, <2>1, <2>2 DEF SendInv
<1>9. output' = [output EXCEPT ![r] = FullSum(op)]
  <2>1. Plus(Payload(r, 2, op), Payload(Peer(r, 2), 2, op)) = FullSum(op)
    BY JoinSum
  <2> QED BY <1>7, <1>8, <2>1
<1>10. output' \in [Rank -> [Lane -> Datum]] /\ output'[r] = FullSum(op)
       /\ \A q \in Rank : q # r => output'[q] = output[q]
  <2>1. FullSum(op) \in [Lane -> Datum]
    BY DEF FullSum, Datum
  <2> DEFINE D == [Lane -> Datum]
             v == FullSum(op)
  <2>2. output \in [Rank -> D] /\ v \in D /\ output' = [output EXCEPT ![r] = v]
    BY <1>3, <1>9, <2>1
  <2> HIDE DEF D, v
  <2>3. output' \in [Rank -> D] /\ output'[r] = v /\ \A q \in Rank : q # r => output'[q] = output[q]
    BY <2>2
  <2> QED BY <2>3 DEF D, v
<1>11. OutputRight'
  <2>1. \A s : FullSum(s)' = FullSum(s)
    BY <1>2 DEF FullSum, Lane
  <2>2. ASSUME NEW q \in Rank, written'[q] > 0 PROVE output'[q] = FullSum(written'[q])
    BY <1>1, <1>5, <1>10, <2>2 DEF OutputRight
  <2> QED BY <1>2, <2>2 DEF OutputRight, FullSum, Lane
<1>12. LadderInv'
  <2>1. SUFFICES ASSUME NEW q \in Rank
                 PROVE  /\ written'[q] <= paired[q] /\ paired[q] <= staged[q]
                        /\ 2 * (staged[q] - written'[q]) <= scenario.slots
                        /\ paired[q] <= staged[Peer(q, 1)]
                        /\ written'[q] <= paired[Peer(q, 2)]
    BY <1>2 DEF LadderInv, Ladder
  <2>2. /\ written[q] <= paired[q] /\ paired[q] <= staged[q]
        /\ 2 * (staged[q] - written[q]) <= scenario.slots
        /\ paired[q] <= staged[Peer(q, 1)]
        /\ written[q] <= paired[Peer(q, 2)]
    BY <1>1 DEF LadderInv, Ladder
  <2>3. CASE q = r
    <3>1. 2 * (staged[r] - op) <= scenario.slots
      <4>1. staged[r] \in Nat /\ written[r] \in Nat /\ op = written[r] + 1
            /\ 2 * (staged[r] - written[r]) <= scenario.slots
        BY <1>3, <1>4, <2>2, <2>3
      <4> QED BY <1>3, <4>1
    <3> QED BY <1>4, <1>5, <1>7, <2>2, <2>3, <3>1
  <2>4. CASE q # r
    BY <1>5, <2>2, <2>4
  <2> QED BY <2>3, <2>4
<1>13. /\ \A q \in Rank, x \in Exchange : Rung(q, x)' = Rung(q, x)
       /\ \A q \in Rank, x \in Exchange : q # r \/ x # 2 => Taken(q, x)' = Taken(q, x)
       /\ Taken(r, 2)' = op /\ Taken(r, 2) = written[r]
       /\ \A q \in Rank, x \in Exchange : Rung(q, x) \in Int
       /\ \A q \in Rank, x \in Exchange, l \in Lane : Done(q, x, l)' = Done(q, x, l)
  <2>1. \A q \in Rank, x \in Exchange : Rung(q, x)' = Rung(q, x)
    BY <1>2 DEF Rung
  <2>2. \A q \in Rank, x \in Exchange : q # r \/ x # 2 => Taken(q, x)' = Taken(q, x)
    BY <1>2, <1>5 DEF Taken, Exchange
  <2>3. Taken(r, 2)' = op /\ Taken(r, 2) = written[r]
    BY <1>5 DEF Taken
  <2>4. \A q \in Rank, x \in Exchange : Rung(q, x) \in Int
    BY <1>3 DEF Rung
  <2>5. \A q \in Rank, x \in Exchange, l \in Lane : Done(q, x, l)' = Done(q, x, l)
    BY <1>2, <2>1 DEF Done, Posted, Pending
  <2> QED BY <2>1, <2>2, <2>3, <2>4, <2>5
<1>14. FlagInv(r, 2)' /\ ProxyInv(Peer(r, 2), 2)'
  <2>1. /\ op = Taken(r, 2) + 1 /\ Taken(r, 2)' = op
        /\ Rung(Peer(r, 2), 2)' = Rung(Peer(r, 2), 2)
        /\ bell'[Peer(r, 2)][2] = bell[Peer(r, 2)][2]
    BY <1>2, <1>4, <1>6, <1>13
  <2>2. FlagInv(r, 2) /\ ProxyInv(Peer(r, 2), 2)
    BY <1>1, <1>6
  <2> QED BY <1>1, <1>2, <1>6, <2>1, <2>2, TakeKeeps
<1>15. ASSUME NEW q \in Rank, NEW x \in Exchange PROVE SendInv(q, x)'
  <2>1. SendInv(q, x) /\ (alive'[q] => alive[q]) /\ Rung(q, x)' = Rung(q, x)
        /\ send'[q][x] = send[q][x] /\ bytes'[q][x] = bytes[q][x]
    BY <1>1, <1>2, <1>13
  <2> QED BY <1>2, <2>1, SendStays
<1>16. ASSUME NEW q \in Rank, NEW x \in Exchange, q # Peer(r, 2) \/ x # 2 PROVE ProxyInv(q, x)'
  <2>1. Peer(q, x) \in Rank /\ (Peer(q, x) # r \/ x # 2)
    BY <1>16, Pairs
  <2>2. Taken(Peer(q, x), x)' = Taken(Peer(q, x), x)
    BY <1>13, <2>1
  <2>3. ProxyInv(q, x) /\ (alive'[q] => alive[q]) /\ last'[q][x] = last[q][x] /\ wire'[q][x] = wire[q][x]
        /\ bell'[q][x] = bell[q][x] /\ Rung(q, x)' = Rung(q, x)
    BY <1>1, <1>2, <1>13
  <2> QED BY <1>2, <2>2, <2>3, ProxyStays
<1>17. ASSUME NEW q \in Rank, NEW x \in Exchange, q # r \/ x # 2 PROVE FlagInv(q, x)'
  <2>1. Peer(q, x) \in Rank
    BY Pairs
  <2>2. /\ Rung(Peer(q, x), x) \in Int /\ Rung(Peer(q, x), x)' \in Int
        /\ Rung(Peer(q, x), x) <= Rung(Peer(q, x), x)'
        /\ \A l \in Lane : Done(Peer(q, x), x, l)' = Done(Peer(q, x), x, l)
    BY <1>13, <2>1
  <2>3. /\ flag'[q][x] = flag[q][x] /\ recv'[q][x] = recv[q][x] /\ Taken(q, x)' = Taken(q, x)
        /\ (alive'[q] => alive[q]) /\ (alive'[Peer(q, x)] => alive[Peer(q, x)])
        /\ FlagInv(q, x) /\ scenario.slots \in Int
    BY <1>1, <1>2, <1>3, <1>13, <1>17
  <2> QED BY <1>2, <2>1, <2>2, <2>3, FlagStays
<1>18. \A q \in Rank, x \in Exchange : ProxyInv(q, x)' /\ SendInv(q, x)' /\ FlagInv(q, x)'
  BY <1>14, <1>15, <1>16, <1>17
<1> QED BY <1>5, <1>10, <1>11, <1>12, <1>18

LEMMA JoinKeeps ==
  ASSUME LeanInv, NEW r \in Rank, Join(r)
  PROVE  LeanInv'
<1> DEFINE n == Chunks(r)
           c == pos[r][2]
           op == Op(r)
<1>1. /\ TransportTypeOK /\ KernelInv(r) /\ OutputRight
      /\ \A q \in Rank, x \in Exchange : ProxyInv(q, x) /\ SendInv(q, x) /\ FlagInv(q, x)
  BY DEF LeanInv
<1>2. /\ alive[r] /\ Round(r) = "join" /\ Wait(r, 2)
      /\ pos' = [pos EXCEPT ![r] = After("join", c, n)]
      /\ UNCHANGED <<scenario, launch, called, staged, paired, slotVars, proxyVars, recvVars, alive>>
  BY DEF Join
<1>3. /\ last' = last /\ wire' = wire /\ staged' = staged /\ paired' = paired
      /\ failed' = failed /\ recv' = recv /\ flag' = flag /\ scenario' = scenario
      /\ send' = send /\ bytes' = bytes /\ bell' = bell /\ alive' = alive
      /\ launch' = launch /\ called' = called
  BY <1>2 DEF slotVars, proxyVars, recvVars
<1>4. /\ n \in 1..2 /\ c \in 1..n /\ called[r] - n \in Nat /\ called[r] \in Nat
      /\ op \in Nat /\ op = called[r] - n + c /\ Sequence(r) = WordOf(op)
  BY <1>1, <1>2, CallFacts
<1>5. /\ staged[r] = called[r]
      /\ launch[r] <= Len(Plan) /\ called[r] <= 2 * launch[r]
      /\ launch[r] >= 1 /\ epoch[r] = WordOf(called[r] - n)
      /\ poison[r] = 0 => paired[r] = called[r] /\ written[r] = called[r] - n + c - 1
  BY <1>1, <1>2 DEF KernelInv
<1>6. /\ late' \in Nat /\ error' \in [Rank -> [Exchange -> Word]] /\ poison' \in [Rank -> Word]
      /\ \A q \in Rank : q # r => error'[q] = error[q] /\ poison'[q] = poison[q]
      /\ HealthInv' /\ (poison'[r] = 0 <=> NoError(r)')
      /\ poison'[r] = 0 => poison[r] = 0 /\ Arrived(r, 2)
  <2>1. 2 \in Exchange /\ Round(r) \in {"pair", "join"}
    BY <1>2 DEF Exchange
  <2> QED BY <1>2, <1>3, <2>1, WaitFacts
<1> HIDE DEF n, c, op
<1>7. /\ written' \in [Rank -> Nat] /\ \A q \in Rank : q # r => written'[q] = written[q]
      /\ output' \in [Rank -> [Lane -> Datum]] /\ OutputRight' /\ LadderInv'
      /\ \A q \in Rank, x \in Exchange : ProxyInv(q, x)' /\ SendInv(q, x)' /\ FlagInv(q, x)'
      /\ poison'[r] = 0 => written'[r] = op
  <2>1. CASE poison'[r] = 0
    <3>1. /\ written' = [written EXCEPT ![r] = op]
          /\ output' = [output EXCEPT ![r] =
                          Plus(send[r][2][SlotOf(WordOf(op))], recv[r][2][SlotOf(WordOf(op))])]
      BY <1>4, <2>1 DEF Join, op
    <3>2. UNCHANGED <<scenario, staged, paired, slotVars, proxyVars, recvVars, alive>>
      BY <1>2
    <3>3. op = Op(r) /\ poison[r] = 0 /\ Arrived(r, 2)
      BY <1>6, <2>1 DEF op
    <3> QED BY <1>2, <1>4, <3>1, <3>2, <3>3, JoinWrites
  <2>2. CASE poison'[r] # 0
    <3>1. written' = written /\ output' = output
      BY <2>2 DEF Join
    <3>2. LadderInv' /\ OutputRight'
      BY <1>1, <1>3, <3>1, OutputStays DEF LeanInv, LadderInv, Ladder
    <3>3. \A q \in Rank, x \in Exchange : ProxyInv(q, x)' /\ SendInv(q, x)' /\ FlagInv(q, x)'
      BY <1>1, <1>3, <3>1, ExchangeStays
    <3>4. written \in [Rank -> Nat] /\ output \in [Rank -> [Lane -> Datum]]
      BY <1>1 DEF TransportTypeOK
    <3> QED BY <2>2, <3>1, <3>2, <3>3, <3>4
  <2> QED BY <2>1, <2>2
<1>8. /\ After("join", c, n) \in {"idle", "stage", "pair", "join"} \X Nat
      /\ c < n => After("join", c, n) = <<"join", c + 1>>
      /\ c = n => After("join", c, n) = Idle
      /\ c < n \/ c = n
  BY <1>4, AfterFacts
<1>9. /\ pos' \in [Rank -> {"idle", "stage", "pair", "join"} \X Nat]
      /\ pos'[r] = After("join", c, n)
      /\ \A q \in Rank : q # r => pos'[q] = pos[q]
  BY <1>1, <1>2, <1>8 DEF TransportTypeOK
<1>10. CASE c < n
  <2>1. /\ pos'[r] = <<"join", c + 1>> /\ Round(r)' = "join" /\ pos'[r][2] = c + 1 /\ pos'[r] # Idle
    BY <1>8, <1>9, <1>10 DEF Round, Idle
  <2>2. epoch' = epoch
    BY <2>1 DEF Join
  <2>3. TransportTypeOK'
    <3>1. Lane' = Lane /\ Slot' = Slot
      BY <1>3, SameScenario
    <3> QED BY <1>1, <1>3, <1>6, <1>7, <1>9, <2>2, <3>1 DEF TransportTypeOK
  <2>4. KernelInv(r)'
    <3>1. /\ Chunks(r)' = n /\ Len(Plan)' = Len(Plan)
          /\ launch'[r] = launch[r] /\ called'[r] = called[r] /\ epoch'[r] = WordOf(called[r] - n)
          /\ (\A a : WordOf(a)' = WordOf(a)) /\ staged'[r] = called[r]
          /\ poison'[r] = 0 => paired'[r] = called[r] /\ written'[r] = called[r] - n + c
      <4>1. Chunks(r)' = n /\ Len(Plan)' = Len(Plan) /\ \A a : WordOf(a)' = WordOf(a)
        BY <1>3 DEF Chunks, Plan, WordOf, n
      <4> QED BY <1>3, <1>4, <1>5, <1>6, <1>7, <2>2, <4>1
    <3>2. c + 1 \in 1..n
      BY <1>4, <1>10
    <3>3. called[r] - n + c = called[r] - n + (c + 1) - 1
      BY <1>4
    <3>4. called[r] - n >= 0
      BY <1>4
    <3>5. poison'[r] = 0 => paired'[r] = called[r] /\ written'[r] = called[r] - n + (c + 1) - 1
      BY <3>1, <3>3
    <3>6. launch'[r] <= Len(Plan)' /\ called'[r] <= 2 * launch'[r] /\ launch'[r] >= 1
      BY <1>5, <3>1
    <3>7. (poison'[r] = 0 <=> NoError(r)')
      BY <1>6
    <3> QED BY <2>1, <3>1, <3>2, <3>4, <3>5, <3>6, <3>7 DEF KernelInv
  <2>5. \A q \in Rank : KernelInv(q)'
    <3>1. \A q \in Rank : q # r =>
           /\ poison'[q] = poison[q] /\ error'[q] = error[q] /\ launch'[q] = launch[q]
           /\ pos'[q] = pos[q] /\ epoch'[q] = epoch[q] /\ called'[q] = called[q]
           /\ staged'[q] = staged[q] /\ paired'[q] = paired[q] /\ written'[q] = written[q]
      BY <1>3, <1>6, <1>7, <1>9, <2>2
    <3>2. \A q \in Rank : q # r => KernelInv(q)'
      BY <1>3, <3>1, OtherKernels
    <3> QED BY <2>4, <3>2
  <2> QED BY <1>6, <1>7, <2>3, <2>5 DEF LeanInv
<1>11. CASE c = n
  <2>1. pos'[r] = Idle /\ Idle[1] = "idle"
    BY <1>8, <1>9, <1>11 DEF Idle
  <2>2. Round(r)' = "idle" /\ pos'[r] = Idle
    BY <2>1 DEF Round
  <2>3. epoch' = [epoch EXCEPT ![r] = IF NoError(r)' THEN (epoch[r] + n) % SeqMod ELSE epoch[r]]
    BY <2>1 DEF Join, Commit, NoError, n
  <2>4. (epoch[r] + n) % SeqMod = WordOf(called[r]) /\ WordOf(called[r]) \in Word
    <3>1. scenario \in Scenarios
      BY <1>1 DEF TransportTypeOK
    <3>2. called[r] - n \in Int /\ n \in Int /\ called[r] \in Int /\ called[r] - n + n = called[r]
      <4>1. called[r] \in Int /\ n \in Int
        BY <1>4
      <4> QED BY <4>1
    <3>3. (WordOf(called[r] - n) + n) % SeqMod = WordOf(called[r] - n + n)
      BY <3>1, <3>2, WordFacts
    <3>4. WordOf(called[r]) \in Word
      BY <3>1, <3>2, WordFacts
    <3> QED BY <1>5, <3>2, <3>3, <3>4
  <2>5. /\ epoch' \in [Rank -> Word]
        /\ poison'[r] = 0 => epoch'[r] = WordOf(called[r])
        /\ \A q \in Rank : q # r => epoch'[q] = epoch[q]
    <3>1. epoch \in [Rank -> Word]
      BY <1>1 DEF TransportTypeOK
    <3>2. CASE NoError(r)'
      BY <2>3, <2>4, <3>1, <3>2
    <3>3. CASE ~NoError(r)'
      BY <1>6, <2>3, <3>1, <3>3
    <3> QED BY <3>2, <3>3
  <2>6. TransportTypeOK'
    <3>1. Lane' = Lane /\ Slot' = Slot
      BY <1>3, SameScenario
    <3> QED BY <1>1, <1>3, <1>6, <1>7, <1>9, <2>5, <3>1 DEF TransportTypeOK
  <2>7. KernelInv(r)'
    <3>1. /\ Len(Plan)' = Len(Plan) /\ launch'[r] = launch[r] /\ called'[r] = called[r]
          /\ staged'[r] = called[r] /\ WordOf(called[r])' = WordOf(called[r])
          /\ poison'[r] = 0 => /\ paired'[r] = called[r] /\ written'[r] = called[r]
                               /\ epoch'[r] = WordOf(called[r])
      <4>1. op = called[r]
        BY <1>4, <1>11
      <4> QED BY <1>3, <1>5, <1>6, <1>7, <2>5, <4>1 DEF Plan, WordOf
    <3> QED BY <1>3, <1>5, <1>6, <2>2, <3>1 DEF KernelInv, WordOf
  <2>8. \A q \in Rank : KernelInv(q)'
    <3>1. \A q \in Rank : q # r =>
           /\ poison'[q] = poison[q] /\ error'[q] = error[q] /\ launch'[q] = launch[q]
           /\ pos'[q] = pos[q] /\ epoch'[q] = epoch[q] /\ called'[q] = called[q]
           /\ staged'[q] = staged[q] /\ paired'[q] = paired[q] /\ written'[q] = written[q]
      BY <1>3, <1>6, <1>7, <1>9, <2>5
    <3>2. \A q \in Rank : q # r => KernelInv(q)'
      BY <1>3, <3>1, OtherKernels
    <3> QED BY <2>7, <3>2
  <2> QED BY <1>6, <1>7, <2>6, <2>8 DEF LeanInv
<1> QED BY <1>8, <1>10, <1>11

-----------------------------------------------------------------------------
(***************************************************************************)
(* The transport behind its construction.                                  *)
(***************************************************************************)

\* Constructing moves nothing of the transport.
LEMMA LeanIdle ==
  ASSUME LeanInv, UNCHANGED leanVars PROVE LeanInv'
<1>1. /\ TransportTypeOK /\ LadderInv /\ HealthInv /\ OutputRight
      /\ \A q \in Rank : KernelInv(q)
      /\ \A q \in Rank, x \in Exchange : ProxyInv(q, x) /\ SendInv(q, x) /\ FlagInv(q, x)
  BY DEF LeanInv
<1>2. /\ UNCHANGED <<scenario, launch, pos, epoch>>
      /\ UNCHANGED <<called, staged, paired, written, output>>
      /\ UNCHANGED <<late, poison, error>> /\ UNCHANGED <<send, bytes, bell>>
      /\ UNCHANGED <<last, wire, failed>> /\ UNCHANGED <<recv, flag, alive>>
      /\ UNCHANGED wordVars
  BY DEF leanVars, kernelVars, historyVars, wordVars, slotVars, proxyVars, recvVars
<1>3. TransportTypeOK'
  <2>1. Lane' = Lane /\ Slot' = Slot
    BY <1>2, SameScenario
  <2> QED BY <1>1, <1>2, <2>1 DEF TransportTypeOK
<1>4. LadderInv'
  BY <1>1, <1>2 DEF LadderInv, Ladder
<1>5. HealthInv' /\ OutputRight'
  BY <1>1, <1>2, HealthStays, OutputStays
<1>6. ASSUME NEW q \in Rank PROVE KernelInv(q)'
  BY <1>1, <1>2, KernelStays
<1>7. \A q \in Rank, x \in Exchange : ProxyInv(q, x)' /\ SendInv(q, x)' /\ FlagInv(q, x)'
  BY <1>1, <1>2, ExchangeStays
<1> QED BY <1>3, <1>4, <1>5, <1>6, <1>7 DEF LeanInv

\* Any step of kernel, proxy, NIC or watchdog.
LEMMA OperateKeeps ==
  ASSUME LeanInv, NEW r \in Rank, Kernel(r) \/ Transport(r) PROVE LeanInv'
<1>1. CASE Kernel(r)
  BY <1>1, LaunchKeeps, StageStepKeeps, PairKeeps, JoinKeeps DEF Kernel
<1>2. CASE Transport(r)
  <2>1. CASE Watchdog(r)
    BY <2>1, WatchdogKeeps
  <2>2. ASSUME NEW x \in Exchange, Post(r, x) PROVE LeanInv'
    BY <2>2, PostKeeps
  <2>3. ASSUME NEW x \in Exchange, WriteFails(r, x) PROVE LeanInv'
    BY <2>3, WriteFailsKeeps
  <2>4. ASSUME NEW x \in Exchange, NEW l \in Lane, Transfer(r, x, l) PROVE LeanInv'
    BY <2>4, TransferKeeps
  <2> QED BY <1>2, <2>1, <2>2, <2>3, <2>4 DEF Transport
<1> QED BY <1>1, <1>2

\* The inductive invariant of the transport and the construction in front of it.
RuntimeInv == LeanInv /\ StartInv

LEMMA RuntimeKeeps ==
  ASSUME RuntimeInv, [RuntimeNext]_runtimeVars PROVE RuntimeInv'
<1>1. LeanInv /\ StartInv
  BY DEF RuntimeInv
<1>2. ASSUME NEW r \in Rank, Construct(r) PROVE RuntimeInv'
  BY <1>1, <1>2, LeanIdle, StartKept DEF Construct, RuntimeInv
<1>3. ASSUME NEW r \in Rank, Operate(r) PROVE RuntimeInv'
  BY <1>1, <1>3, OperateKeeps, StartIdle DEF Operate, RuntimeInv
<1>4. CASE UNCHANGED runtimeVars
  <2>1. UNCHANGED leanVars /\ UNCHANGED startVars
    BY <1>4 DEF runtimeVars
  <2> QED BY <1>1, <2>1, LeanIdle, StartIdle DEF RuntimeInv
<1> QED BY <1>2, <1>3, <1>4 DEF RuntimeNext

\* The runtime keeps its invariant in every scenario.
THEOREM LeanInvariant == RuntimeSpec => []RuntimeInv
<1>1. RuntimeInit => RuntimeInv
  BY LeanStarts, StartStarts DEF RuntimeInit, RuntimeInv
<1>2. RuntimeInv /\ [RuntimeNext]_runtimeVars => RuntimeInv'
  BY RuntimeKeeps
<1> QED BY <1>1, <1>2, PTL DEF RuntimeSpec

\* lean_tp4.cu: an output that a kernel wrote is the sum of every rank's input to
\* that operation, in both halves, whoever timed out or died meanwhile.
THEOREM OutputsAreRight == RuntimeSpec => []OutputRight
<1>1. RuntimeInv => OutputRight
  BY DEF RuntimeInv, LeanInv
<1> QED BY LeanInvariant, <1>1, PTL

\* A call that ended without its output leaves a process that the watchdog
\* (_watch_health) will end.
THEOREM NoLossIsQuiet == RuntimeSpec => []NoQuietLoss
<1>1. RuntimeInv => NoQuietLoss
  <2> SUFFICES ASSUME RuntimeInv, NEW r \in Rank, alive[r], pos[r] = Idle
               PROVE  Unhealthy(r) \/ written[r] = called[r]
    BY DEF NoQuietLoss
  <2>1. KernelInv(r)
    BY DEF RuntimeInv, LeanInv
  <2>2. Round(r) = "idle"
    BY DEF Round, Idle
  <2>3. CASE poison[r] = 0
    BY <2>1, <2>2, <2>3 DEF KernelInv
  <2>4. CASE poison[r] # 0
    BY <2>1, <2>4 DEF KernelInv, Unhealthy
  <2> QED BY <2>3, <2>4
<1> QED BY LeanInvariant, <1>1, PTL

\* The runtime exists on all ranks or on none: with the votes in front of it the
\* transport never writes into memory that a rank has released.
THEOREM StartIsCollective == RuntimeSpec => []AllOrNone
<1>1. RuntimeInv => AllOrNone
  BY StartAgrees DEF RuntimeInv, Agreed, AllOrNone
<1> QED BY LeanInvariant, <1>1, PTL

-----------------------------------------------------------------------------
(***************************************************************************)
(* Doorbells and lockstep.                                                 *)
(***************************************************************************)

\* The words go round at least two rounds of the slots.
LEMMA TwoRounds ==
  ASSUME scenario \in Scenarios PROVE 2 * scenario.slots <= SeqMod
<1>1. scenario.slots \in Positive /\ SeqMod \in Positive /\ scenario.slots < SeqMod
      /\ SeqMod % scenario.slots = 0
  BY ScenarioFacts
<1>2. PICK q \in Int : SeqMod = scenario.slots * q
  <2>1. \E q \in Int, t \in 0..(scenario.slots - 1) :
          SeqMod = scenario.slots * q + t /\ SeqMod % scenario.slots = t
    <3>1. SeqMod \in Int
      BY <1>1 DEF Positive
    <3> QED BY <1>1, <3>1, Division
  <2> QED BY <1>1, <2>1 DEF Positive
<1>3. CASE q >= 2
  BY <1>1, <1>2, <1>3 DEF Positive
<1>4. CASE q <= 1
  <2>1. scenario.slots * q <= scenario.slots
    BY <1>1, <1>4 DEF Positive
  <2> QED BY <1>1, <1>2, <2>1 DEF Positive
<1> QED BY <1>3, <1>4

\* Every operation that is rung and not done is where its word points to.
LEMMA SlotIntact ==
  ASSUME LeanInv, NEW r \in Rank, NEW x \in Exchange, NEW l \in Lane, alive[r],
         NEW s \in Int, Done(r, x, l) < s, s <= Rung(r, x)
  PROVE  /\ OpOf(r, WordOf(s)) = s
         /\ send[r][x][SlotOf(WordOf(s))] = Payload(r, x, s)
         /\ bytes[r][x][SlotOf(WordOf(s))] = s
<1>1. TransportTypeOK /\ LadderInv /\ ProxyInv(r, x) /\ SendInv(r, x)
  BY DEF LeanInv
<1>2. scenario \in Scenarios /\ scenario.slots \in Nat /\ SeqMod \in Nat
      /\ staged[r] \in Nat /\ paired[r] \in Nat /\ written[r] \in Nat /\ Peer(r, x) \in Rank
  BY <1>1, ScenarioFacts, Pairs DEF TransportTypeOK, Positive
<1>3. Taken(Peer(r, x), x) <= Done(r, x, l) /\ Rung(r, x) <= Done(r, x, l) + scenario.slots
      /\ Done(r, x, l) \in Int
  BY <1>1, ProxyRanges
<1>4. Taken(Peer(r, x), x) \in Nat /\ Rung(r, x) \in Nat
  BY <1>1, RungsFit
<1>5. 1 <= s /\ Rung(r, x) < s + scenario.slots
  BY <1>2, <1>3, <1>4
<1>6. send[r][x][SlotOf(WordOf(s))] = Payload(r, x, s) /\ bytes[r][x][SlotOf(WordOf(s))] = s
  <2>1. s \in 1..Rung(r, x)
    BY <1>4, <1>5
  <2> QED BY <1>1, <1>5, <2>1 DEF SendInv
<1>7. s <= staged[r] /\ staged[r] < s + SeqMod
  <2>1. written[r] <= paired[r] /\ paired[r] <= staged[r] /\ 2 * (staged[r] - written[r]) <= scenario.slots
    BY <1>1 DEF LadderInv, Ladder
  <2>2. Rung(r, x) = staged[r] \/ Rung(r, x) = paired[r]
    BY DEF Rung
  <2>3. 2 * scenario.slots <= SeqMod
    BY <1>2, TwoRounds
  <2>4. s <= staged[r]
    BY <1>2, <1>4, <2>1, <2>2
  <2>5. staged[r] <= Rung(r, x) + scenario.slots
    BY <1>2, <1>4, <2>1, <2>2
  <2>6. staged[r] < s + SeqMod
    BY <1>2, <1>4, <1>5, <2>3, <2>5
  <2> QED BY <2>4, <2>6
<1>8. OpOf(r, WordOf(s)) = s
  <2>1. (WordOf(staged[r]) + SeqMod - WordOf(s)) % SeqMod = staged[r] - s
    BY <1>2, <1>7, WordDistance
  <2> QED BY <1>2, <2>1 DEF OpOf
<1> QED BY <1>6, <1>8

\* proxy_main: a doorbell that holds only the newest sequence is enough.  What a
\* proxy that slept has skipped is still there to post and is never more than
\* the slots.
THEOREM DoorbellsSuffice == RuntimeSpec => []DoorbellSuffices
<1>1. RuntimeInv => SendSlotsIntact
  <2> SUFFICES ASSUME RuntimeInv, NEW r \in Rank, NEW x \in Exchange, alive[r]
               PROVE  /\ \A i \in DOMAIN Missed(r, x) :
                           LET w == Missed(r, x)[i]
                           IN /\ send[r][x][SlotOf(w)] = Payload(r, x, OpOf(r, w))
                              /\ bytes[r][x][SlotOf(w)] = OpOf(r, w)
                      /\ \A l \in Lane : \A i \in DOMAIN wire[r][x][l] :
                           LET w == wire[r][x][l][i].seq
                           IN /\ send[r][x][SlotOf(w)] = Payload(r, x, OpOf(r, w))
                              /\ bytes[r][x][SlotOf(w)] = OpOf(r, w)
                              /\ wire[r][x][l][i].len = OpOf(r, w)
    BY DEF SendSlotsIntact
  <2>1. LeanInv /\ TransportTypeOK /\ LadderInv /\ ProxyInv(r, x) /\ scenario \in Scenarios
    BY DEF RuntimeInv, LeanInv, TransportTypeOK
  <2>2. 1 \in Lane
    BY <2>1, FirstLane
  <2>3. ASSUME NEW i \in DOMAIN Missed(r, x)
        PROVE  LET w == Missed(r, x)[i]
               IN /\ send[r][x][SlotOf(w)] = Payload(r, x, OpOf(r, w))
                  /\ bytes[r][x][SlotOf(w)] = OpOf(r, w)
    <3>1. /\ Pending(r, x) \in Nat /\ Posted(r, x) \in Int /\ Done(r, x, 1) \in Int
          /\ Done(r, x, 1) <= Posted(r, x) /\ Rung(r, x) \in Nat
      BY <2>1, <2>2, ProxyRanges, RungsFit
    <3>2. i \in 1..Pending(r, x) /\ Missed(r, x)[i] = (last[r][x] + i) % SeqMod
      BY DEF Missed
    <3>3. last[r][x] = WordOf(Posted(r, x))
      BY <2>1 DEF ProxyInv
    <3>4. Missed(r, x)[i] = WordOf(Posted(r, x) + i)
      BY <2>1, <3>1, <3>2, <3>3, WordFacts
    <3>5. Posted(r, x) + i \in Int /\ Posted(r, x) + i <= Rung(r, x)
          /\ Done(r, x, 1) < Posted(r, x) + i
      BY <3>1, <3>2 DEF Posted
    <3> HIDE DEF Missed
    <3> QED BY <2>1, <2>2, <3>4, <3>5, SlotIntact
  <2>4. ASSUME NEW l \in Lane, NEW i \in DOMAIN wire[r][x][l]
        PROVE  LET w == wire[r][x][l][i].seq
               IN /\ send[r][x][SlotOf(w)] = Payload(r, x, OpOf(r, w))
                  /\ bytes[r][x][SlotOf(w)] = OpOf(r, w)
                  /\ wire[r][x][l][i].len = OpOf(r, w)
    <3>1. /\ Done(r, x, l) \in Int /\ Len(wire[r][x][l]) \in Nat
          /\ Posted(r, x) \in Int /\ Posted(r, x) <= Rung(r, x) /\ Rung(r, x) \in Nat
      BY <2>1, <2>4, ProxyRanges, RungsFit
    <3>2. i \in 1..Len(wire[r][x][l])
      BY <2>1, <2>4 DEF TransportTypeOK
    <3>3. /\ wire[r][x][l][i].seq = WordOf(Done(r, x, l) + i)
          /\ wire[r][x][l][i].len = Done(r, x, l) + i
      BY <2>1, <2>4, <3>2 DEF ProxyInv
    <3>4. Done(r, x, l) + i \in Int /\ Done(r, x, l) < Done(r, x, l) + i
          /\ Done(r, x, l) + i <= Rung(r, x)
      <4> DEFINE n == Len(wire[r][x][l])
                 p == Posted(r, x)
                 b == Rung(r, x)
      <4>1. Done(r, x, l) = p - n /\ n \in Nat /\ i \in 1..n /\ p \in Int /\ p <= b /\ b \in Nat
        BY <3>1, <3>2 DEF Done
      <4> HIDE DEF n, p
      <4> QED BY <4>1
    <3> QED BY <2>1, <2>4, <3>3, <3>4, SlotIntact
  <2> QED BY <2>3, <2>4
<1>2. RuntimeInv => ProxyFailsOnlyForPeer
  BY DEF RuntimeInv, LeanInv, HealthInv, ProxyFailsOnlyForPeer
<1> QED BY LeanInvariant, <1>1, <1>2, PTL DEF DoorbellSuffices

\* Staging is entering: the chunks of a call that are staged and not written are
\* at most two.
LEMMA StagingEnters ==
  ASSUME NEW r \in Rank, staged[r] < written[r] + 2,
         staged' = [staged EXCEPT ![r] = staged[r] + 1], UNCHANGED written
  PROVE  Abstract!Enter(r)
  BY DEF Abstract!Enter

\* Writing an output is leaving, and only once everybody has staged its part.
LEMMA WritingLeaves ==
  ASSUME LeanInv, LeanInv', NEW r \in Rank,
         written' = [written EXCEPT ![r] = written[r] + 1], UNCHANGED staged
  PROVE  Abstract!Leave(r)
<1>1. /\ staged \in [Rank -> Nat] /\ written \in [Rank -> Nat]
      /\ staged' \in [Rank -> Nat] /\ paired' \in [Rank -> Nat] /\ written' \in [Rank -> Nat]
  BY DEF LeanInv, TransportTypeOK
<1>2. written'[r] = written[r] + 1 /\ staged' = staged
  BY <1>1
<1>3. \A q \in Rank :
        /\ written'[q] <= paired'[q] /\ paired'[q] <= staged'[q]
        /\ paired'[q] <= staged'[Peer(q, 1)] /\ written'[q] <= paired'[Peer(q, 2)]
  BY DEF LeanInv, LadderInv, Ladder
<1>4. ASSUME NEW q \in Rank PROVE staged[q] > written[r]
  <2> DEFINE p == Peer(r, 1)
             a == Peer(r, 2)
             b == Peer(Peer(r, 2), 1)
  <2>1. p \in Rank /\ a \in Rank /\ b \in Rank /\ q \in {r, p, a, b}
    BY Pairs DEF Exchange
  <2>2. /\ written'[r] <= paired'[r] /\ paired'[r] <= staged'[r] /\ paired'[r] <= staged'[p]
        /\ written'[r] <= paired'[a] /\ paired'[a] <= staged'[a] /\ paired'[a] <= staged'[b]
    BY <1>3, <2>1
  <2>3. /\ paired'[r] \in Nat /\ paired'[a] \in Nat /\ written[r] \in Nat
        /\ staged[r] \in Nat /\ staged[p] \in Nat /\ staged[a] \in Nat /\ staged[b] \in Nat
    BY <1>1, <2>1
  <2> HIDE DEF p, a, b
  <2>4. staged[r] > written[r] /\ staged[p] > written[r] /\ staged[a] > written[r]
        /\ staged[b] > written[r]
    BY <1>2, <2>2, <2>3
  <2> QED BY <2>1, <2>4
<1>5. written[r] < staged[r]
  BY <1>1, <1>4
<1> QED BY <1>4, <1>5 DEF Abstract!Leave

\* A step of a kernel.
LEMMA KernelIsLockstep ==
  ASSUME LeanInv, LeanInv', NEW r \in Rank, Kernel(r)
  PROVE  Abstract!Enter(r) \/ Abstract!Leave(r) \/ UNCHANGED <<staged, written>>
<1>1. /\ TransportTypeOK /\ KernelInv(r) /\ staged \in [Rank -> Nat] /\ written \in [Rank -> Nat]
  BY DEF LeanInv, TransportTypeOK
<1>2. CASE Launch(r)
  <2>1. CASE poison[r] = 0
    <3>1. alive[r] /\ Round(r) = "idle"
      BY <1>2 DEF Launch, Round, Idle
    <3>2. staged[r] = called[r] /\ written[r] = called[r]
      BY <1>1, <2>1, <3>1 DEF KernelInv
    <3>3. staged' = [staged EXCEPT ![r] = called[r] + 1] /\ written' = written
      BY <1>2, <2>1 DEF Launch, StageChunk
    <3>4. staged[r] < written[r] + 2
      BY <1>1, <3>2
    <3> QED BY <3>1, <3>2, <3>3, <3>4, StagingEnters
  <2>2. CASE poison[r] # 0
    BY <1>2, <2>2 DEF Launch
  <2> QED BY <2>1, <2>2
<1>3. CASE Stage(r)
  <2>1. alive[r] /\ Round(r) = "stage"
    BY <1>3 DEF Stage
  <2>2. /\ staged[r] = called[r] - Chunks(r) + pos[r][2] - 1 /\ written[r] = called[r] - Chunks(r)
    BY <1>1, <2>1 DEF KernelInv
  <2>3. /\ Chunks(r) \in 1..2 /\ pos[r][2] \in 1..Chunks(r) /\ called[r] - Chunks(r) \in Nat
        /\ Op(r) = called[r] - Chunks(r) + pos[r][2]
    BY <1>1, <2>1, CallFacts
  <2>4. Op(r) = staged[r] + 1 /\ staged[r] < written[r] + 2
    <3> DEFINE b == called[r] - Chunks(r)
               c == pos[r][2]
               n == Chunks(r)
    <3>1. /\ b \in Nat /\ n \in 1..2 /\ c \in 1..n /\ Op(r) = b + c
          /\ staged[r] = b + c - 1 /\ written[r] = b
      BY <2>2, <2>3
    <3> HIDE DEF b, c, n
    <3> QED BY <3>1
  <2>5. staged' = [staged EXCEPT ![r] = Op(r)] /\ written' = written
    BY <1>3 DEF Stage, StageChunk
  <2> QED BY <2>1, <2>4, <2>5, StagingEnters
<1>4. CASE Pair(r)
  BY <1>4 DEF Pair
<1>5. CASE Join(r)
  <2>1. alive[r] /\ Round(r) = "join" /\ staged' = staged
    BY <1>5 DEF Join
  <2>2. CASE poison'[r] = 0
    <3>1. poison[r] = 0
      <4>1. Wait(r, 2) /\ scenario' = scenario /\ alive' = alive /\ failed' = failed /\ 2 \in Exchange
        BY <1>5 DEF Join, proxyVars, Exchange
      <4> QED BY <2>1, <2>2, <4>1, WaitFacts
    <3>2. /\ Op(r) = called[r] - Chunks(r) + pos[r][2] /\ called[r] - Chunks(r) \in Nat
          /\ Chunks(r) \in 1..2 /\ pos[r][2] \in 1..Chunks(r)
      BY <1>1, <2>1, CallFacts
    <3>3. written[r] = called[r] - Chunks(r) + pos[r][2] - 1
      BY <1>1, <2>1, <3>1 DEF KernelInv
    <3>4. Op(r) = written[r] + 1
      <4> DEFINE b == called[r] - Chunks(r)
                 c == pos[r][2]
      <4>1. b \in Nat /\ c \in Nat /\ Op(r) = b + c /\ written[r] = b + c - 1
        BY <3>2, <3>3
      <4> HIDE DEF b, c
      <4> QED BY <4>1
    <3>5. written' = [written EXCEPT ![r] = Op(r)]
      BY <1>5, <2>2 DEF Join
    <3> QED BY <2>1, <3>4, <3>5, WritingLeaves
  <2>3. CASE poison'[r] # 0
    BY <1>5, <2>3 DEF Join
  <2> QED BY <2>2, <2>3
<1> QED BY <1>2, <1>3, <1>4, <1>5 DEF Kernel

\* What the proxies, the NICs and the watchdog do leaves the histories.
LEMMA TransportStutters ==
  ASSUME NEW r \in Rank, Transport(r) PROVE UNCHANGED <<staged, written>>
<1>1. CASE Watchdog(r)
  BY <1>1 DEF Watchdog, historyVars
<1>2. ASSUME NEW x \in Exchange, Post(r, x) PROVE UNCHANGED <<staged, written>>
  BY <1>2 DEF Post, historyVars
<1>3. ASSUME NEW x \in Exchange, WriteFails(r, x) PROVE UNCHANGED <<staged, written>>
  BY <1>3 DEF WriteFails, historyVars
<1>4. ASSUME NEW x \in Exchange, NEW l \in Lane, Transfer(r, x, l) PROVE UNCHANGED <<staged, written>>
  BY <1>4 DEF Transfer, historyVars
<1> QED BY <1>1, <1>2, <1>3, <1>4 DEF Transport

\* The transport keeps the lockstep that its slot count relies on, step by step:
\* staging a chunk enters, writing its output leaves, all else is a stutter.
THEOREM LeanKeepsLockstep == RuntimeSpec => KeepsLockstep
<1>1. RuntimeInit => Abstract!LockstepInit
  BY DEF RuntimeInit, LeanInit, Abstract!LockstepInit
<1>2. RuntimeInv /\ RuntimeInv' /\ [RuntimeNext]_runtimeVars
        => [Abstract!LockstepNext]_(Abstract!lockstepVars)
  <2> SUFFICES ASSUME RuntimeInv, RuntimeInv', [RuntimeNext]_runtimeVars
               PROVE  Abstract!LockstepNext \/ UNCHANGED <<staged, written>>
    BY DEF Abstract!lockstepVars
  <2>1. LeanInv /\ LeanInv'
    BY DEF RuntimeInv
  <2>2. ASSUME NEW r \in Rank, Construct(r) PROVE UNCHANGED <<staged, written>>
    BY <2>2 DEF Construct, leanVars, historyVars
  <2>3. ASSUME NEW r \in Rank, Operate(r)
        PROVE  Abstract!LockstepNext \/ UNCHANGED <<staged, written>>
    <3>1. CASE Kernel(r)
      BY <2>1, <3>1, KernelIsLockstep DEF Abstract!LockstepNext
    <3>2. CASE Transport(r)
      BY <3>2, TransportStutters
    <3> QED BY <2>3, <3>1, <3>2 DEF Operate
  <2>4. CASE UNCHANGED runtimeVars
    BY <2>4 DEF runtimeVars, leanVars, historyVars
  <2> QED BY <2>2, <2>3, <2>4 DEF RuntimeNext
<1> QED BY LeanInvariant, <1>1, <1>2, PTL DEF RuntimeSpec, KeepsLockstep, Abstract!LockstepSpec
=============================================================================
