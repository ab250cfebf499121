--------------------------- MODULE LeanAllReduce ----------------------------
(***************************************************************************)
(* The TP4 lean all-reduce: one kernel per call, two pairwise exchanges,   *)
(* a proxy thread per exchange that turns doorbells into RDMA writes.      *)
(*                                                                         *)
(* Exchange 1 joins ranks 0-1 and 2-3, exchange 2 joins 0-3 and 1-2.  A    *)
(* call is one or two chunks; each chunk is an operation with a sequence   *)
(* number of its own, and the sequence number selects the slot.  There are *)
(* no acknowledgements: what keeps a slot from being written too early is  *)
(* only that a result needs everybody's data.                              *)
(*                                                                         *)
(* Data are sets of terms <<op, rank>>, one set per lane (half a message   *)
(* travels on each of two queue pairs): a sum is a union, the right result *)
(* of op is {op} \X Rank in both halves, and the order of the additions is *)
(* left out.  The blocks of a kernel are one: its steps are those of the   *)
(* last block to arrive, which is the one that publishes.                  *)
(***************************************************************************)
EXTENDS Integers, Sequences, World

CONSTANTS
  Scenarios,    \* what a behaviour may be about, see ScenarioAssumption
  SeqMod        \* sequence numbers are words: 2^32 in the code

\* plan is the chunks of each call, the same on every rank; completed counts
\* the operations before the model starts; late bounds how often a wait gives
\* up while the write is still coming; lanes are the queue pairs of an exchange
\* (two in the code), slots its ROCE_SLOTS.  Two operations of one slot have
\* words a multiple of slots apart, also across the wrap.  A wait that gave up
\* at the one operation in SeqMod whose word is 0 would store the healthy word 0
\* as its error: a scenario has such an operation or late waits, not both.
ASSUME ScenarioAssumption ==
  \A s \in Scenarios :
    /\ s.plan \in Seq(1..2) /\ s.completed \in Nat /\ s.late \in Nat
    /\ s.lanes \in Nat \ {0} /\ s.slots \in Nat \ {0}
    /\ \A i \in 1..Len(s.plan) : s.slots >= 2 * s.plan[i]
    /\ SeqMod \in Nat /\ s.slots < SeqMod /\ SeqMod % s.slots = 0
    /\ s.late = 0 \/ s.completed + 2 * Len(s.plan) < SeqMod

Exchange == {1, 2}

Peer(r, x) == IF x = 2 THEN 3 - r ELSE IF r % 2 = 0 THEN r + 1 ELSE r - 1

VARIABLES
  scenario,
  late,         \* timeouts left that the peer has no part in
  launch,       \* calls started
  pos,          \* where the kernel is, <<round, chunk>>
  epoch,        \* device counter: the last completed operation
  send, bytes,  \* send slots of each exchange and the operation whose length
                \* the slot's byte count is
  bell,         \* doorbell word of each exchange
  last,         \* last sequence the proxy has posted
  wire,         \* posted writes that the NIC has not done, per lane
  recv, flag,   \* receive slots and their flags, per lane
  poison,       \* device word, 0 when healthy
  error,        \* control word of each exchange, 0 when healthy
  failed,       \* the proxy has stopped on an error
  alive,        \* the worker process
  called,       \* history: the last operation of the calls launched
  staged,       \* history: the last operation each rank has staged
  paired,       \* history: the last operation each rank has published the sum of
  written,      \* history: the last operation each rank has the output of
  output        \* history: that output

kernelVars == <<launch, pos, epoch>>
historyVars == <<called, staged, paired, written, output>>
wordVars == <<late, poison, error>>
slotVars == <<send, bytes, bell>>
proxyVars == <<last, wire, failed>>
recvVars == <<recv, flag>>
leanVars ==
  <<scenario, kernelVars, historyVars, wordVars, slotVars, proxyVars, recvVars, alive>>

Lane == 1..scenario.lanes
Plan == scenario.plan
WordOf(op) == (scenario.completed + op) % SeqMod
\* Mutant of SlotOf: a mask of half the slots.
SlotOfHalf(word) == word % (scenario.slots \div 2)
SlotOf(word) == word % scenario.slots
Slot == 0..(scenario.slots - 1)

Idle == <<"idle", 0>>

\* Operations are counted from the start of the model: the last one before
\* call n, and those of all calls.
OpsBefore(n) ==
  LET before[i \in 1..n] == IF i = 1 THEN 0 ELSE before[i - 1] + Plan[i - 1]
  IN before[n]
Ops == 1..OpsBefore(Len(Plan) + 1)

Nothing == [l \in Lane |-> {}]
Term(s, r) == [l \in Lane |-> {<<s, r>>}]
Plus(a, b) == [l \in Lane |-> a[l] \union b[l]]
FullSum(s) == [l \in Lane |-> {s} \X Rank]

\* What the flags hold after the completed operations: the word of the latest
\* one in the slot, if there was any.
WordIn(slot) ==
  LET s == scenario.completed - ((scenario.completed + scenario.slots - slot) % scenario.slots)
  IN IF s >= 1 THEN s % SeqMod ELSE 0

LeanInit ==
  /\ scenario \in Scenarios
  /\ late = scenario.late
  /\ launch = [r \in Rank |-> 0]
  /\ pos = [r \in Rank |-> Idle]
  /\ epoch = [r \in Rank |-> WordOf(0)]
  /\ send = [r \in Rank |-> [x \in Exchange |-> [k \in Slot |-> Nothing]]]
  /\ bytes = [r \in Rank |-> [x \in Exchange |-> [k \in Slot |-> 0]]]
  /\ bell = [r \in Rank |-> [x \in Exchange |-> WordOf(0)]]
  /\ last = bell
  /\ wire = [r \in Rank |-> [x \in Exchange |-> [l \in Lane |-> <<>>]]]
  /\ recv = send
  /\ flag = [r \in Rank |-> [x \in Exchange |-> [k \in Slot |-> [l \in Lane |-> WordIn(k)]]]]
  /\ poison = [r \in Rank |-> 0]
  /\ error = [r \in Rank |-> [x \in Exchange |-> 0]]
  /\ failed = [r \in Rank |-> [x \in Exchange |-> FALSE]]
  /\ alive = [r \in Rank |-> TRUE]
  /\ called = [r \in Rank |-> 0]
  /\ staged = [r \in Rank |-> 0]
  /\ paired = [r \in Rank |-> 0]
  /\ written = [r \in Rank |-> 0]
  /\ output = [r \in Rank |-> Nothing]

-----------------------------------------------------------------------------
(***************************************************************************)
(* The kernel.                                                             *)
(***************************************************************************)
Chunks(r) == Plan[launch[r]]
Round(r) == pos[r][1]
\* The operation of the current chunk, and its sequence number as the kernel
\* computes it from the epoch.
Op(r) == called[r] - Chunks(r) + pos[r][2]
Sequence(r) == (epoch[r] + pos[r][2]) % SeqMod

\* The place after the current one in a launch of n chunks.
After(round, c, n) ==
  IF c < n THEN <<round, c + 1>>
  ELSE CASE round = "stage" -> <<"pair", 1>>
         [] round = "pair" -> <<"join", 1>>
         [] round = "join" -> Idle

\* The last block of a chunk publishes slot x: byte count, then the doorbell,
\* which holds only the newest sequence number.
Publish(r, x, op, seq, data) ==
  LET k == SlotOf(seq)
  IN /\ send' = [send EXCEPT ![r][x][k] = data]
     /\ bytes' = [bytes EXCEPT ![r][x][k] = op]
     /\ bell' = [bell EXCEPT ![r][x] = seq]

\* Round 1: the input of each chunk goes to the first neighbour.
StageChunk(r, op, seq) ==
  /\ Publish(r, 1, op, seq, Term(op, r))
  /\ staged' = [staged EXCEPT ![r] = op]

\* A call is launched, or a captured graph replays it: the kernel reads the
\* epoch and stages its first chunk.  A poisoned kernel does nothing.
Launch(r) ==
  LET n == launch[r] + 1
  IN
  /\ alive[r]
  /\ pos[r] = Idle
  /\ n <= Len(Plan)
  /\ launch' = [launch EXCEPT ![r] = n]
  /\ called' = [called EXCEPT ![r] = @ + Plan[n]]
  /\ IF poison[r] = 0
     THEN /\ StageChunk(r, called[r] + 1, (epoch[r] + 1) % SeqMod)
          /\ pos' = [pos EXCEPT ![r] = After("stage", 1, Plan[n])]
     ELSE UNCHANGED <<pos, slotVars, staged>>
  /\ UNCHANGED <<scenario, epoch, paired, written, output, wordVars, proxyVars, recvVars, alive>>

\* The rest of round 1.
Stage(r) ==
  /\ alive[r]
  /\ Round(r) = "stage"
  /\ StageChunk(r, Op(r), Sequence(r))
  /\ pos' = [pos EXCEPT ![r] = After("stage", @[2], Chunks(r))]
  /\ UNCHANGED <<scenario, launch, epoch, called, paired, written, output, wordVars,
                 proxyVars, recvVars, alive>>

\* Mutants of Arrived: one half is enough; any earlier flag will do.
ArrivedHalf(r, x) ==
  \E l \in Lane : flag[r][x][SlotOf(Sequence(r))][l] = Sequence(r)
ArrivedOnce(r, x) ==
  \A l \in Lane : flag[r][x][SlotOf(Sequence(r))][l] # 0

\* Both halves carry the flag of this sequence.
Arrived(r, x) ==
  \A l \in Lane : flag[r][x][SlotOf(Sequence(r))][l] = Sequence(r)

NoError(r) == \A x \in Exchange : error[r][x] = 0

\* The peer will not answer: its process is gone or its kernel has given up.
Unanswered(r, x) == ~alive[Peer(r, x)] \/ ~NoError(Peer(r, x))

\* A wait ends when both flags are up, or gives up after spin_limit reads: the
\* error and poison words take the sequence number.  The limit is far above the
\* time of a write, so a wait gives up on a live peer only `late` times; a
\* relabelling of the ranks keeps both exchanges and takes any rank to 0, where
\* these timeouts happen.
Wait(r, x) ==
  \/ Arrived(r, x) /\ UNCHANGED wordVars
  \/ /\ ~Arrived(r, x)
     /\ IF Unanswered(r, x) THEN UNCHANGED late
        ELSE r = 0 /\ late > 0 /\ late' = late - 1
     /\ error' = [error EXCEPT ![r][x] = Sequence(r)]
     /\ poison' = [poison EXCEPT ![r] = Sequence(r)]

\* Round 2: the pair sum goes to the second neighbour, unless exchange 1 has
\* failed.
Pair(r) ==
  LET sum == Plus(Term(Op(r), r), recv[r][1][SlotOf(Sequence(r))])
  IN
  /\ alive[r]
  /\ Round(r) = "pair"
  /\ Wait(r, 1)
  /\ IF poison'[r] = 0 /\ error'[r][1] = 0
     THEN /\ Publish(r, 2, Op(r), Sequence(r), sum)
          /\ paired' = [paired EXCEPT ![r] = Op(r)]
     ELSE UNCHANGED <<slotVars, paired>>
  /\ pos' = [pos EXCEPT ![r] = After("pair", @[2], Chunks(r))]
  /\ UNCHANGED <<scenario, launch, epoch, called, staged, written, output, proxyVars,
                 recvVars, alive>>

\* The last block of the grid commits the epoch when neither exchange has an
\* error.
Commit(r) ==
  epoch' = [epoch EXCEPT ![r] =
              IF \A x \in Exchange : error'[r][x] = 0 THEN (@ + Chunks(r)) % SeqMod ELSE @]

\* Round 3: the two pair sums are the output of the chunk.
Join(r) ==
  LET k == SlotOf(Sequence(r))
  IN
  /\ alive[r]
  /\ Round(r) = "join"
  /\ Wait(r, 2)
  /\ IF poison'[r] = 0
     THEN /\ written' = [written EXCEPT ![r] = Op(r)]
          /\ output' = [output EXCEPT ![r] = Plus(send[r][2][k], recv[r][2][k])]
     ELSE UNCHANGED <<written, output>>
  /\ pos' = [pos EXCEPT ![r] = After("join", @[2], Chunks(r))]
  /\ IF pos'[r] = Idle THEN Commit(r) ELSE UNCHANGED epoch
  /\ UNCHANGED <<scenario, launch, called, staged, paired, slotVars, proxyVars, recvVars, alive>>

-----------------------------------------------------------------------------
(***************************************************************************)
(* Proxy, NIC and watchdog.                                                *)
(***************************************************************************)
Pending(r, x) == (bell[r][x] + SeqMod - last[r][x]) % SeqMod

\* Mutant of Missed: only the newest doorbell counts.
MissedNewest(r, x) == IF Pending(r, x) = 0 THEN <<>> ELSE <<bell[r][x]>>

\* The sequence numbers a proxy has missed, in order.
Missed(r, x) == [i \in 1..Pending(r, x) |-> (last[r][x] + i) % SeqMod]

\* The write of a sequence number, with the byte count of its slot.
WriteOf(r, x, seq) == [seq |-> seq, len |-> bytes[r][x][SlotOf(seq)]]

\* Mutant of Overrun: the last slot is not used.
OverrunEarly(r, x) == Pending(r, x) >= scenario.slots

\* More doorbells than slots are pending.
Overrun(r, x) == Pending(r, x) > scenario.slots

\* The proxy thread sees a new doorbell and posts every operation it missed:
\* on each lane its data, then the flag.
Post(r, x) ==
  LET writes == [i \in DOMAIN Missed(r, x) |-> WriteOf(r, x, Missed(r, x)[i])]
  IN
  /\ alive[r]
  /\ ~failed[r][x]
  /\ Pending(r, x) > 0
  /\ IF Overrun(r, x)
     THEN failed' = [failed EXCEPT ![r][x] = TRUE] /\ UNCHANGED <<last, wire>>
     ELSE /\ last' = [last EXCEPT ![r][x] = bell[r][x]]
          /\ wire' = [wire EXCEPT ![r][x] = [l \in Lane |-> @[l] \o writes]]
          /\ UNCHANGED failed
  /\ UNCHANGED <<scenario, kernelVars, historyVars, wordVars, slotVars, recvVars, alive>>

\* The NIC performs the oldest write of a lane: it reads the send slot now.
Transfer(r, x, l) ==
  LET w == Head(wire[r][x][l])
      k == SlotOf(w.seq)
      p == Peer(r, x)
  IN
  /\ alive[r] /\ alive[p]
  /\ wire[r][x][l] # <<>>
  /\ wire' = [wire EXCEPT ![r][x][l] = Tail(@)]
  /\ recv' = [recv EXCEPT ![p][x][k][l] = send[r][x][k][l]]
  /\ flag' = [flag EXCEPT ![p][x][k][l] = w.seq]
  /\ UNCHANGED <<scenario, kernelVars, historyVars, wordVars, slotVars, last, failed, alive>>

\* The peer is gone: the write completes with an error, which stops the proxy.
WriteFails(r, x) ==
  /\ alive[r] /\ ~alive[Peer(r, x)]
  /\ ~failed[r][x]
  /\ \E l \in Lane : wire[r][x][l] # <<>>
  /\ failed' = [failed EXCEPT ![r][x] = TRUE]
  /\ UNCHANGED <<scenario, kernelVars, historyVars, wordVars, slotVars, last, wire, recvVars, alive>>

\* Mutant of Unhealthy: a timed-out wait is not looked at.
UnhealthyProxy(r) == \E x \in Exchange : failed[r][x]

Unhealthy(r) == (\E x \in Exchange : failed[r][x]) \/ ~NoError(r)

\* _watch_health: a failed proxy or a timed-out wait ends the process, and its
\* memory, queue pairs and counters with it.
Watchdog(r) ==
  LET Gone(x) == [k \in Slot |-> Nothing]
  IN
  /\ alive[r]
  /\ Unhealthy(r)
  /\ alive' = [alive EXCEPT ![r] = FALSE]
  /\ launch' = [launch EXCEPT ![r] = 0]
  /\ pos' = [pos EXCEPT ![r] = Idle]
  /\ epoch' = [epoch EXCEPT ![r] = 0]
  /\ poison' = [poison EXCEPT ![r] = 0]
  /\ error' = [error EXCEPT ![r] = [x \in Exchange |-> 0]]
  /\ send' = [send EXCEPT ![r] = [x \in Exchange |-> Gone(x)]]
  /\ bytes' = [bytes EXCEPT ![r] = [x \in Exchange |-> [k \in Slot |-> 0]]]
  /\ bell' = [bell EXCEPT ![r] = [x \in Exchange |-> 0]]
  /\ last' = [last EXCEPT ![r] = [x \in Exchange |-> 0]]
  /\ wire' = [wire EXCEPT ![r] = [x \in Exchange |-> [l \in Lane |-> <<>>]]]
  /\ failed' = [failed EXCEPT ![r] = [x \in Exchange |-> FALSE]]
  /\ recv' = [recv EXCEPT ![r] = [x \in Exchange |-> Gone(x)]]
  /\ flag' = [flag EXCEPT ![r] = [x \in Exchange |-> [k \in Slot |-> [l \in Lane |-> 0]]]]
  /\ UNCHANGED <<scenario, late, historyVars>>

Kernel(r) == Launch(r) \/ Stage(r) \/ Pair(r) \/ Join(r)

Transport(r) ==
  \/ Watchdog(r)
  \/ \E x \in Exchange :
       \/ Post(r, x)
       \/ WriteFails(r, x)
       \/ \E l \in Lane : Transfer(r, x, l)
=============================================================================
