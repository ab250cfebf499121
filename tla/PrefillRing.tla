---------------------------- MODULE PrefillRing -----------------------------
(***************************************************************************)
(* The prefill ring at work: on each rank a kernel that takes the items of *)
(* the current call in order, a proxy that posts the steps of each         *)
(* direction in order, and the NIC that does the posted writes.            *)
(*                                                                         *)
(* A receive area belongs to a call parity and a direction, and nothing    *)
(* acknowledges its use.  `entered` and `left` of Lockstep count the calls *)
(* whose kernel has begun and has returned.                                *)
(*                                                                         *)
(* A chunk's data name their call, block and chunk and the ranks summed so *)
(* far, as a sequence of sets: BF16 addition commutes but does not         *)
(* associate.  The parts of a chunk are one.                               *)
(***************************************************************************)
EXTENDS RingPlan, Lockstep, World, FiniteSets

CONSTANTS
  Scenarios    \* [calls, maxRows, crMax, nslot, grid, late, free], see below

\* calls holds the [kind, rows] of each call, maxRows and crMax the limits the
\* layout is made for, nslot the staging slots of a direction, grid the CTAs;
\* late bounds the waits that time out while the write is still coming.  Ranks
\* that are not free take turns, see Turn.
ASSUME ScenarioAssumption ==
  \A s \in Scenarios :
    /\ s.calls \in Seq([kind : {"RS", "AG"}, rows : Nat])
    /\ s.maxRows \in Nat /\ s.crMax \in Nat \ {0}
    /\ \A n \in 1..Len(s.calls) :
         s.calls[n].rows >= 4 /\ s.calls[n].rows % 4 = 0 /\ s.calls[n].rows <= s.maxRows
    /\ s.nslot \in Nat /\ s.nslot >= 2 /\ s.grid \in Nat \ {0} /\ s.late \in Nat
    /\ s.free \subseteq Rank
ASSUME PartyAssumption == Party = Rank

VARIABLES
  scenario,
  late,       \* timeouts left that no failure explains
  done,       \* items of the current call that have been worked
  base,       \* places of each launched call's first chunks in the staged
              \* sequences, and of the next call's
  slot,       \* staging slots, per direction
  ready,      \* ready words of the staging slots: staged index + 1
  post,       \* where the proxy is, per direction: [call, step]
  nic,        \* where the NIC is
  recv, flag, \* receive slots and flags, per parity and direction
  out,        \* output of the current call by block and chunk
  poison,     \* word that a timed-out wait sets
  failed,     \* the proxy has stopped on an error
  alive       \* the worker process

kernelVars == <<entered, left, done, base, slot, ready, out>>
wireVars == <<nic, recv, flag>>
healthVars == <<late, poison, failed, alive>>
ringVars == <<scenario, kernelVars, post, wireVars, healthVars>>

-----------------------------------------------------------------------------
\* The plans and merged work lists of the calls.
Shapes ==
  UNION {{<<s.calls[n], s.crMax>> : n \in 1..Len(s.calls)} : s \in Scenarios}
PlanOf == [t \in Shapes |-> Geometry(t[1].kind, t[1].rows, t[2])]
ListOf == [t \in Shapes |-> [i \in 0..(Items(PlanOf[t]) - 1) |-> ItemAt(PlanOf[t], i)]]
SendsOf ==
  [t \in Shapes |-> [d \in Dir |->
     [s \in 0..(Steps(PlanOf[t], d) - 1) |-> SendStep(PlanOf[t], d, s)]]]

Calls == Len(scenario.calls)
Shape(n) == <<scenario.calls[n], scenario.crMax>>
G(n) == PlanOf[Shape(n)]
Item(n, i) == ListOf[Shape(n)][i]
Send(n, d, s) == SendsOf[Shape(n)][d][s]

\* Mutant of Parity: one receive area for all calls.
ParityOne(n) == 1

Parity(n) == n % 2

Neighbour(r, d) == IF d = Fwd THEN (r + 1) % 4 ELSE (r + 3) % 4

\* A cursor passes to the next call after the last step.
Advance(n, d, s) ==
  IF s + 1 < Steps(G(n), d) THEN [call |-> n, step |-> s + 1] ELSE [call |-> n + 1, step |-> 0]

\* Staged chunks of direction d whose write has completed.
SendDone(r, d) ==
  LET at == nic[r][d]
  IN IF at.call > Calls THEN base[r][at.call][d]
     ELSE base[r][at.call][d] +
            (IF at.step < Staged(G(at.call), d) THEN at.step ELSE Staged(G(at.call), d))

-----------------------------------------------------------------------------
\* Data.
Empty == [call |-> 0, block |-> 0, chunk |-> 0, sum |-> <<>>]
Own(r, n, block, chunk) == [call |-> n, block |-> block, chunk |-> chunk, sum |-> <<{r}>>]

\* Adds b to the partial sum a: chunks that do not belong together make garbage.
Add(a, b) ==
  IF a.call # b.call \/ a.block # b.block \/ a.chunk # b.chunk \/ a = Empty THEN Empty
  ELSE [a EXCEPT !.sum =
          IF Len(a.sum) = 1 /\ Cardinality(a.sum[1]) = 1 THEN <<a.sum[1] \union b.sum[1]>>
          ELSE Append(a.sum, b.sum[1])]

\* NCCL's ring: ((x[j+1] + x[j+2]) + x[j+3]) + x[j].
NcclSum(j) == <<{(j + 1) % 4, (j + 2) % 4}, {(j + 3) % 4}, {j}>>

\* What chunk k of a block of rank r's result must be.
Right(n, block, k) ==
  [call |-> n, block |-> block, chunk |-> k,
   sum |-> IF G(n).kind = "RS" THEN NcclSum(block) ELSE <<{block}>>]

-----------------------------------------------------------------------------
RingInit ==
  /\ LockstepInit
  /\ scenario \in Scenarios
  /\ late = scenario.late
  /\ done = [r \in Rank |-> {}]
  /\ base = [r \in Rank |-> <<[d \in Dir |-> 0]>>]
  /\ slot = [r \in Rank |-> [d \in Dir |-> [k \in 0..(scenario.nslot - 1) |-> Empty]]]
  /\ ready = [r \in Rank |-> [d \in Dir |-> [k \in 0..(scenario.nslot - 1) |-> 0]]]
  /\ post = [r \in Rank |-> [d \in Dir |-> [call |-> 1, step |-> 0]]]
  /\ nic = post
  /\ LET last == StepsCap(scenario.maxRows, scenario.crMax) - 1
     IN /\ recv = [r \in Rank |-> [p \in {0, 1} |-> [d \in Dir |-> [s \in 0..last |-> Empty]]]]
        /\ flag = [r \in Rank |-> [p \in {0, 1} |-> [d \in Dir |-> [s \in 0..last |-> 0]]]]
  /\ out = [r \in Rank |-> <<>>]
  /\ poison = [r \in Rank |-> 0]
  /\ failed = [r \in Rank |-> FALSE]
  /\ alive = [r \in Rank |-> TRUE]

Idle(r) == entered[r] = left[r]

\* prb_launch queues the call for the proxy and enqueues its kernel, which
\* begins when the one before has returned.  Poisoned or failed runtimes refuse.
CanBegin(r) ==
  /\ alive[r] /\ poison[r] = 0 /\ ~failed[r]
  /\ Idle(r) /\ entered[r] < Calls

Begin(r) ==
  /\ CanBegin(r)
  /\ entered' = [entered EXCEPT ![r] = @ + 1]
  /\ done' = [done EXCEPT ![r] = {}]
  /\ base' = [base EXCEPT ![r] =
                Append(@, [d \in Dir |-> @[entered'[r]][d] + Staged(G(entered'[r]), d)])]
  /\ out' = [out EXCEPT ![r] = <<>>]
  /\ UNCHANGED <<scenario, left, slot, ready, post, wireVars, healthVars>>

Arrived(r, n, dep) == flag[r][Parity(n)][dep[1]][dep[2]] = n

\* The number of a staging item's chunk in the staged sequence.
StageIndex(r, n, it) == base[r][n][DirOf(it.kind)] + it.j

\* Mutant of SlotFree: off by one.
SlotFreeEarly(r, n, it) ==
  LET gi == StageIndex(r, n, it)
  IN gi >= scenario.nslot => SendDone(r, DirOf(it.kind)) >= gi - scenario.nslot

\* The chunk that was in its slot has been sent.
SlotFree(r, n, it) ==
  LET gi == StageIndex(r, n, it)
  IN gi >= scenario.nslot => SendDone(r, DirOf(it.kind)) >= gi - scenario.nslot + 1

\* CTAs take items in order and each works on one.
InHand(r) ==
  {i \in DOMAIN ListOf[Shape(entered[r])] \ done[r] :
     Cardinality(0..(i - 1) \ done[r]) < scenario.grid}

\* The waits of an item are over.
Workable(r, i) ==
  LET n == entered[r]
      it == Item(n, i)
  IN /\ \A dep \in ItemDeps(G(n), it.kind, it.j) : Arrived(r, n, dep)
     /\ Staging(it.kind) => SlotFree(r, n, it)

CanWork(r, i) ==
  /\ alive[r] /\ poison[r] = 0 /\ ~Idle(r)
  /\ i \in InHand(r)
  /\ Workable(r, i)

\* The receive slot that an item reads.
Incoming(r, n, dep) == recv[r][Parity(n)][dep[1]][dep[2]]

\* What a staging item puts into its slot: the rank's own data, or the sum with what came.
Outgoing(r, n, it) ==
  LET d == DirOf(it.kind)
      st == Send(n, d, it.j)
      own == Own(r, n, (r + 4 + st.blk) % 4, st.chunk)
  IN IF st.src = "red" THEN Add(Incoming(r, n, <<d, st.dep>>), own) ELSE own

\* What an output item writes.
Output(r, n, it) ==
  LET g == G(n)
      own == Own(r, n, r, OutChunk(g, it.kind, it.j)[2])
  IN CASE it.kind = "outA" -> Add(Incoming(r, n, <<Fwd, 2 * g.na + g.nb + it.j>>), own)
       [] it.kind = "outB" ->
            Add(Add(Incoming(r, n, <<Bwd, g.nb + it.j>>),
                    Incoming(r, n, <<Fwd, FbStep(g, it.j)>>)), own)
       [] OTHER -> Incoming(r, n, CHOOSE dep \in ItemDeps(g, it.kind, it.j) : TRUE)

Place(r, g, it) ==
  LET c == OutChunk(g, it.kind, it.j) IN <<(r + 4 + c[1]) % 4, c[2]>>

\* The outputs when v is written to place c of rank r's.
Written(r, c, v) ==
  [out EXCEPT ![r] = [x \in DOMAIN @ \union {c} |-> IF x = c THEN v ELSE @[x]]]

\* A CTA works on item i.  Staging publishes the ready word; in an all-gather
\* the forward stream also copies the rank's own block.  The last item of the
\* list ends the kernel.
WorkItem(r, i) ==
  LET n == entered[r]
      it == Item(n, i)
      d == DirOf(it.kind)
      k == StageIndex(r, n, it) % scenario.nslot
      own == Outgoing(r, n, it)
  IN
  /\ CanWork(r, i)
  /\ done' = [done EXCEPT ![r] = @ \union {i}]
  /\ IF Staging(it.kind)
     THEN /\ slot' = [slot EXCEPT ![r][d][k] = own]
          /\ ready' = [ready EXCEPT ![r][d][k] = StageIndex(r, n, it) + 1]
          /\ out' = IF G(n).kind = "AG" /\ d = Fwd
                    THEN Written(r, <<r, it.j>>, own) ELSE out
     ELSE /\ out' = Written(r, Place(r, G(n), it), Output(r, n, it))
          /\ UNCHANGED <<slot, ready>>
  /\ left' = [left EXCEPT ![r] =
                IF Cardinality(done'[r]) = Items(G(n)) THEN n ELSE @]
  /\ UNCHANGED <<scenario, entered, base, post, wireVars, healthVars>>

-----------------------------------------------------------------------------
\* Mutant of CanPost: a relay does not wait for its chunk.
CanPostBlind(r, d) ==
  LET at == post[r][d]
  IN
  /\ alive[r] /\ ~failed[r]
  /\ at.call <= entered[r]
  /\ IF at.step < Staged(G(at.call), d)
     THEN LET gi == base[r][at.call][d] + at.step
          IN ready[r][d][gi % scenario.nslot] = gi + 1
     ELSE TRUE

\* The proxy's next step of direction d has its data: a staged step its ready
\* word, a relay the flag of the incoming chunk.
CanPost(r, d) ==
  LET at == post[r][d]
  IN
  /\ alive[r] /\ ~failed[r]
  /\ at.call <= entered[r]
  /\ IF at.step < Staged(G(at.call), d)
     THEN LET gi == base[r][at.call][d] + at.step
          IN ready[r][d][gi % scenario.nslot] = gi + 1
     ELSE Arrived(r, at.call, <<d, Send(at.call, d, at.step).dep>>)

\* proxy_main posts it.
Post(r, d) ==
  /\ CanPost(r, d)
  /\ post' = [post EXCEPT ![r][d] = Advance(@.call, d, @.step)]
  /\ UNCHANGED <<scenario, kernelVars, wireVars, healthVars>>

CanTransfer(r, d) ==
  /\ alive[r] /\ alive[Neighbour(r, d)]
  /\ nic[r][d] # post[r][d]

\* The NIC does the oldest posted write of direction d: it reads the staging
\* slot, or the receive slot of a relay, now.  The completion frees the slot.
Transfer(r, d) ==
  LET at == nic[r][d]
      n == at.call
      p == Neighbour(r, d)
      data == IF at.step < Staged(G(n), d)
              THEN slot[r][d][(base[r][n][d] + at.step) % scenario.nslot]
              ELSE Incoming(r, n, <<d, Send(n, d, at.step).dep>>)
  IN
  /\ CanTransfer(r, d)
  /\ recv' = [recv EXCEPT ![p][Parity(n)][d][at.step] = data]
  /\ flag' = [flag EXCEPT ![p][Parity(n)][d][at.step] = n]
  /\ nic' = [nic EXCEPT ![r][d] = Advance(n, d, at.step)]
  /\ UNCHANGED <<scenario, kernelVars, post, healthVars>>

\* The neighbour is gone: the completion carries an error.
TransferFails(r, d) ==
  /\ alive[r] /\ ~failed[r] /\ ~alive[Neighbour(r, d)]
  /\ nic[r][d] # post[r][d]
  /\ failed' = [failed EXCEPT ![r] = TRUE]
  /\ UNCHANGED <<scenario, kernelVars, post, wireVars, late, poison, alive>>

\* A wait of the kernel gives up after timeout_ns and poisons the runtime.  The
\* timeout is minutes: it comes while all ranks run only `late` times, on rank 0
\* as all ranks are alike.
GiveUp(r) ==
  /\ alive[r] /\ poison[r] = 0 /\ ~Idle(r)
  /\ \E i \in InHand(r) : ~Workable(r, i)
  /\ IF \E q \in Rank : poison[q] # 0 \/ (~alive[q] /\ left[q] < Calls)
     THEN UNCHANGED late
     ELSE r = 0 /\ late > 0 /\ late' = late - 1
  /\ poison' = [poison EXCEPT ![r] = entered[r]]
  /\ UNCHANGED <<scenario, kernelVars, post, wireVars, failed, alive>>

\* _watch: a failed proxy or a poisoned runtime ends the process.
Watch(r) ==
  /\ alive[r] /\ (failed[r] \/ poison[r] # 0)
  /\ alive' = [alive EXCEPT ![r] = FALSE]
  /\ UNCHANGED <<scenario, kernelVars, post, wireVars, late, poison, failed>>

\* Mutant of Quiet: all steps are posted.
QuietPosted(r) == \A d \in Dir : post[r][d] = [call |-> Calls + 1, step |-> 0]

\* Every step of every call is posted and its write is complete.
Quiet(r) ==
  \A d \in Dir : post[r][d] = [call |-> Calls + 1, step |-> 0] /\ nic[r][d] = post[r][d]

\* close() after the last call: the proxy stops when it is quiet, or after two
\* seconds, which a transport that works does not need.
CanStop(r) ==
  /\ alive[r] /\ poison[r] = 0 /\ ~failed[r]
  /\ left[r] = Calls
  /\ Quiet(r) \/ \E q \in Rank : left[q] < Calls /\ ~alive[q]

Stop(r) ==
  /\ CanStop(r)
  /\ alive' = [alive EXCEPT ![r] = FALSE]
  /\ UNCHANGED <<scenario, kernelVars, post, wireVars, late, poison, failed>>

-----------------------------------------------------------------------------
\* The steps of rank r that are possible, the kernel's before the proxy's
\* before the NIC's.
Moves(r) ==
  LET items == IF Idle(r) THEN {} ELSE {i \in InHand(r) : CanWork(r, i)}
  IN (IF CanBegin(r) THEN {<<0, 0>>} ELSE {})
     \union {<<1, i>> : i \in items}
     \union {<<2, d>> : d \in {d \in Dir : CanPost(r, d)}}
     \union {<<3, d>> : d \in {d \in Dir : CanTransfer(r, d)}}
     \union (IF CanStop(r) THEN {<<4, 0>>} ELSE {})

\* The schedules that are examined: a free rank takes any step at any time, of
\* the others the first that can takes its first.
Turn(r) ==
  \/ r \in scenario.free
  \/ \A q \in 0..(r - 1) : q \in scenario.free \/ Moves(q) = {}
First(moves, m) == \A o \in moves : m[1] < o[1] \/ (m[1] = o[1] /\ m[2] <= o[2])

RingStep(r) ==
  \/ /\ Turn(r)
     /\ LET moves == Moves(r)
        IN \E m \in moves :
             /\ r \in scenario.free \/ First(moves, m)
             /\ \/ m[1] = 0 /\ Begin(r)
                \/ m[1] = 1 /\ WorkItem(r, m[2])
                \/ m[1] = 2 /\ Post(r, m[2])
                \/ m[1] = 3 /\ Transfer(r, m[2])
                \/ m[1] = 4 /\ Stop(r)
  \/ \E d \in Dir : TransferFails(r, d)
  \/ GiveUp(r)
  \/ Watch(r)
=============================================================================
