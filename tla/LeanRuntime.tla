---------------------------- MODULE LeanRuntime -----------------------------
(***************************************************************************)
(* LeanTp4AllReduce as the worker sees it: the voted construction, then    *)
(* the transport.  A rank issues calls once its constructor has returned,  *)
(* which may be before its peers have read the last vote.                  *)
(***************************************************************************)
EXTENDS LeanAllReduce, CollectiveStart

runtimeVars == <<leanVars, startVars>>

\* A scenario with calls is about the transport, one without about the
\* construction: only there may local work fail.
RuntimeInit ==
  /\ LeanInit
  /\ StartInit
  /\ fragile <=> Plan = <<>>

Construct(r) == (Work(r) \/ Decide(r)) /\ UNCHANGED leanVars

Operate(r) ==
  /\ outcome[r] = "ready"
  /\ Kernel(r) \/ Transport(r)
  /\ UNCHANGED startVars

RuntimeNext == \E r \in Rank : Construct(r) \/ Operate(r)

RuntimeSpec == RuntimeInit /\ [][RuntimeNext]_runtimeVars

-----------------------------------------------------------------------------
TypeOK ==
  /\ scenario \in Scenarios /\ late \in 0..scenario.late
  /\ launch \in [Rank -> 0..Len(Plan)]
  /\ \A r \in Rank : Round(r) \in {"idle", "stage", "pair", "join"}
  /\ epoch \in [Rank -> 0..(SeqMod - 1)] /\ poison \in [Rank -> 0..(SeqMod - 1)]
  /\ \A r \in Rank, x \in Exchange :
       /\ error[r][x] \in 0..(SeqMod - 1)
       /\ bell[r][x] \in 0..(SeqMod - 1) /\ last[r][x] \in 0..(SeqMod - 1)
       /\ Len(wire[r][x][1]) <= scenario.slots
  /\ failed \in [Rank -> [Exchange -> BOOLEAN]] /\ alive \in [Rank -> BOOLEAN]
  /\ called \in [Rank -> {0} \union Ops] /\ staged \in [Rank -> {0} \union Ops]
  /\ paired \in [Rank -> {0} \union Ops] /\ written \in [Rank -> {0} \union Ops]
  /\ outcome \in [Rank -> {"building", "raised", "ready", "none"}]
  /\ held \in [Rank -> {"none", "region", "started"}]

\* An output that a kernel wrote is the sum of every rank's input to that very
\* operation, in both halves, whoever timed out or died meanwhile.
OutputRight == \A r \in Rank : written[r] > 0 => output[r] = FullSum(written[r])

\* A call that ended without its output leaves a process that the watchdog will
\* end: nobody goes on with an unwritten tensor.
NoQuietLoss ==
  \A r \in Rank :
    alive[r] /\ launch[r] > 0 /\ pos[r] = Idle =>
      Unhealthy(r) \/ written[r] = called[r]

\* The operation that a sequence number of rank r's exchange x stands for: the
\* latest of that word that r has begun.
OpOf(r, seq) == staged[r] - ((WordOf(staged[r]) + SeqMod - seq) % SeqMod)

\* What rank r sends in exchange x for an operation.
Payload(r, x, s) ==
  IF x = 1 THEN Term(s, r) ELSE Plus(Term(s, r), Term(s, Peer(r, 1)))

\* Every operation that is rung but not posted, or posted but not done by the
\* NIC, still has its data and its byte count in its send slot, although
\* nothing acknowledges a slot (the comment at proxy_main).
SendSlotsIntact ==
  \A r \in Rank, x \in Exchange :
    LET Intact(seq) ==
          /\ send[r][x][SlotOf(seq)] = Payload(r, x, OpOf(r, seq))
          /\ bytes[r][x][SlotOf(seq)] = OpOf(r, seq)
    IN alive[r] =>
         /\ \A i \in DOMAIN Missed(r, x) : Intact(Missed(r, x)[i])
         /\ \A l \in Lane : \A i \in DOMAIN wire[r][x][l] :
              /\ Intact(wire[r][x][l][i].seq)
              /\ wire[r][x][l][i].len = OpOf(r, wire[r][x][l][i].seq)

\* A proxy stops only because the other end is gone: the doorbell is never more
\* than the slots ahead of it, however long its thread sleeps.
ProxyFailsOnlyForPeer ==
  \A r \in Rank, x \in Exchange : failed[r][x] => ~alive[Peer(r, x)]

\* A doorbell that holds only the newest sequence is enough: what a proxy that
\* slept has skipped is still there to post, and never too much (proxy_main).
DoorbellSuffices == SendSlotsIntact /\ ProxyFailsOnlyForPeer

\* The transport keeps the lockstep that its slot count relies on.
Abstract == INSTANCE Lockstep WITH
  Party <- Rank, Window <- 2, Buffers <- 4, entered <- staged, left <- written
KeepsLockstep == Abstract!LockstepSpec

\* The runtime exists on all ranks or on none.  A rank that has it may write at
\* once: a vote lies between the connection of the slowest rank, with the start
\* of its proxies, and the first call.  A rank that gave it up holds neither
\* pinned memory nor queue pairs.
AllOrNone ==
  \A r \in Rank :
    /\ outcome[r] = "ready" =>
         \A q \in Rank : outcome[q] \notin {"raised", "none"} /\ held[q] = "started"
    /\ outcome[r] = "none" => held[r] = "none"

\* A rank that has given the runtime up, or has the output of every operation.
Finished(r) == outcome[r] = "none" \/ (outcome[r] = "ready" /\ Ops \subseteq 1..written[r])

\* No rank waits for ever: whatever fails, where no further step is possible
\* each rank has left the construction and has all its outputs, or its process
\* has ended, and that only if some wait gave up too early.  No behaviour is
\* infinite, so this is what the running kernels, threads and NICs achieve.
NobodyStuck ==
  \/ \A r \in Rank : Finished(r) \/ (scenario.late > 0 /\ ~alive[r])
  \/ ENABLED RuntimeNext
=============================================================================
