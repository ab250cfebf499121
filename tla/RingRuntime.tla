---------------------------- MODULE RingRuntime -----------------------------
(***************************************************************************)
(* PrefillRing as the worker sees it: the voted construction, then the     *)
(* calls of the model, then close.                                         *)
(***************************************************************************)
EXTENDS PrefillRing, CollectiveStart

runtimeVars == <<ringVars, startVars>>

\* The construction has succeeded on all ranks.
Built ==
  /\ fragile = FALSE
  /\ setting = [r \in Rank |-> "a"]
  /\ stage = [r \in Rank |-> LastStage]
  /\ votes = [r \in Rank |->
                [i \in 1..LastStage |-> [stage |-> i, error |-> FALSE, setting |-> "a"]]]
  /\ held = [r \in Rank |-> "started"]
  /\ outcome = [r \in Rank |-> "ready"]

\* A scenario without calls is about the construction, one with calls begins
\* after it.
RuntimeInit ==
  /\ RingInit
  /\ IF scenario.calls = <<>> THEN StartInit ELSE Built

Construct(r) == (Work(r) \/ Decide(r)) /\ UNCHANGED ringVars

Operate(r) ==
  /\ outcome[r] = "ready"
  /\ RingStep(r)
  /\ UNCHANGED startVars

RuntimeNext == \E r \in Rank : Construct(r) \/ Operate(r)

\* As long as some thread, kernel or NIC can take a step, one does.
RuntimeSpec == RuntimeInit /\ [][RuntimeNext]_runtimeVars /\ WF_runtimeVars(RuntimeNext)

-----------------------------------------------------------------------------
TypeOK ==
  /\ scenario \in Scenarios /\ late \in 0..scenario.late
  /\ entered \in [Rank -> 0..Calls] /\ left \in [Rank -> 0..Calls]
  /\ \A r \in Rank : left[r] <= entered[r] /\ entered[r] <= left[r] + Window
  /\ \A r \in Rank : Len(base[r]) = entered[r] + 1
  /\ \A r \in Rank : ~Idle(r) => done[r] \subseteq 0..(Items(G(entered[r])) - 1)
  /\ \A r \in Rank, d \in Dir : \A k \in DOMAIN slot[r][d] :
       slot[r][d][k].call \in 0..Calls /\ ready[r][d][k] \in Nat
  /\ \A r \in Rank, d \in Dir :
       post[r][d].call \in 1..(Calls + 1) /\ nic[r][d].call \in 1..post[r][d].call
  /\ \A r \in Rank, p \in {0, 1}, d \in Dir : \A s \in DOMAIN flag[r][p][d] :
       flag[r][p][d][s] \in 0..Calls /\ recv[r][p][d][s].call = flag[r][p][d][s]
  /\ poison \in [Rank -> 0..Calls]
  /\ failed \in [Rank -> BOOLEAN] /\ alive \in [Rank -> BOOLEAN]
  /\ outcome \in [Rank -> {"building", "raised", "ready", "none"}]
  /\ held \in [Rank -> {"none", "region", "started"}]

\* The blocks that a rank's output of call n has.
Blocks(r, n) == IF G(n).kind = "RS" THEN {r} ELSE Rank

\* When the kernel of a call returns, the whole output is written: an
\* all-gather's own copies too, and each reduced chunk in NCCL's association.
OutputRight ==
  \A r \in Rank :
    Idle(r) /\ left[r] > 0 =>
      out[r] = [c \in Blocks(r, left[r]) \X (0..(G(left[r]).nc - 1)) |->
                  Right(left[r], c[1], c[2])]

\* A write lands in a receive area only when the receiver has done with the
\* earlier calls of that area: its kernel has returned from them and its NIC
\* has read the relays.  Nothing acknowledges an area.
AreaFree ==
  \A r \in Rank, d \in Dir :
    CanTransfer(r, d) =>
      LET n == nic[r][d].call
          p == Neighbour(r, d)
      IN \A m \in 1..(n - 1) : Parity(m) = Parity(n) => left[p] >= m /\ nic[p][d].call > m

\* A chunk that is staged but not yet written out is still in its slot.
StagedIntact ==
  \A r \in Rank, d \in Dir :
    CanTransfer(r, d) /\ nic[r][d].step < Staged(G(nic[r][d].call), d) =>
      LET gi == base[r][nic[r][d].call][d] + nic[r][d].step
      IN ready[r][d][gi % scenario.nslot] = gi + 1

\* Nothing is written over before it has been read, although no buffer of the
\* ring is acknowledged (_prb.cu, the parities and the staging slots).
BuffersIntact == AreaFree /\ StagedIntact

\* A rank that closes after its last call strands no neighbour that is still
\* in it: all that it had to send has landed, unless some wait had timed out.
CloseStrandsNobody ==
  \A r \in Rank :
    outcome[r] = "ready" /\ ~alive[r] /\ Calls > 0 /\ (\A q \in Rank : poison[q] = 0) =>
      \A d \in Dir : \A s \in 0..(Steps(G(Calls), d) - 1) :
        flag[Neighbour(r, d)][Parity(Calls)][d][s] = Calls

\* The ring exists on all ranks or on none, and before the first call every
\* proxy has started.  A rank that gave the ring up holds neither memory nor
\* queue pairs.
AllOrNone ==
  \A r \in Rank :
    /\ outcome[r] = "ready" =>
         \A q \in Rank : outcome[q] # "none" /\ held[q] = "started"
    /\ outcome[r] = "none" => held[r] = "none"

\* The ranks come into the ring together and leave it without harm to the
\* others (ring.py, the votes of the construction; the destruction of a ring).
RingShared == AllOrNone /\ CloseStrandsNobody

\* Every rank that gets a ring returns from every call and closes, whatever
\* the number of slots, CTAs and chunks.  Where a wait gave up too early its
\* process ends, and with it every other that still waits.
Returned(r) ==
  /\ outcome[r] = "ready" /\ ~alive[r]
  /\ left[r] = Calls \/ scenario.late > 0

CallsReturn == <>(\A r \in Rank : outcome[r] = "none" \/ Returned(r))
=============================================================================
