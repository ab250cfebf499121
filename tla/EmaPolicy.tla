------------------------------ MODULE EmaPolicy ------------------------------
(***************************************************************************)
(* How deep a batch is verified from its acceptance history                *)
(* (src/tp4/glm53_speedup/policy.py, RequestHistory and Policy.choose in   *)
(* the modes off, forced and ema).                                         *)
(*                                                                         *)
(* Each request keeps a moving average of its accepted drafts.  A batch is *)
(* verified as deep as its best member deserves, but the depth moves only  *)
(* after Confirm decisions in a row agree, and every ProbeEvery-th turn    *)
(* runs at full depth, because only a full draw tells how much would have  *)
(* been accepted.                                                          *)
(*                                                                         *)
(* The average is kept in fifths of a draft and rounded towards its old    *)
(* value: like the float of the code it approaches the last acceptances    *)
(* without reaching them, and its ceiling is the same in the limit.        *)
(***************************************************************************)
EXTENDS Requests, Integers, FiniteSetsExt

CONSTANTS
  MaxK,         \* max_k: the drafter's proposal length
  Captured,     \* the depths that have a captured graph
  ForcedK,      \* forced_k
  Warmup,       \* turns of a request before its average counts, 8
  ProbeEvery,   \* 16
  Confirm       \* decisions that must agree, 4

ASSUME EmaAssumption ==
  /\ MaxK \in Nat \ {0} /\ Captured \subseteq 1..MaxK /\ MaxK \in Captured
  /\ ForcedK \in Captured
  /\ {Warmup, ProbeEvery, Confirm} \subseteq Nat \ {0}

VARIABLES
  history,        \* RequestHistory by request: steps, ema
  current_k, pending_k, pending_count,  \* the depth, and the one that may follow
  turns,          \* Policy.steps, modulo ProbeEvery
  batch_of        \* Policy.members: the batch current_k is about

emaVars == <<history, current_k, pending_k, pending_count, turns, batch_of>>

Unit == 5
Fresh == [steps |-> 0, ema |-> Unit * MaxK]

EmaInit ==
  /\ history = [r \in Request |-> Fresh]
  /\ current_k = MaxK /\ pending_k = MaxK /\ pending_count = 0
  /\ turns = 0 /\ batch_of = {}

\* .8 * old + .2 * new, in fifths, rounded towards old.
Averaged(old, new) ==
  IF new >= old THEN old + (new - old) \div 5 ELSE old - (old - new) \div 5

\* RequestHistory.observe: a draw shorter than MaxK says nothing of the rest.
Recorded(h, proposed, accepted) ==
  [steps |-> Min({h.steps + 1, Warmup}),
   ema   |-> IF proposed = MaxK THEN Averaged(h.ema, Unit * accepted) ELSE h.ema]

\* Policy.observe
EmaObserve(r, proposed, accepted) ==
  /\ history' = [history EXCEPT ![r] = Recorded(@, proposed, accepted)]
  /\ UNCHANGED <<current_k, pending_k, pending_count, turns, batch_of>>

\* Policy.retain and discard: the requests gone lose their history.
EmaForget(gone) ==
  /\ history' = [r \in Request |-> IF r \in gone THEN Fresh ELSE history[r]]
  /\ UNCHANGED <<current_k, pending_k, pending_count, turns, batch_of>>

\* Policy.configure with other settings.
EmaReconfigure ==
  /\ current_k' = MaxK /\ pending_k' = MaxK /\ pending_count' = 0
  /\ UNCHANGED <<history, turns, batch_of>>

-----------------------------------------------------------------------------
\* The depth the averages of batch m ask for, rounded up to a captured one.
Desired(m) ==
  LET asked == Max({(history[r].ema + Unit - 1) \div Unit + 1 : r \in m})
  IN  Min({c \in Captured : c >= Min({asked, MaxK})})

\* Mutant of Agreements: a decision for the current depth does not count.
AgreementsSkip(k, current, pending, count) ==
  IF k = current THEN count ELSE IF k = pending THEN count + 1 ELSE 1

\* pending_count after a decision for depth k.
Agreements(k, current, pending, count) ==
  IF k = current THEN 0 ELSE IF k = pending THEN count + 1 ELSE 1

\* The decision of a turn that is neither warm-up nor probe.
Settle(k, current, pending, count) ==
  LET agreed == Agreements(k, current, pending, count)
  IN  /\ pending_k' = IF k = current THEN pending ELSE k
      /\ current_k' = IF k # current /\ agreed >= Confirm THEN k ELSE current
      /\ pending_count' = IF agreed >= Confirm THEN 0 ELSE agreed

\* Another batch starts over at full depth.
StartOver(m) == m # batch_of

\* Mutant of IsProbe: no turn is a probe.
IsProbeNever(turn) == FALSE

\* The turn runs at full depth whatever the averages say.
IsProbe(turn) == turn % ProbeEvery = 0

Warm(m) == \A r \in m : history[r].steps >= Warmup

\* The turn decides by the averages.
Decides(m) == Warm(m) /\ ~IsProbe(turns + 1)

\* Policy.choose in mode ema for a uniform captured batch.
EmaChoose(m) ==
  LET fresh   == StartOver(m)
      current == IF fresh THEN MaxK ELSE current_k
      pending == IF fresh THEN MaxK ELSE pending_k
      count   == IF fresh THEN 0 ELSE pending_count
  IN  /\ batch_of' = m
      /\ turns' = (turns + 1) % ProbeEvery
      /\ IF Decides(m) THEN Settle(Desired(m), current, pending, count)
         ELSE current_k' = current /\ pending_k' = pending /\ pending_count' = count
      /\ UNCHANGED history

\* Policy.choose in mode forced: only the batch is looked at.
ForcedChoose(m) ==
  /\ batch_of' = m
  /\ IF StartOver(m)
     THEN current_k' = MaxK /\ pending_k' = MaxK /\ pending_count' = 0
     ELSE UNCHANGED <<current_k, pending_k, pending_count>>
  /\ UNCHANGED <<history, turns>>
=============================================================================
