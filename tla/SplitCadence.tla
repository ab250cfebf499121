---------------------------- MODULE SplitCadence ----------------------------
(***************************************************************************)
(* The running-request cadence of the scheduler bridge                     *)
(* (src/tp4/glm53_speedup/cadence.py, class SplitCadence).                 *)
(*                                                                         *)
(* Every engine step calls begin() before the scheduler looks at its       *)
(* requests, and observe(counts) after it has decided how many tokens      *)
(* each request gets.  begin() turns the step into one of three kinds:     *)
(*                                                                         *)
(*   "mixed"    the ordinary policy decides (phase 'mixed-fallback')       *)
(*   "prefill"  only one running prefill may get tokens                    *)
(*   "decode"   only the running decoders may get tokens                   *)
(*                                                                         *)
(* begin and observe are parameterised by what the scheduler shows them:   *)
(* ServingScheduler uses them with its own request state, OpenCadence lets *)
(* the environment show any running set at all.                            *)
(***************************************************************************)
EXTENDS Requests, Naturals, FiniteSets

CONSTANTS
  Selectors,          \* the settings of the two selectors that are examined
  Thinking            \* the requests whose prompt ends in <think>

\* The import-time checks on the two selectors.
ASSUME SelectorAssumption ==
  /\ \A s \in Selectors :
       s.repay \in BOOLEAN /\ s.burst \in 0..16 /\ ~(s.repay /\ s.burst > 0)
  /\ Thinking \subseteq Request

VARIABLES
  first_token_repay,    \* GLM53_SPEEDUP_FIRST_TOKEN_REPAY = 1, read at import
  first_content_burst,  \* GLM53_SPEEDUP_FIRST_CONTENT_BURST, 0 is off
  phase,           \* the kind of the current step
  reason,          \* why begin chose it
  decoder_ids,     \* decoders seen by the last begin
  owed_decode,     \* decoders passed over by a prefill-only offer
  known_decoders,  \* decoder_ids as _track_new_decoders last saw it
  first_debt,      \* new decoders owed a turn (first-token repay)
  burst_owed,      \* converted turns spent per owed decoder (content burst)
  burst_run,       \* converted turns since the last prefill-only offer
  allowed          \* ids that may get tokens this step; Request when unlimited

selectorVars == <<first_token_repay, first_content_burst>>
cadenceVars == <<selectorVars, phase, reason, decoder_ids, owed_decode, known_decoders,
                 first_debt, burst_owed, burst_run, allowed>>

CadenceInit ==
  /\ \E s \in Selectors : first_token_repay = s.repay /\ first_content_burst = s.burst
  /\ phase = "mixed"
  /\ reason = "initial"
  /\ decoder_ids = {}
  /\ owed_decode = {}
  /\ known_decoders = {}
  /\ first_debt = {}
  /\ burst_owed = [r \in {} |-> 0]
  /\ burst_run = 0
  /\ allowed = Request

-----------------------------------------------------------------------------
(***************************************************************************)
(* What begin reads of the scheduler is a record:                          *)
(*   running, prefilling  the running requests, those still prefilling     *)
(*   waiting              waiting or skipped_waiting is not empty          *)
(*   nonfinal             the requests whose next chunk is known not to be *)
(*                        their last (running, original prompt, already    *)
(*                        started, computed + cap < prompt, nothing in     *)
(*                        flight)                                          *)
(*   content              the requests that have a token after </think>    *)
(***************************************************************************)
Decoders(v) == v.running \ v.prefilling

\* first_debt after _track_new_decoders.
TrackedDebt(v) ==
  IF first_token_repay
  THEN (first_debt \cap Decoders(v)) \cup (Decoders(v) \ known_decoders)
  ELSE first_debt

\* Mutant of TrackedBurst: an owed decoder leaves one turn too late.
TrackedBurstLate(v) ==
  LET new  == {r \in Decoders(v) \ known_decoders :
                  r \in Thinking /\ r \notin v.content}
      kept == {r \in DOMAIN burst_owed :
                  /\ r \in Decoders(v)
                  /\ burst_owed[r] <= first_content_burst
                  /\ r \notin v.content}
  IN  IF first_content_burst = 0
      THEN burst_owed
      ELSE [r \in new \cup kept |-> IF r \in new THEN 0 ELSE burst_owed[r]]

\* burst_owed after _track_new_decoders.
TrackedBurst(v) ==
  LET new  == {r \in Decoders(v) \ known_decoders :
                  r \in Thinking /\ r \notin v.content}
      kept == {r \in DOMAIN burst_owed :
                  /\ r \in Decoders(v)
                  /\ burst_owed[r] < first_content_burst
                  /\ r \notin v.content}
  IN  IF first_content_burst = 0
      THEN burst_owed
      ELSE [r \in new \cup kept |-> IF r \in new THEN 0 ELSE burst_owed[r]]

\* burst_run after _track_new_decoders: no running prefill starts a fresh run.
TrackedRun(v) ==
  IF first_content_burst > 0 /\ v.prefilling = {} THEN 0 ELSE burst_run

\* The step would be a prefill-only offer if no decoder is owed anything.
OfferPossible(v) ==
  /\ Decoders(v) # {}
  /\ ~v.waiting
  /\ \E p \in v.prefilling : v.prefilling = {p} /\ p \in v.nonfinal

Choose(v, ph, why, ids) ==
  /\ phase' = ph
  /\ reason' = why
  /\ allowed' = ids

\* begin(): the decoders and debts are brought up to date, then the first
\* rule that applies picks the kind of this step.
CadenceBegin(v) ==
  /\ UNCHANGED selectorVars
  /\ decoder_ids' = Decoders(v)
  /\ owed_decode' = owed_decode \cap Decoders(v)
  /\ known_decoders' = IF first_token_repay \/ first_content_burst > 0
                       THEN Decoders(v) ELSE known_decoders
  /\ first_debt' = TrackedDebt(v)
  /\ burst_owed' = TrackedBurst(v)
  /\ burst_run' = TrackedRun(v)
  /\ \/ /\ owed_decode' # {}
        /\ Choose(v, "decode", "repay-prefill-offer", Decoders(v))
     \/ /\ owed_decode' = {} /\ ~OfferPossible(v)
        /\ Choose(v, "mixed", "no-eligible-running-pair", Request)
     \/ /\ owed_decode' = {} /\ OfferPossible(v)
        /\ \/ /\ first_debt' # {}
              /\ Choose(v, "decode", "first-token-repay", Decoders(v))
           \/ /\ first_debt' = {}
              /\ DOMAIN burst_owed' # {} /\ burst_run' < first_content_burst
              /\ Choose(v, "decode", "first-content-burst", Decoders(v))
           \/ /\ first_debt' = {}
              /\ DOMAIN burst_owed' = {} \/ burst_run' >= first_content_burst
              /\ Choose(v, "prefill", "one-known-nonfinal-running-prefill",
                        v.prefilling)

\* Mutant of OwedAfter: a repay turn settles decoders it did not serve.
OwedAfterAnyDecode(served) ==
  IF phase = "prefill" THEN decoder_ids ELSE {}

\* owed_decode after observe.
OwedAfter(served) ==
  CASE phase = "prefill" -> decoder_ids
    [] phase = "decode"  -> owed_decode \ served
    [] OTHER             -> owed_decode

\* Mutant of DebtAfter: a mixed turn settles decoders it did not serve.
DebtAfterAnyTurn(served) ==
  IF ~first_token_repay \/ phase = "prefill" THEN first_debt ELSE {}

\* Mutant of DebtAfter: a converted turn settles only the served decoders.
DebtAfterServed(served) ==
  IF ~first_token_repay \/ phase = "prefill" THEN first_debt
  ELSE first_debt \ (served \cap decoder_ids)

\* first_debt after observe: one converted turn settles every debt; a
\* prefill-only turn settles none.
DebtAfter(served) ==
  CASE first_token_repay /\ reason = "first-token-repay" -> {}
    [] first_token_repay /\ reason # "first-token-repay" /\ phase # "prefill"
         -> first_debt \ (served \cap decoder_ids)
    [] OTHER -> first_debt

\* observe(counts): served is the set of ids with a positive count.
CadenceObserve(served) ==
  /\ owed_decode' = OwedAfter(served)
  /\ first_debt' = DebtAfter(served)
  /\ IF reason = "first-content-burst"
     THEN /\ burst_run' = burst_run + 1
          /\ burst_owed' = [r \in DOMAIN burst_owed |-> burst_owed[r] + 1]
     ELSE /\ burst_run' = IF first_content_burst > 0 /\ phase = "prefill"
                          THEN 0 ELSE burst_run
          /\ UNCHANGED burst_owed
  /\ UNCHANGED <<selectorVars, phase, reason, decoder_ids, known_decoders, allowed>>
=============================================================================
