---------------------------- MODULE OpenCadence ----------------------------
(***************************************************************************)
(* The cadence under an arbitrary scheduler.  Between two steps requests   *)
(* arrive, finish, are evicted, resume and become decoders in any way.     *)
(* Within a step any of the allowed running requests may get tokens, or    *)
(* none: admission and KV allocation belong to the scheduler.              *)
(***************************************************************************)
EXTENDS SplitCadence

VARIABLES
  stage,     \* "idle" between steps, "planned" between begin and observe
  shown,     \* the running requests the last begin was shown
  withheld,  \* history: decoders a prefill-only step passed over, unserved since
  offered,   \* history: decoders that have had a turn since they started
  fresh,     \* history: decoders that started since the last converted turn
  spent,     \* history: converted burst turns of each decoder, up to the cap
  converted  \* history: converted burst turns since the last prefill-only step

beatVars == <<cadenceVars, stage, shown, withheld, offered, fresh, spent, converted>>

Views ==
  {v \in [running: SUBSET Request, prefilling: SUBSET Request,
          nonfinal: SUBSET Request, content: SUBSET Request,
          waiting: BOOLEAN] :
     /\ v.prefilling \subseteq v.running
     /\ v.nonfinal \subseteq v.prefilling
     /\ v.content \subseteq v.running \ v.prefilling}

BeatInit ==
  /\ CadenceInit
  /\ stage = "idle"
  /\ shown = {}
  /\ withheld = {}
  /\ offered = {}
  /\ fresh = {}
  /\ spent = [r \in Request |-> 0]
  /\ converted = 0

\* order_running: the step begins.
BeatBegin(v) ==
  /\ stage = "idle"
  /\ CadenceBegin(v)
  /\ stage' = "planned"
  /\ shown' = v.running
  /\ withheld' = withheld \cap Decoders(v)
  /\ offered' = offered \cap Decoders(v)
  /\ fresh' = (fresh \cap Decoders(v)) \cup (Decoders(v) \ decoder_ids)
  /\ spent' = [r \in Request |-> IF r \in Decoders(v) \cap decoder_ids
                                 THEN spent[r] ELSE 0]
  /\ converted' = IF v.prefilling = {} THEN 0 ELSE converted

\* select: the step's token counts are known.
BeatObserve(served) ==
  /\ stage = "planned"
  /\ served \subseteq shown \cap allowed
  /\ CadenceObserve(served)
  /\ stage' = "idle"
  /\ withheld' = IF phase = "prefill" THEN withheld \cup decoder_ids
                 ELSE withheld \ served
  /\ offered' = CASE phase = "prefill" -> offered
                  [] phase = "decode"  -> offered \cup decoder_ids
                  [] OTHER             -> offered \cup (served \cap decoder_ids)
  /\ fresh' = IF reason = "first-token-repay" THEN {} ELSE fresh
  /\ spent' = [r \in Request |->
                 IF reason = "first-content-burst" /\ r \in decoder_ids
                    /\ spent[r] < first_content_burst
                 THEN spent[r] + 1 ELSE spent[r]]
  /\ converted' = IF phase = "prefill" THEN 0
                  ELSE converted + (IF reason = "first-content-burst" THEN 1 ELSE 0)
  /\ UNCHANGED shown

BeatNext ==
  \/ \E v \in Views : BeatBegin(v)
  \/ \E served \in SUBSET Request : BeatObserve(served)

BeatSpec == BeatInit /\ [][BeatNext]_beatVars

-----------------------------------------------------------------------------
\* The type invariant.  burst_owed is a function on some of the decoders.
BeatTypeOK ==
  /\ first_token_repay \in BOOLEAN
  /\ first_content_burst \in 0..16
  /\ first_token_repay => first_content_burst = 0
  /\ phase \in {"mixed", "prefill", "decode"}
  /\ reason \in {"initial", "repay-prefill-offer", "no-eligible-running-pair",
                 "first-token-repay", "first-content-burst",
                 "one-known-nonfinal-running-prefill"}
  /\ decoder_ids \subseteq Request
  /\ owed_decode \subseteq decoder_ids
  /\ known_decoders \subseteq decoder_ids
  /\ first_debt \subseteq decoder_ids
  /\ DOMAIN burst_owed \subseteq decoder_ids
  /\ burst_owed \in [DOMAIN burst_owed -> 0..first_content_burst]
  /\ burst_run \in 0..first_content_burst
  /\ allowed \subseteq Request
  /\ stage \in {"idle", "planned"}
  /\ shown \subseteq Request
  /\ withheld \subseteq decoder_ids
  /\ offered \subseteq decoder_ids
  /\ fresh \subseteq decoder_ids
  /\ spent \in [Request -> 0..first_content_burst]
  /\ converted \in Nat

\* A decoder that one prefill-only step passed over gets tokens, or leaves
\* the decoders, before another prefill-only step passes over it: also when
\* the offered prefill got no tokens, and when the repay step could not
\* serve every decoder it owed (cadence.py, begin and observe).
NoDoubleWithhold ==
  (stage = "planned" /\ phase = "prefill") => withheld \cap decoder_ids = {}

\* With first-token repay on, no prefill-only step is offered while a
\* decoder has not had a turn since it became one (docstring of P1).
FirstTurnBeforePrefill ==
  (first_token_repay /\ stage = "planned" /\ phase = "prefill")
    => decoder_ids \subseteq offered

\* A turn is converted for the first-token repay only when a decoder has
\* started since the last converted turn: one converted turn per wave.
RepayOncePerWave ==
  (stage = "planned" /\ reason = "first-token-repay") => fresh # {}

\* A turn is converted for the content burst only for a thinking decoder
\* that has itself sat through fewer than first_content_burst such turns, and
\* at most first_content_burst turns in a row are converted between two
\* prefill-only offers (docstring of P2).
BurstBounded ==
  /\ converted <= first_content_burst
  /\ (stage = "planned" /\ reason = "first-content-burst")
       => \E r \in decoder_ids : r \in Thinking /\ spent[r] < first_content_burst
=============================================================================
