---------------------------- MODULE PolicyBridge ----------------------------
(***************************************************************************)
(* The acceptance policy inside the scheduler bridge: select(), observe()  *)
(* and refresh() of src/tp4/glm53_speedup/scheduler.py over OverrideFile,  *)
(* EmaPolicy and SaturationGrowth (with the history of OpenGrowth).        *)
(*                                                                         *)
(*   idle --Due--> poll --> retain --Retain--> choose --Choose--> feedback *)
(*     |                              ^                              |     *)
(*     +--------- no poll is due -----+   idle <-- Finish, Observe --+     *)
(*                                                                         *)
(* Three kinds of behaviour are examined (scenario):                       *)
(*   "growth"  saturation mode; the depth of its baseline (an EmaPolicy of *)
(*             depth BaseK) is any depth, feedback may be wrong or missing *)
(*   "ema"     ema mode; from some time on all drafts may be accepted      *)
(*   "reload"  the override file is polled and changes                     *)
(* Left out: cost tables (mode cost) and mode ema4, which is EmaPolicy.    *)
(***************************************************************************)
EXTENDS OpenGrowth, EmaPolicy, OverrideFile

CONSTANTS
  Scenarios,    \* the kinds of behaviour examined
  Solo,         \* the request of the "reload" behaviours
  FirstContent  \* the override file of "reload" to begin with

ASSUME BridgeAssumption == MaxK = TopK /\ Solo \in Request

VARIABLES
  scenario,
  pc,           \* where the engine step is
  elapsed,      \* a second has passed since the last poll
  k,            \* the depth of the last decision
  due,          \* the requests whose acceptance has not come back
  steady,       \* from now on the batch stays and all its drafts are accepted
  agreed        \* history: the depth the last decisions agree on, and how many

growthSide == <<growthVars, depth, batch, fed, proven, lost>>
bridgeVars == <<scenario, pc, elapsed, k, due, steady, agreed>>
allVars == <<growthSide, emaVars, overrideVars, bridgeVars>>

StartMode == [growth |-> "saturation", ema |-> "ema", reload |-> "saturation"]

BridgeInit ==
  /\ scenario \in Scenarios
  /\ Init /\ EmaInit /\ OverrideInit(FirstContent, StartMode[scenario])
  /\ pc = "idle" /\ elapsed = TRUE /\ k = MaxK /\ due = {}
  /\ steady = FALSE /\ agreed = [k |-> MaxK, n |-> 0]

-----------------------------------------------------------------------------
\* A second passes.
Tick ==
  /\ ~elapsed
  /\ elapsed' = TRUE
  /\ UNCHANGED <<growthSide, emaVars, overrideVars, scenario, pc, k, due, steady, agreed>>

\* Somebody changes the override file.
Edit ==
  /\ scenario = "reload"
  /\ Write
  /\ UNCHANGED <<growthSide, emaVars, bridgeVars>>

\* From now on the batch stays and every draft is accepted.
BeSteady ==
  /\ scenario = "ema" /\ pc = "idle" /\ ~steady /\ batch_of # {}
  /\ steady' = TRUE
  /\ UNCHANGED <<growthSide, emaVars, overrideVars, scenario, pc, elapsed, k, due, agreed>>

\* An override is configured and the last poll is a second ago.
PollDue == scenario = "reload" /\ elapsed

\* select: it is time to poll.
Due ==
  /\ pc = "idle" /\ PollDue
  /\ PollStarts
  /\ pc' = "poll" /\ elapsed' = FALSE
  /\ UNCHANGED <<growthSide, emaVars, scenario, k, due, steady, agreed>>

\* configure: other settings start without evidence.
Configured ==
  IF mode' # mode
  THEN Drop /\ EmaReconfigure /\ agreed' = [k |-> MaxK, n |-> 0]
  ELSE UNCHANGED <<growthSide, emaVars, agreed>>

\* refresh, one system call.
Poll ==
  /\ pc = "poll" /\ PollStep
  /\ Configured
  /\ UNCHANGED <<scenario, pc, elapsed, k, due, steady>>

PollEnds ==
  /\ pc = "poll" /\ PollReturns
  /\ pc' = "retain"
  /\ UNCHANGED <<growthSide, emaVars, scenario, elapsed, k, due, steady, agreed>>

\* retain and discard: some requests have finished, some were preempted.
\* A preempted request ends all growth, a finished one only that of its batch.
Retain(gone, evicted) ==
  /\ pc = "retain" \/ (pc = "idle" /\ ~PollDue)
  /\ scenario = "reload" \/ steady => gone = {} /\ evicted = {}
  /\ EmaForget(gone \cup evicted)
  /\ IF mode = "saturation" /\ (gone \cap members # {} \/ evicted # {})
     THEN Drop ELSE UNCHANGED growthSide
  /\ pc' = "choose"
  /\ UNCHANGED <<overrideVars, scenario, elapsed, k, due, steady, agreed>>

\* The batches a step may run.
Batches ==
  IF steady THEN {batch_of}
  ELSE IF scenario = "reload" THEN {{Solo}}
  ELSE (SUBSET Request) \ {{}}

\* Which decisions in a row agreed, up to Confirm of them.
Agreed(m) ==
  IF ~Decides(m) THEN IF StartOver(m) THEN [k |-> MaxK, n |-> 0] ELSE agreed
  ELSE IF ~StartOver(m) /\ Desired(m) = agreed.k
  THEN [agreed EXCEPT !.n = Min({@ + 1, Confirm})]
  ELSE [k |-> Desired(m), n |-> 1]

\* Policy.choose for a batch that may not be trimmed (mixed, or with drafts
\* missing): full depth, and growth starts over.
ChooseFull(m) ==
  /\ pc = "choose" /\ ~steady
  /\ k' = MaxK
  /\ IF mode = "saturation" THEN Drop ELSE UNCHANGED growthSide
  /\ due' = m /\ pc' = "feedback"
  /\ UNCHANGED <<emaVars, overrideVars, scenario, elapsed, steady, agreed>>

\* Policy.choose for a uniform batch of decoders.
Choose(m, base) ==
  /\ pc = "choose"
  /\ \/ /\ mode = "off"
        /\ k' = MaxK
        /\ UNCHANGED <<growthSide, emaVars, agreed>>
     \/ /\ mode = "forced"
        /\ ForcedChoose(m)
        /\ k' = ForcedK
        /\ agreed' = IF StartOver(m) THEN [k |-> MaxK, n |-> 0] ELSE agreed
        /\ UNCHANGED growthSide
     \/ /\ mode = "ema"
        /\ EmaChoose(m)
        /\ k' = IF Decides(m) THEN current_k' ELSE MaxK
        /\ agreed' = Agreed(m)
        /\ UNCHANGED growthSide
     \/ /\ mode = "saturation"
        /\ Turn(m, base)
        /\ k' = Depth(m, base)
        /\ UNCHANGED <<emaVars, agreed>>
  /\ due' = m /\ pc' = "feedback"
  /\ UNCHANGED <<overrideVars, scenario, elapsed, steady>>

\* observe: the acceptance of a request of the step.  The history of the
\* outer policy is followed in mode ema, the only one that reads it.
Observe(r, proposed, accepted) ==
  /\ pc = "feedback"
  /\ scenario # "growth" => r \in due /\ proposed = k
  /\ steady => accepted = k
  /\ IF mode = "saturation" THEN Feedback(r, proposed, accepted)
     ELSE UNCHANGED growthSide
  /\ IF mode = "ema" THEN EmaObserve(r, proposed, accepted) ELSE UNCHANGED emaVars
  /\ due' = due \ {r}
  /\ UNCHANGED <<overrideVars, scenario, pc, elapsed, k, steady, agreed>>

\* observe of a result that is stale: the request was preempted meanwhile.
Stale(r) ==
  /\ pc = "feedback" /\ r \in due
  /\ scenario # "reload" /\ ~steady
  /\ EmaForget({r})
  /\ IF mode = "saturation" THEN Drop ELSE UNCHANGED growthSide
  /\ due' = due \ {r}
  /\ UNCHANGED <<overrideVars, scenario, pc, elapsed, k, steady, agreed>>

\* The step ends; a request that was aborted has no acceptance.
Finish ==
  /\ pc = "feedback"
  /\ scenario = "reload" \/ steady => due = {}
  /\ pc' = "idle" /\ due' = {}
  /\ UNCHANGED <<growthSide, emaVars, overrideVars, scenario, elapsed, k, steady, agreed>>

Engine ==
  \/ Due \/ Poll \/ PollEnds
  \/ \E gone, evicted \in SUBSET Request : Retain(gone, evicted)
  \/ \E m \in Batches : ChooseFull(m)
  \/ \E m \in Batches, base \in 1..BaseK : Choose(m, base)
  \/ \E r \in Request, proposed \in 1..MaxK :
       \E accepted \in 0..proposed : Observe(r, proposed, accepted)
  \/ \E r \in Request : Stale(r)
  \/ Finish

BridgeNext == Tick \/ Edit \/ BeSteady \/ Engine

\* The engine steps as long as there are decoders, and time passes.
BridgeSpec ==
  BridgeInit /\ [][BridgeNext]_allVars /\ WF_allVars(Engine) /\ WF_allVars(Tick)

-----------------------------------------------------------------------------
\* The type invariant.
BridgeTypeOK ==
  /\ history \in [Request -> [steps: 0..Warmup, ema: 0..Unit * MaxK]]
  /\ current_k \in Captured /\ pending_k \in Captured
  /\ pending_count \in 0..Confirm - 1 /\ turns \in 0..ProbeEvery - 1
  /\ batch_of \subseteq Request /\ due \subseteq Request
  /\ mode \in {"off", "forced", "ema", "saturation"} /\ prefill_cap \in Nat
  /\ stamp \in 0..Writes /\ before \in 0..Writes
  /\ path \in 0..Len(inode) /\ opened \in 0..Len(inode)
  /\ k \in Captured

\* A poll leaves nothing in force but the settings of a file, or off: of one
\* whole valid file that the path led to while the poll ran.  In particular
\* "a missing/truncated file cannot leave an old experimental mode on"
\* (refresh), and no mode is in force together with the prefill cap of
\* another file.
PollReadsTheFile ==
  reader = "done" =>
    \/ InForce = Off
    \/ \E c \in met : Valid(c) /\ InForce = [mode |-> c.mode, cap |-> c.cap]

\* The stamp the bridge remembers is the stamp of the settings in force: the
\* early return on an unchanged stamp never keeps the settings of another
\* file (refresh and _read_bounded, the chain of stamp comparisons).
StampTellsSettings ==
  stamp # 0 => InForce = [mode |-> written[stamp].mode, cap |-> written[stamp].cap]

\* Once the file is left alone, its settings come into force and stay, or
\* off if it is missing or not valid, whatever it went through before.
OverrideSettles == <>[](scenario = "reload" => InForce = Wanted(path))

\* The depth of ema mode moves only when the last Confirm decisions in a row
\* about this batch agreed on the new one, whatever warm-up turns, probes and
\* untrimmed batches came between them (Policy.choose, pending_count).
DepthConfirmed ==
  [][current_k' # current_k =>
       \/ batch_of' # batch_of \/ mode' # mode
       \/ agreed' = [k |-> current_k', n |-> Confirm]]_allVars

\* The policy is not locked low: a batch whose drafts are all accepted from
\* some time on is in the end verified at full depth for good, however low
\* its averages had fallen.  A draw that was cut short does not move the
\* average (RequestHistory.observe), so only the probes can raise it again.
NotLockedLow == <>[](steady => current_k = MaxK)
=============================================================================
