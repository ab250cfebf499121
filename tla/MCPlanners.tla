----------------------------- MODULE MCPlanners -----------------------------
(***************************************************************************)
(* TLC instances of the two planners on three requests.  OpenCadence under *)
(* each of the exclusive selectors and under none; OpenFair with short     *)
(* tails and prompts longer than the cap.  A behaviour is about one of     *)
(* them, and the other stays where it started.                             *)
(***************************************************************************)
EXTENDS OpenCadence, OpenFair, TLC

CONSTANTS r1, r2, r3

VARIABLE planner    \* which of the two is looked at

MCInit ==
  /\ planner \in {"cadence", "fair"}
  /\ BeatInit
  /\ planner = "fair" => ~first_token_repay /\ first_content_burst = 0
  /\ TurnInit

MCNext ==
  \/ planner = "cadence" /\ BeatNext /\ UNCHANGED <<planner, turnVars>>
  \/ planner = "fair" /\ TurnNext /\ UNCHANGED <<planner, beatVars>>

MCSpec == MCInit /\ [][MCNext]_<<planner, beatVars, turnVars>>

MCRequest == {r1, r2, r3}
MCThinking == {r1, r2}
MCSelectors == {[repay |-> TRUE, burst |-> 0], [repay |-> FALSE, burst |-> 2],
                [repay |-> FALSE, burst |-> 0]}
MCSpans == {<<0, 1>>, <<0, 5>>}
Symmetry == Permutations(MCThinking)
=============================================================================
