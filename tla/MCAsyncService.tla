--------------------------- MODULE MCAsyncService ---------------------------
(* Asynchronous stepping from both sides of the runner's interface: a      *)
(* behaviour is the engine's over a runner that answers tickets in order,  *)
(* or that of the two-context runner, which does.                          *)
EXTENDS MCAsync, AsyncRunner

(* Rows of their own, with and without samples, and rows that name one or *)
(* both of the predecessor's samples.                                      *)
MCShapes ==
  {[sources |-> <<-1, -1>>, samples |-> 2], [sources |-> <<-1>>, samples |-> 0],
   [sources |-> <<0, -1>>, samples |-> 1], [sources |-> <<1, 0>>, samples |-> 2]}

CONSTANT Sides
VARIABLE side

SidesInit ==
  /\ side \in Sides
  /\ AsyncInit /\ RunnerInit
  /\ side = "runner" => mode = CHOOSE m \in Modes : TRUE
SidesNext ==
  /\ UNCHANGED side
  /\ \/ side = "engine" /\ AsyncNext /\ UNCHANGED runnerVars
     \/ side = "runner" /\ RunnerNext /\ UNCHANGED asyncVars
SidesSpec == SidesInit /\ [][SidesNext]_<<side, asyncVars, runnerVars>>
=============================================================================
