------------------------------ MODULE MCPrefill ------------------------------
(* Blocks of two tokens.  The seed leaves one common block; a request      *)
(* matches it or not, and has a private tail of its own unless it repeats  *)
(* the first one's.                                                        *)
EXTENDS PrefillCampaign, StepCost

CONSTANTS k1, k2, k3, v1, v2, q1, q2, s1, s2, d1

MCWord == 0
MCStop == 9

Policies == {"current", "fixed", "adaptive", "frequency"}
Seed == [prompt |-> <<1, 1, 2>>, maximum |-> 1, stops |-> FALSE]

Request(matches, i, tail, maximum, stops) ==
  [prompt |-> (IF matches THEN <<1, 1>> ELSE <<10 + i, 4>>) \o SubSeq(<<20 + i, 3, 3, 3, 3>>, 1, tail),
   maximum |-> maximum, stops |-> stops]

Trace(policies, pools, widths, first, measured) ==
  {[policy |-> p, pool |-> n, budget |-> w[1], sequences |-> w[2], first |-> f,
    requests |-> (0 :> Seed) @@ measured] : p \in policies, n \in pools, w \in widths, f \in first}

Cohort(Matches(_), n, tail, maximum, stops) ==
  [i \in 1..n |-> Request(Matches(i), i, tail, maximum, stops)]

(* The studies' matrix: who matches, tail, outputs, pool and step width.   *)
Wide == {<<6, 3>>}
Matrix ==
  UNION {Trace(Policies, {7, 9, 14}, Wide, {4}, Cohort(LAMBDA i : i \in m, 4, tail, maximum, FALSE)) :
           m \in {{}, {1, 2}, {1, 2, 3}, {1, 2, 3, 4}, {1, 3}, {1, 2, 4}}, tail \in 2..5, maximum \in 2..3}
Narrow ==
  LET measured == Cohort(LAMBDA i : TRUE, 3, 4, 3, FALSE)
  IN  Trace({"adaptive", "frequency"}, {7}, {<<3, 3>>, <<4, 3>>}, {3}, measured)
        \cup Trace({"adaptive"}, {7}, {<<6, 2>>}, {3}, measured)
LongOutputs ==
  UNION {Trace({"adaptive", "frequency"}, {13}, Wide, {4}, Cohort(LAMBDA i : i <= m, 4, 4, 7, FALSE)) :
           m \in {3, 4}}
EarlyStops ==
  UNION {Trace({"adaptive", "frequency"}, {7, 8}, Wide, {4}, Cohort(LAMBDA i : i \in m, 4, 4, 3, TRUE)) :
           m \in {{1, 3}, 1..4}}
Repeated ==
  Trace({"frequency"}, {7}, Wide, {3},
        [i \in 1..3 |-> Request(TRUE, IF i = 3 THEN 1 ELSE i, 4, 3, FALSE)])

(* Requests that arrive late or are aborted, and one without outputs.      *)
Open ==
  UNION {Trace({"frequency"}, {7}, Wide, {2, 3},
           [i \in 1..4 |-> Request(TRUE, i, 4, IF i = e THEN 0 ELSE 3, i = 1)]) :
           e \in {3, 9}}

(* Retained: two campaigns over the same sources and documents, the third  *)
(* over other ones.                                                        *)
MCCommitOf    == (k1 :> v1) @@ (k2 :> v1) @@ (k3 :> v2)
MCDocumentsOf == (k1 :> q1) @@ (k2 :> q1) @@ (k3 :> q2)
MCLastCells   == Trace({"frequency"}, {7}, Wide, {4}, Cohort(LAMBDA i : TRUE, 4, 2, 2, FALSE))

Symmetry == Permutations({s1, s2}) \cup Permutations({k1, k2})

(* Six-bit integers: predictions that fit, and ones far beyond them.       *)
MCCostPolicies ==
  [fixed : {-1, 0, 5}, row : {0, 3}, position : {0, 1, 60}, partition : {0, 4}, logit : {0, 4},
   target : {0, 1, 20, 62}]
MCDecodingLengths == {<<>>, <<3>>, <<2, 4>>}

MCCells == Matrix \cup Narrow \cup LongOutputs \cup EarlyStops \cup Repeated \cup Open

(* A behaviour is a campaign, or a prompt under a cost policy (beside one  *)
(* campaign that stands still).                                            *)
Campaigning == remaining = 0 /\ past = 0
StudiesInit ==
  /\ CampaignInit
  /\ \/ costPolicy = NoPolicy /\ past = 0 /\ remaining = 0 /\ decoding = <<>> /\ chunk = NoChunk
     \/ cell = (CHOOSE c \in Cells : TRUE) /\ CostInit
StudiesNext ==
  IF Campaigning THEN CampaignNext /\ UNCHANGED costVars
  ELSE CostNext /\ UNCHANGED <<vars, retentionVars>>
StudiesSpec == StudiesInit /\ [][StudiesNext]_<<vars, retentionVars, costVars>>
=============================================================================
