---------------------------- MODULE MCEvaluation ----------------------------
(* Two commits and an edit; two versions of the reference data, both       *)
(* captured for the first commit's candidate; the second changed the       *)
(* declarations.                                                           *)
EXTENDS Evaluation, ColumnArchive, GenerationReport, TLC

CONSTANTS c1, c2, d1, r1, r2, o1, e1

MCCandidateTree == [v \in {r1, r2} |-> c1]
MCAnchored      == [v \in {r1, r2} |-> {c1, d1}]

MCLongSuffix  == <<16, 1>>
MCRaggedCycle == <<1, 15, 16, 31, 32, 63, 64>>
MCPolicyChunks == [policy_irregular |-> <<15, 1, 1, 46, 1, 1, 16, 17, 63, 64, 65, 257, 1024>>,
                   policy_lookup |-> <<16, 224, 16, 3776, 64>>, policy_prefix |-> <<256>>]

Symmetry == Permutations({r1, r2})

(* Three layouts, two of them the same keys in another order; a line that  *)
(* is not canonical.                                                       *)
Line(keys, values) == [keys |-> keys, values |-> values]
MCNoncanonical == {Line(<<"kind">>, <<0>>)}
MCRecords ==
  {Line(<<"kind", "rows">>, <<1, 2>>), Line(<<"kind", "rows">>, <<2, 1>>), Line(<<"rows", "kind">>, <<1, 2>>),
   Line(<<"kind">>, <<1>>)} \cup MCNoncanonical

MCIdleCall == [mode |-> "fast", prompt |-> 1, maximum |-> 1, chunk |-> 0, device |-> MeasuredDevice]

(* A behaviour is that of the evaluations, of a compaction of records or   *)
(* of a generation (the other two stand still).                            *)
VARIABLE part
PartsInit ==
  /\ Init /\ part \in {"evaluations", "archive", "generation"}
  /\ part # "evaluations" => source = c1 /\ reference.manifest = r1
  /\ IF part = "archive" THEN ArchiveInit
     ELSE lines = <<>> /\ archive = NoArchive /\ writer = NoArchive /\ reported = FALSE
  /\ IF part = "generation" THEN GenerationInit
     ELSE /\ call = MCIdleCall /\ phase = "start" /\ report = <<>> /\ generated = <<>>
          /\ offset = 0 /\ calls = 0 /\ cached = 0 /\ rowsRun = 0
PartsNext ==
  /\ UNCHANGED part
  /\ IF part = "evaluations" THEN Next /\ UNCHANGED <<archiveVars, generationVars>>
     ELSE IF part = "archive" THEN ArchiveNext /\ UNCHANGED <<vars, generationVars>>
     ELSE GenerationNext /\ UNCHANGED <<vars, archiveVars>>
PartsSpec == PartsInit /\ [][PartsNext]_<<vars, archiveVars, generationVars, part>>
=============================================================================
