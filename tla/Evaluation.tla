----------------------------- MODULE Evaluation -----------------------------
(***************************************************************************)
(* The receipted numerical evaluations: a tool compiles a driver and       *)
(* writes a receipt of the sources it was compiled from; the evaluations   *)
(* verify that receipt, check the identity of their reference data, run    *)
(* the driver, check again and write a report that names what was run.     *)
(* Each evaluation is the sequence of its steps; sources, reference data   *)
(* and builds change between any two of them.                              *)
(*                                                                         *)
(* Contents are compared by digest, so a digest is the content.  Changes   *)
(* never go back to a content that a build or an evaluation under way has  *)
(* recorded: a digest taken twice cannot see that.                         *)
(***************************************************************************)
EXTENDS Naturals, Sequences, Schedules

CONSTANTS
  Clean,          \* committed source trees
  Dirty,          \* source trees with uncommitted changes
  References,     \* versions of the reference data
  CandidateTree,  \* [References -> Clean]: the sources of the candidate a holdout names
  Anchored,       \* [References -> SUBSET trees]: those with the capture's declarations
  Outputs,        \* output paths
  Runs,           \* evaluations that may be under way at once
  MaxBuilds, MaxEvaluations, MaxChanges,  \* bounds
  None

ASSUME TreesAssumption ==
  /\ Clean \cap Dirty = {} /\ CandidateTree \in [References -> Clean]
  /\ Anchored \in [References -> SUBSET (Clean \cup Dirty)]
ASSUME BoundsAssumption == {MaxBuilds, MaxEvaluations, MaxChanges} \subseteq Nat

VARIABLES
  source,       \* the tree of the checkout
  binary,       \* [kind, tree] compiled at the binary's path, or None
  receipt,      \* [kind, source, binary, created] beside it, or None
  reference,    \* [manifest, arrays]: versions
  builder,      \* the build under way, or None
  outputs,      \* what is at each output path, or None
  run,          \* [Runs -> the evaluation under way, or None]
  builds, evaluations, changes
vars == <<source, binary, receipt, reference, builder, outputs, run, builds, evaluations, changes>>
counters == <<builds, evaluations, changes>>

Kinds == {"model", "decoder", "mlp"}
-----------------------------------------------------------------------------
(* The evaluations, as the steps of their functions.                       *)
Consistency == <<"receipt", "manifest", "arrays", "reserve", "run", "compare", "reverify",
                 "manifest again", "arrays again", "report">>
Operations  == <<"receipt", "manifest", "arrays", "reserve", "run", "compare", "reverify",
                 "same arrays", "report">>
Evaluate    == <<"receipt", "manifest", "arrays", "reserve", "run", "compare", "run", "compare",
                 "reverify", "same manifest", "report">>
Diagnose    == <<"receipt", "manifest", "arrays", "reserve", "run", "compare", "run", "compare",
                 "reverify", "report">>
Benchmark   == <<"receipt", "reserve", "run", "reverify", "report">>
Generation  == <<"receipt", "reserve", "run", "run", "reverify", "report">>
Lifecycle   == <<"receipt", "run", "reverify", "report">>
Batch       == <<"receipt", "run", "reverify", "report">>
Parity      == <<"new file", "receipt", "run", "run", "reverify", "report">>
Holdout     == <<"receipt", "manifest", "arrays", "candidate", "reserve", "run", "same build",
                 "same manifest", "same arrays", "validate", "report">>
Policies    == <<"receipt", "manifest", "arrays", "candidate", "reserve", "run", "same build",
                 "same manifest", "same arrays", "validate", "report">>
(* Mutant: the build is verified again, not compared with its receipt.     *)
MlpSuiteUncompared ==
  <<"receipt", "manifest", "arrays", "candidate", "reserve", "started", "run",
    "reverify", "same manifest", "same arrays", "validate", "report">>
MlpSuite    == <<"receipt", "manifest", "arrays", "candidate", "reserve", "started", "run",
                 "same build", "same manifest", "same arrays", "validate", "report">>

Steps == [consistency |-> Consistency, operations |-> Operations, evaluate |-> Evaluate,
          diagnose |-> Diagnose, benchmark |-> Benchmark, generation |-> Generation,
          lifecycle |-> Lifecycle, batch |-> Batch, parity |-> Parity,
          holdout |-> Holdout, policies |-> Policies, mlp |-> MlpSuite]
Tools == DOMAIN Steps

KindOf(tool) == CASE tool = "mlp" -> "mlp" [] tool \in {"holdout", "policies"} -> "decoder" [] OTHER -> "model"

(* These write a report of a failure too, once they hold an output.        *)
ReportsFailure(tool) == tool \in {"holdout", "policies", "mlp"}
(* These write one file; the others fill a directory they create.          *)
WritesFile(tool) == tool \in {"lifecycle", "batch", "parity"}
-----------------------------------------------------------------------------
Init ==
  /\ source \in Clean
  /\ binary = None /\ receipt = None /\ builder = None
  /\ reference \in {[manifest |-> v, arrays |-> v] : v \in References}
  /\ outputs = [o \in Outputs |-> None]
  /\ run = [p \in Runs |-> None]
  /\ builds = 0 /\ evaluations = 0 /\ changes = 0

(* What source_identity() returns for the checkout, and for a commit's     *)
(* archive.                                                                *)
Identity(tree)        == [tree |-> tree, archive |-> FALSE]
ArchiveIdentity(tree) == [tree |-> tree, archive |-> TRUE]

(* A build refuses to overwrite a binary or a receipt, and a dirty tree.   *)
StartBuild(kind) ==
  /\ builder = None /\ builds < MaxBuilds
  /\ binary = None /\ receipt = None
  /\ source \in Clean
  /\ builder' = [kind |-> kind, source |-> Identity(source), compiled |-> FALSE]
  /\ builds' = builds + 1
  /\ UNCHANGED <<source, binary, receipt, reference, outputs, run, evaluations, changes>>

(* Only the model's build compiles a commit's archive.                     *)
StartArchiveBuild(tree) ==
  /\ builder = None /\ builds < MaxBuilds
  /\ binary = None /\ receipt = None
  /\ builder' = [kind |-> "model", source |-> ArchiveIdentity(tree), compiled |-> FALSE]
  /\ builds' = builds + 1
  /\ UNCHANGED <<source, binary, receipt, reference, outputs, run, evaluations, changes>>

Compile ==
  /\ builder # None /\ ~builder.compiled
  /\ binary' = [kind |-> builder.kind,
                tree |-> IF builder.source.archive THEN builder.source.tree ELSE source]
  /\ builder' = [builder EXCEPT !.compiled = TRUE]
  /\ UNCHANGED <<source, receipt, reference, outputs, run, counters>>

(* Mutant: the sources are not looked at again.                            *)
UnchangedAssumed == TRUE
Unchanged == builder.source.archive \/ builder.source = Identity(source)

(* Decoder and MLP receipts also record when they were written.            *)
WriteReceipt ==
  /\ builder # None /\ builder.compiled /\ Unchanged
  /\ receipt' = [kind |-> builder.kind, source |-> builder.source, binary |-> binary,
                 created |-> IF builder.kind = "model" THEN 0 ELSE builds]
  /\ builder' = None
  /\ UNCHANGED <<source, binary, reference, outputs, run, counters>>

(* The compiler fails, the sources changed, or the process is killed.      *)
BuildStops ==
  /\ builder # None
  /\ builder' = None
  /\ UNCHANGED <<source, binary, receipt, reference, outputs, run, counters>>

VerifiedBuild(kind) ==
  /\ receipt # None /\ receipt.kind = kind
  /\ binary = receipt.binary
  /\ source \in Clean /\ receipt.source = Identity(source)
-----------------------------------------------------------------------------
Active(p) == run[p] # None
Step(p)   == Steps[run[p].tool][run[p].at]
At(p, steps) == Active(p) /\ Step(p) \in steps
Advanced(p)  == [run[p] EXCEPT !.at = @ + 1]

Start(p, tool, o, frozen) ==
  /\ ~Active(p) /\ evaluations < MaxEvaluations
  /\ frozen \/ tool \in {"policies", "mlp"}
  /\ run' = [run EXCEPT ![p] = [tool |-> tool, at |-> 1, output |-> o, frozen |-> frozen,
               reserved |-> FALSE, build |-> None, manifest |-> None, ok |-> TRUE,
               ran |-> {}, read |-> {}]]
  /\ evaluations' = evaluations + 1
  /\ UNCHANGED <<source, binary, receipt, reference, builder, outputs, builds, changes>>

(* The arrays are the manifest's, and the declarations, oracles and        *)
(* checksums it was captured from are those of the checkout.               *)
ArraysIntact(r)   == reference.arrays = r.manifest
DeclarationsIntact(r) == source \in Anchored[r.manifest]
InputsIntact(r)   == ArraysIntact(r) /\ DeclarationsIntact(r)
(* Policies on the development and checkpoint splits look at arrays only.  *)
ChecksDeclarations(r) == r.tool = "policies" => r.frozen

(* The checks that raise when they do not hold.                            *)
Holds(p) ==
  LET r == run[p] IN
  CASE Step(p) \in {"receipt", "reverify"} -> VerifiedBuild(KindOf(r.tool))
    [] Step(p) = "same build"     -> VerifiedBuild(KindOf(r.tool)) /\ receipt = r.build
    [] Step(p) = "same manifest"  -> reference.manifest = r.manifest
    [] Step(p) \in {"arrays", "arrays again"} ->
         IF ChecksDeclarations(r) THEN InputsIntact(r) ELSE ArraysIntact(r)
    [] Step(p) = "same arrays"    -> IF r.tool \in {"holdout", "mlp"} THEN InputsIntact(r) ELSE ArraysIntact(r)
    [] Step(p) = "candidate"      -> r.frozen => r.build.binary.tree = CandidateTree[r.manifest]
    [] Step(p) \in {"new file", "reserve"} -> outputs[r.output] = None
    [] Step(p) = "report"         -> WritesFile(r.tool) /\ outputs[r.output] # None
                                       => outputs[r.output].file
    [] Step(p) = "run"            -> binary # None
    [] Step(p) = "validate"       -> r.ok
    [] OTHER -> TRUE

Check(p) ==
  /\ At(p, {"reverify", "same build", "same manifest", "arrays", "same arrays", "arrays again",
            "candidate", "new file"})
  /\ Holds(p)
  /\ run' = [run EXCEPT ![p] = Advanced(p)]
  /\ UNCHANGED <<source, binary, receipt, reference, builder, outputs, counters>>

(* The results are accepted only if they are the census, all of it once,   *)
(* and nothing in them failed.                                             *)
Validate(p) ==
  /\ At(p, {"validate"}) /\ Holds(p)
  /\ run' = [run EXCEPT ![p] = Advanced(p)]
  /\ UNCHANGED <<source, binary, receipt, reference, builder, outputs, counters>>

TakeReceipt(p) ==
  /\ At(p, {"receipt"}) /\ Holds(p)
  /\ run' = [run EXCEPT ![p] = [Advanced(p) EXCEPT !.build = receipt]]
  /\ UNCHANGED <<source, binary, receipt, reference, builder, outputs, counters>>

(* The second reading of a consistency reference is a fresh one: it is     *)
(* checked against itself, and its digest is the one reported.             *)
TakeManifest(p) ==
  /\ At(p, {"manifest", "manifest again"})
  /\ run' = [run EXCEPT ![p] = [Advanced(p) EXCEPT !.manifest = reference.manifest]]
  /\ UNCHANGED <<source, binary, receipt, reference, builder, outputs, counters>>

(* Some reports name the manifest as it is when they are written.          *)
NamesManifestNow(tool) == tool \in {"consistency", "operations", "diagnose"}

Report(p, status) ==
  LET r == run[p] IN
  [file |-> WritesFile(r.tool), status |-> status, tool |-> r.tool, build |-> r.build,
   manifest |-> IF NamesManifestNow(r.tool) THEN reference.manifest ELSE r.manifest,
   frozen |-> r.frozen, ran |-> r.ran, read |-> r.read]

EmptyDirectory == [file |-> FALSE, status |-> "created"]

(* mkdir(exist_ok=False).                                                  *)
Reserve(p) ==
  /\ At(p, {"reserve"}) /\ Holds(p)
  /\ outputs' = [outputs EXCEPT ![run[p].output] = EmptyDirectory]
  /\ run' = [run EXCEPT ![p] = [Advanced(p) EXCEPT !.reserved = TRUE]]
  /\ UNCHANGED <<source, binary, receipt, reference, builder, counters>>

WriteStarted(p) ==
  /\ At(p, {"started"})
  /\ outputs' = [outputs EXCEPT ![run[p].output] = Report(p, "started")]
  /\ run' = [run EXCEPT ![p] = Advanced(p)]
  /\ UNCHANGED <<source, binary, receipt, reference, builder, counters>>

(* The driver runs; the decoder and MLP suites and the operation driver    *)
(* read the reference arrays themselves, and a suite also judges them.     *)
Execute(p) ==
  /\ At(p, {"run"}) /\ Holds(p)
  /\ \E complete \in IF ReportsFailure(run[p].tool) THEN BOOLEAN ELSE {TRUE} :
       run' = [run EXCEPT ![p] = [Advanced(p) EXCEPT !.ran = @ \cup {binary}, !.ok = @ /\ complete,
                 !.read = IF ReportsFailure(run[p].tool) \/ run[p].tool = "operations"
                            THEN @ \cup {reference.arrays} ELSE @]]
  /\ UNCHANGED <<source, binary, receipt, reference, builder, outputs, counters>>

(* The captures are compared with the arrays as they are now; a gate that  *)
(* fails is recorded.                                                      *)
Compare(p) ==
  /\ At(p, {"compare"})
  /\ \E passed \in BOOLEAN :
       run' = [run EXCEPT ![p] = [Advanced(p) EXCEPT !.read = @ \cup {reference.arrays}, !.ok = @ /\ passed]]
  /\ UNCHANGED <<source, binary, receipt, reference, builder, outputs, counters>>

WriteReport(p) ==
  /\ At(p, {"report"}) /\ Holds(p)
  /\ outputs' = [outputs EXCEPT ![run[p].output] = Report(p, IF run[p].ok THEN "passed" ELSE "failed")]
  /\ run' = [run EXCEPT ![p] = None]
  /\ UNCHANGED <<source, binary, receipt, reference, builder, counters>>

(* A check does not hold, or the driver or the comparison fails.           *)
Raise(p) ==
  /\ Active(p)
  /\ ~Holds(p) \/ At(p, {"run", "compare"})
  /\ outputs' = IF ReportsFailure(run[p].tool) /\ run[p].reserved
                  THEN [outputs EXCEPT ![run[p].output] = Report(p, "failed")] ELSE outputs
  /\ run' = [run EXCEPT ![p] = None]
  /\ UNCHANGED <<source, binary, receipt, reference, builder, counters>>

(* The process is killed.                                                  *)
Crash(p) ==
  /\ Active(p)
  /\ run' = [run EXCEPT ![p] = None]
  /\ UNCHANGED <<source, binary, receipt, reference, builder, outputs, counters>>
-----------------------------------------------------------------------------
(* The surroundings.                                                       *)
Recorded(tree) ==
  \/ builder # None /\ builder.source = Identity(tree)
  \/ \E p \in Runs : Active(p) /\ run[p].build # None /\ run[p].build.source.tree = tree

ChangeSource(tree) ==
  /\ changes < MaxChanges /\ tree # source /\ ~Recorded(tree)
  /\ source' = tree
  /\ changes' = changes + 1
  /\ UNCHANGED <<binary, receipt, reference, builder, outputs, run, builds, evaluations>>

(* The user clears a build away; the binary and its receipt are two files. *)
RemoveBuild ==
  /\ builder = None
  /\ \/ binary # None /\ binary' = None /\ UNCHANGED receipt
     \/ receipt # None /\ receipt' = None /\ UNCHANGED binary
  /\ UNCHANGED <<source, reference, builder, outputs, run, counters>>

(* Reference data is generated again: its manifest or its arrays first.    *)
ChangeReference(part, v) ==
  /\ changes < MaxChanges /\ reference[part] # v
  /\ \A p \in Runs : Active(p) => run[p].manifest # v
  /\ reference' = [reference EXCEPT ![part] = v]
  /\ changes' = changes + 1
  /\ UNCHANGED <<source, binary, receipt, builder, outputs, run, builds, evaluations>>

BuildStep ==
  \/ \E kind \in Kinds : StartBuild(kind)
  \/ \E tree \in Clean : StartArchiveBuild(tree)
  \/ Compile
  \/ WriteReceipt
  \/ BuildStops

RunStep(p) ==
  \/ \E tool \in Tools, o \in Outputs, frozen \in BOOLEAN : Start(p, tool, o, frozen)
  \/ Check(p)
  \/ Validate(p)
  \/ TakeReceipt(p)
  \/ TakeManifest(p)
  \/ Reserve(p)
  \/ WriteStarted(p)
  \/ Execute(p)
  \/ Compare(p)
  \/ WriteReport(p)
  \/ Raise(p)
  \/ Crash(p)

Surroundings ==
  \/ \E tree \in Clean \cup Dirty : ChangeSource(tree)
  \/ RemoveBuild
  \/ \E part \in {"manifest", "arrays"}, v \in References : ChangeReference(part, v)

Next == BuildStep \/ (\E p \in Runs : RunStep(p)) \/ Surroundings

Spec == Init /\ [][Next]_vars
-----------------------------------------------------------------------------
(* A receipt beside its binary names the sources the binary was compiled   *)
(* from: an edit during the compilation keeps the receipt from being       *)
(* written (build in model.py, decoder.py and mlp.py).                     *)
ReceiptIsTrue ==
  receipt # None /\ binary = receipt.binary => binary.tree = receipt.source.tree

(* A passed report of the decoder's holdout, its policies or the MLP suite *)
(* is about what it names: the one binary executed is the one of its build *)
(* receipt, the arrays read are the manifest's, and a frozen evaluation    *)
(* ran the candidate that the holdout was captured for, under the          *)
(* declarations of the capture (decoder.evaluate, evaluate_policies,       *)
(* mlp.evaluate).                                                          *)
PassIsWhatRan ==
  \A o \in Outputs :
    LET r == outputs[o] IN
    r # None /\ r.status = "passed" /\ ReportsFailure(r.tool) =>
      /\ r.ran = {r.build.binary} /\ r.read = {r.manifest}
      /\ r.build.source = Identity(r.build.binary.tree)
      /\ r.frozen => /\ r.build.binary.tree = CandidateTree[r.manifest]
                     /\ r.build.binary.tree \in Anchored[r.manifest]

(* What a passed report compared is a whole census: each row of a case     *)
(* once in every schedule, at every stage, in calls that have rows, and a  *)
(* short case of the consistency reference in every possible split         *)
(* (required_consistency_schedules in model.py, the expected_checks of     *)
(* decoder.py and mlp.py).                                                 *)
PassCoversRows ==
  \A o \in Outputs :
    LET r == outputs[o] IN
    r # None /\ r.status = "passed" =>
      /\ r.tool = "consistency" => ConsistencyCovers
      /\ r.tool \in {"holdout", "policies"} => DecoderCovers
      /\ r.tool = "mlp" => MlpCovers
=============================================================================
