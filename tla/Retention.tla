------------------------------ MODULE Retention ------------------------------
(***************************************************************************)
(* Retention of a finished prefill campaign (prefix_retention.py): pack    *)
(* puts the measurement, the sources of its commit and its receipts into a *)
(* fresh directory and prints the archive's digest; restore, given that    *)
(* digest, rebuilds a checkout in a fresh directory and replays the        *)
(* measurement there with the restored sources.                            *)
(*                                                                         *)
(* Contents are compared by digest, so a digest is the content.  A file    *)
(* that a campaign writes is named by the campaign it is of.  As the       *)
(* script asks, a campaign has completed before it is packed: its files do *)
(* not change while pack reads them.                                       *)
(***************************************************************************)
EXTENDS Naturals, Sequences, FiniteSets

CONSTANTS
  Campaigns, Complete,      \* campaigns, and those with all their runs
  CommitOf, DocumentsOf,    \* [Campaigns -> ...]: sources measured; declared documents
  PackStages, RestoreStages,        \* output directories
  MaxEdits, MaxFaults, MaxRestores  \* bounds

ASSUME RetentionAssumption ==
  /\ Complete \subseteq Campaigns /\ DOMAIN CommitOf = Campaigns /\ DOMAIN DocumentsOf = Campaigns
  /\ {MaxEdits, MaxFaults, MaxRestores} \subseteq Nat

VARIABLES
  inputs,     \* [InputFiles -> Campaigns]: what pack is pointed at
  packed,     \* [PackStages -> the files in it]
  packing,    \* the pack under way, or Nothing
  announced,  \* bundles whose digest pack has printed
  restored,   \* [RestoreStages -> what is in it, or Nothing]
  restoring,  \* the restore under way, or Nothing
  edits, faults, restores
retentionVars == <<inputs, packed, packing, announced, restored, restoring, edits, faults, restores>>
packVars    == <<packed, packing, announced>>
restoreVars == <<restored, restoring>>
counts      == <<edits, faults, restores>>

Nothing == [at |-> "nothing"]
Damaged == [at |-> "damaged"]

(* helper stands for the script itself, in the working tree.               *)
InputFiles == {"record", "manifest", "documents", "build", "validation", "helper"}
PackFiles  == <<"record", "manifest", "archive", "archive manifest">>

RetentionInit ==
  /\ \E c \in Complete : inputs = [file \in InputFiles |-> c]
  /\ packed = [s \in PackStages |-> Nothing] /\ packing = Nothing /\ announced = {}
  /\ restored = [d \in RestoreStages |-> Nothing] /\ restoring = Nothing
  /\ edits = 0 /\ faults = 0 /\ restores = 0
-----------------------------------------------------------------------------
(* measurement(): the record and its manifest agree and are complete.      *)
Measurement(c, manifest) == c \in Complete /\ manifest = c

SameCommit(file, c) == CommitOf[inputs[file]] = CommitOf[c]

(* What the archive holds.                                                 *)
Bundle(commit) ==
  [commit |-> commit, sources |-> commit, documents |-> DocumentsOf[inputs["record"]],
   record |-> inputs["record"], manifest |-> inputs["manifest"],
   helper |-> CommitOf[inputs["helper"]], validated |-> CommitOf[inputs["validation"]]]

Packable(commit) ==
  /\ Measurement(inputs["record"], inputs["manifest"])
  /\ CommitOf[inputs["record"]] = commit
  /\ DocumentsOf[inputs["documents"]] = DocumentsOf[inputs["record"]]
  /\ CommitOf[inputs["helper"]] = commit
  /\ \A file \in {"build", "validation"} : SameCommit(file, inputs["record"])

(* A fresh directory; nothing is written when a check fails.               *)
Pack(commit, s) ==
  /\ packing = Nothing /\ Packable(commit)
  /\ packed[s] = Nothing
  /\ packed' = [packed EXCEPT ![s] = [at |-> "stage"]]
  /\ packing' = [at |-> "write", stage |-> s, bundle |-> Bundle(commit), left |-> PackFiles]
  /\ UNCHANGED <<inputs, announced, restoreVars, counts>>

FileOf(bundle, file) ==
  CASE file = "record" -> bundle.record [] file = "manifest" -> bundle.manifest [] OTHER -> bundle

AsPacked(bundle) == [file \in {PackFiles[n] : n \in 1..4} |-> FileOf(bundle, file)]
Holding(dir)     == DOMAIN dir \ {"at"}

WritePacked ==
  /\ packing # Nothing /\ packing.left # <<>>
  /\ LET s    == packing.stage
         file == Head(packing.left)
     IN  packed' = [packed EXCEPT ![s] = [f \in Holding(@) \cup {file} |->
                      IF f = file THEN FileOf(packing.bundle, file) ELSE @[f]]]
  /\ packing' = [packing EXCEPT !.left = Tail(@)]
  /\ UNCHANGED <<inputs, announced, restoreVars, counts>>

(* The inventory of the directory is written and the digest printed.       *)
Announce ==
  /\ packing # Nothing /\ packing.left = <<>>
  /\ announced' = announced \cup {packing.bundle}
  /\ packing' = Nothing
  /\ UNCHANGED <<inputs, packed, restoreVars, counts>>

PackDies ==
  /\ packing # Nothing
  /\ packing' = Nothing
  /\ UNCHANGED <<inputs, packed, announced, restoreVars, counts>>
-----------------------------------------------------------------------------
(* restore: a printed digest, an archive, a manifest and a fresh directory *)
(* are given; the measurement is the one beside the archive.               *)
Restore(expected, a, m, d) ==
  /\ restoring = Nothing /\ restores < MaxRestores
  /\ Holding(packed[a]) # {} /\ Holding(packed[m]) # {}
  /\ restoring' = [at |-> "manifest", expected |-> expected, archive |-> a, manifest |-> m, stage |-> d,
                   bundle |-> Nothing, read |-> << >>]
  /\ restores' = restores + 1
  /\ UNCHANGED <<inputs, packVars, restored, edits, faults>>

File(s, file) == IF file \in Holding(packed[s]) THEN packed[s][file] ELSE Damaged

(* What is read at each step, and what is required of it.                  *)
Reads(r) ==
  CASE r.at = "manifest" -> File(r.manifest, "archive manifest")
    [] r.at = "archive"  -> File(r.archive, "archive")
    [] r.at = "record"   -> File(r.archive, "record")
    [] r.at = "original" -> File(r.archive, "manifest")

(* Mutant: the originals are not compared with the archive's bindings.     *)
AcceptedUnbound(r) ==
  CASE r.at = "manifest" -> Reads(r) # Damaged
    [] r.at = "archive"  -> Reads(r) = r.expected /\ Reads(r) = r.bundle
    [] r.at = "record"   -> Reads(r) # Damaged
    [] r.at = "original" -> Reads(r) # Damaged
Accepted(r) ==
  CASE r.at = "manifest" -> Reads(r) # Damaged
    [] r.at = "archive"  -> Reads(r) = r.expected /\ Reads(r) = r.bundle
    [] r.at = "record"   -> Reads(r) = r.bundle.record
    [] r.at = "original" -> Reads(r) = r.bundle.manifest

After == [manifest |-> "archive", archive |-> "record", record |-> "original", original |-> "fresh"]

Read ==
  /\ restoring # Nothing /\ restoring.at \in DOMAIN After
  /\ Accepted(restoring)
  /\ restoring' = [restoring EXCEPT !.at = After[restoring.at],
       !.bundle = IF restoring.at = "manifest" THEN Reads(restoring) ELSE @,
       !.read = IF restoring.at \in {"record", "original"} THEN Append(@, Reads(restoring)) ELSE @]
  /\ UNCHANGED <<inputs, packVars, restored, counts>>

WriteRestored ==
  /\ restoring # Nothing /\ restoring.at = "fresh"
  /\ restored[restoring.stage] = Nothing
  /\ restored' = [restored EXCEPT ![restoring.stage] =
       [at |-> "written", expected |-> restoring.expected, record |-> restoring.read[1],
        manifest |-> restoring.read[2], sources |-> restoring.bundle.sources,
        helper |-> restoring.bundle.helper, documents |-> restoring.bundle.documents,
        validated |-> restoring.bundle.validated]]
  /\ restoring' = [restoring EXCEPT !.at = "verify"]
  /\ UNCHANGED <<inputs, packVars, counts>>

(* What was written is read again: the measurement is whole, and the       *)
(* commit, the sources and the documents the archive names are its own.    *)
Verified(dir, bundle) ==
  /\ Measurement(dir.record, dir.manifest)
  /\ CommitOf[dir.record] = bundle.commit
  /\ dir.sources = CommitOf[dir.record]
  /\ DocumentsOf[dir.record] = dir.documents

Verify ==
  /\ restoring # Nothing /\ restoring.at = "verify"
  /\ Verified(restored[restoring.stage], restoring.bundle)
  /\ restoring' = [restoring EXCEPT !.at = "replay"]
  /\ UNCHANGED <<inputs, packVars, restored, counts>>

(* cpu-check replays the measurement with the restored checker: it         *)
(* accepts what that checker summarised, unless something else fails.      *)
CpuCheckPasses(dir) ==
  Measurement(dir.record, dir.manifest) /\ dir.sources = CommitOf[dir.record]

(* The exit code is recorded before it is required to be zero.             *)
Replay(passes) ==
  /\ restoring # Nothing /\ restoring.at = "replay"
  /\ passes => CpuCheckPasses(restored[restoring.stage])
  /\ restored' = [restored EXCEPT ![restoring.stage].at = IF passes THEN "replayed" ELSE "failed"]
  /\ restoring' = Nothing
  /\ UNCHANGED <<inputs, packVars, counts>>

(* A check fails, the replay takes too long, or the process is killed.     *)
RestoreStops ==
  /\ restoring # Nothing
  /\ restoring' = Nothing
  /\ UNCHANGED <<inputs, packVars, restored, counts>>
-----------------------------------------------------------------------------
(* Another campaign is measured at the place, or one of its files or the   *)
(* working tree's helper is replaced by another campaign's.                *)
Measure(c) ==
  /\ edits < MaxEdits /\ packing = Nothing
  /\ inputs' = [file \in InputFiles |-> c]
  /\ edits' = edits + 1
  /\ UNCHANGED <<packVars, restoreVars, faults, restores>>

Edit(file, c) ==
  /\ edits < MaxEdits /\ packing = Nothing
  /\ inputs[file] # c
  /\ inputs' = [inputs EXCEPT ![file] = c]
  /\ edits' = edits + 1
  /\ UNCHANGED <<packVars, restoreVars, faults, restores>>

(* A packed file is damaged, or overwritten by another directory's.        *)
Fault(s, file, content) ==
  /\ faults < MaxFaults
  /\ file \in Holding(packed[s]) /\ packed[s][file] # content
  /\ packed' = [packed EXCEPT ![s][file] = content]
  /\ faults' = faults + 1
  /\ UNCHANGED <<inputs, packing, announced, restoreVars, edits, restores>>

RetentionNext ==
  \/ \E c \in Campaigns, s \in PackStages : Pack(CommitOf[c], s)
  \/ WritePacked \/ Announce \/ PackDies
  \/ \E expected \in announced, a \in PackStages, m \in PackStages, d \in RestoreStages :
       Restore(expected, a, m, d)
  \/ Read \/ WriteRestored \/ Verify \/ RestoreStops
  \/ \E passes \in BOOLEAN : Replay(passes)
  \/ \E c \in Campaigns : Measure(c) \/ \E file \in InputFiles : Edit(file, c)
  \/ \E s \in PackStages, t \in PackStages : \E file \in Holding(packed[s]) :
       Fault(s, file, IF s = t THEN Damaged ELSE File(t, file))
-----------------------------------------------------------------------------
(* A restoration that reports success holds the measurement that was       *)
(* packed under the digest it was given, complete, with the sources and    *)
(* the documents of that measurement and a validation of those sources:    *)
(* whatever was edited before, damaged or exchanged between packs since,   *)
(* or cut short (pack and restore in prefix_retention.py).  And what pack  *)
(* prints, restore accepts: of a directory that nothing touched since, no  *)
(* check of restore refuses any file, and the replay may pass.             *)
RestoredIsMeasured ==
  \A d \in RestoreStages :
    LET r == restored[d] IN
    r.at = "replayed" =>
      /\ r.record \in Complete /\ r.record = r.manifest
      /\ r.expected \in announced /\ r.record = r.expected.record
      /\ r.sources = CommitOf[r.record] /\ r.documents = DocumentsOf[r.record]
      /\ r.helper = r.sources /\ r.validated = r.sources

Untouched(r) ==
  /\ r.archive = r.manifest /\ packed[r.archive] = AsPacked(r.expected)
  /\ r.bundle \in {Nothing, r.expected}
  /\ \A n \in DOMAIN r.read : r.read[n] = FileOf(r.expected, PackFiles[n])
PackRestores ==
  restoring # Nothing /\ Untouched(restoring) =>
    /\ restoring.at \in DOMAIN After => Accepted(restoring)
    /\ restoring.at = "verify" => Verified(restored[restoring.stage], restoring.bundle)
    /\ restoring.at = "replay" => CpuCheckPasses(restored[restoring.stage])

RestoresWhatIsPacked == RestoredIsMeasured /\ PackRestores
=============================================================================
