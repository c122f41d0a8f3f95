--------------------------- MODULE CheckoutBuild ---------------------------
(***************************************************************************)
(* What stays in each checkout because it depends on its sources: the      *)
(* tokenizer tables (models/qwen2/tokenizer_assets.py) and the native      *)
(* binaries (runtime/build.py).  Both are keyed to hashes of the sources,  *)
(* which are modelled as a version; what is made from sources is told by   *)
(* the set of versions that were read.  Of the binaries, each of which has *)
(* a directory and a lock of its own, one is modelled.                     *)
(***************************************************************************)
EXTENDS ModelStore

CONSTANTS MaxVersion,     \* sources are versions 1 .. MaxVersion
          MaxEdits,       \* bound on edits
          MayEditTables,  \* whether sources change while tables are generated
          MayRestore      \* whether earlier sources come back during a build

ASSUME BuildAssumption ==
  /\ MaxVersion \in Nat \ {0} /\ MaxEdits \in Nat
  /\ MayEditTables \in BOOLEAN /\ MayRestore \in BOOLEAN

VARIABLES
  version,    \* checkout -> its sources
  tables,     \* checkout -> the versions its tables.bin was made from
  manifest,   \* checkout -> what the tables' manifest says
  binary,     \* checkout -> the versions its binary was compiled from
  receipt,    \* checkout -> what the binary's receipt says
  assetLock,  \* checkout -> the holder of the lock of its assets
  buildLock,  \* checkout -> the holder of the lock of the binary's directory
  edits       \* edits so far

buildVars == <<version, tables, manifest, binary, receipt, assetLock, buildLock, edits>>

Version  == 1 .. MaxVersion
None     == {}
NoRecord == [sources |-> 0, content |-> None]

BuildInit ==
  /\ version = [c \in Checkout |-> 1]
  /\ tables = [c \in Checkout |-> None]
  /\ manifest = [c \in Checkout |-> NoRecord]
  /\ binary = [c \in Checkout |-> None]
  /\ receipt = [c \in Checkout |-> NoRecord]
  /\ assetLock = [c \in Checkout |-> Nobody]
  /\ buildLock = [c \in Checkout |-> Nobody]
  /\ edits = 0

(* prepared_valid: the manifest names the sources and the tables at hand.  *)
PreparedValid(c) ==
  tables[c] # None /\ manifest[c] = [sources |-> version[c], content |-> tables[c]]

(* _current, for the sources a build has read.                             *)
Current(c, identity) ==
  binary[c] # None /\ receipt[c] = [sources |-> identity, content |-> binary[c]]

Continue(p, r) == run' = [run EXCEPT ![p] = r]
-----------------------------------------------------------------------------
(* A command that raises gives its lock back.                              *)
FailAssets(p) ==
  /\ Stops(p)
  /\ assetLock' = [assetLock EXCEPT ![home[p]] = Nobody]

(* ensure_prepared, under the lock of the checkout's asset directory.      *)
(* ensure_source: only the tokenizer command may download, and its         *)
(* download is a file of the checkout's own, put over a dangling link.     *)
EnsureSource(p) ==
  LET seen == Seen(home[p], "checkpoint")
      next == IF seen = Valid THEN "tables"
              ELSE IF seen = Absent /\ run[p].command = "tokenizer" THEN "download" ELSE "idle"
  IN  /\ At(p, "lock tables")
      /\ assetLock[home[p]] = Nobody
      /\ IF next = "idle" THEN FailAssets(p)
         ELSE Goto(p, next) /\ assetLock' = [assetLock EXCEPT ![home[p]] = p]
      /\ UNCHANGED <<storeVars, faults, runs, version, tables, manifest, binary, receipt, buildLock, edits>>

Download(p) ==
  /\ At(p, "download")
  /\ \/ /\ placed' = [placed EXCEPT ![home[p]]["checkpoint"] = "local"]
        /\ Goto(p, "tables")
        /\ UNCHANGED assetLock
     \/ FailAssets(p) /\ UNCHANGED placed
  /\ UNCHANGED <<stored, sealed, storeLock, home, faults, runs>>
  /\ UNCHANGED <<version, tables, manifest, binary, receipt, buildLock, edits>>

KeepTables(p) ==
  /\ At(p, "tables")
  /\ PreparedValid(home[p])
  /\ assetLock' = [assetLock EXCEPT ![home[p]] = Nobody]
  /\ Goto(p, "lock binary")
  /\ UNCHANGED <<storeVars, faults, runs, version, tables, manifest, binary, receipt, buildLock, edits>>

(* The generator is loaded from the sources as they are when it starts.    *)
StartGenerator(p) ==
  /\ At(p, "tables")
  /\ ~PreparedValid(home[p])
  /\ Continue(p, [run[p] EXCEPT !.read = {version[home[p]]}, !.at = "generate"])
  /\ UNCHANGED <<storeVars, faults, runs, buildVars>>

(* It hashes the sources when it has its tables, writes these, and writes  *)
(* the manifest last.                                                      *)
WriteTables(p) ==
  /\ At(p, "generate")
  /\ \/ /\ tables' = [tables EXCEPT ![home[p]] = run[p].read]
        /\ Continue(p, [run[p] EXCEPT !.identity = version[home[p]], !.at = "manifest"])
        /\ UNCHANGED assetLock
     \/ FailAssets(p) /\ UNCHANGED tables
  /\ UNCHANGED <<storeVars, faults, runs, version, manifest, binary, receipt, buildLock, edits>>

WriteManifest(p) ==
  /\ At(p, "manifest")
  /\ manifest' = [manifest EXCEPT ![home[p]] = [sources |-> run[p].identity, content |-> run[p].read]]
  /\ Goto(p, "check tables")
  /\ UNCHANGED <<storeVars, faults, runs, version, tables, binary, receipt, assetLock, buildLock, edits>>

CheckTables(p) ==
  /\ At(p, "check tables")
  /\ IF PreparedValid(home[p])
     THEN Continue(p, [run[p] EXCEPT !.identity = 0, !.read = {}, !.at = "lock binary"])
     ELSE Stops(p)
  /\ assetLock' = [assetLock EXCEPT ![home[p]] = Nobody]
  /\ UNCHANGED <<storeVars, faults, runs, version, tables, manifest, binary, receipt, buildLock, edits>>
-----------------------------------------------------------------------------
(* ensure_binary, under the lock of the binary's directory, starts from    *)
(* the sources' hashes.                                                    *)
ReadIdentity(p) ==
  LET v == version[home[p]]
  IN  Continue(p, IF Current(home[p], v) THEN [run[p] EXCEPT !.at = "built"]
                  ELSE [run[p] EXCEPT !.identity = v, !.at = "compile"])

LockBuild(p) ==
  /\ At(p, "lock binary")
  /\ buildLock[home[p]] = Nobody
  /\ buildLock' = [buildLock EXCEPT ![home[p]] = p]
  /\ ReadIdentity(p)
  /\ UNCHANGED <<storeVars, faults, runs, version, tables, manifest, binary, receipt, assetLock, edits>>

FailBuild(p) ==
  /\ Stops(p)
  /\ buildLock' = [buildLock EXCEPT ![home[p]] = Nobody]

(* The compiler reads the sources while it runs.                           *)
Compile(p) ==
  /\ At(p, "compile")
  /\ \/ /\ Continue(p, [run[p] EXCEPT !.read = {version[home[p]]}, !.at = "compiled"])
        /\ UNCHANGED buildLock
     \/ FailBuild(p)
  /\ UNCHANGED <<storeVars, faults, runs, version, tables, manifest, binary, receipt, assetLock, edits>>

(* The sources are hashed again; mutant: they are not.                     *)
CompareNothing(p) ==
  /\ At(p, "compiled")
  /\ Continue(p, [run[p] EXCEPT !.read = @ \cup {version[home[p]]}, !.at = "replace"])
  /\ UNCHANGED <<storeVars, faults, runs, buildVars>>

CompareSources(p) ==
  /\ At(p, "compiled")
  /\ IF run[p].identity = version[home[p]]
     THEN /\ Continue(p, [run[p] EXCEPT !.read = @ \cup {version[home[p]]}, !.at = "replace"])
          /\ UNCHANGED buildLock
     ELSE FailBuild(p)
  /\ UNCHANGED <<storeVars, faults, runs, version, tables, manifest, binary, receipt, assetLock, edits>>

ReplaceBinary(p) ==
  /\ At(p, "replace")
  /\ binary' = [binary EXCEPT ![home[p]] = run[p].read]
  /\ Goto(p, "receipt")
  /\ UNCHANGED <<storeVars, faults, runs, version, tables, manifest, receipt, assetLock, buildLock, edits>>

WriteReceipt(p) ==
  /\ At(p, "receipt")
  /\ receipt' = [receipt EXCEPT ![home[p]] = [sources |-> run[p].identity, content |-> run[p].read]]
  /\ Continue(p, [run[p] EXCEPT !.identity = 0, !.read = {}, !.at = "built"])
  /\ UNCHANGED <<storeVars, faults, runs, version, tables, manifest, binary, assetLock, buildLock, edits>>

Build(p) ==
  \/ EnsureSource(p) \/ Download(p)
  \/ KeepTables(p) \/ StartGenerator(p) \/ WriteTables(p) \/ WriteManifest(p) \/ CheckTables(p)
  \/ LockBuild(p) \/ Compile(p) \/ CompareSources(p)
  \/ ReplaceBinary(p) \/ WriteReceipt(p)
=============================================================================
