---------------------------- MODULE FixtureCache ----------------------------
(***************************************************************************)
(* The shared store of oracle fixtures (validation/fixtures.py) and the    *)
(* validation that reads through it (validation/suite.py), for one family. *)
(* A worktree runs one validation, or one hand command, at a time; the     *)
(* worktrees share the store and nothing else.  Hashes are injective: the  *)
(* inputs of a generator are a version, the version is the entry's key,    *)
(* and a tree is told by the versions its generator steps read and the     *)
(* machine they ran on.                                                    *)
(***************************************************************************)
EXTENDS Integers, FiniteSets

CONSTANTS Worktree,     \* the repository's worktrees
          Attended,     \* those where someone edits, regenerates and works by hand
          MaxVersion,   \* generator inputs are versions 1 .. MaxVersion
          MayRevert,    \* whether an edit may restore earlier inputs
          PruneAlone,   \* whether prune runs only while no validation does
          MaxFaults,    \* bound on crashes, damaged trees and upgrades
          MaxPrunes     \* bound on prunes

ASSUME FixtureAssumption ==
  /\ IsFiniteSet(Worktree) /\ Attended \subseteq Worktree
  /\ MaxVersion \in Nat \ {0}
  /\ MaxFaults \in Nat /\ MaxPrunes \in Nat
  /\ MayRevert \in BOOLEAN
  /\ PruneAlone \in BOOLEAN

VARIABLES
  inPlace,    \* whether the generator writes to its fixed checkout path
  inputs,     \* worktree -> the version of its generator inputs
  checkout,   \* worktree -> what build/oracle_data/<family> is
  kept,       \* worktrees with a set-aside directory that holds files of their own
  wrote,      \* worktrees where someone added files of their own (history)
  tree,       \* key -> the entry's tree
  record,     \* key -> what the entry's record describes
  lockFile,   \* key -> the inode at the lock's path, 0 when there is none
  staging,    \* worktree -> the tree its validation is staging
  stale,      \* keys with staging left by a validation that died
  run,        \* worktree -> the state of its validation
  pruning,    \* the state of a prune
  machine,    \* the macOS and Python the generators run on
  faults,     \* crashes, damaged trees and upgrades so far
  prunes      \* prunes so far

inputVars == <<inPlace, inputs, machine, faults, prunes>>
localVars == <<checkout, kept, wrote>>
storeVars == <<tree, record, lockFile, staging, stale>>
fixtureVars == <<inputVars, localVars, storeVars, run, pruning>>

None    == [kind |-> "none"]
Version == 1 .. MaxVersion
Inode   == 1 .. 2 + Cardinality(Worktree)

(* A checkout path holds nothing, a link to an entry, or a real directory, *)
(* which may hold files that no validation generates.                      *)
Link(k)   == [kind |-> "link", key |-> k]
Dir(own)  == [kind |-> "directory", own |-> own]
Tree(from, by, damaged) == [kind |-> "tree", from |-> from, by |-> by, damaged |-> damaged]
(* What settling a directory keeps: one with files of its own.             *)
Own(w, node) == {x \in {w} : node.kind = "directory" /\ node.own}

Content(t) == [kind |-> "content", from |-> t.from, by |-> t.by]

Idle == [pc |-> "idle", sources |-> 1, regenerate |-> FALSE, locked |-> FALSE, inode |-> 0,
         record |-> None, previous |-> None, made |-> {}, differ |-> FALSE, read |-> {}]
NoPrune == [pc |-> "idle", used |-> {}, items |-> {}, item |-> <<"none", 0>>, locked |-> FALSE, inode |-> 0]

(* verify: the tree holds exactly the files the record lists.              *)
Verifies(k, described) ==
  described # None /\ tree[k] # None /\ ~tree[k].damaged /\ Content(tree[k]) = described

FixtureInit ==
  /\ inPlace \in BOOLEAN
  /\ inputs \in {f \in [Worktree -> Version] : \A w \in Attended : f[w] = 1}
  /\ checkout = [w \in Worktree |-> None]
  /\ kept = {}
  /\ wrote = {}
  /\ tree = [k \in Version |-> None]
  /\ record = [k \in Version |-> None]
  /\ lockFile = [k \in Version |-> 0]
  /\ staging = [w \in Worktree |-> None]
  /\ stale = {}
  /\ run = [w \in Worktree |-> Idle]
  /\ pruning = NoPrune
  /\ machine = 1
  /\ faults = 0
  /\ prunes = 0

-----------------------------------------------------------------------------
At(w, pc)     == run[w].pc = pc
Becomes(w, r) == run' = [run EXCEPT ![w] = r]
Goto(w, pc)   == run' = [run EXCEPT ![w].pc = pc]

(* flock locks what a process opened, not the path it opened.              *)
Busy(k, i) ==
  \/ \E w \in Worktree : run[w].locked /\ run[w].sources = k /\ run[w].inode = i
  \/ pruning.locked /\ pruning.item[2] = k /\ pruning.inode = i
OpenInodes(k) == {run[w].inode : w \in {x \in Worktree : run[x].sources = k}}
                   \cup {i \in {pruning.inode} : pruning.item[2] = k}

(* prepare: the inputs are read once, before the family is resolved.       *)
Start(w, regenerate) ==
  /\ At(w, "idle")
  /\ PruneAlone => pruning.pc = "idle"
  /\ Becomes(w, [Idle EXCEPT !.pc = "record", !.sources = inputs[w], !.regenerate = regenerate])
  /\ UNCHANGED <<inputVars, localVars, storeVars, pruning>>

(* verify reads the record first and the tree after it.                    *)
ReadRecord(w) ==
  /\ At(w, "record")
  /\ Becomes(w, [run[w] EXCEPT !.record = record[run[w].sources], !.pc = "scan"])
  /\ UNCHANGED <<inputVars, localVars, storeVars, pruning>>

(* ensure: a hit is attached, outside the lock; a miss takes the lock and  *)
(* verifies again, then rebuilds.                                          *)
Scan(w) ==
  LET r   == run[w]
      hit == Verifies(r.sources, r.record)
  IN /\ At(w, "scan")
     /\ Becomes(w, IF hit /\ ~r.regenerate THEN [r EXCEPT !.locked = FALSE, !.inode = 0, !.pc = "attach"]
                   ELSE IF r.locked THEN [r EXCEPT !.record = IF hit THEN @ ELSE None, !.pc = "clear"]
                   ELSE [r EXCEPT !.pc = "open"])
     /\ UNCHANGED <<inputVars, localVars, storeVars, pruning>>

(* locked: open creates the file when there is none, then waits for it.    *)
OpenLock(w) ==
  LET k   == run[w].sources
      new == CHOOSE i \in Inode : i \notin OpenInodes(k)
  IN /\ At(w, "open")
     /\ lockFile' = [lockFile EXCEPT ![k] = IF @ = 0 THEN new ELSE @]
     /\ Becomes(w, [run[w] EXCEPT !.inode = lockFile'[k], !.pc = "flock"])
     /\ UNCHANGED <<inputVars, localVars, tree, record, staging, stale, pruning>>

(* Mutant: what was verified before the wait is not verified again.        *)
TakeLockUnverified(w) ==
  /\ At(w, "flock")
  /\ ~Busy(run[w].sources, run[w].inode)
  /\ Becomes(w, [run[w] EXCEPT !.locked = TRUE, !.record = None, !.pc = "clear"])
  /\ UNCHANGED <<inputVars, localVars, storeVars, pruning>>

TakeLock(w) ==
  /\ At(w, "flock")
  /\ ~Busy(run[w].sources, run[w].inode)
  /\ Becomes(w, [run[w] EXCEPT !.locked = TRUE, !.pc = "record"])
  /\ UNCHANGED <<inputVars, localVars, storeVars, pruning>>

-----------------------------------------------------------------------------
(* rebuild, under the lock.  Staging left for this key goes first, and so  *)
(* does that of any process still writing it.                              *)
Clear(w) ==
  LET k == run[w].sources
  IN /\ At(w, "clear")
     /\ stale' = stale \ {k}
     /\ staging' = [x \in Worktree |-> IF run[x].sources = k THEN None ELSE staging[x]]
     /\ \/ Goto(w, IF run[w].record = None /\ tree[k] # None THEN "aside" ELSE "stash")
        \/ Becomes(w, Idle)      \* require_space raises
     /\ UNCHANGED <<inputVars, localVars, tree, record, lockFile, pruning>>

SetAsideTree(w) ==
  /\ At(w, "aside")
  /\ tree[run[w].sources] # None
  /\ tree' = [tree EXCEPT ![run[w].sources] = None]
  /\ Goto(w, "asideRecord")
  /\ UNCHANGED <<inputVars, localVars, record, lockFile, staging, stale, pruning>>

SetAsideRecord(w) ==
  /\ At(w, "asideRecord")
  /\ record' = [record EXCEPT ![run[w].sources] = None]
  /\ Goto(w, "stash")
  /\ UNCHANGED <<inputVars, localVars, tree, lockFile, staging, stale, pruning>>

(* stash: a generator that writes in place needs its path clear; what was  *)
(* there comes back when generation fails.                                 *)
Stash(w) ==
  /\ At(w, "stash")
  /\ IF inPlace
     THEN /\ checkout' = [checkout EXCEPT ![w] = None]
          /\ kept' = kept \cup Own(w, checkout[w])
          /\ Becomes(w, [run[w] EXCEPT !.previous = checkout[w], !.pc = "step1"])
     ELSE Goto(w, "step1") /\ UNCHANGED <<checkout, kept>>
  /\ UNCHANGED <<inputVars, wrote, storeVars, pruning>>

(* A step of the generator reads the inputs as they are when it runs.      *)
RunStep(w) ==
  LET first == At(w, "step1")
      made  == run[w].made \cup {inputs[w]}
  IN /\ At(w, "step1") \/ (At(w, "step2") /\ (inPlace \/ staging[w] # None))
     /\ IF inPlace
        THEN checkout' = [checkout EXCEPT ![w] = Dir(FALSE)] /\ UNCHANGED staging
        ELSE staging' = [staging EXCEPT ![w] = Tree(made, machine, FALSE)] /\ UNCHANGED checkout
     /\ Becomes(w, [run[w] EXCEPT !.made = made, !.pc = IF first THEN "step2" ELSE "changed"])
     /\ UNCHANGED <<inputVars, kept, wrote, tree, record, lockFile, stale, pruning>>

(* Mutant: inputs that change during generation are not noticed.           *)
ChangedInputsIgnored(w) ==
  /\ At(w, "changed")
  /\ IF inPlace
     THEN /\ staging' = [staging EXCEPT ![w] = Tree(run[w].made, machine, FALSE)]
          /\ checkout' = [checkout EXCEPT ![w] = None]
     ELSE staging[w] # None /\ UNCHANGED <<checkout, staging>>
  /\ Becomes(w, [run[w] EXCEPT !.made = {}, !.pc = "table"])
  /\ UNCHANGED <<inputVars, kept, wrote, tree, record, lockFile, stale, pruning>>

(* generate: inputs that changed since they were read are refused; an      *)
(* in-place tree then moves into staging.                                  *)
ChangedInputs(w) ==
  /\ At(w, "changed")
  /\ inputs[w] = run[w].sources
  /\ IF inPlace
     THEN /\ staging' = [staging EXCEPT ![w] = Tree(run[w].made, machine, FALSE)]
          /\ checkout' = [checkout EXCEPT ![w] = None]
     ELSE staging[w] # None /\ UNCHANGED <<checkout, staging>>
  /\ Becomes(w, [run[w] EXCEPT !.made = {}, !.pc = "table"])
  /\ UNCHANGED <<inputVars, kept, wrote, tree, record, lockFile, stale, pruning>>

(* table, then write_record for a new entry, or the comparison that        *)
(* regenerate asks for; a tree that differs is published beside the entry. *)
Describe(w) ==
  LET r    == run[w]
      made == Content(staging[w])
  IN /\ At(w, "table")
     /\ staging[w] # None
     /\ IF r.record = None
        THEN /\ record' = [record EXCEPT ![r.sources] = made]
             /\ Becomes(w, [r EXCEPT !.record = made, !.pc = "publish"])
             /\ UNCHANGED staging
        ELSE /\ staging' = [staging EXCEPT ![w] = None]
             /\ Becomes(w, [r EXCEPT !.differ = made # r.record, !.pc = "attach"])
             /\ UNCHANGED record
     /\ UNCHANGED <<inputVars, localVars, tree, lockFile, stale, pruning>>

(* publish_directory: a rename, which refuses to replace a tree.           *)
Publish(w) ==
  LET k == run[w].sources
  IN /\ At(w, "publish")
     /\ staging[w] # None /\ tree[k] = None
     /\ tree' = [tree EXCEPT ![k] = staging[w]]
     /\ staging' = [staging EXCEPT ![w] = None]
     /\ Goto(w, "attach")
     /\ UNCHANGED <<inputVars, localVars, record, lockFile, stale, pruning>>

(* generate and rebuild undo what they did on an error or an interrupt.    *)
RebuildFails(w) ==
  /\ run[w].pc \in {"step1", "step2", "changed", "table", "publish"}
  /\ staging' = [staging EXCEPT ![w] = None]
  /\ IF inPlace
     THEN /\ checkout' = [checkout EXCEPT ![w] = run[w].previous]
          /\ kept' = kept \ Own(w, run[w].previous)
     ELSE UNCHANGED <<checkout, kept>>
  /\ Becomes(w, Idle)
  /\ UNCHANGED <<inputVars, wrote, tree, record, lockFile, stale, pruning>>

-----------------------------------------------------------------------------
(* Mutant: the directory is removed without looking at what it holds.      *)
AttachRemoves(w) ==
  /\ At(w, "attach")
  /\ checkout[w].kind = "directory"
  /\ checkout' = [checkout EXCEPT ![w] = None]
  /\ UNCHANGED <<inputVars, kept, wrote, storeVars, run, pruning>>

(* attach: a real directory is set aside, and removed when a validation    *)
(* wrote every file in it.                                                 *)
AttachAside(w) ==
  /\ At(w, "attach")
  /\ checkout[w].kind = "directory"
  /\ checkout' = [checkout EXCEPT ![w] = None]
  /\ kept' = kept \cup Own(w, checkout[w])
  /\ UNCHANGED <<inputVars, wrote, storeVars, run, pruning>>

(* ensure_link, then the directory stashed for generation is settled; a    *)
(* regenerated tree that differs fails the run with the entry linked.      *)
AttachLink(w) ==
  LET r == run[w]
  IN /\ At(w, "attach")
     /\ checkout[w].kind # "directory"
     /\ checkout' = [checkout EXCEPT ![w] = Link(r.sources)]
     /\ Becomes(w, IF r.differ THEN Idle
                   ELSE [Idle EXCEPT !.pc = "tests", !.sources = r.sources])
     /\ UNCHANGED <<inputVars, kept, wrote, storeVars, pruning>>

(* A test reads through the link and fails when there is nothing whole     *)
(* behind it.                                                              *)
Test(w) ==
  LET k == checkout[w].key
  IN /\ At(w, "tests")
     /\ IF tree[k] = None \/ tree[k].damaged THEN Becomes(w, Idle)
        ELSE Becomes(w, [run[w] EXCEPT !.read = @ \cup {Content(tree[k])}])
     /\ UNCHANGED <<inputVars, localVars, storeVars, pruning>>

(* Mutant: a run passes whatever became of the inputs.                     *)
PassUnconfirmed(w) ==
  /\ At(w, "tests") /\ run[w].read # {}
  /\ Goto(w, "passed")
  /\ UNCHANGED <<inputVars, localVars, storeVars, pruning>>

(* main ends with confirm_unchanged; the run passes or fails.              *)
Confirm(w) ==
  /\ At(w, "tests") /\ run[w].read # {}
  /\ IF inputs[w] = run[w].sources THEN Goto(w, "passed") ELSE Becomes(w, Idle)
  /\ UNCHANGED <<inputVars, localVars, storeVars, pruning>>

Finish(w) ==
  /\ At(w, "passed")
  /\ Becomes(w, Idle)
  /\ UNCHANGED <<inputVars, localVars, storeVars, pruning>>

-----------------------------------------------------------------------------
(* generate_locally, without the cache: a link goes, a real directory is   *)
(* written over, whether or not the steps succeed.                         *)
GenerateLocally(w) ==
  /\ At(w, "idle")
  /\ PruneAlone => pruning.pc = "idle"
  /\ checkout' = [checkout EXCEPT ![w] = Dir(@.kind = "directory" /\ @.own)]
  /\ UNCHANGED <<inputVars, kept, wrote, storeVars, run, pruning>>

(* detach: a clone of the entry replaces the link.                         *)
DetachClone(w) ==
  /\ At(w, "idle")
  /\ PruneAlone => pruning.pc = "idle"
  /\ checkout[w].kind = "link"
  /\ IF tree[checkout[w].key] = None
     THEN checkout' = [checkout EXCEPT ![w] = None] /\ UNCHANGED run
     ELSE Becomes(w, [Idle EXCEPT !.pc = "detach"]) /\ UNCHANGED checkout
  /\ UNCHANGED <<inputVars, kept, wrote, storeVars, pruning>>

DetachUnlink(w) ==
  /\ At(w, "detach")
  /\ checkout' = [checkout EXCEPT ![w] = None]
  /\ Goto(w, "detached")
  /\ UNCHANGED <<inputVars, kept, wrote, storeVars, pruning>>

DetachRename(w) ==
  /\ At(w, "detached")
  /\ checkout' = [checkout EXCEPT ![w] = Dir(FALSE)]
  /\ Becomes(w, Idle)
  /\ UNCHANGED <<inputVars, kept, wrote, storeVars, pruning>>

(* Someone edits the generators or the anchors, at any time, or adds a     *)
(* file of their own to a directory that is not linked.                    *)
Edit(w) ==
  /\ \E v \in Version \ {inputs[w]} :
       (MayRevert \/ v > inputs[w]) /\ inputs' = [inputs EXCEPT ![w] = v]
  /\ UNCHANGED <<inPlace, machine, faults, prunes, localVars, storeVars, run, pruning>>

AddOwnFile(w) ==
  /\ At(w, "idle") /\ checkout[w].kind = "directory" /\ w \notin wrote
  /\ checkout' = [checkout EXCEPT ![w].own = TRUE]
  /\ wrote' = wrote \cup {w}
  /\ UNCHANGED <<inputVars, kept, storeVars, run, pruning>>

-----------------------------------------------------------------------------
(* What the environment does to the store and to a validation.             *)
Fault == faults < MaxFaults /\ faults' = faults + 1

DamageTree(k) ==
  /\ Fault
  /\ tree[k] # None /\ ~tree[k].damaged
  /\ tree' = [tree EXCEPT ![k].damaged = TRUE]
  /\ UNCHANGED <<inPlace, inputs, machine, prunes, localVars, record, lockFile, staging, stale, run, pruning>>

Upgrade ==
  /\ Fault /\ \A w \in Worktree : At(w, "idle")
  /\ machine = 1 /\ machine' = 2
  /\ UNCHANGED <<inPlace, inputs, prunes, localVars, storeVars, run, pruning>>

(* A killed process loses its locks and leaves its files.                  *)
Crash(w) ==
  /\ Fault /\ ~At(w, "idle")
  /\ stale' = stale \cup {run[w].sources : s \in {staging[w]} \ {None}}
  /\ staging' = [staging EXCEPT ![w] = None]
  /\ Becomes(w, Idle)
  /\ UNCHANGED <<inPlace, inputs, machine, prunes, localVars, tree, record, lockFile, pruning>>

-----------------------------------------------------------------------------
(* prune --yes.  usage is read first, then the listing of the entries, and *)
(* each item is locked, without waiting, only while it is removed.         *)
Linked   == {checkout[w].key : w \in {x \in Worktree : checkout[x].kind = "link"}}
Selected == {inputs[w] : w \in Worktree}
Listed ==
  {<<"entry", k>> : k \in {j \in Version : tree[j] # None}}
    \cup {<<"orphaned record", k>> : k \in {j \in Version : tree[j] = None /\ record[j] # None}}
    \cup {<<"orphaned lock", k>> :
            k \in {j \in Version : tree[j] = None /\ record[j] = None /\ lockFile[j] # 0}}
Staged == {<<"staging", k>> : k \in stale \cup {run[w].sources : w \in {x \in Worktree : staging[x] # None}}}

PruneUsage ==
  /\ pruning.pc = "idle" /\ prunes < MaxPrunes /\ prunes' = prunes + 1
  /\ PruneAlone => \A w \in Worktree : At(w, "idle")
  /\ pruning' = [NoPrune EXCEPT !.pc = "list", !.used = Linked \cup Selected]
  /\ UNCHANGED <<inPlace, inputs, machine, faults, localVars, storeVars, run>>

PruneList ==
  /\ pruning.pc = "list"
  /\ pruning' = [pruning EXCEPT !.pc = "entries",
                                !.items = {i \in Listed : ~(i[1] = "entry" /\ i[2] \in pruning.used)}]
  /\ UNCHANGED <<inputVars, localVars, storeVars, run>>

PruneListStaging ==
  /\ pruning.pc \in {"entries", "staging"} /\ pruning.items = {} /\ pruning.item[1] = "none"
  /\ pruning' = IF pruning.pc = "staging" THEN NoPrune
                ELSE [pruning EXCEPT !.pc = "staging", !.items = Staged]
  /\ UNCHANGED <<inputVars, localVars, storeVars, run>>

(* unless_locked: an item whose lock file is gone counts as free.          *)
PruneTake ==
  /\ pruning.pc \in {"entries", "staging"} /\ pruning.item[1] = "none"
  /\ \E i \in pruning.items :
       LET inode == lockFile[i[2]]
           rest  == [pruning EXCEPT !.items = @ \ {i}]
       IN pruning' = IF inode # 0 /\ Busy(i[2], inode) THEN rest
                     ELSE [rest EXCEPT !.item = i, !.locked = inode # 0, !.inode = inode]
  /\ UNCHANGED <<inputVars, localVars, storeVars, run>>

PruneStaging ==
  /\ pruning.item[1] = "staging"
  /\ stale' = stale \ {pruning.item[2]}
  /\ staging' = [w \in Worktree |-> IF run[w].sources = pruning.item[2] THEN None ELSE staging[w]]
  /\ pruning' = [pruning EXCEPT !.item = <<"none", 0>>, !.locked = FALSE, !.inode = 0]
  /\ UNCHANGED <<inputVars, localVars, tree, record, lockFile, run>>

(* An entry goes in the order tree, record, lock.                          *)
PruneTree ==
  LET k == pruning.item[2]
  IN /\ pruning.item[1] = "entry"
     /\ tree' = [tree EXCEPT ![k] = IF @ = None \/ @.damaged THEN None ELSE [@ EXCEPT !.damaged = TRUE]]
     /\ pruning' = IF tree'[k] = None THEN [pruning EXCEPT !.item = <<"orphaned record", k>>] ELSE pruning
     /\ UNCHANGED <<inputVars, localVars, record, lockFile, staging, stale, run>>

PruneRecord ==
  /\ pruning.item[1] = "orphaned record"
  /\ record' = [record EXCEPT ![pruning.item[2]] = None]
  /\ pruning' = [pruning EXCEPT !.item = <<"orphaned lock", pruning.item[2]>>]
  /\ UNCHANGED <<inputVars, localVars, tree, lockFile, staging, stale, run>>

PruneLock ==
  /\ pruning.item[1] = "orphaned lock"
  /\ lockFile' = [lockFile EXCEPT ![pruning.item[2]] = 0]
  /\ pruning' = [pruning EXCEPT !.item = <<"none", 0>>, !.locked = FALSE, !.inode = 0]
  /\ UNCHANGED <<inputVars, localVars, tree, record, staging, stale, run>>

-----------------------------------------------------------------------------
Validate(w) ==
  \/ \E regenerate \in {FALSE, (w \in Attended)} : Start(w, regenerate)
  \/ ReadRecord(w) \/ Scan(w) \/ OpenLock(w) \/ TakeLock(w)
  \/ Clear(w) \/ SetAsideTree(w) \/ SetAsideRecord(w) \/ Stash(w) \/ RunStep(w)
  \/ ChangedInputs(w) \/ Describe(w) \/ Publish(w) \/ RebuildFails(w)
  \/ AttachAside(w) \/ AttachLink(w) \/ Test(w) \/ Confirm(w) \/ Finish(w)

ByHand(w) ==
  \/ GenerateLocally(w)
  \/ DetachClone(w) \/ DetachUnlink(w) \/ DetachRename(w)
  \/ Edit(w) \/ AddOwnFile(w)

Prune ==
  \/ PruneUsage \/ PruneList \/ PruneListStaging \/ PruneTake
  \/ PruneStaging \/ PruneTree \/ PruneRecord \/ PruneLock

FixtureNext ==
  \/ \E w \in Worktree : Validate(w) \/ Crash(w)
  \/ \E w \in Attended : ByHand(w)
  \/ \E k \in Version : DamageTree(k)
  \/ Upgrade
  \/ Prune

FixtureSpec == FixtureInit /\ [][FixtureNext]_fixtureVars

-----------------------------------------------------------------------------
(* Inputs that change while a miss generates are refused, so a tree that   *)
(* passes verification was generated from the inputs its key names, by     *)
(* whichever worktree, after whatever crash.                               *)
EntryIsForItsKey ==
  \A k \in Version : Verifies(k, record[k]) => tree[k].from = {k}

(* When a run passes, every oracle its tests read was generated from the   *)
(* inputs the checkout holds at that moment, and from no others, whatever  *)
(* was edited, linked or pruned since it began.                            *)
PassDescribesCheckout ==
  [][\A w \in Worktree : ~At(w, "passed") /\ At(w, "passed")' =>
       \A c \in run'[w].read : c.from = {inputs'[w]}]_fixtureVars

(* The entry lock and its second verification: a validation never sets     *)
(* aside, replaces or re-describes an entry that verifies.                 *)
ValidEntryKept ==
  [][\A k \in Version : Verifies(k, record[k]) =>
       \/ tree'[k] = tree[k] /\ record'[k] = record[k]
       \/ faults' > faults
       \/ pruning.pc = "entries"]_fixtureVars

(* Failures, crashes, detach and the cache's own linking keep a directory  *)
(* that holds files no validation generates.                               *)
OwnFilesKept ==
  \A w \in wrote : w \in kept \/ (checkout[w].kind = "directory" /\ checkout[w].own)

=============================================================================
