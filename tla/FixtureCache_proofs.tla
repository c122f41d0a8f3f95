---------------------------- MODULE FixtureCache_proofs ----------------------------
(***************************************************************************)
(* Proofs about the shared store of fixtures: an entry that verifies was   *)
(* generated from the inputs its key names, a run that passes read no      *)
(* others, a valid entry is kept, and nobody loses files of their own; for *)
(* any number of worktrees, versions, crashes and prunes.                  *)
(*                                                                         *)
(* FixtureTypes and what a step of one worktree leaves alone for the       *)
(* others (Confined) come first.  OwnFiles and Generated are then about    *)
(* one worktree at a time.  Orderly, on which keeping valid entries rests, *)
(* is about the locks, and so about all of them and the prune at once.     *)
(***************************************************************************)
EXTENDS FixtureCache, FiniteSetTheorems, TLAPS

Node     == {None} \cup [kind : {"link"}, key : Version] \cup [kind : {"directory"}, own : BOOLEAN]
Contents == [kind : {"content"}, from : SUBSET Version, by : {1, 2}]
Trees    == [kind : {"tree"}, from : SUBSET Version, by : {1, 2}, damaged : BOOLEAN]
Rebuilding == {"stash", "step1", "step2", "changed", "table", "publish"}
Locking    == {"clear", "aside", "asideRecord"} \cup Rebuilding
Phases     == {"idle", "record", "scan", "open", "flock", "attach", "tests", "passed", "detach", "detached"}
                \cup Locking

Runs ==
  [pc : Phases, sources : Version, regenerate : BOOLEAN, locked : BOOLEAN, inode : Nat,
   record : {None} \cup Contents, previous : Node, made : SUBSET Version, differ : BOOLEAN,
   read : SUBSET Contents]

Kinds  == {"entry", "orphaned record", "orphaned lock", "staging"}
Prunes ==
  [pc : {"idle", "list", "entries", "staging"}, used : SUBSET Version,
   items : SUBSET (Kinds \X Version), item : (Kinds \cup {"none"}) \X (0 .. MaxVersion),
   locked : BOOLEAN, inode : Nat]

(* The states the worktrees, the store and the validations can be in.      *)
FixtureTypes ==
  /\ inPlace \in BOOLEAN /\ inputs \in [Worktree -> Version] /\ machine \in {1, 2} /\ faults \in Nat
  /\ checkout \in [Worktree -> Node] /\ kept \subseteq Worktree /\ wrote \subseteq Worktree
  /\ tree \in [Version -> {None} \cup Trees] /\ record \in [Version -> {None} \cup Contents]
  /\ lockFile \in [Version -> Nat] /\ staging \in [Worktree -> {None} \cup Trees]
  /\ stale \subseteq Version /\ pruning \in Prunes
  /\ run \in [Worktree -> Runs]

(* A run that tests reads through the link it made.                        *)
Attached == \A w \in Worktree : At(w, "tests") => checkout[w] = Link(run[w].sources)
-----------------------------------------------------------------------------
HoldsOwn(node) == node.kind = "directory" /\ node.own

(* Somebody's own files are in the checkout or were set aside; while a     *)
(* generator writes in place, or a clone is made, they are not in the      *)
(* checkout.                                                               *)
OwnFiles(w) ==
  /\ w \in wrote => w \in kept \/ HoldsOwn(checkout[w])
  /\ inPlace /\ run[w].pc \in Rebuilding \ {"stash"} => ~HoldsOwn(checkout[w])
  /\ run[w].pc \in {"detach", "detached"} => ~HoldsOwn(checkout[w])

(* Inputs only move on, so a generation whose inputs are at its end what   *)
(* they were at its start has read no others.                              *)
GeneratedBy(w) ==
  /\ run[w].sources <= inputs[w] \/ At(w, "idle")
  /\ ~At(w, "idle") => \A v \in run[w].made : run[w].sources <= v /\ v <= inputs[w]
  /\ At(w, "changed") => run[w].made # {}
  /\ At(w, "changed") /\ ~inPlace /\ staging[w] # None => staging[w].from = run[w].made
  /\ run[w].pc \in {"table", "publish"} /\ staging[w] # None => staging[w].from = {run[w].sources}

(* What a run that tests has read was generated from its inputs.           *)
ReadsItsOwn(w) ==
  run[w].pc \in {"tests", "passed"} => \A c \in run[w].read : c.from = {run[w].sources}

Generated ==
  /\ \A k \in Version : tree[k] # None => tree[k].from = {k}
  /\ \A w \in Worktree : GeneratedBy(w) /\ ReadsItsOwn(w)
-----------------------------------------------------------------------------
(* Everybody's open lock is the one at its path, as nothing removes lock   *)
(* files beside a validation, and whoever writes an entry holds its lock.  *)
LockKept(w) ==
  /\ run[w].locked => run[w].inode # 0
  /\ run[w].inode # 0 => run[w].inode = lockFile[run[w].sources]
  /\ run[w].pc \in Locking => run[w].locked
  /\ At(w, "flock") => run[w].inode # 0
  /\ At(w, "idle") => run[w].inode = 0

OneHolder ==
  \A w, x \in Worktree :
    run[w].locked /\ run[x].locked /\ run[w].sources = run[x].sources => w = x

(* Who has looked and found nothing valid still has nothing valid there.   *)
Unverified(w) ==
  LET k == run[w].sources
  IN /\ At(w, "scan") /\ run[w].locked => run[w].record = record[k]
     /\ At(w, "clear") /\ run[w].record = None => ~Verifies(k, record[k])
     /\ At(w, "aside") => ~Verifies(k, record[k])
     /\ At(w, "aside") => run[w].record = None
     /\ At(w, "asideRecord") => tree[k] = None
     /\ run[w].pc \in Rebuilding /\ run[w].record = None => tree[k] = None

(* A prune that runs alone runs while every worktree is idle, and what it  *)
(* removes from the store it removes in its first part.                    *)
PruneApart ==
  /\ pruning.pc = "idle" => pruning = NoPrune
  /\ pruning.pc # "idle" => \A w \in Worktree : At(w, "idle")
  /\ pruning.item[1] \in {"entry", "orphaned record"} => pruning.pc = "entries"
  /\ pruning.pc = "staging" => \A i \in pruning.items : i[1] = "staging"

Orderly ==
  /\ PruneApart /\ OneHolder
  /\ \A w \in Worktree : LockKept(w) /\ Unverified(w)
-----------------------------------------------------------------------------
(* A process that opens a lock finds a number for a new one: at most the   *)
(* worktrees and one prune hold others open.                               *)
LEMMA FreshInode ==
  ASSUME NEW k
  PROVE  \E i \in Inode : i \notin OpenInodes(k)
<1> SUFFICES ASSUME \A i \in Inode : i \in OpenInodes(k) PROVE FALSE
  OBVIOUS
<1> DEFINE others == Inode \ {pruning.inode}
           f == [i \in others |-> CHOOSE w \in Worktree : run[w].inode = i]
<1>1. IsFiniteSet(Worktree) /\ Cardinality(Worktree) \in Nat
  BY FixtureAssumption, FS_CardinalityType
<1>2. IsFiniteSet(Inode) /\ Cardinality(Inode) = 2 + Cardinality(Worktree)
  BY <1>1, FS_Interval DEF Inode
<1>3. /\ IsFiniteSet(others)
      /\ Cardinality(others) = IF pruning.inode \in Inode THEN Cardinality(Inode) - 1
                              ELSE Cardinality(Inode)
  BY <1>2, FS_RemoveElement
<1>4. ASSUME NEW i \in others
      PROVE  f[i] \in Worktree /\ run[f[i]].inode = i
  <2>1. i \in OpenInodes(k) /\ i # pruning.inode
    BY <1>4
  <2>2. \E w \in Worktree : run[w].inode = i
    BY <2>1 DEF OpenInodes
  <2> QED BY <2>2
<1>5. f \in [others -> Worktree]
  BY <1>4
<1> HIDE DEF others, f
<1>6. Cardinality(Worktree) < Cardinality(others)
  BY <1>1, <1>2, <1>3
<1>7. PICK x, y \in others : x # y /\ f[x] = f[y]
  BY <1>1, <1>3, <1>5, <1>6, FS_PigeonHole
<1> QED BY <1>4, <1>7

(* The EXCEPT forms in which the actions write the state of a validation.  *)
LEMMA RunForms ==
  /\ Idle \in Runs
  /\ \A x \in Phases : [Idle EXCEPT !.pc = x] \in Runs
  /\ \A x \in Phases, k \in Version : [Idle EXCEPT !.pc = x, !.sources = k] \in Runs
  /\ \A x \in Phases, k \in Version, b \in BOOLEAN :
       [Idle EXCEPT !.pc = x, !.sources = k, !.regenerate = b] \in Runs
  /\ \A r \in Runs, x \in Phases :
       /\ [r EXCEPT !.pc = x] \in Runs
       /\ \A d \in {None} \cup Contents : [r EXCEPT !.record = d, !.pc = x] \in Runs
       /\ \A b \in BOOLEAN, i \in Nat : [r EXCEPT !.locked = b, !.inode = i, !.pc = x] \in Runs
       /\ \A i \in Nat : [r EXCEPT !.inode = i, !.pc = x] \in Runs
       /\ \A b \in BOOLEAN : [r EXCEPT !.locked = b, !.pc = x] \in Runs
       /\ \A node \in Node : [r EXCEPT !.previous = node, !.pc = x] \in Runs
       /\ \A vs \in SUBSET Version : [r EXCEPT !.made = vs, !.pc = x] \in Runs
       /\ \A b \in BOOLEAN : [r EXCEPT !.differ = b, !.pc = x] \in Runs
  /\ \A r \in Runs, cs \in SUBSET Contents : [r EXCEPT !.read = cs] \in Runs
<1>1. 1 \in Version
  BY FixtureAssumption DEF Version
<1>2. Idle \in Runs
  BY <1>1 DEF Idle, Runs, Phases, Node
<1>3. /\ \A x \in Phases : [Idle EXCEPT !.pc = x] \in Runs
      /\ \A x \in Phases, k \in Version : [Idle EXCEPT !.pc = x, !.sources = k] \in Runs
      /\ \A x \in Phases, k \in Version, b \in BOOLEAN :
           [Idle EXCEPT !.pc = x, !.sources = k, !.regenerate = b] \in Runs
  BY <1>2 DEF Runs
<1>4. ASSUME NEW r \in Runs, NEW x \in Phases
      PROVE  /\ [r EXCEPT !.pc = x] \in Runs
             /\ \A d \in {None} \cup Contents : [r EXCEPT !.record = d, !.pc = x] \in Runs
             /\ \A b \in BOOLEAN, i \in Nat : [r EXCEPT !.locked = b, !.inode = i, !.pc = x] \in Runs
             /\ \A i \in Nat : [r EXCEPT !.inode = i, !.pc = x] \in Runs
             /\ \A b \in BOOLEAN : [r EXCEPT !.locked = b, !.pc = x] \in Runs
  BY DEF Runs
<1>5. ASSUME NEW r \in Runs, NEW x \in Phases
      PROVE  /\ \A node \in Node : [r EXCEPT !.previous = node, !.pc = x] \in Runs
             /\ \A vs \in SUBSET Version : [r EXCEPT !.made = vs, !.pc = x] \in Runs
             /\ \A b \in BOOLEAN : [r EXCEPT !.differ = b, !.pc = x] \in Runs
  BY DEF Runs
<1>6. ASSUME NEW r \in Runs, NEW cs \in SUBSET Contents
      PROVE  [r EXCEPT !.read = cs] \in Runs
  BY DEF Runs
<1> QED BY <1>2, <1>3, <1>4, <1>5, <1>6

(* What a step of one worktree does to the states of the validations.      *)
LEMMA Becoming ==
  ASSUME NEW w \in Worktree, NEW r \in Runs, run \in [Worktree -> Runs], Becomes(w, r)
  PROVE  /\ run' \in [Worktree -> Runs] /\ run'[w] = r
         /\ \A x \in Worktree \ {w} : run'[x] = run[x]
BY DEF Becomes

(* A step that only moves a worktree on changes its place in the run alone.*)
LEMMA Going ==
  ASSUME NEW w \in Worktree, NEW x \in Phases, run \in [Worktree -> Runs], Goto(w, x)
  PROVE  Becomes(w, [run[w] EXCEPT !.pc = x])
BY DEF Becomes, Goto
(* What generators and readers make of a tree.                             *)
LEMMA TreeForms ==
  /\ \A vs \in SUBSET Version, m \in {1, 2} :
       /\ Tree(vs, m, FALSE) \in Trees /\ Tree(vs, m, FALSE) # None
       /\ Tree(vs, m, FALSE).from = vs /\ ~Tree(vs, m, FALSE).damaged
  /\ \A t \in Trees :
       /\ t # None /\ t.from \in SUBSET Version
       /\ Content(t) \in Contents /\ Content(t) # None /\ Content(t).from = t.from
       /\ [t EXCEPT !.damaged = TRUE] \in Trees
       /\ [t EXCEPT !.damaged = TRUE].from = t.from /\ [t EXCEPT !.damaged = TRUE].damaged
<1>1. ASSUME NEW vs \in SUBSET Version, NEW m \in {1, 2}
      PROVE  /\ Tree(vs, m, FALSE) \in Trees /\ Tree(vs, m, FALSE).kind = "tree"
             /\ Tree(vs, m, FALSE).from = vs /\ ~Tree(vs, m, FALSE).damaged
  BY DEF Tree, Trees
<1>2. ASSUME NEW t \in Trees
      PROVE  /\ t.kind = "tree" /\ t.from \in SUBSET Version
             /\ [t EXCEPT !.damaged = TRUE] \in Trees
             /\ [t EXCEPT !.damaged = TRUE].from = t.from /\ [t EXCEPT !.damaged = TRUE].damaged
  BY DEF Trees
<1>3. ASSUME NEW t \in Trees
      PROVE  Content(t) \in Contents /\ Content(t).kind = "content" /\ Content(t).from = t.from
  BY DEF Content, Trees, Contents
<1>4. None.kind = "none"
  BY DEF None
<1>5. \A vs \in SUBSET Version, m \in {1, 2} : Tree(vs, m, FALSE) # None
  BY <1>1, <1>4
<1>6. \A t \in Trees : t # None /\ Content(t) # None
  BY <1>2, <1>3, <1>4
<1> QED BY <1>1, <1>2, <1>3, <1>5, <1>6

(* What a checkout path can be.                                            *)
LEMMA NodeForms ==
  /\ None \in Node /\ None.kind = "none"
  /\ \A k \in Version : Link(k) \in Node /\ Link(k).kind = "link" /\ Link(k).key = k
  /\ \A b \in BOOLEAN : Dir(b) \in Node /\ Dir(b).kind = "directory" /\ Dir(b).own = b
  /\ \A node \in Node : node.kind = "link" => node.key \in Version
  /\ \A node \in Node : node.kind = "directory" =>
       node.own \in BOOLEAN /\ [node EXCEPT !.own = TRUE] \in Node
       /\ [node EXCEPT !.own = TRUE].kind = "directory" /\ [node EXCEPT !.own = TRUE].own
<1>1. None \in Node /\ None.kind = "none"
  BY DEF None, Node
<1>2. \A k \in Version : Link(k) \in Node /\ Link(k).kind = "link" /\ Link(k).key = k
  BY DEF Link, Node
<1>3. \A b \in BOOLEAN : Dir(b) \in Node /\ Dir(b).kind = "directory" /\ Dir(b).own = b
  BY DEF Dir, Node
<1>4. ASSUME NEW node \in Node, node.kind = "link"
      PROVE  node.key \in Version
  BY <1>1, <1>4 DEF Node
<1>5. ASSUME NEW node \in Node, node.kind = "directory"
      PROVE  /\ node.own \in BOOLEAN /\ [node EXCEPT !.own = TRUE] \in Node
             /\ [node EXCEPT !.own = TRUE].kind = "directory" /\ [node EXCEPT !.own = TRUE].own
  <2>1. node \in [kind : {"directory"}, own : BOOLEAN]
    BY <1>1, <1>5 DEF Node
  <2>2. [node EXCEPT !.own = TRUE] \in [kind : {"directory"}, own : BOOLEAN]
    BY <2>1
  <2> QED BY <2>1, <2>2 DEF Node
<1> QED BY <1>1, <1>2, <1>3, <1>4, <1>5

(* The state of no prune.                                                  *)
LEMMA NoPruneForm == NoPrune \in Prunes /\ NoPrune.pc = "idle" /\ NoPrune.item[1] = "none"
<1>1. <<"none", 0>> \in (Kinds \cup {"none"}) \X (0 .. MaxVersion)
  BY FixtureAssumption
<1> QED BY <1>1 DEF NoPrune, Prunes

(* The initial state is one of them.                                       *)
LEMMA TypesInit == FixtureInit => FixtureTypes
<1> SUFFICES ASSUME FixtureInit PROVE FixtureTypes
  OBVIOUS
<1>1. 1 \in Version
  BY FixtureAssumption DEF Version
<1>2. run \in [Worktree -> Runs]
  <2>1. Idle \in Runs
    BY <1>1 DEF Idle, Runs, Phases, Node
  <2> QED BY <2>1 DEF FixtureInit
<1>3. None \in Node
  BY DEF Node
<1>4. NoPrune \in Prunes
  BY NoPruneForm
<1> QED BY <1>2, <1>3, <1>4 DEF FixtureInit, FixtureTypes

(* What a step of worktree w leaves as it is: the other worktrees' runs,   *)
(* checkouts and inputs; what they are staging, unless it is removed; and  *)
(* every entry but, in a rebuild, its own.                                 *)
Confined(w) ==
  /\ \A x \in Worktree \ {w} :
       /\ run'[x] = run[x] /\ checkout'[x] = checkout[x] /\ inputs'[x] = inputs[x]
       /\ staging'[x] \in {staging[x], None}
       /\ (x \in kept' <=> x \in kept) /\ (x \in wrote' <=> x \in wrote)
  /\ \A k \in Version :
       ~(run[w].pc \in Locking /\ run[w].sources = k) => tree'[k] = tree[k] /\ record'[k] = record[k]
  /\ inPlace' = inPlace

(* Before it has its entry's lock a validation looks, opens and waits.     *)
LEMMA LookStep ==
  ASSUME FixtureTypes, NEW w \in Worktree,
         \/ \E b \in BOOLEAN : Start(w, b)
         \/ ReadRecord(w) \/ Scan(w) \/ OpenLock(w) \/ TakeLock(w)
  PROVE  FixtureTypes' /\ Confined(w)
<1> USE DEF FixtureTypes, Confined, inputVars, localVars, storeVars
<1>1. run[w] \in Runs /\ run[w].sources \in Version /\ inputs[w] \in Version /\ run[w].inode \in Nat
      /\ run[w].record \in {None} \cup Contents /\ run[w].locked \in BOOLEAN
  BY DEF Runs
<1>2. /\ \A x \in {"record", "scan", "clear", "open", "flock", "attach"} : x \in Phases
      /\ 0 \in Nat /\ 1 \in Nat /\ None \in {None} \cup Contents
  BY DEF Phases, Locking
<1>3. CASE \E b \in BOOLEAN : Start(w, b)
  <2>1. PICK b \in BOOLEAN : Start(w, b)
    BY <1>3
  <2>2. [Idle EXCEPT !.pc = "record", !.sources = inputs[w], !.regenerate = b] \in Runs
    BY <1>1, <1>2, RunForms
  <2> QED BY <2>1, <2>2, Becoming DEF Start
<1>4. CASE ReadRecord(w)
  <2>1. [run[w] EXCEPT !.record = record[run[w].sources], !.pc = "scan"] \in Runs
    BY <1>1, <1>2, RunForms
  <2> QED BY <1>4, <2>1, Becoming DEF ReadRecord
<1>5. CASE Scan(w)
  <2> DEFINE r == run[w]
             hit == Verifies(r.sources, r.record)
  <2>1. /\ [r EXCEPT !.locked = FALSE, !.inode = 0, !.pc = "attach"] \in Runs
        /\ [r EXCEPT !.pc = "open"] \in Runs
        /\ [r EXCEPT !.record = IF hit THEN @ ELSE None, !.pc = "clear"] \in Runs
    <3>1. (IF hit THEN r.record ELSE None) \in {None} \cup Contents
      BY <1>1
    <3> HIDE DEF hit
    <3> QED BY <1>1, <1>2, <3>1, RunForms
  <2> HIDE DEF hit
  <2>2. \E e \in Runs : Becomes(w, e)
    BY <1>5, <2>1 DEF Scan, hit
  <2> QED BY <1>5, <2>2, Becoming DEF Scan
<1>6. CASE OpenLock(w)
  <2> DEFINE k == run[w].sources
             new == CHOOSE i \in Inode : i \notin OpenInodes(k)
  <2>1. new \in Inode
    BY FreshInode
  <2>2. Inode \subseteq Nat
    BY DEF Inode
  <2> HIDE DEF new
  <2>3. lockFile' \in [Version -> Nat]
    BY <1>6, <2>1, <2>2 DEF OpenLock, new
  <2>4. [run[w] EXCEPT !.inode = lockFile'[k], !.pc = "flock"] \in Runs
    BY <1>1, <1>2, <2>3, RunForms
  <2> QED BY <1>6, <2>3, <2>4, Becoming DEF OpenLock
<1>7. CASE TakeLock(w)
  <2>1. [run[w] EXCEPT !.locked = TRUE, !.pc = "record"] \in Runs
    BY <1>1, <1>2, RunForms
  <2> QED BY <1>7, <2>1, Becoming DEF TakeLock
<1> QED BY <1>3, <1>4, <1>5, <1>6, <1>7
(* A rebuild: what it moves, makes, describes and publishes is of the      *)
(* entry of its sources, in its own staging and checkout.                  *)
LEMMA RebuildStep ==
  ASSUME FixtureTypes, NEW w \in Worktree,
         \/ Clear(w) \/ SetAsideTree(w) \/ SetAsideRecord(w) \/ Stash(w) \/ RunStep(w)
         \/ ChangedInputs(w) \/ Describe(w) \/ Publish(w) \/ RebuildFails(w)
  PROVE  FixtureTypes' /\ Confined(w)
<1> USE DEF FixtureTypes, Confined, inputVars, localVars, storeVars
<1>1. run[w] \in Runs /\ run[w].sources \in Version /\ inputs[w] \in Version /\ run[w].made \in SUBSET Version
      /\ run[w].record \in {None} \cup Contents /\ run[w].previous \in Node
  BY DEF Runs
<1>2. /\ \A x \in {"idle", "attach"} \cup Locking : x \in Phases
      /\ Rebuilding \subseteq Locking
  BY DEF Phases, Locking
<1>3. CASE Clear(w)
  <2>1. \E e \in Runs : Becomes(w, e)
    <3>1. \A x \in {"aside", "stash"} : [run[w] EXCEPT !.pc = x] \in Runs /\ x \in Phases
      BY <1>1, <1>2, RunForms DEF Locking, Rebuilding
    <3>2. CASE Becomes(w, Idle)
      BY <3>2, RunForms
    <3>3. CASE Goto(w, IF run[w].record = None /\ tree[run[w].sources] # None THEN "aside" ELSE "stash")
      <4>1. PICK x \in {"aside", "stash"} : Goto(w, x)
        BY <3>3
      <4> QED BY <3>1, <4>1, Going
    <3> QED BY <1>3, <3>2, <3>3 DEF Clear
  <2> QED BY <1>3, <2>1, Becoming DEF Clear
<1>4. CASE SetAsideTree(w)
  <2>1. [run[w] EXCEPT !.pc = "asideRecord"] \in Runs
    BY <1>1, <1>2, RunForms DEF Locking
  <2>2. Becomes(w, [run[w] EXCEPT !.pc = "asideRecord"])
    BY <1>4 DEF SetAsideTree, Goto, Becomes
  <2>3. run[w].pc \in Locking
    BY <1>4 DEF SetAsideTree, At, Locking
  <2> QED BY <1>1, <1>4, <2>1, <2>2, <2>3, Becoming DEF SetAsideTree
<1>5. CASE SetAsideRecord(w)
  <2>1. [run[w] EXCEPT !.pc = "stash"] \in Runs
    BY <1>1, <1>2, RunForms DEF Locking, Rebuilding
  <2>2. Becomes(w, [run[w] EXCEPT !.pc = "stash"])
    BY <1>5 DEF SetAsideRecord, Goto, Becomes
  <2>3. run[w].pc \in Locking
    BY <1>5 DEF SetAsideRecord, At, Locking
  <2> QED BY <1>1, <1>5, <2>1, <2>2, <2>3, Becoming DEF SetAsideRecord
<1>6. CASE Stash(w)
  <2>1. /\ [run[w] EXCEPT !.pc = "step1"] \in Runs
        /\ [run[w] EXCEPT !.previous = checkout[w], !.pc = "step1"] \in Runs
    BY <1>1, <1>2, RunForms DEF Locking, Rebuilding
  <2>2. \E e \in Runs : Becomes(w, e)
    BY <1>6, <2>1 DEF Stash, Goto, Becomes
  <2>3. Own(w, checkout[w]) \subseteq {w}
    BY DEF Own
  <2>4. checkout' \in [Worktree -> Node] /\ \A x \in Worktree \ {w} : checkout'[x] = checkout[x]
    BY <1>6, NodeForms DEF Stash
  <2>5. kept' \subseteq Worktree /\ \A x \in Worktree \ {w} : x \in kept' <=> x \in kept
    BY <1>6, <2>3 DEF Stash
  <2> QED BY <1>6, <2>2, <2>4, <2>5, Becoming DEF Stash
<1>7. CASE RunStep(w)
  <2> DEFINE made == run[w].made \cup {inputs[w]}
             x == IF At(w, "step1") THEN "step2" ELSE "changed"
  <2>1. [run[w] EXCEPT !.made = made, !.pc = x] \in Runs
    <3>1. made \in SUBSET Version /\ x \in Phases
      BY <1>1, <1>2 DEF Locking, Rebuilding
    <3> HIDE DEF made, x
    <3> QED BY <1>1, <3>1, RunForms
  <2>2. Becomes(w, [run[w] EXCEPT !.made = made, !.pc = x])
    BY <1>7 DEF RunStep
  <2>3. made \in SUBSET Version
    BY <1>1
  <2> HIDE DEF x
  <2>4. Tree(made, machine, FALSE) \in Trees /\ Dir(FALSE) \in Node
    <3> HIDE DEF made
    <3> QED BY <2>3, TreeForms, NodeForms
  <2>5. /\ checkout' \in [Worktree -> Node] /\ \A y \in Worktree \ {w} : checkout'[y] = checkout[y]
        /\ staging' \in [Worktree -> {None} \cup Trees]
        /\ \A y \in Worktree \ {w} : staging'[y] = staging[y]
    BY <1>7, <2>4 DEF RunStep
  <2> QED BY <1>7, <2>1, <2>2, <2>5, Becoming DEF RunStep
<1>8. CASE ChangedInputs(w)
  <2>1. [run[w] EXCEPT !.made = {}, !.pc = "table"] \in Runs
    BY <1>1, <1>2, RunForms DEF Locking, Rebuilding
  <2>2. Tree(run[w].made, machine, FALSE) \in Trees /\ None \in Node
    BY <1>1, TreeForms, NodeForms
  <2>3. /\ checkout' \in [Worktree -> Node] /\ \A y \in Worktree \ {w} : checkout'[y] = checkout[y]
        /\ staging' \in [Worktree -> {None} \cup Trees]
        /\ \A y \in Worktree \ {w} : staging'[y] = staging[y]
    BY <1>8, <2>2 DEF ChangedInputs
  <2> QED BY <1>8, <2>1, <2>3, Becoming DEF ChangedInputs
<1>9. CASE Describe(w)
  <2> DEFINE made == Content(staging[w])
             b == made # run[w].record
  <2>1. made \in Contents
    BY <1>9, TreeForms DEF Describe
  <2>2. /\ [run[w] EXCEPT !.record = made, !.pc = "publish"] \in Runs
        /\ [run[w] EXCEPT !.differ = b, !.pc = "attach"] \in Runs
    <3>1. b \in BOOLEAN /\ "publish" \in Phases /\ "attach" \in Phases
      BY DEF Phases, Locking, Rebuilding
    <3> HIDE DEF made, b
    <3> QED BY <1>1, <2>1, <3>1, RunForms
  <2>3. \E e \in Runs : Becomes(w, e)
    BY <1>9, <2>2 DEF Describe
  <2>4. run[w].pc \in Locking
    BY <1>9 DEF Describe, At, Locking, Rebuilding
  <2> HIDE DEF made
  <2>5. /\ record' \in [Version -> {None} \cup Contents]
        /\ \A k \in Version : k # run[w].sources => record'[k] = record[k]
        /\ staging' \in [Worktree -> {None} \cup Trees]
        /\ \A y \in Worktree \ {w} : staging'[y] = staging[y]
    BY <1>1, <1>9, <2>1 DEF Describe, made
  <2> QED BY <1>1, <1>9, <2>3, <2>4, <2>5, Becoming DEF Describe
<1>10. CASE Publish(w)
  <2>1. Becomes(w, [run[w] EXCEPT !.pc = "attach"]) /\ [run[w] EXCEPT !.pc = "attach"] \in Runs
    BY <1>1, <1>2, <1>10, RunForms DEF Publish, Goto, Becomes
  <2>2. run[w].pc \in Locking
    BY <1>10 DEF Publish, At, Locking, Rebuilding
  <2>3. /\ tree' \in [Version -> {None} \cup Trees]
        /\ \A k \in Version : k # run[w].sources => tree'[k] = tree[k]
        /\ staging' \in [Worktree -> {None} \cup Trees]
        /\ \A y \in Worktree \ {w} : staging'[y] = staging[y]
    BY <1>1, <1>10 DEF Publish
  <2> QED BY <1>1, <1>10, <2>1, <2>2, <2>3, Becoming DEF Publish
<1>11. CASE RebuildFails(w)
  <2>1. Becomes(w, Idle) /\ Idle \in Runs
    BY <1>11, RunForms DEF RebuildFails
  <2>2. Own(w, run[w].previous) \subseteq {w}
    BY DEF Own
  <2>3. /\ checkout' \in [Worktree -> Node] /\ \A y \in Worktree \ {w} : checkout'[y] = checkout[y]
        /\ kept' \subseteq Worktree /\ \A x \in Worktree \ {w} : x \in kept' <=> x \in kept
        /\ staging' \in [Worktree -> {None} \cup Trees]
        /\ \A y \in Worktree \ {w} : staging'[y] = staging[y]
    BY <1>1, <1>11, <2>2 DEF RebuildFails
  <2> QED BY <1>11, <2>1, <2>3, Becoming DEF RebuildFails
<1> QED BY <1>3, <1>4, <1>5, <1>6, <1>7, <1>8, <1>9, <1>10, <1>11
(* After the rebuild, or without one: the link, the tests, the outcome.    *)
LEMMA TestStep ==
  ASSUME FixtureTypes, Attached, NEW w \in Worktree,
         AttachAside(w) \/ AttachLink(w) \/ Test(w) \/ Confirm(w) \/ Finish(w)
  PROVE  FixtureTypes' /\ Confined(w)
<1> USE DEF FixtureTypes, Confined, inputVars, localVars, storeVars
<1>1. run[w] \in Runs /\ run[w].sources \in Version /\ run[w].read \in SUBSET Contents
  BY DEF Runs
<1>2. "idle" \in Phases /\ "tests" \in Phases /\ "passed" \in Phases /\ Idle \in Runs
  BY RunForms DEF Phases
<1>3. CASE AttachAside(w)
  <2>1. Own(w, checkout[w]) \subseteq {w} /\ None \in Node
    BY NodeForms DEF Own
  <2> QED BY <1>3, <2>1 DEF AttachAside
<1>4. CASE AttachLink(w)
  <2>1. [Idle EXCEPT !.pc = "tests", !.sources = run[w].sources] \in Runs /\ Link(run[w].sources) \in Node
    BY <1>1, <1>2, RunForms, NodeForms
  <2>2. \E e \in Runs : Becomes(w, e)
    BY <1>2, <1>4, <2>1 DEF AttachLink
  <2> QED BY <1>4, <2>1, <2>2, Becoming DEF AttachLink
<1>5. CASE Test(w)
  <2> DEFINE cs == run[w].read \cup {Content(tree[checkout[w].key])}
  <2>1. CASE tree[checkout[w].key] = None \/ tree[checkout[w].key].damaged
    BY <1>2, <1>5, <2>1, Becoming DEF Test
  <2>2. CASE ~(tree[checkout[w].key] = None \/ tree[checkout[w].key].damaged)
    <3>1. tree[checkout[w].key] \in Trees \/ checkout[w].key \notin Version
      BY <2>2
    <3>2. checkout[w].key \in Version
      BY <1>1, <1>5, NodeForms DEF Test, Attached
    <3>3. cs \in SUBSET Contents
      BY <1>1, <3>1, <3>2, TreeForms
    <3>4. [run[w] EXCEPT !.read = cs] \in Runs
      <4> HIDE DEF cs
      <4> QED BY <1>1, <3>3, RunForms
    <3> QED BY <1>5, <2>2, <3>4, Becoming DEF Test
  <2> QED BY <2>1, <2>2
<1>6. CASE Confirm(w)
  <2>1. [run[w] EXCEPT !.pc = "passed"] \in Runs
    BY <1>1, <1>2, RunForms
  <2>2. \E e \in Runs : Becomes(w, e)
    BY <1>2, <1>6, <2>1 DEF Confirm, Goto, Becomes
  <2> QED BY <1>6, <2>2, Becoming DEF Confirm
<1>7. CASE Finish(w)
  BY <1>2, <1>7, Becoming DEF Finish
<1> QED BY <1>3, <1>4, <1>5, <1>6, <1>7

(* What somebody does by hand in a worktree.                               *)
LEMMA HandStep ==
  ASSUME FixtureTypes, NEW w \in Worktree, ByHand(w)
  PROVE  FixtureTypes' /\ Confined(w)
<1> USE DEF FixtureTypes, Confined, inputVars, localVars, storeVars
<1>1. run[w] \in Runs /\ checkout[w] \in Node /\ None \in Node /\ Dir(FALSE) \in Node
  BY NodeForms
<1>2. "detached" \in Phases /\ Idle \in Runs /\ [Idle EXCEPT !.pc = "detach"] \in Runs
  BY RunForms DEF Phases
<1>3. CASE GenerateLocally(w)
  <2> DEFINE own == checkout[w].kind = "directory" /\ checkout[w].own
  <2>1. own \in BOOLEAN
    OBVIOUS
  <2>2. Dir(own) \in Node
    <3> HIDE DEF own
    <3> QED BY <2>1, NodeForms
  <2> QED BY <1>3, <2>2 DEF GenerateLocally
<1>4. CASE DetachClone(w)
  <2>1. checkout' \in [Worktree -> Node] /\ \A x \in Worktree \ {w} : checkout'[x] = checkout[x]
    BY <1>1, <1>4 DEF DetachClone
  <2>2. run' \in [Worktree -> Runs] /\ \A x \in Worktree \ {w} : run'[x] = run[x]
    BY <1>2, <1>4, Becoming DEF DetachClone
  <2> QED BY <1>4, <2>1, <2>2 DEF DetachClone
<1>5. CASE DetachUnlink(w)
  <2>1. Becomes(w, [run[w] EXCEPT !.pc = "detached"]) /\ [run[w] EXCEPT !.pc = "detached"] \in Runs
    BY <1>1, <1>2, <1>5, RunForms DEF DetachUnlink, Goto, Becomes
  <2> QED BY <1>1, <1>5, <2>1, Becoming DEF DetachUnlink
<1>6. CASE DetachRename(w)
  BY <1>1, <1>2, <1>6, Becoming DEF DetachRename
<1>7. CASE Edit(w)
  BY <1>7 DEF Edit
<1>8. CASE AddOwnFile(w)
  <2>1. [checkout[w] EXCEPT !.own = TRUE] \in Node
    BY <1>1, <1>8, NodeForms DEF AddOwnFile
  <2>2. checkout' = [checkout EXCEPT ![w] = [checkout[w] EXCEPT !.own = TRUE]]
    BY <1>8 DEF AddOwnFile
  <2> QED BY <1>8, <2>1, <2>2 DEF AddOwnFile
<1> QED BY <1>3, <1>4, <1>5, <1>6, <1>7, <1>8 DEF ByHand

(* What happens to the store, to the machine and to a worktree's process.  *)
LEMMA CrashStep ==
  ASSUME FixtureTypes, NEW w \in Worktree, Crash(w)
  PROVE  FixtureTypes' /\ Confined(w)
<1>1. faults' \in Nat
  BY DEF Crash, Fault, FixtureTypes
<1>2. Becomes(w, Idle) /\ Idle \in Runs
  BY RunForms DEF Crash
<1>3. stale' \subseteq Version
  BY DEF Crash, FixtureTypes, Runs
<1> QED BY <1>1, <1>2, <1>3, Becoming DEF Crash, FixtureTypes, Confined, localVars

(* The EXCEPT forms in which the actions write the state of a prune.       *)
LEMMA PruneFields ==
  ASSUME NEW p \in Prunes, NEW q
  PROVE  /\ \A a \in {"idle", "list", "entries", "staging"}, used \in SUBSET Version :
              q = [p EXCEPT !.pc = a, !.used = used] => q \in Prunes /\ q.pc = a /\ q.item = p.item
         /\ \A a \in {"idle", "list", "entries", "staging"}, items \in SUBSET (Kinds \X Version) :
              q = [p EXCEPT !.pc = a, !.items = items] =>
                q \in Prunes /\ q.pc = a /\ q.item = p.item /\ q.items = items
         /\ \A items \in SUBSET (Kinds \X Version) :
              q = [p EXCEPT !.items = items] =>
                q \in Prunes /\ q.pc = p.pc /\ q.item = p.item /\ q.items = items
         /\ \A item \in (Kinds \cup {"none"}) \X (0 .. MaxVersion) :
              q = [p EXCEPT !.item = item] =>
                q \in Prunes /\ q.pc = p.pc /\ q.item = item /\ q.items = p.items
         /\ \A item \in (Kinds \cup {"none"}) \X (0 .. MaxVersion), b \in BOOLEAN, n \in Nat :
              q = [p EXCEPT !.item = item, !.locked = b, !.inode = n] =>
                q \in Prunes /\ q.pc = p.pc /\ q.item = item /\ q.items = p.items
<1>1. ASSUME NEW a \in {"idle", "list", "entries", "staging"}, NEW used \in SUBSET Version,
             q = [p EXCEPT !.pc = a, !.used = used]
      PROVE  q \in Prunes /\ q.pc = a /\ q.item = p.item
  BY <1>1 DEF Prunes
<1>2. ASSUME NEW a \in {"idle", "list", "entries", "staging"}, NEW items \in SUBSET (Kinds \X Version),
             q = [p EXCEPT !.pc = a, !.items = items]
      PROVE  q \in Prunes /\ q.pc = a /\ q.item = p.item /\ q.items = items
  BY <1>2 DEF Prunes
<1>3. ASSUME NEW items \in SUBSET (Kinds \X Version), q = [p EXCEPT !.items = items]
      PROVE  q \in Prunes /\ q.pc = p.pc /\ q.item = p.item /\ q.items = items
  BY <1>3 DEF Prunes
<1>4. ASSUME NEW item \in (Kinds \cup {"none"}) \X (0 .. MaxVersion), q = [p EXCEPT !.item = item]
      PROVE  q \in Prunes /\ q.pc = p.pc /\ q.item = item /\ q.items = p.items
  BY <1>4 DEF Prunes
<1>5. ASSUME NEW item \in (Kinds \cup {"none"}) \X (0 .. MaxVersion), NEW b \in BOOLEAN, NEW n \in Nat,
             q = [p EXCEPT !.item = item, !.locked = b, !.inode = n]
      PROVE  q \in Prunes /\ q.pc = p.pc /\ q.item = item /\ q.items = p.items
  BY <1>5 DEF Prunes
<1> QED BY <1>1, <1>2, <1>3, <1>4, <1>5

(* The fields of a prune's state after each of its steps.                  *)
LEMMA PruneForms ==
  ASSUME FixtureTypes
  PROVE  LET p == pruning
             q == pruning'
         IN /\ Prune => q \in Prunes
            /\ PruneUsage => q.pc = "list" /\ q.item[1] = "none"
            /\ PruneList => p.pc = "list" /\ q.pc = "entries" /\ q.item = p.item
            /\ PruneListStaging =>
                 \/ p.pc = "staging" /\ q = NoPrune
                 \/ /\ p.pc = "entries" /\ q.pc = "staging" /\ q.item = p.item /\ p.item[1] = "none"
                    /\ \A i \in q.items : i[1] = "staging"
            /\ PruneTake =>
                 /\ p.pc \in {"entries", "staging"} /\ p.item[1] = "none" /\ q.pc = p.pc
                 /\ q.items \subseteq p.items /\ (q.item = p.item \/ q.item \in p.items)
            /\ PruneStaging \/ PruneLock =>
                 /\ p.item[1] \in {"staging", "orphaned lock"} /\ q.pc = p.pc /\ q.items = p.items
                 /\ q.item[1] = "none"
            /\ PruneTree \/ PruneRecord =>
                 p.item[1] \in {"entry", "orphaned record"} /\ q.pc = p.pc /\ q.items = p.items
<1>0. pruning \in Prunes /\ lockFile \in [Version -> Nat]
      /\ checkout \in [Worktree -> Node] /\ inputs \in [Worktree -> Version]
      /\ run \in [Worktree -> Runs] /\ stale \subseteq Version
  BY DEF FixtureTypes
<1>1. /\ pruning \in Prunes /\ pruning.item \in (Kinds \cup {"none"}) \X (0 .. MaxVersion)
      /\ pruning.items \subseteq Kinds \X Version
      /\ \A i \in pruning.items : i \in Kinds \X Version /\ i \in (Kinds \cup {"none"}) \X (0 .. MaxVersion)
      /\ pruning.locked \in BOOLEAN /\ pruning.inode \in Nat /\ pruning.used \subseteq Version
  BY <1>0, FixtureAssumption DEF Prunes, Version
<1>2. ASSUME PruneUsage
      PROVE  pruning' \in Prunes /\ pruning'.pc = "list" /\ pruning'.item[1] = "none"
  <2> DEFINE used == Linked \cup Selected
  <2>1. used \in SUBSET Version
    BY <1>0, NodeForms DEF Linked, Selected
  <2>2. pruning' = [NoPrune EXCEPT !.pc = "list", !.used = used]
    BY <1>2 DEF PruneUsage
  <2> HIDE DEF used
  <2>3. pruning' \in Prunes /\ pruning'.pc = "list" /\ pruning'.item = NoPrune.item
    BY <1>0, <2>1, <2>2, NoPruneForm, PruneFields DEF Prunes
  <2> QED BY <2>3, NoPruneForm
<1>3. ASSUME PruneList
      PROVE  /\ pruning' \in Prunes
             /\ pruning.pc = "list" /\ pruning'.pc = "entries" /\ pruning'.item = pruning.item
  <2> DEFINE items == {i \in Listed : ~(i[1] = "entry" /\ i[2] \in pruning.used)}
  <2>1. items \in SUBSET (Kinds \X Version)
    <3>1. Listed \subseteq Kinds \X Version
      <4>1. ASSUME NEW l \in Listed
            PROVE  \E kind \in Kinds, k \in Version : l = <<kind, k>>
        BY DEF Listed, Kinds
      <4> QED BY <4>1
    <3> QED BY <3>1
  <2>2. pruning' = [pruning EXCEPT !.pc = "entries", !.items = items] /\ pruning.pc = "list"
    BY <1>3 DEF PruneList
  <2> HIDE DEF items
  <2>3. pruning' \in Prunes /\ pruning'.pc = "entries" /\ pruning'.item = pruning.item
    BY <1>0, <2>1, <2>2, PruneFields DEF Prunes
  <2> QED BY <2>2, <2>3
<1>4. ASSUME PruneListStaging
      PROVE  /\ pruning' \in Prunes
             /\ \/ pruning.pc = "staging" /\ pruning' = NoPrune
                \/ /\ pruning.pc = "entries" /\ pruning'.pc = "staging" /\ pruning'.item = pruning.item
                   /\ pruning.item[1] = "none" /\ \A i \in pruning'.items : i[1] = "staging"
  <2>1. pruning.pc \in {"entries", "staging"} /\ pruning.item[1] = "none"
    BY <1>4 DEF PruneListStaging
  <2>2. CASE pruning.pc = "staging"
    BY <1>4, <2>1, <2>2, NoPruneForm DEF PruneListStaging
  <2>3. CASE pruning.pc # "staging"
    <3>1. Staged \in SUBSET (Kinds \X Version) /\ \A i \in Staged : i[1] = "staging"
      <4>1. \A w \in Worktree : run[w].sources \in Version
        BY <1>0 DEF Runs
      <4>2. ASSUME NEW l \in Staged
            PROVE  \E k \in Version : l = <<"staging", k>>
        BY <1>0, <4>1 DEF Staged
      <4>3. "staging" \in Kinds
        BY DEF Kinds
      <4> QED BY <4>2, <4>3
    <3>2. pruning' = [pruning EXCEPT !.pc = "staging", !.items = Staged]
      BY <1>4, <2>3 DEF PruneListStaging
    <3>3. /\ pruning' \in Prunes /\ pruning'.pc = "staging" /\ pruning'.item = pruning.item
          /\ pruning'.items = Staged
      BY <1>0, <3>1, <3>2, PruneFields DEF Prunes
    <3> QED BY <2>1, <2>3, <3>1, <3>3
  <2> QED BY <2>2, <2>3
<1>5. ASSUME PruneTake
      PROVE  /\ pruning' \in Prunes
             /\ pruning.pc \in {"entries", "staging"} /\ pruning.item[1] = "none"
             /\ pruning'.pc = pruning.pc /\ pruning'.items \subseteq pruning.items
             /\ pruning'.item = pruning.item \/ pruning'.item \in pruning.items
  <2>1. pruning.pc \in {"entries", "staging"} /\ pruning.item[1] = "none"
    BY <1>5 DEF PruneTake
  <2>2. PICK i \in pruning.items :
          \/ pruning' = [pruning EXCEPT !.items = @ \ {i}]
          \/ pruning' = [[pruning EXCEPT !.items = @ \ {i}] EXCEPT
                           !.item = i, !.locked = lockFile[i[2]] # 0, !.inode = lockFile[i[2]]]
    BY <1>5 DEF PruneTake
  <2> DEFINE rest == pruning.items \ {i}
  <2>3. rest \in SUBSET (Kinds \X Version) /\ rest \subseteq pruning.items
    BY <1>1
  <2>4. CASE pruning' = [pruning EXCEPT !.items = @ \ {i}]
    <3>1. pruning' = [pruning EXCEPT !.items = rest]
      BY <2>4
    <3> HIDE DEF rest
    <3>2. /\ pruning' \in Prunes /\ pruning'.pc = pruning.pc /\ pruning'.item = pruning.item
          /\ pruning'.items = rest
      BY <1>0, <2>3, <3>1, PruneFields DEF Prunes
    <3> QED BY <2>1, <2>3, <3>2
  <2>5. CASE pruning' = [[pruning EXCEPT !.items = @ \ {i}] EXCEPT
                           !.item = i, !.locked = lockFile[i[2]] # 0, !.inode = lockFile[i[2]]]
    <3> DEFINE r == [pruning EXCEPT !.items = rest]
               l == lockFile[i[2]] # 0
               n == lockFile[i[2]]
    <3>1. pruning' = [r EXCEPT !.item = i, !.locked = l, !.inode = n]
      BY <2>5
    <3>2. l \in BOOLEAN /\ n \in Nat /\ i \in (Kinds \cup {"none"}) \X (0 .. MaxVersion)
      BY <1>0, <1>1
    <3>3. r \in Prunes /\ r.pc = pruning.pc /\ r.items \subseteq pruning.items
      <4> HIDE DEF rest
      <4> QED BY <1>0, <2>3, PruneFields DEF Prunes
    <3> HIDE DEF r, l, n
    <3>4. /\ pruning' \in Prunes /\ pruning'.pc = pruning.pc /\ pruning'.items \subseteq pruning.items
          /\ pruning'.item = i
      BY <3>1, <3>2, <3>3, PruneFields DEF Prunes
    <3> QED BY <2>1, <3>4
  <2> QED BY <2>2, <2>4, <2>5
<1>6. ASSUME PruneStaging \/ PruneLock
      PROVE  /\ pruning' \in Prunes
             /\ pruning.item[1] \in {"staging", "orphaned lock"} /\ pruning'.pc = pruning.pc
             /\ pruning'.items = pruning.items /\ pruning'.item[1] = "none"
  <2>1. <<"none", 0>> \in (Kinds \cup {"none"}) \X (0 .. MaxVersion)
    BY FixtureAssumption
  <2>2. pruning' = [pruning EXCEPT !.item = <<"none", 0>>, !.locked = FALSE, !.inode = 0]
    BY <1>6 DEF PruneStaging, PruneLock
  <2>3. /\ pruning' \in Prunes /\ pruning'.pc = pruning.pc /\ pruning'.items = pruning.items
        /\ pruning'.item[1] = "none"
    BY <1>0, <2>1, <2>2, PruneFields DEF Prunes
  <2>4. pruning.item[1] \in {"staging", "orphaned lock"}
    BY <1>6 DEF PruneStaging, PruneLock
  <2> QED BY <2>3, <2>4
<1>7. ASSUME PruneTree \/ PruneRecord
      PROVE  /\ pruning' \in Prunes
             /\ pruning.item[1] \in {"entry", "orphaned record"} /\ pruning'.pc = pruning.pc
             /\ pruning'.items = pruning.items
  <2>1. pruning.item[1] \in {"entry", "orphaned record"}
    BY <1>7 DEF PruneTree, PruneRecord
  <2>2. PICK kind \in Kinds : pruning' \in {pruning, [pruning EXCEPT !.item = <<kind, pruning.item[2]>>]}
    BY <1>7 DEF PruneTree, PruneRecord, Kinds
  <2>3. <<kind, pruning.item[2]>> \in (Kinds \cup {"none"}) \X (0 .. MaxVersion)
    BY <1>1
  <2>4. pruning' \in Prunes /\ pruning'.pc = pruning.pc /\ pruning'.items = pruning.items
    <3> DEFINE item == <<kind, pruning.item[2]>>
    <3>1. item \in (Kinds \cup {"none"}) \X (0 .. MaxVersion) /\ pruning' \in {pruning, [pruning EXCEPT !.item = item]}
      BY <2>2, <2>3
    <3> HIDE DEF item
    <3>2. CASE pruning' = [pruning EXCEPT !.item = item]
      BY <1>0, <3>1, <3>2, PruneFields DEF Prunes
    <3>3. CASE pruning' = pruning
      BY <1>0, <3>3
    <3> QED BY <3>1, <3>2, <3>3
  <2> QED BY <2>1, <2>4
<1> QED BY <1>2, <1>3, <1>4, <1>5, <1>6, <1>7 DEF Prune
(* No step of prune and no fault changes anything of a worktree but its    *)
(* staging, and an entry's tree is only damaged or removed.                *)
Elsewhere ==
  /\ inPlace' = inPlace /\ inputs' = inputs /\ checkout' = checkout /\ kept' = kept
  /\ wrote' = wrote /\ run' = run
  /\ \A w \in Worktree : staging'[w] \in {staging[w], None}
  /\ \A k \in Version : tree'[k] # tree[k] =>
       \/ tree'[k] = None
       \/ tree[k] # None /\ tree'[k] = [tree[k] EXCEPT !.damaged = TRUE]
  /\ \A k \in Version : record'[k] \in {record[k], None}

(* A prune, an upgrade of the machine and damage are such steps.           *)
LEMMA ElsewhereStep ==
  ASSUME FixtureTypes, Prune \/ Upgrade \/ \E k \in Version : DamageTree(k)
  PROVE  FixtureTypes' /\ Elsewhere
<1> USE DEF FixtureTypes, Elsewhere, inputVars, localVars, storeVars
<1>1. ASSUME NEW k \in Version, DamageTree(k)
      PROVE  FixtureTypes' /\ Elsewhere
  <2>1. faults' \in Nat
    BY <1>1 DEF DamageTree, Fault
  <2> DEFINE new == [tree[k] EXCEPT !.damaged = TRUE]
  <2>2. tree' = [tree EXCEPT ![k] = new]
    BY <1>1 DEF DamageTree
  <2>3. tree[k] # None /\ new \in Trees
    BY <1>1, TreeForms DEF DamageTree
  <2>4. /\ tree' \in [Version -> {None} \cup Trees]
        /\ \A j \in Version : tree'[j] # tree[j] => j = k /\ tree'[j] = new
    <3> HIDE DEF new
    <3> QED BY <2>2, <2>3
  <2>5. \A j \in Version : tree'[j] # tree[j] =>
          tree[j] # None /\ tree'[j] = [tree[j] EXCEPT !.damaged = TRUE]
    BY <2>3, <2>4
  <2> HIDE DEF new
  <2> QED BY <1>1, <2>1, <2>4, <2>5 DEF DamageTree
<1>2. CASE Upgrade
  BY <1>2 DEF Upgrade, Fault
<1>3. CASE Prune
  <2>1. pruning' \in Prunes
    BY <1>3, PruneForms
  <2>2. CASE PruneUsage \/ PruneList \/ PruneListStaging \/ PruneTake
    BY <2>1, <2>2 DEF PruneUsage, PruneList, PruneListStaging, PruneTake
  <2>3. CASE PruneStaging
    BY <2>1, <2>3 DEF PruneStaging
  <2>4. CASE PruneTree
    <3> DEFINE k == pruning.item[2]
               new == IF tree[k] = None \/ tree[k].damaged THEN None ELSE [tree[k] EXCEPT !.damaged = TRUE]
    <3>1. tree' = [tree EXCEPT ![k] = new]
      BY <2>4 DEF PruneTree
    <3>2. k \in Version => new \in {None} \cup Trees
      BY TreeForms
    <3>3. k \in Version /\ new # tree[k] =>
            \/ new = None
            \/ tree[k] # None /\ new = [tree[k] EXCEPT !.damaged = TRUE]
      OBVIOUS
    <3> HIDE DEF new, k
    <3>4. tree' \in [Version -> {None} \cup Trees]
      BY <3>1, <3>2
    <3>5. \A j \in Version : tree'[j] # tree[j] =>
            \/ tree'[j] = None
            \/ tree[j] # None /\ tree'[j] = [tree[j] EXCEPT !.damaged = TRUE]
      BY <3>1, <3>3
    <3> QED BY <2>1, <2>4, <3>4, <3>5 DEF PruneTree
  <2>5. CASE PruneRecord
    BY <2>1, <2>5 DEF PruneRecord
  <2>6. CASE PruneLock
    BY <2>1, <2>6 DEF PruneLock
  <2> QED BY <1>3, <2>2, <2>3, <2>4, <2>5, <2>6 DEF Prune
<1> QED BY <1>1, <1>2, <1>3
-----------------------------------------------------------------------------
(* The fields of a validation's state after each of its steps.             *)
Moves(r, e, x)  == e.pc = x /\ e.sources = r.sources
SameLock(r, e)  == e.locked = r.locked /\ e.inode = r.inode
SameFinds(r, e) == e.record = r.record /\ e.made = r.made /\ e.read = r.read /\ e.previous = r.previous

(* Up to the decision to rebuild: what verified, what was locked and found.*)
LEMMA LookFields ==
  ASSUME FixtureTypes, NEW w \in Worktree
  PROVE  LET r == run[w]
             e == run'[w]
             hit == Verifies(r.sources, r.record)
         IN /\ \A b : Start(w, b) =>
                 /\ e.pc = "record" /\ e.sources = inputs[w] /\ ~e.locked /\ e.inode = 0 /\ e.made = {}
            /\ ReadRecord(w) =>
                 /\ Moves(r, e, "scan") /\ SameLock(r, e) /\ e.made = r.made
                 /\ e.record = record[r.sources]
            /\ Scan(w) =>
                 \/ hit /\ Moves(r, e, "attach") /\ ~e.locked /\ e.inode = 0 /\ e.made = r.made
                 \/ hit /\ r.locked /\ Moves(r, e, "clear") /\ SameLock(r, e) /\ SameFinds(r, e)
                 \/ ~hit /\ r.locked /\ Moves(r, e, "clear") /\ SameLock(r, e)
                         /\ e.made = r.made /\ e.record = None
                 \/ ~r.locked /\ Moves(r, e, "open") /\ SameLock(r, e) /\ SameFinds(r, e)
            /\ OpenLock(w) =>
                 /\ Moves(r, e, "flock") /\ e.locked = r.locked /\ e.inode = lockFile'[r.sources]
                 /\ SameFinds(r, e)
            /\ TakeLock(w) =>
                 /\ Moves(r, e, "record") /\ e.locked /\ e.inode = r.inode /\ SameFinds(r, e)
<1> USE DEF FixtureTypes, Moves, SameLock, SameFinds, Becomes
<1>1. run[w] \in Runs
  OBVIOUS
<1>2. ASSUME NEW b, Start(w, b)
      PROVE  LET e == run'[w]
             IN e.pc = "record" /\ e.sources = inputs[w] /\ ~e.locked /\ e.inode = 0 /\ e.made = {}
  BY <1>2 DEF Start, Idle
<1>3. ASSUME ReadRecord(w)
      PROVE  LET r == run[w]
                 e == run'[w]
             IN /\ Moves(r, e, "scan") /\ SameLock(r, e) /\ e.made = r.made
                /\ e.record = record[r.sources]
  BY <1>1, <1>3 DEF ReadRecord, Runs
<1>4. ASSUME Scan(w)
      PROVE  LET r == run[w]
                 e == run'[w]
                 hit == Verifies(r.sources, r.record)
             IN \/ hit /\ Moves(r, e, "attach") /\ ~e.locked /\ e.inode = 0 /\ e.made = r.made
                \/ hit /\ r.locked /\ Moves(r, e, "clear") /\ SameLock(r, e) /\ SameFinds(r, e)
                \/ ~hit /\ r.locked /\ Moves(r, e, "clear") /\ SameLock(r, e)
                        /\ e.made = r.made /\ e.record = None
                \/ ~r.locked /\ Moves(r, e, "open") /\ SameLock(r, e) /\ SameFinds(r, e)
  <2> DEFINE hit == Verifies(run[w].sources, run[w].record)
  <2> HIDE DEF hit
  <2>1. CASE hit /\ ~run[w].regenerate
    BY <1>1, <1>4, <2>1 DEF Scan, Runs, hit
  <2>2. CASE ~(hit /\ ~run[w].regenerate) /\ run[w].locked
    BY <1>1, <1>4, <2>2 DEF Scan, Runs, hit
  <2>3. CASE ~(hit /\ ~run[w].regenerate) /\ ~run[w].locked
    BY <1>1, <1>4, <2>3 DEF Scan, Runs, hit
  <2> QED BY <2>1, <2>2, <2>3
<1>5. ASSUME OpenLock(w)
      PROVE  LET r == run[w]
                 e == run'[w]
             IN /\ Moves(r, e, "flock") /\ e.locked = r.locked /\ e.inode = lockFile'[r.sources]
                /\ SameFinds(r, e)
  BY <1>1, <1>5 DEF OpenLock, Runs
<1>6. ASSUME TakeLock(w)
      PROVE  LET r == run[w]
                 e == run'[w]
             IN Moves(r, e, "record") /\ e.locked /\ e.inode = r.inode /\ SameFinds(r, e)
  BY <1>1, <1>6 DEF TakeLock, Runs
<1> HIDE DEF FixtureTypes, Moves, SameLock, SameFinds, Becomes
<1> QED BY <1>2, <1>3, <1>4, <1>5, <1>6

(* Clearing the entry, generating, describing and publishing.              *)
LEMMA RebuildFields ==
  ASSUME FixtureTypes, NEW w \in Worktree
  PROVE  LET r == run[w]
             e == run'[w]
         IN /\ Clear(w) =>
                 \/ Moves(r, e, "aside") /\ SameLock(r, e) /\ SameFinds(r, e)
                      /\ r.record = None /\ tree[r.sources] # None
                 \/ Moves(r, e, "stash") /\ SameLock(r, e) /\ SameFinds(r, e)
                      /\ (r.record # None \/ tree[r.sources] = None)
                 \/ e = Idle
            /\ SetAsideTree(w) => Moves(r, e, "asideRecord") /\ SameLock(r, e) /\ SameFinds(r, e)
            /\ SetAsideRecord(w) => Moves(r, e, "stash") /\ SameLock(r, e) /\ SameFinds(r, e)
            /\ Stash(w) =>
                 /\ Moves(r, e, "step1") /\ SameLock(r, e) /\ e.record = r.record /\ e.made = r.made
            /\ RunStep(w) =>
                 /\ Moves(r, e, IF r.pc = "step1" THEN "step2" ELSE "changed") /\ SameLock(r, e)
                 /\ e.record = r.record /\ e.made = r.made \cup {inputs[w]}
            /\ ChangedInputs(w) =>
                 /\ Moves(r, e, "table") /\ SameLock(r, e) /\ e.record = r.record /\ e.made = {}
            /\ Describe(w) =>
                 \/ r.record = None /\ Moves(r, e, "publish") /\ SameLock(r, e) /\ e.made = r.made
                      /\ e.record # None
                 \/ r.record # None /\ Moves(r, e, "attach") /\ SameLock(r, e) /\ SameFinds(r, e)
            /\ Publish(w) => Moves(r, e, "attach") /\ SameLock(r, e) /\ SameFinds(r, e)
            /\ RebuildFails(w) => e = Idle
<1> USE DEF FixtureTypes, Moves, SameLock, SameFinds, Becomes
<1>1. run[w] \in Runs
  OBVIOUS
<1>2. ASSUME Clear(w)
      PROVE  LET r == run[w]
                 e == run'[w]
             IN \/ Moves(r, e, "aside") /\ SameLock(r, e) /\ SameFinds(r, e)
                     /\ r.record = None /\ tree[r.sources] # None
                \/ Moves(r, e, "stash") /\ SameLock(r, e) /\ SameFinds(r, e)
                     /\ (r.record # None \/ tree[r.sources] = None)
                \/ e = Idle
  BY <1>1, <1>2 DEF Clear, Goto, Runs
<1>3. ASSUME SetAsideTree(w)
      PROVE  LET r == run[w]
                 e == run'[w]
             IN Moves(r, e, "asideRecord") /\ SameLock(r, e) /\ SameFinds(r, e)
  BY <1>1, <1>3 DEF SetAsideTree, Goto, Runs
<1>4. ASSUME SetAsideRecord(w)
      PROVE  LET r == run[w]
                 e == run'[w]
             IN Moves(r, e, "stash") /\ SameLock(r, e) /\ SameFinds(r, e)
  BY <1>1, <1>4 DEF SetAsideRecord, Goto, Runs
<1>5. ASSUME Stash(w)
      PROVE  LET r == run[w]
                 e == run'[w]
             IN Moves(r, e, "step1") /\ SameLock(r, e) /\ e.record = r.record /\ e.made = r.made
  BY <1>1, <1>5 DEF Stash, Goto, Runs
<1>6. ASSUME RunStep(w)
      PROVE  LET r == run[w]
                 e == run'[w]
             IN /\ Moves(r, e, IF r.pc = "step1" THEN "step2" ELSE "changed") /\ SameLock(r, e)
                /\ e.record = r.record /\ e.made = r.made \cup {inputs[w]}
  BY <1>1, <1>6 DEF RunStep, Runs, At
<1>7. ASSUME ChangedInputs(w)
      PROVE  LET r == run[w]
                 e == run'[w]
             IN Moves(r, e, "table") /\ SameLock(r, e) /\ e.record = r.record /\ e.made = {}
  BY <1>1, <1>7 DEF ChangedInputs, Runs
<1>8. ASSUME Describe(w)
      PROVE  LET r == run[w]
                 e == run'[w]
             IN \/ r.record = None /\ Moves(r, e, "publish") /\ SameLock(r, e) /\ e.made = r.made
                     /\ e.record # None
                \/ r.record # None /\ Moves(r, e, "attach") /\ SameLock(r, e) /\ SameFinds(r, e)
  <2> DEFINE made == Content(staging[w])
             b == made # run[w].record
  <2>1. made # None
    BY <1>8, TreeForms DEF Describe
  <2>2. CASE run[w].record = None
    <3>1. run' = [run EXCEPT ![w] = [run[w] EXCEPT !.record = made, !.pc = "publish"]]
      BY <1>8, <2>2 DEF Describe
    <3> HIDE DEF made
    <3> QED BY <1>1, <2>1, <2>2, <3>1 DEF Runs
  <2>3. CASE run[w].record # None
    <3>1. run' = [run EXCEPT ![w] = [run[w] EXCEPT !.differ = b, !.pc = "attach"]]
      BY <1>8, <2>3 DEF Describe
    <3> HIDE DEF b
    <3> QED BY <1>1, <2>3, <3>1 DEF Runs
  <2> QED BY <2>2, <2>3
<1>9. ASSUME Publish(w)
      PROVE  LET r == run[w]
                 e == run'[w]
             IN Moves(r, e, "attach") /\ SameLock(r, e) /\ SameFinds(r, e)
  BY <1>1, <1>9 DEF Publish, Goto, Runs
<1>10. RebuildFails(w) => run'[w] = Idle
  BY DEF RebuildFails
<1> HIDE DEF FixtureTypes, Moves, SameLock, SameFinds, Becomes
<1> QED BY <1>2, <1>3, <1>4, <1>5, <1>6, <1>7, <1>8, <1>9, <1>10

(* Attaching, testing, confirming, and what ends a run or a checkout.      *)
LEMMA TestFields ==
  ASSUME FixtureTypes, NEW w \in Worktree
  PROVE  LET r == run[w]
             e == run'[w]
         IN /\ AttachAside(w) \/ GenerateLocally(w) \/ Edit(w) \/ AddOwnFile(w) => e = r
            /\ AttachLink(w) =>
                 e = Idle \/ (Moves(r, e, "tests") /\ e.made = {} /\ e.read = {} /\ ~e.locked /\ e.inode = 0)
            /\ Test(w) =>
                 \/ e = Idle
                 \/ /\ Moves(r, e, "tests") /\ SameLock(r, e) /\ e.made = r.made
                    /\ e.read = r.read \cup {Content(tree[checkout[w].key])}
                    /\ tree[checkout[w].key] # None
            /\ Confirm(w) => e = Idle \/ (Moves(r, e, "passed") /\ SameLock(r, e) /\ SameFinds(r, e))
            /\ Finish(w) \/ Crash(w) \/ DetachRename(w) => e = Idle
            /\ DetachClone(w) => e = r \/ (e.pc = "detach" /\ e.made = {} /\ ~e.locked /\ e.inode = 0)
            /\ DetachUnlink(w) => Moves(r, e, "detached") /\ SameLock(r, e) /\ SameFinds(r, e)
<1> USE DEF FixtureTypes, Moves, SameLock, SameFinds, Becomes
<1>1. run[w] \in Runs
  OBVIOUS
<1>2. AttachAside(w) \/ GenerateLocally(w) \/ Edit(w) \/ AddOwnFile(w) => run'[w] = run[w]
  BY DEF AttachAside, GenerateLocally, Edit, AddOwnFile
<1>3. ASSUME AttachLink(w)
      PROVE  LET r == run[w]
                 e == run'[w]
             IN e = Idle \/ (Moves(r, e, "tests") /\ e.made = {} /\ e.read = {} /\ ~e.locked /\ e.inode = 0)
  BY <1>3 DEF AttachLink, Idle
<1>4. ASSUME Test(w)
      PROVE  LET r == run[w]
                 e == run'[w]
             IN \/ e = Idle
                \/ /\ Moves(r, e, "tests") /\ SameLock(r, e) /\ e.made = r.made
                   /\ e.read = r.read \cup {Content(tree[checkout[w].key])}
                   /\ tree[checkout[w].key] # None
  BY <1>1, <1>4 DEF Test, Runs, At
<1>5. ASSUME Confirm(w)
      PROVE  LET r == run[w]
                 e == run'[w]
             IN e = Idle \/ (Moves(r, e, "passed") /\ SameLock(r, e) /\ SameFinds(r, e))
  BY <1>1, <1>5 DEF Confirm, Goto, Runs
<1>6. Finish(w) \/ Crash(w) \/ DetachRename(w) => run'[w] = Idle
  BY DEF Finish, Crash, DetachRename
<1>7. ASSUME DetachClone(w)
      PROVE  LET r == run[w]
                 e == run'[w]
             IN e = r \/ (e.pc = "detach" /\ e.made = {} /\ ~e.locked /\ e.inode = 0)
  BY <1>7 DEF DetachClone, Idle
<1>8. ASSUME DetachUnlink(w)
      PROVE  LET r == run[w]
                 e == run'[w]
             IN Moves(r, e, "detached") /\ SameLock(r, e) /\ SameFinds(r, e)
  BY <1>1, <1>8 DEF DetachUnlink, Goto, Runs
<1> HIDE DEF FixtureTypes, Moves, SameLock, SameFinds, Becomes
<1> QED BY <1>2, <1>3, <1>4, <1>5, <1>6, <1>7, <1>8
-----------------------------------------------------------------------------
Base == FixtureTypes /\ Attached

Works(w) == Validate(w) \/ Crash(w) \/ (w \in Attended /\ ByHand(w))

(* What a worktree that runs nothing has.                                  *)
LEMMA IdleFields ==
  Idle.pc = "idle" /\ Idle.sources = 1 /\ ~Idle.locked /\ Idle.inode = 0 /\ Idle.made = {}
BY DEF Idle

(* Nothing runs at the start.                                              *)
LEMMA BaseInit == FixtureInit => Base
<1>1. FixtureInit => Attached
  BY DEF FixtureInit, Attached, At, Idle
<1> QED BY <1>1, TypesInit DEF Base

(* What a worktree does changes nothing of any other's.                    *)
LEMMA Confinement ==
  ASSUME Base, NEW w \in Worktree, Works(w)
  PROVE  FixtureTypes' /\ Confined(w)
<1> DEFINE attended == w \in Attended
<1>1. attended \in BOOLEAN
  OBVIOUS
<1> HIDE DEF attended
<1>2. (\E b \in {FALSE, attended} : Start(w, b)) => \E b \in BOOLEAN : Start(w, b)
  BY <1>1
<1> USE DEF attended
<1> QED BY <1>2, LookStep, RebuildStep, TestStep, HandStep, CrashStep DEF Base, Works, Validate

(* Only a link just made begins a run of tests, and while it lasts nobody  *)
(* does anything by hand.                                                  *)
LEMMA AttachedOwn ==
  ASSUME Base, NEW w \in Worktree, Works(w), At(w, "tests")'
  PROVE  checkout'[w] = Link(run'[w].sources)
<1> USE DEF Base, FixtureTypes, At
<1>1. CASE AttachLink(w)
  BY <1>1, TestFields, IdleFields DEF AttachLink, Moves
<1>2. CASE Test(w)
  BY <1>2, TestFields, IdleFields DEF Test, Moves, Attached, localVars
<1>3. CASE Edit(w) \/ AttachAside(w) \/ AddOwnFile(w) \/ GenerateLocally(w)
  BY <1>3, TestFields DEF Edit, Attached, localVars, AttachAside, AddOwnFile, GenerateLocally
<1>4. CASE DetachClone(w)
  BY <1>4, TestFields DEF DetachClone
<1>5. CASE \/ \E b : Start(w, b)
           \/ ReadRecord(w) \/ Scan(w) \/ OpenLock(w) \/ TakeLock(w)
  BY <1>5, LookFields DEF Moves
<1>6. CASE \/ Clear(w) \/ SetAsideTree(w) \/ SetAsideRecord(w) \/ Stash(w) \/ RunStep(w)
           \/ ChangedInputs(w) \/ Describe(w) \/ Publish(w) \/ RebuildFails(w)
  BY <1>6, RebuildFields, IdleFields DEF Moves
<1>7. CASE Confirm(w) \/ Finish(w) \/ Crash(w) \/ DetachRename(w) \/ DetachUnlink(w)
  BY <1>7, TestFields, IdleFields DEF Moves
<1> QED BY <1>1, <1>2, <1>3, <1>4, <1>5, <1>6, <1>7 DEF Works, Validate, ByHand

(* Every step keeps the types and the link that tests read through.        *)
LEMMA BaseStep == Base /\ [FixtureNext]_fixtureVars => Base'
<1> SUFFICES ASSUME Base, [FixtureNext]_fixtureVars PROVE Base'
  OBVIOUS
<1>1. ASSUME NEW w \in Worktree, Works(w)
      PROVE  Base'
  <2>1. FixtureTypes' /\ Confined(w)
    BY <1>1, Confinement
  <2>2. At(w, "tests")' => checkout'[w] = Link(run'[w].sources)
    BY <1>1, AttachedOwn
  <2> QED BY <2>1, <2>2 DEF Base, Attached, At, Confined
<1>2. CASE Prune \/ Upgrade \/ \E k \in Version : DamageTree(k)
  BY <1>2, ElsewhereStep DEF Elsewhere, Attached, At, Base
<1>3. CASE UNCHANGED fixtureVars
  BY <1>3 DEF fixtureVars, inputVars, localVars, storeVars, FixtureTypes, Attached, At, Base
<1>4. \A w \in Attended : w \in Worktree
  BY FixtureAssumption
<1> QED BY <1>1, <1>2, <1>3, <1>4 DEF FixtureNext, Works

(* Types, and the link behind which tests read.                            *)
THEOREM FixtureOrder == FixtureSpec => []Base
<1> QED BY BaseInit, BaseStep, PTL DEF FixtureSpec
-----------------------------------------------------------------------------
(* What a step of a worktree does to its own checkout and to what it keeps *)
(* of it: nothing, or it is set aside before it is written over.           *)
LEMMA OwnFilesOwn ==
  ASSUME Base, NEW w \in Worktree, Works(w), OwnFiles(w)
  PROVE  OwnFiles(w)'
<1> USE DEF Base, FixtureTypes, OwnFiles, HoldsOwn
<1>0. inPlace \in BOOLEAN
  OBVIOUS
<1>1. \A x \in Rebuilding \cup {"detach", "detached"} :
        x \notin {"idle", "record", "scan", "clear", "open", "flock", "aside", "asideRecord", "attach",
                  "tests", "passed"}
  BY DEF Rebuilding
<1>2. CASE \/ \E b : Start(w, b)
           \/ ReadRecord(w) \/ Scan(w) \/ OpenLock(w) \/ TakeLock(w)
  <2>1. run'[w].pc \in {"record", "scan", "attach", "clear", "open", "flock"}
    BY <1>2, LookFields DEF Moves
  <2>2. UNCHANGED <<inPlace, checkout, kept, wrote>>
    BY <1>2 DEF Start, ReadRecord, Scan, OpenLock, TakeLock, inputVars, localVars
  <2> QED BY <1>1, <2>1, <2>2
<1>3. CASE \/ Clear(w) \/ SetAsideTree(w) \/ SetAsideRecord(w) \/ Describe(w) \/ Publish(w)
  <2>1. UNCHANGED <<inPlace, checkout, kept, wrote>>
    BY <1>3 DEF Clear, SetAsideTree, SetAsideRecord, Describe, Publish, inputVars, localVars
  <2>2. \/ run'[w].pc \in {"idle", "aside", "asideRecord", "attach", "stash"}
        \/ run'[w].pc = "publish" /\ run[w].pc = "table"
    BY <1>3, RebuildFields, IdleFields DEF Moves, Describe, At
  <2> QED BY <2>1, <2>2 DEF Rebuilding
<1>4. CASE Stash(w)
  <2>1. run'[w].pc = "step1"
    BY <1>4, RebuildFields DEF Moves
  <2>2. Own(w, checkout[w]) = IF HoldsOwn(checkout[w]) THEN {w} ELSE {}
    BY DEF Own
  <2>3. None.kind # "directory"
    BY NodeForms
  <2>4. inPlace' = inPlace /\ wrote' = wrote
    BY <1>4 DEF Stash, inputVars
  <2>5. CASE inPlace
    BY <1>4, <2>1, <2>2, <2>3, <2>4, <2>5 DEF Stash
  <2>6. CASE ~inPlace
    BY <1>4, <2>1, <2>4, <2>6 DEF Stash
  <2> QED BY <2>5, <2>6
<1>5. CASE RunStep(w) \/ ChangedInputs(w)
  <2>1. run'[w].pc \in Rebuilding \ {"stash"} /\ run[w].pc \in Rebuilding \ {"stash"}
    BY <1>5, RebuildFields DEF Moves, Rebuilding, RunStep, ChangedInputs, At
  <2>2. UNCHANGED <<inPlace, kept, wrote>>
    BY <1>5 DEF RunStep, ChangedInputs, inputVars
  <2>3. checkout' = checkout \/ (inPlace /\ ~HoldsOwn(checkout'[w]))
    <3>1. ~HoldsOwn(Dir(FALSE)) /\ ~HoldsOwn(None)
      BY NodeForms
    <3>2. checkout' = checkout \/ (inPlace /\ checkout'[w] \in {Dir(FALSE), None})
      BY <1>5 DEF RunStep, ChangedInputs
    <3> QED BY <3>1, <3>2
  <2> QED BY <2>1, <2>2, <2>3 DEF Rebuilding
<1>6. CASE RebuildFails(w)
  <2>1. run'[w].pc = "idle" /\ run[w].pc \in Rebuilding \ {"stash"}
    BY <1>6, RebuildFields, IdleFields DEF Rebuilding, RebuildFails
  <2>2. Own(w, run[w].previous) = IF HoldsOwn(run[w].previous) THEN {w} ELSE {}
    BY DEF Own
  <2>3. inPlace' = inPlace /\ wrote' = wrote
    BY <1>6 DEF RebuildFails, inputVars
  <2>4. CASE inPlace
    BY <1>1, <1>6, <2>1, <2>2, <2>3, <2>4 DEF RebuildFails
  <2>5. CASE ~inPlace
    BY <1>1, <1>6, <2>1, <2>3, <2>5 DEF RebuildFails
  <2> QED BY <2>4, <2>5
<1>7. CASE AttachAside(w)
  <2>1. run'[w] = run[w] /\ run[w].pc = "attach" /\ inPlace' = inPlace /\ wrote' = wrote
    BY <1>7, TestFields DEF AttachAside, At, inputVars
  <2>2. Own(w, checkout[w]) = IF HoldsOwn(checkout[w]) THEN {w} ELSE {}
    BY DEF Own
  <2> QED BY <1>1, <1>7, <2>1, <2>2 DEF AttachAside
<1>8. CASE AttachLink(w)
  <2>1. run'[w].pc \in {"idle", "tests"}
    BY <1>8, TestFields, IdleFields DEF Moves
  <2> QED BY <1>1, <1>8, <2>1 DEF AttachLink, inputVars
<1>9. CASE Test(w) \/ Confirm(w) \/ Finish(w) \/ Crash(w)
  <2>1. run'[w].pc \in {"idle", "tests", "passed"}
    BY <1>9, TestFields, IdleFields DEF Moves
  <2>2. UNCHANGED <<inPlace, checkout, kept, wrote>>
    BY <1>9 DEF Test, Confirm, Finish, Crash, inputVars, localVars
  <2> QED BY <1>1, <2>1, <2>2
<1>10. CASE GenerateLocally(w)
  <2>1. run'[w] = run[w] /\ run[w].pc = "idle" /\ UNCHANGED <<inPlace, kept, wrote>>
    BY <1>10, TestFields DEF GenerateLocally, At, inputVars
  <2>2. HoldsOwn(checkout'[w]) <=> HoldsOwn(checkout[w])
    <3> DEFINE own == checkout[w].kind = "directory" /\ checkout[w].own
    <3>1. checkout'[w] = Dir(own) /\ own \in BOOLEAN
      BY <1>10 DEF GenerateLocally
    <3>2. Dir(own).kind = "directory" /\ Dir(own).own = own
      <4> HIDE DEF own
      <4> QED BY <3>1, NodeForms
    <3> QED BY <3>1, <3>2
  <2> QED BY <1>1, <2>1, <2>2
<1>11. CASE DetachClone(w) \/ DetachUnlink(w) \/ DetachRename(w)
  <2>1. UNCHANGED <<inPlace, kept, wrote>>
    BY <1>11 DEF DetachClone, DetachUnlink, DetachRename, inputVars
  <2>2. run'[w].pc \in {"idle", "detach", "detached"}
    BY <1>11, TestFields, IdleFields DEF Moves, DetachClone, At
  <2>3. ~HoldsOwn(checkout[w]) /\ ~HoldsOwn(checkout'[w])
    <3>1. ~HoldsOwn(checkout[w])
      BY <1>11 DEF DetachClone, DetachUnlink, DetachRename, At
    <3>2. checkout'[w] \in {checkout[w], None, Dir(FALSE)}
      BY <1>11 DEF DetachClone, DetachUnlink, DetachRename
    <3> QED BY <3>1, <3>2, NodeForms
  <2> QED BY <2>1, <2>2, <2>3 DEF Rebuilding
<1>12. CASE Edit(w)
  BY <1>12 DEF Edit, localVars
<1>13. CASE AddOwnFile(w)
  <2>1. run'[w] = run[w] /\ run[w].pc = "idle" /\ UNCHANGED <<inPlace, kept>>
    BY <1>13, TestFields DEF AddOwnFile, At, inputVars
  <2>2. HoldsOwn(checkout'[w])
    BY <1>13, NodeForms DEF AddOwnFile
  <2> QED BY <1>1, <2>1, <2>2
<1> QED BY <1>2, <1>3, <1>4, <1>5, <1>6, <1>7, <1>8, <1>9, <1>10, <1>11, <1>12, <1>13
        DEF Works, Validate, ByHand

(* OwnFilesKept: a directory that holds files no validation generates is   *)
(* in the checkout or set aside, whatever fails, crashes or is detached.   *)
THEOREM OwnFilesSurvive == FixtureSpec => []OwnFilesKept
<1> DEFINE Kept == Base /\ \A w \in Worktree : OwnFiles(w)
<1>1. FixtureInit => \A w \in Worktree : OwnFiles(w)
  BY DEF FixtureInit, OwnFiles, Idle, Rebuilding
<1>2. ASSUME Base, \A w \in Worktree : OwnFiles(w), [FixtureNext]_fixtureVars
      PROVE  \A w \in Worktree : OwnFiles(w)'
  <2>1. ASSUME NEW x \in Worktree, Works(x), NEW w \in Worktree
        PROVE  OwnFiles(w)'
    <3>1. CASE w = x
      BY <1>2, <2>1, <3>1, OwnFilesOwn
    <3>2. CASE w # x
      <4>1. Confined(x) /\ OwnFiles(w)
        BY <1>2, <2>1, Confinement
      <4> QED BY <2>1, <3>2, <4>1 DEF Confined, OwnFiles
    <3> QED BY <3>1, <3>2
  <2>2. CASE Prune \/ Upgrade \/ \E k \in Version : DamageTree(k)
    BY <1>2, <2>2, ElsewhereStep DEF Elsewhere, OwnFiles, Base
  <2>3. CASE UNCHANGED fixtureVars
    BY <1>2, <2>3 DEF fixtureVars, inputVars, localVars, OwnFiles
  <2>4. \A w \in Attended : w \in Worktree
    BY FixtureAssumption
  <2> QED BY <1>2, <2>1, <2>2, <2>3, <2>4 DEF FixtureNext, Works
<1>3. Base /\ (\A w \in Worktree : OwnFiles(w)) => OwnFilesKept
  BY DEF Base, FixtureTypes, OwnFiles, OwnFilesKept, HoldsOwn
<1>4. FixtureInit => Kept
  BY <1>1, BaseInit
<1>5. Kept /\ [FixtureNext]_fixtureVars => Kept'
  BY <1>2, BaseStep
<1>6. Kept => OwnFilesKept
  BY <1>3
<1> QED BY <1>4, <1>5, <1>6, PTL DEF FixtureSpec
-----------------------------------------------------------------------------
(* What a generation has read by now, when it stages and when it           *)
(* describes what it staged.                                               *)
LEMMA GeneratedOwn ==
  ASSUME ~MayRevert, Base, NEW w \in Worktree, Works(w), GeneratedBy(w)
  PROVE  GeneratedBy(w)'
<1> USE DEF Base, FixtureTypes, GeneratedBy, At
<1>0. /\ run[w] \in Runs /\ run[w].sources \in Nat /\ inputs[w] \in Nat /\ run[w].made \in SUBSET Nat
      /\ inPlace' = inPlace
  <2>1. Confined(w)
    BY Confinement
  <2> QED BY <2>1 DEF Runs, Version, Confined
<1>1. CASE \/ \E b : Start(w, b)
           \/ ReadRecord(w) \/ Scan(w) \/ OpenLock(w) \/ TakeLock(w)
  <2>1. /\ run'[w].pc \in {"record", "scan", "attach", "clear", "open", "flock"}
        /\ \/ run'[w].sources = inputs[w] /\ run'[w].made = {}
           \/ run'[w].sources = run[w].sources /\ run'[w].made = run[w].made /\ run[w].pc # "idle"
    BY <1>1, LookFields DEF Moves, SameFinds, ReadRecord, Scan, OpenLock, TakeLock
  <2>2. inputs' = inputs
    BY <1>1 DEF Start, ReadRecord, Scan, OpenLock, TakeLock, inputVars
  <2> QED BY <1>0, <2>1, <2>2
<1>2. CASE Clear(w) \/ SetAsideTree(w) \/ SetAsideRecord(w) \/ Stash(w)
  <2>1. \/ run'[w] = Idle
        \/ /\ run'[w].pc \in {"aside", "asideRecord", "stash", "step1"} /\ run[w].pc # "idle"
           /\ run'[w].sources = run[w].sources /\ run'[w].made = run[w].made
    BY <1>2, RebuildFields DEF Moves, SameFinds, Clear, SetAsideTree, SetAsideRecord, Stash
  <2>2. inputs' = inputs
    BY <1>2 DEF Clear, SetAsideTree, SetAsideRecord, Stash, inputVars
  <2> QED BY <1>0, <2>1, <2>2, IdleFields
<1>3. CASE RunStep(w)
  <2>1. /\ run'[w].pc = IF run[w].pc = "step1" THEN "step2" ELSE "changed"
        /\ run[w].pc # "idle"
        /\ run'[w].sources = run[w].sources /\ run'[w].made = run[w].made \cup {inputs[w]}
        /\ inputs' = inputs
    BY <1>3, RebuildFields DEF Moves, RunStep, inputVars
  <2>2. ~inPlace => staging'[w].from = run[w].made \cup {inputs[w]}
    <3>1. (run[w].made \cup {inputs[w]}) \in SUBSET Version
      BY DEF Runs
    <3>2. \A vs \in SUBSET Version : Tree(vs, machine, FALSE).from = vs
      BY TreeForms
    <3> QED BY <1>3, <3>1, <3>2 DEF RunStep
  <2> QED BY <1>0, <2>1, <2>2
<1>4. CASE ChangedInputs(w)
  <2>1. /\ run'[w].pc = "table" /\ run'[w].sources = run[w].sources /\ run'[w].made = {}
        /\ inputs' = inputs /\ run[w].pc = "changed" /\ inputs[w] = run[w].sources
    BY <1>4, RebuildFields DEF Moves, ChangedInputs, inputVars
  <2>2. run[w].made = {run[w].sources}
    <3>1. \A v \in run[w].made : v = run[w].sources
      BY <1>0, <2>1
    <3> QED BY <2>1, <3>1
  <2>3. staging'[w] # None => staging'[w].from = {run[w].sources}
    <3>1. CASE inPlace
      <4>1. staging'[w] = Tree(run[w].made, machine, FALSE)
        BY <1>4, <3>1 DEF ChangedInputs
      <4>2. run[w].made \in SUBSET Version
        BY DEF Runs
      <4>3. \A vs \in SUBSET Version : Tree(vs, machine, FALSE).from = vs
        BY TreeForms
      <4> QED BY <2>2, <4>1, <4>2, <4>3
    <3>2. CASE ~inPlace
      BY <1>4, <2>1, <2>2, <3>2 DEF ChangedInputs
    <3> QED BY <3>1, <3>2
  <2> QED BY <1>0, <2>1, <2>3
<1>5. CASE Describe(w) \/ Publish(w)
  <2>1. /\ run'[w].pc \in {"publish", "attach"} /\ run[w].pc \in {"table", "publish"}
        /\ run'[w].sources = run[w].sources /\ run'[w].made = run[w].made
    BY <1>5, RebuildFields DEF Moves, SameFinds, Describe, Publish
  <2>2. inputs' = inputs /\ staging'[w] \in {staging[w], None}
    BY <1>5 DEF Describe, Publish, inputVars
  <2> QED BY <1>0, <2>1, <2>2
<1>6. CASE RebuildFails(w) \/ Finish(w) \/ Crash(w) \/ DetachRename(w)
  <2>1. run'[w] = Idle
    BY <1>6, RebuildFields, TestFields
  <2> QED BY <2>1, IdleFields
<1>7. CASE AttachAside(w) \/ GenerateLocally(w) \/ AddOwnFile(w)
  <2>1. run'[w] = run[w] /\ inputs' = inputs /\ staging' = staging
    BY <1>7, TestFields DEF AttachAside, GenerateLocally, AddOwnFile, inputVars, storeVars
  <2> QED BY <1>0, <2>1
<1>8. CASE AttachLink(w) \/ Test(w) \/ Confirm(w) \/ DetachUnlink(w)
  <2>1. \/ run'[w] = Idle
        \/ /\ run'[w].pc \in {"tests", "passed", "detached"} /\ run'[w].sources = run[w].sources
           /\ run[w].pc # "idle"
           /\ run'[w].made = run[w].made \/ run'[w].made = {}
    BY <1>8, TestFields DEF Moves, SameFinds, AttachLink, Test, Confirm, DetachUnlink
  <2>2. inputs' = inputs
    BY <1>8 DEF AttachLink, Test, Confirm, DetachUnlink, inputVars
  <2> QED BY <1>0, <2>1, <2>2, IdleFields
<1>9. CASE DetachClone(w)
  <2>1. inputs' = inputs /\ staging' = staging
    BY <1>9 DEF DetachClone, inputVars, storeVars
  <2>2. run'[w] = run[w] \/ run'[w] = [Idle EXCEPT !.pc = "detach"]
    BY <1>9 DEF DetachClone, Becomes
  <2>3. CASE run'[w] = [Idle EXCEPT !.pc = "detach"]
    <3>1. run'[w].pc = "detach" /\ run'[w].sources = 1 /\ run'[w].made = {}
      BY <2>3 DEF Idle
    <3>2. 1 <= inputs[w]
      BY DEF Version
    <3> QED BY <2>1, <3>1, <3>2
  <2> QED BY <1>0, <2>1, <2>2, <2>3
<1>10. CASE Edit(w)
  <2>1. run' = run /\ staging' = staging /\ inputs'[w] \in Nat /\ inputs'[w] > inputs[w]
    BY <1>10 DEF Edit, storeVars, Version
  <2> QED BY <1>0, <2>1
<1> QED BY <1>1, <1>2, <1>3, <1>4, <1>5, <1>6, <1>7, <1>8, <1>9, <1>10 DEF Works, Validate, ByHand

(* An entry's tree is published from staging, and otherwise only taken     *)
(* away.                                                                   *)
LEMMA PublishedOwn ==
  ASSUME Base, NEW w \in Worktree, Works(w), GeneratedBy(w), NEW k \in Version,
         tree[k] # None => tree[k].from = {k}
  PROVE  tree'[k] # None => tree'[k].from = {k}
<1> USE DEF Base, FixtureTypes, At
<1>1. CASE Publish(w)
  <2>1. staging[w] # None /\ staging[w].from = {run[w].sources}
    BY <1>1 DEF Publish, GeneratedBy
  <2> QED BY <1>1, <2>1 DEF Publish
<1>2. CASE SetAsideTree(w)
  BY <1>2 DEF SetAsideTree
<1>3. CASE ~Publish(w) /\ ~SetAsideTree(w)
  <2>1. tree' = tree
    BY <1>3 DEF Works, Validate, ByHand, Start, ReadRecord, Scan, OpenLock, TakeLock, Clear,
                SetAsideRecord, Stash, RunStep, ChangedInputs, Describe, RebuildFails, AttachAside,
                AttachLink, Test, Confirm, Finish, Crash, GenerateLocally, DetachClone, DetachUnlink,
                DetachRename, Edit, AddOwnFile, storeVars
  <2> QED BY <2>1
<1> QED BY <1>1, <1>2, <1>3

(* A test reads through the link, so from the entry of its inputs.         *)
LEMMA ReadsOwn ==
  ASSUME Base, NEW w \in Worktree, Works(w), ReadsItsOwn(w),
         \A k \in Version : tree[k] # None => tree[k].from = {k}
  PROVE  ReadsItsOwn(w)'
<1> USE DEF Base, FixtureTypes, ReadsItsOwn, At
<1>1. CASE \/ \E b : Start(w, b)
           \/ ReadRecord(w) \/ Scan(w) \/ OpenLock(w) \/ TakeLock(w)
  BY <1>1, LookFields DEF Moves
<1>2. CASE \/ Clear(w) \/ SetAsideTree(w) \/ SetAsideRecord(w) \/ Stash(w) \/ RunStep(w)
           \/ ChangedInputs(w) \/ Describe(w) \/ Publish(w) \/ RebuildFails(w)
  BY <1>2, RebuildFields, IdleFields DEF Moves
<1>3. CASE AttachAside(w) \/ GenerateLocally(w) \/ Edit(w) \/ AddOwnFile(w)
  BY <1>3, TestFields
<1>4. CASE AttachLink(w) \/ Confirm(w) \/ Finish(w) \/ Crash(w) \/ DetachRename(w) \/ DetachUnlink(w)
  BY <1>4, TestFields, IdleFields DEF Moves, SameFinds, Confirm
<1>5. CASE DetachClone(w)
  BY <1>5, TestFields DEF DetachClone
<1>6. CASE Test(w)
  <2>1. CASE run'[w] = Idle
    BY <2>1, IdleFields
  <2>2. CASE run'[w] # Idle
    <3>1. /\ run'[w].sources = run[w].sources /\ run[w].pc = "tests"
          /\ run'[w].read = run[w].read \cup {Content(tree[checkout[w].key])}
          /\ tree[checkout[w].key] # None
      BY <1>6, <2>2, TestFields DEF Moves, Test
    <3>2. checkout[w].key = run[w].sources /\ run[w].sources \in Version
      <4>1. run[w].sources \in Version /\ checkout[w] = Link(run[w].sources)
        BY <3>1 DEF Attached, Runs
      <4> QED BY <4>1, NodeForms
    <3>3. Content(tree[checkout[w].key]).from = {run[w].sources}
      <4>1. tree[run[w].sources] \in Trees /\ tree[run[w].sources].from = {run[w].sources}
        BY <3>1, <3>2
      <4> QED BY <3>2, <4>1, TreeForms
    <3> QED BY <3>1, <3>3
  <2> QED BY <2>1, <2>2
<1> QED BY <1>1, <1>2, <1>3, <1>4, <1>5, <1>6 DEF Works, Validate, ByHand

(* The store is empty at the start.                                        *)
LEMMA GeneratedInit == FixtureInit => Generated
BY DEF FixtureInit, Generated, GeneratedBy, ReadsItsOwn, At, Idle

(* Every step keeps what the trees were generated from.                    *)
LEMMA GeneratedStep ==
  ASSUME ~MayRevert, Base, Generated, [FixtureNext]_fixtureVars
  PROVE  Generated'
<1>1. ASSUME NEW x \in Worktree, Works(x)
      PROVE  Generated'
  <2>1. \A k \in Version : tree'[k] # None => tree'[k].from = {k}
    BY <1>1, PublishedOwn DEF Generated
  <2>2. ASSUME NEW w \in Worktree
        PROVE  GeneratedBy(w)' /\ ReadsItsOwn(w)'
    <3>1. CASE w = x
      BY <1>1, <3>1, GeneratedOwn, ReadsOwn DEF Generated
    <3>2. CASE w # x
      BY <1>1, <3>2, Confinement DEF Confined, Generated, GeneratedBy, ReadsItsOwn, At
    <3> QED BY <3>1, <3>2
  <2> QED BY <2>1, <2>2 DEF Generated
<1>2. CASE Prune \/ Upgrade \/ \E k \in Version : DamageTree(k)
  <2>1. Elsewhere
    BY <1>2, ElsewhereStep DEF Base
  <2>2. ASSUME NEW k \in Version, tree'[k] # None
        PROVE  tree'[k].from = {k}
    <3>1. CASE tree'[k] = tree[k]
      BY <2>2, <3>1 DEF Generated
    <3>2. CASE tree'[k] # tree[k]
      <4>1. tree[k] # None /\ tree'[k] = [tree[k] EXCEPT !.damaged = TRUE]
        BY <2>1, <2>2, <3>2 DEF Elsewhere
      <4>2. tree[k] \in Trees /\ tree[k].from = {k}
        BY <4>1 DEF Base, FixtureTypes, Generated
      <4> QED BY <4>1, <4>2, TreeForms
    <3> QED BY <3>1, <3>2
  <2>3. ASSUME NEW w \in Worktree
        PROVE  GeneratedBy(w)' /\ ReadsItsOwn(w)'
    BY <2>1 DEF Elsewhere, Generated, GeneratedBy, ReadsItsOwn, At
  <2> QED BY <2>2, <2>3 DEF Generated
<1>3. CASE UNCHANGED fixtureVars
  BY <1>3 DEF fixtureVars, inputVars, localVars, storeVars, Generated, GeneratedBy, ReadsItsOwn, At
<1>4. \A w \in Attended : w \in Worktree
  BY FixtureAssumption
<1> QED BY <1>1, <1>2, <1>3, <1>4 DEF FixtureNext, Works

(* Without edits that bring back earlier inputs, every tree in the store,  *)
(* verified or not, was generated from the inputs its key names, and every *)
(* test has read such a tree of its own inputs.                            *)
THEOREM EntriesAreGenerated ==
  ASSUME ~MayRevert
  PROVE  FixtureSpec => []Generated
<1>1. FixtureInit => Base /\ Generated
  BY BaseInit, GeneratedInit
<1>2. (Base /\ Generated) /\ [FixtureNext]_fixtureVars => (Base /\ Generated)'
  BY BaseStep, GeneratedStep
<1> QED BY <1>1, <1>2, PTL DEF FixtureSpec

(* EntryIsForItsKey: what verifies was generated from the inputs of its    *)
(* key, by whichever worktree and after whatever crash.                    *)
THEOREM EntriesAreForTheirKeys ==
  ASSUME ~MayRevert
  PROVE  FixtureSpec => []EntryIsForItsKey
<1>1. Generated => EntryIsForItsKey
  BY DEF Generated, EntryIsForItsKey, Verifies
<1> QED BY <1>1, EntriesAreGenerated, PTL

(* A run comes to pass by the confirmation of its inputs alone.            *)
LEMMA PassedByConfirm ==
  ASSUME Base, Base', [FixtureNext]_fixtureVars, NEW w \in Worktree, ~At(w, "passed"), At(w, "passed")'
  PROVE  Confirm(w) /\ run'[w] # Idle
<1> USE DEF At
<1>1. run'[w] # run[w]
  OBVIOUS
<1>2. \A k \in Attended : k \in Worktree
  BY FixtureAssumption
<1>3. ~UNCHANGED fixtureVars
  BY <1>1 DEF fixtureVars
<1>4. ~(Prune \/ Upgrade \/ \E k \in Version : DamageTree(k))
  BY <1>1, ElsewhereStep DEF Elsewhere, Base
<1>5. PICK x \in Worktree : Works(x)
  BY <1>2, <1>3, <1>4 DEF FixtureNext, Works
<1>6. x = w
  BY <1>1, <1>5, Confinement DEF Confined
<1>7. ~(\/ \E b : Start(w, b)
        \/ ReadRecord(w) \/ Scan(w) \/ OpenLock(w) \/ TakeLock(w))
  BY LookFields DEF Moves, Base
<1>8. ~(\/ Clear(w) \/ SetAsideTree(w) \/ SetAsideRecord(w) \/ Stash(w) \/ RunStep(w)
        \/ ChangedInputs(w) \/ Describe(w) \/ Publish(w) \/ RebuildFails(w))
  BY RebuildFields, IdleFields DEF Moves, Base
<1>9. ~(AttachAside(w) \/ GenerateLocally(w) \/ Edit(w) \/ AddOwnFile(w))
  BY TestFields DEF Base
<1>10. ~(AttachLink(w) \/ Test(w) \/ Finish(w) \/ Crash(w) \/ DetachRename(w) \/ DetachUnlink(w))
  BY TestFields, IdleFields DEF Moves, Base
<1>11. ~DetachClone(w)
  BY TestFields DEF Base
<1>12. run'[w] # Idle
  BY IdleFields
<1> QED BY <1>5, <1>6, <1>7, <1>8, <1>9, <1>10, <1>11, <1>12 DEF Works, Validate, ByHand

(* PassDescribesCheckout: when a run passes, its tests have read oracles   *)
(* of the inputs that its checkout has at that moment, and no others.      *)
THEOREM PassesDescribeTheCheckout ==
  ASSUME ~MayRevert
  PROVE  FixtureSpec => PassDescribesCheckout
<1>1. ASSUME Base, Generated, [FixtureNext]_fixtureVars, NEW w \in Worktree,
             ~At(w, "passed"), At(w, "passed")', NEW c \in run'[w].read
      PROVE  c.from = {inputs'[w]}
  <2>1. Base' /\ Generated'
    BY <1>1, BaseStep, GeneratedStep
  <2>2. Confirm(w) /\ run'[w] # Idle
    BY <1>1, <2>1, PassedByConfirm
  <2>3. inputs' = inputs /\ inputs[w] = run[w].sources
    BY <1>1, <2>2 DEF Confirm, Becomes, inputVars, Base, FixtureTypes
  <2>4. run'[w].sources = run[w].sources
    BY <1>1, <2>2, TestFields DEF Moves, Base
  <2>5. c.from = {run'[w].sources}
    BY <1>1, <2>1 DEF Generated, ReadsItsOwn, At
  <2> QED BY <2>3, <2>4, <2>5
<1>2. FixtureInit => Base /\ Generated
  BY BaseInit, GeneratedInit
<1>3. (Base /\ Generated) /\ [FixtureNext]_fixtureVars => (Base /\ Generated)'
  BY BaseStep, GeneratedStep
<1>4. (Base /\ Generated) /\ [FixtureNext]_fixtureVars
        => [\A w \in Worktree : ~At(w, "passed") /\ At(w, "passed")' =>
              \A c \in run'[w].read : c.from = {inputs'[w]}]_fixtureVars
  BY <1>1
<1> QED BY <1>2, <1>3, <1>4, PTL DEF FixtureSpec, PassDescribesCheckout
-----------------------------------------------------------------------------
(* The prune and the validations take turns.                               *)
LEMMA PruneApartWorks ==
  ASSUME PruneAlone, Base, PruneApart, NEW w \in Worktree, Works(w)
  PROVE  PruneApart'
<1> USE DEF Base, FixtureTypes, At
<1>1. pruning' = pruning
  BY DEF Works, Validate, ByHand, Start, ReadRecord, Scan, OpenLock, TakeLock, Clear, SetAsideTree,
         SetAsideRecord, Stash, RunStep, ChangedInputs, Describe, Publish, RebuildFails, AttachAside,
         AttachLink, Test, Confirm, Finish, Crash, GenerateLocally, DetachClone, DetachUnlink,
         DetachRename, Edit, AddOwnFile
<1>2. ASSUME pruning.pc # "idle"
      PROVE  \A x \in Worktree : run'[x].pc = "idle"
  <2>1. \A x \in Worktree : run[x].pc = "idle"
    BY <1>2 DEF PruneApart
  <2>2. GenerateLocally(w) \/ Edit(w) \/ AddOwnFile(w)
    BY <1>2, <2>1
       DEF Works, Validate, ByHand, Start, ReadRecord, Scan, OpenLock, TakeLock, Clear, SetAsideTree,
           SetAsideRecord, Stash, RunStep, ChangedInputs, Describe, Publish, RebuildFails, AttachAside,
           AttachLink, Test, Confirm, Finish, Crash, DetachClone, DetachUnlink, DetachRename
  <2>3. run'[w] = run[w]
    BY <2>2, TestFields
  <2>4. Confined(w)
    BY Confinement
  <2> QED BY <2>1, <2>3, <2>4 DEF Confined
<1> QED BY <1>1, <1>2 DEF PruneApart

(* A prune begins when all are idle, and keeps to the part it is in.       *)
LEMMA PruneApartPrunes ==
  ASSUME PruneAlone, Base, PruneApart, Prune
  PROVE  PruneApart' /\ \A w \in Worktree : At(w, "idle")
<1> USE DEF At
<1>1. run' = run
  BY DEF Prune, PruneUsage, PruneList, PruneListStaging, PruneTake, PruneStaging, PruneTree,
         PruneRecord, PruneLock
<1>2. NoPrune.pc = "idle" /\ NoPrune.item[1] = "none"
  BY NoPruneForm
<1>3. pruning.pc = "idle" => pruning.item[1] = "none"
  BY <1>2 DEF PruneApart
<1>4. FixtureTypes
  BY DEF Base
<1>5. CASE PruneUsage
  <2>1. \A w \in Worktree : run[w].pc = "idle"
    BY <1>5 DEF PruneUsage
  <2>2. pruning'.pc = "list" /\ pruning'.item[1] = "none"
    BY <1>4, <1>5, PruneForms
  <2> QED BY <1>1, <2>1, <2>2 DEF PruneApart
<1>6. CASE PruneList
  <2>1. pruning.pc = "list" /\ pruning'.pc = "entries" /\ pruning'.item = pruning.item
    BY <1>4, <1>6, PruneForms
  <2> QED BY <1>1, <2>1 DEF PruneApart
<1>7. CASE PruneListStaging
  <2>1. \/ pruning.pc = "staging" /\ pruning' = NoPrune
        \/ /\ pruning.pc = "entries" /\ pruning'.pc = "staging" /\ pruning'.item = pruning.item
           /\ pruning.item[1] = "none" /\ \A i \in pruning'.items : i[1] = "staging"
    BY <1>4, <1>7, PruneForms
  <2> QED BY <1>1, <1>2, <2>1 DEF PruneApart
<1>8. CASE PruneTake
  <2>1. /\ pruning.pc \in {"entries", "staging"} /\ pruning.item[1] = "none"
        /\ pruning'.pc = pruning.pc /\ pruning'.items \subseteq pruning.items
        /\ pruning'.item = pruning.item \/ pruning'.item \in pruning.items
    BY <1>4, <1>8, PruneForms
  <2> QED BY <1>1, <2>1 DEF PruneApart
<1>9. CASE PruneStaging \/ PruneLock
  <2>1. /\ pruning.item[1] \in {"staging", "orphaned lock"} /\ pruning'.pc = pruning.pc
        /\ pruning'.items = pruning.items /\ pruning'.item[1] = "none"
    BY <1>4, <1>9, PruneForms
  <2> QED BY <1>1, <1>3, <2>1 DEF PruneApart
<1>10. CASE PruneTree \/ PruneRecord
  <2>1. /\ pruning.item[1] \in {"entry", "orphaned record"} /\ pruning'.pc = pruning.pc
        /\ pruning'.items = pruning.items
    BY <1>4, <1>10, PruneForms
  <2> QED BY <1>1, <2>1 DEF PruneApart
<1> QED BY <1>5, <1>6, <1>7, <1>8, <1>9, <1>10 DEF Prune

(* The lock a worktree opens is the one at the path: a new file gets a     *)
(* number that nobody uses, so none that says "no lock".                   *)
LEMMA OpenedInode ==
  ASSUME Base, PruneApart, \A x \in Worktree : LockKept(x), NEW w \in Worktree, OpenLock(w)
  PROVE  LET k == run[w].sources
         IN /\ lockFile'[k] # 0
            /\ lockFile[k] # 0 => lockFile'[k] = lockFile[k]
            /\ \A j \in Version \ {k} : lockFile'[j] = lockFile[j]
<1> DEFINE k == run[w].sources
           new == CHOOSE i \in Inode : i \notin OpenInodes(k)
<1>1. k \in Version /\ k # 0 /\ lockFile \in [Version -> Nat]
  BY DEF Base, FixtureTypes, Runs, Version
<1>2. lockFile' = [lockFile EXCEPT ![k] = IF @ = 0 THEN new ELSE @]
  BY DEF OpenLock
<1>3. new \in Inode
  BY FreshInode
<1> HIDE DEF new, k
<1>4. new # 0
  BY <1>3 DEF Inode
<1>5. lockFile'[k] = (IF lockFile[k] = 0 THEN new ELSE lockFile[k]) /\ \A j \in Version \ {k} : lockFile'[j] = lockFile[j]
  BY <1>1, <1>2
<1> QED BY <1>1, <1>4, <1>5 DEF k

(* What a worktree's own step does to its lock.                            *)
LEMMA LockKeptOwn ==
  ASSUME PruneAlone, Base, Orderly, NEW w \in Worktree, Works(w)
  PROVE  LockKept(w)' /\ \A x \in Worktree \ {w} : LockKept(x)'
<1> USE DEF LockKept, At
<1>0. /\ FixtureTypes /\ Confined(w)
      /\ \A x \in Worktree : LockKept(x) /\ run[x].sources \in Version
  BY Confinement DEF Base, Orderly, FixtureTypes, Runs
<1>1. CASE OpenLock(w)
  <2>1. /\ run'[w].pc = "flock" /\ run'[w].sources = run[w].sources /\ run'[w].locked = run[w].locked
        /\ run'[w].inode = lockFile'[run[w].sources]
    BY <1>0, <1>1, LookFields DEF Moves
  <2>2. /\ lockFile'[run[w].sources] # 0
        /\ lockFile[run[w].sources] # 0 => lockFile'[run[w].sources] = lockFile[run[w].sources]
        /\ \A j \in Version \ {run[w].sources} : lockFile'[j] = lockFile[j]
    BY <1>1, OpenedInode DEF Orderly
  <2>3. LockKept(w)'
    BY <2>1, <2>2 DEF Locking, Rebuilding
  <2>4. ASSUME NEW x \in Worktree \ {w}
        PROVE  LockKept(x)'
    <3>1. run'[x] = run[x]
      BY <1>0 DEF Confined
    <3>2. run[x].inode # 0 => lockFile'[run[x].sources] = lockFile[run[x].sources]
      BY <1>0, <2>2
    <3> QED BY <1>0, <3>1, <3>2
  <2> QED BY <2>3, <2>4
<1>2. ASSUME ~OpenLock(w)
      PROVE  lockFile' = lockFile
  BY <1>2 DEF Works, Validate, ByHand, Start, ReadRecord, Scan, TakeLock, Clear, SetAsideTree,
              SetAsideRecord, Stash, RunStep, ChangedInputs, Describe, Publish, RebuildFails,
              AttachAside, AttachLink, Test, Confirm, Finish, Crash, GenerateLocally, DetachClone,
              DetachUnlink, DetachRename, Edit, AddOwnFile, storeVars
<1>3. ASSUME ~OpenLock(w), NEW x \in Worktree \ {w}
      PROVE  LockKept(x)'
  BY <1>0, <1>2, <1>3 DEF Confined
<1>4. ASSUME ~OpenLock(w)
      PROVE  LockKept(w)'
  <2>1. lockFile' = lockFile
    BY <1>2, <1>4
  <2>2. CASE run'[w] = Idle
    BY <2>1, <2>2, IdleFields DEF Locking, Rebuilding
  <2>3. CASE run'[w] = run[w]
    BY <1>0, <2>1, <2>3
  <2>4. CASE \/ \E b : Start(w, b)
             \/ ReadRecord(w) \/ Scan(w) \/ TakeLock(w)
    <3>1. /\ run'[w].pc \in {"record", "scan", "attach", "clear", "open"}
          /\ \/ ~run'[w].locked /\ run'[w].inode = 0 /\ run'[w].pc # "clear"
             \/ /\ run'[w].sources = run[w].sources /\ run'[w].inode = run[w].inode
                /\ run'[w].locked = run[w].locked /\ run'[w].pc \in {"scan", "clear", "open"}
                /\ run'[w].pc = "clear" => run[w].locked
                /\ run'[w].pc = "open" => ~run[w].locked /\ run[w].pc = "scan"
             \/ /\ run'[w].sources = run[w].sources /\ run'[w].inode = run[w].inode
                /\ run'[w].pc = "record" /\ run[w].pc = "flock"
      BY <1>0, <2>4, LookFields DEF Moves, SameLock, Scan, TakeLock
    <3> QED BY <1>0, <2>1, <3>1 DEF Locking, Rebuilding
  <2>5. CASE \/ Clear(w) \/ SetAsideTree(w) \/ SetAsideRecord(w) \/ Stash(w) \/ RunStep(w)
             \/ ChangedInputs(w) \/ Describe(w) \/ Publish(w) \/ RebuildFails(w)
    <3>1. \/ run'[w] = Idle
          \/ /\ run'[w].pc \in Locking \cup {"attach"} /\ run[w].pc \in Locking
             /\ run'[w].sources = run[w].sources /\ SameLock(run[w], run'[w])
      BY <1>0, <2>5, RebuildFields
         DEF Moves, Clear, SetAsideTree, SetAsideRecord, Stash, RunStep, ChangedInputs, Describe,
             Publish, RebuildFails, Locking, Rebuilding
    <3> QED BY <1>0, <2>1, <2>2, <3>1 DEF SameLock, Locking, Rebuilding
  <2>6. CASE \/ AttachLink(w) \/ Test(w) \/ Confirm(w) \/ DetachUnlink(w) \/ DetachClone(w)
    <3>1. \/ run'[w] = Idle \/ run'[w] = run[w]
          \/ /\ run'[w].pc \in {"tests", "passed", "detach", "detached"}
             /\ \/ ~run'[w].locked /\ run'[w].inode = 0
                \/ run'[w].sources = run[w].sources /\ SameLock(run[w], run'[w])
      BY <1>0, <2>6, TestFields DEF Moves
    <3> QED BY <1>0, <2>1, <2>2, <2>3, <3>1 DEF SameLock, Locking, Rebuilding
  <2>7. CASE \/ AttachAside(w) \/ GenerateLocally(w) \/ Edit(w) \/ AddOwnFile(w) \/ Finish(w)
             \/ Crash(w) \/ DetachRename(w)
    BY <1>0, <2>2, <2>3, <2>7, TestFields
  <2> QED BY <1>4, <2>4, <2>5, <2>6, <2>7 DEF Works, Validate, ByHand
<1> QED BY <1>1, <1>3, <1>4
(* Two that hold a lock of the same entry would hold the same inode, and   *)
(* flock gives that to one.                                                *)
LEMMA OneHolderWorks ==
  ASSUME Base, Orderly, NEW w \in Worktree, Works(w)
  PROVE  OneHolder'
<1>0. /\ FixtureTypes /\ Confined(w) /\ OneHolder
      /\ \A x \in Worktree : LockKept(x)
  BY Confinement DEF Base, Orderly
<1>1. CASE TakeLock(w)
  <2>1. /\ run'[w].sources = run[w].sources /\ run[w].inode # 0
        /\ ~Busy(run[w].sources, run[w].inode)
    BY <1>0, <1>1, LookFields DEF Moves, TakeLock, LockKept, At
  <2>2. ASSUME NEW x \in Worktree \ {w}, run'[x].locked
        PROVE  run'[x].sources # run'[w].sources
    <3>1. run'[x] = run[x]
      BY <1>0 DEF Confined
    <3>2. CASE run[x].sources = run[w].sources
      <4>1. run[x].inode = run[w].inode
        BY <1>0, <2>1, <2>2, <3>1, <3>2 DEF LockKept
      <4> QED BY <2>1, <2>2, <3>1, <3>2, <4>1 DEF Busy
    <3> QED BY <2>1, <3>1, <3>2
  <2>3. \A x \in Worktree \ {w} : run'[x] = run[x]
    BY <1>0 DEF Confined
  <2> QED BY <1>0, <2>2, <2>3 DEF OneHolder
<1>2. CASE ~TakeLock(w)
  <2>1. run'[w].locked => run[w].locked /\ run'[w].sources = run[w].sources
    <3>1. CASE \/ \E b : Start(w, b)
               \/ ReadRecord(w) \/ Scan(w) \/ OpenLock(w)
      BY <1>0, <3>1, LookFields DEF Moves, SameLock
    <3>2. CASE \/ Clear(w) \/ SetAsideTree(w) \/ SetAsideRecord(w) \/ Stash(w) \/ RunStep(w)
               \/ ChangedInputs(w) \/ Describe(w) \/ Publish(w) \/ RebuildFails(w)
      BY <1>0, <3>2, RebuildFields, IdleFields DEF Moves, SameLock
    <3>3. CASE \/ AttachAside(w) \/ AttachLink(w) \/ Test(w) \/ Confirm(w) \/ Finish(w) \/ Crash(w)
      BY <1>0, <3>3, TestFields, IdleFields DEF Moves, SameLock
    <3>4. CASE ByHand(w)
      BY <1>0, <3>4, TestFields, IdleFields DEF Moves, SameLock, ByHand
    <3> QED BY <1>2, <3>1, <3>2, <3>3, <3>4 DEF Works, Validate
  <2>2. \A x \in Worktree \ {w} : run'[x] = run[x]
    BY <1>0 DEF Confined
  <2> QED BY <1>0, <2>1, <2>2 DEF OneHolder
<1> QED BY <1>1, <1>2

(* What a worktree knows of an entry nobody else can change.               *)
LEMMA UnverifiedOthers ==
  ASSUME Base, Orderly, NEW w \in Worktree, Works(w), NEW x \in Worktree \ {w}
  PROVE  Unverified(x)'
<1>1. /\ Confined(w) /\ OneHolder /\ Unverified(x)
      /\ LockKept(x) /\ LockKept(w) /\ run[x].sources \in Version
  BY Confinement DEF Base, Orderly, FixtureTypes, Runs
<1>2. run'[x] = run[x]
  BY <1>1 DEF Confined
<1>3. CASE run[x].locked
  <2>1. ~(run[w].pc \in Locking /\ run[w].sources = run[x].sources)
    BY <1>1, <1>3 DEF OneHolder, LockKept
  <2>2. tree'[run[x].sources] = tree[run[x].sources] /\ record'[run[x].sources] = record[run[x].sources]
    BY <1>1, <2>1 DEF Confined
  <2> QED BY <1>1, <1>2, <2>2 DEF Unverified, Verifies, At
<1>4. CASE ~run[x].locked
  BY <1>1, <1>2, <1>4 DEF Unverified, LockKept, At, Locking
<1> QED BY <1>3, <1>4

(* Under the lock it looks again, and acts on what it finds.               *)
LEMMA UnverifiedOwn ==
  ASSUME Base, Orderly, NEW w \in Worktree, Works(w)
  PROVE  Unverified(w)'
<1> DEFINE k == run[w].sources
<1> USE DEF At
<1>0. /\ FixtureTypes /\ Unverified(w) /\ LockKept(w) /\ k \in Version /\ run[w] \in Runs
  BY DEF Base, Orderly, FixtureTypes, Runs
<1>1. \A x \in {"idle", "record", "open", "flock", "attach", "tests", "passed", "detach", "detached"} :
        x \notin {"scan", "clear", "aside", "asideRecord"} \cup Rebuilding
  BY DEF Rebuilding
<1>2. ASSUME run'[w].pc \in {"idle", "record", "open", "flock", "attach", "tests", "passed", "detach", "detached"}
      PROVE  Unverified(w)'
  BY <1>1, <1>2 DEF Unverified
<1>3. CASE (\E b : Start(w, b)) \/ OpenLock(w) \/ TakeLock(w)
  BY <1>0, <1>2, <1>3, LookFields DEF Moves
<1>4. CASE ReadRecord(w)
  <2>1. run'[w].pc = "scan" /\ run'[w].sources = k /\ run'[w].record = record[k] /\ record' = record
    BY <1>0, <1>4, LookFields DEF Moves, ReadRecord, storeVars
  <2> QED BY <2>1 DEF Unverified, Rebuilding
<1>5. CASE Scan(w)
  <2>1. tree' = tree /\ record' = record
    BY <1>5 DEF Scan, storeVars
  <2>2. \/ run'[w].pc \in {"attach", "open"}
        \/ /\ run'[w].pc = "clear" /\ run'[w].sources = k /\ run[w].locked /\ run[w].pc = "scan"
           /\ \/ run'[w].record = run[w].record /\ Verifies(k, run[w].record)
              \/ run'[w].record = None /\ ~Verifies(k, run[w].record)
    BY <1>0, <1>5, LookFields DEF Moves, SameFinds, Scan
  <2>3. CASE run'[w].pc = "clear"
    <3>1. run[w].record = record[k]
      BY <1>0, <2>2, <2>3 DEF Unverified
    <3>2. Verifies(k, run[w].record) => run[w].record # None
      BY DEF Verifies
    <3>3. run'[w].record = None => ~Verifies(k, record[k])
      BY <2>2, <2>3, <3>1, <3>2
    <3>4. PICK j \in Version : j = run[w].sources
      BY <1>0
    <3>5. run'[w].record = None => ~Verifies(j, record[j])'
      BY <2>1, <3>3, <3>4 DEF Verifies
    <3> QED BY <2>2, <2>3, <3>4, <3>5 DEF Unverified, Rebuilding, Verifies
  <2> QED BY <1>2, <2>2, <2>3
<1>6. CASE Clear(w)
  <2>1. tree' = tree /\ record' = record /\ run[w].pc = "clear"
    BY <1>6 DEF Clear
  <2>2. \/ run'[w] = Idle
        \/ /\ run'[w].pc = "aside" /\ run'[w].sources = k /\ run'[w].record = None /\ run[w].record = None
        \/ /\ run'[w].pc = "stash" /\ run'[w].sources = k /\ run'[w].record = run[w].record
           /\ run[w].record # None \/ tree[k] = None
    BY <1>0, <1>6, RebuildFields DEF Moves, SameFinds
  <2>3. CASE run'[w] = Idle
    BY <1>2, <2>3, IdleFields
  <2>4. CASE run'[w].pc = "aside"
    <3>1. ~Verifies(k, record[k])
      BY <1>0, <2>1, <2>2, <2>4, IdleFields DEF Unverified
    <3> QED BY <2>1, <2>2, <2>4, <3>1, IdleFields DEF Unverified, Verifies, Rebuilding
  <2>5. CASE run'[w].pc = "stash"
    BY <2>1, <2>2, <2>5, IdleFields DEF Unverified, Rebuilding
  <2> QED BY <2>2, <2>3, <2>4, <2>5
<1>7. CASE SetAsideTree(w)
  <2>1. run'[w].pc = "asideRecord" /\ run'[w].sources = k /\ tree'[k] = None
    BY <1>0, <1>7, RebuildFields DEF Moves, SetAsideTree, FixtureTypes
  <2> QED BY <2>1 DEF Unverified, Rebuilding
<1>8. CASE SetAsideRecord(w)
  <2>1. /\ run'[w].pc = "stash" /\ run'[w].sources = k /\ tree' = tree /\ run[w].pc = "asideRecord"
    BY <1>0, <1>8, RebuildFields DEF Moves, SetAsideRecord
  <2> QED BY <1>0, <2>1 DEF Unverified, Rebuilding
<1>9. CASE Stash(w) \/ RunStep(w) \/ ChangedInputs(w)
  <2>1. /\ run'[w].pc \in Rebuilding /\ run'[w].sources = k /\ run'[w].record = run[w].record
        /\ run[w].pc \in Rebuilding
    BY <1>0, <1>9, RebuildFields DEF Moves, Stash, RunStep, ChangedInputs, Rebuilding
  <2>2. tree' = tree
    BY <1>9 DEF Stash, RunStep, ChangedInputs, storeVars
  <2> QED BY <1>0, <2>1, <2>2 DEF Unverified, Rebuilding
<1>10. CASE Describe(w)
  <2>1. run'[w].pc = "attach" \/ (run'[w].pc = "publish" /\ run'[w].record # None)
    BY <1>0, <1>10, RebuildFields DEF Moves
  <2> QED BY <1>2, <2>1 DEF Unverified, Rebuilding
<1>11. CASE Publish(w) \/ RebuildFails(w)
  BY <1>0, <1>2, <1>11, RebuildFields, IdleFields DEF Moves
<1>12. CASE AttachAside(w) \/ GenerateLocally(w) \/ Edit(w) \/ AddOwnFile(w)
  <2>1. run'[w] = run[w] /\ tree' = tree /\ record' = record
    BY <1>0, <1>12, TestFields DEF AttachAside, GenerateLocally, Edit, AddOwnFile, storeVars
  <2> QED BY <1>0, <2>1 DEF Unverified, Verifies
<1>13. CASE DetachClone(w)
  <2>1. run'[w].pc \in {"idle", "detach"}
    BY <1>0, <1>13, TestFields DEF DetachClone
  <2> QED BY <1>2, <2>1
<1>14. CASE \/ AttachLink(w) \/ Test(w) \/ Confirm(w) \/ Finish(w) \/ Crash(w) \/ DetachRename(w)
            \/ DetachUnlink(w)
  BY <1>0, <1>2, <1>14, TestFields, IdleFields DEF Moves
<1> QED BY <1>3, <1>4, <1>5, <1>6, <1>7, <1>8, <1>9, <1>10, <1>11, <1>12, <1>13, <1>14
        DEF Works, Validate, ByHand

(* No lock is open at the start and no prune runs.                         *)
LEMMA OrderlyInit == FixtureInit => Orderly
<1>1. FixtureInit => \A w \in Worktree : run[w] = Idle
  BY DEF FixtureInit
<1>2. FixtureInit => PruneApart
  BY NoPruneForm DEF FixtureInit, PruneApart
<1>3. FixtureInit => OneHolder /\ \A w \in Worktree : LockKept(w) /\ Unverified(w)
  BY <1>1, IdleFields DEF OneHolder, LockKept, Unverified, At, Locking, Rebuilding
<1> QED BY <1>2, <1>3 DEF Orderly

(* Every step keeps the locks in order, if prune runs alone.               *)
LEMMA OrderlyStep ==
  ASSUME PruneAlone, Base, Orderly, [FixtureNext]_fixtureVars
  PROVE  Orderly'
<1>1. ASSUME NEW w \in Worktree, Works(w)
      PROVE  Orderly'
  <2>1. PruneApart' /\ OneHolder'
    BY <1>1, PruneApartWorks, OneHolderWorks DEF Orderly
  <2>2. \A x \in Worktree : LockKept(x)'
    BY <1>1, LockKeptOwn
  <2>3. \A x \in Worktree : Unverified(x)'
    BY <1>1, UnverifiedOthers, UnverifiedOwn
  <2> QED BY <2>1, <2>2, <2>3 DEF Orderly
<1>2. CASE Prune
  <2>1. PruneApart' /\ \A w \in Worktree : run[w].pc = "idle"
    BY <1>2, PruneApartPrunes DEF Orderly, At
  <2>2. run' = run
    BY <1>2, ElsewhereStep DEF Elsewhere, Base
  <2>3. ASSUME NEW w \in Worktree
        PROVE  LockKept(w)' /\ Unverified(w)' /\ ~run[w].locked
    <3>1. LockKept(w) /\ run[w].pc = "idle"
      BY <2>1 DEF Orderly
    <3>2. run[w].inode = 0 /\ ~run[w].locked
      BY <3>1 DEF LockKept, At
    <3> QED BY <2>2, <3>1, <3>2 DEF LockKept, Unverified, At, Locking, Rebuilding
  <2> QED BY <2>1, <2>2, <2>3 DEF Orderly, OneHolder
<1>3. ASSUME Upgrade \/ \E k \in Version : DamageTree(k)
      PROVE  Orderly'
  <2>1. Elsewhere /\ record' = record /\ pruning' = pruning /\ lockFile' = lockFile
    BY <1>3, ElsewhereStep DEF Upgrade, DamageTree, Base, storeVars
  <2>2. \A k \in Version : tree[k] = None => tree'[k] = None
    BY <2>1 DEF Elsewhere
  <2>3. ASSUME NEW k \in Version, ~Verifies(k, record[k])
        PROVE  ~Verifies(k, record[k])'
    <3>1. CASE tree'[k] = tree[k]
      BY <2>1, <2>3, <3>1 DEF Verifies
    <3>2. CASE tree'[k] # tree[k]
      <4>1. tree'[k] = None \/ (tree[k] # None /\ tree'[k] = [tree[k] EXCEPT !.damaged = TRUE])
        BY <2>1, <3>2 DEF Elsewhere
      <4>2. tree[k] # None => tree[k] \in Trees
        BY DEF Base, FixtureTypes
      <4>3. tree'[k] = None \/ tree'[k].damaged
        BY <4>1, <4>2, TreeForms
      <4> QED BY <4>3 DEF Verifies
    <3> QED BY <3>1, <3>2
  <2>4. run' = run
    BY <2>1 DEF Elsewhere
  <2>5. ASSUME NEW w \in Worktree
        PROVE  LockKept(w)' /\ Unverified(w)'
    <3>1. LockKept(w) /\ Unverified(w) /\ run[w].sources \in Version
      BY DEF Orderly, Base, FixtureTypes, Runs
    <3>2. LockKept(w)'
      BY <2>1, <2>4, <3>1 DEF LockKept, At
    <3>3. PICK j \in Version : j = run[w].sources
      BY <3>1
    <3>4. Unverified(w)'
      <4>1. ~Verifies(j, record[j]) => ~Verifies(j, record[j])'
        BY <2>3
      <4>2. tree[j] = None => tree'[j] = None
        BY <2>2
      <4> QED BY <2>1, <2>4, <3>1, <3>3, <4>1, <4>2 DEF Unverified, Verifies, At
    <3> QED BY <3>2, <3>4
  <2>6. PruneApart' /\ OneHolder'
    BY <2>1, <2>4 DEF Orderly, PruneApart, OneHolder, At
  <2> QED BY <2>5, <2>6 DEF Orderly
<1>4. CASE UNCHANGED fixtureVars
  BY <1>4 DEF fixtureVars, inputVars, localVars, storeVars, Orderly, PruneApart, OneHolder, LockKept,
              Unverified, Verifies, At
<1>5. \A w \in Attended : w \in Worktree
  BY FixtureAssumption
<1> QED BY <1>1, <1>2, <1>3, <1>4, <1>5 DEF FixtureNext, Works

(* ValidEntryKept: with the lock and the second verification under it, no  *)
(* validation sets aside, replaces or describes again an entry that        *)
(* verifies, provided that prune runs alone, as it says itself.            *)
THEOREM ValidEntriesAreKept ==
  ASSUME PruneAlone
  PROVE  FixtureSpec => ValidEntryKept
<1>1. ASSUME Base, Orderly, [FixtureNext]_fixtureVars, NEW k \in Version, Verifies(k, record[k])
      PROVE  \/ tree'[k] = tree[k] /\ record'[k] = record[k]
             \/ faults' > faults
             \/ pruning.pc = "entries"
  <2>1. ASSUME NEW w \in Worktree, Works(w)
        PROVE  tree'[k] = tree[k] /\ record'[k] = record[k]
    <3>0. /\ Confined(w) /\ Unverified(w) /\ tree[k] # None
          /\ tree \in [Version -> {None} \cup Trees] /\ record \in [Version -> {None} \cup Contents]
      BY <1>1, <2>1, Confinement DEF Base, Orderly, Verifies, FixtureTypes
    <3>1. CASE run[w].sources # k
      BY <3>0, <3>1 DEF Confined
    <3>2. CASE run[w].sources = k
      <4>1. ~SetAsideTree(w) /\ ~SetAsideRecord(w) /\ ~Publish(w)
        BY <1>1, <3>0, <3>2 DEF Unverified, SetAsideTree, SetAsideRecord, Publish, At
      <4>2. CASE Describe(w)
        <5>1. run[w].record # None
          BY <3>0, <3>2, <4>2 DEF Unverified, Describe, At, Rebuilding
        <5> QED BY <4>2, <5>1 DEF Describe
      <4>3. CASE ~Describe(w)
        <5>1. tree' = tree /\ record' = record
          BY <2>1, <4>1, <4>3
             DEF Works, Validate, ByHand, Start, ReadRecord, Scan, OpenLock, TakeLock, Clear, Stash,
                 RunStep, ChangedInputs, RebuildFails, AttachAside, AttachLink, Test, Confirm, Finish,
                 Crash, GenerateLocally, DetachClone, DetachUnlink, DetachRename, Edit, AddOwnFile,
                 storeVars
        <5> QED BY <5>1
      <4> QED BY <4>2, <4>3
    <3> QED BY <3>1, <3>2
  <2>2. ASSUME Prune, pruning.pc # "entries"
        PROVE  tree'[k] = tree[k] /\ record'[k] = record[k]
    <3>1. pruning.item[1] \notin {"entry", "orphaned record"}
      BY <1>1, <2>2 DEF Orderly, PruneApart
    <3> QED BY <2>2, <3>1 DEF Prune, PruneUsage, PruneList, PruneListStaging, PruneTake, PruneStaging,
                              PruneTree, PruneRecord, PruneLock, storeVars
  <2>3. ASSUME Upgrade \/ \E j \in Version : DamageTree(j)
        PROVE  faults' > faults
    BY <1>1, <2>3 DEF Upgrade, DamageTree, Fault, Base, FixtureTypes
  <2>4. CASE UNCHANGED fixtureVars
    BY <2>4 DEF fixtureVars, storeVars
  <2>5. \A w \in Attended : w \in Worktree
    BY FixtureAssumption
  <2> QED BY <1>1, <2>1, <2>2, <2>3, <2>4, <2>5 DEF FixtureNext, Works
<1>2. FixtureInit => Base /\ Orderly
  BY BaseInit, OrderlyInit
<1>3. (Base /\ Orderly) /\ [FixtureNext]_fixtureVars => (Base /\ Orderly)'
  BY BaseStep, OrderlyStep
<1>4. (Base /\ Orderly) /\ [FixtureNext]_fixtureVars
        => [\A k \in Version : Verifies(k, record[k]) =>
              \/ tree'[k] = tree[k] /\ record'[k] = record[k]
              \/ faults' > faults
              \/ pruning.pc = "entries"]_fixtureVars
  BY <1>1
<1> QED BY <1>2, <1>3, <1>4, PTL DEF FixtureSpec, ValidEntryKept
=============================================================================
