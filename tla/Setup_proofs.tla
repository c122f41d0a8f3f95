---------------------------- MODULE Setup_proofs ----------------------------
(***************************************************************************)
(* Proofs about the commands that share the store and the checkouts: the   *)
(* store only improves, what setup calls ready stays so, and a launch      *)
(* executes what was made of its checkout's sources; for any number of     *)
(* commands and checkouts, killed anywhere.                                *)
(*                                                                         *)
(* The argument has three layers.  Base says who holds which lock, and     *)
(* each step of a command is shown to have Effects: what it may change of  *)
(* the store, of the links, of its checkout's products and of its locks.   *)
(* Freshness and Undisturbed, on which the properties rest, are then kept  *)
(* for the other commands by those effects alone, and for the command      *)
(* itself action by action.                                                *)
(***************************************************************************)
EXTENDS Setup, TLAPS

(* Where a command is: while it provisions the store, makes the tables or   *)
(* makes the binary it holds the lock of what it makes.                     *)
Provisioning ==
  {"checkpoint", "aside checkpoint", "fetch checkpoint", "publish checkpoint", "model", "aside model",
   "fetch model", "link to prepare", "relink to prepare", "prepare", "publish model", "seal",
   "link checkpoint", "relink checkpoint", "link model", "relink model"}
Tabling  == {"download", "tables", "generate", "manifest", "check tables"}
Making   == {"compile", "compiled", "replace", "receipt"}
Building == Making \cup {"built"}
HasTables == Building \cup {"lock binary", "execute"}
Phases   == {"idle", "lock", "prepared", "lock tables"} \cup Provisioning \cup Tabling \cup HasTables

Contents == {Absent, Valid, Invalid}
Record   == [sources : 0 .. MaxVersion, content : SUBSET Version]
RunType  ==
  [at : Phases, command : Commands \cup {""}, staged : Contents, identity : 0 .. MaxVersion,
   read : SUBSET Version, since : SUBSET Version, quiet : BOOLEAN]

(* The states a checkout, its locks and the commands can be in.            *)
SetupTypes ==
  /\ stored \in [Entry -> Contents] /\ placed \in [Checkout -> [Entry -> Place]]
  /\ storeLock \in Process \cup {Nobody} /\ home \in [Process -> Checkout]
  /\ run \in [Process -> RunType]
  /\ version \in [Checkout -> Version]
  /\ tables \in [Checkout -> SUBSET Version] /\ manifest \in [Checkout -> Record]
  /\ binary \in [Checkout -> SUBSET Version] /\ receipt \in [Checkout -> Record]
  /\ assetLock \in [Checkout -> Process \cup {Nobody}]
  /\ buildLock \in [Checkout -> Process \cup {Nobody}]

(* What is made under a lock is made by its holder alone.                  *)
Locks ==
  \A p \in Process :
    /\ run[p].at \in Provisioning => storeLock = p
    /\ run[p].at \in Tabling => assetLock[home[p]] = p
    /\ run[p].at \in Building => buildLock[home[p]] = p

(* What a setup is about to move out of the way did not verify, and        *)
(* nobody has put a valid entry there since.                               *)
Unverified ==
  \A p \in Process :
    /\ At(p, "aside checkpoint") => stored["checkpoint"] # Valid
    /\ At(p, "aside model") => stored["model"] # Valid
-----------------------------------------------------------------------------
(* A version the checkout has had since the command began; setup, which    *)
(* executes nothing, is not asked.                                         *)
Fresh(p, v) == run[p].command = "setup" \/ v \in run[p].since

(* The tables' manifest and the binary's receipt tell what they were made  *)
(* from, and whoever makes them reads one version of the sources.          *)
OneVersion(entry) == entry.content \in {{}, {entry.sources}}

MadeFromOne(p) ==
  /\ At(p, "generate") => run[p].read = {version[home[p]]}
  /\ At(p, "manifest") => run[p].read = {run[p].identity}
  /\ At(p, "compile") => run[p].identity <= version[home[p]]
  /\ At(p, "compiled") => \E v \in Version :
       run[p].read = {v} /\ run[p].identity <= v /\ v <= version[home[p]]
  /\ run[p].at \in {"replace", "receipt"} => run[p].read = {run[p].identity}
  /\ At(p, "receipt") => binary[home[p]] = run[p].read

(* Whoever has its tables, or its binary, has one of its own time, and so  *)
(* will be what replaces it.                                               *)
FreshMakings(p) ==
  /\ ~At(p, "idle") => Fresh(p, version[home[p]])
  /\ run[p].at \in Making => Fresh(p, run[p].identity)
  /\ run[p].at \in HasTables => \E v \in Version : tables[home[p]] = {v} /\ Fresh(p, v)
  /\ run[p].at \in {"built", "execute"} => \E v \in Version : binary[home[p]] = {v} /\ Fresh(p, v)
  /\ At(p, "execute") =>
       /\ run[p].command # "setup"
       /\ \A q \in Process : home[q] = home[p] /\ run[q].at \in Making => Fresh(p, run[q].identity)

Freshness ==
  /\ \A c \in Checkout : OneVersion(manifest[c]) /\ OneVersion(receipt[c])
  /\ \A p \in Process : MadeFromOne(p) /\ FreshMakings(p)
-----------------------------------------------------------------------------
(* A setup that nothing has disturbed finds what it has provisioned, and   *)
(* made, as it left it.                                                    *)
Good(c, e) == LinkState(c, e) \in {"linked", "local"} /\ Seen(c, e) = Valid

Tabled(c) ==
  /\ PreparedValid(c)
  /\ \A q \in Process : home[q] = c => run[q].at \notin {"generate", "manifest"}
Compiled(c) ==
  /\ Current(c, version[c])
  /\ \A q \in Process : home[q] = c => run[q].at \notin Making

AfterModel == {"seal", "link checkpoint", "relink checkpoint", "link model", "relink model",
               "lock tables"} \cup Tabling \cup HasTables
AfterCheckpoint == AfterModel \cup {"model", "aside model", "fetch model", "link to prepare",
                                    "relink to prepare", "prepare", "publish model"}
HasModel == {"lock tables"} \cup Tabling \cup HasTables

SoFar(p) ==
  /\ ~At(p, "idle") /\ ~At(p, "prepared")
  /\ run[p].at \in AfterCheckpoint => stored["checkpoint"] = Valid
  /\ run[p].at \in AfterModel => stored["model"] = Valid
  /\ run[p].at \in HasModel \cup {"link model", "relink model"} => Good(home[p], "checkpoint")
  /\ run[p].at \in HasModel => Good(home[p], "model")
  /\ run[p].at \in HasTables => Tabled(home[p])
  /\ run[p].at \in Making => run[p].identity = version[home[p]]
  /\ run[p].at \in Making \ {"compile"} => run[p].read # {}
  /\ At(p, "receipt") => binary[home[p]] = run[p].read
  /\ At(p, "built") => Current(home[p], version[home[p]])

Undisturbed ==
  /\ \A p \in Process : run[p].quiet => SoFar(p)
  /\ \A c \in promised :
       /\ c \in Checkout /\ Tabled(c) /\ Compiled(c)
       /\ \A e \in Entry : stored[e] = Valid /\ Good(c, e)
-----------------------------------------------------------------------------
(* The record of a command that goes on: of the fields, `at' and, by form, *)
(* those given may differ.                                                 *)
Continued(r, e, x, s, i, d) ==
  /\ e \in RunType /\ e.at = x /\ e.staged = s /\ e.identity = i /\ e.read = d
  /\ e.command = r.command /\ e.since = r.since /\ e.quiet = r.quiet

(* The EXCEPT forms in which the actions write a command's record: each    *)
(* changes `at' and the fields it names, and stays a record of a command.  *)
LEMMA RecordForms ==
  ASSUME NEW r \in RunType, NEW x \in Phases, NEW s \in Contents, NEW i \in 0 .. MaxVersion,
         NEW d \in SUBSET Version
  PROVE  /\ Continued(r, [r EXCEPT !.at = x], x, r.staged, r.identity, r.read)
         /\ Continued(r, [r EXCEPT !.staged = s, !.at = x], x, s, r.identity, r.read)
         /\ Continued(r, [r EXCEPT !.read = d, !.at = x], x, r.staged, r.identity, d)
         /\ Continued(r, [r EXCEPT !.identity = i, !.at = x], x, r.staged, i, r.read)
         /\ Continued(r, [r EXCEPT !.identity = i, !.read = d, !.at = x], x, r.staged, i, d)
<1>1. Continued(r, [r EXCEPT !.at = x], x, r.staged, r.identity, r.read)
  <2>1. PICK e : e = [r EXCEPT !.at = x]
    OBVIOUS
  <2>2. e \in RunType
    BY <2>1 DEF RunType
  <2>3. /\ e.at = x /\ e.staged = r.staged /\ e.identity = r.identity /\ e.read = r.read
        /\ e.command = r.command /\ e.since = r.since /\ e.quiet = r.quiet
    BY <2>1 DEF RunType
  <2> QED BY <2>1, <2>2, <2>3 DEF Continued
<1>2. Continued(r, [r EXCEPT !.staged = s, !.at = x], x, s, r.identity, r.read)
  <2>1. PICK e : e = [r EXCEPT !.staged = s, !.at = x]
    OBVIOUS
  <2>2. e \in RunType
    BY <2>1 DEF RunType
  <2>3. /\ e.at = x /\ e.staged = s /\ e.identity = r.identity /\ e.read = r.read
        /\ e.command = r.command /\ e.since = r.since /\ e.quiet = r.quiet
    BY <2>1 DEF RunType
  <2> QED BY <2>1, <2>2, <2>3 DEF Continued
<1>3. Continued(r, [r EXCEPT !.read = d, !.at = x], x, r.staged, r.identity, d)
  <2>1. PICK e : e = [r EXCEPT !.read = d, !.at = x]
    OBVIOUS
  <2>2. e \in RunType
    BY <2>1 DEF RunType
  <2>3. /\ e.at = x /\ e.staged = r.staged /\ e.identity = r.identity /\ e.read = d
        /\ e.command = r.command /\ e.since = r.since /\ e.quiet = r.quiet
    BY <2>1 DEF RunType
  <2> QED BY <2>1, <2>2, <2>3 DEF Continued
<1>4. Continued(r, [r EXCEPT !.identity = i, !.at = x], x, r.staged, i, r.read)
  <2>1. PICK e : e = [r EXCEPT !.identity = i, !.at = x]
    OBVIOUS
  <2>2. e \in RunType
    BY <2>1 DEF RunType
  <2>3. /\ e.at = x /\ e.staged = r.staged /\ e.identity = i /\ e.read = r.read
        /\ e.command = r.command /\ e.since = r.since /\ e.quiet = r.quiet
    BY <2>1 DEF RunType
  <2> QED BY <2>1, <2>2, <2>3 DEF Continued
<1>5. Continued(r, [r EXCEPT !.identity = i, !.read = d, !.at = x], x, r.staged, i, d)
  <2>1. PICK e : e = [r EXCEPT !.identity = i, !.read = d, !.at = x]
    OBVIOUS
  <2>2. e \in RunType
    BY <2>1 DEF RunType
  <2>3. /\ e.at = x /\ e.staged = r.staged /\ e.identity = i /\ e.read = d
        /\ e.command = r.command /\ e.since = r.since /\ e.quiet = r.quiet
    BY <2>1 DEF RunType
  <2> QED BY <2>1, <2>2, <2>3 DEF Continued
<1> QED BY <1>1, <1>2, <1>3, <1>4, <1>5

(* A step of the command p alone, which goes on at x, or ends.             *)
Alone(p) ==
  /\ home' = home /\ version' = version
  /\ run' \in [Process -> RunType] /\ \A q \in Process : q # p => run'[q] = run[q]
Walks(p, x) ==
  /\ Alone(p) /\ run'[p].at = x /\ run'[p].command = run[p].command
  /\ run'[p].since = run[p].since /\ run'[p].quiet = run[p].quiet
Leaves(p) == Alone(p) /\ run'[p].at = "idle" /\ ~run'[p].quiet

(* A step that puts such a record for the command's own is a step of that  *)
(* command alone, to where the record says.                                *)
LEMMA RecordStep ==
  ASSUME SetupTypes, NEW p \in Process, home' = home, version' = version,
         NEW e, NEW x, NEW s, NEW i, NEW d, Continued(run[p], e, x, s, i, d),
         run' = [run EXCEPT ![p] = e]
  PROVE  Walks(p, x) /\ run'[p].staged = s /\ run'[p].identity = i /\ run'[p].read = d
<1>1. run \in [Process -> RunType]
  BY DEF SetupTypes
<1> QED BY <1>1 DEF Walks, Alone, Continued

(* Goto moves the command to another phase and changes nothing else of it. *)
LEMMA GotoWalks ==
  ASSUME SetupTypes, NEW p \in Process, NEW x \in Phases, Goto(p, x), home' = home, version' = version
  PROVE  /\ Walks(p, x) /\ run'[p].staged = run[p].staged
         /\ run'[p].identity = run[p].identity /\ run'[p].read = run[p].read
<1>1. PICK r \in RunType : r = run[p]
  BY DEF SetupTypes
<1>2. PICK e : e = [r EXCEPT !.at = x]
  OBVIOUS
<1>3. r.staged \in Contents /\ r.identity \in 0 .. MaxVersion /\ r.read \in SUBSET Version
  BY DEF RunType
<1>4. Continued(r, e, x, r.staged, r.identity, r.read)
  BY <1>2, <1>3, RecordForms
<1>5. run' = [run EXCEPT ![p] = e]
  BY <1>1, <1>2 DEF Goto
<1> QED BY <1>1, <1>4, <1>5, RecordStep

(* A command that stops is idle again, and promises nothing.               *)
LEMMA StopsLeaves ==
  ASSUME SetupTypes, NEW p \in Process, Stops(p), home' = home, version' = version
  PROVE  Leaves(p)
<1>1. run \in [Process -> RunType]
  BY DEF SetupTypes
<1>2. Idle \in RunType /\ Idle.at = "idle" /\ ~Idle.quiet
  BY BuildAssumption DEF Idle, RunType, Contents, Phases
<1>3. run' = [run EXCEPT ![p] = Idle]
  BY DEF Stops
<1> HIDE DEF Idle
<1> QED BY <1>1, <1>2, <1>3 DEF Leaves, Alone
(* A step that stages an entry, or publishes it, moves the command with    *)
(* what it has staged.                                                     *)
LEMMA StagedWalks ==
  ASSUME SetupTypes, NEW p \in Process, NEW x \in Phases, NEW s \in Contents,
         run' = [run EXCEPT ![p].staged = s, ![p].at = x], home' = home, version' = version
  PROVE  Walks(p, x)
<1>1. PICK r \in RunType : r = run[p]
  BY DEF SetupTypes
<1>2. PICK e : e = [r EXCEPT !.staged = s, !.at = x]
  OBVIOUS
<1>3. r.identity \in 0 .. MaxVersion /\ r.read \in SUBSET Version
  BY DEF RunType
<1>4. Continued(r, e, x, s, r.identity, r.read)
  BY <1>2, <1>3, RecordForms
<1>5. run' = [run EXCEPT ![p] = e]
  BY <1>1, <1>2 DEF SetupTypes
<1> QED BY <1>1, <1>4, <1>5, RecordStep

(* A step of the build moves the command with the sources it has hashed or *)
(* read.                                                                   *)
LEMMA MakingWalks ==
  ASSUME SetupTypes, NEW p \in Process, NEW x \in Phases, home' = home, version' = version,
         NEW i \in 0 .. MaxVersion, NEW d \in SUBSET Version,
         \/ Continue(p, [run[p] EXCEPT !.read = d, !.at = x]) /\ i = run[p].identity
         \/ Continue(p, [run[p] EXCEPT !.identity = i, !.at = x]) /\ d = run[p].read
         \/ Continue(p, [run[p] EXCEPT !.identity = i, !.read = d, !.at = x])
  PROVE  Walks(p, x) /\ run'[p].identity = i /\ run'[p].read = d
<1>1. PICK r \in RunType : r = run[p]
  BY DEF SetupTypes
<1>2. r.staged \in Contents /\ r.identity \in 0 .. MaxVersion /\ r.read \in SUBSET Version
  BY DEF RunType
<1>3. ASSUME NEW e, Continued(r, e, x, r.staged, i, d), Continue(p, e)
      PROVE  Walks(p, x) /\ run'[p].identity = i /\ run'[p].read = d
  BY <1>1, <1>3, RecordStep DEF Continue
<1>4. CASE Continue(p, [run[p] EXCEPT !.read = d, !.at = x]) /\ i = run[p].identity
  <2>1. PICK e : e = [r EXCEPT !.read = d, !.at = x]
    OBVIOUS
  <2>2. Continued(r, e, x, r.staged, i, d)
    BY <1>1, <1>2, <1>4, <2>1, RecordForms
  <2> QED BY <1>1, <1>3, <1>4, <2>1, <2>2
<1>5. CASE Continue(p, [run[p] EXCEPT !.identity = i, !.at = x]) /\ d = run[p].read
  <2>1. PICK e : e = [r EXCEPT !.identity = i, !.at = x]
    OBVIOUS
  <2>2. Continued(r, e, x, r.staged, i, d)
    BY <1>1, <1>2, <1>5, <2>1, RecordForms
  <2> QED BY <1>1, <1>3, <1>5, <2>1, <2>2
<1>6. CASE Continue(p, [run[p] EXCEPT !.identity = i, !.read = d, !.at = x])
  <2>1. PICK e : e = [r EXCEPT !.identity = i, !.read = d, !.at = x]
    OBVIOUS
  <2>2. Continued(r, e, x, r.staged, i, d)
    BY <1>1, <1>2, <1>6, <2>1, RecordForms
  <2> QED BY <1>1, <1>3, <1>6, <2>1, <2>2
<1> QED BY <1>4, <1>5, <1>6
-----------------------------------------------------------------------------
(* Where each action of setup in the store (ensure_checkpoint,             *)
(* ensure_model) leads: to its next phase, or out when it raises.          *)
LEMMA ProvisionMoves ==
  ASSUME SetupTypes, NEW p \in Process, version' = version
  PROVE  /\ Refuse(p) => Leaves(p)
         /\ LockStore(p) => Walks(p, "checkpoint")
         /\ ExamineCheckpoint(p) =>
              IF stored["checkpoint"] = Valid THEN Walks(p, "model") ELSE Walks(p, "aside checkpoint")
         /\ SetAsideCheckpoint(p) => Walks(p, "fetch checkpoint")
         /\ ImportCheckpoint(p) => Walks(p, "publish checkpoint")
         /\ DownloadCheckpoint(p) =>
              \/ Walks(p, "publish checkpoint") /\ storeLock' = storeLock
              \/ Leaves(p) /\ storeLock' = Unlocked(p)
         /\ PublishCheckpoint(p) =>
              \/ Walks(p, "model") /\ storeLock' = storeLock /\ run[p].staged = Valid
              \/ Leaves(p) /\ storeLock' = Unlocked(p) /\ run[p].staged # Valid
         /\ ExamineModel(p) =>
              IF stored["model"] = Valid THEN Walks(p, "link checkpoint") ELSE Walks(p, "aside model")
         /\ SetAsideModel(p) => Walks(p, "fetch model")
         /\ ImportModel(p) => Walks(p, "publish model")
         /\ BeginPrepare(p) => Walks(p, "link to prepare")
         /\ PrepareModel(p) =>
              \/ Walks(p, "publish model") /\ storeLock' = storeLock
              \/ Leaves(p) /\ storeLock' = Unlocked(p)
         /\ PublishModel(p) =>
              \/ Walks(p, "seal") /\ storeLock' = storeLock /\ run[p].staged = Valid
              \/ Leaves(p) /\ storeLock' = Unlocked(p) /\ run[p].staged # Valid
         /\ Seal(p) => Walks(p, "link checkpoint")
<1>1. Provisioning \subseteq Phases
  BY DEF Phases
<1>2. {Absent, Valid, Invalid} \subseteq Contents
  BY DEF Contents
<1>3. Refuse(p) => Leaves(p)
  BY StopsLeaves DEF Refuse, storeVars
<1>4. ASSUME home' = home, NEW x \in Provisioning, Goto(p, x) PROVE Walks(p, x)
  BY <1>1, <1>4, GotoWalks
<1>5. /\ LockStore(p) => Walks(p, "checkpoint")
      /\ SetAsideCheckpoint(p) => Walks(p, "fetch checkpoint")
      /\ SetAsideModel(p) => Walks(p, "fetch model")
      /\ BeginPrepare(p) => Walks(p, "link to prepare")
      /\ Seal(p) => Walks(p, "link checkpoint")
  BY <1>4 DEF LockStore, SetAsideCheckpoint, SetAsideModel, BeginPrepare, Seal, storeVars, Provisioning
<1>6. ExamineCheckpoint(p) =>
        IF stored["checkpoint"] = Valid THEN Walks(p, "model") ELSE Walks(p, "aside checkpoint")
  BY <1>4 DEF ExamineCheckpoint, storeVars, Provisioning
<1>7. ExamineModel(p) =>
        IF stored["model"] = Valid THEN Walks(p, "link checkpoint") ELSE Walks(p, "aside model")
  BY <1>4 DEF ExamineModel, storeVars, Provisioning
<1>8. ASSUME home' = home, NEW x \in Provisioning, NEW s \in Contents,
             run' = [run EXCEPT ![p].staged = s, ![p].at = x]
      PROVE  Walks(p, x)
  BY <1>1, <1>8, StagedWalks
<1>9. ImportCheckpoint(p) => Walks(p, "publish checkpoint")
  BY <1>2, <1>8 DEF ImportCheckpoint, storeVars, Provisioning
<1>10. ImportModel(p) => Walks(p, "publish model")
  BY <1>2, <1>8 DEF ImportModel, storeVars, Provisioning
<1>11. ASSUME home' = home, Raises(p) PROVE Leaves(p) /\ storeLock' = Unlocked(p)
  BY <1>11, StopsLeaves DEF Raises
<1>12. ASSUME DownloadCheckpoint(p)
       PROVE  \/ Walks(p, "publish checkpoint") /\ storeLock' = storeLock
              \/ Leaves(p) /\ storeLock' = Unlocked(p)
  BY <1>2, <1>8, <1>11, <1>12 DEF DownloadCheckpoint, Provisioning
<1>13. ASSUME PublishCheckpoint(p)
       PROVE  \/ Walks(p, "model") /\ storeLock' = storeLock /\ run[p].staged = Valid
              \/ Leaves(p) /\ storeLock' = Unlocked(p) /\ run[p].staged # Valid
  BY <1>2, <1>8, <1>11, <1>13 DEF PublishCheckpoint, Provisioning
<1>14. Seen(home[p], "checkpoint") \in Contents
  BY DEF Seen, Contents, SetupTypes, Entry
<1>15. ASSUME PrepareModel(p)
       PROVE  \/ Walks(p, "publish model") /\ storeLock' = storeLock
              \/ Leaves(p) /\ storeLock' = Unlocked(p)
  BY <1>8, <1>11, <1>14, <1>15 DEF PrepareModel, Provisioning
<1>16. ASSUME PublishModel(p)
       PROVE  \/ Walks(p, "seal") /\ storeLock' = storeLock /\ run[p].staged = Valid
              \/ Leaves(p) /\ storeLock' = Unlocked(p) /\ run[p].staged # Valid
  BY <1>2, <1>8, <1>11, <1>16 DEF PublishModel, Provisioning
<1> QED BY <1>3, <1>5, <1>6, <1>7, <1>9, <1>10, <1>12, <1>13, <1>15, <1>16

(* The links by name.                                                      *)
LinkPhases(link) ==
  \/ /\ link.at = "link to prepare" /\ link.entry = "checkpoint"
     /\ link.replace = "relink to prepare" /\ link.next = "prepare"
  \/ /\ link.at = "link checkpoint" /\ link.entry = "checkpoint"
     /\ link.replace = "relink checkpoint" /\ link.next = "link model"
  \/ /\ link.at = "link model" /\ link.entry = "model"
     /\ link.replace = "relink model" /\ link.next = "lock tables"

(* Where the look at a link, and its replacement, lead: on, to the         *)
(* replacement, or to the end of setup; a link that is kept is good.       *)
LEMMA LinkMoves ==
  ASSUME SetupTypes, NEW p \in Process, version' = version, NEW link \in Links
  PROVE  /\ LinkPhases(link)
         /\ LookAtLink(p, link) =>
              \/ Leaves(p) /\ storeLock' = Unlocked(p)
              \/ /\ Walks(p, link.next) /\ storeLock' = IF link.entry = "model" THEN Nobody ELSE storeLock
                 /\ LinkState(home[p], link.entry) \in {"local", "linked"}
                 /\ LinkState(home[p], link.entry) = "local" => Seen(home[p], link.entry) = Valid
              \/ Walks(p, link.replace) /\ storeLock' = storeLock
         /\ ReplaceLink(p, link) =>
              Walks(p, link.next) /\ storeLock' = IF link.entry = "model" THEN Nobody ELSE storeLock
<1>1. LinkPhases(link)
  <2>1. CASE link = [at |-> "link to prepare", entry |-> "checkpoint", replace |-> "relink to prepare",
                     next |-> "prepare"]
    BY <2>1 DEF LinkPhases
  <2>2. CASE link = [at |-> "link checkpoint", entry |-> "checkpoint", replace |-> "relink checkpoint",
                     next |-> "link model"]
    BY <2>2 DEF LinkPhases
  <2>3. CASE link = [at |-> "link model", entry |-> "model", replace |-> "relink model",
                     next |-> "lock tables"]
    BY <2>3 DEF LinkPhases
  <2> QED BY <2>1, <2>2, <2>3 DEF Links
<1>2. link.next \in Phases /\ link.replace \in Phases
  BY <1>1 DEF LinkPhases, Phases, Provisioning
<1>3. ASSUME Linked(p, link), home' = home
      PROVE  Walks(p, link.next) /\ storeLock' = IF link.entry = "model" THEN Nobody ELSE storeLock
  BY <1>2, <1>3, GotoWalks DEF Linked
<1>4. ASSUME Raises(p), home' = home PROVE Leaves(p) /\ storeLock' = Unlocked(p)
  BY <1>4, StopsLeaves DEF Raises
<1>5. ASSUME Goto(p, link.replace), home' = home PROVE Walks(p, link.replace)
  BY <1>2, <1>5, GotoWalks
<1>6. ASSUME LookAtLink(p, link)
      PROVE  \/ Leaves(p) /\ storeLock' = Unlocked(p)
             \/ /\ Walks(p, link.next) /\ storeLock' = IF link.entry = "model" THEN Nobody ELSE storeLock
                /\ LinkState(home[p], link.entry) \in {"local", "linked"}
                /\ LinkState(home[p], link.entry) = "local" => Seen(home[p], link.entry) = Valid
             \/ Walks(p, link.replace) /\ storeLock' = storeLock
  <2>1. PICK state : state = LinkState(home[p], link.entry)
    OBVIOUS
  <2>2. CASE state = "local" /\ Seen(home[p], link.entry) # Valid
    <3>1. Raises(p) /\ home' = home
      BY <1>6, <2>1, <2>2 DEF LookAtLink
    <3> QED BY <1>4, <3>1
  <2>3. CASE state \in {"local", "linked"} /\ ~(state = "local" /\ Seen(home[p], link.entry) # Valid)
    <3>1. Linked(p, link) /\ home' = home
      BY <1>6, <2>1, <2>3 DEF LookAtLink
    <3> QED BY <1>3, <2>1, <2>3, <3>1
  <2>4. CASE state \notin {"local", "linked"}
    <3>1. Goto(p, link.replace) /\ UNCHANGED <<storeLock, home>>
      BY <1>6, <2>1, <2>4 DEF LookAtLink
    <3> QED BY <1>5, <3>1
  <2> QED BY <2>2, <2>3, <2>4
<1>7. ASSUME ReplaceLink(p, link)
      PROVE  Walks(p, link.next) /\ storeLock' = IF link.entry = "model" THEN Nobody ELSE storeLock
  BY <1>3, <1>7 DEF ReplaceLink
<1> QED BY <1>1, <1>6, <1>7

(* Where each action of ensure_prepared and ensure_binary leads, and with  *)
(* which sources hashed or read.                                           *)
LEMMA BuildMoves ==
  ASSUME SetupTypes, NEW p \in Process
  PROVE  /\ EnsureSource(p) =>
              \/ Leaves(p) /\ assetLock' = [assetLock EXCEPT ![home[p]] = Nobody]
              \/ /\ Walks(p, "tables") \/ Walks(p, "download")
                 /\ assetLock' = [assetLock EXCEPT ![home[p]] = p]
         /\ Download(p) =>
              \/ Walks(p, "tables") /\ assetLock' = assetLock
                 /\ placed' = [placed EXCEPT ![home[p]]["checkpoint"] = "local"]
              \/ Leaves(p) /\ assetLock' = [assetLock EXCEPT ![home[p]] = Nobody] /\ placed' = placed
         /\ KeepTables(p) => Walks(p, "lock binary")
         /\ StartGenerator(p) => Walks(p, "generate") /\ run'[p].read = {version[home[p]]}
         /\ WriteTables(p) =>
              \/ /\ Walks(p, "manifest") /\ tables' = [tables EXCEPT ![home[p]] = run[p].read]
                 /\ run'[p].identity = version[home[p]] /\ run'[p].read = run[p].read
                 /\ assetLock' = assetLock
              \/ Leaves(p) /\ assetLock' = [assetLock EXCEPT ![home[p]] = Nobody] /\ tables' = tables
         /\ WriteManifest(p) => Walks(p, "check tables")
         /\ CheckTables(p) => IF PreparedValid(home[p]) THEN Walks(p, "lock binary") ELSE Leaves(p)
         /\ LockBuild(p) =>
              \/ Walks(p, "built") /\ Current(home[p], version[home[p]])
              \/ Walks(p, "compile") /\ run'[p].identity = version[home[p]]
                 /\ ~Current(home[p], version[home[p]])
         /\ Compile(p) =>
              \/ /\ Walks(p, "compiled") /\ run'[p].identity = run[p].identity
                 /\ run'[p].read = {version[home[p]]} /\ buildLock' = buildLock
              \/ Leaves(p) /\ buildLock' = [buildLock EXCEPT ![home[p]] = Nobody]
         /\ CompareSources(p) =>
              \/ /\ Walks(p, "replace") /\ run[p].identity = version[home[p]]
                 /\ run'[p].identity = run[p].identity
                 /\ run'[p].read = run[p].read \cup {version[home[p]]} /\ buildLock' = buildLock
              \/ Leaves(p) /\ buildLock' = [buildLock EXCEPT ![home[p]] = Nobody]
         /\ ReplaceBinary(p) =>
              Walks(p, "receipt") /\ run'[p].identity = run[p].identity /\ run'[p].read = run[p].read
         /\ WriteReceipt(p) => Walks(p, "built")
<1>1. {"tables", "download", "generate", "manifest", "check tables", "lock binary", "built", "compile",
       "compiled", "replace", "receipt"} \subseteq Phases
  BY DEF Phases, Tabling, HasTables, Building, Making
<1>2. PICK v \in Version : v = version[home[p]]
  BY DEF SetupTypes
<1>3. v \in 0 .. MaxVersion /\ {v} \in SUBSET Version /\ 0 \in 0 .. MaxVersion /\ {} \in SUBSET Version
  BY BuildAssumption DEF Version
<1>4. run[p].identity \in 0 .. MaxVersion /\ run[p].read \in SUBSET Version
  <2>1. run[p] \in RunType
    BY DEF SetupTypes
  <2> QED BY <2>1 DEF RunType
<1>5. ASSUME Stops(p), home' = home, version' = version PROVE Leaves(p)
  BY <1>5, StopsLeaves
<1>6. ASSUME NEW x \in Phases, Goto(p, x), home' = home, version' = version
      PROVE  Walks(p, x) /\ run'[p].identity = run[p].identity /\ run'[p].read = run[p].read
  BY <1>6, GotoWalks
<1>7. ASSUME NEW x \in Phases, NEW d \in SUBSET Version, home' = home, version' = version,
             Continue(p, [run[p] EXCEPT !.read = d, !.at = x])
      PROVE  Walks(p, x) /\ run'[p].identity = run[p].identity /\ run'[p].read = d
  BY <1>4, <1>7, MakingWalks
<1>8. ASSUME NEW x \in Phases, NEW i \in 0 .. MaxVersion, home' = home, version' = version,
             Continue(p, [run[p] EXCEPT !.identity = i, !.at = x])
      PROVE  Walks(p, x) /\ run'[p].identity = i /\ run'[p].read = run[p].read
  BY <1>4, <1>8, MakingWalks
<1>9. ASSUME NEW x \in Phases, home' = home, version' = version,
             Continue(p, [run[p] EXCEPT !.identity = 0, !.read = {}, !.at = x])
      PROVE  Walks(p, x)
  BY <1>3, <1>9, MakingWalks
<1>10. ASSUME EnsureSource(p)
       PROVE  \/ Leaves(p) /\ assetLock' = [assetLock EXCEPT ![home[p]] = Nobody]
              \/ /\ Walks(p, "tables") \/ Walks(p, "download")
                 /\ assetLock' = [assetLock EXCEPT ![home[p]] = p]
  BY <1>1, <1>5, <1>6, <1>10 DEF EnsureSource, FailAssets, storeVars
<1>11. ASSUME Download(p)
       PROVE  \/ Walks(p, "tables") /\ assetLock' = assetLock
                 /\ placed' = [placed EXCEPT ![home[p]]["checkpoint"] = "local"]
              \/ Leaves(p) /\ assetLock' = [assetLock EXCEPT ![home[p]] = Nobody] /\ placed' = placed
  BY <1>1, <1>5, <1>6, <1>11 DEF Download, FailAssets
<1>12. KeepTables(p) => Walks(p, "lock binary")
  BY <1>1, <1>6 DEF KeepTables, storeVars
<1>13. StartGenerator(p) => Walks(p, "generate") /\ run'[p].read = {version[home[p]]}
  BY <1>1, <1>2, <1>3, <1>7 DEF StartGenerator, storeVars, buildVars
<1>14. ASSUME WriteTables(p)
       PROVE  \/ /\ Walks(p, "manifest") /\ tables' = [tables EXCEPT ![home[p]] = run[p].read]
                 /\ run'[p].identity = version[home[p]] /\ run'[p].read = run[p].read
                 /\ assetLock' = assetLock
              \/ Leaves(p) /\ assetLock' = [assetLock EXCEPT ![home[p]] = Nobody] /\ tables' = tables
  BY <1>1, <1>2, <1>3, <1>5, <1>8, <1>14 DEF WriteTables, FailAssets, storeVars
<1>15. WriteManifest(p) => Walks(p, "check tables")
  BY <1>1, <1>6 DEF WriteManifest, storeVars
<1>16. ASSUME CheckTables(p)
       PROVE  IF PreparedValid(home[p]) THEN Walks(p, "lock binary") ELSE Leaves(p)
  BY <1>1, <1>5, <1>9, <1>16 DEF CheckTables, storeVars
<1>17. ASSUME LockBuild(p)
       PROVE  \/ Walks(p, "built") /\ Current(home[p], version[home[p]])
              \/ Walks(p, "compile") /\ run'[p].identity = version[home[p]]
                 /\ ~Current(home[p], version[home[p]])
  <2>1. CASE Current(home[p], version[home[p]])
    <3>1. Goto(p, "built")
      BY <1>17, <2>1 DEF LockBuild, ReadIdentity, Continue, Goto
    <3> QED BY <1>1, <1>6, <1>17, <2>1, <3>1 DEF LockBuild, storeVars
  <2>2. CASE ~Current(home[p], version[home[p]])
    BY <1>1, <1>2, <1>3, <1>8, <1>17, <2>2 DEF LockBuild, ReadIdentity, storeVars
  <2> QED BY <2>1, <2>2
<1>18. ASSUME Compile(p)
       PROVE  \/ /\ Walks(p, "compiled") /\ run'[p].identity = run[p].identity
                 /\ run'[p].read = {version[home[p]]} /\ buildLock' = buildLock
              \/ Leaves(p) /\ buildLock' = [buildLock EXCEPT ![home[p]] = Nobody]
  BY <1>1, <1>2, <1>3, <1>5, <1>7, <1>18 DEF Compile, FailBuild, storeVars
<1>19. ASSUME CompareSources(p)
       PROVE  \/ /\ Walks(p, "replace") /\ run[p].identity = version[home[p]]
                 /\ run'[p].identity = run[p].identity
                 /\ run'[p].read = run[p].read \cup {version[home[p]]} /\ buildLock' = buildLock
              \/ Leaves(p) /\ buildLock' = [buildLock EXCEPT ![home[p]] = Nobody]
  <2>1. CASE run[p].identity = version[home[p]]
    <3>1. Continue(p, [run[p] EXCEPT !.read = @ \cup {version[home[p]]}, !.at = "replace"])
          /\ UNCHANGED <<buildLock, home, version>>
      BY <1>19, <2>1 DEF CompareSources, storeVars
    <3>2. PICK d \in SUBSET Version : d = run[p].read \cup {version[home[p]]}
      BY <1>2, <1>3, <1>4
    <3>3. Continue(p, [run[p] EXCEPT !.read = d, !.at = "replace"])
      BY <3>1, <3>2
    <3> QED BY <1>1, <1>7, <2>1, <3>1, <3>2, <3>3
  <2>2. CASE run[p].identity # version[home[p]]
    BY <1>5, <1>19, <2>2 DEF CompareSources, FailBuild, storeVars
  <2> QED BY <2>1, <2>2
<1>20. ReplaceBinary(p) =>
         Walks(p, "receipt") /\ run'[p].identity = run[p].identity /\ run'[p].read = run[p].read
  BY <1>1, <1>6 DEF ReplaceBinary, storeVars
<1>21. WriteReceipt(p) => Walks(p, "built")
  BY <1>1, <1>9 DEF WriteReceipt, storeVars
<1> QED BY <1>10, <1>11, <1>12, <1>13, <1>14, <1>15, <1>16, <1>17, <1>18, <1>19, <1>20, <1>21

(* The start of a command.                                                 *)
Begins(p) ==
  /\ Alone(p) /\ run'[p].command \in Commands /\ run'[p].at = FirstOf(run'[p].command)
  /\ run'[p].quiet <=> run'[p].command = "setup"
  /\ run'[p].command # "setup" => run'[p].since = {version[home[p]]}

(* Where the steps lead that are neither setup's in the store nor makings: *)
(* a start, the verification of the prepared model, the end of the build,  *)
(* the execution, a kill.                                                  *)
LEMMA CommandMoves ==
  ASSUME SetupTypes, NEW p \in Process
  PROVE  /\ Start(p) => Begins(p)
         /\ VerifyPrepared(p) => Walks(p, "lock tables") \/ Leaves(p)
         /\ Built(p) => IF run[p].command = "setup" THEN Leaves(p) ELSE Walks(p, "execute")
         /\ Execute(p) => Leaves(p)
         /\ Crash(p) => Leaves(p) /\ storeLock' = Unlocked(p)
<1>1. "lock tables" \in Phases /\ "execute" \in Phases
  BY DEF Phases, HasTables
<1>2. ASSUME Start(p) PROVE Begins(p)
  <2>1. PICK command \in Commands :
          run' = [run EXCEPT ![p] = [Idle EXCEPT !.at = FirstOf(command), !.command = command,
                    !.quiet = command = "setup",
                    !.since = IF command = "setup" THEN {} ELSE {version[home[p]]}]]
    BY <1>2 DEF Start
  <2>2. PICK e : e = [Idle EXCEPT !.at = FirstOf(command), !.command = command,
                       !.quiet = command = "setup",
                       !.since = IF command = "setup" THEN {} ELSE {version[home[p]]}]
    OBVIOUS
  <2>3. version[home[p]] \in Version
    BY DEF SetupTypes
  <2>4. /\ e.at = FirstOf(command) /\ e.command = command /\ e.quiet = (command = "setup")
        /\ e.since = IF command = "setup" THEN {} ELSE {version[home[p]]}
    BY <2>2 DEF Idle
  <2>5. FirstOf(command) \in Phases
    BY DEF FirstOf, Commands, Phases
  <2>6. e \in RunType
    <3>1. PICK since \in SUBSET Version : since = IF command = "setup" THEN {} ELSE {version[home[p]]}
      BY <2>3
    <3>2. e = [at |-> FirstOf(command), command |-> command, staged |-> Absent, identity |-> 0,
               read |-> {}, since |-> since, quiet |-> (command = "setup")]
      BY <2>2, <3>1 DEF Idle
    <3>3. 0 \in 0 .. MaxVersion /\ Absent \in Contents /\ (command = "setup") \in BOOLEAN
      BY BuildAssumption DEF Contents
    <3> QED BY <2>5, <3>1, <3>2, <3>3 DEF RunType
  <2>7. run' = [run EXCEPT ![p] = e] /\ UNCHANGED <<home, version>>
    BY <1>2, <2>1, <2>2 DEF Start, storeVars, buildVars
  <2> QED BY <2>4, <2>6, <2>7 DEF Begins, Alone, SetupTypes
<1>3. VerifyPrepared(p) => Walks(p, "lock tables") \/ Leaves(p)
  BY <1>1, GotoWalks, StopsLeaves DEF VerifyPrepared, storeVars, buildVars
<1>4. Built(p) => IF run[p].command = "setup" THEN Leaves(p) ELSE Walks(p, "execute")
  BY <1>1, GotoWalks, StopsLeaves DEF Built, storeVars
<1>5. Execute(p) => Leaves(p)
  BY StopsLeaves DEF Execute, storeVars, buildVars
<1>6. Crash(p) => Leaves(p) /\ storeLock' = Unlocked(p)
  BY StopsLeaves DEF Crash, Raises
<1> QED BY <1>2, <1>3, <1>4, <1>5, <1>6
-----------------------------------------------------------------------------
(* What a step leaves of the types, ...                                    *)
SharedTypes ==
  /\ stored \in [Entry -> Contents] /\ placed \in [Checkout -> [Entry -> Place]]
  /\ storeLock \in Process \cup {Nobody}
  /\ tables \in [Checkout -> SUBSET Version] /\ manifest \in [Checkout -> Record]
  /\ binary \in [Checkout -> SUBSET Version] /\ receipt \in [Checkout -> Record]
  /\ assetLock \in [Checkout -> Process \cup {Nobody}]
  /\ buildLock \in [Checkout -> Process \cup {Nobody}]

(* ... of the locks, of which it takes those that are free and gives back  *)
(* its own, ...                                                            *)
Passes(p, lock, next) == next = lock \/ {lock, next} \subseteq {p, Nobody}
LocksMove(p) ==
  /\ Passes(p, storeLock, storeLock')
  /\ \A c \in Checkout : Passes(p, assetLock[c], assetLock'[c]) /\ Passes(p, buildLock[c], buildLock'[c])
  /\ run'[p].at \in Provisioning => storeLock' = p
  /\ run'[p].at \in Tabling => assetLock'[home[p]] = p
  /\ run'[p].at \in Building => buildLock'[home[p]] = p

(* ... and of the store, which it changes under the lock alone.            *)
StoreMoves(p) ==
  /\ stored' = stored \/ run[p].at \in Provisioning
  /\ run'[p].at = "aside checkpoint" => stored'["checkpoint"] # Valid
  /\ run'[p].at = "aside model" => stored'["model"] # Valid
  /\ \A e \in Entry :
       /\ stored[e] = Valid => stored'[e] = Valid
       /\ stored'[e] # stored[e] => stored'[e] \in {Absent, Valid}

Orderly(p) == Alone(p) /\ SharedTypes' /\ LocksMove(p) /\ StoreMoves(p)
Base == SetupTypes /\ Locks /\ Unverified

(* An orderly step keeps the types, the locks and the looks at the store.  *)
LEMMA OrderlyKeeps ==
  ASSUME Base, NEW p \in Process, Orderly(p)
  PROVE  Base'
<1>1. Alone(p) /\ SharedTypes' /\ LocksMove(p) /\ StoreMoves(p) /\ SetupTypes /\ Locks /\ Unverified
  BY DEF Base, Orderly
<1>2. SetupTypes'
  BY <1>1 DEF SetupTypes, SharedTypes, Alone
<1>3. home' = home /\ (\A q \in Process : q # p => run'[q] = run[q]) /\ Nobody \notin Process
      /\ \A q \in Process : home[q] \in Checkout
  BY <1>1, StoreAssumption DEF Alone, SetupTypes
<1>4. Locks'
  <2>1. ASSUME NEW q \in Process
        PROVE  /\ run'[q].at \in Provisioning => storeLock' = q
               /\ run'[q].at \in Tabling => assetLock'[home[q]] = q
               /\ run'[q].at \in Building => buildLock'[home[q]] = q
    BY <1>1, <1>3 DEF Locks, LocksMove, Passes
  <2> QED BY <1>3, <2>1 DEF Locks
<1>5. Unverified'
  <2>1. ASSUME NEW q \in Process
        PROVE  /\ run'[q].at = "aside checkpoint" => stored'["checkpoint"] # Valid
               /\ run'[q].at = "aside model" => stored'["model"] # Valid
    <3>1. CASE q = p
      BY <1>1, <3>1 DEF StoreMoves
    <3>2. CASE q # p /\ stored' = stored
      BY <1>1, <1>3, <3>2 DEF Unverified, At
    <3>3. CASE q # p /\ run[p].at \in Provisioning
      <4>1. run[q].at \notin Provisioning
        BY <1>1, <3>3 DEF Locks
      <4> QED BY <1>3, <3>3, <4>1 DEF Provisioning
    <3> QED BY <1>1, <3>1, <3>2, <3>3 DEF StoreMoves
  <2> QED BY <2>1 DEF Unverified, At
<1> QED BY <1>2, <1>4, <1>5 DEF Base

(* What changes nothing but its own record is orderly, when it leads to    *)
(* no other lock.                                                          *)
Elsewhere == <<stored, placed, tables, manifest, binary, receipt>>

(* A step that changes the command's own record, and gives back locks, is  *)
(* orderly.                                                                *)
LEMMA OwnRecordOrderly ==
  ASSUME Base, NEW p \in Process, Alone(p), UNCHANGED Elsewhere,
         storeLock' \in {storeLock, Unlocked(p)},
         \A c \in Checkout : assetLock'[c] = assetLock[c] \/ (assetLock[c] = p /\ assetLock'[c] = Nobody),
         \A c \in Checkout : buildLock'[c] = buildLock[c] \/ (buildLock[c] = p /\ buildLock'[c] = Nobody),
         assetLock' \in [Checkout -> Process \cup {Nobody}],
         buildLock' \in [Checkout -> Process \cup {Nobody}],
         run'[p].at \in Provisioning => run[p].at \in Provisioning /\ storeLock' = storeLock,
         run'[p].at \in Tabling => run[p].at \in Tabling /\ assetLock' = assetLock,
         run'[p].at \in Building => run[p].at \in Building /\ buildLock' = buildLock,
         run'[p].at = "aside checkpoint" => stored["checkpoint"] # Valid,
         run'[p].at = "aside model" => stored["model"] # Valid
  PROVE  Orderly(p)
<1>1. SetupTypes /\ Locks
  BY DEF Base
<1>2. SharedTypes'
  BY <1>1 DEF SharedTypes, SetupTypes, Elsewhere, Unlocked
<1>3. LocksMove(p)
  <2>1. Passes(p, storeLock, storeLock')
    BY DEF Passes, Unlocked
  <2>2. \A c \in Checkout : Passes(p, assetLock[c], assetLock'[c]) /\ Passes(p, buildLock[c], buildLock'[c])
    BY DEF Passes
  <2> QED BY <1>1, <2>1, <2>2 DEF LocksMove, Locks
<1>4. StoreMoves(p)
  BY DEF StoreMoves, Elsewhere
<1> QED BY <1>2, <1>3, <1>4 DEF Orderly

(* A step that changes the command's own record, and at most gives back    *)
(* the store's lock, is orderly.                                           *)
LEMMA LocksKeptOrderly ==
  ASSUME Base, NEW p \in Process, Alone(p), UNCHANGED Elsewhere, UNCHANGED <<assetLock, buildLock>>,
         storeLock' \in {storeLock, Unlocked(p)},
         run'[p].at \in Provisioning => run[p].at \in Provisioning /\ storeLock' = storeLock,
         run'[p].at \in Tabling => run[p].at \in Tabling,
         run'[p].at \in Building => run[p].at \in Building,
         run'[p].at = "aside checkpoint" => stored["checkpoint"] # Valid,
         run'[p].at = "aside model" => stored["model"] # Valid
  PROVE  Orderly(p)
<1>0. assetLock' = assetLock /\ buildLock' = buildLock
  OBVIOUS
<1>1. assetLock \in [Checkout -> Process \cup {Nobody}] /\ buildLock \in [Checkout -> Process \cup {Nobody}]
  BY DEF Base, SetupTypes
<1>2. \A c \in Checkout : assetLock'[c] = assetLock[c] \/ (assetLock[c] = p /\ assetLock'[c] = Nobody)
  BY <1>0
<1>3. \A c \in Checkout : buildLock'[c] = buildLock[c] \/ (buildLock[c] = p /\ buildLock'[c] = Nobody)
  BY <1>0
<1>4. assetLock' \in [Checkout -> Process \cup {Nobody}] /\ buildLock' \in [Checkout -> Process \cup {Nobody}]
  BY <1>0, <1>1
<1>5. /\ run'[p].at \in Tabling => run[p].at \in Tabling /\ assetLock' = assetLock
      /\ run'[p].at \in Building => run[p].at \in Building /\ buildLock' = buildLock
  BY <1>0
<1> QED BY <1>2, <1>3, <1>4, <1>5, OwnRecordOrderly

(* The step past a link gives the store's lock back when it was the last.  *)
LEMMA LinkedOrderly ==
  ASSUME Base, NEW p \in Process, NEW link, LinkPhases(link), run[p].at \in {link.at, link.replace},
         Walks(p, link.next), storeLock' = IF link.entry = "model" THEN Nobody ELSE storeLock,
         UNCHANGED <<stored, tables, manifest, binary, receipt, assetLock, buildLock>>,
         placed' \in [Checkout -> [Entry -> Place]]
  PROVE  Orderly(p)
<1>1. SetupTypes /\ Locks /\ Alone(p) /\ run'[p].at = link.next
  BY DEF Base, Walks
<1>2. /\ run[p].at \in Provisioning /\ link.next \notin Tabling /\ link.next \notin Building
      /\ link.next \in Provisioning => link.entry # "model"
      /\ link.next # "aside checkpoint" /\ link.next # "aside model"
  BY DEF LinkPhases, Provisioning, Tabling, Building, Making
<1>3. storeLock = p
  BY <1>1, <1>2 DEF Locks
<1>4. SharedTypes'
  BY <1>1 DEF SharedTypes, SetupTypes
<1>5. LocksMove(p) /\ StoreMoves(p)
  BY <1>1, <1>2, <1>3 DEF LocksMove, StoreMoves, Passes
<1> QED BY <1>1, <1>4, <1>5 DEF Orderly

(* Every action of setup in the store is orderly: it is taken under the    *)
(* store's lock, sets aside only what does not verify, and publishes only  *)
(* what does.                                                              *)
LEMMA ProvisionOrderly ==
  ASSUME Base, NEW p \in Process, Provision(p), UNCHANGED buildVars
  PROVE  Orderly(p)
<1>1. /\ SetupTypes /\ Locks /\ UNCHANGED <<version, tables, manifest, binary, receipt, assetLock, buildLock>>
      /\ assetLock \in [Checkout -> Process \cup {Nobody}]
      /\ buildLock \in [Checkout -> Process \cup {Nobody}]
  BY DEF Base, buildVars, SetupTypes
<1>2. \A x \in Provisioning \cup {"idle", "lock tables"} :
        /\ x \notin Tabling /\ x \notin Building
        /\ x \in {"idle", "lock tables"} => x \notin Provisioning
  BY DEF Provisioning, Tabling, Building, Making
<1>3. ASSUME Leaves(p), UNCHANGED Elsewhere, storeLock' \in {storeLock, Unlocked(p)} PROVE Orderly(p)
  <2>1. Alone(p) /\ run'[p].at = "idle"
    BY <1>3 DEF Leaves
  <2>2. /\ run'[p].at \notin Provisioning /\ run'[p].at \notin Tabling /\ run'[p].at \notin Building
        /\ run'[p].at # "aside checkpoint" /\ run'[p].at # "aside model"
    BY <1>2, <2>1
  <2> QED BY <1>1, <1>3, <2>1, <2>2, LocksKeptOrderly
<1>4. ASSUME NEW x \in Provisioning, Walks(p, x), UNCHANGED Elsewhere, storeLock' = storeLock,
             run[p].at \in Provisioning, x = "aside checkpoint" => stored["checkpoint"] # Valid,
             x = "aside model" => stored["model"] # Valid
      PROVE  Orderly(p)
  <2>1. Alone(p) /\ run'[p].at = x
    BY <1>4 DEF Walks
  <2>2. run'[p].at \notin Tabling /\ run'[p].at \notin Building
    BY <1>2, <2>1
  <2> QED BY <1>1, <1>4, <2>1, <2>2, LocksKeptOrderly
<1>5. ASSUME NEW x \in Provisioning \cup {"idle"}, Alone(p), run'[p].at = x, run[p].at \in Provisioning,
             UNCHANGED <<placed, tables, manifest, binary, receipt>>,
             storeLock' = IF x = "idle" THEN Unlocked(p) ELSE storeLock,
             x # "aside checkpoint", x # "aside model", NEW entry \in Entry,
             \/ stored' = [stored EXCEPT ![entry] = Absent] /\ stored[entry] # Valid
             \/ stored' = [stored EXCEPT ![entry] = Valid]
      PROVE  Orderly(p)
  <2>1. storeLock = p /\ storeLock' \in {p, Nobody} /\ (x # "idle" => storeLock' = p)
    BY <1>1, <1>5 DEF Locks, Unlocked
  <2>2. StoreMoves(p)
    BY <1>1, <1>5 DEF StoreMoves, SetupTypes
  <2>3. LocksMove(p)
    BY <1>1, <1>2, <1>5, <2>1 DEF LocksMove, Passes
  <2>4. SharedTypes'
    BY <1>1, <1>5, <2>1 DEF SharedTypes, SetupTypes, Contents
  <2> QED BY <1>5, <2>2, <2>3, <2>4 DEF Orderly
<1>6. CASE Refuse(p)
  BY <1>1, <1>3, <1>6, ProvisionMoves DEF Refuse, storeVars, Elsewhere
<1>7. CASE LockStore(p)
  <2>1. Walks(p, "checkpoint") /\ storeLock = Nobody /\ storeLock' = p /\ UNCHANGED Elsewhere
    BY <1>1, <1>7, ProvisionMoves DEF LockStore, Elsewhere
  <2>2. LocksMove(p) /\ StoreMoves(p)
    BY <1>1, <1>2, <2>1 DEF LocksMove, StoreMoves, Passes, Walks, Provisioning, Elsewhere
  <2>3. SharedTypes'
    BY <1>1, <2>1 DEF SharedTypes, SetupTypes, Elsewhere
  <2> QED BY <2>1, <2>2, <2>3 DEF Orderly, Walks
<1>8. CASE ExamineCheckpoint(p)
  BY <1>1, <1>4, <1>8, ProvisionMoves DEF ExamineCheckpoint, At, storeVars, Elsewhere, Provisioning
<1>9. CASE ExamineModel(p)
  BY <1>1, <1>4, <1>9, ProvisionMoves DEF ExamineModel, At, storeVars, Elsewhere, Provisioning
<1>10. CASE SetAsideCheckpoint(p)
  <2>1. Walks(p, "fetch checkpoint") /\ stored["checkpoint"] # Valid /\ run[p].at \in Provisioning
    BY <1>1, <1>10, ProvisionMoves DEF SetAsideCheckpoint, At, Base, Unverified, Provisioning
  <2>2. stored' = [stored EXCEPT !["checkpoint"] = Absent] /\ UNCHANGED <<placed, storeLock>>
    BY <1>10 DEF SetAsideCheckpoint
  <2>3. "fetch checkpoint" \in Provisioning /\ "checkpoint" \in Entry
    BY DEF Provisioning, Entry
  <2> QED BY <1>1, <1>5, <2>1, <2>2, <2>3 DEF Walks
<1>11. CASE SetAsideModel(p)
  <2>1. Walks(p, "fetch model") /\ stored["model"] # Valid /\ run[p].at \in Provisioning
    BY <1>1, <1>11, ProvisionMoves DEF SetAsideModel, At, Base, Unverified, Provisioning
  <2>2. stored' = [stored EXCEPT !["model"] = Absent] /\ UNCHANGED <<placed, storeLock>>
    BY <1>11 DEF SetAsideModel
  <2>3. "fetch model" \in Provisioning /\ "model" \in Entry
    BY DEF Provisioning, Entry
  <2> QED BY <1>1, <1>5, <2>1, <2>2, <2>3 DEF Walks
<1>12. CASE ImportCheckpoint(p)
  BY <1>1, <1>4, <1>12, ProvisionMoves DEF ImportCheckpoint, At, storeVars, Elsewhere, Provisioning
<1>13. CASE ImportModel(p)
  BY <1>1, <1>4, <1>13, ProvisionMoves DEF ImportModel, At, storeVars, Elsewhere, Provisioning
<1>14. CASE BeginPrepare(p)
  BY <1>1, <1>4, <1>14, ProvisionMoves DEF BeginPrepare, At, storeVars, Elsewhere, Provisioning
<1>15. CASE Seal(p)
  BY <1>1, <1>4, <1>15, ProvisionMoves DEF Seal, At, storeVars, Elsewhere, Provisioning
<1>16. CASE DownloadCheckpoint(p)
  BY <1>1, <1>3, <1>4, <1>16, ProvisionMoves DEF DownloadCheckpoint, At, Elsewhere, Provisioning
<1>17. CASE PrepareModel(p)
  BY <1>1, <1>3, <1>4, <1>17, ProvisionMoves DEF PrepareModel, At, Elsewhere, Provisioning
<1>18. CASE PublishCheckpoint(p)
  <2>1. "model" \in Provisioning /\ "checkpoint" \in Entry /\ run[p].at \in Provisioning
    BY <1>18 DEF PublishCheckpoint, At, Provisioning, Entry
  <2>2. CASE run[p].staged = Valid
    <3>1. Walks(p, "model") /\ stored' = [stored EXCEPT !["checkpoint"] = Valid] /\ UNCHANGED <<placed, storeLock>>
      BY <1>1, <1>18, <2>2, ProvisionMoves DEF PublishCheckpoint
    <3> QED BY <1>1, <1>5, <2>1, <3>1 DEF Walks
  <2>3. CASE run[p].staged # Valid
    <3>1. Leaves(p) /\ storeLock' = Unlocked(p) /\ UNCHANGED <<stored, placed>>
      BY <1>1, <1>18, <2>3, ProvisionMoves DEF PublishCheckpoint
    <3> QED BY <1>1, <1>3, <3>1 DEF Elsewhere
  <2> QED BY <2>2, <2>3
<1>19. CASE PublishModel(p)
  <2>1. "seal" \in Provisioning /\ "model" \in Entry /\ run[p].at \in Provisioning
    BY <1>19 DEF PublishModel, At, Provisioning, Entry
  <2>2. CASE run[p].staged = Valid
    <3>1. Walks(p, "seal") /\ stored' = [stored EXCEPT !["model"] = Valid] /\ UNCHANGED <<placed, storeLock>>
      BY <1>1, <1>19, <2>2, ProvisionMoves DEF PublishModel
    <3> QED BY <1>1, <1>5, <2>1, <3>1 DEF Walks
  <2>3. CASE run[p].staged # Valid
    <3>1. Leaves(p) /\ storeLock' = Unlocked(p) /\ UNCHANGED <<stored, placed>>
      BY <1>1, <1>19, <2>3, ProvisionMoves DEF PublishModel
    <3> QED BY <1>1, <1>3, <3>1 DEF Elsewhere
  <2> QED BY <2>2, <2>3
<1>20. ASSUME NEW link \in Links, LookAtLink(p, link) PROVE Orderly(p)
  <2>1. LinkPhases(link) /\ UNCHANGED Elsewhere /\ run[p].at = link.at
    BY <1>1, <1>20, LinkMoves DEF LookAtLink, Elsewhere, At
  <2>2. CASE Leaves(p) /\ storeLock' = Unlocked(p)
    BY <1>3, <2>1, <2>2
  <2>3. CASE Walks(p, link.replace) /\ storeLock' = storeLock
    BY <1>4, <2>1, <2>3 DEF LinkPhases, Provisioning
  <2>4. CASE Walks(p, link.next) /\ storeLock' = IF link.entry = "model" THEN Nobody ELSE storeLock
    <3>1. /\ UNCHANGED <<stored, tables, manifest, binary, receipt, assetLock, buildLock>>
          /\ placed' \in [Checkout -> [Entry -> Place]]
      BY <1>1, <2>1 DEF Elsewhere, SetupTypes
    <3> QED BY <2>1, <2>4, <3>1, LinkedOrderly
  <2> QED BY <1>1, <1>20, <2>2, <2>3, <2>4, LinkMoves
<1>21. ASSUME NEW link \in Links, ReplaceLink(p, link) PROVE Orderly(p)
  <2>1. LinkPhases(link) /\ run[p].at = link.replace
        /\ UNCHANGED <<stored, tables, manifest, binary, receipt>>
        /\ placed' = [placed EXCEPT ![home[p]][link.entry] = "linked"]
    BY <1>1, <1>21, LinkMoves DEF ReplaceLink, At
  <2>2. placed' \in [Checkout -> [Entry -> Place]]
    BY <1>1, <2>1 DEF SetupTypes, Place
  <2>3. Walks(p, link.next) /\ storeLock' = IF link.entry = "model" THEN Nobody ELSE storeLock
    BY <1>1, <1>21, LinkMoves
  <2> QED BY <1>1, <2>1, <2>2, <2>3, LinkedOrderly
<1> QED BY <1>6, <1>7, <1>8, <1>9, <1>10, <1>11, <1>12, <1>13, <1>14, <1>15, <1>16, <1>17, <1>18, <1>19, <1>20, <1>21 DEF Provision

(* ... of a checkout's products, each of which it changes where it works,  *)
(* at the point that is for it, ...                                        *)
Makes(p) ==
  /\ \A c \in Checkout :
       /\ tables'[c] # tables[c] => c = home[p] /\ At(p, "generate") /\ tables'[c] = run[p].read
       /\ manifest'[c] # manifest[c] =>
            /\ c = home[p] /\ At(p, "manifest")
            /\ manifest'[c] = [sources |-> run[p].identity, content |-> run[p].read]
       /\ binary'[c] # binary[c] => c = home[p] /\ At(p, "replace") /\ binary'[c] = run[p].read
       /\ receipt'[c] # receipt[c] =>
            /\ c = home[p] /\ At(p, "receipt")
            /\ receipt'[c] = [sources |-> run[p].identity, content |-> run[p].read]
  /\ run'[p].at = "generate" => ~PreparedValid(home[p])
  /\ run'[p].at = "manifest" => At(p, "generate")
  /\ run'[p].at \in Making =>
       \/ run[p].at \in Making /\ run'[p].identity = run[p].identity
       \/ ~Current(home[p], version[home[p]]) /\ run'[p].identity = version[home[p]]

(* ... and of the links.                                                   *)
Places(p) == \A c \in Checkout, e \in Entry : placed'[c][e] \in {placed[c][e], "linked", "local"}

Effects(p) == Orderly(p) /\ Makes(p) /\ Places(p)

(* A lock of a checkout, kept, taken or given back.                        *)
HomeLock(p, lock, next) ==
  /\ next \in [Checkout -> Process \cup {Nobody}]
  /\ \A c \in Checkout : Passes(p, lock[c], next[c])

(* A lock of the home checkout that is free, or the command's own, may be  *)
(* taken, kept or given back.                                              *)
LEMMA HomeLocks ==
  ASSUME NEW p \in Process, NEW lock \in [Checkout -> Process \cup {Nobody}], home \in [Process -> Checkout]
  PROVE  /\ HomeLock(p, lock, lock)
         /\ lock[home[p]] \in {p, Nobody} =>
              \A q \in {p, Nobody} : /\ HomeLock(p, lock, [lock EXCEPT ![home[p]] = q])
                                     /\ [lock EXCEPT ![home[p]] = q][home[p]] = q
<1>1. HomeLock(p, lock, lock)
  BY DEF HomeLock, Passes
<1>2. ASSUME lock[home[p]] \in {p, Nobody}, NEW q \in {p, Nobody}
      PROVE  HomeLock(p, lock, [lock EXCEPT ![home[p]] = q]) /\ [lock EXCEPT ![home[p]] = q][home[p]] = q
  <2>1. PICK next : next = [lock EXCEPT ![home[p]] = q]
    OBVIOUS
  <2>2. next \in [Checkout -> Process \cup {Nobody}] /\ next[home[p]] = q
    BY <2>1
  <2>3. \A c \in Checkout : next[c] = lock[c] \/ (lock[c] \in {p, Nobody} /\ next[c] \in {p, Nobody})
    BY <1>2, <2>1
  <2>4. HomeLock(p, lock, next)
    BY <2>2, <2>3 DEF HomeLock, Passes
  <2> QED BY <2>1, <2>2, <2>4
<1> QED BY <1>1, <1>2

Products ==
  /\ placed \in [Checkout -> [Entry -> Place]]
  /\ tables \in [Checkout -> SUBSET Version] /\ manifest \in [Checkout -> Record]
  /\ binary \in [Checkout -> SUBSET Version] /\ receipt \in [Checkout -> Record]

(* A step that changes its checkout's products and locks as allowed has    *)
(* only the allowed effects.                                               *)
LEMMA HomeOrderly ==
  ASSUME Base, NEW p \in Process, Alone(p), UNCHANGED <<stored, storeLock>>, Places(p), Products',
         HomeLock(p, assetLock, assetLock'), HomeLock(p, buildLock, buildLock'),
         run'[p].at \notin Provisioning,
         run'[p].at \in Tabling => assetLock'[home[p]] = p,
         run'[p].at \in Building => buildLock'[home[p]] = p,
         Makes(p)
  PROVE  Effects(p)
<1>1. LocksMove(p)
  BY DEF LocksMove, HomeLock, Passes
<1>2. StoreMoves(p)
  BY DEF StoreMoves, Provisioning
<1>3. SharedTypes'
  BY DEF SharedTypes, Products, HomeLock, Base, SetupTypes
<1> QED BY <1>1, <1>2, <1>3 DEF Effects, Orderly

(* Every action of ensure_prepared and ensure_binary has only the allowed  *)
(* effects: it works under its lock and writes each product at its point.  *)
LEMMA BuildEffects ==
  ASSUME Base, NEW p \in Process, Build(p)
  PROVE  Effects(p)
<1>1. /\ SetupTypes /\ Locks /\ home \in [Process -> Checkout] /\ home[p] \in Checkout
      /\ assetLock \in [Checkout -> Process \cup {Nobody}]
      /\ buildLock \in [Checkout -> Process \cup {Nobody}]
      /\ run[p] \in RunType /\ version[home[p]] \in Version
  BY DEF Base, SetupTypes
<1>2. /\ run[p].at \in Tabling => assetLock[home[p]] = p
      /\ run[p].at \in Building => buildLock[home[p]] = p
  BY <1>1 DEF Locks
<1>3. Making \subseteq Building /\ Building \cap Tabling = {} /\ (Building \cup Tabling) \cap Provisioning = {}
  BY DEF Provisioning, Tabling, Building, Making
<1>4. /\ "idle" \notin Provisioning \cup Tabling \cup Building
      /\ "lock binary" \notin Provisioning \cup Tabling \cup Building
  BY DEF Provisioning, Tabling, Building, Making
<1>5. /\ {"tables", "download", "generate", "manifest", "check tables"} \subseteq Tabling
      /\ {"compile", "compiled", "replace", "receipt"} = Making
      /\ {"compile", "compiled", "replace", "receipt", "built"} = Building /\ "built" \notin Making
  BY DEF Tabling, Building, Making
<1>6. /\ HomeLock(p, assetLock, assetLock) /\ HomeLock(p, buildLock, buildLock)
      /\ assetLock[home[p]] \in {p, Nobody} =>
           \A q \in {p, Nobody} : /\ HomeLock(p, assetLock, [assetLock EXCEPT ![home[p]] = q])
                                  /\ [assetLock EXCEPT ![home[p]] = q][home[p]] = q
      /\ buildLock[home[p]] \in {p, Nobody} =>
           \A q \in {p, Nobody} : /\ HomeLock(p, buildLock, [buildLock EXCEPT ![home[p]] = q])
                                  /\ [buildLock EXCEPT ![home[p]] = q][home[p]] = q
  BY <1>1, HomeLocks
<1>7. ASSUME UNCHANGED storeVars PROVE UNCHANGED <<stored, storeLock>> /\ Places(p) /\ placed' \in [Checkout -> [Entry -> Place]]
  BY <1>1, <1>7 DEF storeVars, Places, SetupTypes
<1>8. ASSUME UNCHANGED <<tables, manifest, binary, receipt>>, placed' \in [Checkout -> [Entry -> Place]]
      PROVE  Products'
  BY <1>1, <1>8 DEF Products, SetupTypes
<1>9. ASSUME UNCHANGED <<tables, manifest, binary, receipt>>, run'[p].at \notin {"generate", "manifest"},
             run'[p].at \notin Making
      PROVE  Makes(p)
  BY <1>9 DEF Makes
<1>10. ASSUME EnsureSource(p) PROVE Effects(p)
  <2>1. /\ UNCHANGED storeVars /\ UNCHANGED <<tables, manifest, binary, receipt>> /\ buildLock' = buildLock
        /\ assetLock[home[p]] = Nobody
    BY <1>10 DEF EnsureSource
  <2>2. PICK x \in {"idle", "tables", "download"}, q \in {p, Nobody} :
          /\ Alone(p) /\ run'[p].at = x /\ assetLock' = [assetLock EXCEPT ![home[p]] = q]
          /\ x # "idle" => q = p
    BY <1>1, <1>10, BuildMoves DEF Walks, Leaves
  <2>3. HomeLock(p, assetLock, assetLock') /\ assetLock'[home[p]] = q /\ HomeLock(p, buildLock, buildLock')
    BY <1>6, <2>1, <2>2
  <2>4. Makes(p)
    BY <1>3, <1>4, <1>5, <1>9, <2>1, <2>2
  <2>5. run'[p].at \notin Provisioning /\ (run'[p].at \in Tabling => assetLock'[home[p]] = p)
        /\ (run'[p].at \in Building => buildLock'[home[p]] = p)
    BY <1>3, <1>4, <1>5, <2>2, <2>3
  <2>6. UNCHANGED <<stored, storeLock>> /\ Places(p) /\ Products'
    BY <1>7, <1>8, <2>1
  <2> QED BY <2>2, <2>3, <2>4, <2>5, <2>6, HomeOrderly
<1>11. ASSUME Download(p) PROVE Effects(p)
  <2>1. /\ buildLock' = buildLock /\ run[p].at = "download" /\ UNCHANGED <<tables, manifest, binary, receipt>>
    BY <1>11 DEF Download, At, storeVars, buildVars
  <2>2. PICK x \in {"tables", "idle"} :
          /\ Alone(p) /\ run'[p].at = x
          /\ assetLock' = IF x \in Tabling THEN assetLock ELSE [assetLock EXCEPT ![home[p]] = Nobody]
    BY <1>1, <1>4, <1>5, <1>11, BuildMoves DEF Walks, Leaves, Download, storeVars, buildVars
  <2>3. HomeLock(p, assetLock, assetLock') /\ HomeLock(p, buildLock, buildLock') /\ (x \in Tabling => assetLock'[home[p]] = p)
    BY <1>2, <1>5, <1>6, <2>1, <2>2
  <2>4. Makes(p)
    <3>1. x \notin Making /\ x \notin {"generate", "manifest"}
      BY <1>3, <1>4, <1>5, <2>2
    <3> QED BY <1>9, <2>1, <2>2, <3>1
  <2>5. run'[p].at \notin Provisioning /\ (run'[p].at \in Tabling => assetLock'[home[p]] = p)
        /\ (run'[p].at \in Building => buildLock'[home[p]] = p)
    BY <1>3, <1>4, <1>5, <2>2, <2>3
  <2>6. UNCHANGED <<stored, storeLock>> /\ Places(p) /\ placed' \in [Checkout -> [Entry -> Place]]
    <3>1. CASE placed' = placed
      BY <1>1, <1>11, <3>1 DEF Download, Places, SetupTypes
    <3>2. CASE placed' = [placed EXCEPT ![home[p]]["checkpoint"] = "local"]
      BY <1>1, <1>11, <3>2 DEF Download, Places, SetupTypes, Place
    <3> QED BY <1>11, <3>1, <3>2 DEF Download
  <2>7. Products'
    BY <1>8, <2>1, <2>6
  <2> QED BY <2>2, <2>3, <2>4, <2>5, <2>6, <2>7, HomeOrderly
<1>12. ASSUME KeepTables(p) PROVE Effects(p)
  <2>1. /\ buildLock' = buildLock /\ run[p].at = "tables" /\ UNCHANGED <<tables, manifest, binary, receipt>>
    BY <1>12 DEF KeepTables, At, storeVars, buildVars
  <2>2. PICK x \in {"lock binary"} :
          /\ Alone(p) /\ run'[p].at = x
          /\ assetLock' = IF x \in Tabling THEN assetLock ELSE [assetLock EXCEPT ![home[p]] = Nobody]
    BY <1>1, <1>4, <1>5, <1>12, BuildMoves DEF Walks, Leaves, KeepTables, storeVars, buildVars
  <2>3. HomeLock(p, assetLock, assetLock') /\ HomeLock(p, buildLock, buildLock') /\ (x \in Tabling => assetLock'[home[p]] = p)
    BY <1>2, <1>5, <1>6, <2>1, <2>2
  <2>4. Makes(p)
    <3>1. x \notin Making /\ x \notin {"generate", "manifest"}
      BY <1>3, <1>4, <1>5, <2>2
    <3> QED BY <1>9, <2>1, <2>2, <3>1
  <2>5. run'[p].at \notin Provisioning /\ (run'[p].at \in Tabling => assetLock'[home[p]] = p)
        /\ (run'[p].at \in Building => buildLock'[home[p]] = p)
    BY <1>3, <1>4, <1>5, <2>2, <2>3
  <2>6. UNCHANGED <<stored, storeLock>> /\ Places(p) /\ placed' \in [Checkout -> [Entry -> Place]]
    BY <1>7, <1>12 DEF KeepTables
  <2>7. Products'
    BY <1>8, <2>1, <2>6
  <2> QED BY <2>2, <2>3, <2>4, <2>5, <2>6, <2>7, HomeOrderly
<1>13. ASSUME StartGenerator(p) PROVE Effects(p)
  <2>1. /\ buildLock' = buildLock /\ run[p].at = "tables" /\ UNCHANGED <<tables, manifest, binary, receipt>>
    BY <1>13 DEF StartGenerator, At, storeVars, buildVars
  <2>2. PICK x \in {"generate"} :
          /\ Alone(p) /\ run'[p].at = x
          /\ assetLock' = IF x \in Tabling THEN assetLock ELSE [assetLock EXCEPT ![home[p]] = Nobody]
    BY <1>1, <1>4, <1>5, <1>13, BuildMoves DEF Walks, Leaves, StartGenerator, storeVars, buildVars
  <2>3. HomeLock(p, assetLock, assetLock') /\ HomeLock(p, buildLock, buildLock') /\ (x \in Tabling => assetLock'[home[p]] = p)
    BY <1>2, <1>5, <1>6, <2>1, <2>2
  <2>4. Makes(p)
    <3>1. x \notin Making /\ ~PreparedValid(home[p])
      BY <1>3, <1>5, <1>13, <2>2 DEF StartGenerator
    <3> QED BY <2>1, <2>2, <3>1 DEF Makes
  <2>5. run'[p].at \notin Provisioning /\ (run'[p].at \in Tabling => assetLock'[home[p]] = p)
        /\ (run'[p].at \in Building => buildLock'[home[p]] = p)
    BY <1>3, <1>4, <1>5, <2>2, <2>3
  <2>6. UNCHANGED <<stored, storeLock>> /\ Places(p) /\ placed' \in [Checkout -> [Entry -> Place]]
    BY <1>7, <1>13 DEF StartGenerator
  <2>7. Products'
    BY <1>8, <2>1, <2>6
  <2> QED BY <2>2, <2>3, <2>4, <2>5, <2>6, <2>7, HomeOrderly
<1>14. ASSUME WriteTables(p) PROVE Effects(p)
  <2>1. /\ buildLock' = buildLock /\ run[p].at = "generate" /\ UNCHANGED <<manifest, binary, receipt>>
    BY <1>14 DEF WriteTables, At, storeVars, buildVars
  <2>2. PICK x \in {"manifest", "idle"} :
          /\ Alone(p) /\ run'[p].at = x
          /\ assetLock' = IF x \in Tabling THEN assetLock ELSE [assetLock EXCEPT ![home[p]] = Nobody]
    BY <1>1, <1>4, <1>5, <1>14, BuildMoves DEF Walks, Leaves, WriteTables, storeVars, buildVars
  <2>3. HomeLock(p, assetLock, assetLock') /\ HomeLock(p, buildLock, buildLock') /\ (x \in Tabling => assetLock'[home[p]] = p)
    BY <1>2, <1>5, <1>6, <2>1, <2>2
  <2>4. Makes(p) /\ tables' \in [Checkout -> SUBSET Version]
    <3>1. PICK r : r = run[p].read
      OBVIOUS
    <3>2. r \in SUBSET Version
      BY <1>1, <3>1 DEF RunType, Record
    <3>3. tables' = tables \/ tables' = [tables EXCEPT ![home[p]] = r]
      BY <1>14, <3>1 DEF WriteTables
    <3>4. tables' \in [Checkout -> SUBSET Version]
          /\ \A c \in Checkout : tables'[c] # tables[c] => c = home[p] /\ tables'[c] = r
      <4>1. tables \in [Checkout -> SUBSET Version]
        BY <1>1 DEF SetupTypes
      <4>2. CASE tables' = tables
        BY <4>1, <4>2
      <4>3. CASE tables' = [tables EXCEPT ![home[p]] = r]
        BY <1>1, <3>2, <4>1, <4>3
      <4> QED BY <3>3, <4>2, <4>3
    <3>5. x \notin Making /\ x # "generate"
      BY <1>3, <1>4, <1>5, <2>2
    <3> QED BY <2>1, <2>2, <3>1, <3>4, <3>5 DEF Makes, At
  <2>5. run'[p].at \notin Provisioning /\ (run'[p].at \in Tabling => assetLock'[home[p]] = p)
        /\ (run'[p].at \in Building => buildLock'[home[p]] = p)
    BY <1>3, <1>4, <1>5, <2>2, <2>3
  <2>6. UNCHANGED <<stored, storeLock>> /\ Places(p) /\ placed' \in [Checkout -> [Entry -> Place]]
    BY <1>7, <1>14 DEF WriteTables
  <2>7. Products'
    BY <1>1, <2>1, <2>4, <2>6 DEF Products, SetupTypes
  <2> QED BY <2>2, <2>3, <2>4, <2>5, <2>6, <2>7, HomeOrderly
<1>15. ASSUME WriteManifest(p) PROVE Effects(p)
  <2>1. /\ buildLock' = buildLock /\ run[p].at = "manifest" /\ UNCHANGED <<tables, binary, receipt>>
    BY <1>15 DEF WriteManifest, At, storeVars, buildVars
  <2>2. PICK x \in {"check tables"} :
          /\ Alone(p) /\ run'[p].at = x
          /\ assetLock' = IF x \in Tabling THEN assetLock ELSE [assetLock EXCEPT ![home[p]] = Nobody]
    BY <1>1, <1>4, <1>5, <1>15, BuildMoves DEF Walks, Leaves, WriteManifest, storeVars, buildVars
  <2>3. HomeLock(p, assetLock, assetLock') /\ HomeLock(p, buildLock, buildLock') /\ (x \in Tabling => assetLock'[home[p]] = p)
    BY <1>2, <1>5, <1>6, <2>1, <2>2
  <2>4. Makes(p) /\ manifest' \in [Checkout -> Record]
    <3>1. PICK r : r = [sources |-> run[p].identity, content |-> run[p].read]
      OBVIOUS
    <3>2. r \in Record
      BY <1>1, <3>1 DEF RunType, Record
    <3>3. manifest' = manifest \/ manifest' = [manifest EXCEPT ![home[p]] = r]
      BY <1>15, <3>1 DEF WriteManifest
    <3>4. manifest' \in [Checkout -> Record]
          /\ \A c \in Checkout : manifest'[c] # manifest[c] => c = home[p] /\ manifest'[c] = r
      <4>1. manifest \in [Checkout -> Record]
        BY <1>1 DEF SetupTypes
      <4>2. CASE manifest' = manifest
        BY <4>1, <4>2
      <4>3. CASE manifest' = [manifest EXCEPT ![home[p]] = r]
        BY <1>1, <3>2, <4>1, <4>3
      <4> QED BY <3>3, <4>2, <4>3
    <3>5. x \notin Making /\ x # "generate" /\ x # "manifest"
      BY <1>3, <1>4, <1>5, <2>2
    <3> QED BY <2>1, <2>2, <3>1, <3>4, <3>5 DEF Makes, At
  <2>5. run'[p].at \notin Provisioning /\ (run'[p].at \in Tabling => assetLock'[home[p]] = p)
        /\ (run'[p].at \in Building => buildLock'[home[p]] = p)
    BY <1>3, <1>4, <1>5, <2>2, <2>3
  <2>6. UNCHANGED <<stored, storeLock>> /\ Places(p) /\ placed' \in [Checkout -> [Entry -> Place]]
    BY <1>7, <1>15 DEF WriteManifest
  <2>7. Products'
    BY <1>1, <2>1, <2>4, <2>6 DEF Products, SetupTypes
  <2> QED BY <2>2, <2>3, <2>4, <2>5, <2>6, <2>7, HomeOrderly
<1>16. ASSUME CheckTables(p) PROVE Effects(p)
  <2>1. /\ buildLock' = buildLock /\ run[p].at = "check tables" /\ UNCHANGED <<tables, manifest, binary, receipt>>
    BY <1>16 DEF CheckTables, At, storeVars, buildVars
  <2>2. PICK x \in {"lock binary", "idle"} :
          /\ Alone(p) /\ run'[p].at = x
          /\ assetLock' = IF x \in Tabling THEN assetLock ELSE [assetLock EXCEPT ![home[p]] = Nobody]
    BY <1>1, <1>4, <1>5, <1>16, BuildMoves DEF Walks, Leaves, CheckTables, storeVars, buildVars
  <2>3. HomeLock(p, assetLock, assetLock') /\ HomeLock(p, buildLock, buildLock') /\ (x \in Tabling => assetLock'[home[p]] = p)
    BY <1>2, <1>5, <1>6, <2>1, <2>2
  <2>4. Makes(p)
    <3>1. x \notin Making /\ x \notin {"generate", "manifest"}
      BY <1>3, <1>4, <1>5, <2>2
    <3> QED BY <1>9, <2>1, <2>2, <3>1
  <2>5. run'[p].at \notin Provisioning /\ (run'[p].at \in Tabling => assetLock'[home[p]] = p)
        /\ (run'[p].at \in Building => buildLock'[home[p]] = p)
    BY <1>3, <1>4, <1>5, <2>2, <2>3
  <2>6. UNCHANGED <<stored, storeLock>> /\ Places(p) /\ placed' \in [Checkout -> [Entry -> Place]]
    BY <1>7, <1>16 DEF CheckTables
  <2>7. Products'
    BY <1>8, <2>1, <2>6
  <2> QED BY <2>2, <2>3, <2>4, <2>5, <2>6, <2>7, HomeOrderly
<1>17. ASSUME LockBuild(p) PROVE Effects(p)
  <2>1. /\ assetLock' = assetLock /\ run[p].at = "lock binary" /\ UNCHANGED <<tables, manifest, binary, receipt>>
    BY <1>17 DEF LockBuild, At, storeVars, buildVars
  <2>2. PICK x \in {"built", "compile"} :
          /\ Alone(p) /\ run'[p].at = x
          /\ buildLock' = IF x \in Building THEN [buildLock EXCEPT ![home[p]] = p] ELSE [buildLock EXCEPT ![home[p]] = Nobody]
    BY <1>1, <1>4, <1>5, <1>17, BuildMoves DEF Walks, Leaves, LockBuild, storeVars, buildVars
  <2>3. HomeLock(p, assetLock, assetLock') /\ HomeLock(p, buildLock, buildLock') /\ (x \in Building => buildLock'[home[p]] = p)
    BY <1>2, <1>5, <1>6, <1>17, <2>1, <2>2 DEF LockBuild
  <2>4. Makes(p)
    <3>1. run'[p].at \in Making =>
            \/ run[p].at \in Making /\ run'[p].identity = run[p].identity
            \/ ~Current(home[p], version[home[p]]) /\ run'[p].identity = version[home[p]]
      BY <1>1, <1>4, <1>5, <1>17, <2>1, BuildMoves DEF Walks, Leaves
    <3>2. x \notin {"generate", "manifest"}
      BY <2>2
    <3> QED BY <2>1, <2>2, <3>1, <3>2 DEF Makes
  <2>5. run'[p].at \notin Provisioning /\ (run'[p].at \in Tabling => assetLock'[home[p]] = p)
        /\ (run'[p].at \in Building => buildLock'[home[p]] = p)
    BY <1>3, <1>4, <1>5, <2>2, <2>3
  <2>6. UNCHANGED <<stored, storeLock>> /\ Places(p) /\ placed' \in [Checkout -> [Entry -> Place]]
    BY <1>7, <1>17 DEF LockBuild
  <2>7. Products'
    BY <1>8, <2>1, <2>6
  <2> QED BY <2>2, <2>3, <2>4, <2>5, <2>6, <2>7, HomeOrderly
<1>18. ASSUME Compile(p) PROVE Effects(p)
  <2>1. /\ assetLock' = assetLock /\ run[p].at = "compile" /\ UNCHANGED <<tables, manifest, binary, receipt>>
    BY <1>18 DEF Compile, At, storeVars, buildVars
  <2>2. PICK x \in {"compiled", "idle"} :
          /\ Alone(p) /\ run'[p].at = x
          /\ buildLock' = IF x \in Building THEN buildLock ELSE [buildLock EXCEPT ![home[p]] = Nobody]
    BY <1>1, <1>4, <1>5, <1>18, BuildMoves DEF Walks, Leaves, Compile, storeVars, buildVars
  <2>3. HomeLock(p, assetLock, assetLock') /\ HomeLock(p, buildLock, buildLock') /\ (x \in Building => buildLock'[home[p]] = p)
    BY <1>2, <1>5, <1>6, <2>1, <2>2
  <2>4. Makes(p)
    <3>1. run'[p].at \in Making =>
            \/ run[p].at \in Making /\ run'[p].identity = run[p].identity
            \/ ~Current(home[p], version[home[p]]) /\ run'[p].identity = version[home[p]]
      BY <1>1, <1>4, <1>5, <1>18, <2>1, BuildMoves DEF Walks, Leaves
    <3>2. x \notin {"generate", "manifest"}
      BY <2>2
    <3> QED BY <2>1, <2>2, <3>1, <3>2 DEF Makes
  <2>5. run'[p].at \notin Provisioning /\ (run'[p].at \in Tabling => assetLock'[home[p]] = p)
        /\ (run'[p].at \in Building => buildLock'[home[p]] = p)
    BY <1>3, <1>4, <1>5, <2>2, <2>3
  <2>6. UNCHANGED <<stored, storeLock>> /\ Places(p) /\ placed' \in [Checkout -> [Entry -> Place]]
    BY <1>7, <1>18 DEF Compile
  <2>7. Products'
    BY <1>8, <2>1, <2>6
  <2> QED BY <2>2, <2>3, <2>4, <2>5, <2>6, <2>7, HomeOrderly
<1>19. ASSUME CompareSources(p) PROVE Effects(p)
  <2>1. /\ assetLock' = assetLock /\ run[p].at = "compiled" /\ UNCHANGED <<tables, manifest, binary, receipt>>
    BY <1>19 DEF CompareSources, At, storeVars, buildVars
  <2>2. PICK x \in {"replace", "idle"} :
          /\ Alone(p) /\ run'[p].at = x
          /\ buildLock' = IF x \in Building THEN buildLock ELSE [buildLock EXCEPT ![home[p]] = Nobody]
    BY <1>1, <1>4, <1>5, <1>19, BuildMoves DEF Walks, Leaves, CompareSources, storeVars, buildVars
  <2>3. HomeLock(p, assetLock, assetLock') /\ HomeLock(p, buildLock, buildLock') /\ (x \in Building => buildLock'[home[p]] = p)
    BY <1>2, <1>5, <1>6, <2>1, <2>2
  <2>4. Makes(p)
    <3>1. run'[p].at \in Making =>
            \/ run[p].at \in Making /\ run'[p].identity = run[p].identity
            \/ ~Current(home[p], version[home[p]]) /\ run'[p].identity = version[home[p]]
      BY <1>1, <1>4, <1>5, <1>19, <2>1, BuildMoves DEF Walks, Leaves
    <3>2. x \notin {"generate", "manifest"}
      BY <2>2
    <3> QED BY <2>1, <2>2, <3>1, <3>2 DEF Makes
  <2>5. run'[p].at \notin Provisioning /\ (run'[p].at \in Tabling => assetLock'[home[p]] = p)
        /\ (run'[p].at \in Building => buildLock'[home[p]] = p)
    BY <1>3, <1>4, <1>5, <2>2, <2>3
  <2>6. UNCHANGED <<stored, storeLock>> /\ Places(p) /\ placed' \in [Checkout -> [Entry -> Place]]
    BY <1>7, <1>19 DEF CompareSources
  <2>7. Products'
    BY <1>8, <2>1, <2>6
  <2> QED BY <2>2, <2>3, <2>4, <2>5, <2>6, <2>7, HomeOrderly
<1>20. ASSUME ReplaceBinary(p) PROVE Effects(p)
  <2>1. /\ assetLock' = assetLock /\ run[p].at = "replace" /\ UNCHANGED <<tables, manifest, receipt>>
    BY <1>20 DEF ReplaceBinary, At, storeVars, buildVars
  <2>2. PICK x \in {"receipt"} :
          /\ Alone(p) /\ run'[p].at = x
          /\ buildLock' = IF x \in Building THEN buildLock ELSE [buildLock EXCEPT ![home[p]] = Nobody]
    BY <1>1, <1>4, <1>5, <1>20, BuildMoves DEF Walks, Leaves, ReplaceBinary, storeVars, buildVars
  <2>3. HomeLock(p, assetLock, assetLock') /\ HomeLock(p, buildLock, buildLock') /\ (x \in Building => buildLock'[home[p]] = p)
    BY <1>2, <1>5, <1>6, <2>1, <2>2
  <2>4. Makes(p) /\ binary' \in [Checkout -> SUBSET Version]
    <3>1. PICK r : r = run[p].read
      OBVIOUS
    <3>2. r \in SUBSET Version
      BY <1>1, <3>1 DEF RunType, Record
    <3>3. binary' = binary \/ binary' = [binary EXCEPT ![home[p]] = r]
      BY <1>20, <3>1 DEF ReplaceBinary
    <3>4. binary' \in [Checkout -> SUBSET Version]
          /\ \A c \in Checkout : binary'[c] # binary[c] => c = home[p] /\ binary'[c] = r
      <4>1. binary \in [Checkout -> SUBSET Version]
        BY <1>1 DEF SetupTypes
      <4>2. CASE binary' = binary
        BY <4>1, <4>2
      <4>3. CASE binary' = [binary EXCEPT ![home[p]] = r]
        BY <1>1, <3>2, <4>1, <4>3
      <4> QED BY <3>3, <4>2, <4>3
    <3>5. /\ run'[p].at \in Making => run[p].at \in Making /\ run'[p].identity = run[p].identity
          /\ x \notin {"generate", "manifest"}
      BY <1>1, <1>4, <1>5, <1>20, <2>1, <2>2, BuildMoves DEF Walks, Leaves
    <3> QED BY <2>1, <2>2, <3>1, <3>4, <3>5 DEF Makes, At
  <2>5. run'[p].at \notin Provisioning /\ (run'[p].at \in Tabling => assetLock'[home[p]] = p)
        /\ (run'[p].at \in Building => buildLock'[home[p]] = p)
    BY <1>3, <1>4, <1>5, <2>2, <2>3
  <2>6. UNCHANGED <<stored, storeLock>> /\ Places(p) /\ placed' \in [Checkout -> [Entry -> Place]]
    BY <1>7, <1>20 DEF ReplaceBinary
  <2>7. Products'
    BY <1>1, <2>1, <2>4, <2>6 DEF Products, SetupTypes
  <2> QED BY <2>2, <2>3, <2>4, <2>5, <2>6, <2>7, HomeOrderly
<1>21. ASSUME WriteReceipt(p) PROVE Effects(p)
  <2>1. /\ assetLock' = assetLock /\ run[p].at = "receipt" /\ UNCHANGED <<tables, manifest, binary>>
    BY <1>21 DEF WriteReceipt, At, storeVars, buildVars
  <2>2. PICK x \in {"built"} :
          /\ Alone(p) /\ run'[p].at = x
          /\ buildLock' = IF x \in Building THEN buildLock ELSE [buildLock EXCEPT ![home[p]] = Nobody]
    BY <1>1, <1>4, <1>5, <1>21, BuildMoves DEF Walks, Leaves, WriteReceipt, storeVars, buildVars
  <2>3. HomeLock(p, assetLock, assetLock') /\ HomeLock(p, buildLock, buildLock') /\ (x \in Building => buildLock'[home[p]] = p)
    BY <1>2, <1>5, <1>6, <2>1, <2>2
  <2>4. Makes(p) /\ receipt' \in [Checkout -> Record]
    <3>1. PICK r : r = [sources |-> run[p].identity, content |-> run[p].read]
      OBVIOUS
    <3>2. r \in Record
      BY <1>1, <3>1 DEF RunType, Record
    <3>3. receipt' = receipt \/ receipt' = [receipt EXCEPT ![home[p]] = r]
      BY <1>21, <3>1 DEF WriteReceipt
    <3>4. receipt' \in [Checkout -> Record]
          /\ \A c \in Checkout : receipt'[c] # receipt[c] => c = home[p] /\ receipt'[c] = r
      <4>1. receipt \in [Checkout -> Record]
        BY <1>1 DEF SetupTypes
      <4>2. CASE receipt' = receipt
        BY <4>1, <4>2
      <4>3. CASE receipt' = [receipt EXCEPT ![home[p]] = r]
        BY <1>1, <3>2, <4>1, <4>3
      <4> QED BY <3>3, <4>2, <4>3
    <3>5. x \notin {"generate", "manifest"} /\ x \notin Making
      BY <1>5, <2>2
    <3> QED BY <2>1, <2>2, <3>1, <3>4, <3>5 DEF Makes, At
  <2>5. run'[p].at \notin Provisioning /\ (run'[p].at \in Tabling => assetLock'[home[p]] = p)
        /\ (run'[p].at \in Building => buildLock'[home[p]] = p)
    BY <1>3, <1>4, <1>5, <2>2, <2>3
  <2>6. UNCHANGED <<stored, storeLock>> /\ Places(p) /\ placed' \in [Checkout -> [Entry -> Place]]
    BY <1>7, <1>21 DEF WriteReceipt
  <2>7. Products'
    BY <1>1, <2>1, <2>4, <2>6 DEF Products, SetupTypes
  <2> QED BY <2>2, <2>3, <2>4, <2>5, <2>6, <2>7, HomeOrderly
<1> QED BY <1>10, <1>11, <1>12, <1>13, <1>14, <1>15, <1>16, <1>17, <1>18, <1>19, <1>20, <1>21 DEF Build

(* Every action of setup in the store has only the allowed effects: in a   *)
(* checkout it makes nothing but links.                                    *)
LEMMA ProvisionEffects ==
  ASSUME Base, NEW p \in Process, Provision(p), UNCHANGED buildVars
  PROVE  Effects(p)
<1>1. /\ SetupTypes /\ version' = version /\ UNCHANGED <<tables, manifest, binary, receipt>>
      /\ home[p] \in Checkout /\ placed \in [Checkout -> [Entry -> Place]]
  BY DEF Base, buildVars, SetupTypes
<1>2. \E x \in Provisioning \cup {"idle", "lock tables"} : run'[p].at = x
  <2>1. CASE \E link \in Links : LookAtLink(p, link) \/ ReplaceLink(p, link)
    <3>1. PICK link \in Links : LookAtLink(p, link) \/ ReplaceLink(p, link)
      BY <2>1
    <3>2. LinkPhases(link) /\ (Leaves(p) \/ Walks(p, link.next) \/ Walks(p, link.replace))
      BY <1>1, <3>1, LinkMoves
    <3>3. {link.next, link.replace} \subseteq Provisioning \cup {"lock tables"}
      BY <3>2 DEF LinkPhases, Provisioning
    <3> QED BY <3>2, <3>3 DEF Walks, Leaves
  <2>2. CASE ~\E link \in Links : LookAtLink(p, link) \/ ReplaceLink(p, link)
    <3>1. Leaves(p) \/ \E x \in Provisioning : Walks(p, x)
      BY <1>1, <2>2, ProvisionMoves DEF Provision, Provisioning
    <3> QED BY <3>1 DEF Walks, Leaves
  <2> QED BY <2>1, <2>2
<1>3. run'[p].at \notin {"generate", "manifest"} /\ run'[p].at \notin Making
  BY <1>2 DEF Provisioning, Making
<1>4. Makes(p)
  BY <1>1, <1>3 DEF Makes
<1>5. placed' = placed \/ \E e \in Entry : placed' = [placed EXCEPT ![home[p]][e] = "linked"]
  <2>1. CASE \E link \in Links : ReplaceLink(p, link)
    <3>1. PICK link \in Links : ReplaceLink(p, link)
      BY <2>1
    <3>2. LinkPhases(link)
      BY <1>1, LinkMoves
    <3>3. link.entry \in Entry
      BY <3>2 DEF LinkPhases, Entry
    <3> QED BY <3>1, <3>3 DEF ReplaceLink
  <2>2. CASE ~\E link \in Links : ReplaceLink(p, link)
    BY <2>2 DEF Provision, Refuse, LockStore, ExamineCheckpoint, SetAsideCheckpoint, ImportCheckpoint,
                DownloadCheckpoint, PublishCheckpoint, ExamineModel, SetAsideModel, ImportModel,
                BeginPrepare, PrepareModel, PublishModel, Seal, LookAtLink, storeVars
  <2> QED BY <2>1, <2>2
<1>6. Places(p)
  <2>1. CASE placed' = placed
    BY <2>1 DEF Places
  <2>2. ASSUME NEW e \in Entry, placed' = [placed EXCEPT ![home[p]][e] = "linked"]
        PROVE  Places(p)
    <3>1. ASSUME NEW c \in Checkout, NEW d \in Entry
          PROVE  placed'[c][d] \in {placed[c][d], "linked", "local"}
      BY <1>1, <2>2, <3>1
    <3> QED BY <3>1 DEF Places
  <2> QED BY <1>5, <2>1, <2>2
<1> QED BY <1>4, <1>6, ProvisionOrderly DEF Effects

(* The other steps of a command.                                           *)
Commanded(p) == Start(p) \/ VerifyPrepared(p) \/ Built(p) \/ Execute(p) \/ Crash(p)

(* Each of these steps (start, verify, built, execute, kill) is orderly    *)
(* and changes neither the store nor a product.                            *)
LEMMA CommandEffects ==
  ASSUME Base, NEW p \in Process, Commanded(p)
  PROVE  Effects(p)
<1>1. /\ SetupTypes /\ Locks /\ home[p] \in Checkout
      /\ assetLock \in [Checkout -> Process \cup {Nobody}]
      /\ buildLock \in [Checkout -> Process \cup {Nobody}]
  BY DEF Base, SetupTypes
<1>2. /\ UNCHANGED Elsewhere /\ storeLock' \in {storeLock, Unlocked(p)}
      /\ UNCHANGED <<placed, tables, manifest, binary, receipt>>
  BY DEF Commanded, Start, VerifyPrepared, Built, Execute, Crash, Raises, storeVars, buildVars, Elsewhere
<1>3. /\ Alone(p)
      /\ run'[p].at \in {"idle", "lock", "prepared", "lock tables", "execute"}
  BY <1>1, CommandMoves DEF Commanded, Walks, Leaves, Begins, FirstOf, Commands
<1>4. run'[p].at \notin Provisioning \cup Tabling \cup Building
  BY <1>3 DEF Provisioning, Tabling, Building, Making
<1>5. /\ assetLock' \in [Checkout -> Process \cup {Nobody}]
      /\ \A c \in Checkout : assetLock'[c] = assetLock[c] \/ (assetLock[c] = p /\ assetLock'[c] = Nobody)
  <2>1. CASE assetLock' = assetLock
    BY <1>1, <2>1
  <2>2. CASE assetLock' = [c \in Checkout |-> IF assetLock[c] = p THEN Nobody ELSE assetLock[c]]
    BY <1>1, <2>2
  <2> QED BY <2>1, <2>2 DEF Commanded, Start, VerifyPrepared, Built, Execute, Crash, buildVars
<1>6. /\ buildLock' \in [Checkout -> Process \cup {Nobody}]
      /\ \A c \in Checkout : buildLock'[c] = buildLock[c] \/ (buildLock[c] = p /\ buildLock'[c] = Nobody)
  <2>1. CASE buildLock' = buildLock
    BY <1>1, <2>1
  <2>2. CASE buildLock' = [c \in Checkout |-> IF buildLock[c] = p THEN Nobody ELSE buildLock[c]]
    BY <1>1, <2>2
  <2>3. CASE Built(p)
    <3>1. buildLock[home[p]] = p /\ buildLock' = [buildLock EXCEPT ![home[p]] = Nobody]
      BY <1>1, <2>3 DEF Built, At, Locks, Building
    <3> QED BY <1>1, <3>1
  <2> QED BY <2>1, <2>2, <2>3 DEF Commanded, Start, VerifyPrepared, Execute, Crash, buildVars
<1>7. /\ run'[p].at \in Provisioning => run[p].at \in Provisioning /\ storeLock' = storeLock
      /\ run'[p].at \in Tabling => run[p].at \in Tabling /\ assetLock' = assetLock
      /\ run'[p].at \in Building => run[p].at \in Building /\ buildLock' = buildLock
      /\ run'[p].at # "aside checkpoint" /\ run'[p].at # "aside model"
  BY <1>3, <1>4
<1>8. Orderly(p)
  BY <1>2, <1>3, <1>5, <1>6, <1>7, OwnRecordOrderly
<1>9. Makes(p)
  <2>1. run'[p].at \notin {"generate", "manifest"} /\ run'[p].at \notin Making
    BY <1>3 DEF Making
  <2> QED BY <1>2, <2>1 DEF Makes
<1>10. Places(p)
  BY <1>2 DEF Places
<1> QED BY <1>8, <1>9, <1>10 DEF Effects

(* A step is one of a command, or an edit, or damage.                      *)
Proceeds(p) ==
  Commanded(p) \/ (Provision(p) /\ UNCHANGED <<buildVars, promised>>) \/ (Build(p) /\ UNCHANGED promised)
Damage ==
  \E e \in Entry : DamageStore(e) \/ \E c \in Checkout : DamageLocal(c, e)

(* Every step of a command has these effects: it keeps the types and the   *)
(* locks, improves the store only, and makes products only at their        *)
(* points.                                                                 *)
LEMMA StepEffects ==
  ASSUME Base, NEW p \in Process, Proceeds(p)
  PROVE  Effects(p)
BY ProvisionEffects, BuildEffects, CommandEffects DEF Proceeds

(* An edit, or damage, leaves every command where it is.                   *)
Rewritten ==
  /\ home' = home /\ run' \in [Process -> RunType]
  /\ \A q \in Process :
       /\ run'[q].at = run[q].at /\ run'[q].command = run[q].command
       /\ run'[q].identity = run[q].identity /\ run'[q].read = run[q].read
       /\ run'[q].quiet => run'[q] = run[q]
       /\ run[q].since \subseteq run'[q].since

(* An edit gives the checkout other sources; its commands take note of     *)
(* them and are no longer undisturbed.                                     *)
LEMMA EditMoves ==
  ASSUME SetupTypes, NEW c \in Checkout, NEW v \in Version, Edit(c, v)
  PROVE  /\ Rewritten /\ version' = [version EXCEPT ![c] = v] /\ version' \in [Checkout -> Version]
         /\ \A q \in Process : home[q] = c => ~run'[q].quiet /\ (run[q].since # {} => v \in run'[q].since)
<1>1. run \in [Process -> RunType] /\ home' = home /\ version \in [Checkout -> Version]
      /\ version' = [version EXCEPT ![c] = v]
  BY DEF Edit, storeVars, SetupTypes
<1>2. ASSUME NEW q \in Process
      PROVE  /\ run'[q] \in RunType
             /\ run'[q].at = run[q].at /\ run'[q].command = run[q].command
             /\ run'[q].identity = run[q].identity /\ run'[q].read = run[q].read
             /\ run'[q].quiet => run'[q] = run[q]
             /\ run[q].since \subseteq run'[q].since
             /\ home[q] = c => ~run'[q].quiet /\ (run[q].since # {} => v \in run'[q].since)
  <2>1. PICK r \in RunType : r = run[q]
    BY <1>1
  <2>2. CASE home[q] # c
    <3>1. run'[q] = r
      BY <1>1, <2>1, <2>2 DEF Edit
    <3> QED BY <2>1, <2>2, <3>1
  <2>3. CASE home[q] = c
    <3>1. PICK since \in SUBSET Version : since = IF r.since = {} THEN {} ELSE r.since \cup {v}
      BY DEF RunType
    <3>2. PICK e : e = [r EXCEPT !.since = since, !.quiet = FALSE]
      OBVIOUS
    <3>3. run'[q] = e
      BY <1>1, <2>1, <2>3, <3>1, <3>2 DEF Edit, RunType
    <3>4. e \in RunType
      BY <3>2 DEF RunType
    <3>5. /\ e.at = r.at /\ e.command = r.command /\ e.identity = r.identity /\ e.read = r.read
          /\ ~e.quiet /\ e.since = since
      BY <3>2 DEF RunType
    <3> QED BY <2>1, <3>1, <3>3, <3>4, <3>5
  <2> QED BY <2>2, <2>3
<1>3. run' = [q \in Process |-> run'[q]]
  BY DEF Edit
<1>4. run' \in [Process -> RunType]
  BY <1>2, <1>3
<1>5. version' \in [Checkout -> Version]
  BY <1>1
<1> QED BY <1>1, <1>2, <1>4, <1>5 DEF Rewritten

(* Damage to a file leaves every command disturbed, and where it is.       *)
LEMMA DamageMoves ==
  ASSUME SetupTypes, Damage
  PROVE  /\ Rewritten /\ version' = version
         /\ \A q \in Process : ~run'[q].quiet /\ run'[q].since = run[q].since
<1>1. run \in [Process -> RunType] /\ home' = home /\ version' = version /\ run' = Disturbed
  BY DEF Damage, DamageStore, DamageLocal, buildVars, SetupTypes
<1>2. ASSUME NEW q \in Process
      PROVE  /\ run'[q] \in RunType
             /\ run'[q].at = run[q].at /\ run'[q].command = run[q].command
             /\ run'[q].identity = run[q].identity /\ run'[q].read = run[q].read
             /\ ~run'[q].quiet /\ run'[q].since = run[q].since
  <2>1. PICK r \in RunType : r = run[q]
    BY <1>1
  <2>2. PICK e : e = [r EXCEPT !.quiet = FALSE]
    OBVIOUS
  <2>3. run'[q] = e
    BY <1>1, <2>1, <2>2 DEF Disturbed
  <2>4. e \in RunType
    BY <2>2 DEF RunType
  <2>5. /\ e.at = r.at /\ e.command = r.command /\ e.identity = r.identity /\ e.read = r.read
        /\ ~e.quiet /\ e.since = r.since
    BY <2>2 DEF RunType
  <2> QED BY <2>1, <2>3, <2>4, <2>5
<1>3. run' = [q \in Process |-> run'[q]]
  BY <1>1 DEF Disturbed
<1>4. run' \in [Process -> RunType]
  BY <1>2, <1>3
<1> QED BY <1>1, <1>2, <1>4 DEF Rewritten

(* At first types, locks and looks are in order: nobody holds a lock or    *)
(* works.                                                                  *)
LEMMA BaseInit ==
  ASSUME SetupInit
  PROVE  Base
<1>1. Idle \in RunType /\ Idle.at = "idle"
  BY BuildAssumption DEF Idle, RunType, Contents, Phases
<1>2. NoRecord \in Record /\ None \in SUBSET Version /\ 1 \in Version
  BY BuildAssumption DEF NoRecord, Record, None, Version
<1>3. run = [p \in Process |-> Idle] /\ stored = [e \in Entry |-> Absent] /\ placed \in [Checkout -> Layouts]
      /\ storeLock = Nobody /\ home \in [Process -> Checkout]
  BY DEF SetupInit, StoreInit
<1>4. \A p \in Process : run[p].at = "idle"
  BY <1>1, <1>3
<1> HIDE DEF Idle, NoRecord, None
<1>5. SetupTypes
  BY <1>1, <1>2, <1>3, StoreAssumption DEF SetupTypes, SetupInit, BuildInit, Contents
<1>6. Locks /\ Unverified
  BY <1>4 DEF Locks, Unverified, Provisioning, Tabling, Building, Making, At
<1> QED BY <1>5, <1>6 DEF Base

(* A step that leaves commands where they are keeps what Base says.        *)
LEMMA RewrittenKeeps ==
  ASSUME Base, Rewritten, UNCHANGED <<storeLock, assetLock, buildLock>>,
         stored' \in [Entry -> Contents], placed' \in [Checkout -> [Entry -> Place]],
         version' \in [Checkout -> Version], UNCHANGED <<tables, manifest, binary, receipt>>,
         \A e \in Entry : stored'[e] = Valid => stored[e] = Valid
  PROVE  Base'
<1>1. SetupTypes /\ Locks /\ Unverified
  BY DEF Base
<1>2. SetupTypes'
  BY <1>1 DEF SetupTypes, Rewritten
<1>3. Locks'
  <2>1. storeLock' = storeLock /\ assetLock' = assetLock /\ buildLock' = buildLock /\ home' = home
        /\ \A q \in Process : run'[q].at = run[q].at
    BY DEF Rewritten
  <2> QED BY <1>1, <2>1 DEF Locks
<1>4. Unverified'
  BY <1>1 DEF Unverified, Rewritten, At, Entry
<1> QED BY <1>2, <1>3, <1>4 DEF Base

(* Every step, of a command, of an editor or damage, keeps types, locks    *)
(* and looks.                                                              *)
LEMMA BaseStep ==
  ASSUME Base, [SetupNext]_setupVars
  PROVE  Base'
<1>1. SetupTypes
  BY DEF Base
<1>2. CASE \E p \in Process : Proceeds(p)
  <2>1. PICK p \in Process : Proceeds(p)
    BY <1>2
  <2> QED BY <2>1, StepEffects, OrderlyKeeps DEF Effects
<1>3. ASSUME NEW c \in Checkout, NEW v \in Version, Edit(c, v) PROVE Base'
  <2>1. UNCHANGED <<storeLock, assetLock, buildLock>> /\ UNCHANGED <<stored, placed>>
        /\ UNCHANGED <<tables, manifest, binary, receipt>>
    BY <1>3 DEF Edit, storeVars
  <2>2. Rewritten /\ version' \in [Checkout -> Version]
    BY <1>1, <1>3, EditMoves
  <2>3. stored' \in [Entry -> Contents] /\ placed' \in [Checkout -> [Entry -> Place]]
        /\ \A e \in Entry : stored'[e] = Valid => stored[e] = Valid
    BY <1>1, <2>1 DEF SetupTypes
  <2> QED BY <2>1, <2>2, <2>3, RewrittenKeeps
<1>4. CASE Damage
  <2>1. UNCHANGED <<storeLock, assetLock, buildLock>> /\ UNCHANGED <<tables, manifest, binary, receipt>>
    BY <1>4 DEF Damage, DamageStore, DamageLocal, buildVars
  <2>2. Rewritten /\ version' \in [Checkout -> Version]
    BY <1>1, <1>4, DamageMoves DEF SetupTypes
  <2>3. stored' \in [Entry -> Contents] /\ \A e \in Entry : stored'[e] = Valid => stored[e] = Valid
    <3>1. stored' = stored \/ \E e \in Entry : stored' = [stored EXCEPT ![e] = Invalid]
      BY <1>4 DEF Damage, DamageStore, DamageLocal
    <3> QED BY <1>1, <3>1 DEF SetupTypes, Contents, Valid, Invalid
  <2>4. placed' \in [Checkout -> [Entry -> Place]]
    <3>1. placed' = placed \/ \E c \in Checkout, e \in Entry : placed' = [placed EXCEPT ![c][e] = "spoiled"]
      BY <1>4 DEF Damage, DamageStore, DamageLocal
    <3>2. ASSUME NEW c \in Checkout, NEW e \in Entry, placed' = [placed EXCEPT ![c][e] = "spoiled"]
          PROVE  placed' \in [Checkout -> [Entry -> Place]]
      <4>1. "spoiled" \in Place /\ placed \in [Checkout -> [Entry -> Place]]
        BY <1>1 DEF Place, SetupTypes
      <4> QED BY <3>2, <4>1
    <3>3. placed \in [Checkout -> [Entry -> Place]]
      BY <1>1 DEF SetupTypes
    <3> QED BY <3>1, <3>2, <3>3
  <2> QED BY <2>1, <2>2, <2>3, <2>4, RewrittenKeeps
<1>5. CASE UNCHANGED setupVars
  <2>1. UNCHANGED <<stored, placed, storeLock, home, run, version, tables, manifest, binary, receipt,
                    assetLock, buildLock>>
    BY <1>5 DEF setupVars, storeVars, buildVars
  <2> QED BY <2>1 DEF Base, SetupTypes, Locks, Unverified, At
<1> QED BY <1>2, <1>3, <1>4, <1>5 DEF SetupNext, Proceeds, Commanded, Damage

(* Types and locks: whoever provisions the store, makes tables or makes a  *)
(* binary holds the file lock of what it makes (runtime/artifacts.py), and *)
(* what a setup is about to set aside does not verify.                     *)
THEOREM SetupOrder == SetupSpec => []Base
<1> QED BY BaseInit, BaseStep, PTL DEF SetupSpec

(* The count of crashes and damages is a number.                           *)
Counted == faults \in Nat

(* The counter stays a number, so that a crash or a damage always shows in *)
(* it.                                                                     *)
LEMMA FaultsCount == SetupSpec => []Counted
<1>1. SetupInit => Counted
  BY DEF SetupInit, StoreInit, Counted
<1>2. ASSUME Counted, [SetupNext]_setupVars
      PROVE  Counted'
  <2>1. ASSUME NEW p \in Process, Provision(p) PROVE faults' = faults
    BY <2>1 DEF Provision, Refuse, LockStore, ExamineCheckpoint, SetAsideCheckpoint, ImportCheckpoint,
                DownloadCheckpoint, PublishCheckpoint, ExamineModel, SetAsideModel, ImportModel,
                BeginPrepare, PrepareModel, PublishModel, Seal, LookAtLink, ReplaceLink
  <2>2. ASSUME NEW p \in Process, Build(p) PROVE faults' = faults
    BY <2>2 DEF Build, EnsureSource, Download, KeepTables, StartGenerator, WriteTables, WriteManifest,
                CheckTables, LockBuild, Compile, CompareSources, ReplaceBinary, WriteReceipt
  <2>3. ASSUME NEW p \in Process, Commanded(p) PROVE faults' \in {faults, faults + 1}
    BY <2>3 DEF Commanded, Start, VerifyPrepared, Built, Execute, Crash
  <2>4. ASSUME NEW c \in Checkout, NEW v \in Version, Edit(c, v) PROVE faults' = faults
    BY <2>4 DEF Edit
  <2>5. Damage => faults' = faults + 1
    BY DEF Damage, DamageStore, DamageLocal
  <2>6. UNCHANGED setupVars => faults' = faults
    BY DEF setupVars
  <2> QED BY <1>2, <2>1, <2>2, <2>3, <2>4, <2>5, <2>6 DEF Counted, SetupNext, Commanded, Damage
<1> QED BY <1>1, <1>2, PTL DEF SetupSpec

(* StoreOnlyImproves: unless a file is damaged, no step removes or         *)
(* overwrites a valid entry of the store, and what gets a final name is    *)
(* valid, however many setups run and wherever they are killed.            *)
THEOREM StoreImproves == SetupSpec => StoreOnlyImproves
<1>1. ASSUME Base, Counted, [SetupNext]_setupVars, faults' = faults, NEW e \in Entry
      PROVE  /\ stored[e] = Valid => stored'[e] = Valid
             /\ stored'[e] # stored[e] => stored'[e] \in {Absent, Valid}
  <2>1. CASE \E p \in Process : Proceeds(p)
    BY <1>1, <2>1, StepEffects DEF Effects, Orderly, StoreMoves
  <2>2. ASSUME NEW c \in Checkout, NEW v \in Version, Edit(c, v) PROVE stored' = stored
    BY <2>2 DEF Edit, storeVars
  <2>3. ~Damage
    BY <1>1 DEF Counted, Damage, DamageStore, DamageLocal
  <2>4. UNCHANGED setupVars => stored' = stored
    BY DEF setupVars, storeVars
  <2> QED BY <1>1, <2>1, <2>2, <2>3, <2>4 DEF SetupNext, Proceeds, Commanded, Damage
<1>2. Base /\ Counted /\ [SetupNext]_setupVars =>
        [faults' = faults => \A e \in Entry :
           /\ stored[e] = Valid => stored'[e] = Valid
           /\ stored'[e] # stored[e] => stored'[e] \in {Absent, Valid}]_setupVars
  BY <1>1
<1> QED BY <1>2, SetupOrder, FaultsCount, PTL DEF SetupSpec, StoreOnlyImproves
-----------------------------------------------------------------------------
(* A command that goes on keeps the sources that count as fresh for it.    *)
LEMMA FreshWalks ==
  ASSUME NEW p \in Process, NEW x, Walks(p, x), NEW v, Fresh(p, v)
  PROVE  run'[p].command = "setup" \/ v \in run'[p].since
BY DEF Walks, Fresh

(* Tables that count as valid, and a binary that counts as current, are    *)
(* made of the sources at hand, when what their records say was made is of *)
(* one version.                                                            *)
LEMMA ValidIsOwn ==
  ASSUME SetupTypes, NEW c \in Checkout
  PROVE  /\ PreparedValid(c) /\ OneVersion(manifest[c]) => tables[c] = {version[c]}
         /\ Current(c, version[c]) /\ OneVersion(receipt[c]) => binary[c] = {version[c]}
<1>1. ASSUME PreparedValid(c), OneVersion(manifest[c]) PROVE tables[c] = {version[c]}
  <2>1. manifest[c].sources = version[c] /\ manifest[c].content = tables[c] /\ tables[c] # {}
    BY <1>1 DEF PreparedValid, None
  <2> QED BY <1>1, <2>1 DEF OneVersion
<1>2. ASSUME Current(c, version[c]), OneVersion(receipt[c]) PROVE binary[c] = {version[c]}
  <2>1. receipt[c].sources = version[c] /\ receipt[c].content = binary[c] /\ binary[c] # {}
    BY <1>2 DEF Current, None
  <2> QED BY <1>2, <2>1 DEF OneVersion
<1> QED BY <1>1, <1>2

(* What freshness says of one command, and where it says more of it than   *)
(* that the sources at hand are fresh.                                     *)
Special == {"generate", "manifest"} \cup HasTables
OwnFresh(p) == MadeFromOne(p) /\ FreshMakings(p)

(* A step to a phase where the command neither makes nor has anything      *)
(* keeps what freshness says of it: only the sources at hand have to be    *)
(* fresh.                                                                  *)
LEMMA PlainFresh ==
  ASSUME NEW p \in Process, OwnFresh(p), NEW x, Walks(p, x), x \notin Special, ~At(p, "idle")
  PROVE  OwnFresh(p)'
<1>1. home' = home /\ version' = version /\ run'[p].at = x
  BY DEF Walks, Alone
<1>2. run'[p].command = "setup" \/ version[home[p]] \in run'[p].since
  BY FreshWalks DEF OwnFresh, FreshMakings
<1>3. x \notin Making /\ x \notin {"compile", "compiled", "replace", "receipt", "built", "execute", "generate", "manifest"}
  BY DEF Special, HasTables, Building, Making
<1>4. MadeFromOne(p)'
  BY <1>1, <1>3 DEF MadeFromOne, At
<1>5. FreshMakings(p)'
  BY <1>1, <1>2, <1>3 DEF FreshMakings, At, Fresh, Special
<1> QED BY <1>4, <1>5 DEF OwnFresh

(* Of a command that has ended freshness says nothing.                     *)
LEMMA NothingFresh ==
  ASSUME NEW p \in Process, run'[p].at = "idle"
  PROVE  OwnFresh(p)'
<1>1. "idle" \notin Making /\ "idle" \notin HasTables
  BY DEF HasTables, Building, Making
<1> QED BY <1>1 DEF OwnFresh, MadeFromOne, FreshMakings, At

(* Setup in the store keeps what freshness says of its own command.        *)
LEMMA ProvisionFresh ==
  ASSUME Base, NEW p \in Process, OwnFresh(p), Provision(p), UNCHANGED buildVars
  PROVE  OwnFresh(p)'
<1>1. SetupTypes /\ version' = version
  BY DEF Base, buildVars
<1>2. Provisioning \cap Special = {} /\ "lock tables" \notin Special
  BY DEF Provisioning, Special, HasTables, Building, Making
<1>3. ~At(p, "idle")
  <2>1. ASSUME NEW link \in Links, LookAtLink(p, link) \/ ReplaceLink(p, link) PROVE ~At(p, "idle")
    <3>1. LinkPhases(link)
      BY <1>1, LinkMoves
    <3> QED BY <2>1, <3>1 DEF LinkPhases, LookAtLink, ReplaceLink, At
  <2> QED BY <2>1 DEF Provision, Refuse, LockStore, ExamineCheckpoint, SetAsideCheckpoint, ImportCheckpoint,
                DownloadCheckpoint, PublishCheckpoint, ExamineModel, SetAsideModel, ImportModel,
                BeginPrepare, PrepareModel, PublishModel, Seal, At
<1>4. Leaves(p) \/ \E x \in Provisioning \cup {"lock tables"} : Walks(p, x)
  <2>1. CASE \E link \in Links : LookAtLink(p, link) \/ ReplaceLink(p, link)
    <3>1. PICK link \in Links : LookAtLink(p, link) \/ ReplaceLink(p, link)
      BY <2>1
    <3>2. LinkPhases(link) /\ (Leaves(p) \/ Walks(p, link.next) \/ Walks(p, link.replace))
      BY <1>1, <3>1, LinkMoves
    <3>3. {link.next, link.replace} \subseteq Provisioning \cup {"lock tables"}
      BY <3>2 DEF LinkPhases, Provisioning
    <3> QED BY <3>2, <3>3
  <2>2. CASE ~\E link \in Links : LookAtLink(p, link) \/ ReplaceLink(p, link)
    BY <1>1, <2>2, ProvisionMoves DEF Provision, Provisioning
  <2> QED BY <2>1, <2>2
<1>5. CASE Leaves(p)
  BY <1>5, NothingFresh DEF Leaves
<1>6. CASE \E x \in Provisioning \cup {"lock tables"} : Walks(p, x)
  BY <1>2, <1>3, <1>6, PlainFresh
<1> QED BY <1>4, <1>5, <1>6

(* So do a command's own steps: it starts with the sources of its          *)
(* checkout, and executes what it has built when nobody makes another      *)
(* binary.                                                                 *)
LEMMA CommandFresh ==
  ASSUME Base, NEW p \in Process, OwnFresh(p), Commanded(p)
  PROVE  OwnFresh(p)'
<1>1. SetupTypes /\ Locks /\ home[p] \in Checkout
  BY DEF Base, SetupTypes
<1>2. CASE Leaves(p)
  BY <1>2, NothingFresh DEF Leaves
<1>3. CASE Start(p)
  <2>1. /\ Alone(p) /\ run'[p].command \in Commands /\ run'[p].at = FirstOf(run'[p].command)
        /\ run'[p].command # "setup" => run'[p].since = {version[home[p]]}
    BY <1>1, <1>3, CommandMoves DEF Begins
  <2>2. run'[p].at \in {"lock", "prepared", "lock tables"}
    BY <2>1 DEF FirstOf, Commands
  <2>3. /\ run'[p].at \notin Making /\ run'[p].at \notin HasTables
        /\ run'[p].at \notin {"compile", "compiled", "replace", "receipt", "built", "execute", "generate", "manifest"}
    BY <2>2 DEF HasTables, Building, Making
  <2>4. MadeFromOne(p)'
    BY <2>3 DEF MadeFromOne, At
  <2>5. FreshMakings(p)'
    BY <2>1, <2>3 DEF FreshMakings, At, Fresh, Alone
  <2> QED BY <2>4, <2>5 DEF OwnFresh
<1>4. CASE VerifyPrepared(p) /\ Walks(p, "lock tables")
  <2>1. "lock tables" \notin Special /\ ~At(p, "idle")
    BY <1>4 DEF Special, HasTables, Building, Making, VerifyPrepared, At
  <2> QED BY <1>4, <2>1, PlainFresh
<1>5. CASE Built(p) /\ run[p].command # "setup" /\ Walks(p, "execute")
  <2>1. /\ home' = home /\ version' = version /\ run'[p].at = "execute" /\ run[p].at = "built"
        /\ tables' = tables /\ binary' = binary /\ run'[p].command # "setup"
    BY <1>5 DEF Walks, Alone, Built, At
  <2>2. "execute" \notin Making /\ {"built", "execute"} \subseteq HasTables /\ "built" \in Building
    BY DEF HasTables, Building, Making
  <2>3. /\ Fresh(p, version[home[p]])
        /\ \E v \in Version : tables[home[p]] = {v} /\ Fresh(p, v)
        /\ \E v \in Version : binary[home[p]] = {v} /\ Fresh(p, v)
    BY <2>1, <2>2 DEF OwnFresh, FreshMakings, At
  <2>4. ASSUME NEW q \in Process, home[q] = home[p], run'[q].at \in Making PROVE FALSE
    <3>1. q # p /\ run[q].at \in Building
      BY <1>5, <2>1, <2>2, <2>4 DEF Walks, Alone, Building
    <3> QED BY <1>1, <2>1, <2>2, <2>4, <3>1 DEF Locks
  <2>5. MadeFromOne(p)'
    BY <2>1 DEF MadeFromOne, At
  <2>6. \A v : Fresh(p, v) => run'[p].command = "setup" \/ v \in run'[p].since
    BY <1>5, FreshWalks
  <2>7. FreshMakings(p)'
    <3>1. Fresh(p, version[home[p]])'
      BY <2>1, <2>3, <2>6 DEF Fresh
    <3>2. (\E v \in Version : tables[home[p]] = {v} /\ Fresh(p, v))'
      BY <2>1, <2>3, <2>6 DEF Fresh
    <3>3. (\E v \in Version : binary[home[p]] = {v} /\ Fresh(p, v))'
      BY <2>1, <2>3, <2>6 DEF Fresh
    <3>4. (\A q \in Process : home[q] = home[p] /\ run[q].at \in Making => Fresh(p, run[q].identity))'
      BY <2>1, <2>4
    <3> QED BY <2>1, <2>2, <3>1, <3>2, <3>3, <3>4 DEF FreshMakings, At
  <2> QED BY <2>5, <2>7 DEF OwnFresh
<1> QED BY <1>1, <1>2, <1>3, <1>4, <1>5, CommandMoves DEF Commanded

(* So does what ensure_prepared and ensure_binary do: tables and binary    *)
(* are made of one version, read after the command began, and recorded as  *)
(* such.                                                                   *)
LEMMA BuildFresh ==
  ASSUME Base, NEW p \in Process, Freshness, Build(p)
  PROVE  OwnFresh(p)'
<1>1. /\ SetupTypes /\ home[p] \in Checkout /\ run[p] \in RunType /\ version[home[p]] \in Version
      /\ OneVersion(manifest[home[p]]) /\ OneVersion(receipt[home[p]])
      /\ tables \in [Checkout -> SUBSET Version] /\ binary \in [Checkout -> SUBSET Version]
  BY DEF Base, SetupTypes, Freshness
<1>2. OwnFresh(p) /\ MadeFromOne(p) /\ FreshMakings(p)
  BY DEF Freshness, OwnFresh
<1>3. CASE Leaves(p)
  BY <1>3, NothingFresh DEF Leaves
<1>4. /\ {"tables", "download", "check tables"} \cap Special = {}
      /\ {"generate", "manifest"} \cap HasTables = {} /\ {"generate", "manifest"} \cap Making = {}
      /\ {"lock binary", "compile", "compiled", "replace", "receipt", "built"} \subseteq HasTables
      /\ "lock binary" \notin Making /\ "built" \notin Making
      /\ {"compile", "compiled", "replace", "receipt"} = Making
  BY DEF Special, HasTables, Building, Making
<1>5. ~At(p, "idle") /\ Fresh(p, version[home[p]])
  <2>1. ~At(p, "idle")
    BY DEF Build, EnsureSource, Download, KeepTables, StartGenerator, WriteTables, WriteManifest,
           CheckTables, LockBuild, Compile, CompareSources, ReplaceBinary, WriteReceipt, At
  <2> QED BY <1>2, <2>1 DEF FreshMakings
<1>6. ASSUME NEW x \in {"tables", "download", "check tables"}, Walks(p, x) PROVE OwnFresh(p)'
  BY <1>2, <1>4, <1>5, <1>6, PlainFresh
<1>7. CASE Walks(p, "generate") /\ run'[p].read = {version[home[p]]}
  <2>1. home' = home /\ version' = version /\ run'[p].at = "generate"
        /\ (run'[p].command = "setup" \/ version[home[p]] \in run'[p].since)
    BY <1>5, <1>7, FreshWalks DEF Walks, Alone
  <2> QED BY <1>4, <1>7, <2>1 DEF OwnFresh, MadeFromOne, FreshMakings, At, Fresh
<1>8. CASE Walks(p, "manifest") /\ run'[p].identity = version[home[p]] /\ run'[p].read = run[p].read /\ At(p, "generate")
  <2>1. home' = home /\ version' = version /\ run'[p].at = "manifest"
        /\ (run'[p].command = "setup" \/ version[home[p]] \in run'[p].since)
    BY <1>5, <1>8, FreshWalks DEF Walks, Alone
  <2>2. run'[p].read = {run'[p].identity}
    BY <1>2, <1>8 DEF MadeFromOne
  <2> QED BY <1>4, <2>1, <2>2 DEF OwnFresh, MadeFromOne, FreshMakings, At, Fresh
<1>9. ASSUME Walks(p, "lock binary"), tables' = tables, PreparedValid(home[p])
      PROVE  OwnFresh(p)'
  <2>1. home' = home /\ version' = version /\ run'[p].at = "lock binary"
        /\ (run'[p].command = "setup" \/ version[home[p]] \in run'[p].since)
    BY <1>5, <1>9, FreshWalks DEF Walks, Alone
  <2>2. tables'[home[p]] = {version[home[p]]}
    BY <1>1, <1>9, ValidIsOwn
  <2>3. (\E v \in Version : tables[home[p]] = {v} /\ Fresh(p, v))'
    BY <1>1, <2>1, <2>2 DEF Fresh
  <2>4. MadeFromOne(p)'
    BY <2>1 DEF MadeFromOne, At
  <2>5. FreshMakings(p)'
    BY <1>4, <2>1, <2>3 DEF FreshMakings, At, Fresh
  <2> QED BY <2>4, <2>5 DEF OwnFresh
(* Under the lock of the binary the tables are there, and stay.            *)
<1>10. ASSUME NEW x \in Building, Walks(p, x), run[p].at \in HasTables, tables' = tables, MadeFromOne(p)',
              x \in Making => Fresh(p, run'[p].identity),
              x = "built" => \E v \in Version : binary'[home[p]] = {v} /\ Fresh(p, v)
       PROVE  OwnFresh(p)'
  <2>1. home' = home /\ version' = version /\ run'[p].at = x /\ x # "execute"
    BY <1>10 DEF Walks, Alone, Building, Making
  <2>2. \A v : Fresh(p, v) => run'[p].command = "setup" \/ v \in run'[p].since
    BY <1>10, FreshWalks
  <2>3. (\E v \in Version : tables[home[p]] = {v} /\ Fresh(p, v))'
    BY <1>2, <1>10, <2>1, <2>2 DEF FreshMakings, Fresh
  <2>4. Fresh(p, version[home[p]])' /\ (x \in Making => Fresh(p, run[p].identity)')
    BY <1>5, <1>10, <2>1, <2>2 DEF Fresh
  <2>5. x = "built" => (\E v \in Version : binary[home[p]] = {v} /\ Fresh(p, v))'
    BY <1>10, <2>1, <2>2 DEF Fresh
  <2>6. FreshMakings(p)'
    BY <2>1, <2>3, <2>4, <2>5 DEF FreshMakings, At
  <2> QED BY <1>10, <2>6 DEF OwnFresh
<1>11. /\ run[p].identity \in 0 .. MaxVersion /\ run[p].read \in SUBSET Version
       /\ Making \subseteq Building /\ "built" \in Building
  BY <1>1 DEF RunType, Building
<1>12. ASSUME LockBuild(p) PROVE OwnFresh(p)'
  <2>1. tables' = tables /\ binary' = binary /\ run[p].at \in HasTables
    BY <1>4, <1>12 DEF LockBuild, At
  <2>2. CASE Walks(p, "built") /\ Current(home[p], version[home[p]])
    <3>1. binary'[home[p]] = {version[home[p]]}
      BY <1>1, <2>1, <2>2, ValidIsOwn
    <3>2. MadeFromOne(p)'
      BY <2>2 DEF MadeFromOne, At, Walks
    <3> QED BY <1>1, <1>4, <1>5, <1>10, <1>11, <2>1, <2>2, <3>1, <3>2
  <2>3. CASE Walks(p, "compile") /\ run'[p].identity = version[home[p]]
    <3>1. MadeFromOne(p)'
      BY <1>1, <2>3 DEF MadeFromOne, At, Walks, Alone, Version
    <3> QED BY <1>4, <1>5, <1>10, <1>11, <2>1, <2>3, <3>1
  <2> QED BY <1>1, <1>12, <2>2, <2>3, BuildMoves
<1>13. ASSUME Compile(p) PROVE OwnFresh(p)'
  <2>1. tables' = tables /\ run[p].at = "compile"
    BY <1>13 DEF Compile, At
  <2>2. CASE Walks(p, "compiled") /\ run'[p].identity = run[p].identity /\ run'[p].read = {version[home[p]]}
    <3>1. MadeFromOne(p)'
      <4>1. run[p].identity <= version[home[p]] /\ version[home[p]] <= version[home[p]]
        BY <1>1, <1>2, <2>1 DEF MadeFromOne, At, Version
      <4>2. home' = home /\ version' = version /\ run'[p].at = "compiled"
        BY <2>2 DEF Walks, Alone
      <4> QED BY <1>1, <2>2, <4>1, <4>2 DEF MadeFromOne, At
    <3>2. Fresh(p, run[p].identity)
      BY <1>2, <1>4, <2>1 DEF FreshMakings
    <3> QED BY <1>4, <1>10, <1>11, <2>1, <2>2, <3>1, <3>2
  <2> QED BY <1>1, <1>3, <1>13, <2>2, BuildMoves
<1>14. ASSUME CompareSources(p) PROVE OwnFresh(p)'
  <2>1. tables' = tables /\ run[p].at = "compiled"
    BY <1>14 DEF CompareSources, At
  <2>2. CASE /\ Walks(p, "replace") /\ run[p].identity = version[home[p]]
             /\ run'[p].identity = run[p].identity /\ run'[p].read = run[p].read \cup {version[home[p]]}
    <3>1. run'[p].read = {run'[p].identity}
      <4>1. PICK v \in Version : run[p].read = {v} /\ run[p].identity <= v /\ v <= version[home[p]]
        BY <1>2, <2>1 DEF MadeFromOne, At
      <4>2. v = version[home[p]]
        BY <1>1, <2>2, <4>1 DEF Version
      <4> QED BY <2>2, <4>1, <4>2
    <3>2. MadeFromOne(p)'
      BY <2>2, <3>1 DEF MadeFromOne, At, Walks
    <3>3. Fresh(p, run[p].identity)
      BY <1>2, <1>4, <2>1 DEF FreshMakings
    <3> QED BY <1>4, <1>10, <1>11, <2>1, <2>2, <3>2, <3>3
  <2> QED BY <1>1, <1>3, <1>14, <2>2, BuildMoves
<1>15. ASSUME ReplaceBinary(p) PROVE OwnFresh(p)'
  <2>1. tables' = tables /\ run[p].at = "replace" /\ binary' = [binary EXCEPT ![home[p]] = run[p].read]
    BY <1>15 DEF ReplaceBinary, At
  <2>2. Walks(p, "receipt") /\ run'[p].identity = run[p].identity /\ run'[p].read = run[p].read
    BY <1>1, <1>15, BuildMoves
  <2>3. run[p].read = {run[p].identity} /\ Fresh(p, run[p].identity)
    BY <1>2, <1>4, <2>1 DEF MadeFromOne, FreshMakings
  <2>4. MadeFromOne(p)'
    BY <1>1, <2>1, <2>2, <2>3 DEF MadeFromOne, At, Walks, Alone
  <2> QED BY <1>4, <1>10, <1>11, <2>1, <2>2, <2>3, <2>4
<1>16. ASSUME WriteReceipt(p) PROVE OwnFresh(p)'
  <2>1. tables' = tables /\ run[p].at = "receipt" /\ binary' = binary
    BY <1>16 DEF WriteReceipt, At
  <2>2. Walks(p, "built")
    BY <1>1, <1>16, BuildMoves
  <2>3. binary[home[p]] = {run[p].identity} /\ Fresh(p, run[p].identity)
    BY <1>2, <1>4, <2>1 DEF MadeFromOne, FreshMakings, At
  <2>4. run[p].identity \in Version
    BY <1>1, <2>3
  <2>5. MadeFromOne(p)'
    BY <2>2 DEF MadeFromOne, At, Walks
  <2> QED BY <1>4, <1>10, <1>11, <2>1, <2>2, <2>3, <2>4, <2>5
<1>17. EnsureSource(p) \/ Download(p) \/ WriteManifest(p) => OwnFresh(p)'
  BY <1>1, <1>3, <1>6, BuildMoves
<1>18. KeepTables(p) \/ CheckTables(p) => OwnFresh(p)'
  BY <1>1, <1>3, <1>9, BuildMoves DEF KeepTables, CheckTables
<1>19. StartGenerator(p) \/ WriteTables(p) => OwnFresh(p)'
  BY <1>1, <1>3, <1>7, <1>8, BuildMoves DEF WriteTables
<1> QED BY <1>12, <1>13, <1>14, <1>15, <1>16, <1>17, <1>18, <1>19 DEF Build

(* A step of one command leaves the others what they have, or gives them   *)
(* what is as fresh.                                                       *)
LEMMA OthersFresh ==
  ASSUME Base, Freshness, NEW p \in Process, Effects(p), OwnFresh(p)', NEW q \in Process, q # p
  PROVE  OwnFresh(q)'
<1>1. /\ Locks /\ SetupTypes /\ Alone(p) /\ Makes(p) /\ LocksMove(p) /\ home[q] \in Checkout
      /\ OwnFresh(p) /\ OwnFresh(q) /\ version[home[q]] \in Version
  BY DEF Base, Effects, Orderly, Freshness, OwnFresh, SetupTypes
<1>2. home' = home /\ version' = version /\ run'[q] = run[q]
  BY <1>1 DEF Alone
<1>3. "generate" \in Tabling /\ Making \subseteq Building /\ {"replace", "receipt"} \subseteq Making
  BY DEF Tabling, Building, Making
<1>4. run[q].at \in Building => binary'[home[q]] = binary[home[q]]
  BY <1>1, <1>3 DEF Locks, Makes, At
<1>5. MadeFromOne(q)'
  BY <1>1, <1>2, <1>3, <1>4 DEF OwnFresh, MadeFromOne, At, Making, Building
<1>6. /\ tables'[home[q]] = tables[home[q]] \/ tables'[home[q]] = {version[home[q]]}
  BY <1>1 DEF Makes, OwnFresh, MadeFromOne
<1>7. ASSUME run[q].at \in HasTables PROVE (\E v \in Version : tables[home[q]] = {v} /\ Fresh(q, v))'
  <2>1. /\ Fresh(q, version[home[q]])
        /\ \E v \in Version : tables[home[q]] = {v} /\ Fresh(q, v)
    BY <1>1, <1>7 DEF OwnFresh, FreshMakings, At, HasTables, Building, Making
  <2> QED BY <1>1, <1>2, <1>6, <2>1 DEF Fresh
<1>8. ASSUME At(q, "execute"), NEW r \in Process, home[r] = home[q], run'[r].at \in Making
      PROVE  Fresh(q, run'[r].identity)
  <2>1. \A s \in Process : home[s] = home[q] /\ run[s].at \in Making => Fresh(q, run[s].identity)
    BY <1>1, <1>8 DEF OwnFresh, FreshMakings
  <2>2. CASE r # p
    BY <1>1, <1>8, <2>1, <2>2 DEF Alone
  <2>3. CASE r = p
    <3>1. Fresh(q, version[home[q]])
      BY <1>1, <1>8 DEF OwnFresh, FreshMakings, At
    <3> QED BY <1>1, <1>8, <2>1, <2>3, <3>1 DEF Makes
  <2> QED BY <2>2, <2>3
<1>9. ASSUME run[q].at \in {"built", "execute"} PROVE (\E v \in Version : binary[home[q]] = {v} /\ Fresh(q, v))'
  <2>1. \E v \in Version : binary[home[q]] = {v} /\ Fresh(q, v)
    BY <1>1, <1>9 DEF OwnFresh, FreshMakings
  <2>2. CASE binary'[home[q]] = binary[home[q]]
    BY <1>2, <2>1, <2>2 DEF Fresh
  <2>3. CASE binary'[home[q]] # binary[home[q]]
    <3>1. home[p] = home[q] /\ run[p].at = "replace" /\ binary'[home[q]] = run[p].read
      BY <1>1, <2>3 DEF Makes, At
    <3>2. At(q, "execute")
      BY <1>4, <1>9, <2>3 DEF At, Building
    <3>3. Fresh(q, run[p].identity) /\ run[p].read = {run[p].identity}
      BY <1>1, <1>3, <3>1, <3>2 DEF OwnFresh, FreshMakings, MadeFromOne
    <3>4. run[p].identity \in Version
      <4>1. run[p] \in RunType
        BY <1>1 DEF SetupTypes
      <4> QED BY <3>3, <4>1 DEF RunType
    <3> QED BY <1>2, <3>1, <3>3, <3>4 DEF Fresh
  <2> QED BY <2>2, <2>3
<1>10. FreshMakings(q)'
  <2>1. (~At(q, "idle") => Fresh(q, version[home[q]]))' /\ (run[q].at \in Making => Fresh(q, run[q].identity))'
        /\ (At(q, "execute") => run[q].command # "setup")'
    BY <1>1, <1>2 DEF OwnFresh, FreshMakings, At, Fresh
  <2>2. (\A r \in Process : At(q, "execute") /\ home[r] = home[q] /\ run[r].at \in Making => Fresh(q, run[r].identity))'
    BY <1>2, <1>8 DEF Fresh, At
  <2> QED BY <1>2, <1>7, <1>9, <2>1, <2>2 DEF FreshMakings, At
<1> QED BY <1>5, <1>10 DEF OwnFresh

(* The records of what was made name what was made.                        *)
LEMMA RecordsFresh ==
  ASSUME Base, Freshness, NEW p \in Process, Effects(p), NEW c \in Checkout
  PROVE  OneVersion(manifest'[c]) /\ OneVersion(receipt'[c])
<1>1. /\ Makes(p) /\ MadeFromOne(p) /\ OneVersion(manifest[c]) /\ OneVersion(receipt[c])
  BY DEF Effects, Freshness
<1>2. CASE manifest'[c] # manifest[c]
  BY <1>1, <1>2 DEF Makes, MadeFromOne, OneVersion
<1>3. CASE receipt'[c] # receipt[c]
  BY <1>1, <1>3 DEF Makes, MadeFromOne, OneVersion, At
<1> QED
  <2>1. OneVersion(manifest'[c])
    BY <1>1, <1>2
  <2>2. OneVersion(receipt'[c])
    BY <1>1, <1>3
  <2> QED BY <2>1, <2>2

(* An edit makes new sources fresh for whoever works in the checkout; it   *)
(* comes neither while tables are generated, nor back while a binary is    *)
(* compiled.                                                               *)
LEMMA RewrittenFresh ==
  ASSUME Base, Freshness, Rewritten, UNCHANGED <<tables, manifest, binary, receipt>>,
         \A q \in Process :
           /\ ~At(q, "idle") => run[q].command = "setup" \/ version'[home[q]] \in run'[q].since
           /\ At(q, "generate") => version'[home[q]] = version[home[q]]
           /\ run[q].at \in {"compile", "compiled"} =>
                version[home[q]] <= version'[home[q]] /\ version'[home[q]] \in Version
  PROVE  Freshness'
<1>1. SetupTypes
  BY DEF Base
<1>2. ASSUME NEW q \in Process PROVE OwnFresh(q)'
  <2>1. /\ home' = home /\ run'[q].at = run[q].at /\ run'[q].command = run[q].command
        /\ run'[q].identity = run[q].identity /\ run'[q].read = run[q].read
        /\ run[q].since \subseteq run'[q].since
        /\ \A r \in Process : run'[r].at = run[r].at /\ run'[r].identity = run[r].identity
    BY DEF Rewritten
  <2>2. MadeFromOne(q) /\ FreshMakings(q) /\ tables' = tables /\ binary' = binary
    BY DEF Freshness
  <2>3. \A v : Fresh(q, v) => run'[q].command = "setup" \/ v \in run'[q].since
    BY <2>1 DEF Fresh
  <2>4. MadeFromOne(q)'
    <3>1. run[q] \in RunType /\ version[home[q]] \in Version
      BY <1>1 DEF SetupTypes
    <3>2. run[q].identity \in Nat
      <4>1. run[q].identity \in 0 .. MaxVersion /\ MaxVersion \in Nat
        BY <3>1, BuildAssumption DEF RunType
      <4> QED BY <4>1
    <3>3. At(q, "generate") => run[q].read = {version'[home[q]]}
      BY <2>2 DEF MadeFromOne
    <3>4. At(q, "compile") => run[q].identity <= version'[home[q]]
      BY <2>2, <3>1, <3>2 DEF MadeFromOne, Version, At
    <3>5. At(q, "compiled") => \E v \in Version :
            run[q].read = {v} /\ run[q].identity <= v /\ v <= version'[home[q]]
      BY <2>2, <3>1, <3>2 DEF MadeFromOne, Version, At
    <3> QED BY <2>1, <2>2, <3>3, <3>4, <3>5 DEF MadeFromOne, At
  <2>5. (~At(q, "idle") => Fresh(q, version[home[q]]))'
    BY <2>1 DEF At, Fresh
  <2>6. (run[q].at \in Making => Fresh(q, run[q].identity))'
    BY <2>1, <2>2, <2>3 DEF FreshMakings, Fresh
  <2>7. (run[q].at \in HasTables => \E v \in Version : tables[home[q]] = {v} /\ Fresh(q, v))'
    BY <2>1, <2>2, <2>3 DEF FreshMakings, Fresh
  <2>8. (run[q].at \in {"built", "execute"} => \E v \in Version : binary[home[q]] = {v} /\ Fresh(q, v))'
    BY <2>1, <2>2, <2>3 DEF FreshMakings, Fresh
  <2>9. (At(q, "execute") =>
           /\ run[q].command # "setup"
           /\ \A r \in Process : home[r] = home[q] /\ run[r].at \in Making => Fresh(q, run[r].identity))'
    BY <2>1, <2>2, <2>3 DEF FreshMakings, Fresh, At
  <2>10. FreshMakings(q)'
    BY <2>5, <2>6, <2>7, <2>8, <2>9 DEF FreshMakings
  <2> QED BY <2>4, <2>10 DEF OwnFresh
<1> QED BY <1>2 DEF Freshness, OwnFresh

(* At first nothing is made, and no command runs.                          *)
LEMMA FreshInit ==
  ASSUME SetupInit
  PROVE  Freshness
<1>1. \A p \in Process : run[p].at = "idle"
  BY DEF SetupInit, StoreInit, Idle
<1>2. \A p \in Process : MadeFromOne(p) /\ FreshMakings(p)
  BY <1>1 DEF MadeFromOne, FreshMakings, At, HasTables, Building, Making
<1>3. \A c \in Checkout : OneVersion(manifest[c]) /\ OneVersion(receipt[c])
  BY DEF SetupInit, BuildInit, OneVersion, NoRecord, None
<1> QED BY <1>2, <1>3 DEF Freshness

(* Every step keeps freshness when sources are neither edited while tables *)
(* are generated nor brought back while a binary is compiled.              *)
LEMMA FreshStep ==
  ASSUME ~MayEditTables, ~MayRestore, Base, Freshness, [SetupNext]_setupVars
  PROVE  Freshness'
<1>1. SetupTypes
  BY DEF Base
<1>2. CASE \E p \in Process : Proceeds(p)
  <2>1. PICK p \in Process : Proceeds(p)
    BY <1>2
  <2>2. Effects(p) /\ OwnFresh(p)
    BY <2>1, StepEffects DEF Freshness, OwnFresh
  <2>3. OwnFresh(p)'
    BY <2>1, <2>2, ProvisionFresh, BuildFresh, CommandFresh DEF Proceeds
  <2>4. \A q \in Process : OwnFresh(q)'
    BY <2>2, <2>3, OthersFresh
  <2>5. \A c \in Checkout : OneVersion(manifest'[c]) /\ OneVersion(receipt'[c])
    BY <2>2, RecordsFresh
  <2>6. \A q \in Process : MadeFromOne(q)' /\ FreshMakings(q)'
    BY <2>4 DEF OwnFresh
  <2>7. (\A c \in Checkout : OneVersion(manifest[c]) /\ OneVersion(receipt[c]))'
    BY <2>5 DEF OneVersion
  <2> QED BY <2>6, <2>7 DEF Freshness
<1>3. ASSUME NEW c \in Checkout, NEW v \in Version, Edit(c, v) PROVE Freshness'
  <2>1. UNCHANGED <<tables, manifest, binary, receipt>> /\ ~Generating(c) /\ (Compiling(c) => v >= version[c])
    <3>1. UNCHANGED <<tables, manifest, binary, receipt>> /\ ~Generating(c) /\ ~(Compiling(c) /\ v < version[c])
      BY <1>3, Zenon DEF Edit
    <3>2. v \in Nat /\ version[c] \in Nat
      BY <1>1, BuildAssumption DEF SetupTypes, Version
    <3> QED BY <3>1, <3>2
  <2>2. /\ Rewritten /\ version' = [version EXCEPT ![c] = v]
        /\ \A q \in Process : home[q] = c => (run[q].since # {} => v \in run'[q].since)
    BY <1>1, <1>3, EditMoves
  <2>3. ASSUME NEW q \in Process
        PROVE  /\ ~At(q, "idle") => run[q].command = "setup" \/ version'[home[q]] \in run'[q].since
               /\ At(q, "generate") => version'[home[q]] = version[home[q]]
               /\ run[q].at \in {"compile", "compiled"} =>
                    version[home[q]] <= version'[home[q]] /\ version'[home[q]] \in Version
    <3>1. /\ ~At(q, "idle") => Fresh(q, version[home[q]])
          /\ run[q].since \subseteq run'[q].since
          /\ home[q] \in Checkout /\ version \in [Checkout -> Version]
      BY <1>1, <2>2 DEF Freshness, FreshMakings, Rewritten, SetupTypes
    <3>2. CASE home[q] # c
      BY <2>2, <3>1, <3>2 DEF Fresh, Version
    <3>3. CASE home[q] = c
      <4>1. version'[home[q]] = v
        BY <2>2, <3>1, <3>3
      <4> QED BY <2>1, <2>2, <3>1, <3>3, <4>1 DEF Fresh, Generating, Compiling, At, Version
    <3> QED BY <3>2, <3>3
  <2> QED BY <2>1, <2>2, <2>3, RewrittenFresh
<1>4. ASSUME Rewritten \/ UNCHANGED <<home, run>>, version' = version,
             UNCHANGED <<tables, manifest, binary, receipt>>
      PROVE  Freshness'
  <2>1. Rewritten
    BY <1>1, <1>4 DEF Rewritten, SetupTypes
  <2>2. ASSUME NEW q \in Process
        PROVE  /\ ~At(q, "idle") => run[q].command = "setup" \/ version'[home[q]] \in run'[q].since
               /\ At(q, "generate") => version'[home[q]] = version[home[q]]
               /\ run[q].at \in {"compile", "compiled"} =>
                    version[home[q]] <= version'[home[q]] /\ version'[home[q]] \in Version
    BY <1>1, <1>4, <2>1 DEF Freshness, FreshMakings, Fresh, Rewritten, SetupTypes, Version
  <2> QED BY <1>4, <2>1, <2>2, RewrittenFresh
<1>5. CASE Damage
  <2>1. Rewritten /\ version' = version /\ UNCHANGED <<tables, manifest, binary, receipt>>
    BY <1>1, <1>5, DamageMoves DEF Damage, DamageStore, DamageLocal, buildVars
  <2> QED BY <1>4, <2>1
<1>6. CASE UNCHANGED setupVars
  BY <1>4, <1>6 DEF setupVars, storeVars, buildVars
<1> QED BY <1>2, <1>3, <1>5, <1>6 DEF SetupNext, Proceeds, Commanded, Damage

(* LaunchIsFresh: a launch executes a binary, and reads tables, each made  *)
(* of one version of the sources its checkout had since the launch began,  *)
(* provided that sources are not edited while their tables are generated   *)
(* (the run setup_tables shows what happens otherwise) nor brought back    *)
(* while a binary is compiled (which the second hash cannot see).          *)
THEOREM LaunchesAreFresh ==
  ASSUME ~MayEditTables, ~MayRestore
  PROVE  SetupSpec => []LaunchIsFresh
<1>1. SetupInit => Base /\ Freshness
  BY BaseInit, FreshInit
<1>2. Base /\ Freshness /\ [SetupNext]_setupVars => (Base /\ Freshness)'
  BY BaseStep, FreshStep
<1>3. Base /\ Freshness => LaunchIsFresh
  <2>1. ASSUME Freshness, NEW p \in Process, At(p, "execute")
        PROVE  \E v, w \in run[p].since : binary[home[p]] = {v} /\ tables[home[p]] = {w}
    <3>1. /\ \E v \in Version : tables[home[p]] = {v} /\ Fresh(p, v)
          /\ \E v \in Version : binary[home[p]] = {v} /\ Fresh(p, v)
          /\ run[p].command # "setup"
      BY <2>1 DEF Freshness, FreshMakings, At, HasTables
    <3> QED BY <3>1 DEF Fresh
  <2> QED BY <2>1 DEF LaunchIsFresh
<1> QED BY <1>1, <1>2, <1>3, PTL DEF SetupSpec
-----------------------------------------------------------------------------
(* No step of a command spoils an entry that a checkout's path leads to.   *)
LEMMA GoodStays ==
  ASSUME SetupTypes, NEW p \in Process, Effects(p), NEW c \in Checkout, NEW e \in Entry,
         stored[e] = Valid, Good(c, e)
  PROVE  Good(c, e)'
<1>1. stored'[e] = Valid /\ placed'[c][e] \in {placed[c][e], "linked", "local"}
  BY DEF Effects, Orderly, StoreMoves, Places
<1>2. placed[c][e] \in {"linked", "local"}
  BY DEF Good, LinkState, Seen, Invalid, Valid, SetupTypes, Place
<1>3. LinkState(c, e)' \in {"linked", "local"} /\ Seen(c, e)' = Valid
  BY <1>1, <1>2 DEF LinkState, Seen, Absent, Valid
<1> QED BY <1>3 DEF Good

(* No step of a command makes valid tables invalid, or begins to generate  *)
(* over them.                                                              *)
LEMMA TabledStays ==
  ASSUME NEW p \in Process, Effects(p), NEW c \in Checkout, Tabled(c)
  PROVE  Tabled(c)'
<1>1. home' = home /\ version' = version /\ (\A q \in Process : q # p => run'[q] = run[q]) /\ Makes(p)
  BY DEF Effects, Orderly, Alone
<1>2. /\ PreparedValid(c)
      /\ \A q \in Process : home[q] = c => run[q].at # "generate" /\ run[q].at # "manifest"
  BY DEF Tabled
<1>3. tables'[c] = tables[c] /\ manifest'[c] = manifest[c]
  BY <1>1, <1>2 DEF Makes, At
<1>4. PreparedValid(c)'
  BY <1>1, <1>2, <1>3 DEF PreparedValid
<1>5. ASSUME NEW q \in Process, home[q] = c PROVE run'[q].at \notin {"generate", "manifest"}
  <2>1. CASE q # p
    BY <1>1, <1>2, <1>5, <2>1
  <2>2. CASE q = p
    BY <1>1, <1>2, <1>5, <2>2 DEF Makes, At
  <2> QED BY <2>1, <2>2
<1> QED BY <1>1, <1>4, <1>5 DEF Tabled

(* No step of a command makes a current binary stale, or begins to compile *)
(* over it.                                                                *)
LEMMA CompiledStays ==
  ASSUME NEW p \in Process, Effects(p), NEW c \in Checkout, Compiled(c)
  PROVE  Compiled(c)'
<1>1. home' = home /\ version' = version /\ (\A q \in Process : q # p => run'[q] = run[q]) /\ Makes(p)
  BY DEF Effects, Orderly, Alone
<1>2. Current(c, version[c]) /\ \A q \in Process : home[q] = c => run[q].at \notin Making
  BY DEF Compiled
<1>3. {"replace", "receipt"} \subseteq Making
  BY DEF Making
<1>4. binary'[c] = binary[c] /\ receipt'[c] = receipt[c]
  BY <1>1, <1>2, <1>3 DEF Makes, At
<1>5. Current(c, version[c])'
  BY <1>1, <1>2, <1>4 DEF Current
<1>6. ASSUME NEW q \in Process, home[q] = c PROVE run'[q].at \notin Making
  <2>1. CASE q # p
    BY <1>1, <1>2, <1>6, <2>1
  <2>2. CASE q = p
    BY <1>1, <1>2, <1>6, <2>2 DEF Makes
  <2> QED BY <2>1, <2>2
<1> QED BY <1>1, <1>5, <1>6 DEF Compiled

(* What an undisturbed setup has found so far outlives the steps of all    *)
(* commands.                                                               *)
LEMMA FindsStay ==
  ASSUME Base, NEW p \in Process, Effects(p), NEW q \in Process, SoFar(q)
  PROVE  /\ run[q].at \in AfterCheckpoint => stored'["checkpoint"] = Valid
         /\ run[q].at \in AfterModel => stored'["model"] = Valid
         /\ run[q].at \in HasModel \cup {"link model", "relink model"} => Good(home[q], "checkpoint")'
         /\ run[q].at \in HasModel => Good(home[q], "model")'
         /\ run[q].at \in HasTables => Tabled(home[q])'
<1>1. /\ SetupTypes /\ home[q] \in Checkout /\ home' = home
      /\ \A e \in Entry : stored[e] = Valid => stored'[e] = Valid
  BY DEF Base, SetupTypes, Effects, Orderly, Alone, StoreMoves
<1>2. /\ HasModel \cup {"link model", "relink model"} \subseteq AfterModel /\ AfterModel \subseteq AfterCheckpoint
      /\ {"checkpoint", "model"} = Entry
  BY DEF HasModel, AfterModel, AfterCheckpoint, Entry
<1>3. PICK c \in Checkout : c = home[q]
  BY <1>1
<1>4. run[q].at \in AfterCheckpoint => stored["checkpoint"] = Valid
  BY DEF SoFar
<1>5. run[q].at \in AfterModel => stored["model"] = Valid
  BY DEF SoFar
<1>6. run[q].at \in HasModel \cup {"link model", "relink model"} => Good(c, "checkpoint")
  BY <1>3 DEF SoFar
<1>7. run[q].at \in HasModel => Good(c, "model")
  BY <1>3 DEF SoFar
<1>8. run[q].at \in HasTables => Tabled(c)
  BY <1>3 DEF SoFar
<1>9. run[q].at \in HasModel \cup {"link model", "relink model"} => Good(c, "checkpoint")'
  BY <1>1, <1>2, <1>4, <1>6, GoodStays
<1>10. run[q].at \in HasModel => Good(c, "model")'
  BY <1>1, <1>2, <1>5, <1>7, GoodStays
<1>11. run[q].at \in HasTables => Tabled(c)'
  BY <1>8, TabledStays
<1>12. home'[q] = c
  BY <1>1, <1>3
<1>13. /\ Good(c, "checkpoint")' => Good(home[q], "checkpoint")'
       /\ Good(c, "model")' => Good(home[q], "model")'
  BY <1>12 DEF Good, LinkState, Seen
<1>14. Tabled(c)' => Tabled(home[q])'
  BY <1>12 DEF Tabled, PreparedValid
<1> QED BY <1>1, <1>2, <1>4, <1>5, <1>9, <1>10, <1>11, <1>13, <1>14

(* Of another command, all that SoFar says is kept.                        *)
LEMMA OthersSoFar ==
  ASSUME Base, NEW p \in Process, Effects(p), NEW q \in Process, q # p, SoFar(q)
  PROVE  SoFar(q)'
<1>1. /\ Locks /\ Makes(p) /\ home[q] \in Checkout
      /\ home' = home /\ version' = version /\ run'[q] = run[q]
  BY DEF Base, Effects, Orderly, Alone, SetupTypes
<1>2. Making \subseteq Building /\ {"replace", "receipt"} \subseteq Making /\ "built" \in Building
  BY DEF Building, Making
<1>3. run[q].at \in Building => binary'[home[q]] = binary[home[q]] /\ receipt'[home[q]] = receipt[home[q]]
  BY <1>1, <1>2 DEF Locks, Makes, At
<1>4. /\ (~At(q, "idle") /\ ~At(q, "prepared"))'
      /\ (run[q].at \in Making => run[q].identity = version[home[q]])'
      /\ (run[q].at \in Making \ {"compile"} => run[q].read # {})'
  BY <1>1 DEF SoFar, At
<1>5. (At(q, "receipt") => binary[home[q]] = run[q].read)'
  BY <1>1, <1>2, <1>3 DEF SoFar, At
<1>6. (At(q, "built") => Current(home[q], version[home[q]]))'
  BY <1>1, <1>2, <1>3 DEF SoFar, At, Current
<1>7. run'[q].at = run[q].at
  BY <1>1
<1>8. /\ (run[q].at \in AfterCheckpoint => stored["checkpoint"] = Valid)'
      /\ (run[q].at \in AfterModel => stored["model"] = Valid)'
      /\ (run[q].at \in HasModel \cup {"link model", "relink model"} => Good(home[q], "checkpoint"))'
      /\ (run[q].at \in HasModel => Good(home[q], "model"))'
      /\ (run[q].at \in HasTables => Tabled(home[q]))'
  BY <1>7, FindsStay
<1> QED BY <1>4, <1>5, <1>6, <1>8 DEF SoFar

(* What a command has found when it goes on at x.                          *)
Finds(p, x) ==
  /\ x \in AfterCheckpoint => stored'["checkpoint"] = Valid
  /\ x \in AfterModel => stored'["model"] = Valid
  /\ x \in HasModel \cup {"link model", "relink model"} => Good(home[p], "checkpoint")'
  /\ x \in HasModel => Good(home[p], "model")'
  /\ x \in HasTables => Tabled(home[p])'

(* When it goes on to x with that found, SoFar holds again, unless x is    *)
(* where it makes its binary.                                              *)
LEMMA GoesOn ==
  ASSUME NEW p \in Process, NEW x, Walks(p, x), x \notin {"idle", "prepared"}, Finds(p, x),
         x \notin Making, x # "built"
  PROVE  SoFar(p)'
<1>1. run'[p].at = x /\ {"receipt"} \subseteq Making
  BY DEF Walks, Making
<1> QED BY <1>1 DEF SoFar, Finds, At

(* When it goes on to where no more is claimed than before, it has found   *)
(* that.                                                                   *)
LEMMA FindsOn ==
  ASSUME Base, NEW p \in Process, SoFar(p), Effects(p), NEW x,
         x \in AfterCheckpoint => run[p].at \in AfterCheckpoint,
         x \in AfterModel => run[p].at \in AfterModel,
         x \in HasModel \cup {"link model", "relink model"} => run[p].at \in HasModel \cup {"link model", "relink model"},
         x \in HasModel => run[p].at \in HasModel,
         x \in HasTables => run[p].at \in HasTables
  PROVE  Finds(p, x)
BY FindsStay DEF Finds

(* A link, or an entry of the checkout's own, that setup has looked at and *)
(* kept is good.                                                           *)
LEMMA GoodNow ==
  ASSUME NEW c, NEW e, stored[e] = Valid,
         LinkState(c, e) \in {"local", "linked"}, LinkState(c, e) = "local" => Seen(c, e) = Valid
  PROVE  Good(c, e)
BY DEF Good, LinkState, Seen, Absent, Valid

(* In the store an undisturbed setup finds or puts the checkpoint, then    *)
(* the model, and then a good link to each.                                *)
LEMMA ProvisionSoFar ==
  ASSUME Base, NEW p \in Process, SoFar(p), Provision(p), UNCHANGED buildVars, run'[p].quiet
  PROVE  SoFar(p)'
<1>1. /\ SetupTypes /\ version' = version /\ home[p] \in Checkout /\ Effects(p)
      /\ placed \in [Checkout -> [Entry -> Place]] /\ stored \in [Entry -> Contents]
      /\ \A e \in Entry : stored[e] = Valid => stored'[e] = Valid
  BY ProvisionEffects DEF Base, buildVars, SetupTypes, Effects, Orderly, StoreMoves
<1>2. ~Leaves(p) /\ "checkpoint" \in Entry /\ "model" \in Entry
  BY DEF Leaves, Entry
<1>3. ASSUME NEW x \in Provisioning \cup {"lock tables"}, Walks(p, x), Finds(p, x)
      PROVE  SoFar(p)'
  <2>1. x \notin {"idle", "prepared"} /\ x \notin Making /\ x # "built"
    BY DEF Provisioning, Making
  <2> QED BY <1>3, <2>1, GoesOn
<1>4. /\ AfterModel \cap {"checkpoint", "aside checkpoint", "fetch checkpoint", "publish checkpoint", "model",
           "aside model", "fetch model", "link to prepare", "relink to prepare", "prepare", "publish model"} = {}
      /\ HasModel \cap Provisioning = {} /\ HasTables \cap (Provisioning \cup {"lock tables"}) = {}
      /\ AfterCheckpoint \cap {"checkpoint", "aside checkpoint", "fetch checkpoint", "publish checkpoint"} = {}
  BY DEF AfterModel, AfterCheckpoint, HasModel, HasTables, Tabling, Building, Making, Provisioning
<1>5. /\ {"model", "aside model", "fetch model", "link to prepare", "relink to prepare", "prepare",
          "publish model", "seal", "link checkpoint", "relink checkpoint", "link model", "relink model",
          "lock tables"} \subseteq AfterCheckpoint
      /\ {"seal", "link checkpoint", "relink checkpoint", "link model", "relink model", "lock tables"} \subseteq AfterModel
      /\ "lock tables" \in HasModel
  BY DEF AfterModel, AfterCheckpoint, HasModel
(* Before the checkpoint is there nothing is claimed, ...                  *)
<1>6. ASSUME NEW x \in {"checkpoint", "aside checkpoint", "fetch checkpoint", "publish checkpoint"}, Walks(p, x)
      PROVE  SoFar(p)'
  <2>1. x \in Provisioning /\ x \notin AfterCheckpoint /\ x \notin AfterModel /\ x \notin {"link model", "relink model"}
    BY <1>4 DEF Provisioning
  <2> QED BY <1>3, <1>4, <1>6, <2>1 DEF Finds
(* ... then the checkpoint, ...                                            *)
<1>7. ASSUME NEW x \in {"model", "aside model", "fetch model", "link to prepare", "relink to prepare", "prepare",
                        "publish model"}, Walks(p, x), stored'["checkpoint"] = Valid
      PROVE  SoFar(p)'
  <2>1. x \in Provisioning /\ x \notin AfterModel /\ x \notin {"link model", "relink model"}
    BY <1>4 DEF Provisioning
  <2> QED BY <1>3, <1>4, <1>7, <2>1 DEF Finds
(* ... and the model.                                                      *)
<1>8. ASSUME NEW x \in {"seal", "link checkpoint", "relink checkpoint"}, Walks(p, x),
             stored'["checkpoint"] = Valid, stored'["model"] = Valid
      PROVE  SoFar(p)'
  <2>1. x \in Provisioning /\ x \notin {"link model", "relink model"}
    BY DEF Provisioning
  <2> QED BY <1>3, <1>4, <1>8, <2>1 DEF Finds
<1>9. run[p].at \in AfterCheckpoint => stored'["checkpoint"] = Valid
  BY <1>1, FindsStay
<1>10. run[p].at \in AfterModel => stored'["model"] = Valid
  BY <1>1, FindsStay
<1>11. CASE Refuse(p) \/ LockStore(p) \/ SetAsideCheckpoint(p) \/ ImportCheckpoint(p) \/ DownloadCheckpoint(p)
  BY <1>1, <1>2, <1>6, <1>11, ProvisionMoves
<1>12. CASE ExamineCheckpoint(p)
  BY <1>1, <1>2, <1>6, <1>7, <1>12, ProvisionMoves
<1>13. CASE PublishCheckpoint(p)
  <2>1. Walks(p, "model") /\ run[p].staged = Valid
    BY <1>1, <1>2, <1>13, ProvisionMoves
  <2>2. stored'["checkpoint"] = Valid
    BY <1>1, <1>2, <1>13, <2>1 DEF PublishCheckpoint
  <2> QED BY <1>7, <2>1, <2>2
<1>14. CASE ExamineModel(p)
  <2>1. stored'["checkpoint"] = Valid /\ (stored["model"] = Valid => stored'["model"] = Valid)
    BY <1>1, <1>2, <1>5, <1>9, <1>14 DEF ExamineModel, At
  <2> QED BY <1>1, <1>7, <1>8, <1>14, <2>1, ProvisionMoves
<1>15. CASE SetAsideModel(p) \/ ImportModel(p) \/ BeginPrepare(p) \/ PrepareModel(p)
  <2>1. stored'["checkpoint"] = Valid
    BY <1>5, <1>9, <1>15 DEF SetAsideModel, ImportModel, BeginPrepare, PrepareModel, At
  <2> QED BY <1>1, <1>2, <1>7, <1>15, <2>1, ProvisionMoves
<1>16. CASE PublishModel(p)
  <2>1. Walks(p, "seal") /\ run[p].staged = Valid /\ run[p].at = "publish model"
    BY <1>1, <1>2, <1>16, ProvisionMoves DEF PublishModel, At
  <2>2. stored'["model"] = Valid /\ stored'["checkpoint"] = Valid
    BY <1>1, <1>2, <1>5, <1>9, <1>16, <2>1 DEF PublishModel
  <2> QED BY <1>8, <2>1, <2>2
<1>17. CASE Seal(p)
  <2>1. Walks(p, "link checkpoint") /\ stored'["model"] = Valid /\ stored'["checkpoint"] = Valid
    BY <1>1, <1>5, <1>9, <1>10, <1>17, ProvisionMoves DEF Seal, At
  <2> QED BY <1>8, <2>1
(* The links: each that has been looked at, or replaced, leads to a valid  *)
(* entry.                                                                  *)
<1>18. ASSUME NEW link \in Links, LookAtLink(p, link) \/ ReplaceLink(p, link) PROVE SoFar(p)'
  <2>1. LinkPhases(link) /\ run[p].at \in {link.at, link.replace} /\ link.entry \in Entry
        /\ stored' = stored /\ home' = home
    BY <1>1, <1>18, LinkMoves DEF LookAtLink, ReplaceLink, At, LinkPhases, Entry
  <2>2. /\ {link.at, link.replace} \subseteq AfterCheckpoint
        /\ link.at # "link to prepare" => {link.at, link.replace} \subseteq AfterModel
    BY <1>5, <2>1 DEF LinkPhases
  <2>3. /\ stored["checkpoint"] = Valid /\ stored'["checkpoint"] = Valid
        /\ link.at # "link to prepare" => stored["model"] = Valid /\ stored'["model"] = Valid
    BY <1>9, <1>10, <2>1, <2>2
  <2>4. CASE Walks(p, link.replace)
    <3>1. link.at # "link model" => link.replace \in {"relink to prepare", "relink checkpoint"}
      BY <2>1 DEF LinkPhases
    <3>2. CASE link.at # "link model"
      BY <1>7, <1>8, <2>1, <2>3, <2>4, <3>2 DEF LinkPhases
    <3>3. CASE link.at = "link model"
      <4>1. link.replace = "relink model" /\ run[p].at \in {"link model", "relink model"}
        BY <2>1, <3>3 DEF LinkPhases
      <4>2. Good(home[p], "checkpoint")'
        BY <1>1, <4>1, FindsStay
      <4>3. "relink model" \in Provisioning
        BY DEF Provisioning
      <4> QED BY <1>3, <1>4, <2>3, <2>4, <3>3, <4>1, <4>2, <4>3 DEF Finds
    <3> QED BY <3>2, <3>3
  <2>5. ASSUME Walks(p, link.next), Good(home[p], link.entry)' PROVE SoFar(p)'
    <3>1. CASE link.at = "link to prepare"
      BY <1>7, <2>1, <2>3, <2>5, <3>1 DEF LinkPhases
    <3>2. CASE link.at = "link checkpoint"
      <4>1. link.next = "link model" /\ link.entry = "checkpoint" /\ "link model" \in Provisioning
        BY <2>1, <3>2 DEF LinkPhases, Provisioning
      <4> QED BY <1>3, <1>4, <2>3, <2>5, <3>2, <4>1 DEF Finds
    <3>3. CASE link.at = "link model"
      <4>1. /\ link.next = "lock tables" /\ link.entry = "model"
            /\ run[p].at \in {"link model", "relink model"}
        BY <2>1, <3>3 DEF LinkPhases
      <4>2. Good(home[p], "checkpoint")'
        BY <1>1, <4>1, FindsStay
      <4> QED BY <1>3, <1>4, <2>3, <2>5, <3>3, <4>1, <4>2 DEF Finds
    <3> QED BY <2>1, <3>1, <3>2, <3>3 DEF LinkPhases
  <2>6. CASE /\ LookAtLink(p, link) /\ Walks(p, link.next)
             /\ LinkState(home[p], link.entry) \in {"local", "linked"}
             /\ LinkState(home[p], link.entry) = "local" => Seen(home[p], link.entry) = Valid
    <3>1. stored[link.entry] = Valid
      BY <2>1, <2>3 DEF LinkPhases
    <3>2. PICK c \in Checkout : c = home[p]
      BY <1>1
    <3>3. Good(c, link.entry)
      BY <2>6, <3>1, <3>2, GoodNow
    <3>4. Good(c, link.entry)'
      BY <1>1, <2>1, <3>1, <3>3, GoodStays
    <3>5. home'[p] = c
      BY <2>1, <3>2
    <3>6. Good(home[p], link.entry)'
      BY <3>4, <3>5 DEF Good, LinkState, Seen
    <3> QED BY <2>5, <2>6, <3>6
  <2>7. CASE ReplaceLink(p, link)
    <3>1. Walks(p, link.next)
      BY <1>1, <2>7, LinkMoves
    <3>2. stored'[link.entry] = Valid
      BY <2>1, <2>3 DEF LinkPhases
    <3>3. placed'[home'[p]][link.entry] = "linked"
      BY <1>1, <2>1, <2>7 DEF ReplaceLink
    <3>4. Good(home[p], link.entry)'
      BY <3>2, <3>3 DEF Good, LinkState, Seen, Absent, Valid
    <3> QED BY <2>5, <3>1, <3>4
  <2> QED BY <1>1, <1>2, <1>18, <2>4, <2>6, <2>7, LinkMoves
<1> QED BY <1>11, <1>12, <1>13, <1>14, <1>15, <1>16, <1>17, <1>18 DEF Provision

(* In its checkout an undisturbed setup finds or makes valid tables and    *)
(* then a current binary.                                                  *)
LEMMA BuildSoFar ==
  ASSUME Base, NEW p \in Process, SoFar(p), Build(p), run'[p].quiet
  PROVE  SoFar(p)'
<1>1. /\ SetupTypes /\ Locks /\ home[p] \in Checkout /\ Effects(p)
      /\ run[p] \in RunType /\ version[home[p]] \in Version
      /\ binary \in [Checkout -> SUBSET Version] /\ receipt \in [Checkout -> Record]
  BY BuildEffects DEF Base, SetupTypes
<1>2. ~Leaves(p) /\ home' = home /\ version' = version
  BY <1>1 DEF Leaves, Effects, Orderly, Alone
<1>3. /\ {"lock tables", "tables", "download", "generate", "manifest", "check tables"} \cup HasTables = HasModel
      /\ {"lock tables", "tables", "download", "generate", "manifest", "check tables"} \cap HasTables = {}
      /\ HasModel \subseteq AfterModel /\ AfterModel \subseteq AfterCheckpoint
      /\ "link model" \notin HasModel /\ "relink model" \notin HasModel
      /\ {"lock binary", "built", "compile", "compiled", "replace", "receipt"} \subseteq HasTables
      /\ {"compile", "compiled", "replace", "receipt"} = Making
      /\ "idle" \notin HasModel /\ "prepared" \notin HasModel
  BY DEF HasModel, AfterModel, AfterCheckpoint, HasTables, Tabling, Building, Making
<1>4. ASSUME run[p].at \in HasModel, NEW x \in HasModel, x \in HasTables => run[p].at \in HasTables \/ Tabled(home[p])'
      PROVE  Finds(p, x)
  BY <1>1, <1>3, <1>4, FindsStay DEF Finds
<1>5. run[p].at \in HasModel
  BY <1>3 DEF Build, EnsureSource, Download, KeepTables, StartGenerator, WriteTables, WriteManifest,
              CheckTables, LockBuild, Compile, CompareSources, ReplaceBinary, WriteReceipt, At
<1>6. ASSUME NEW x \in {"tables", "download", "generate", "manifest", "check tables"}, Walks(p, x)
      PROVE  SoFar(p)'
  <2>1. x \in HasModel /\ x \notin HasTables /\ x \notin Making /\ x # "built"
    BY <1>3
  <2>2. Finds(p, x)
    BY <1>4, <1>5, <2>1
  <2> QED BY <1>3, <1>6, <2>1, <2>2, GoesOn
<1>7. EnsureSource(p) \/ Download(p) \/ StartGenerator(p) \/ WriteTables(p) \/ WriteManifest(p) => SoFar(p)'
  BY <1>1, <1>2, <1>6, BuildMoves
<1>8. ASSUME KeepTables(p) \/ CheckTables(p) PROVE SoFar(p)'
  <2>1. /\ Walks(p, "lock binary") /\ PreparedValid(home[p]) /\ run[p].at \in Tabling
        /\ tables' = tables /\ manifest' = manifest
    BY <1>1, <1>2, <1>8, BuildMoves DEF KeepTables, CheckTables, At, Tabling
  <2>2. PreparedValid(home[p])'
    BY <1>2, <2>1 DEF PreparedValid
  <2>3. ASSUME NEW q \in Process, home[q] = home[p] PROVE run'[q].at \notin {"generate", "manifest"}
    <3>1. CASE q = p
      BY <2>1, <3>1 DEF Walks
    <3>2. CASE q # p
      <4>1. run'[q] = run[q] /\ assetLock[home[p]] = p
        BY <1>1, <2>1, <3>2 DEF Walks, Alone, Locks
      <4> QED BY <1>1, <2>3, <3>2, <4>1 DEF Locks, Tabling
    <3> QED BY <3>1, <3>2
  <2>4. Tabled(home[p])'
    BY <1>2, <2>2, <2>3 DEF Tabled
  <2>5. "lock binary" \in HasTables /\ "lock binary" \in HasModel /\ "lock binary" \notin Making
    BY <1>3
  <2> QED BY <1>3, <1>4, <1>5, <2>1, <2>4, <2>5, GoesOn
(* The binary: what setup has read are the sources at hand.                *)
<1>9. ASSUME run[p].at \in HasTables, NEW x \in Making, Walks(p, x), run'[p].identity = version[home[p]],
             x # "compile" => run'[p].read # {}, x = "receipt" => binary'[home[p]] = run'[p].read
      PROVE  SoFar(p)'
  <2>1. x \in HasModel /\ x \in HasTables /\ x \notin {"idle", "prepared", "built"}
    BY <1>3
  <2>2. Finds(p, x) /\ run'[p].at = x
    BY <1>4, <1>5, <1>9, <2>1 DEF Walks
  <2>3. /\ (~At(p, "idle") /\ ~At(p, "prepared"))'
        /\ (run[p].at \in Making => run[p].identity = version[home[p]])'
        /\ (run[p].at \in Making \ {"compile"} => run[p].read # {})'
        /\ (At(p, "receipt") => binary[home[p]] = run[p].read)'
        /\ (At(p, "built") => Current(home[p], version[home[p]]))'
    BY <1>2, <1>9, <2>1, <2>2 DEF At
  <2> QED BY <2>2, <2>3 DEF SoFar, Finds
<1>10. ASSUME run[p].at \in HasTables, Walks(p, "built"), Current(home[p], version[home[p]])'
       PROVE  SoFar(p)'
  <2>1. "built" \in HasModel /\ "built" \in HasTables /\ "built" \notin Making
    BY <1>3
  <2>2. Finds(p, "built") /\ run'[p].at = "built"
    BY <1>4, <1>5, <1>10, <2>1 DEF Walks
  <2>3. /\ (~At(p, "idle") /\ ~At(p, "prepared"))'
        /\ (run[p].at \in Making => run[p].identity = version[home[p]])'
        /\ (run[p].at \in Making \ {"compile"} => run[p].read # {})'
        /\ (At(p, "receipt") => binary[home[p]] = run[p].read)'
        /\ (At(p, "built") => Current(home[p], version[home[p]]))'
    BY <1>10, <2>1, <2>2 DEF At
  <2> QED BY <2>2, <2>3 DEF SoFar, Finds
<1>11. /\ run[p].at \in Making => run[p].identity = version[home[p]]
       /\ run[p].at \in Making \ {"compile"} => run[p].read # {}
       /\ run[p].at = "receipt" => binary[home[p]] = run[p].read
  BY DEF SoFar, At
<1>12. LockBuild(p) => SoFar(p)'
  <2>1. LockBuild(p) => run[p].at = "lock binary" /\ binary' = binary /\ receipt' = receipt
    BY DEF LockBuild, At
  <2>2. ASSUME LockBuild(p), Current(home[p], version[home[p]]) PROVE Current(home[p], version[home[p]])'
    BY <1>2, <2>1, <2>2 DEF Current
  <2> QED BY <1>1, <1>3, <1>9, <1>10, <2>1, <2>2, BuildMoves
<1>13. Compile(p) => SoFar(p)'
  <2>1. Compile(p) => run[p].at = "compile"
    BY DEF Compile, At
  <2>2. {version[home[p]]} # {}
    OBVIOUS
  <2> QED BY <1>1, <1>2, <1>3, <1>9, <1>11, <2>1, <2>2, BuildMoves
<1>14. CompareSources(p) => SoFar(p)'
  <2>1. CompareSources(p) => run[p].at = "compiled"
    BY DEF CompareSources, At
  <2>2. run[p].read \cup {version[home[p]]} # {}
    OBVIOUS
  <2> QED BY <1>1, <1>2, <1>3, <1>9, <1>11, <2>1, <2>2, BuildMoves
<1>15. ASSUME ReplaceBinary(p) PROVE SoFar(p)'
  <2>1. run[p].at = "replace" /\ binary' = [binary EXCEPT ![home[p]] = run[p].read]
    BY <1>15 DEF ReplaceBinary, At
  <2>2. binary'[home[p]] = run[p].read
    BY <1>1, <2>1
  <2> QED BY <1>1, <1>3, <1>9, <1>11, <1>15, <2>1, <2>2, BuildMoves
<1>16. ASSUME WriteReceipt(p) PROVE SoFar(p)'
  <2>1. run[p].at = "receipt" /\ binary' = binary
        /\ receipt' = [receipt EXCEPT ![home[p]] = [sources |-> run[p].identity, content |-> run[p].read]]
    BY <1>16 DEF WriteReceipt, At
  <2>2. receipt'[home[p]] = [sources |-> run[p].identity, content |-> run[p].read]
    BY <1>1, <2>1
  <2>3. run[p].identity = version[home[p]] /\ run[p].read # {} /\ binary[home[p]] = run[p].read
    BY <1>3, <1>11, <2>1
  <2>4. Current(home[p], version[home[p]])'
    BY <1>2, <2>1, <2>2, <2>3 DEF Current, None
  <2> QED BY <1>1, <1>3, <1>10, <1>16, <2>1, <2>4, BuildMoves
<1> QED BY <1>7, <1>8, <1>12, <1>13, <1>14, <1>15, <1>16 DEF Build

(* A setup begins with nothing found, and a launch does not count as       *)
(* undisturbed.                                                            *)
LEMMA CommandSoFar ==
  ASSUME Base, NEW p \in Process, run[p].quiet => SoFar(p), Commanded(p), run'[p].quiet
  PROVE  SoFar(p)'
<1>1. SetupTypes /\ ~Leaves(p) /\ Effects(p)
  BY CommandEffects DEF Base, Leaves
<1>2. CASE Start(p)
  <2>1. Begins(p)
    BY <1>1, <1>2, CommandMoves
  <2>2. run'[p].at = "lock"
    BY <2>1 DEF Begins, FirstOf
  <2>3. /\ "lock" \notin AfterCheckpoint /\ "lock" \notin AfterModel /\ "lock" \notin HasTables /\ "lock" \notin HasModel
        /\ "lock" \notin Making
    BY DEF AfterCheckpoint, AfterModel, HasModel, HasTables, Tabling, Building, Making
  <2> QED BY <2>2, <2>3 DEF SoFar, At
<1>3. CASE VerifyPrepared(p)
  <2>1. Walks(p, "lock tables") /\ At(p, "prepared")
    BY <1>1, <1>3, CommandMoves DEF VerifyPrepared
  <2> QED BY <2>1 DEF Walks, SoFar
<1>4. CASE Built(p)
  <2>1. Walks(p, "execute") /\ At(p, "built")
    BY <1>1, <1>4, CommandMoves DEF Built
  <2>2. /\ {"execute", "built"} \subseteq HasTables /\ HasTables \subseteq HasModel /\ HasModel \subseteq AfterModel
        /\ AfterModel \subseteq AfterCheckpoint /\ "execute" \notin Making
    BY DEF AfterCheckpoint, AfterModel, HasModel, HasTables, Tabling, Building, Making
  <2>3. SoFar(p) /\ run[p].at = "built"
    BY <2>1 DEF Walks, At
  <2>4. Finds(p, "execute")
    BY <1>1, <2>2, <2>3, FindsOn
  <2> QED BY <2>1, <2>2, <2>4, GoesOn
<1>5. CASE Execute(p) \/ Crash(p)
  BY <1>1, <1>5, CommandMoves
<1> QED BY <1>2, <1>3, <1>4, <1>5 DEF Commanded

(* A checkout that is ready, and what nobody is about to change.           *)
Settled(c) ==
  /\ c \in Checkout /\ Tabled(c) /\ Compiled(c)
  /\ \A e \in Entry : stored[e] = Valid /\ Good(c, e)

(* No step of a command unsettles a checkout.                              *)
LEMMA SettledStays ==
  ASSUME SetupTypes, NEW p \in Process, Effects(p), NEW c, Settled(c)
  PROVE  Settled(c)'
<1>1. c \in Checkout /\ Tabled(c) /\ Compiled(c) /\ \A e \in Entry : stored[e] = Valid /\ Good(c, e)
  BY DEF Settled
<1>2. \A e \in Entry : stored'[e] = Valid
  BY <1>1 DEF Effects, Orderly, StoreMoves
<1>3. \A e \in Entry : Good(c, e)'
  BY <1>1, GoodStays
<1>4. Tabled(c)' /\ Compiled(c)'
  BY <1>1, TabledStays, CompiledStays
<1> QED BY <1>1, <1>2, <1>3, <1>4 DEF Settled

(* When an undisturbed setup is done its checkout is ready.                *)
LEMMA DoneIsSettled ==
  ASSUME Base, NEW p \in Process, SoFar(p), At(p, "built")
  PROVE  Settled(home[p])
<1>1. SetupTypes /\ Locks /\ home[p] \in Checkout /\ run[p].at = "built"
  BY DEF Base, SetupTypes, At
<1>2. /\ "built" \in HasTables /\ HasTables \subseteq HasModel /\ HasModel \subseteq AfterModel
      /\ AfterModel \subseteq AfterCheckpoint /\ "built" \in Building /\ Making \subseteq Building
      /\ "built" \notin Making /\ Entry = {"checkpoint", "model"}
  BY DEF AfterCheckpoint, AfterModel, HasModel, HasTables, Tabling, Building, Making, Entry
<1>3. Tabled(home[p]) /\ Current(home[p], version[home[p]])
  BY <1>1, <1>2 DEF SoFar, At
<1>4. \A e \in Entry : stored[e] = Valid /\ Good(home[p], e)
  BY <1>1, <1>2 DEF SoFar
<1>5. ASSUME NEW q \in Process, home[q] = home[p], run[q].at \in Making PROVE FALSE
  BY <1>1, <1>2, <1>5 DEF Locks
<1> QED BY <1>1, <1>3, <1>4, <1>5 DEF Settled, Compiled

(* Undisturbed, in these words: undisturbed setups have what they found,   *)
(* and promised checkouts are settled.                                     *)
LEMMA UndisturbedIsSettled ==
  Undisturbed <=> /\ \A p \in Process : run[p].quiet => SoFar(p)
                  /\ \A c \in promised : Settled(c)
BY DEF Undisturbed, Settled

(* At first nothing is promised, and no command runs.                      *)
LEMMA UndisturbedInit ==
  ASSUME SetupInit
  PROVE  Undisturbed
<1>1. \A p \in Process : ~run[p].quiet
  BY DEF SetupInit, StoreInit, Idle
<1> QED BY <1>1 DEF Undisturbed, SetupInit

(* Every step keeps the promises, and what an undisturbed setup has found. *)
LEMMA UndisturbedStep ==
  ASSUME Base, Undisturbed, [SetupNext]_setupVars
  PROVE  Undisturbed'
<1>1. /\ SetupTypes
      /\ \A p \in Process : run[p].quiet => SoFar(p)
      /\ \A c \in promised : Settled(c)
  BY UndisturbedIsSettled DEF Base
<1>2. ASSUME \A q \in Process : run'[q].quiet => SoFar(q)', \A c \in promised' : Settled(c)'
      PROVE  Undisturbed'
  BY <1>2 DEF Undisturbed, Settled
<1>3. CASE \E p \in Process : Proceeds(p)
  <2>1. PICK p \in Process : Proceeds(p)
    BY <1>3
  <2>2. Effects(p) /\ \A q \in Process : q # p => run'[q] = run[q]
    BY <2>1, StepEffects DEF Effects, Orderly, Alone
  <2>3. run'[p].quiet => SoFar(p)'
    <3>1. CASE Commanded(p)
      BY <1>1, <3>1, CommandSoFar
    <3>2. CASE (Provision(p) /\ UNCHANGED buildVars) \/ Build(p)
      <4>1. run'[p].quiet => run[p].quiet
        <5>1. Leaves(p) \/ \E x \in Phases : Walks(p, x)
          <6>1. Provision(p) => home' = home
            BY <2>2 DEF Effects, Orderly, Alone
          <6>2. Provisioning \cup {"lock tables", "tables", "download", "generate", "manifest", "check tables",
                  "lock binary", "built", "compile", "compiled", "replace", "receipt"} \subseteq Phases
            BY DEF Phases, Tabling, HasTables, Building, Making
          <6>3. Build(p) => Leaves(p) \/ \E x \in Phases : Walks(p, x)
            BY <1>1, <6>2, BuildMoves DEF Build
          <6>4. ASSUME Provision(p), UNCHANGED buildVars PROVE Leaves(p) \/ \E x \in Phases : Walks(p, x)
            <7>1. ASSUME NEW link \in Links, LookAtLink(p, link) \/ ReplaceLink(p, link)
                  PROVE  Leaves(p) \/ \E x \in Phases : Walks(p, x)
              <8>1. LinkPhases(link) /\ (Leaves(p) \/ Walks(p, link.next) \/ Walks(p, link.replace))
                BY <1>1, <6>4, <7>1, LinkMoves DEF buildVars
              <8>2. {link.next, link.replace} \subseteq Phases
                BY <6>2, <8>1 DEF LinkPhases, Provisioning
              <8> QED BY <8>1, <8>2
            <7>2. CASE ~\E link \in Links : LookAtLink(p, link) \/ ReplaceLink(p, link)
              BY <1>1, <6>2, <6>4, <7>2, ProvisionMoves DEF Provision, Provisioning, buildVars
            <7> QED BY <7>1, <7>2
          <6> QED BY <3>2, <6>3, <6>4
        <5> QED BY <5>1 DEF Leaves, Walks
      <4> QED BY <1>1, <3>2, <4>1, ProvisionSoFar, BuildSoFar
    <3> QED BY <2>1, <3>1, <3>2 DEF Proceeds
  <2>4. \A q \in Process : run'[q].quiet => SoFar(q)'
    BY <1>1, <2>2, <2>3, OthersSoFar
  <2>5. \A c \in promised' : Settled(c)
    <3>1. promised' = promised \/ (Built(p) /\ run[p].quiet /\ promised' = promised \cup {home[p]})
      BY <2>1 DEF Proceeds, Commanded, Start, VerifyPrepared, Built, Execute, Crash
    <3>2. Built(p) /\ run[p].quiet => Settled(home[p])
      BY <1>1, DoneIsSettled DEF Built
    <3> QED BY <1>1, <3>1, <3>2
  <2>6. \A c \in promised' : Settled(c)'
    BY <1>1, <2>2, <2>5, SettledStays
  <2> QED BY <1>2, <2>4, <2>6
<1>4. ASSUME NEW c \in Checkout, NEW v \in Version, Edit(c, v) PROVE Undisturbed'
  <2>1. /\ UNCHANGED <<stored, placed, home, tables, manifest, binary, receipt>>
        /\ promised' = promised \ {c}
    BY <1>4 DEF Edit, storeVars
  <2>2. /\ Rewritten /\ version' = [version EXCEPT ![c] = v] /\ version \in [Checkout -> Version]
        /\ \A q \in Process : home[q] = c => ~run'[q].quiet
    BY <1>1, <1>4, EditMoves DEF SetupTypes
  <2>3. \A q \in Process : run'[q].at = run[q].at
    BY <2>2 DEF Rewritten
  <2>4. ASSUME NEW d \in Checkout, d # c
        PROVE  /\ Tabled(d)' = Tabled(d) /\ Compiled(d)' = Compiled(d)
               /\ \A e \in Entry : Good(d, e)' = Good(d, e)
               /\ Current(d, version[d])' = Current(d, version[d])
    <3>1. version'[d] = version[d]
      BY <2>2, <2>4
    <3>2. Tabled(d)' = Tabled(d)
      BY <2>1, <2>3, <3>1 DEF Tabled, PreparedValid
    <3>3. Current(d, version[d])' = Current(d, version[d])
      BY <2>1, <3>1 DEF Current
    <3>4. Compiled(d)' = Compiled(d)
      BY <2>1, <2>3, <3>3 DEF Compiled
    <3>5. \A e \in Entry : Good(d, e)' = Good(d, e)
      BY <2>1 DEF Good, LinkState, Seen
    <3> QED BY <3>2, <3>3, <3>4, <3>5
  <2>5. ASSUME NEW q \in Process, run'[q].quiet PROVE SoFar(q)'
    <3>1. run'[q] = run[q] /\ home[q] \in Checkout /\ home[q] # c /\ home' = home
      BY <1>1, <2>2, <2>5 DEF Rewritten, SetupTypes
    <3>2. SoFar(q)
      BY <1>1, <2>5, <3>1
    <3>3. PICK d \in Checkout : d = home[q] /\ d # c
      BY <3>1
    <3>4. /\ Good(d, "checkpoint")' = Good(d, "checkpoint") /\ Good(d, "model")' = Good(d, "model")
          /\ Tabled(d)' = Tabled(d) /\ Current(d, version[d])' = Current(d, version[d])
          /\ version'[d] = version[d]
      BY <2>2, <2>4, <3>3 DEF Entry
    <3>5. home'[q] = d
      BY <3>1, <3>3
    <3>6. /\ Good(home[q], "checkpoint")' = Good(home[q], "checkpoint")
          /\ Good(home[q], "model")' = Good(home[q], "model")
      BY <3>3, <3>4, <3>5 DEF Good, LinkState, Seen
    <3>7. Tabled(home[q])' = Tabled(home[q])
      BY <3>3, <3>4, <3>5 DEF Tabled, PreparedValid
    <3>8. Current(home[q], version[home[q]])' = Current(home[q], version[home[q]])
      BY <3>3, <3>4, <3>5 DEF Current
    <3> QED BY <2>1, <3>1, <3>2, <3>3, <3>4, <3>6, <3>7, <3>8 DEF SoFar, At
  <2>6. \A d \in promised' : Settled(d)'
    <3>1. ASSUME NEW d \in promised' PROVE Settled(d)'
      <4>1. d \in Checkout /\ d # c /\ Settled(d)
        BY <1>1, <2>1, <3>1 DEF Settled
      <4> QED BY <2>1, <2>4, <4>1 DEF Settled
    <3> QED BY <3>1
  <2> QED BY <1>2, <2>5, <2>6
<1>5. CASE Damage
  <2>1. (\A q \in Process : ~run'[q].quiet) /\ promised' = {}
    BY <1>1, <1>5, DamageMoves DEF Damage, DamageStore, DamageLocal
  <2> QED BY <1>2, <2>1
<1>6. CASE UNCHANGED setupVars
  <2>1. UNCHANGED <<stored, placed, home, run, version, tables, manifest, binary, receipt, promised>>
    BY <1>6 DEF setupVars, storeVars, buildVars
  <2>2. \A c, e : Good(c, e)' <=> Good(c, e)
    BY <2>1 DEF Good, LinkState, Seen
  <2>3. \A c : (Tabled(c)' <=> Tabled(c)) /\ (Compiled(c)' <=> Compiled(c))
    BY <2>1 DEF Tabled, Compiled, PreparedValid, Current
  <2>4. ASSUME NEW q \in Process, SoFar(q) PROVE SoFar(q)'
    <3>1. \A e : Good(home[q], e)' <=> Good(home[q], e)
      BY <2>1 DEF Good, LinkState, Seen
    <3>2. Tabled(home[q])' <=> Tabled(home[q])
      BY <2>1 DEF Tabled, PreparedValid
    <3>3. Current(home[q], version[home[q]])' <=> Current(home[q], version[home[q]])
      BY <2>1 DEF Current
    <3> QED BY <2>1, <2>4, <3>1, <3>2, <3>3 DEF SoFar, At
  <2>5. \A c : Settled(c) => Settled(c)'
    BY <2>1, <2>2, <2>3 DEF Settled
  <2> QED BY <1>1, <1>2, <2>1, <2>4, <2>5
<1> QED BY <1>3, <1>4, <1>5, <1>6 DEF SetupNext, Proceeds, Commanded, Damage

(* ReadyStays: a checkout that an undisturbed setup called ready is ready  *)
(* until somebody edits its sources or damages a file, whatever other      *)
(* commands do, in it or elsewhere, and wherever they are killed.          *)
THEOREM ReadinessStays == SetupSpec => []ReadyStays
<1>1. SetupInit => Base /\ Undisturbed
  BY BaseInit, UndisturbedInit
<1>2. Base /\ Undisturbed /\ [SetupNext]_setupVars => (Base /\ Undisturbed)'
  BY BaseStep, UndisturbedStep
<1>3. Undisturbed => ReadyStays
  BY DEF Undisturbed, ReadyStays, Ready, Tabled, Compiled, Good
<1> QED BY <1>1, <1>2, <1>3, PTL DEF SetupSpec
=============================================================================
