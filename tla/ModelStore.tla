----------------------------- MODULE ModelStore -----------------------------
(***************************************************************************)
(* The store of pinned downloads and the prepared model that the checkouts *)
(* of one machine share (runtime/store.py, models/qwen2/assets.py), and    *)
(* the links of each checkout into it.                                     *)
(*                                                                         *)
(* Of the pinned checkpoint files one is modelled: setup takes them in     *)
(* turn and treats each the same.  An entry is a file or a directory with  *)
(* the pinned content (Valid) or anything else (Invalid).  The downloads,  *)
(* the prepared model and copies of both are verified by their digests.    *)
(***************************************************************************)
EXTENDS Naturals, FiniteSets

Entry == {"checkpoint", "model"}
Absent  == "absent"
Valid   == "valid"
Invalid == "invalid"

(* A path in a checkout: nothing, a link to the store of this machine or   *)
(* to another store, or a real entry of its own.                           *)
Place == {"missing", "linked", "foreign", "local", "spoiled"}

CONSTANTS Process,      \* the processes that run commands
          Checkout,     \* the checkouts of the repository
          Nobody,       \* the holder of a free lock
          Layouts,      \* what a checkout may hold at first
          MaxFaults,    \* bound on crashes and damaged files
          MaxRuns       \* bound on commands started

ASSUME StoreAssumption ==
  /\ IsFiniteSet(Process) /\ IsFiniteSet(Checkout)
  /\ Nobody \notin Process
  /\ Layouts \subseteq [Entry -> Place]
  /\ MaxFaults \in Nat /\ MaxRuns \in Nat \ {0}

VARIABLES
  stored,     \* entry -> its content at the final path of the store
  sealed,     \* whether the directory of the prepared model is read-only
  placed,     \* checkout -> entry -> what its path in build/ is
  storeLock,  \* the holder of the store's setup lock
  home,       \* process -> the checkout it works in, fixed
  run,        \* process -> the command it is running
  faults,     \* crashes and damaged files so far
  runs        \* commands started so far

storeVars == <<stored, sealed, placed, storeLock, home>>

Idle == [at |-> "idle", command |-> "", staged |-> Absent,
         identity |-> 0, read |-> {}, since |-> {}, quiet |-> FALSE]

StoreInit ==
  /\ stored = [e \in Entry |-> Absent]
  /\ sealed = FALSE
  /\ placed \in [Checkout -> Layouts]
  /\ storeLock = Nobody
  /\ home \in [Process -> Checkout]
  /\ run = [p \in Process |-> Idle]
  /\ faults = 0
  /\ runs = 0
-----------------------------------------------------------------------------
At(p, phase)  == run[p].at = phase
Goto(p, next) == run' = [run EXCEPT ![p].at = next]

(* A command that raises runs its finally clauses: the staged entry is     *)
(* removed and the lock given back.                                        *)
Stops(p)      == run' = [run EXCEPT ![p] = Idle]
Unlocked(p)   == IF storeLock = p THEN Nobody ELSE storeLock
Raises(p)     == Stops(p) /\ storeLock' = Unlocked(p)

(* What opening a checkout's path finds.                                   *)
Seen(c, e) ==
  CASE placed[c][e] = "missing" -> Absent
    [] placed[c][e] = "linked"  -> stored[e]
    [] placed[c][e] = "spoiled" -> Invalid
    [] OTHER -> Valid

(* link_state: a link whose target is gone is dangling.                    *)
LinkState(c, e) ==
  IF placed[c][e] = "linked" /\ stored[e] = Absent THEN "dangling"
  ELSE IF placed[c][e] = "spoiled" THEN "local" ELSE placed[c][e]

(* import_sources: a verified entry of any checkout that is not the one    *)
(* being provisioned.                                                      *)
Importable(e) == \E c \in Checkout : placed[c][e] # "linked" /\ Seen(c, e) = Valid
-----------------------------------------------------------------------------
(* setup: its checks may refuse before anything has changed.               *)
Refuse(p) ==
  /\ At(p, "lock")
  /\ Stops(p)
  /\ UNCHANGED <<storeVars, faults, runs>>

(* Mutant: two setups provision at the same time.                          *)
LockStoreShared(p) ==
  /\ At(p, "lock")
  /\ storeLock' = p
  /\ Goto(p, "checkpoint")
  /\ UNCHANGED <<stored, sealed, placed, faults, runs, home>>

LockStore(p) ==
  /\ At(p, "lock")
  /\ storeLock = Nobody
  /\ storeLock' = p
  /\ Goto(p, "checkpoint")
  /\ UNCHANGED <<stored, sealed, placed, faults, runs, home>>

(* ensure_checkpoint and ensure_model begin alike: a verified entry is     *)
(* kept, any other is moved out of the way and replaced.                   *)
ExamineCheckpoint(p) ==
  /\ At(p, "checkpoint")
  /\ Goto(p, IF stored["checkpoint"] = Valid THEN "model" ELSE "aside checkpoint")
  /\ UNCHANGED <<storeVars, faults, runs>>

SetAsideCheckpoint(p) ==
  /\ At(p, "aside checkpoint")
  /\ stored' = [stored EXCEPT !["checkpoint"] = Absent]
  /\ Goto(p, "fetch checkpoint")
  /\ UNCHANGED <<sealed, placed, storeLock, faults, runs, home>>

ExamineModel(p) ==
  /\ At(p, "model")
  /\ Goto(p, IF stored["model"] = Valid THEN "link checkpoint" ELSE "aside model")
  /\ UNCHANGED <<storeVars, faults, runs>>

SetAsideModel(p) ==
  /\ At(p, "aside model")
  /\ stored' = [stored EXCEPT !["model"] = Absent]
  /\ Goto(p, "fetch model")
  /\ UNCHANGED <<sealed, placed, storeLock, faults, runs, home>>

(* A file is cloned from a verified copy when there is one, into a staging *)
(* path of its own; the copy may have changed meanwhile.                   *)
ImportCheckpoint(p) ==
  /\ At(p, "fetch checkpoint") /\ Importable("checkpoint")
  /\ \E content \in {Valid, Invalid} :
       run' = [run EXCEPT ![p].staged = content, ![p].at = "publish checkpoint"]
  /\ UNCHANGED <<storeVars, faults, runs>>

(* Otherwise it is downloaded: only a complete file of the pinned digest   *)
(* gets the staging path's name.                                           *)
DownloadCheckpoint(p) ==
  /\ At(p, "fetch checkpoint") /\ ~Importable("checkpoint")
  /\ \/ /\ run' = [run EXCEPT ![p].staged = Valid, ![p].at = "publish checkpoint"]
        /\ UNCHANGED storeLock
     \/ Raises(p)
  /\ UNCHANGED <<stored, sealed, placed, faults, runs, home>>

(* The model is cloned from a verified copy when there is one; otherwise   *)
(* it is prepared from the checkpoint this checkout's links lead to.       *)
ImportModel(p) ==
  /\ At(p, "fetch model") /\ Importable("model")
  /\ \E content \in {Valid, Invalid} :
       run' = [run EXCEPT ![p].staged = content, ![p].at = "publish model"]
  /\ UNCHANGED <<storeVars, faults, runs>>

BeginPrepare(p) ==
  /\ At(p, "fetch model") /\ ~Importable("model")
  /\ Goto(p, "link to prepare")
  /\ UNCHANGED <<storeVars, faults, runs>>

PrepareModel(p) ==
  /\ At(p, "prepare")
  /\ \/ /\ run' = [run EXCEPT ![p].staged = Seen(home[p], "checkpoint"), ![p].at = "publish model"]
        /\ Seen(home[p], "checkpoint") # Absent
        /\ UNCHANGED storeLock
     \/ Raises(p)
  /\ UNCHANGED <<stored, sealed, placed, faults, runs, home>>

(* What was staged, in a place nobody else uses, is verified and then gets *)
(* its final name.                                                         *)
PublishCheckpoint(p) ==
  /\ At(p, "publish checkpoint")
  /\ IF run[p].staged = Valid
     THEN /\ stored' = [stored EXCEPT !["checkpoint"] = Valid]
          /\ run' = [run EXCEPT ![p].staged = Absent, ![p].at = "model"]
          /\ UNCHANGED storeLock
     ELSE Raises(p) /\ UNCHANGED stored
  /\ UNCHANGED <<sealed, placed, faults, runs, home>>

(* publish_directory: a rename, which needs the directory writable, and    *)
(* then the change of mode.                                                *)
PublishModel(p) ==
  /\ At(p, "publish model")
  /\ IF run[p].staged = Valid
     THEN /\ stored' = [stored EXCEPT !["model"] = Valid]
          /\ sealed' = FALSE
          /\ run' = [run EXCEPT ![p].staged = Absent, ![p].at = "seal"]
          /\ UNCHANGED storeLock
     ELSE Raises(p) /\ UNCHANGED <<stored, sealed>>
  /\ UNCHANGED <<placed, faults, runs, home>>

Seal(p) ==
  /\ At(p, "seal")
  /\ sealed' = TRUE
  /\ Goto(p, "link checkpoint")
  /\ UNCHANGED <<stored, placed, storeLock, faults, runs, home>>
-----------------------------------------------------------------------------
(* ensure_link looks first and replaces then; a real entry is kept and     *)
(* verified.  The model's link is the last, and the lock is given back.    *)
Links == {
  [at |-> "link to prepare", entry |-> "checkpoint", replace |-> "relink to prepare", next |-> "prepare"],
  [at |-> "link checkpoint", entry |-> "checkpoint", replace |-> "relink checkpoint", next |-> "link model"],
  [at |-> "link model", entry |-> "model", replace |-> "relink model", next |-> "lock tables"]}

Linked(p, link) ==
  /\ Goto(p, link.next)
  /\ storeLock' = IF link.entry = "model" THEN Nobody ELSE storeLock

LookAtLinkUnverified(p, link) ==    (* Mutant: a kept entry is trusted.    *)
  /\ At(p, link.at)
  /\ IF LinkState(home[p], link.entry) \in {"local", "linked"} THEN Linked(p, link)
     ELSE Goto(p, link.replace) /\ UNCHANGED storeLock
  /\ UNCHANGED <<stored, sealed, placed, home, faults, runs>>

LookAtLink(p, link) ==
  LET state == LinkState(home[p], link.entry)
  IN  /\ At(p, link.at)
      /\ IF state \notin {"local", "linked"} THEN Goto(p, link.replace) /\ UNCHANGED storeLock
         ELSE IF state = "local" /\ Seen(home[p], link.entry) # Valid THEN Raises(p)
         ELSE Linked(p, link)
      /\ UNCHANGED <<stored, sealed, placed, home, faults, runs>>

ReplaceLink(p, link) ==
  /\ At(p, link.replace)
  /\ placed' = [placed EXCEPT ![home[p]][link.entry] = "linked"]
  /\ Linked(p, link)
  /\ UNCHANGED <<stored, sealed, home, faults, runs>>

Provision(p) ==
  \/ Refuse(p) \/ LockStore(p)
  \/ ExamineCheckpoint(p) \/ SetAsideCheckpoint(p)
  \/ ImportCheckpoint(p) \/ DownloadCheckpoint(p)
  \/ PublishCheckpoint(p)
  \/ ExamineModel(p) \/ SetAsideModel(p)
  \/ ImportModel(p) \/ BeginPrepare(p) \/ PrepareModel(p) \/ PublishModel(p) \/ Seal(p)
  \/ \E link \in Links : LookAtLink(p, link) \/ ReplaceLink(p, link)
=============================================================================
