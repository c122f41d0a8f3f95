------------------------------- MODULE Setup -------------------------------
(***************************************************************************)
(* The commands that share the store and the build products: setup (which  *)
(* provisions, generates and compiles), the launch of chat or generate,    *)
(* and the tokenizer command, run at once in one checkout or in several,   *)
(* killed at any point, with sources edited and files damaged in between.  *)
(***************************************************************************)
EXTENDS CheckoutBuild

VARIABLE promised   \* checkouts setup has called ready, undisturbed since (history)

setupVars == <<storeVars, run, faults, runs, buildVars, promised>>

Commands == {"setup", "launch", "tokenizer"}
FirstOf(command) ==
  CASE command = "setup" -> "lock" [] command = "launch" -> "prepared" [] OTHER -> "lock tables"

SetupInit == StoreInit /\ BuildInit /\ promised = {}
-----------------------------------------------------------------------------
Start(p) ==
  /\ At(p, "idle") /\ runs < MaxRuns
  /\ runs' = runs + 1
  /\ \E command \in Commands :
       run' = [run EXCEPT ![p] = [Idle EXCEPT !.at = FirstOf(command), !.command = command,
                 !.quiet = command = "setup",
                 !.since = IF command = "setup" THEN {} ELSE {version[home[p]]}]]
  /\ UNCHANGED <<storeVars, faults, buildVars, promised>>

(* prepare_launch verifies the prepared model through the link, without a  *)
(* lock.                                                                   *)
VerifyPrepared(p) ==
  /\ At(p, "prepared")
  /\ IF Seen(home[p], "model") = Valid THEN Goto(p, "lock tables") ELSE Stops(p)
  /\ UNCHANGED <<storeVars, faults, runs, buildVars, promised>>

(* The command has its binary; setup says "Ready", the others execute it.  *)
Built(p) ==
  /\ At(p, "built")
  /\ buildLock' = [buildLock EXCEPT ![home[p]] = Nobody]
  /\ promised' = IF run[p].command = "setup" /\ run[p].quiet THEN promised \cup {home[p]} ELSE promised
  /\ IF run[p].command = "setup" THEN Stops(p) ELSE Goto(p, "execute")
  /\ UNCHANGED <<storeVars, faults, runs, version, tables, manifest, binary, receipt, assetLock, edits>>

Execute(p) ==
  /\ At(p, "execute")
  /\ Stops(p)
  /\ UNCHANGED <<storeVars, faults, runs, buildVars, promised>>
-----------------------------------------------------------------------------
(* Everybody who works in a checkout sees its new sources.                 *)
Generating(c) == \E p \in Process : home[p] = c /\ At(p, "generate")
Compiling(c)  == \E p \in Process : home[p] = c /\ run[p].at \in {"compile", "compiled"}

Edit(c, v) ==
  /\ edits < MaxEdits /\ v # version[c]
  /\ Generating(c) => MayEditTables
  /\ Compiling(c) /\ v < version[c] => MayRestore
  /\ edits' = edits + 1
  /\ version' = [version EXCEPT ![c] = v]
  /\ run' = [p \in Process |-> IF home[p] = c
               THEN [run[p] EXCEPT !.since = IF @ = {} THEN {} ELSE @ \cup {v}, !.quiet = FALSE]
               ELSE run[p]]
  /\ promised' = promised \ {c}
  /\ UNCHANGED <<storeVars, faults, runs, tables, manifest, binary, receipt, assetLock, buildLock>>

(* A command dies: its locks are given back, its staged entry stays behind *)
(* under a name nobody uses again.                                         *)
Crash(p) ==
  /\ ~At(p, "idle") /\ faults < MaxFaults
  /\ faults' = faults + 1
  /\ Raises(p)
  /\ assetLock' = [c \in Checkout |-> IF assetLock[c] = p THEN Nobody ELSE assetLock[c]]
  /\ buildLock' = [c \in Checkout |-> IF buildLock[c] = p THEN Nobody ELSE buildLock[c]]
  /\ UNCHANGED <<stored, sealed, placed, home, runs, version, tables, manifest, binary, receipt, edits, promised>>

(* A file is damaged; what depended on it is no longer promised.           *)
Disturbed == [p \in Process |-> [run[p] EXCEPT !.quiet = FALSE]]

DamageStore(e) ==
  /\ faults < MaxFaults /\ stored[e] = Valid
  /\ faults' = faults + 1
  /\ stored' = [stored EXCEPT ![e] = Invalid]
  /\ promised' = {} /\ run' = Disturbed
  /\ UNCHANGED <<sealed, placed, storeLock, home, runs, buildVars>>

DamageLocal(c, e) ==
  /\ faults < MaxFaults /\ placed[c][e] = "local"
  /\ faults' = faults + 1
  /\ placed' = [placed EXCEPT ![c][e] = "spoiled"]
  /\ promised' = {} /\ run' = Disturbed
  /\ UNCHANGED <<stored, sealed, storeLock, home, runs, buildVars>>

SetupNext ==
  \/ \E p \in Process :
       \/ Start(p) \/ VerifyPrepared(p) \/ Built(p) \/ Execute(p) \/ Crash(p)
       \/ Provision(p) /\ UNCHANGED <<buildVars, promised>>
       \/ Build(p) /\ UNCHANGED promised
  \/ \E c \in Checkout, v \in Version : Edit(c, v)
  \/ \E e \in Entry : DamageStore(e) \/ \E c \in Checkout : DamageLocal(c, e)

SetupSpec == SetupInit /\ [][SetupNext]_setupVars
-----------------------------------------------------------------------------
(* The store holds what was verified: unless a file is damaged, a valid    *)
(* entry is never moved, overwritten or removed, and whatever gets its     *)
(* final name is complete and valid, whichever setups run at once and      *)
(* wherever they die.                                                      *)
StoreOnlyImproves ==
  [][faults' = faults => \A e \in Entry :
       /\ stored[e] = Valid => stored'[e] = Valid
       /\ stored'[e] # stored[e] => stored'[e] \in {Absent, Valid}]_setupVars

(* setup --check, computed from what is there.                             *)
Ready(c) ==
  /\ \A e \in Entry : stored[e] = Valid
  /\ \A e \in Entry : LinkState(c, e) \in {"linked", "local"} /\ Seen(c, e) = Valid
  /\ PreparedValid(c)
  /\ Current(c, version[c])

(* "Ready" is a promise: as long as nobody edits sources or damages files, *)
(* setup --check agrees, whatever other commands do and wherever they die. *)
ReadyStays == \A c \in promised : Ready(c)

(* A launch executes a binary compiled from sources its checkout had since *)
(* the launch began, and not from a mixture, and reads tables that the     *)
(* generator of such sources made.                                         *)
LaunchIsFresh ==
  \A p \in Process : At(p, "execute") =>
    \E v, w \in run[p].since : binary[home[p]] = {v} /\ tables[home[p]] = {w}

(* The tables' "validity is keyed to that checkout's generator sources":   *)
(* tables that count as valid were made by the generator at hand.          *)
ValidTablesAreOwn ==
  \A c \in Checkout : PreparedValid(c) => tables[c] = {version[c]}
=============================================================================
