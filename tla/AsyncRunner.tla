----------------------------- MODULE AsyncRunner -----------------------------
(***************************************************************************)
(* The two-context runner behind asynchronous steps (QwenAsyncRunner in    *)
(* models/qwen2/runner.mojo, with stage_metadata and forward_staged).      *)
(*                                                                         *)
(* The host fills a pinned staging record and queues device commands that  *)
(* read it, on one of two contexts chosen by the parity of the ticket;     *)
(* each context runs its own queue in order, at its own pace.  A bank      *)
(* belongs to each context; the layer workspaces and the KV pool are       *)
(* shared by both.  A wait makes a context stop until the other one has    *)
(* run what was queued there when the wait was.                            *)
(***************************************************************************)
EXTENDS Integers, Sequences

CONSTANTS
  Shapes,      (* the steps the engine submits: [sources, samples]         *)
  MaxSamples,  (* sequences of a step, at most                             *)
  MaxSteps,    (* bound on the tickets between two resets                  *)
  MaxResets    (* bound on the resets                                      *)

ASSUME ShapesAssumption ==
  /\ MaxSamples \in Nat
  /\ Shapes \subseteq [sources : Seq(Int), samples : 0..MaxSamples]

VARIABLES
  banks,        (* per context: staging, metadata, selected, readback,     *)
                (* ticket, samples, pending                                *)
  commands,     (* per context: the commands queued and not yet run        *)
  executed,     (* per context: how many have run                          *)
  workspace,    (* what the layers last left for the selection             *)
  ran,          (* the steps whose rows are in the KV pool                 *)
  issued,       (* next_ticket                                             *)
  collectNext,  (* collect_ticket                                          *)
  valid,        (* model.valid                                             *)
  host,         (* "ready", "drain" inside drain, or "over": the caller    *)
                (* has drained tickets it did not collect                  *)
  steps,        (* the steps submitted since the last reset (history)      *)
  answered,     (* the last tokens returned (history)                      *)
  resets
hostVars   == <<issued, collectNext, valid, host, steps, answered, resets>>
deviceVars == <<commands, executed, workspace, ran>>
runnerVars == <<banks, deviceVars, hostVars>>

Tickets == INSTANCE TicketRunner
  WITH submitted <- steps, collected <- collectNext, answer <- answered, healthy <- valid

Contexts == {0, 1}
Faulty   == <<"nonfinite">>
Other(c) == 1 - c
Pending  == issued - collectNext

EmptyBank ==
  [staging |-> <<>>, metadata |-> <<>>, selected |-> [j \in 1..MaxSamples |-> <<>>],
   readback |-> <<>>, ticket |-> -1, samples |-> 0, pending |-> FALSE]

RunnerInit ==
  /\ banks = [c \in Contexts |-> EmptyBank]
  /\ commands = [c \in Contexts |-> <<>>] /\ executed = [c \in Contexts |-> 0]
  /\ workspace = <<>> /\ ran = <<>>
  /\ issued = 0 /\ collectNext = 0 /\ valid = TRUE /\ host = "ready"
  /\ steps = <<>> /\ answered = <<>> /\ resets = 0
-----------------------------------------------------------------------------
Chained(step) == Tickets!Chained(step)

(* stage_metadata: the host's record of the step.                          *)
Staged(step) == [step |-> issued + 1, sources |-> step.sources, samples |-> step.samples]

(* The commands of a step on its context, in the order they are queued.    *)
QueuedEnd(c) == executed[c] + Len(commands[c])
(* Mutant: the contexts are not ordered.                                   *)
NoWait(c) == <<>>
WaitForPredecessor(c) == <<[op |-> "wait", until |-> QueuedEnd(Other(c))]>>
StepCommands(c, step) ==
  (IF issued > 0 THEN WaitForPredecessor(c) ELSE <<>>)
    \o (<<[op |-> "upload"]>>
    \o ((IF Chained(step) THEN <<[op |-> "chain"]>> ELSE <<>>)
    \o (<<[op |-> "layers"]>> \o (<<[op |-> "select"]>>
    \o (IF step.samples > 0 THEN <<[op |-> "readback"]>> ELSE <<>>)))))

QueueCommands(c, list) == commands' = [commands EXCEPT ![c] = @ \o list]

(* The checks before anything is queued.                                   *)
Accepted(c, step) ==
  /\ valid /\ Pending < 2
  /\ Chained(step) =>
       /\ issued > 0 /\ banks[Other(c)].ticket = issued - 1
       /\ \A i \in DOMAIN step.sources : step.sources[i] < banks[Other(c)].samples
  /\ ~banks[c].pending

Submit(step) ==
  LET c == issued % 2 IN
  /\ host = "ready" /\ issued < MaxSteps /\ Accepted(c, step)
  /\ QueueCommands(c, StepCommands(c, step))
  /\ banks' = [banks EXCEPT ![c] = [@ EXCEPT !.staging = Staged(step), !.ticket = issued,
                                             !.samples = step.samples, !.pending = TRUE]]
  /\ issued' = issued + 1
  /\ steps' = Append(steps, step)
  /\ UNCHANGED <<executed, workspace, ran, collectNext, valid, host, answered, resets>>

(* An enqueue fails with the commands before it already on their way.      *)
SubmitFails(step, n) ==
  LET c == issued % 2 IN
  /\ host = "ready" /\ issued < MaxSteps /\ Accepted(c, step)
  /\ n < Len(StepCommands(c, step))
  /\ QueueCommands(c, SubSeq(StepCommands(c, step), 1, n))
  /\ banks' = [banks EXCEPT ![c].staging = Staged(step)]
  /\ valid' = FALSE /\ host' = "drain"
  /\ UNCHANGED <<executed, workspace, ran, issued, collectNext, steps, answered, resets>>

(* Synchronizing with a context returns once it has run its queue.         *)
Synchronized(c) == commands[c] = <<>>

ReadTokens(c) == [j \in 1..banks[c].samples |-> banks[c].readback[j]]

Collect ==
  LET c == collectNext % 2 IN
  /\ host = "ready" /\ valid /\ collectNext < issued
  /\ banks[c].pending /\ banks[c].ticket = collectNext
  /\ Synchronized(c)
  /\ \A j \in 1..banks[c].samples : ReadTokens(c)[j] # Faulty
  /\ answered' = <<collectNext + 1, ReadTokens(c)>>
  /\ banks' = [banks EXCEPT ![c].pending = FALSE]
  /\ collectNext' = collectNext + 1
  /\ UNCHANGED <<deviceVars, issued, valid, host, steps, resets>>

(* The context reports an error, or a result is not a token.               *)
CollectFails ==
  /\ host = "ready" /\ valid /\ collectNext < issued
  /\ valid' = FALSE /\ host' = "drain"
  /\ UNCHANGED <<banks, deviceVars, issued, collectNext, steps, answered, resets>>

(* drain: both contexts have run everything, or nothing is given up.  Only *)
(* a caller that has failed drains tickets it has not collected, and it    *)
(* submits no more (_fail_async of the engine).                            *)
StartDrain ==
  /\ host = "ready"
  /\ host' = "drain"
  /\ UNCHANGED <<banks, deviceVars, issued, collectNext, valid, steps, answered, resets>>

(* Mutant: only the first context is waited for.                           *)
FirstSynchronized == Synchronized(0)
AllSynchronized == \A c \in Contexts : Synchronized(c)

DrainBoth ==
  /\ host = "drain" /\ AllSynchronized
  /\ banks' = [c \in Contexts |-> [banks[c] EXCEPT !.pending = FALSE]]
  /\ collectNext' = issued
  /\ host' = IF Pending = 0 THEN "ready" ELSE "over"
  /\ UNCHANGED <<deviceVars, issued, valid, steps, answered, resets>>

DrainFails ==
  /\ host = "drain"
  /\ valid' = FALSE /\ host' = "ready"
  /\ UNCHANGED <<banks, deviceVars, issued, collectNext, steps, answered, resets>>

(* reset_clock, whose own drain succeeds: the queues are empty, and their  *)
(* commands are counted afresh.  The rows of earlier tickets stay in the   *)
(* KV pool; the new ones do not read them.                                 *)
ResetClock ==
  /\ host = "ready" /\ Pending = 0 /\ AllSynchronized /\ resets < MaxResets
  /\ banks' = [c \in Contexts |-> [banks[c] EXCEPT !.ticket = -1, !.samples = 0, !.pending = FALSE]]
  /\ issued' = 0 /\ collectNext' = 0
  /\ executed' = [c \in Contexts |-> 0] /\ ran' = <<>>
  /\ steps' = <<>> /\ answered' = <<>> /\ resets' = resets + 1
  /\ UNCHANGED <<commands, workspace, valid, host>>

(* chat_invalidate.                                                        *)
Invalidate ==
  /\ host = "ready" /\ valid
  /\ valid' = FALSE
  /\ UNCHANGED <<banks, deviceVars, issued, collectNext, host, steps, answered, resets>>
-----------------------------------------------------------------------------
(* The contexts.                                                           *)
Usable(token) == IF token = Faulty THEN <<>> ELSE token

Runs(c, op) == commands[c] # <<>> /\ Head(commands[c]).op = op
CommandRun(c) ==
  /\ commands' = [commands EXCEPT ![c] = Tail(@)]
  /\ executed' = [executed EXCEPT ![c] = @ + 1]
  /\ UNCHANGED hostVars

Wait(c) ==
  /\ Runs(c, "wait") /\ executed[Other(c)] >= Head(commands[c]).until
  /\ CommandRun(c) /\ UNCHANGED <<banks, workspace, ran>>

Upload(c) ==
  /\ Runs(c, "upload")
  /\ LET staged == banks[c].staging IN
     banks' = [banks EXCEPT ![c].metadata =
       [step |-> staged.step, sources |-> staged.sources, samples |-> staged.samples,
        tokens |-> [i \in DOMAIN staged.sources |-> <<staged.step, i>>]]]
  /\ CommandRun(c) /\ UNCHANGED <<workspace, ran>>

(* _chain_tokens: the encoded rows take their tokens from the other bank,  *)
(* or zero where the selection there met nonfinite logits.                 *)
ChainTokens(c) ==
  /\ Runs(c, "chain")
  /\ LET sources == banks[c].metadata.sources IN
     banks' = [banks EXCEPT ![c].metadata.tokens =
       [i \in DOMAIN @ |-> IF sources[i] < 0 THEN @[i]
                          ELSE Usable(banks[Other(c)].selected[sources[i] + 1])]]
  /\ CommandRun(c) /\ UNCHANGED <<workspace, ran>>

(* The layers write their rows to the KV pool and leave their outputs in   *)
(* the workspace; the selection reads these.                               *)
Layers(c) ==
  /\ Runs(c, "layers")
  /\ ran' = Append(ran, banks[c].metadata.step)
  /\ workspace' = [tokens |-> banks[c].metadata.tokens, ran |-> ran']
  /\ CommandRun(c) /\ UNCHANGED banks

(* Any one of a step's samples may be nonfinite.                           *)
SelectTokens(c) ==
  /\ Runs(c, "select")
  /\ LET samples == banks[c].metadata.samples IN
     \E bad \in 0..samples :
       banks' = [banks EXCEPT ![c].selected =
         [j \in DOMAIN @ |-> IF j > samples THEN @[j] ELSE IF j = bad THEN Faulty
                            ELSE Tickets!Token(j, workspace.tokens, workspace.ran)]]
  /\ CommandRun(c) /\ UNCHANGED <<workspace, ran>>

Readback(c) ==
  /\ Runs(c, "readback")
  /\ banks' = [banks EXCEPT ![c].readback = banks[c].selected]
  /\ CommandRun(c) /\ UNCHANGED <<workspace, ran>>

HostNext ==
  \/ \E step \in Shapes : Submit(step)
  \/ \E step \in Shapes, n \in 0..5 : SubmitFails(step, n)
  \/ Collect
  \/ CollectFails
  \/ StartDrain
  \/ DrainBoth
  \/ DrainFails
  \/ ResetClock
  \/ Invalidate

ContextNext(c) == Wait(c) \/ Upload(c) \/ ChainTokens(c) \/ Layers(c) \/ SelectTokens(c) \/ Readback(c)

RunnerNext == HostNext \/ \E c \in Contexts : ContextNext(c)

RunnerSpec == RunnerInit /\ [][RunnerNext]_runnerVars
-----------------------------------------------------------------------------
(* The runner is the ticket service: whatever the pace of the two          *)
(* contexts, the tokens collected are those of running the submitted steps *)
(* one after the other.  No staging record, metadata, result bank or       *)
(* workspace is overwritten while a queued command still reads it, and no  *)
(* token computed from a nonfinite one is returned (submit and collect of  *)
(* QwenAsyncRunner, _chain_tokens).                                        *)
RunsInOrder == Tickets!TicketSpec

(* Once a drain has succeeded, or a healthy runner has nothing pending, no *)
(* command is left on either context: callers release KV blocks and reuse  *)
(* rows on that ground (drain: "No caller may release KV allocations until *)
(* these waits succeed").                                                  *)
IdleIsDone ==
  Pending = 0 /\ (host = "over" \/ (host = "ready" /\ valid)) =>
    \A c \in Contexts : commands[c] = <<>>
=============================================================================
