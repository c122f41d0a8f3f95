----------------------------- MODULE EngineAsync -----------------------------
(***************************************************************************)
(* Asynchronous stepping (EngineCore.step_async and drain_async): one call *)
(* schedules and submits a successor of the outstanding step, and only     *)
(* then collects that step's tokens.  At most one step is outstanding      *)
(* between calls, two inside one.                                          *)
(*                                                                         *)
(* The scheduler is the one of synchronous stepping.  The tokens a step    *)
(* will select are decided when it is submitted but stay in `queue' until  *)
(* it is collected; its successor's inputs may name them before that.      *)
(*                                                                         *)
(* The phases of EngineScheduler are shared; "execute" and "commit" stand  *)
(* for the submission of the chosen batch, "pressure" for the check before *)
(* a successor, "retire" for the collection of the oldest step, "lost" for *)
(* the runner's drain after a failure.  An engine steps synchronously      *)
(* until its first asynchronous step, and never again.                     *)
(***************************************************************************)
EXTENDS EngineSync

LOCAL Sets == INSTANCE FiniteSetsExt
LOCAL Seqs == INSTANCE SequencesExt

VARIABLES
  enabled,    (* the engine has stepped asynchronously                     *)
  draining,   (* the call in progress is drain_async                       *)
  queue,      (* submitted steps, oldest first; the first is being retired *)
              (* while a call is in progress                               *)
  inflight    (* per uncollected ticket of the runner: the requests and    *)
              (* blocks it may still use                                   *)

asyncVars == <<allVars, enabled, draining, queue, inflight>>
Stepping  == <<enabled, draining, queue, inflight>>

AsyncInit ==
  /\ EngineInit
  /\ enabled = FALSE
  /\ draining = FALSE
  /\ queue = <<>>
  /\ inflight = <<>>

(* Asynchronous steps refuse prefix caching and prefill caps.              *)
BeginAsync ==
  /\ Idling /\ ~failed
  /\ ~mode.prefix /\ entries = <<>> /\ PrefillCap = 0
  /\ enabled' = TRUE
  /\ Goto("boundary")
  /\ OnlyStep /\ UNCHANGED <<draining, queue, inflight>>

(* drain_async, also on an engine that failed without draining.            *)
BeginDrain ==
  /\ Idling /\ queue # <<>>
  /\ draining' = TRUE
  /\ Goto("boundary")
  /\ OnlyStep /\ UNCHANGED <<enabled, queue, inflight>>

BoundaryPassed ==
  /\ enabled /\ Phase("boundary") /\ Due = {}
  /\ Goto(IF draining THEN "retire" ELSE IF queue = <<>> THEN FirstPass ELSE "pressure")
  /\ OnlyStep /\ UNCHANGED Stepping
-----------------------------------------------------------------------------
(* _pressure_requires_drain: whether the successor's growth might have to  *)
(* evict somebody, by an upper bound on what it would take.                *)
Growing == {i \in DOMAIN requests :
              requests[i].state = DECODE /\ Generated(i) + requests[i].samples < requests[i].maximum}

OlderGrowing(i) == {j \in Growing : requests[j].ticket < requests[i].ticket}
Decoding == {i \in Growing : Cardinality(OlderGrowing(i)) < Smaller(TokenBudget, MaxSequences)}

Standalone == ~mode.mixed /\ Oldest(PREFILL, {}) # {}

(* Mutant: only the decodes grow.                                          *)
NoPrefilling(decodes) == {}
Prefilling(decodes) ==
  IF Standalone \/ (mode.mixed /\ Cardinality(decodes) < Smaller(TokenBudget, MaxSequences))
  THEN Oldest(PREFILL, {}) ELSE {}

ChunkLeft(i, decodes) ==
  Smaller(TokenBudget - Cardinality(decodes), History(i) - Past(i))

Pressure ==
  LET decodes == IF Standalone THEN {} ELSE Decoding
      growth  == Sets!MapThenSumSet(LAMBDA i : Needed(i, Past(i) + 1), decodes)
      chunk   == Sets!MapThenSumSet(LAMBDA i : Needed(i, Past(i) + ChunkLeft(i, decodes)),
                               Prefilling(decodes))
  IN  ~mode.lifetime /\ growth + chunk > Len(free)

(* Then there is no successor, and the next call submits afresh.           *)
PressureDrains ==
  /\ Phase("pressure") /\ Pressure
  /\ step' = [NoStep EXCEPT !.phase = "retire"]
  /\ OnlyStep /\ UNCHANGED Stepping

PressurePasses ==
  /\ Phase("pressure") /\ ~Pressure
  /\ step' = [NoStep EXCEPT !.phase = FirstPass]
  /\ OnlyStep /\ UNCHANGED Stepping
-----------------------------------------------------------------------------
(* _submit_async.  With nothing selected there is no step, or no successor.*)
NothingSelected ==
  /\ enabled /\ Phase("build") /\ step.chosen = <<>>
  /\ step' = IF queue = <<>> THEN NoStep ELSE [NoStep EXCEPT !.phase = "retire"]
  /\ OnlyStep /\ UNCHANGED Stepping

(* A request's tokens as the runner knows them: those delivered, and those *)
(* the outstanding steps have selected for it.                             *)
ResultOf(p, i) ==
  Seqs!FlattenSeq([k \in DOMAIN p.selected |-> IF p.selected[k] = i THEN p.results[k] ELSE <<>>])
Promised(i) == Seqs!FlattenSeq([p \in DOMAIN queue |-> ResultOf(queue[p], i)])

Heads(k)     == Past(step.chosen[k].index) + step.chosen[k].count = History(step.chosen[k].index)
BatchTables  ==
  UNION {LET r == requests[step.chosen[k].index] IN {r.ticket} \X Range(tables[r.sequence]) :
           k \in DOMAIN step.chosen}

(* The runner enqueues sequence by sequence; with the last one it returns  *)
(* the ticket.                                                             *)
Enqueue ==
  /\ enabled /\ Phase("execute")
  /\ WriteRows(Sequence, lengths[Sequence] + Current.count, Request.tokens \o Promised(Current.index))
  /\ Advance("commit")
  /\ IF step.done + 1 < Len(step.chosen) THEN UNCHANGED <<queue, inflight>>
     ELSE /\ \E tokens \in [DOMAIN step.chosen -> Sampled] :
               queue' = Append(queue,
                 [selected |-> [k \in DOMAIN step.chosen |-> step.chosen[k].index],
                  tickets  |-> [k \in DOMAIN step.chosen |-> requests[step.chosen[k].index].ticket],
                  results  |-> [k \in DOMAIN step.chosen |-> IF Heads(k) THEN <<tokens[k]>> ELSE <<>>]])
          /\ inflight' = Append(inflight, BatchTables)
  /\ UNCHANGED <<cacheVars, mode, requests, nextTicket, account, failed, enabled, draining>>

CountUse(r, head) ==
  IF head THEN [r EXCEPT !.uses = @ + 1, !.samples = @ + 1, !.state = DECODE]
  ELSE [r EXCEPT !.uses = @ + 1]

(* Only then are the sequences committed and the uses counted.             *)
CommitEnqueued ==
  /\ enabled /\ Phase("commit")
  /\ Commit(Sequence)
  /\ requests' = [requests EXCEPT ![Current.index] =
       CountUse(@, queue[Len(queue)].results[step.done + 1] # <<>>)]
  /\ IF step.done + 1 < Len(step.chosen)
     THEN step' = [step EXCEPT !.done = @ + 1]
     ELSE step' = [NoStep EXCEPT !.phase = IF Len(queue) = 1 THEN "pressure" ELSE "retire"]
  /\ KeepRows
  /\ UNCHANGED <<cacheVars, mode, nextTicket, account, failed>> /\ UNCHANGED Stepping
-----------------------------------------------------------------------------
(* _retire_async: the oldest step's results, one request after the other.  *)
(* A request that has ended keeps its blocks until its last use retires,   *)
(* and what was selected for it since is discarded.                        *)
Retiree == queue[1].selected[step.done + 1]
Result  == queue[1].results[step.done + 1]

Settled(r) ==
  [r EXCEPT !.uses = @ - 1, !.samples = IF Result = <<>> THEN @ ELSE @ - 1]

(* Mutant: a terminal request gives its blocks up at once.                 *)
GoneAtOnce(r) == r.state = DRAINING
Gone(r)       == r.state = DRAINING /\ r.uses = 0

Conclude(i, r) ==
  IF Gone(r)
  THEN requests' = [requests EXCEPT ![i] = Retired(r)] /\ ReleaseHeld(i)
  ELSE requests' = [requests EXCEPT ![i] = r] /\ UNCHANGED vars

(* collect comes before the first result and completes the ticket; an      *)
(* invalid runner collects nothing.                                        *)
RetireNext ==
  /\ Phase("retire") /\ ~failed
  /\ IF step.done + 1 = Len(queue[1].selected)
     THEN /\ queue' = Tail(queue) /\ step' = NoStep /\ draining' = FALSE
     ELSE /\ queue' = [queue EXCEPT ![1].results[step.done + 1] = <<>>]
          /\ step' = [step EXCEPT !.done = @ + 1]
          /\ UNCHANGED draining
  /\ inflight' = IF step.done = 0 THEN Tail(inflight) ELSE inflight
  /\ UNCHANGED <<cacheVars, mode, nextTicket, failed, enabled>>

RetireSilently ==
  /\ RetireNext
  /\ Result = <<>> \/ requests[Retiree].state = DRAINING
  /\ Conclude(Retiree, Settled(requests[Retiree]))
  /\ KeepRows
  /\ UNCHANGED account

Ends(i, token) == token = Stop \/ LastToken(i)

RetireToken ==
  LET i     == Retiree
      token == Result[1]
      r     == [Settled(requests[i]) EXCEPT !.tokens = Append(@, token)]
  IN  /\ RetireNext
      /\ Result # <<>> /\ requests[i].state # DRAINING
      /\ IF Ends(i, token)
         THEN /\ Conclude(i, [r EXCEPT !.state = DRAINING])
              /\ account' = [account EXCEPT ![r.ticket].tokens = Append(@, token),
                   ![r.ticket].finish = Append(@, IF token = Stop THEN "stop" ELSE "length")]
         ELSE Conclude(i, r) /\ account' = [account EXCEPT ![r.ticket].tokens = Append(@, token)]
      /\ KeepRows
-----------------------------------------------------------------------------
(* Submission may raise before, between or after the runner's writes, and  *)
(* collection may raise; the step being retired is forgotten either way.   *)
SubmitRaises ==
  /\ enabled /\ MayFail /\ Executing
  /\ inflight' = IF Phase("execute") THEN Append(inflight, BatchTables) ELSE inflight
  /\ queue' = <<>>

CollectRaises ==
  /\ Phase("retire") /\ step.done = 0
  /\ MayFail \/ failed
  /\ queue' = Tail(queue)
  /\ UNCHANGED inflight

AsyncFails ==
  /\ SubmitRaises \/ CollectRaises
  /\ failed' = TRUE
  /\ step' = [NoStep EXCEPT !.phase = "lost"]
  /\ UNCHANGED <<vars, cacheVars, image, mode, requests, nextTicket, account, enabled, draining>>

(* _fail_async drains the runner first.  If that raises as well, ownership *)
(* is kept: nothing proves that the device is done with it.                *)
DrainRaises ==
  /\ Phase("lost") /\ MayFail
  /\ step' = NoStep /\ draining' = FALSE
  /\ OnlyStep /\ UNCHANGED <<enabled, queue, inflight>>

Drained ==
  /\ Phase("lost")
  /\ Goto("failing")
  /\ inflight' = <<>> /\ queue' = <<>>
  /\ requests' = [i \in DOMAIN requests |-> [requests[i] EXCEPT !.uses = 0, !.samples = 0]]
  /\ UNCHANGED <<vars, cacheVars, image, mode, nextTicket, account, failed, enabled, draining>>

(* Requests that had ended are only released; the others end now.          *)
ReleaseDrained(i) ==
  /\ CloseRequest(i)
  /\ KeepRows
  /\ UNCHANGED <<cacheVars, mode, nextTicket, account>>

AsyncFailRequest ==
  /\ enabled /\ Phase("failing")
  /\ \E i \in LiveSlots :
       /\ \A j \in LiveSlots : i <= j
       /\ IF requests[i].state = DRAINING THEN ReleaseDrained(i) ELSE Finish(i, "error")
  /\ UNCHANGED <<step, failed>> /\ UNCHANGED Stepping

FailsWithoutRelease == (* Mutant: the drained requests are not released.    *)
  /\ enabled /\ Phase("failing")
  /\ step' = NoStep /\ draining' = FALSE
  /\ OnlyStep /\ UNCHANGED <<enabled, queue, inflight>>

AsyncFailDone ==
  /\ enabled /\ Phase("failing") /\ LiveSlots = {}
  /\ step' = NoStep /\ draining' = FALSE
  /\ OnlyStep /\ UNCHANGED <<enabled, queue, inflight>>
-----------------------------------------------------------------------------
HostCalls == (Host \/ CacheClears) /\ UNCHANGED Stepping

SyncContinues == ~enabled /\ StepContinues /\ UNCHANGED Stepping
SyncStep      == ~enabled /\ (BeginStep \/ ExecuteFails) /\ UNCHANGED Stepping

AsyncContinues ==
  \/ enabled /\ (BoundaryFinish \/ Schedule \/ BuildBatch) /\ UNCHANGED Stepping
  \/ BoundaryPassed
  \/ PressureDrains \/ PressurePasses
  \/ NothingSelected \/ Enqueue \/ CommitEnqueued
  \/ RetireSilently \/ RetireToken
  \/ Drained \/ AsyncFailRequest \/ AsyncFailDone

AsyncNext ==
  \/ HostCalls \/ SyncStep \/ SyncContinues
  \/ BeginAsync \/ BeginDrain \/ AsyncContinues
  \/ AsyncFails \/ DrainRaises

AsyncSpec == AsyncInit /\ [][AsyncNext]_asyncVars

(* A host loop keeps stepping while requests are live, from some step on   *)
(* asynchronously, and a step that has begun runs to its end.  Hosts owe   *)
(* no request, abort or cache clear, and nothing makes the runner fail.    *)
StepsAgain ==
  LiveSlots # {} /\ (BeginAsync \/ (~enabled /\ BeginStep /\ UNCHANGED Stepping))

FairAsync ==
  /\ AsyncSpec
  /\ WF_asyncVars(SyncContinues \/ AsyncContinues)
  /\ WF_asyncVars(StepsAgain)
-----------------------------------------------------------------------------
(* Until the runner has collected or drained a ticket, every block its     *)
(* batch names is held by the request it ran for: nothing is released,     *)
(* preempted or truncated under queued device work, not even after a       *)
(* failure whose drain raised.                                             *)
InFlightHeld ==
  \A use \in UNION Range(inflight) :
    \E i \in DOMAIN requests :
      requests[i].ticket = use[1] /\ Held(i) /\ use[2] \in Range(tables[requests[i].sequence])

(* Whether a queued step selects a token for the request.                  *)
SelectedFor(p, i) == \E k \in DOMAIN p.selected : p.selected[k] = i /\ p.results[k] # <<>>

(* check(), between calls: outstanding uses and samples are exactly those  *)
(* of the queued step, which still names its requests by their own ticket, *)
(* and a request that has ended lingers for its uses only.                 *)
PendingAccounted ==
  Idling /\ ~failed =>
    /\ Len(queue) <= 1
    /\ \A p \in DOMAIN queue : \A k \in DOMAIN queue[p].selected :
         requests[queue[p].selected[k]].ticket = queue[p].tickets[k]
    /\ \A i \in DOMAIN requests :
         /\ requests[i].uses = Cardinality({p \in DOMAIN queue : i \in Range(queue[p].selected)})
         /\ requests[i].samples = Cardinality({p \in DOMAIN queue : SelectedFor(queue[p], i)})
         /\ requests[i].state = DRAINING => requests[i].uses > 0

(* The engine's own audit never raises: requests, sequences and the queued *)
(* step agree between any two calls of the host.                           *)
EngineAudit == RequestsConsistent /\ PendingAccounted

(* "Incremental pressure drains pending work before preemption": with a    *)
(* step outstanding, a successor never finds the pool too short to grow.   *)
SuccessorNeverEvicts == Phase("room") /\ queue # <<>> /\ ~mode.lifetime => ~Short

(* A symbolic token is always the immediately preceding step's selection:  *)
(* a batch runs past the delivered tokens by one position at most, and     *)
(* then that step selected for the same request.                           *)
ChainedToPredecessor ==
  enabled /\ Phase("execute") /\ step.done = 0 =>
    \A k \in DOMAIN step.chosen :
      LET i == step.chosen[k].index
      IN  Past(i) + step.chosen[k].count > Len(requests[i].tokens) =>
            /\ Past(i) + step.chosen[k].count = Len(requests[i].tokens) + 1
            /\ requests[i].samples = 1 /\ Len(queue) = 1 /\ Len(ResultOf(queue[1], i)) = 1

(* Rows written from symbolic tokens are those of the history that is      *)
(* delivered later.                                                        *)
AsyncKVCorrect ==
  ~failed => \A i \in DOMAIN requests :
    Held(i) => HoldsHistory(requests[i].sequence, requests[i].tokens \o Promised(i))

(* A successor computed ahead of its predecessor's tokens computes what it *)
(* would have after them.                                                  *)
ChainedAsDelivered == ChainedToPredecessor /\ AsyncKVCorrect

(* A failure invalidates the engine but leaks nothing: every request has   *)
(* ended and every block is free and empty, cached ones too, unless the    *)
(* drain raised as well: then the runner has uncollected tickets, and      *)
(* requests still hold what the device may use.                            *)
FailureReleases ==
  failed /\ Idling =>
    \/ inflight # <<>> /\ LiveSlots # {}
    \/ /\ LiveSlots = {}
       /\ Len(free) = Cardinality(Block)
       /\ \A b \in Block : written[b] = 0
       /\ inflight = <<>>
=============================================================================
