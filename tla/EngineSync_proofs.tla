------------------------- MODULE EngineSync_proofs --------------------------
(***************************************************************************)
(* The synchronous step from its boundary to its last token, and what the  *)
(* invariant of EngineScheduler_proofs says of the whole engine: rows are  *)
(* those of the histories delivered, requests come first that came first,  *)
(* no step runs into one of the code's own checks, the audit between two   *)
(* calls holds, and preemption never reaches the oldest request.           *)
(*                                                                         *)
(* The last two need a little more than the invariant: that a failed       *)
(* engine is left empty (LeftEmpty), and that the whole pool could hold    *)
(* any live request at its peak (Fits), which is checked when the request  *)
(* is added.                                                               *)
(***************************************************************************)
EXTENDS EngineScheduler_proofs

USE DEF Slot, State, RESET, PARTIAL, COMPLETE, REGISTERED, WAITING, PREFILL, DECODE, FINISHED, DRAINING
-----------------------------------------------------------------------------
(* Nothing selected and nothing in progress: the call is outside its       *)
(* choice.                                                                 *)
LEMMA Outside ==
  ASSUME EngineInv, OnlyStep, call = Idle, ~failed, step.phase \notin Running \cup {"reserve"},
         step' \in StepType, step'.phase \in Still \ {"pressure", "retire", "lost"},
         step'.chosen = <<>>, step'.done = 0
  PROVE  EngineInv'
<1>1. UNCHANGED <<requests, vars, mode, failed>>
  BY DEF OnlyStep
<1>2. Standing' /\ Lifetime'
  <2>1. \A i \in DOMAIN requests' : Stands(i)' => i \in DOMAIN requests /\ Same(i)
    BY <1>1, SameByStill
  <2> QED BY <1>1, <2>1, EngineParts, StandAgain
<1>3. Selected'
  BY StillSelected
<1>4. /\ Base' /\ Calling' /\ ResidentsOlderThanWaiters' /\ NewestPrefill' /\ Rows'
      /\ Synchronous'
  BY Moved DEF Still
<1>5. Fifo'
  BY <1>4, FifoOutside
<1> QED BY <1>2, <1>3, <1>4, <1>5 DEF EngineInv, Core, Stepwise

(* A call of step begins, or ends with nothing to run.                     *)
LEMMA CallBoundsOK ==
  ASSUME EngineInv, BeginStep \/ EmptyBatch
  PROVE  EngineInv'
<1>1. CASE BeginStep
  <2>1. /\ step.phase = "idle" /\ call = Idle /\ ~failed /\ OnlyStep
        /\ step' = [step EXCEPT !.phase = "boundary"]
    BY <1>1 DEF BeginStep, Idling, Phase, Goto
  <2>2. step \in StepType /\ step.chosen = <<>> /\ step.done = 0
    BY <2>1, EngineParts DEF Stepwise, Selected, Still
  <2>3. /\ step' \in StepType /\ step'.phase = "boundary" /\ step'.chosen = <<>> /\ step'.done = 0
    BY <2>1, <2>2 DEF StepType, Still
  <2> QED BY <2>1, <2>3, Outside DEF Still, Running, Posting
<1>2. CASE EmptyBatch
  <2>1. step.phase = "build" /\ OnlyStep /\ step' = NoStep
    BY <1>2 DEF EmptyBatch, Phase
  <2>2. call = Idle /\ ~failed
    BY <2>1, EngineParts, NoCall DEF Synchronous
  <2>3. NoStep \in StepType /\ NoStep.phase = "idle" /\ NoStep.chosen = <<>> /\ NoStep.done = 0
    BY DEF NoStep, StepType, NoTarget, TargetType, Still
  <2> QED BY <2>1, <2>2, <2>3, Outside DEF Still, Running, Posting
<1> QED BY <1>1, <1>2

(* The selection becomes the batch.                                        *)
LEMMA BuildBatchOK ==
  ASSUME EngineInv, BuildBatch
  PROVE  EngineInv'
<1>1. /\ step.phase = "build" /\ OnlyStep /\ step' = [step EXCEPT !.phase = "execute"]
      /\ step.chosen # <<>>
  BY DEF BuildBatch, Phase, Goto
<1>2. /\ ~failed /\ Lifetime /\ step.done = 0 /\ Batch
      /\ \A k \in DOMAIN step.chosen : Picked(k)
      /\ \A i \in DOMAIN requests : Stands(i) => Steady(i)
  BY <1>1, ChoosingAt DEF Choosing
<1>3. step \in StepType /\ call = Idle
  BY <1>1, EngineParts, NoCall
<1>4. /\ step' \in StepType /\ step'.phase = "execute" /\ step'.chosen = step.chosen
      /\ step'.done = 0 /\ step'.considered = step.considered /\ step'.target = step.target
  BY <1>1, <1>2, <1>3 DEF StepType, Running
<1>5. UNCHANGED <<requests, vars, mode, failed>> /\ \A i : Same(i)
  BY <1>1, SameByStill DEF OnlyStep
<1>6. Batch' /\ \A k \in DOMAIN step'.chosen : Picked(k)'
  BY <1>2, <1>3, <1>4, <1>5, ChoiceKept
<1>7. Executed' = {}
  <2>1. \A k \in DOMAIN step'.chosen : k >= 1
    BY <1>3, <1>4, StepAt
  <2>2. ASSUME NEW k \in Executed' PROVE FALSE
    <3>1. k \in DOMAIN step'.chosen /\ k <= step'.done
      BY <1>4 DEF Executed, Phase
    <3> QED BY <1>3, <1>4, <2>1, <3>1, StepAt
  <2> QED BY <2>2
<1>8. Standing'
  BY <1>2, <1>5, SameRequest DEF Standing
<1>9. Lifetime'
  BY <1>1, <1>2, <1>4, <1>5, SameRequest DEF Lifetime, Phase
<1>10. Selected'
  <2>1. \A k \in DOMAIN step'.chosen : Ran(k)'
    BY <1>6, <1>7 DEF Ran
  <2>2. step'.done < Len(step'.chosen)
    BY <1>1, <1>3, <1>4, StepAt
  <2> QED BY <1>4, <1>6, <2>1, <2>2, RunningSelected DEF Running
<1>11. /\ Base' /\ Calling' /\ ResidentsOlderThanWaiters' /\ NewestPrefill' /\ Rows'
       /\ Synchronous'
  BY <1>1, <1>2, <1>3, <1>4, Moved
<1>12. Fifo'
  BY <1>4, <1>11, FifoOutside DEF Running
<1> QED BY <1>4, <1>8, <1>9, <1>10, <1>11, <1>12 DEF EngineInv, Core, Stepwise

(* The runner raises: the engine is invalid, its requests are not.         *)
LEMMA ExecuteFailsOK ==
  ASSUME EngineInv, ExecuteFails
  PROVE  EngineInv'
<1>1. /\ step.phase \in {"execute", "commit"} /\ failed' = TRUE /\ step' = [step EXCEPT !.phase = "failing"]
      /\ UNCHANGED <<vars, cacheVars, image, mode, requests, nextTicket, account>>
      /\ UNCHANGED <<entries, call, active>>
  BY DEF ExecuteFails, Executing, Phase, Goto, vars, cacheVars
<1>2. call = Idle /\ call.op = "none"
  BY <1>1, EngineParts, NoCall
<1>3. step' \in StepType /\ step'.phase = "failing"
  BY <1>1, EngineParts DEF StepType, Still
<1>4. CacheInv(Tenant, Token)'
  BY <1>1, EngineParts, StillCacheInv
<1>5. Base'
  BY <1>1, <1>4, EngineParts, BaseStill DEF Admitting
<1>6. Calling'
  BY <1>1, <1>2, <1>3, CallingNone
<1>7. ResidentsOlderThanWaiters' /\ NewestPrefill'
  BY <1>1, EngineParts, OrderKept DEF Held
<1>8. Fifo'
  BY <1>3, <1>7, FifoOutside DEF Still
<1>9. Rows'
  BY <1>1, <1>2, <1>4, EngineParts, RowsStill
<1>10. Synchronous'
  BY <1>1, <1>2, <1>3, EngineParts, SyncKept DEF Synchronous
<1> QED BY <1>1, <1>3, <1>5, <1>6, <1>8, <1>9, <1>10 DEF EngineInv, Core, Stepwise
-----------------------------------------------------------------------------
(* An engine without live requests begins to drop its index.               *)
LEMMA Clearing ==
  ASSUME EngineInv, call = Idle, LiveSlots = {}, step.phase \in {"idle", "failing"},
         BeginClear \/ UNCHANGED <<cacheVars, vars>>, step' = NoStep \/ step' = step,
         BeginClear => step'.phase = "idle",
         UNCHANGED <<image, mode, requests, nextTicket, account, failed>>
  PROVE  EngineInv'
<1>1. /\ CacheInv(Tenant, Token)' /\ UNCHANGED <<entries, vars>>
      /\ UNCHANGED <<entries, active, tables, lengths, reserved, enqueued>>
      /\ call'.op \in {"none", "clear"} /\ (call'.op = "clear" => step'.phase = "idle")
  <2>1. CASE BeginClear
    <3>1. CacheInv(Tenant, Token)'
      BY <2>1, EngineParts, BeginClearOK
    <3> QED BY <2>1, <3>1 DEF BeginClear, vars
  <2>2. CASE UNCHANGED <<cacheVars, vars>>
    <3>1. CacheInv(Tenant, Token)'
      BY <2>2, EngineParts, StillCacheInv
    <3> QED BY <2>2, <3>1 DEF cacheVars, vars, Idle
  <2> QED BY <2>1, <2>2
<1>2. /\ step' \in StepType /\ step'.phase \in {"idle", "failing"}
      /\ ~failed => step'.chosen = <<>> /\ step'.done = 0
  <2>1. NoStep \in StepType /\ NoStep.phase = "idle" /\ NoStep.chosen = <<>> /\ NoStep.done = 0
    BY DEF NoStep, StepType, NoTarget, TargetType, Still
  <2>2. ~failed => step.chosen = <<>> /\ step.done = 0
    BY EngineParts DEF Stepwise, Selected, Still
  <2> QED BY <2>1, <2>2, EngineParts
<1>3. Base'
  <2>1. \A s : ~Admitting(s) /\ ~Admitting(s)'
    BY <1>1 DEF Admitting, Idle
  <2> QED BY <1>1, <2>1, EngineParts, BaseStill
<1>4. ~failed => Standing' /\ Lifetime'
  <2>1. \A i \in DOMAIN requests' : Stands(i)' => i \in DOMAIN requests /\ Same(i)
    BY <1>1, SameByStill
  <2> QED BY <2>1, EngineParts, StandAgain DEF Running, Posting
<1>5. ~failed => Selected'
  BY <1>2, StillSelected DEF Still
<1>6. Calling'
  <2>1. LiveSlots' = {}
    BY DEF LiveSlots, Live
  <2> QED BY <1>1, <1>2, <2>1 DEF Calling, Phase
<1>7. Fifo'
  <2>1. ResidentsOlderThanWaiters' /\ NewestPrefill'
    BY EngineParts, OrderKept DEF Held
  <2> QED BY <1>2, <2>1, FifoOutside DEF Still
<1>8. Rows'
  BY <1>1, EngineParts, RowsStill
<1>9. Synchronous'
  BY <1>1, <1>2, EngineParts, SyncKept DEF Synchronous
<1> QED BY <1>2, <1>3, <1>4, <1>5, <1>6, <1>7, <1>8, <1>9 DEF EngineInv, Core, Stepwise

(* A failed engine does, and its host may.                                 *)
LEMMA ClearingOK ==
  ASSUME EngineInv, FailDone \/ ClearCache
  PROVE  EngineInv'
<1>1. CASE FailDone
  <2>1. /\ step.phase = "failing" /\ LiveSlots = {} /\ call = Idle
        /\ (BeginClear \/ UNCHANGED <<cacheVars, vars>>) /\ step' = NoStep
        /\ UNCHANGED <<image, mode, requests, nextTicket, account, failed>>
    BY <1>1 DEF FailDone, Phase
  <2>2. step'.phase = "idle"
    BY <2>1 DEF NoStep
  <2> QED BY <2>1, <2>2, Clearing
<1>2. CASE ClearCache
  <2>1. /\ step.phase = "idle" /\ LiveSlots = {} /\ call = Idle /\ BeginClear /\ step' = step
        /\ UNCHANGED <<image, mode, requests, nextTicket, account, failed>>
    BY <1>2 DEF ClearCache, Idling, Phase, engineVars
  <2> QED BY <2>1, Clearing
<1> QED BY <1>1, <1>2

(* It drops entry by entry.                                                *)
LEMMA CacheClearsOK ==
  ASSUME EngineInv, CacheClears
  PROVE  EngineInv'
<1>1. /\ ClearOne \/ EndClear
      /\ KeepRows /\ call.op = "clear"
      /\ UNCHANGED <<mode, requests, nextTicket, step, account, failed>>
  BY DEF CacheClears, engineVars, ClearOne, EndClear
<1>2. step.phase = "idle" /\ LiveSlots = {}
  BY <1>1, EngineParts DEF Calling, Phase
<1>3. CacheInv(Tenant, Token)'
  BY <1>1, EngineParts, ClearOneOK, EndOK
<1>4. /\ Quiet /\ UNCHANGED <<tables, lengths, reserved, active, enqueued>>
      /\ call'.op \in {"none", "clear"} /\ (entries = <<>> => entries' = <<>>)
  <2>1. CASE ClearOne
    <3>1. entries # <<>> /\ Evict(1) /\ clock' = clock /\ call' = call
      BY <2>1 DEF ClearOne
    <3>2. IInv /\ IndexTyped(Tenant, Token) /\ IndexExact
      BY EngineParts DEF CacheInv
    <3>3. 1 \in 1..Len(entries)
      BY <3>1, <3>2, EntryAt, EmptySeq
    <3> QED BY <1>1, <3>1, <3>2, <3>3, EvictIndex, EvictQuiet
  <2>2. CASE EndClear
    <3>1. call' = Idle /\ UNCHANGED <<entries, vars>>
      BY <2>2 DEF EndClear
    <3>2. Quiet
      BY <1>3, <3>1, EngineParts, ManagerQuiet DEF CacheInv
    <3> QED BY <3>1, <3>2 DEF vars, Idle
  <2> QED BY <1>1, <2>1, <2>2
<1>5. Base'
  <2>1. \A s : ~Admitting(s) /\ ~Admitting(s)'
    BY <1>1, <1>4 DEF Admitting
  <2> QED BY <1>1, <1>3, <1>4, <2>1, EngineParts, BaseStill
<1>6. ~failed => Standing' /\ Lifetime' /\ Selected'
  BY <1>1, <1>4, SelectionStill DEF Same
<1>7. Calling'
  <2>1. LiveSlots' = {} /\ step'.phase = "idle"
    BY <1>1, <1>2 DEF LiveSlots, Live
  <2> QED BY <1>4, <2>1 DEF Calling, Phase
<1>8. Fifo'
  BY <1>1, EngineParts, FifoStill
<1>9. Rows'
  BY <1>1, <1>3, <1>4, EngineParts, RowsKept DEF Held
<1>10. Synchronous'
  BY <1>1, <1>2, <1>4, EngineParts, SyncKept DEF Synchronous
<1> QED BY <1>1, <1>5, <1>6, <1>7, <1>8, <1>9, <1>10, EngineParts DEF EngineInv, Core, Stepwise
-----------------------------------------------------------------------------
(* While a batch is run and post-processed: the request whose turn it is.  *)
LEMMA RunningAt ==
  ASSUME EngineInv, step.phase \in Running, NEW k, k = step.done + 1,
         NEW i, i = step.chosen[k].index
  PROVE  /\ ~failed /\ Standing /\ Lifetime /\ Batch /\ step \in StepType /\ step.done \in Nat
         /\ Len(step.chosen) \in Nat /\ DOMAIN step.chosen = 1..Len(step.chosen)
         /\ step.done < Len(step.chosen) /\ k \in DOMAIN step.chosen /\ k \in Nat
         /\ \A l \in DOMAIN step.chosen : Ran(l) /\ l \in Nat
         /\ \A l \in DOMAIN step.chosen : step.chosen[l].index = i => l = k
         /\ i \in DOMAIN requests /\ step.chosen[k].count \in Nat
         /\ Current = step.chosen[k] /\ Request = requests[i] /\ Sequence = requests[i].sequence
<1>1. ~failed
  BY EngineParts DEF Synchronous, Running, Posting
<1>2. Standing /\ Lifetime /\ Selected /\ step \in StepType
  BY <1>1, EngineParts DEF Stepwise
<1>3. Batch /\ step.done < Len(step.chosen) /\ \A l \in DOMAIN step.chosen : Ran(l)
  BY <1>2 DEF Selected
<1>4. /\ step.done \in Nat /\ Len(step.chosen) \in Nat /\ DOMAIN step.chosen = 1..Len(step.chosen)
  BY <1>2, StepAt
<1>5. k \in DOMAIN step.chosen
  BY <1>3, <1>4
<1>6. /\ i \in DOMAIN requests /\ step.chosen[k].count \in Nat
      /\ \A l \in DOMAIN step.chosen : step.chosen[l].index = i => l = k
  BY <1>2, <1>3, <1>5, ChosenAt DEF Batch
<1>7. Current = step.chosen[k] /\ Request = requests[i] /\ Sequence = requests[i].sequence
  BY DEF Current, Request, Sequence
<1> QED BY <1>1, <1>2, <1>3, <1>4, <1>5, <1>6, <1>7

(* Its turn leaves the others standing.                                    *)
LEMMA RunStands ==
  ASSUME EngineInv, step.phase \in Running, NEW k, k = step.done + 1,
         NEW i, i = step.chosen[k].index,
         step'.phase # "reserve", mode' = mode, DOMAIN requests' = DOMAIN requests,
         \A j \in DOMAIN requests : j # i => requests'[j] = requests[j] /\ (Held(j) => Same(j)),
         \A l \in Executed : l # k => step.chosen[l].index \in Unsteady',
         i \in Unsteady' \/ (Stands(i)' => Steady(i)'),
         mode.lifetime /\ Stands(i)' =>
           Space(i)' = PeakKVExtent(requests'[i].prompt, requests'[i].maximum)
  PROVE  Standing' /\ Lifetime'
<1>1. Standing /\ Lifetime /\ i \in DOMAIN requests
  BY RunningAt
<1>2. ASSUME NEW j \in DOMAIN requests', Stands(j)', j # i
      PROVE  j \in DOMAIN requests /\ Stands(j) /\ Same(j) /\ requests'[j] = requests[j]
  <2>1. j \in DOMAIN requests /\ requests'[j] = requests[j]
    BY <1>2
  <2>2. Held(j)
    BY <1>2, <2>1 DEF Stands, Held
  <2>3. Same(j)
    BY <1>2, <2>1, <2>2
  <2> QED BY <1>2, <2>1, <2>3, SameRequest
<1>3. Standing'
  <2>1. ASSUME NEW j \in DOMAIN requests', Stands(j)', j \notin Unsteady', j # i
        PROVE  Steady(j)'
    <3>1. j \in DOMAIN requests /\ Stands(j) /\ Same(j)
      BY <1>2, <2>1
    <3>2. j \notin Unsteady
      BY <2>1 DEF Unsteady
    <3> QED BY <1>1, <3>1, <3>2, SameRequest DEF Standing
  <2> QED BY <2>1 DEF Standing
<1>4. Lifetime'
  <2>1. ASSUME mode.lifetime, NEW j \in DOMAIN requests', Stands(j)', j # i
        PROVE  Space(j)' = PeakKVExtent(requests'[j].prompt, requests'[j].maximum)
    <3>1. j \in DOMAIN requests /\ Stands(j) /\ Same(j) /\ requests'[j] = requests[j]
      BY <1>2, <2>1
    <3>2. Space(j) = PeakKVExtent(requests[j].prompt, requests[j].maximum)
      BY <1>1, <2>1, <3>1 DEF Lifetime, Phase, Running, Posting
    <3> QED BY <3>1, <3>2, SameRequest
  <2> QED BY <2>1 DEF Lifetime, PeakKVExtent
<1> QED BY <1>3, <1>4

(* And the rest of the batch where it was.                                 *)
LEMMA RunSelected ==
  ASSUME EngineInv, step.phase \in Running, NEW k, k = step.done + 1,
         NEW i, i = step.chosen[k].index,
         step'.phase \in Running, step'.chosen = step.chosen, step'.done < Len(step.chosen),
         step'.phase = "execute" => step.phase = "execute",
         step'.phase \in Posting => step'.done = step.done,
         DOMAIN requests' = DOMAIN requests,
         \A j \in DOMAIN requests : j # i => requests'[j] = requests[j] /\ (Held(j) => Same(j)),
         \A l \in DOMAIN step.chosen : l # k => (l \in Executed <=> l \in Executed'),
         Ran(k)', step'.phase = "publish" => mode'.prefix
  PROVE  Selected'
<1>1. /\ Batch /\ step.done \in Nat /\ k \in DOMAIN step.chosen
      /\ \A l \in DOMAIN step.chosen : Ran(l) /\ l \in Nat
      /\ \A l \in DOMAIN step.chosen : step.chosen[l].index = i => l = k
      /\ \A l \in DOMAIN step.chosen : step.chosen[l].index \in DOMAIN requests
  BY RunningAt DEF Batch
<1>2. Batch'
  BY <1>1 DEF Batch
<1>3. ASSUME NEW l \in DOMAIN step.chosen, l # k
      PROVE  Ran(l)'
  <2>1. PICK j : j = step.chosen[l].index
    OBVIOUS
  <2>2. PICK n : n = step.chosen[l].count
    OBVIOUS
  <2>3. j # i /\ j \in DOMAIN requests /\ requests'[j] = requests[j]
    BY <1>1, <1>3, <2>1
  <2>4. step'.chosen[l].index = j /\ step'.chosen[l].count = n
    BY <2>1, <2>2
  <2>5. ~Posted(l) /\ ~Posted(l)'
    BY <1>3 DEF Posted
  <2>6. CASE l \in Executed
    <3>1. requests[j].state \in {PREFILL, DECODE} /\ Written(j, n)
      BY <1>1, <2>1, <2>2, <2>5, <2>6 DEF Ran
    <3>2. Held(j)
      BY <2>3, <3>1, EngineParts DEF Owned
    <3>3. Same(j)
      BY <2>3, <3>2
    <3>4. Written(j, n)'
      BY <3>1, <3>3, SameRequest
    <3>5. l \in Executed'
      BY <1>3, <2>6
    <3> QED BY <2>3, <2>4, <2>5, <3>1, <3>4, <3>5 DEF Ran
  <2>7. CASE l \notin Executed
    <3>1. l \notin Executed'
      BY <1>3, <2>7
    <3>2. CASE step'.phase = "execute"
      <4>1. requests[j].state \in {PREFILL, DECODE} /\ Ready(j, n)
        BY <1>1, <2>1, <2>2, <2>7, <3>2 DEF Ran, Picked, Phase
      <4>2. Held(j)
        BY <2>3, <4>1, EngineParts DEF Owned
      <4>3. Same(j)
        BY <2>3, <4>2
      <4>4. Ready(j, n)'
        BY <4>1, <4>3, SameRequest
      <4>5. Picked(l)'
        BY <2>3, <2>4, <4>1, <4>4 DEF Picked
      <4> QED BY <3>1, <4>5 DEF Ran
    <3> QED BY <3>1, <3>2 DEF Ran, Phase
  <2> QED BY <2>6, <2>7
<1>4. \A l \in DOMAIN step'.chosen : Ran(l)'
  BY <1>3
<1> QED BY <1>2, <1>4, RunningSelected
-----------------------------------------------------------------------------
(* The runner writes the rows of the next sequence.                        *)
LEMMA ExecuteOK ==
  ASSUME EngineInv, Execute
  PROVE  EngineInv'
<1>1. PICK k : k = step.done + 1
  OBVIOUS
<1>2. PICK i, n : i = step.chosen[k].index /\ n = step.chosen[k].count
  OBVIOUS
<1>3. /\ step.phase = "execute" /\ UNCHANGED <<cacheVars, mode, requests, nextTicket, account, failed>>
      /\ Advance("commit") /\ WriteRows(Sequence, lengths[Sequence] + Current.count, Request.tokens)
      /\ UNCHANGED <<entries, call>>
  BY DEF Execute, Phase, cacheVars
<1>4. step.phase \in Running /\ call = Idle /\ call.op = "none"
  BY <1>3, EngineParts, NoCall DEF Running
<1>5. /\ ~failed /\ Standing /\ Lifetime /\ Batch /\ step \in StepType /\ step.done \in Nat
      /\ Len(step.chosen) \in Nat /\ DOMAIN step.chosen = 1..Len(step.chosen)
      /\ step.done < Len(step.chosen) /\ k \in DOMAIN step.chosen /\ k \in Nat
      /\ \A l \in DOMAIN step.chosen : Ran(l) /\ l \in Nat
      /\ \A l \in DOMAIN step.chosen : step.chosen[l].index = i => l = k
      /\ i \in DOMAIN requests /\ n \in Nat
      /\ Current = step.chosen[k] /\ Request = requests[i] /\ Sequence = requests[i].sequence
  BY <1>1, <1>2, <1>4, RunningAt
<1>6. k \notin Executed
  BY <1>1, <1>3, <1>5 DEF Executed, Phase, Posting
<1>7. /\ requests[i].state \in {PREFILL, DECODE} /\ Ready(i, n) /\ Held(i) /\ Stands(i)
  <2>1. Picked(k)
    BY <1>3, <1>5, <1>6 DEF Ran, Phase
  <2> QED BY <1>2, <1>5, <2>1, StateAt DEF Picked
<1>8. Steady(i)
  <2>1. i \notin Unsteady
    BY <1>5, <1>6 DEF Unsteady, Executed
  <2> QED BY <1>5, <1>7, <2>1 DEF Standing
<1>9. PICK s, tokens, salt :
        s = requests[i].sequence /\ tokens = requests[i].tokens /\ salt = requests[i].salt
  OBVIOUS
<1>10. /\ s \in Slot /\ active[s] /\ Past(i) = lengths[s] /\ Extent(i) = enqueued[s]
       /\ Space(i) = reserved[s] /\ lengths[s] \in Nat /\ enqueued[s] \in Nat /\ reserved[s] \in Nat
       /\ reserved[s] <= MaxLength
  BY <1>5, <1>7, <1>9, EngineParts, Resident DEF Past, Extent, Space
<1>11. History(i) = Len(tokens) /\ tokens \in Seq(Token) /\ Len(tokens) \in Nat
  BY <1>5, <1>9, EngineParts, RequestAt DEF History
<1>12. PICK length : length = lengths[s] + n
  OBVIOUS
<1>13. length \in 0..MaxLength /\ length <= Len(tokens) /\ enqueued[s] = lengths[s] /\ n >= 1
       /\ (requests[i].state = DECODE => length = Len(tokens))
  <2>1. n >= 1 /\ length <= reserved[s] /\ length <= Len(tokens)
    BY <1>7, <1>10, <1>11, <1>12 DEF Ready
  <2>2. enqueued[s] = lengths[s] /\ (requests[i].state = DECODE => lengths[s] = Len(tokens) - 1)
    BY <1>8, <1>10, <1>11 DEF Steady
  <2>3. n \in Nat /\ MaxLength \in Nat
    BY <1>5, GeometryAssumption
  <2> QED BY <1>10, <1>11, <1>12, <2>1, <2>2, <2>3
<1>14. WriteRows(s, length, tokens) /\ Write(s, length)
  <2>1. Sequence = s /\ Request.tokens = tokens /\ lengths[Sequence] + Current.count = length
    BY <1>2, <1>5, <1>9, <1>12
  <2>2. WriteRows(s, length, tokens)
    BY <1>3, <2>1
  <2> QED BY <2>2 DEF WriteRows
<1>15. IInv' /\ Registered' = Registered
  BY <1>10, <1>13, <1>14, EngineParts, WriteIInv, OthersRegistered
<1>16. CacheInv(Tenant, Token)'
  BY <1>3, <1>4, <1>15, EngineParts, Between
<1>17. /\ UNCHANGED <<states, tables, lengths, reserved, active>> /\ enqueued'[s] = length
       /\ \A q \in Slot : q # s => enqueued'[q] = enqueued[q]
  <2>1. enqueued \in [Slot -> Nat]
    BY EngineParts DEF IInv, TypeOK
  <2> QED BY <1>10, <1>14, <2>1 DEF Write
<1>18. Base'
  BY <1>3, <1>5, <1>16, <1>17, EngineParts, BaseStill DEF Admitting
<1>19. \A j \in DOMAIN requests : j # i /\ Held(j) =>
         Same(j) /\ requests[j].sequence \in Slot /\ requests[j].sequence # s
  <2>1. \A j \in DOMAIN requests : j # i /\ Held(j) =>
          requests[j].sequence \in Slot /\ requests[j].sequence # s
    BY <1>5, <1>9, EngineParts, Resident DEF Owned
  <2> QED BY <1>3, <1>17, <2>1 DEF Same
<1>20. Written(i, n)'
  BY <1>3, <1>5, <1>9, <1>10, <1>11, <1>12, <1>13, <1>17 DEF Written, Extent, Past, History
<1>21. /\ step' \in StepType /\ step'.phase \in {"execute", "commit"} /\ step'.chosen = step.chosen
       /\ step'.done < Len(step.chosen) /\ step'.done \in Nat
       /\ step'.phase = "execute" => step'.done = step.done + 1
       /\ step'.phase = "commit" => step'.done = 0 /\ step.done + 1 = Len(step.chosen)
  <2>1. CASE step.done + 1 = Len(step.chosen)
    <3>1. step' = [step EXCEPT !.phase = "commit", !.done = 0]
      BY <1>3, <2>1 DEF Advance
    <3>2. step' \in StepType /\ step'.phase = "commit" /\ step'.chosen = step.chosen /\ step'.done = 0
      BY <1>5, <3>1 DEF StepType, Running
    <3> QED BY <1>5, <2>1, <3>2
  <2>2. CASE step.done + 1 # Len(step.chosen)
    <3>1. step' = [step EXCEPT !.done = step.done + 1]
      BY <1>3, <2>2 DEF Advance
    <3>2. /\ step' \in StepType /\ step'.phase = "execute" /\ step'.chosen = step.chosen
          /\ step'.done = step.done + 1
      BY <1>3, <1>5, <3>1 DEF StepType
    <3> QED BY <1>5, <2>2, <3>2
  <2> QED BY <2>1, <2>2
<1>22. \A l \in DOMAIN step.chosen : (l \in Executed' <=> l = k \/ l \in Executed)
  <2> SUFFICES ASSUME NEW l \in DOMAIN step.chosen
               PROVE  l \in Executed' <=> l = k \/ l \in Executed
    OBVIOUS
  <2>1. l \in Executed <=> l <= step.done
    BY <1>3 DEF Executed, Phase
  <2>2. l \in 1..Len(step.chosen)
    BY <1>5
  <2>3. CASE step'.phase = "execute"
    <3>1. l \in Executed' <=> l <= step'.done
      BY <1>21, <2>3 DEF Executed, Phase
    <3> QED BY <1>1, <1>5, <1>21, <2>1, <2>2, <2>3, <3>1
  <2>4. CASE step'.phase = "commit"
    <3>1. l \in Executed' <=> l > step'.done
      BY <1>21, <2>4 DEF Executed, Phase, Running
    <3> QED BY <1>1, <1>5, <1>21, <2>1, <2>2, <2>4, <3>1
  <2> QED BY <1>21, <2>3, <2>4
<1>23. \A j \in DOMAIN requests : j # i => requests'[j] = requests[j] /\ (Held(j) => Same(j))
  BY <1>3, <1>19
<1>24. Standing' /\ Lifetime'
  <2>1. \A l \in Executed : step.chosen[l].index \in Unsteady'
    BY <1>21, <1>22 DEF Executed, Unsteady
  <2>2. i \in Unsteady'
    BY <1>2, <1>5, <1>21, <1>22 DEF Unsteady
  <2>3. mode.lifetime /\ Stands(i)' =>
          Space(i)' = PeakKVExtent(requests'[i].prompt, requests'[i].maximum)
    <3>1. mode.lifetime => Space(i) = PeakKVExtent(requests[i].prompt, requests[i].maximum)
      BY <1>3, <1>5, <1>7 DEF Lifetime, Phase
    <3> QED BY <1>3, <1>17, <3>1 DEF Space
  <2> QED BY <1>1, <1>2, <1>3, <1>4, <1>21, <1>23, <2>1, <2>2, <2>3, RunStands
<1>25. Selected'
  <2>1. Ran(k)'
    <3>1. k \in Executed' /\ ~Posted(k)'
      BY <1>5, <1>21, <1>22 DEF Posted, Posting
    <3> QED BY <1>2, <1>3, <1>7, <1>20, <1>21, <3>1 DEF Ran
  <2>2. \A l \in DOMAIN step.chosen : l # k => (l \in Executed <=> l \in Executed')
    BY <1>22
  <2>3. step'.phase \in Running /\ step'.phase \notin Posting
    BY <1>21 DEF Running, Posting
  <2> QED BY <1>1, <1>2, <1>3, <1>4, <1>21, <1>23, <2>1, <2>2, <2>3, RunSelected
<1>26. Calling'
  BY <1>3, <1>4, <1>21, CallingNone
<1>27. Fifo'
  <2>1. ResidentsOlderThanWaiters' /\ NewestPrefill'
    BY <1>3, EngineParts, OrderKept DEF Held
  <2> QED BY <1>21, <2>1, FifoOutside DEF Running
<1>28. Rows'
  <2>1. /\ RowsTyped(Token) /\ EntriesOwnRows
        /\ \A j \in DOMAIN requests : Held(j) =>
             OwnRows(requests[j].sequence, requests[j].tokens, requests[j].salt)
    BY EngineParts DEF Rows
  <2>2. OwnRows(s, tokens, salt)
    BY <1>5, <1>7, <1>9, <2>1
  <2>3. /\ RowsTyped(Token)' /\ HoldsHistory(s, tokens)'
        /\ \A b \in Block : written'[b] = written[b] => image'[b] = image[b]
    BY <1>10, <1>11, <1>13, <1>14, <1>15, <2>1, <2>2, EngineParts, WrittenRows DEF OwnRows
  <2>4. \A b, sa, key : Filed(b, sa, key) => Filed(b, sa, key)'
    BY <1>3 DEF Filed
  <2>5. EntriesOwnRows'
    <3>1. IndexExact /\ IndexExact'
      BY <1>16, EngineParts DEF CacheInv
    <3> QED BY <1>3, <1>15, <2>1, <2>3, <3>1, EngineParts, EntriesKeepRows
  <2>6. ASSUME NEW q \in Slot, NEW own, NEW t, OwnRows(q, own, t)
        PROVE  SharesOwn(q, own, t)'
    <3>1. tables'[q] = tables[q] /\ states' = states /\ SharesOwn(q, own, t)
      BY <1>17, <2>6 DEF OwnRows
    <3> QED BY <2>4, <3>1, OthersKeepKeys
  <2>7. OwnRows(s, tokens, salt)'
    BY <1>10, <1>13, <1>17, <2>2, <2>3, <2>6 DEF OwnRows
  <2>8. ASSUME NEW j \in DOMAIN requests', Held(j)'
        PROVE  OwnRows(requests[j].sequence, requests[j].tokens, requests[j].salt)'
    <3>1. j \in DOMAIN requests /\ Held(j)
      BY <1>3, <2>8 DEF Held
    <3>2. PICK q, own, t : q = requests[j].sequence /\ own = requests[j].tokens /\ t = requests[j].salt
      OBVIOUS
    <3>3. OwnRows(q, own, t)'
      <4>1. CASE j = i
        BY <1>9, <2>7, <3>2, <4>1
      <4>2. CASE j # i
        <5>1. OwnRows(q, own, t) /\ q \in Slot /\ q # s
          BY <1>19, <2>1, <3>1, <3>2, <4>2
        <5>2. tables'[q] = tables[q] /\ enqueued'[q] = enqueued[q] /\ HoldsHistory(q, own)
          BY <1>17, <5>1 DEF OwnRows
        <5>3. HoldsHistory(q, own)'
          BY <1>15, <2>1, <2>3, <5>1, <5>2, EngineParts, OthersKeepRows
        <5>4. SharesOwn(q, own, t)'
          BY <2>6, <5>1
        <5> QED BY <5>1, <5>2, <5>3, <5>4 DEF OwnRows
      <4> QED BY <4>1, <4>2
    <3> QED BY <1>3, <3>2, <3>3 DEF OwnRows, HoldsHistory, SharesOwn
  <2>9. call'.op # "reserve"
    BY <1>3, <1>4
  <2> QED BY <2>3, <2>5, <2>8, <2>9 DEF Rows
<1>29. Synchronous'
  BY <1>3, <1>4, <1>5, <1>21, EngineParts, SyncKept DEF Synchronous
<1> QED BY <1>18, <1>21, <1>24, <1>25, <1>26, <1>27, <1>28, <1>29 DEF EngineInv, Core, Stepwise
-----------------------------------------------------------------------------
(* Its rows are committed.                                                 *)
LEMMA CommitChosenOK ==
  ASSUME EngineInv, CommitChosen
  PROVE  EngineInv'
<1>1. PICK k : k = step.done + 1
  OBVIOUS
<1>2. PICK i, n : i = step.chosen[k].index /\ n = step.chosen[k].count
  OBVIOUS
<1>3. PICK p \in {"publish", "sample"} : p = IF mode.prefix THEN "publish" ELSE "sample"
  OBVIOUS
<1>4. /\ step.phase = "commit" /\ UNCHANGED <<cacheVars, mode, requests, nextTicket, account, failed>>
      /\ Commit(Sequence) /\ KeepRows /\ step' = [step EXCEPT !.phase = p]
      /\ UNCHANGED <<entries, call>>
  BY <1>3 DEF CommitChosen, Phase, cacheVars, Goto
<1>5. step.phase \in Running /\ call = Idle /\ call.op = "none"
  BY <1>4, EngineParts, NoCall DEF Running
<1>6. /\ ~failed /\ Standing /\ Lifetime /\ Batch /\ step \in StepType /\ step.done \in Nat
      /\ Len(step.chosen) \in Nat /\ DOMAIN step.chosen = 1..Len(step.chosen)
      /\ step.done < Len(step.chosen) /\ k \in DOMAIN step.chosen /\ k \in Nat
      /\ \A l \in DOMAIN step.chosen : Ran(l) /\ l \in Nat
      /\ \A l \in DOMAIN step.chosen : step.chosen[l].index = i => l = k
      /\ i \in DOMAIN requests /\ n \in Nat
      /\ Current = step.chosen[k] /\ Request = requests[i] /\ Sequence = requests[i].sequence
  BY <1>1, <1>2, <1>5, RunningAt
<1>7. k \in Executed /\ ~Posted(k)
  BY <1>1, <1>4, <1>6 DEF Executed, Phase, Running, Posting, Posted
<1>8. /\ requests[i].state \in {PREFILL, DECODE} /\ Written(i, n) /\ Held(i) /\ Stands(i)
  <2>1. requests[i].state \in {PREFILL, DECODE} /\ Written(i, n)
    BY <1>2, <1>6, <1>7 DEF Ran
  <2> QED BY <1>6, <2>1, StateAt
<1>9. PICK s : s = requests[i].sequence
  OBVIOUS
<1>10. /\ s \in Slot /\ active[s] /\ Past(i) = lengths[s] /\ Extent(i) = enqueued[s]
       /\ lengths[s] \in Nat /\ enqueued[s] \in Nat
  BY <1>6, <1>8, <1>9, EngineParts, Resident DEF Past, Extent
<1>11. Commit(s)
  BY <1>4, <1>6, <1>9
<1>12. IInv' /\ Registered' = Registered
  BY <1>10, <1>11, EngineParts, CommitIInv, OthersRegistered
<1>13. CacheInv(Tenant, Token)'
  BY <1>4, <1>5, <1>12, EngineParts, Between
<1>14. /\ UNCHANGED <<tables, reserved, active, enqueued>> /\ lengths'[s] = enqueued[s]
       /\ \A q \in Slot : q # s => lengths'[q] = lengths[q]
  <2>1. lengths \in [Slot -> Nat]
    BY EngineParts DEF IInv, TypeOK
  <2> QED BY <1>10, <1>11, <2>1 DEF Commit
<1>15. Base'
  BY <1>4, <1>6, <1>13, <1>14, EngineParts, BaseStill DEF Admitting
<1>16. \A j \in DOMAIN requests : j # i => requests'[j] = requests[j] /\ (Held(j) => Same(j))
  <2>1. \A j \in DOMAIN requests : j # i /\ Held(j) =>
          requests[j].sequence \in Slot /\ requests[j].sequence # s
    BY <1>6, <1>9, EngineParts, Resident DEF Owned
  <2> QED BY <1>4, <1>14, <2>1 DEF Same
<1>17. Committed(i)'
  <2>1. Past(i)' = Extent(i) /\ Extent(i)' = Extent(i) /\ History(i)' = History(i)
    BY <1>4, <1>9, <1>10, <1>14 DEF Past, Extent, History
  <2> QED BY <1>4, <1>8, <2>1 DEF Committed, Written
<1>18. /\ step' \in StepType /\ step'.phase = p /\ step'.chosen = step.chosen
       /\ step'.done = step.done
  BY <1>4, <1>6 DEF StepType, Running, Posting
<1>19. \A l \in DOMAIN step.chosen : (l \in Executed <=> l \in Executed')
  <2>1. step.phase \in Running \ {"execute"} /\ step'.phase \in Running \ {"execute"}
    BY <1>4, <1>18 DEF Running, Posting
  <2> QED BY <1>18, <2>1 DEF Executed, Phase
<1>20. Standing' /\ Lifetime'
  <2>1. \A l \in Executed : step.chosen[l].index \in Unsteady'
    BY <1>18, <1>19 DEF Executed, Unsteady
  <2>2. i \in Unsteady'
    BY <1>2, <1>7, <2>1
  <2>3. mode.lifetime /\ Stands(i)' =>
          Space(i)' = PeakKVExtent(requests'[i].prompt, requests'[i].maximum)
    <3>1. mode.lifetime => Space(i) = PeakKVExtent(requests[i].prompt, requests[i].maximum)
      BY <1>4, <1>6, <1>8 DEF Lifetime, Phase
    <3> QED BY <1>4, <1>14, <3>1 DEF Space
  <2> QED BY <1>1, <1>2, <1>4, <1>5, <1>16, <1>18, <2>1, <2>2, <2>3, RunStands
<1>21. Selected'
  <2>1. Ran(k)'
    <3>1. k \in Executed' /\ Posted(k)'
      BY <1>1, <1>6, <1>7, <1>18, <1>19 DEF Posted, Posting
    <3> QED BY <1>2, <1>4, <1>8, <1>17, <1>18, <3>1 DEF Ran
  <2>2. step'.phase = "publish" => mode'.prefix
    BY <1>3, <1>4, <1>18
  <2> QED BY <1>1, <1>2, <1>4, <1>5, <1>6, <1>16, <1>18, <1>19, <2>1, <2>2, RunSelected DEF Running, Posting
<1>22. Calling'
  BY <1>4, <1>5, <1>18, CallingNone
<1>23. Fifo'
  <2>1. ResidentsOlderThanWaiters' /\ NewestPrefill'
    BY <1>4, EngineParts, OrderKept DEF Held
  <2> QED BY <1>18, <2>1, FifoOutside DEF Running, Posting
<1>24. Rows'
  <2>1. Quiet
    BY <1>4, <1>10, <1>11, <1>12, EngineParts, ManagerQuiet
  <2>2. call'.op # "reserve"
    BY <1>4, <1>5
  <2> QED BY <1>4, <1>13, <1>14, <2>1, <2>2, EngineParts, RowsKept DEF Held
<1>25. Synchronous'
  BY <1>4, <1>5, <1>6, <1>18, EngineParts, SyncKept DEF Synchronous
<1> QED BY <1>15, <1>18, <1>20, <1>21, <1>22, <1>23, <1>24, <1>25 DEF EngineInv, Core, Stepwise
-----------------------------------------------------------------------------
(* The request whose turn it is, while it is published and sampled.        *)
LEMMA PostingAt ==
  ASSUME EngineInv, step.phase \in Posting, NEW k, k = step.done + 1,
         NEW i, i = step.chosen[k].index
  PROVE  /\ k \in Executed /\ Posted(k) /\ i \in Unsteady
         /\ requests[i].state \in {PREFILL, DECODE} /\ Committed(i) /\ Held(i) /\ Stands(i)
<1>1. /\ k \in DOMAIN step.chosen /\ \A l \in DOMAIN step.chosen : Ran(l)
      /\ i \in DOMAIN requests /\ step.done \in Nat
  BY RunningAt DEF Running
<1>2. k \in Executed /\ Posted(k)
  <2>1. k > step.done
    BY <1>1
  <2> QED BY <1>1, <2>1 DEF Executed, Phase, Running, Posting, Posted
<1>3. requests[i].state \in {PREFILL, DECODE} /\ Committed(i)
  BY <1>1, <1>2 DEF Ran
<1> QED BY <1>1, <1>2, <1>3, StateAt DEF Unsteady

(* Nothing but its phase changes.                                          *)
LEMMA PostsOn ==
  ASSUME EngineInv, step.phase \in Posting, NEW p \in Posting \ {"publish"},
         step' = [step EXCEPT !.phase = p],
         UNCHANGED <<requests, mode, failed, vars>>
  PROVE  /\ step' \in StepType /\ step'.phase = p /\ step'.chosen = step.chosen
         /\ step'.done = step.done
         /\ Standing' /\ Lifetime' /\ Selected' /\ Fifo'
<1>1. PICK k : k = step.done + 1
  OBVIOUS
<1>2. PICK i : i = step.chosen[k].index
  OBVIOUS
<1>3. /\ ~failed /\ Standing /\ Lifetime /\ Batch /\ step \in StepType /\ step.done \in Nat
      /\ step.done < Len(step.chosen) /\ k \in DOMAIN step.chosen /\ i \in DOMAIN requests
  BY <1>1, <1>2, RunningAt DEF Running
<1>4. /\ k \in Executed /\ Posted(k) /\ i \in Unsteady
      /\ requests[i].state \in {PREFILL, DECODE} /\ Committed(i) /\ Held(i) /\ Stands(i)
  BY <1>1, <1>2, PostingAt
<1>5. /\ step' \in StepType /\ step'.phase = p /\ step'.chosen = step.chosen
      /\ step'.done = step.done
  BY <1>3 DEF StepType, Running, Posting
<1>6. \A j : Same(j)
  BY SameByStill
<1>7. \A l \in DOMAIN step.chosen : (l \in Executed <=> l \in Executed')
  BY <1>5 DEF Executed, Phase, Running, Posting
<1>8. Standing' /\ Lifetime'
  <2>1. \A l \in Executed : step.chosen[l].index \in Unsteady'
    BY <1>5, <1>7 DEF Executed, Unsteady
  <2>2. i \in Unsteady'
    BY <1>2, <1>4, <2>1
  <2>3. mode.lifetime /\ Stands(i)' =>
          Space(i)' = PeakKVExtent(requests'[i].prompt, requests'[i].maximum)
    <3>1. mode.lifetime => Space(i) = PeakKVExtent(requests[i].prompt, requests[i].maximum)
      BY <1>3, <1>4 DEF Lifetime, Phase, Posting
    <3> QED BY <1>6, <3>1, SameRequest
  <2>4. step.phase \in Running /\ step'.phase # "reserve"
    BY <1>5 DEF Running, Posting
  <2> QED BY <1>1, <1>2, <1>6, <2>1, <2>2, <2>3, <2>4, RunStands
<1>9. Selected'
  <2>1. Ran(k)'
    <3>1. k \in Executed' /\ Posted(k)'
      BY <1>1, <1>3, <1>4, <1>5, <1>7 DEF Posted
    <3>2. Committed(i)'
      BY <1>4, <1>6, SameRequest
    <3> QED BY <1>2, <1>4, <1>5, <3>1, <3>2 DEF Ran
  <2>2. step'.phase \in Running /\ step.phase \in Running /\ step'.phase # "execute"
    BY <1>5 DEF Running, Posting
  <2> QED BY <1>1, <1>2, <1>3, <1>5, <1>6, <1>7, <2>1, <2>2, RunSelected
<1>10. Fifo'
  <2>1. ResidentsOlderThanWaiters' /\ NewestPrefill'
    BY EngineParts, OrderKept DEF Held
  <2>2. step'.phase \in Running
    BY <1>5 DEF Running
  <2> QED BY <2>1, <2>2, FifoOutside
<1> QED BY <1>5, <1>8, <1>9, <1>10

(* Publication begins, over the request's own history.                     *)
LEMMA PublishChosenOK ==
  ASSUME EngineInv, PublishChosen
  PROVE  EngineInv'
<1>1. /\ step.phase = "publish" /\ step' = [step EXCEPT !.phase = "publishing"]
      /\ UNCHANGED <<image, mode, requests, nextTicket, account, failed>>
      /\ BeginPublish(Sequence, Request.tokens, Request.salt)
  BY DEF PublishChosen, Phase, Goto
<1>2. PICK k : k = step.done + 1
  OBVIOUS
<1>3. PICK i : i = step.chosen[k].index
  OBVIOUS
<1>4. PICK s, tokens, salt :
        s = requests[i].sequence /\ tokens = requests[i].tokens /\ salt = requests[i].salt
  OBVIOUS
<1>5. /\ ~failed /\ i \in DOMAIN requests /\ Held(i)
      /\ Sequence = s /\ Request.tokens = tokens /\ Request.salt = salt
  BY <1>1, <1>2, <1>3, <1>4, RunningAt, PostingAt DEF Running, Posting
<1>6. s \in Slot /\ tokens \in Seq(Token) /\ salt \in Tenant
  BY <1>4, <1>5, EngineParts, Resident, RequestAt
<1>7. /\ BeginPublish(s, tokens, salt) /\ UNCHANGED <<entries, vars>> /\ call = Idle
      /\ UNCHANGED <<active, tables, lengths, reserved, enqueued>>
      /\ call'.op = "publish" /\ call'.sequence = s /\ call'.tokens = tokens /\ call'.salt = salt
  <2>1. BeginPublish(s, tokens, salt)
    BY <1>1, <1>5
  <2> QED BY <2>1 DEF BeginPublish, vars
<1>8. CacheInv(Tenant, Token)'
  BY <1>6, <1>7, EngineParts, BeginPublishOK
<1>9. /\ step' \in StepType /\ step'.phase = "publishing" /\ step'.chosen = step.chosen
      /\ step'.done = step.done
      /\ Standing' /\ Lifetime' /\ Selected' /\ Fifo'
  BY <1>1, <1>7, PostsOn DEF Posting
<1>10. Base'
  <2>1. \A q : ~Admitting(q) /\ ~Admitting(q)'
    BY <1>7 DEF Admitting, Idle
  <2> QED BY <1>1, <1>7, <1>8, <2>1, EngineParts, BaseStill
<1>11. Calling'
  <2>1. Sequence' = s /\ Request'.tokens = tokens /\ Request'.salt = salt
    BY <1>1, <1>5, <1>9 DEF Sequence, Request, Current
  <2> QED BY <1>7, <1>9, <2>1 DEF Calling, Phase
<1>12. Rows'
  BY <1>1, <1>7, <1>8, EngineParts, RowsStill
<1>13. Synchronous'
  <2>1. mode.prefix
    BY <1>1, <1>5, EngineParts DEF Stepwise, Selected, Phase
  <2> QED BY <1>1, <1>5, <1>9, <2>1, EngineParts, SyncKept
<1> QED BY <1>9, <1>10, <1>11, <1>12, <1>13 DEF EngineInv, Core, Stepwise
-----------------------------------------------------------------------------
(* A step of publication leaves the sequences and its own arguments.       *)
LEMMA PublishKeeps ==
  ASSUME EngineInv, PublishSkip \/ PublishEvict \/ PublishRegister
  PROVE  /\ call.op = "publish" /\ call'.op = "publish" /\ call'.sequence = call.sequence
         /\ call'.tokens = call.tokens /\ call'.salt = call.salt
         /\ UNCHANGED <<tables, lengths, reserved, active, enqueued>>
         /\ CacheInv(Tenant, Token)' /\ (~PublishRegister => Quiet)
<1>1. CacheInv(Tenant, Token)' /\ (~PublishRegister => Quiet) /\ call.op = "publish"
  <2>1. CacheStep
    BY DEF CacheStep
  <2>2. call.op = "publish"
    BY DEF PublishSkip, PublishEvict, PublishRegister, Publishing
  <2> QED BY <2>1, <2>2, EngineParts, CacheStepOK, CacheQuiet
<1>2. CASE PublishSkip
  <2>1. Publishing /\ call' = [call EXCEPT !.ordinal = @ + 1] /\ UNCHANGED vars
    BY <1>2 DEF PublishSkip
  <2>2. PICK s \in Slot, tokens \in Seq(Token), salt \in Tenant, j \in Nat \ {0} :
          PublishCall(s, tokens, salt, j)
    BY <2>1, EngineParts, PublishingAt
  <2>3. call = [op |-> "publish", sequence |-> s, tokens |-> tokens, salt |-> salt, ordinal |-> j]
    BY <2>2 DEF PublishCall
  <2>4. /\ call'.op = call.op /\ call'.sequence = call.sequence
        /\ call'.tokens = call.tokens /\ call'.salt = call.salt
    BY <2>1, <2>3
  <2> QED BY <1>1, <2>1, <2>4 DEF vars
<1>3. CASE PublishEvict
  <2>1. PICK k \in Victims({}) : Evict(k)
    BY <1>3 DEF PublishEvict
  <2>2. IInv /\ IndexTyped(Tenant, Token) /\ IndexExact
    BY EngineParts DEF CacheInv
  <2>3. k \in 1..Len(entries)
    BY <2>2, EntryAt DEF Victims, Evictable
  <2>4. UNCHANGED <<clock, call>>
    BY <1>3 DEF PublishEvict
  <2>5. UNCHANGED <<tables, lengths, reserved, active, enqueued>>
    BY <2>1, <2>2, <2>3, <2>4, EvictIndex
  <2> QED BY <1>1, <2>4, <2>5
<1>4. CASE PublishRegister
  <2>1. PICK s \in Slot, tokens \in Seq(Token), salt \in Tenant, j \in Nat \ {0} :
          Registers(Token, s, tokens, salt, j)
    BY <1>4, EngineParts, RegisterStep
  <2>2. /\ call = [op |-> "publish", sequence |-> s, tokens |-> tokens, salt |-> salt, ordinal |-> j]
        /\ call' = [op |-> "publish", sequence |-> s, tokens |-> tokens, salt |-> salt,
                    ordinal |-> j + 1]
        /\ Register(s, j)
    BY <2>1 DEF Registers, PublishCall
  <2>3. UNCHANGED <<tables, lengths, reserved, active, enqueued>>
    BY <2>2 DEF Register
  <2> QED BY <1>1, <2>2, <2>3
<1> QED BY <1>2, <1>3, <1>4

(* A step of publication: a key passed over, a victim, a new entry.        *)
LEMMA PublishContinuesOK ==
  ASSUME EngineInv, PublishContinues
  PROVE  EngineInv'
<1>1. /\ step.phase = "publishing" /\ KeepRows
      /\ PublishSkip \/ PublishEvict \/ PublishRegister
      /\ UNCHANGED <<mode, requests, nextTicket, step, account, failed>>
  BY DEF PublishContinues, Phase, engineVars
<1>2. /\ call.op = "publish" /\ call'.op = "publish" /\ call'.sequence = call.sequence
      /\ call'.tokens = call.tokens /\ call'.salt = call.salt
      /\ UNCHANGED <<tables, lengths, reserved, active, enqueued>>
      /\ CacheInv(Tenant, Token)' /\ (~PublishRegister => Quiet)
  BY <1>1, PublishKeeps
<1>3. PICK k : k = step.done + 1
  OBVIOUS
<1>4. PICK i : i = step.chosen[k].index
  OBVIOUS
<1>5. /\ ~failed /\ i \in DOMAIN requests /\ Held(i)
      /\ Sequence = requests[i].sequence /\ Request = requests[i]
  BY <1>1, <1>3, <1>4, RunningAt, PostingAt DEF Running, Posting
<1>6. /\ call.sequence = requests[i].sequence /\ call.tokens = requests[i].tokens
      /\ call.salt = requests[i].salt
  BY <1>2, <1>5, EngineParts DEF Calling
<1>7. Base'
  <2>1. \A q : ~Admitting(q) /\ ~Admitting(q)'
    BY <1>2 DEF Admitting
  <2> QED BY <1>1, <1>2, <2>1, EngineParts, BaseStill
<1>8. Standing' /\ Lifetime' /\ Selected'
  BY <1>1, <1>2, <1>5, SelectionStill DEF Same
<1>9. Calling'
  <2>1. Sequence' = Sequence /\ Request' = Request
    BY <1>1 DEF Sequence, Request, Current
  <2>2. call'.sequence = Sequence' /\ call'.tokens = Request'.tokens /\ call'.salt = Request'.salt
    BY <1>2, <1>5, <1>6, <2>1
  <2> QED BY <1>1, <1>2, <2>2 DEF Calling, Phase
<1>10. Fifo'
  BY <1>1, EngineParts, FifoStill
<1>11. Rows'
  <2>1. CASE ~PublishRegister
    BY <1>1, <1>2, <2>1, EngineParts, RowsKept DEF Held
  <2>2. CASE PublishRegister
    <3>1. PICK s, tokens, salt :
            s = requests[i].sequence /\ tokens = requests[i].tokens /\ salt = requests[i].salt
      OBVIOUS
    <3>2. OwnRows(s, tokens, salt)
      BY <1>5, <3>1, EngineParts DEF Rows
    <3>3. HoldsHistory(s, tokens)
      BY <3>2 DEF OwnRows
    <3>4. PICK a, b : a = call.sequence /\ b = call.tokens
      OBVIOUS
    <3>5. HoldsHistory(a, b)
      BY <1>6, <3>1, <3>3, <3>4
    <3>6. HoldsHistory(call.sequence, call.tokens)
      BY <3>4, <3>5
    <3>7. RowsTyped(Token) /\ EntriesOwnRows
      BY EngineParts DEF Rows
    <3>8. /\ RowsTyped(Token)' /\ EntriesOwnRows'
          /\ \A q \in Slot : \A more, tenant : OwnRows(q, more, tenant)
               /\ (call.sequence = q => call.tokens = more /\ call.salt = tenant)
               => OwnRows(q, more, tenant)'
      BY <1>1, <1>2, <2>2, <3>6, <3>7, EngineParts, RegisteredRows
    <3>9. ASSUME NEW j \in DOMAIN requests', Held(j)'
          PROVE  OwnRows(requests[j].sequence, requests[j].tokens, requests[j].salt)'
      <4>1. PICK q, more, tenant :
              q = requests[j].sequence /\ more = requests[j].tokens /\ tenant = requests[j].salt
        OBVIOUS
      <4>2. j \in DOMAIN requests /\ Held(j) /\ requests' = requests
        BY <1>1, <3>9 DEF Held
      <4>3. q \in Slot /\ OwnRows(q, more, tenant)
        BY <4>1, <4>2, EngineParts, Resident DEF Rows
      <4>4. call.sequence = q => call.tokens = more /\ call.salt = tenant
        BY <1>5, <1>6, <4>1, <4>2, EngineParts DEF Owned
      <4>5. OwnRows(q, more, tenant)'
        BY <3>8, <4>3, <4>4
      <4> QED BY <4>1, <4>2, <4>5
    <3> QED BY <1>2, <3>8, <3>9 DEF Rows
  <2> QED BY <2>1, <2>2
<1>12. Synchronous'
  BY <1>1, <1>2, <1>5, EngineParts, SyncKept DEF Synchronous
<1> QED BY <1>1, <1>7, <1>8, <1>9, <1>10, <1>11, <1>12, EngineParts DEF EngineInv, Core, Stepwise

(* It ends.                                                                *)
LEMMA PublishedOK ==
  ASSUME EngineInv, Published
  PROVE  EngineInv'
<1>1. /\ step.phase = "publishing" /\ step' = [step EXCEPT !.phase = "sample"]
      /\ UNCHANGED <<image, mode, requests, nextTicket, account, failed>>
      /\ EndPublish /\ UNCHANGED <<entries, clock, vars>> /\ call' = Idle /\ call.op = "publish"
  BY DEF Published, Phase, Goto, EndPublish
<1>2. ~failed
  BY <1>1, EngineParts DEF Synchronous
<1>3. CacheInv(Tenant, Token)'
  BY <1>1, EngineParts, EndOK
<1>4. /\ step' \in StepType /\ step'.phase = "sample"
      /\ Standing' /\ Lifetime' /\ Selected' /\ Fifo'
  BY <1>1, PostsOn DEF Posting
<1>5. Base'
  <2>1. \A q : ~Admitting(q) /\ ~Admitting(q)'
    BY <1>1 DEF Admitting, Idle
  <2> QED BY <1>1, <1>3, <2>1, EngineParts, BaseStill DEF vars
<1>6. Calling'
  BY <1>1, <1>4, CallingNone
<1>7. Rows'
  BY <1>1, <1>3, EngineParts, RowsStill DEF Idle
<1>8. Synchronous'
  <2>1. mode.prefix
    BY <1>1, EngineParts DEF Synchronous
  <2> QED BY <1>1, <1>2, <1>4, <2>1, EngineParts, SyncKept
<1> QED BY <1>4, <1>5, <1>6, <1>7, <1>8 DEF EngineInv, Core, Stepwise
-----------------------------------------------------------------------------
(* A turn ends: the next request's begins, or the call of step is over.    *)
TurnOver ==
  IF step.done + 1 = Len(step.chosen) THEN step' = NoStep
  ELSE step' = [step EXCEPT !.phase = "commit", !.done = @ + 1]

(* It touches no other request, and leaves its own as the next step wants  *)
(* it.                                                                     *)
OthersAsTheyWere(i) ==
  /\ DOMAIN requests' = DOMAIN requests
  /\ \A j \in DOMAIN requests : j # i => requests'[j] = requests[j] /\ (Held(j) => Same(j))
LeftSteady(i) ==
  /\ Stands(i)' => Steady(i)'
  /\ mode.lifetime /\ Stands(i)' =>
       Space(i)' = PeakKVExtent(requests'[i].prompt, requests'[i].maximum)

(* Then the batch goes on with the next request, or the step is over.      *)
LEMMA TurnEnds ==
  ASSUME EngineInv, step.phase = "sample", TurnOver, NEW k, k = step.done + 1,
         NEW i, i = step.chosen[k].index, mode' = mode, OthersAsTheyWere(i), LeftSteady(i)
  PROVE  /\ step' \in StepType /\ step'.phase \in {"idle", "commit"}
         /\ Standing' /\ Lifetime' /\ Selected'
<1>1. /\ step.phase \in Running /\ step \in StepType /\ step.done \in Nat /\ Len(step.chosen) \in Nat
      /\ DOMAIN step.chosen = 1..Len(step.chosen)
      /\ step.done < Len(step.chosen) /\ k \in DOMAIN step.chosen
      /\ \A l \in DOMAIN step.chosen : l \in Nat
  BY RunningAt DEF Running, Posting
<1>2. \A l \in DOMAIN step.chosen : l \in Executed <=> l > step.done
  BY DEF Executed, Phase, Running, Posting
<1>3. CASE step.done + 1 = Len(step.chosen)
  <2>1. step' = NoStep
    BY <1>3 DEF TurnOver
  <2>2. NoStep \in StepType /\ NoStep.phase = "idle" /\ NoStep.chosen = <<>> /\ NoStep.done = 0
    BY DEF NoStep, StepType, NoTarget, TargetType, Still
  <2>3. Selected'
    BY <2>1, <2>2, StillSelected DEF Still
  <2>4. \A l \in Executed : l = k
    <3>1. \A l \in Executed : l \in DOMAIN step.chosen
      BY DEF Executed
    <3> QED BY <1>1, <1>2, <1>3, <3>1
  <2>5. Standing' /\ Lifetime'
    BY <1>1, <2>1, <2>2, <2>4, RunStands DEF OthersAsTheyWere, LeftSteady
  <2> QED BY <2>1, <2>2, <2>3, <2>5
<1>4. CASE step.done + 1 # Len(step.chosen)
  <2>1. step' = [step EXCEPT !.phase = "commit", !.done = k]
    BY <1>4 DEF TurnOver
  <2>2. /\ step' \in StepType /\ step'.phase = "commit" /\ step'.chosen = step.chosen
        /\ step'.done = k /\ k < Len(step.chosen)
    <3>1. k \in Nat /\ k < Len(step.chosen)
      BY <1>1, <1>4
    <3>2. "commit" \in Still \cup Choosing \cup Running
      BY DEF Running
    <3>3. step' \in StepType
      BY <1>1, <2>1, <3>1, <3>2 DEF StepType
    <3> QED BY <1>1, <2>1, <3>1, <3>3 DEF StepType
  <2>3. \A l \in DOMAIN step.chosen : l \in Executed' <=> l > k
    BY <2>2 DEF Executed, Phase, Running, Posting
  <2>4. \A l \in DOMAIN step.chosen : l # k => (l \in Executed <=> l \in Executed')
    BY <1>1, <1>2, <2>3
  <2>5. Ran(k)'
    <3>1. k \notin Executed'
      BY <1>1, <2>3
    <3> QED BY <2>2, <3>1 DEF Ran, Phase
  <2>6. Selected'
    BY <1>1, <2>2, <2>4, <2>5, RunSelected DEF Running, Posting, OthersAsTheyWere
  <2>7. \A l \in Executed : l # k => step.chosen[l].index \in Unsteady'
    <3>1. \A l \in Executed : l \in DOMAIN step.chosen
      BY DEF Executed
    <3> QED BY <2>2, <2>4, <3>1 DEF Unsteady
  <2>8. Standing' /\ Lifetime'
    BY <1>1, <2>2, <2>7, RunStands DEF OthersAsTheyWere, LeftSteady
  <2> QED BY <2>2, <2>6, <2>8
<1> QED BY <1>3, <1>4

(* What the request whose turn it is has committed.                        *)
LEMMA SamplingAt ==
  ASSUME EngineInv, step.phase = "sample", NEW k, k = step.done + 1, NEW i, i = step.chosen[k].index
  PROVE  /\ ~failed /\ call = Idle /\ i \in DOMAIN requests /\ Held(i) /\ Stands(i)
         /\ requests[i].state \in {PREFILL, DECODE} /\ Committed(i) /\ Shape(i)
         /\ requests[i].samples = 0 /\ requests[i].uses = 0 /\ requests[i].maximum > 0
         /\ Current.index = i /\ Sequence = requests[i].sequence /\ Request = requests[i]
         /\ (mode.lifetime => Space(i) = PeakKVExtent(requests[i].prompt, requests[i].maximum))
<1>1. step.phase \in Running /\ step.phase \in Posting
  BY DEF Running, Posting
<1>2. /\ ~failed /\ Lifetime /\ i \in DOMAIN requests
      /\ Current = step.chosen[k] /\ Request = requests[i] /\ Sequence = requests[i].sequence
  BY <1>1, RunningAt
<1>3. requests[i].state \in {PREFILL, DECODE} /\ Committed(i) /\ Held(i) /\ Stands(i)
  BY <1>1, PostingAt
<1>4. call = Idle
  BY EngineParts, NoCall
<1>5. Shape(i) /\ requests[i].samples = 0 /\ requests[i].uses = 0
  BY <1>2, <1>3, EngineParts, StateAt
<1>6. requests[i].maximum > 0
  <2>1. requests[i].maximum \in Nat /\ requests[i].maximum # 0
    BY <1>2, <1>3, <1>5, EngineParts, RequestAt DEF Shape
  <2> QED BY <2>1
<1>7. mode.lifetime => Space(i) = PeakKVExtent(requests[i].prompt, requests[i].maximum)
  BY <1>2, <1>3 DEF Lifetime, Phase
<1> QED BY <1>2, <1>3, <1>4, <1>5, <1>6, <1>7

(* A chunk short of the history selects no token.                          *)
LEMMA MoreToPrefillOK ==
  ASSUME EngineInv, MoreToPrefill
  PROVE  EngineInv'
<1>1. step.phase = "sample" /\ lengths[Sequence] # Len(Request.tokens) /\ OnlyStep /\ TurnOver
  BY DEF MoreToPrefill, Phase, TurnOver
<1>2. PICK k : k = step.done + 1
  OBVIOUS
<1>3. PICK i : i = step.chosen[k].index
  OBVIOUS
<1>4. /\ ~failed /\ call = Idle /\ i \in DOMAIN requests /\ Held(i) /\ Stands(i)
      /\ requests[i].state \in {PREFILL, DECODE} /\ Committed(i) /\ requests[i].samples = 0
      /\ Sequence = requests[i].sequence /\ Request = requests[i]
      /\ (mode.lifetime => Space(i) = PeakKVExtent(requests[i].prompt, requests[i].maximum))
  BY <1>1, <1>2, <1>3, SamplingAt
<1>5. UNCHANGED <<requests, vars, mode, failed>> /\ \A j : Same(j)
  BY <1>1, SameByStill DEF OnlyStep
<1>6. Steady(i)
  <2>1. /\ Past(i) \in Nat /\ History(i) = Len(requests[i].tokens) /\ Len(requests[i].tokens) \in Nat
        /\ Past(i) # Len(requests[i].tokens)
    BY <1>1, <1>4, EngineParts, Resident, RequestAt DEF Past, History
  <2> QED BY <1>4, <2>1 DEF Steady, Committed
<1>7. Steady(i)' /\ (mode.lifetime => Space(i)' = PeakKVExtent(requests'[i].prompt, requests'[i].maximum))
  BY <1>4, <1>5, <1>6, SameRequest
<1>8. /\ step' \in StepType /\ step'.phase \in {"idle", "commit"}
      /\ Standing' /\ Lifetime' /\ Selected'
  <2>1. TurnOver /\ mode' = mode /\ OthersAsTheyWere(i)
    BY <1>1, <1>5 DEF OthersAsTheyWere
  <2>2. LeftSteady(i)
    BY <1>7 DEF LeftSteady
  <2> QED BY <1>1, <1>2, <1>3, <2>1, <2>2, TurnEnds
<1>9. Base' /\ Calling' /\ ResidentsOlderThanWaiters' /\ NewestPrefill' /\ Rows' /\ Synchronous'
  BY <1>1, <1>4, <1>8, Moved
<1>10. Fifo'
  BY <1>8, <1>9, FifoOutside DEF Still, Running
<1> QED BY <1>8, <1>9, <1>10 DEF EngineInv, Core, Stepwise
-----------------------------------------------------------------------------
(* The selected token is the last: the request ends.                       *)
LEMMA SampleEndsOK ==
  ASSUME EngineInv, NEW token \in Sampled, SampleToken(token),
         token = Stop \/ LastToken(Current.index)
  PROVE  EngineInv'
<1>1. PICK k : k = step.done + 1
  OBVIOUS
<1>2. PICK i : i = step.chosen[k].index
  OBVIOUS
<1>3. step.phase = "sample"
  BY DEF SampleToken, Phase
<1>4. /\ ~failed /\ call = Idle /\ i \in DOMAIN requests /\ Current.index = i
  BY <1>1, <1>2, <1>3, SamplingAt
<1>5. /\ CloseRequest(i) /\ KeepRows /\ TurnOver
      /\ UNCHANGED <<cacheVars, mode, nextTicket, failed>>
  BY <1>4 DEF SampleToken, TurnOver
<1>6. /\ Base' /\ Rows' /\ DOMAIN requests' = DOMAIN requests
      /\ requests'[i].state = FINISHED /\ requests'[i].sequence = 0
      /\ \A j \in DOMAIN requests : j # i => requests'[j] = requests[j] /\ (Held(j) => Same(j))
      /\ UNCHANGED <<entries, call>> /\ call' = Idle
      /\ ResidentsOlderThanWaiters' /\ NewestPrefill'
      /\ \A j \in DOMAIN requests' :
           requests'[j].uses = 0 /\ requests'[j].samples = 0 /\ requests'[j].state # DRAINING
  <2>1. failed' \in BOOLEAN
    BY <1>5, EngineParts
  <2> QED BY <1>4, <1>5, <2>1, Closing
<1>7. ~Stands(i)'
  BY <1>6 DEF Stands, Held
<1>8. /\ step' \in StepType /\ step'.phase \in {"idle", "commit"}
      /\ Standing' /\ Lifetime' /\ Selected'
  <2>1. TurnOver /\ mode' = mode /\ OthersAsTheyWere(i)
    BY <1>5, <1>6 DEF OthersAsTheyWere
  <2>2. LeftSteady(i)
    BY <1>7 DEF LeftSteady
  <2> QED BY <1>1, <1>2, <1>3, <2>1, <2>2, TurnEnds
<1>9. Calling'
  BY <1>6, <1>8, CallingNone
<1>10. Fifo'
  BY <1>6, <1>8, FifoOutside DEF Still, Running
<1>11. Synchronous'
  BY <1>4, <1>5, <1>6, <1>8, EngineParts, SyncKept DEF Synchronous, Idle
<1> QED BY <1>6, <1>8, <1>9, <1>10, <1>11 DEF EngineInv, Core, Stepwise

(* It is not: it joins the history, and the request decodes.               *)
LEMMA SampleGoesOnOK ==
  ASSUME EngineInv, NEW token \in Sampled, SampleToken(token),
         ~(token = Stop \/ LastToken(Current.index))
  PROVE  EngineInv'
<1>1. PICK k : k = step.done + 1
  OBVIOUS
<1>2. PICK i : i = step.chosen[k].index
  OBVIOUS
<1>3. step.phase = "sample"
  BY DEF SampleToken, Phase
<1>4. /\ ~failed /\ call = Idle /\ i \in DOMAIN requests /\ Held(i) /\ Stands(i)
      /\ requests[i].state \in {PREFILL, DECODE} /\ Committed(i) /\ Shape(i)
      /\ requests[i].samples = 0 /\ requests[i].uses = 0 /\ requests[i].maximum > 0
      /\ Current.index = i /\ Sequence = requests[i].sequence /\ Request = requests[i]
      /\ (mode.lifetime => Space(i) = PeakKVExtent(requests[i].prompt, requests[i].maximum))
  BY <1>1, <1>2, <1>3, SamplingAt
<1>5. PICK q : q = requests[i]
  OBVIOUS
<1>6. PICK more : more = Append(q.tokens, token)
  OBVIOUS
<1>7. /\ requests' = [requests EXCEPT ![i] = [[q EXCEPT !.tokens = more] EXCEPT !.state = DECODE]]
      /\ UNCHANGED vars /\ KeepRows /\ TurnOver /\ lengths[q.sequence] = Len(q.tokens)
      /\ UNCHANGED <<cacheVars, mode, nextTicket, failed>> /\ Generated(i) + 1 # q.maximum
  BY <1>4, <1>5, <1>6 DEF SampleToken, TurnOver, LastToken
<1>8. /\ q \in RequestType /\ q.tokens \in Seq(Token) /\ q.prompt \in Nat /\ q.maximum \in Nat
      /\ q.abort \in BOOLEAN /\ q.sequence \in 0..MaxSlots /\ Len(q.tokens) \in Nat
      /\ q.sequence \in Slot
  BY <1>4, <1>5, EngineParts, RequestAt, Resident DEF RequestType
<1>9. /\ more \in Seq(Token) /\ Len(more) = Len(q.tokens) + 1 /\ Len(q.tokens) <= Len(more)
      /\ \A m \in 0..Len(q.tokens) : Prefix(more, m) = Prefix(q.tokens, m)
  <2>1. token \in Token
    BY DEF Token
  <2> QED BY <1>6, <1>8, <2>1, SampledHistory
<1>10. PICK r : r = With(q, more, q.prompt, q.maximum, DECODE, q.sequence, q.abort)
  OBVIOUS
<1>11. /\ r \in RequestType /\ r.ticket = q.ticket /\ r.tokens = more /\ r.prompt = q.prompt
       /\ r.maximum = q.maximum /\ r.salt = q.salt /\ r.state = DECODE /\ r.sequence = q.sequence
       /\ r.uses = 0 /\ r.samples = 0
  <2>1. r \in RequestType
    BY <1>8, <1>9, <1>10, WithTyped
  <2> QED BY <1>4, <1>5, <1>10, <2>1 DEF With
<1>12. requests' = [requests EXCEPT ![i] = r]
  <2>1. r = [[q EXCEPT !.tokens = more] EXCEPT !.state = DECODE]
    BY <1>8, <1>9, <1>10, WithChanges
  <2> QED BY <1>7, <2>1
<1>13. CacheInv(Tenant, Token)'
  BY <1>7, EngineParts, StillCacheInv
<1>14. call' = Idle /\ call'.op # "reserve" /\ call.op = "none" /\ UNCHANGED <<entries, call>>
  BY <1>4, <1>7 DEF cacheVars, Idle
<1>15. Becomes(i, r)
  <2>1. \A s \in Slot : ~Admitting(s)
    BY <1>14 DEF Admitting
  <2>2. UNCHANGED active /\ active[q.sequence]
    BY <1>4, <1>5, <1>7, EngineParts, Resident DEF vars
  <2>3. active \in [Slot -> BOOLEAN]
    BY EngineParts DEF IInv, TypeOK
  <2>4. q.sequence # 0
    BY <1>4, <1>5 DEF Held
  <2>5. \A s \in Slot : active'[s] <=> s = r.sequence \/ (active[s] /\ s # requests[i].sequence)
    BY <1>5, <1>8, <1>11, <2>2, <2>3
  <2> QED BY <1>5, <1>11, <1>12, <2>1, <2>4, <2>5 DEF Becomes
<1>16. /\ requests' \in Seq(RequestType) /\ DOMAIN requests' = DOMAIN requests
       /\ requests'[i] = r
       /\ \A j \in DOMAIN requests : j # i => requests'[j] = requests[j]
       /\ \A j \in DOMAIN requests : requests'[j].ticket = requests[j].ticket
  BY <1>4, <1>15, EngineParts, Updated
<1>17. Generated(i)' = Generated(i) + 1 /\ Generated(i) < q.maximum /\ Generated(i) \in Int
  <2>1. Generated(i) < q.maximum
    BY <1>4, <1>5 DEF Shape
  <2>2. Generated(i) \in Int /\ Generated(i) = Len(q.tokens) - q.prompt
    BY <1>4, <1>5, EngineParts, RequestAt DEF Generated
  <2>3. Generated(i)' = Len(more) - q.prompt
    BY <1>11, <1>16 DEF Generated
  <2> QED BY <1>8, <1>9, <2>1, <2>2, <2>3
<1>18. Shape(i)'
  <2>1. q.prompt >= 1 /\ q.prompt <= Len(q.tokens) /\ q.prompt + q.maximum <= MaxLength
    BY <1>4, <1>5 DEF Shape
  <2>2. Generated(i)' < q.maximum
    BY <1>7, <1>8, <1>17
  <2>3. q.prompt <= Len(more)
    BY <1>8, <1>9, <2>1
  <2>4. Generated(i)' + 0 <= q.maximum
    BY <1>8, <1>17, <2>2
  <2> QED BY <1>4, <1>5, <1>11, <1>16, <2>1, <2>2, <2>3, <2>4 DEF Shape
<1>19. Base'
  <2>1. UNCHANGED <<nextTicket, mode>> /\ failed' \in BOOLEAN
    BY <1>7, EngineParts
  <2> QED BY <1>4, <1>13, <1>14, <1>15, <1>18, <2>1, EngineParts, BaseUpdate
<1>20. \A j \in DOMAIN requests : j # i => requests'[j] = requests[j] /\ (Held(j) => Same(j))
  BY <1>7, <1>16 DEF Same, vars
<1>21. Steady(i)' /\ (mode.lifetime => Space(i)' = PeakKVExtent(requests'[i].prompt, requests'[i].maximum))
  <2>1. Past(i)' = Past(i) /\ Extent(i)' = Extent(i) /\ Space(i)' = Space(i)
    BY <1>5, <1>7, <1>11, <1>16 DEF Past, Extent, Space, vars
  <2>2. Past(i) = Len(q.tokens) /\ History(i)' = Len(more) + 0
    BY <1>5, <1>7, <1>11, <1>16 DEF Past, History
  <2>3. Extent(i) = Past(i)
    BY <1>4 DEF Committed
  <2>4. Past(i)' = Len(q.tokens) /\ Extent(i)' = Len(q.tokens) /\ History(i)' = Len(q.tokens) + 1
    BY <1>8, <1>9, <2>1, <2>2, <2>3
  <2>5. Steady(i)'
    BY <1>8, <2>4 DEF Steady
  <2> QED BY <1>4, <1>5, <1>11, <1>16, <2>1, <2>5
<1>22. /\ step' \in StepType /\ step'.phase \in {"idle", "commit"}
       /\ Standing' /\ Lifetime' /\ Selected'
  <2>1. EngineInv /\ step.phase = "sample" /\ TurnOver /\ mode' = mode
    BY <1>1, <1>2, <1>3, <1>7
  <2>2. OthersAsTheyWere(i)
    BY <1>16, <1>20 DEF OthersAsTheyWere
  <2>3. LeftSteady(i)
    BY <2>1, <1>21 DEF LeftSteady
  <2> QED BY <1>1, <1>2, <2>1, <2>2, <2>3, TurnEnds
<1>23. Calling'
  BY <1>14, <1>22, CallingNone
<1>24. ResidentsOlderThanWaiters' /\ NewestPrefill'
  <2>1. \A j \in DOMAIN requests' :
          /\ j \in DOMAIN requests /\ requests'[j].ticket = requests[j].ticket
          /\ Held(j)' => Held(j)
          /\ requests'[j].state = WAITING => requests[j].state = WAITING
          /\ requests'[j].state = PREFILL => requests[j].state = PREFILL
    BY <1>4, <1>11, <1>16 DEF Held
  <2> QED BY <2>1, EngineParts, OrderKept
<1>25. Fifo'
  BY <1>22, <1>24, FifoOutside DEF Still, Running
<1>26. Rows'
  <2>1. PICK s, salt : s = q.sequence /\ salt = q.salt
    OBVIOUS
  <2>2. IInv /\ IInv' /\ Quiet
    BY <1>7, <1>13, <1>14, EngineParts, ManagerQuiet DEF CacheInv
  <2>3. s \in Slot /\ OwnRows(s, q.tokens, salt)
    BY <1>4, <1>5, <1>8, <2>1, EngineParts DEF Rows
  <2>4. OwnRows(s, more, salt)
    BY <1>8, <1>9, <2>2, <2>3, LongerHistory
  <2>5. UNCHANGED <<tables, enqueued>>
    BY <1>7 DEF vars
  <2>6. OwnRows(s, more, salt)'
    <3>1. RowsTyped(Token) /\ EntriesOwnRows
      BY EngineParts DEF Rows
    <3> QED BY <1>7, <1>13, <2>2, <2>3, <2>4, <2>5, <3>1, EngineParts, QuietOwn
  <2>7. OwnRows(requests[i].sequence, requests[i].tokens, requests[i].salt)'
    BY <1>11, <1>16, <2>1, <2>6
  <2>8. \A j \in DOMAIN requests' : Held(j)' /\ j # i =>
          /\ j \in DOMAIN requests
          /\ requests'[j].sequence = requests[j].sequence
          /\ requests'[j].tokens = requests[j].tokens /\ requests'[j].salt = requests[j].salt
          /\ tables'[requests[j].sequence] = tables[requests[j].sequence]
          /\ enqueued'[requests[j].sequence] = enqueued[requests[j].sequence]
    BY <1>16, <2>5
  <2> QED BY <1>7, <1>13, <1>14, <2>2, <2>7, <2>8, EngineParts, RowsJoined
<1>27. Synchronous'
  <2>1. \A j \in DOMAIN requests' :
          requests'[j].uses = 0 /\ requests'[j].samples = 0 /\ requests'[j].state # DRAINING
    BY <1>11, <1>16, EngineParts
  <2> QED BY <1>4, <1>7, <1>14, <1>22, <2>1, EngineParts, SyncKept DEF Synchronous
<1> QED BY <1>19, <1>22, <1>23, <1>25, <1>26, <1>27 DEF EngineInv, Core, Stepwise

(* The selected token is delivered.                                        *)
LEMMA SampleTokenOK ==
  ASSUME EngineInv, NEW token \in Sampled, SampleToken(token)
  PROVE  EngineInv'
BY SampleEndsOK, SampleGoesOnOK
-----------------------------------------------------------------------------
(* A fresh engine.                                                         *)
LEMMA EngineInitOK ==
  ASSUME EngineInit
  PROVE  EngineInv
<1>1. /\ Init /\ CacheInit /\ RowsInit /\ mode \in Modes /\ requests = <<>> /\ nextTicket = 1
      /\ step = NoStep /\ failed = FALSE
  BY DEF EngineInit
<1>2. entries = <<>> /\ clock = 0 /\ call = Idle /\ DOMAIN entries = {}
  BY <1>1 DEF CacheInit
<1>3. CacheInv(Tenant, Token)
  <2>1. IInv
    BY <1>1, InitIInv
  <2>2. IndexTyped(Tenant, Token)
    BY <1>2 DEF IndexTyped
  <2>3. Registered = {} /\ {entries[k].block : k \in DOMAIN entries} = {}
    BY <1>1, <1>2 DEF Init, Registered
  <2>4. Len(entries) = 0 /\ 0 <= Capacity
    <3>1. Cardinality(Block) \in Nat
      BY GeometryAssumption, FS_CardinalityType
    <3> QED BY <1>2, <3>1, CacheAssumption
  <2>5. IndexExact
    BY <1>2, <2>3, <2>4 DEF IndexExact
  <2> QED BY <1>2, <2>1, <2>2, <2>5 DEF CacheInv, CallOK
<1>4. /\ requests \in Seq(RequestType) /\ DOMAIN requests = {} /\ call.op = "none"
      /\ \A s \in Slot : ~active[s]
  BY <1>1, <1>2 DEF Init, Idle
<1>5. Base
  BY <1>1, <1>3, <1>4 DEF Base, Roster, Tickets, Owned
<1>6. /\ step.phase = "idle" /\ step.chosen = <<>> /\ step.done = 0 /\ step \in StepType
  BY <1>1 DEF NoStep, StepType, NoTarget, TargetType, Still
<1>7. Standing /\ Lifetime
  BY <1>4 DEF Standing, Lifetime
<1>8. Selected
  <2>1. /\ step.phase \in Still /\ step.phase \notin Choosing \cup Running
        /\ ~Phase("room") /\ ~Phase("admit") /\ ~Phase("reserve") /\ ~Phase("publish")
    BY <1>6 DEF Phase, Still, Choosing, Running, Posting
  <2> QED BY <1>6, <2>1 DEF Selected
<1>9. Calling
  BY <1>4, <1>6 DEF Calling, Phase
<1>10. Fifo
  <2>1. /\ step.phase \notin Choosing \ {"build", "reserve"} /\ ~Phase("admit") /\ ~Phase("room")
    BY <1>6 DEF Phase, Choosing
  <2> QED BY <1>4, <2>1 DEF Fifo, ResidentsOlderThanWaiters, NewestPrefill
<1>11. Rows
  <2>1. RowsTyped(Token)
    BY <1>1 DEF RowsTyped, RowsInit, Init
  <2>2. EntriesOwnRows
    BY <1>2 DEF EntriesOwnRows
  <2> QED BY <1>4, <2>1, <2>2 DEF Rows
<1>12. Synchronous
  BY <1>1, <1>2, <1>4, <1>6 DEF Synchronous
<1> QED BY <1>5, <1>6, <1>7, <1>8, <1>9, <1>10, <1>11, <1>12 DEF EngineInv, Core, Stepwise

(* Nothing happens.                                                        *)
LEMMA EngineStutter ==
  ASSUME EngineInv, UNCHANGED allVars
  PROVE  EngineInv'
<1>1. /\ UNCHANGED <<vars, cacheVars, image>>
      /\ UNCHANGED <<mode, requests, nextTicket, step, account, failed>>
  BY DEF allVars, engineVars
<1>2. UNCHANGED <<entries, call>> /\ \A j : Same(j)
  BY <1>1, SameByStill DEF cacheVars
<1>3. CacheInv(Tenant, Token)'
  BY <1>1, EngineParts, StillCacheInv
<1>4. Base'
  <2>1. UNCHANGED active
    BY <1>1 DEF vars
  <2> QED BY <1>1, <1>2, <1>3, <2>1, EngineParts, BaseStill DEF Admitting
<1>5. ~failed' => Standing' /\ Lifetime' /\ Selected'
  BY <1>1, <1>2, SelectionStill
<1>6. UNCHANGED <<states, lengths, reserved, enqueued>>
  BY <1>1 DEF vars
<1>7. Quiet /\ KeepRows
  <2>1. RowsTyped(Token) /\ IInv
    BY EngineParts DEF Rows
  <2> QED BY <1>1, <1>2, <1>3, <2>1, EngineParts, ManagerQuiet, StillRows DEF CacheInv
<1>8. Calling'
  <2>1. UNCHANGED <<Sequence, Request, LiveSlots>>
    BY <1>1 DEF Sequence, Request, Current, LiveSlots, Live
  <2>2. CASE call.op \in {"admit", "reserve"}
    <3>1. PICK i : i = step.target.index
      OBVIOUS
    <3>2. AdmitTarget(i)
      BY <2>2, <3>1, AdmittingAt
    <3>3. call'.op = "reserve" =>
            (enqueued[call.sequence] = lengths[call.sequence] /\ reserved[call.sequence] <= call.length)'
      BY <1>2, <1>6, <3>2 DEF AdmitTarget
    <3>4. ASSUME call'.op = "admit"
          PROVE  Matched(call.cached, requests[i].tokens, requests[i].salt)'
      <4>1. PICK cached, tokens, salt :
              cached = call.cached /\ tokens = requests[i].tokens /\ salt = requests[i].salt
        OBVIOUS
      <4>2. PICK n \in Int, c \in Seq(Block), length \in 0..MaxLength : AdmitCall(n, c, length)
        BY <1>2, <3>4, EngineParts, WhichCall DEF CacheInv
      <4>3. cached \in Seq(Block) /\ \A m \in 1..Len(cached) : states[cached[m]] = REGISTERED
        BY <4>1, <4>2 DEF AdmitCall
      <4>4. Matched(cached, tokens, salt)
        BY <1>2, <3>2, <3>4, <4>1 DEF AdmitTarget
      <4>5. Matched(cached, tokens, salt)'
        BY <1>6, <1>7, <4>3, <4>4, StillMatched
      <4> QED BY <1>1, <1>2, <4>1, <4>5
    <3> QED BY <1>1, <1>2, <2>2, <3>1, <3>3, <3>4, TargetStays
  <2>3. CASE call.op \notin {"admit", "reserve"}
    BY <1>1, <1>2, <2>1, <2>3, EngineParts DEF Calling, Phase
  <2> QED BY <2>2, <2>3
<1>9. Fifo'
  BY <1>1, EngineParts, FifoStill
<1>10. Rows'
  <2>1. RowsTyped(Token)' /\ EntriesOwnRows'
    BY <1>3, <1>7, EngineParts, QuietRows DEF Rows
  <2>2. UNCHANGED <<tables, enqueued>>
    BY <1>1 DEF vars
  <2>3. \A s \in Slot : \A tokens, salt : OwnRows(s, tokens, salt) => OwnRows(s, tokens, salt)'
    BY <1>3, <1>7, <2>2, EngineParts, QuietOwn DEF Rows
  <2>4. ASSUME NEW j \in DOMAIN requests', Held(j)'
        PROVE  OwnRows(requests[j].sequence, requests[j].tokens, requests[j].salt)'
    <3>1. PICK s, tokens, salt :
            s = requests[j].sequence /\ tokens = requests[j].tokens /\ salt = requests[j].salt
      OBVIOUS
    <3>2. j \in DOMAIN requests /\ Held(j)
      BY <1>1, <2>4 DEF Held
    <3>3. s \in Slot /\ OwnRows(s, tokens, salt)
      BY <3>1, <3>2, EngineParts, Resident DEF Rows
    <3> QED BY <1>1, <2>3, <3>1, <3>3
  <2>5. ASSUME call'.op = "reserve"
        PROVE  OwnRows(call.sequence, requests[step.target.index].tokens,
                       requests[step.target.index].salt)'
    <3>1. PICK s, tokens, salt :
            /\ s = call.sequence /\ tokens = requests[step.target.index].tokens
            /\ salt = requests[step.target.index].salt
      OBVIOUS
    <3>2. OwnRows(s, tokens, salt)
      BY <1>2, <2>5, <3>1, EngineParts DEF Rows
    <3>3. PICK r \in Slot, c \in Seq(Block), length \in 0..MaxLength : ReserveCall(r, c, length)
      BY <1>2, <2>5, EngineParts, WhichCall DEF CacheInv
    <3>4. s \in Slot
      BY <3>1, <3>3 DEF ReserveCall
    <3> QED BY <1>1, <1>2, <2>3, <3>1, <3>2, <3>4
  <2> QED BY <2>1, <2>4, <2>5 DEF Rows
<1>11. Synchronous'
  BY <1>1, <1>2, EngineParts DEF Synchronous
<1> QED BY <1>1, <1>4, <1>5, <1>8, <1>9, <1>10, <1>11, EngineParts DEF EngineInv, Core, Stepwise
-----------------------------------------------------------------------------
(* Every step of scheduling keeps the invariant.                           *)
LEMMA ScheduleOK ==
  ASSUME EngineInv, Schedule
  PROVE  EngineInv'
<1>1. CASE DecodePick
  BY <1>1, DecodePickOK
<1>2. CASE DecodeDone
  BY <1>2, DecodeDoneOK
<1>3. CASE RoomOwned
  BY <1>3, RoomOwnedOK
<1>4. CASE RoomReclaim
  BY <1>4, RoomReclaimOK
<1>5. CASE RoomPreempt
  BY <1>5, RoomPreemptOK
<1>6. CASE RoomReserve
  BY <1>6, RoomReserveOK
<1>7. CASE RoomLost
  BY <1>7, RoomLostOK
<1>8. CASE PrefillPick
  BY <1>8, PrefillPickOK
<1>9. CASE PrefillNone \/ PrefillSkip \/ AdmitRefuse
  BY <1>9, PrefillTurnsOK
<1>10. CASE AdmitPlain
  BY <1>10, AdmitPlainOK
<1>11. CASE AdmitBlocks
  BY <1>11, AdmitBlocksOK
<1>12. CASE AdmitBegin
  BY <1>12, AdmitBeginOK
<1>13. CASE AdmitReclaim
  BY <1>13, AdmitReclaimOK
<1>14. CASE AdmitSequence
  BY <1>14, AdmitSequenceOK
<1>15. CASE AdmitChoose
  BY <1>15, AdmitChooseOK
<1> QED BY <1>1, <1>2, <1>3, <1>4, <1>5, <1>6, <1>7, <1>8, <1>9, <1>10, <1>11, <1>12, <1>13, <1>14,
           <1>15 DEF Schedule

(* And every other step of the engine and of its host.                     *)
LEMMA EngineStep ==
  ASSUME EngineInv, [EngineNext]_allVars
  PROVE  EngineInv'
<1>1. CASE Host
  <2>1. ASSUME NEW id \in Ids, NEW prompt \in Prompts, NEW maximum \in Outputs, NEW salt \in Salts,
               Add(id, prompt, maximum, salt)
        PROVE  EngineInv'
    BY <2>1, AddOK
  <2>2. ASSUME NEW id \in Ids, Abort(id) PROVE EngineInv'
    BY <2>2, AbortOK
  <2>3. CASE ClearCache
    BY <2>3, ClearingOK
  <2> QED BY <1>1, <2>1, <2>2, <2>3 DEF Host
<1>2. CASE BeginStep \/ EmptyBatch
  BY <1>2, CallBoundsOK
<1>3. CASE ExecuteFails
  BY <1>3, ExecuteFailsOK
<1>4. CASE StepContinues
  <2>1. CASE BoundaryFinish
    BY <2>1, BoundaryFinishOK
  <2>2. CASE BoundaryDone
    BY <2>2, BoundaryDoneOK
  <2>3. CASE Schedule
    BY <2>3, ScheduleOK
  <2>4. CASE EmptyBatch
    BY <2>4, CallBoundsOK
  <2>5. CASE BuildBatch
    BY <2>5, BuildBatchOK
  <2>6. CASE Execute
    BY <2>6, ExecuteOK
  <2>7. CASE FailRequest
    BY <2>7, FailRequestOK
  <2>8. CASE FailDone
    BY <2>8, ClearingOK
  <2>9. CASE CacheClears
    BY <2>9, CacheClearsOK
  <2>10. CASE CommitChosen
    BY <2>10, CommitChosenOK
  <2>11. CASE PublishChosen
    BY <2>11, PublishChosenOK
  <2>12. CASE PublishContinues
    BY <2>12, PublishContinuesOK
  <2>13. CASE Published
    BY <2>13, PublishedOK
  <2>14. CASE MoreToPrefill
    BY <2>14, MoreToPrefillOK
  <2>15. ASSUME NEW token \in Sampled, SampleToken(token) PROVE EngineInv'
    BY <2>15, SampleTokenOK
  <2> QED BY <1>4, <2>1, <2>2, <2>3, <2>4, <2>5, <2>6, <2>7, <2>8, <2>9, <2>10, <2>11, <2>12,
             <2>13, <2>14, <2>15 DEF StepContinues
<1>5. CASE UNCHANGED allVars
  BY <1>5, EngineStutter
<1> QED BY <1>1, <1>2, <1>3, <1>4, <1>5 DEF EngineNext

(* The inductive invariant of the engine, stepped synchronously.           *)
THEOREM EngineInductive == EngineSpec => []EngineInv
<1>1. EngineInit => EngineInv
  BY EngineInitOK
<1>2. EngineInv /\ [EngineNext]_allVars => EngineInv'
  BY EngineStep
<1> QED BY <1>1, <1>2, PTL DEF EngineSpec
-----------------------------------------------------------------------------
(* Every row a request attends to, and every cached row, was computed from *)
(* exactly that history.                                                   *)
THEOREM RowsAreOwnHistory == EngineSpec => []KVCorrect
<1>1. EngineInv => KVCorrect
  BY DEF EngineInv, Rows, OwnRows, EntriesOwnRows, KVCorrect
<1> QED BY <1>1, EngineInductive, PTL

(* No request holds blocks while an older one waits.                       *)
THEOREM FirstComeFirstServed == EngineSpec => []ResidentsOlderThanWaiters
<1>1. EngineInv => ResidentsOlderThanWaiters
  BY EngineParts
<1> QED BY <1>1, EngineInductive, PTL
-----------------------------------------------------------------------------
(* Room for a decode or a chunk is there, owned, or can be made: the       *)
(* target itself is always a candidate for preemption.                     *)
LEMMA SchedulingInside ==
  ASSUME EngineInv
  PROVE  ScheduleNeverRaises
<1> SUFFICES ASSUME Phase("room") PROVE ScheduleNeverRaises
  BY DEF ScheduleNeverRaises
<1>1. PICK i : i = step.target.index
  OBVIOUS
<1>2. /\ RoomTarget(i) /\ i \in DOMAIN requests /\ step \in StepType
      /\ ~step.target.lost => Held(i) /\ Stands(i) /\ Steady(i)
  BY <1>1, RoomAt DEF Phase
<1>3. CASE mode.lifetime
  <2>1. ~step.target.lost /\ Past(i) + step.target.count <= History(i) /\ Held(i) /\ Stands(i)
    BY <1>2, <1>3 DEF RoomTarget
  <2>2. requests[i].state \in {PREFILL, DECODE} /\ Live(i)
    BY <1>2, <2>1 DEF RoomTarget, Live
  <2>3. step.phase \in Choosing
    BY DEF Phase, Choosing
  <2>4. Space(i) = PeakKVExtent(requests[i].prompt, requests[i].maximum)
    BY <1>2, <1>3, <2>1, <2>3, ChoosingAt DEF Lifetime, Phase
  <2>5. requests[i].maximum > 0
    BY <1>2, <2>2, <2>3, ChoosingAt
  <2>6. History(i) <= Space(i) /\ History(i) \in Nat /\ Space(i) \in Nat
    BY <1>2, <2>2, <2>4, <2>5, PeakCovers
  <2>7. Past(i) \in Nat /\ step.target.count \in Nat
    BY <1>2, <2>1, EngineParts, Resident, StepAt
  <2>8. WantedLength <= Space(i)
    BY <1>1, <2>1, <2>6, <2>7 DEF WantedLength
  <2> QED BY <1>1, <1>3, <2>8 DEF ScheduleNeverRaises, Space
<1>4. CASE ~mode.lifetime
  <2>1. ASSUME ~step.target.lost
        PROVE  Preemptible # {}
    <3>1. Held(i) /\ requests[i].uses = 0 /\ i \notin ChosenSlots
      BY <1>2, <2>1, EngineParts DEF RoomTarget, Target1
    <3> QED BY <1>2, <3>1 DEF Preemptible
  <2> QED BY <1>4, <2>1 DEF ScheduleNeverRaises
<1> QED BY <1>3, <1>4
-----------------------------------------------------------------------------
(* Keys name one entry each: what the index answers is what is filed.      *)
LEMMA FiledIsFound ==
  ASSUME NEW S, NEW T, CacheInv(S, T), NEW b, NEW tokens, NEW salt, NEW i,
         Filed(b, salt, Prefix(tokens, i * BlockSize))
  PROVE  Indexed(tokens, salt, i) /\ BlockAt(tokens, salt, i) = b
<1> DEFINE key == Prefix(tokens, i * BlockSize)
<1>1. PICK k \in DOMAIN entries :
        entries[k].block = b /\ entries[k].salt = salt /\ entries[k].tokens = key
  BY DEF Filed
<1>2. k \in Find(key, salt)
  BY <1>1 DEF Find
<1>3. ASSUME NEW j \in Find(key, salt)
      PROVE  entries[j].block = b
  <2>1. j \in DOMAIN entries /\ entries[j].salt = salt /\ entries[j].tokens = key
    BY <1>3 DEF Find
  <2>2. j = k
    BY <1>1, <2>1 DEF CacheInv, IndexExact
  <2> QED BY <1>1, <2>2
<1> HIDE DEF key
<1>4. PICK c : c = CHOOSE j \in Find(key, salt) : TRUE
  OBVIOUS
<1>5. c \in Find(key, salt)
  BY <1>2, <1>4
<1> QED BY <1>2, <1>3, <1>4, <1>5 DEF key, Indexed, BlockAt

(* A block about to be published is the one filed, or private.             *)
LEMMA PublicationInside ==
  ASSUME EngineInv
  PROVE  PublicationNeverRaises
<1>1. ASSUME Phase("publish")
      PROVE  Publishable(Sequence, Request.tokens, Request.salt)
  <2>1. PICK k : k = step.done + 1
    OBVIOUS
  <2>2. PICK i : i = step.chosen[k].index
    OBVIOUS
  <2>3. step.phase \in Posting /\ step.phase \in Running
    BY <1>1 DEF Phase, Posting, Running
  <2>4. Committed(i) /\ Held(i) /\ i \in DOMAIN requests /\ Request = requests[i]
        /\ Sequence = requests[i].sequence
    BY <2>1, <2>2, <2>3, PostingAt, RunningAt
  <2>5. PICK s, tokens, salt :
          s = requests[i].sequence /\ tokens = requests[i].tokens /\ salt = requests[i].salt
    OBVIOUS
  <2>6. s \in Slot /\ OwnRows(s, tokens, salt) /\ IInv /\ CacheInv(Tenant, Token)
    BY <2>4, <2>5, EngineParts, Resident DEF Rows
  <2>7. Len(tokens) >= lengths[s]
    <3>1. requests[i].samples = 0 /\ Len(tokens) \in Nat /\ Past(i) \in Nat
      BY <2>4, <2>5, EngineParts, RequestAt, Resident
    <3> QED BY <2>4, <2>5, <3>1 DEF Committed, History, Past
  <2>8. ASSUME NEW m \in 1..(lengths[s] \div BlockSize), NEW b, b = tables[s][m]
        PROVE  IF states[b] = REGISTERED
               THEN Indexed(tokens, salt, m) /\ BlockAt(tokens, salt, m) = b
               ELSE states[b] = COMPLETE /\ refs[b] = 1
    <3>1. m \in 1..Len(tables[s])
      BY <2>6, FullHeld
    <3>2. b \in Block /\ states[b] \in {COMPLETE, REGISTERED}
      <4>1. m <= lengths[s] \div BlockSize
        <5>1. lengths[s] \div BlockSize \in Nat
          BY <2>6, <3>1, HeldState DEF IInv, Consistent
        <5> QED BY <5>1
      <4> QED BY <2>6, <2>8, <3>1, <4>1, HeldState DEF IInv, Consistent
    <3>3. CASE states[b] = REGISTERED
      <4>1. Filed(b, salt, Prefix(tokens, m * BlockSize))
        BY <2>6, <2>8, <3>1, <3>3 DEF OwnRows, SharesOwn
      <4> QED BY <2>6, <3>3, <4>1, FiledIsFound
    <3>4. CASE states[b] = COMPLETE
      <4>1. refs[b] = 1
        BY <2>6, <3>2, <3>4 DEF IInv, Consistent, RefsExact
      <4> QED BY <3>4, <4>1
    <3> QED BY <3>2, <3>3, <3>4
  <2>9. Publishable(s, tokens, salt)
    BY <2>7, <2>8 DEF Publishable
  <2> QED BY <2>4, <2>5, <2>9
<1>2. ASSUME Publishing, ~Known
      PROVE  states[tables[call.sequence][call.ordinal]] = COMPLETE
  BY <1>2, EngineParts, NewIsPrivate
<1> QED BY <1>1, <1>2 DEF PublicationNeverRaises
-----------------------------------------------------------------------------
(* A selected request before its batch runs.                               *)
LEMMA BatchAt ==
  ASSUME EngineInv, Phase("execute"), step.done = 0, NEW k \in DOMAIN step.chosen,
         NEW i, i = step.chosen[k].index, NEW n, n = step.chosen[k].count
  PROVE  /\ i \in DOMAIN requests /\ Held(i) /\ requests[i].sequence \in Slot
         /\ Ready(i, n) /\ Extent(i) = Past(i) /\ n \in Nat
         /\ Past(i) \in Nat /\ Space(i) \in Nat /\ History(i) \in Nat
         /\ ChosenSequence(k) = requests[i].sequence
<1>1. step.phase \in Running /\ step.phase = "execute"
  BY DEF Phase, Running
<1>2. /\ ~failed /\ Standing /\ Batch /\ step \in StepType /\ Ran(k) /\ k \in Nat
      /\ DOMAIN step.chosen = 1..Len(step.chosen) /\ Len(step.chosen) \in Nat
  BY <1>1, RunningAt
<1>3. Executed = {}
  <2>1. ASSUME NEW l \in Executed PROVE FALSE
    <3>1. l \in 1..Len(step.chosen) /\ l <= 0
      BY <1>1, <1>2, <2>1 DEF Executed
    <3> QED BY <1>2, <3>1
  <2> QED BY <2>1
<1>4. Picked(k)
  BY <1>2, <1>3 DEF Ran
<1>5. i \in DOMAIN requests /\ n \in Nat
  BY <1>2, ChosenAt
<1>6. requests[i].state \in {PREFILL, DECODE} /\ Ready(i, n)
  BY <1>4 DEF Picked
<1>7. Held(i) /\ Stands(i)
  BY <1>5, <1>6, StateAt
<1>8. Extent(i) = Past(i)
  <2>1. i \notin Unsteady
    BY <1>3 DEF Unsteady
  <2> QED BY <1>2, <1>5, <1>7, <2>1 DEF Standing, Steady
<1>9. requests[i].sequence \in Slot /\ Past(i) \in Nat /\ Space(i) \in Nat /\ History(i) \in Nat
  BY <1>5, <1>7, EngineParts, Resident, RequestAt
<1> QED BY <1>5, <1>6, <1>7, <1>8, <1>9 DEF ChosenSequence

(* A block a request is about to write is Partial, and its own.            *)
LEMMA WritesPrivate ==
  ASSUME IInv, NEW s \in Slot, NEW n \in Nat, lengths[s] + n <= reserved[s],
         NEW p \in (lengths[s] + 1)..(lengths[s] + n)
  PROVE  /\ EntryIndex(p) \in 1..Len(tables[s])
         /\ tables[s][EntryIndex(p)] \in Block
         /\ states[tables[s][EntryIndex(p)]] = PARTIAL /\ refs[tables[s][EntryIndex(p)]] = 1
<1>1. TypeOK /\ Consistent /\ Extents /\ HeldStates /\ RefsExact
  BY DEF IInv, Consistent
<1>2. /\ lengths[s] \in Nat /\ reserved[s] \in Nat /\ Len(tables[s]) = CeilDiv(reserved[s], BlockSize)
  BY <1>1, ExtentType
<1>3. BlockSize \in Nat \ {0}
  BY GeometryAssumption
<1>4. PICK e : e = EntryIndex(p)
  OBVIOUS
<1>5. PICK full \in Nat : full = lengths[s] \div BlockSize
  BY <1>2, <1>3, Division
<1>6. p \in Nat /\ p > lengths[s] /\ p <= reserved[s]
  BY <1>2
<1>7. e \in Nat /\ e = CeilDiv(p, BlockSize) /\ (p <= full * BlockSize <=> e <= full)
  <2>1. full \in Int
    BY <1>5
  <2>2. CeilDiv(p, BlockSize) \in Nat /\ (p <= full * BlockSize <=> CeilDiv(p, BlockSize) <= full)
    BY <1>3, <1>6, <2>1, CeilBound
  <2>3. e = CeilDiv(p, BlockSize)
    BY <1>4 DEF EntryIndex
  <2> QED BY <2>2, <2>3
<1>8. e > full
  <2>1. full * BlockSize <= lengths[s]
    BY <1>2, <1>3, <1>5, FloorBound
  <2>2. full * BlockSize \in Int
    BY <1>3, <1>5
  <2> QED BY <1>2, <1>5, <1>6, <1>7, <2>1, <2>2
<1>9. e <= Len(tables[s])
  BY <1>2, <1>3, <1>6, <1>7, DivMonotone
<1>10. e \in 1..Len(tables[s])
  <2>1. Len(tables[s]) \in Nat
    BY <1>1, TableType
  <2> QED BY <1>5, <1>7, <1>8, <1>9, <2>1
<1>11. tables[s][e] \in Block /\ states[tables[s][e]] = PARTIAL
  BY <1>1, <1>5, <1>8, <1>10, HeldState
<1>12. refs[tables[s][e]] = 1
  BY <1>1, <1>11 DEF RefsExact
<1> QED BY <1>4, <1>10, <1>11, <1>12

(* The rows of a batch, counted.                                           *)
LEMMA BatchRows ==
  ASSUME EngineInv, Phase("execute"), step.done = 0
  PROVE  RowTotal <= TokenBudget
<1> DEFINE N    == Len(step.chosen)
           last == step.chosen[N].count
           U    == UNION {{k} \X RowsOf(k) : k \in DOMAIN step.chosen}
           At0(u) == Past(step.chosen[u[1]].index)
           f    == [u \in U |-> u[1] - 1 + u[2] - At0(u)]
<1>1. step.phase \in Running
  BY DEF Phase, Running
<1>2. N \in Nat /\ DOMAIN step.chosen = 1..N /\ Batch
  BY <1>1, RunningAt
<1>3. N # 0 => last \in Nat /\ N - 1 + last <= TokenBudget
  <2>1. ASSUME N # 0 PROVE N \in DOMAIN step.chosen /\ step.chosen # <<>>
    BY <1>2, <2>1
  <2> QED BY <2>1, BatchAt, <1>2 DEF Batch
<1>4. ASSUME NEW u \in U
      PROVE  /\ u[1] \in 1..N /\ At0(u) \in Nat /\ u = <<u[1], u[2]>>
             /\ u[2] \in (At0(u) + 1)..(At0(u) + step.chosen[u[1]].count)
             /\ step.chosen[u[1]].count \in Nat
             /\ u[1] < N => step.chosen[u[1]].count = 1
  <2>1. PICK k \in DOMAIN step.chosen : u \in {k} \X RowsOf(k)
    BY <1>4
  <2>2. u[1] = k /\ u[2] \in RowsOf(k) /\ u = <<u[1], u[2]>>
    BY <2>1
  <2>3. Past(step.chosen[k].index) \in Nat /\ step.chosen[k].count \in Nat
    BY BatchAt
  <2> QED BY <1>2, <2>1, <2>2, <2>3 DEF RowsOf, Batch
<1>5. CASE N = 0
  <2>1. U = {}
    BY <1>2, <1>5
  <2>2. RowTotal = 0
    BY <2>1, FS_EmptySet DEF RowTotal
  <2>3. TokenBudget \in Nat
    BY EngineAssumption
  <2> QED BY <2>2, <2>3
<1>6. CASE N # 0
  <2>1. last \in Nat /\ N - 1 + last <= TokenBudget /\ N \in Nat /\ N # 0
    BY <1>2, <1>3, <1>6
  <2>2. PICK top \in Nat : top = N - 1 + last
    BY <2>1
  <2>3. ASSUME NEW u \in U
        PROVE  /\ f[u] = u[1] - 1 + u[2] - At0(u) /\ f[u] \in 1..top
               /\ u[1] < N => u[1] = f[u] /\ f[u] < N
               /\ ~(u[1] < N) => u[1] = N /\ f[u] >= N
    <3>1. f[u] = u[1] - 1 + u[2] - At0(u)
      BY <2>3
    <3>2. /\ u[1] \in 1..N /\ At0(u) \in Nat
          /\ u[2] \in (At0(u) + 1)..(At0(u) + step.chosen[u[1]].count)
          /\ step.chosen[u[1]].count \in Nat
          /\ u[1] < N => step.chosen[u[1]].count = 1
      BY <1>4, <2>3
    <3>3. PICK k, p, past, n, m, c, v :
            /\ k = u[1] /\ p = u[2] /\ past = At0(u) /\ n = step.chosen[u[1]].count
            /\ m = N /\ c = last /\ v = f[u]
      OBVIOUS
    <3>4. /\ m \in Nat /\ c \in Nat /\ k \in 1..m /\ past \in Nat /\ n \in Nat
          /\ p \in (past + 1)..(past + n) /\ v = k - 1 + p - past /\ top = m - 1 + c
          /\ k < m => n = 1
          /\ k = m => n = c
      BY <2>1, <2>2, <3>1, <3>2, <3>3
    <3>5. CASE k < m
      <4>1. v = k /\ v \in 1..top
        BY <3>4, <3>5
      <4> QED BY <3>1, <3>3, <3>5, <4>1
    <3>6. CASE ~(k < m)
      <4>1. k = m /\ n = c
        BY <3>4, <3>6
      <4>2. v >= m /\ v \in 1..top
        BY <3>4, <4>1
      <4> QED BY <3>1, <3>3, <3>6, <4>1, <4>2
    <3> QED BY <3>5, <3>6
  <2> HIDE DEF f, U, N, last
  <2>4. ASSUME NEW u \in U, NEW v \in U, f[u] = f[v]
        PROVE  u = v
    <3>1. u[1] \in 1..N /\ v[1] \in 1..N
      BY <1>4
    <3>2. /\ f[u] \in 1..top /\ f[v] \in 1..top
          /\ u[1] < N => u[1] = f[u] /\ f[u] < N
          /\ ~(u[1] < N) => u[1] = N /\ f[u] >= N
          /\ v[1] < N => v[1] = f[v] /\ f[v] < N
          /\ ~(v[1] < N) => v[1] = N /\ f[v] >= N
      BY <2>3
    <3>3. u[1] = v[1] /\ u[1] \in Nat
      <4>1. PICK x, y, z, w : x = u[1] /\ y = v[1] /\ z = f[u] /\ w = f[v]
        OBVIOUS
      <4> QED BY <2>1, <2>2, <2>4, <3>1, <3>2, <4>1
    <3>4. At0(u) = At0(v) /\ At0(u) \in Nat
      BY <1>4, <2>4, <3>3
    <3>5. u[2] \in Int /\ v[2] \in Int
      BY <1>4, <2>4
    <3>6. u[1] - 1 + u[2] - At0(u) = v[1] - 1 + v[2] - At0(v)
      BY <2>3, <2>4
    <3>7. u[2] = v[2]
      <4> HIDE DEF At0
      <4> QED BY <3>3, <3>4, <3>5, <3>6
    <3> QED BY <1>4, <2>4, <3>3, <3>7
  <2>5. f \in Injection(U, 1..top)
    <3>1. f \in [U -> 1..top]
      <4>1. f = [u \in U |-> f[u]]
        BY DEF f
      <4> QED BY <2>3, <4>1
    <3> QED BY <2>4, <3>1 DEF Injection, IsInjective
  <2>6. IsFiniteSet(1..top) /\ Cardinality(1..top) = top
    BY <2>2, FS_Interval
  <2>7. IsFiniteSet(U) /\ Cardinality(U) <= Cardinality(1..top)
    BY <2>5, <2>6, FS_Injection
  <2>8. Cardinality(U) \in Nat
    BY <2>7, FS_CardinalityType
  <2>9. RowTotal = Cardinality(U) /\ top <= TokenBudget /\ TokenBudget \in Nat
    BY <2>1, <2>2, EngineAssumption DEF RowTotal, U
  <2> QED BY <2>2, <2>6, <2>7, <2>8, <2>9
<1> QED BY <1>5, <1>6

(* The batch passes its own validation and the runner's append check.      *)
LEMMA BatchInside ==
  ASSUME EngineInv
  PROVE  BatchValid
<1> SUFFICES ASSUME Phase("execute"), step.done = 0
             PROVE  BatchValid
  BY DEF BatchValid
<1>1. RowTotal <= TokenBudget /\ Len(step.chosen) <= MaxSequences /\ Batch
  <2>1. Batch
    BY RunningAt DEF Phase, Running
  <2> QED BY <2>1, BatchRows DEF Batch
<1>2. ASSUME NEW k \in DOMAIN step.chosen, NEW i, i = step.chosen[k].index
      PROVE  /\ Held(i)
             /\ step.chosen[k].count >= 1
             /\ Past(i) + step.chosen[k].count <= Smaller(reserved[ChosenSequence(k)], History(i))
             /\ AppendPoint(ChosenSequence(k))
             /\ \A b \in BlocksWritten(k) :
                  /\ states[b] # REGISTERED /\ refs[b] = 1
                  /\ \A l \in DOMAIN step.chosen \ {k} : b \notin Range(tables[ChosenSequence(l)])
  <2>1. PICK n : n = step.chosen[k].count
    OBVIOUS
  <2>2. PICK s : s = requests[i].sequence
    OBVIOUS
  <2>3. /\ i \in DOMAIN requests /\ Held(i) /\ s \in Slot /\ Ready(i, n) /\ Extent(i) = Past(i)
        /\ n \in Nat /\ Past(i) \in Nat /\ Space(i) \in Nat /\ History(i) \in Nat
        /\ ChosenSequence(k) = s
    BY <1>2, <2>1, <2>2, BatchAt
  <2>4. Past(i) = lengths[s] /\ Space(i) = reserved[s] /\ Extent(i) = enqueued[s]
    BY <2>2 DEF Past, Space, Extent
  <2>5. n >= 1 /\ Past(i) + n <= Smaller(reserved[s], History(i))
    BY <2>3, <2>4 DEF Ready, Smaller
  <2>6. AppendPoint(s)
    BY <2>3, <2>4, EngineParts DEF AppendPoint, IInv, PoolAgrees
  <2>7. ASSUME NEW b \in BlocksWritten(k)
        PROVE  /\ states[b] # REGISTERED /\ refs[b] = 1
               /\ \A l \in DOMAIN step.chosen \ {k} : b \notin Range(tables[ChosenSequence(l)])
    <3>1. PICK p \in RowsOf(k) : b = tables[s][EntryIndex(p)]
      BY <2>3 DEF BlocksWritten
    <3>2. p \in (lengths[s] + 1)..(lengths[s] + n)
      BY <1>2, <2>1, <2>4, <3>1 DEF RowsOf
    <3>3. lengths[s] + n <= reserved[s]
      BY <2>3, <2>4 DEF Ready
    <3>4. EntryIndex(p) \in 1..Len(tables[s]) /\ states[b] = PARTIAL /\ refs[b] = 1
      BY <2>3, <3>1, <3>2, <3>3, EngineParts, WritesPrivate
    <3>5. ASSUME NEW l \in DOMAIN step.chosen \ {k}, b \in Range(tables[ChosenSequence(l)])
          PROVE  FALSE
      <4>1. PICK j : j = step.chosen[l].index
        OBVIOUS
      <4>2. /\ j \in DOMAIN requests /\ Held(j) /\ requests[j].sequence \in Slot
            /\ ChosenSequence(l) = requests[j].sequence
        BY <3>5, <4>1, BatchAt
      <4>3. j # i
        BY <1>1, <1>2, <3>5, <4>1 DEF Batch
      <4>4. requests[j].sequence # s
        BY <2>2, <2>3, <4>2, <4>3, EngineParts DEF Owned
      <4>5. PICK q \in DOMAIN tables[requests[j].sequence] : tables[requests[j].sequence][q] = b
        BY <3>5, <4>2 DEF Range
      <4>6. q \in 1..Len(tables[requests[j].sequence])
        BY <4>2, <4>5, EngineParts, TableType DEF IInv
      <4>7. PICK r, e : r = requests[j].sequence /\ e = EntryIndex(p)
        OBVIOUS
      <4>8. /\ r \in Slot /\ q \in 1..Len(tables[r]) /\ tables[r][q] = tables[s][e]
            /\ e \in 1..Len(tables[s]) /\ states[tables[s][e]] \in {PARTIAL, COMPLETE}
            /\ TypeOK /\ Consistent
        BY <3>1, <3>4, <4>2, <4>5, <4>6, <4>7, EngineParts DEF IInv
      <4>9. r = s
        BY <2>3, <4>8, PrivatePlace
      <4> QED BY <4>4, <4>7, <4>9
    <3> QED BY <3>4, <3>5
  <2> QED BY <2>1, <2>3, <2>5, <2>6, <2>7
<1> QED BY <1>1, <1>2 DEF BatchValid

(* Between accepting its requests and delivering their tokens a step never *)
(* runs into one of its own checks.                                        *)
THEOREM StepsNeverRaise == EngineSpec => []StepNeverRaises
<1>1. EngineInv => StepNeverRaises
  BY SchedulingInside, BatchInside, PublicationInside DEF StepNeverRaises
<1> QED BY <1>1, EngineInductive, PTL
-----------------------------------------------------------------------------
(* A live request that is neither preempted nor ended: nothing its peak    *)
(* depends on changes, and it keeps the sequence it holds.                 *)
Sits(i) ==
  \/ requests'[i].state = FINISHED
  \/ /\ Live(i)
     /\ requests'[i].prompt = requests[i].prompt /\ requests'[i].maximum = requests[i].maximum
     /\ Held(i) => requests'[i].sequence = requests[i].sequence
AllSit == DOMAIN requests' = DOMAIN requests /\ \A i \in DOMAIN requests : Sits(i)

(* A request that changes in place sits if its new value says so.          *)
LEMMA OneChanges ==
  ASSUME EngineInv, NEW i \in DOMAIN requests, NEW r, requests' = [requests EXCEPT ![i] = r],
         \/ r.state = FINISHED
         \/ /\ Live(i) /\ r.prompt = requests[i].prompt /\ r.maximum = requests[i].maximum
            /\ Held(i) => r.sequence = requests[i].sequence
  PROVE  AllSit
<1>1. DOMAIN requests' = DOMAIN requests /\ requests'[i] = r
      /\ \A j \in DOMAIN requests : j # i => requests'[j] = requests[j]
  <2>1. requests \in Seq(RequestType)
    BY EngineParts
  <2> QED BY <2>1
<1>2. ASSUME NEW j \in DOMAIN requests PROVE Sits(j)
  <2>1. CASE j = i
    BY <1>1, <2>1 DEF Sits
  <2>2. CASE j # i
    BY <1>1, <2>2 DEF Sits, Live
  <2> QED BY <2>1, <2>2
<1> QED BY <1>1, <1>2 DEF AllSit

(* So does one that is closed.                                             *)
LEMMA ClosedSits ==
  ASSUME EngineInv, NEW i \in DOMAIN requests, CloseRequest(i)
  PROVE  AllSit
<1>1. requests' = [requests EXCEPT ![i] = Retired(@)]
  <2>1. requests[i].uses = 0
    BY EngineParts
  <2> QED BY <2>1 DEF CloseRequest
<1>2. PICK r : r = Retired(requests[i])
  OBVIOUS
<1>3. r.state = FINISHED
  <2>1. requests[i] \in RequestType
    BY EngineParts, RequestAt
  <2>2. r = With(requests[i], <<>>, 0, 0, FINISHED, 0, FALSE)
    BY <1>2, <2>1, WithChanges
  <2> QED BY <2>2 DEF With
<1>4. requests' = [requests EXCEPT ![i] = r]
  BY <1>1, <1>2
<1> QED BY <1>3, <1>4, OneChanges

(* Admission is of a request that holds nothing.                           *)
LEMMA AdmittedSits ==
  ASSUME EngineInv, NEW i \in DOMAIN requests, requests[i].state = WAITING, NEW s \in Slot,
         requests' = [requests EXCEPT ![i].sequence = s, ![i].state = PREFILL]
  PROVE  AllSit
<1>1. PICK q : q = requests[i]
  OBVIOUS
<1>2. q \in RequestType /\ ~Held(i) /\ Live(i)
  BY <1>1, EngineParts, RequestAt, StateAt
<1>3. PICK r : r = With(q, q.tokens, q.prompt, q.maximum, PREFILL, s, q.abort)
  OBVIOUS
<1>4. r.prompt = q.prompt /\ r.maximum = q.maximum
  BY <1>3 DEF With
<1>5. requests' = [requests EXCEPT ![i] = r]
  <2>1. s \in 0..MaxSlots
    BY GeometryAssumption
  <2>2. r = [[q EXCEPT !.sequence = s] EXCEPT !.state = PREFILL]
    BY <1>2, <1>3, <2>1, WithChanges
  <2> QED BY <1>1, <2>2
<1> QED BY <1>1, <1>2, <1>4, <1>5, OneChanges

(* A selected token ends its request or is appended to its history.        *)
LEMMA SampledSits ==
  ASSUME EngineInv, NEW token \in Sampled, SampleToken(token)
  PROVE  AllSit
<1>1. PICK k : k = step.done + 1
  OBVIOUS
<1>2. PICK i : i = step.chosen[k].index
  OBVIOUS
<1>3. /\ i \in DOMAIN requests /\ Current.index = i /\ Live(i)
      /\ requests[i].tokens \in Seq(Token) /\ requests[i] \in RequestType
  <2>1. step.phase = "sample"
    BY DEF SampleToken, Phase
  <2>2. i \in DOMAIN requests /\ Current.index = i /\ requests[i].state \in {PREFILL, DECODE}
    BY <1>1, <1>2, <2>1, SamplingAt
  <2>3. requests[i].tokens \in Seq(Token) /\ requests[i] \in RequestType
    BY <2>2, EngineParts, RequestAt
  <2> QED BY <2>2, <2>3 DEF Live
<1>4. CASE token = Stop \/ LastToken(i)
  BY <1>3, <1>4, ClosedSits DEF SampleToken
<1>5. CASE ~(token = Stop \/ LastToken(i))
  <2>1. requests' = [requests EXCEPT ![i].tokens = Append(@, token), ![i].state = DECODE]
    BY <1>3, <1>5 DEF SampleToken
  <2>2. PICK q : q = requests[i]
    OBVIOUS
  <2>3. PICK tokens : tokens = Append(q.tokens, token)
    OBVIOUS
  <2>4. tokens \in Seq(Token)
    BY <1>3, <2>2, <2>3 DEF Token
  <2>5. PICK r : r = With(q, tokens, q.prompt, q.maximum, DECODE, q.sequence, q.abort)
    OBVIOUS
  <2>6. r = [[q EXCEPT !.tokens = tokens] EXCEPT !.state = DECODE]
    BY <1>3, <2>2, <2>4, <2>5, WithChanges
  <2>7. requests' = [requests EXCEPT ![i] = r]
    BY <2>1, <2>2, <2>3, <2>6
  <2>8. r.prompt = q.prompt /\ r.maximum = q.maximum /\ r.sequence = q.sequence
    BY <2>5 DEF With
  <2> QED BY <1>3, <2>2, <2>7, <2>8, OneChanges
<1> QED BY <1>4, <1>5

(* Nobody else loses blocks, but by preemption or by ending.               *)
LEMMA MostSit ==
  ASSUME EngineInv, BeginStep \/ ExecuteFails \/ StepContinues \/ UNCHANGED allVars, ~RoomPreempt
  PROVE  AllSit
<1>1. ASSUME UNCHANGED requests PROVE AllSit
  <2>1. ASSUME NEW i \in DOMAIN requests PROVE Sits(i)
    BY <1>1, StateAt DEF Sits, Live
  <2> QED BY <1>1, <2>1 DEF AllSit
<1>2. CASE BeginStep \/ ExecuteFails \/ UNCHANGED allVars
  BY <1>1, <1>2 DEF BeginStep, ExecuteFails, OnlyStep, allVars, engineVars
<1>3. CASE BoundaryFinish \/ FailRequest
  <2>1. PICK i \in DOMAIN requests : CloseRequest(i)
    BY <1>3 DEF BoundaryFinish, FailRequest, Due, LiveSlots, Finish
  <2> QED BY <2>1, ClosedSits
<1>4. CASE BoundaryDone \/ EmptyBatch \/ BuildBatch \/ Execute \/ FailDone \/ CacheClears
  BY <1>1, <1>4 DEF BoundaryDone, EmptyBatch, BuildBatch, Execute, FailDone, CacheClears, OnlyStep,
                    engineVars
<1>5. CASE CommitChosen \/ PublishChosen \/ PublishContinues \/ Published \/ MoreToPrefill
  BY <1>1, <1>5 DEF CommitChosen, PublishChosen, PublishContinues, Published, MoreToPrefill, OnlyStep,
                    engineVars
<1>6. ASSUME NEW token \in Sampled, SampleToken(token) PROVE AllSit
  BY <1>6, SampledSits
<1>7. CASE Schedule
  <2>1. CASE DecodePick \/ DecodeDone \/ RoomOwned \/ RoomReclaim \/ RoomReserve \/ RoomLost
    BY <1>1, <2>1 DEF DecodePick, DecodeDone, RoomOwned, RoomReclaim, RoomReserve, RoomLost, OnlyStep,
                      engineVars
  <2>2. CASE PrefillPick \/ PrefillNone \/ PrefillSkip \/ AdmitBlocks \/ AdmitRefuse
    BY <1>1, <2>2 DEF PrefillPick, PrefillNone, PrefillSkip, AdmitBlocks, AdmitRefuse, OnlyStep
  <2>3. CASE AdmitBegin \/ AdmitReclaim \/ AdmitSequence
    BY <1>1, <2>3 DEF AdmitBegin, AdmitReclaim, AdmitSequence, engineVars
  <2>4. CASE AdmitPlain
    <3>1. PICK i \in NextWaiting, s \in Slot :
            requests' = [requests EXCEPT ![i].sequence = s, ![i].state = PREFILL]
      BY <2>4 DEF AdmitPlain
    <3>2. i \in DOMAIN requests /\ requests[i].state = WAITING
      BY <3>1 DEF NextWaiting, Oldest
    <3> QED BY <3>1, <3>2, AdmittedSits
  <2>5. CASE AdmitChoose
    <3>1. PICK i, s : i = step.target.index /\ s = call.sequence
      OBVIOUS
    <3>2. call.op = "reserve" /\ requests' = [requests EXCEPT ![i].sequence = s, ![i].state = PREFILL]
      BY <2>5, <3>1 DEF AdmitChoose, AdmitReserve
    <3>3. i \in DOMAIN requests /\ requests[i].state = WAITING
      BY <3>1, <3>2, AdmittingAt DEF NextWaiting, Oldest
    <3>4. s \in Slot
      <4>1. PICK r \in Slot, c \in Seq(Block), length \in 0..MaxLength : ReserveCall(r, c, length)
        BY <3>2, EngineParts, WhichCall DEF CacheInv
      <4> QED BY <3>1, <4>1 DEF ReserveCall
    <3> QED BY <3>2, <3>3, <3>4, AdmittedSits
  <2> QED BY <1>7, <2>1, <2>2, <2>3, <2>4, <2>5 DEF Schedule
<1> QED BY <1>2, <1>3, <1>4, <1>5, <1>6, <1>7 DEF StepContinues

(* Nor to what a host does.                                                *)
LEMMA HostSits ==
  ASSUME EngineInv, ClearCache \/ \E id : Abort(id)
  PROVE  AllSit
<1>1. CASE ClearCache
  <2>1. UNCHANGED requests
    BY <1>1 DEF ClearCache, engineVars
  <2>2. ASSUME NEW i \in DOMAIN requests PROVE Sits(i)
    BY <2>1, StateAt DEF Sits, Live
  <2> QED BY <2>1, <2>2 DEF AllSit
<1>2. CASE \E id : Abort(id)
  <2>1. PICK i \in DOMAIN requests : Live(i) /\ requests' = [requests EXCEPT ![i].abort = TRUE]
    BY <1>2 DEF Abort
  <2>2. PICK q : q = requests[i]
    OBVIOUS
  <2>3. PICK r : r = With(q, q.tokens, q.prompt, q.maximum, q.state, q.sequence, TRUE)
    OBVIOUS
  <2>4. q \in RequestType
    BY <2>2, EngineParts, RequestAt
  <2>5. requests' = [requests EXCEPT ![i] = r]
    BY <2>1, <2>2, <2>3, <2>4, WithChanges
  <2>6. r.prompt = q.prompt /\ r.maximum = q.maximum /\ r.sequence = q.sequence
    BY <2>3 DEF With
  <2> QED BY <2>1, <2>2, <2>5, <2>6, OneChanges
<1> QED BY <1>1, <1>2
-----------------------------------------------------------------------------
(* The whole pool could hold any live request at its peak (checked when it *)
(* is added).                                                              *)
Fitting(r) == CeilDiv(PeakKVExtent(r.prompt, r.maximum), BlockSize) <= Cardinality(Block)
Fits == \A i \in DOMAIN requests : Live(i) => Fitting(requests[i])

(* A list of blocks has no more of them than entries.                      *)
LEMMA RangeBound ==
  ASSUME NEW S, NEW seq \in Seq(S)
  PROVE  IsFiniteSet(Range(seq)) /\ Cardinality(Range(seq)) \in Nat
         /\ Cardinality(Range(seq)) <= Len(seq)
<1>1. seq \in Surjection(1..Len(seq), Range(seq)) /\ Len(seq) \in Nat
  <2>1. DOMAIN seq = 1..Len(seq) /\ seq \in [1..Len(seq) -> S] /\ Len(seq) \in Nat
    OBVIOUS
  <2>2. seq \in [1..Len(seq) -> Range(seq)]
    BY <2>1 DEF Range
  <2> QED BY <2>1, <2>2 DEF Surjection, Range
<1>2. IsFiniteSet(1..Len(seq)) /\ Cardinality(1..Len(seq)) = Len(seq)
  <2>1. PICK n \in Nat : n = Len(seq)
    BY <1>1
  <2>2. IsFiniteSet(1..n) /\ Cardinality(1..n) = IF 1 > n THEN 0 ELSE n - 1 + 1
    BY FS_Interval
  <2> QED BY <2>1, <2>2
<1>3. IsFiniteSet(Range(seq)) /\ Cardinality(Range(seq)) <= Cardinality(1..Len(seq))
  BY <1>1, <1>2, FS_Surjection
<1> QED BY <1>2, <1>3, FS_CardinalityType

(* When one sequence is all there is and nothing cached is idle, the pool  *)
(* is that sequence and the free list.                                     *)
LEMMA SoleHolder ==
  ASSUME EngineInv, step.phase = "room", IdleVictims = {}, NEW i \in DOMAIN requests, Held(i),
         \A j \in DOMAIN requests : Held(j) => j = i,
         NEW s, s = requests[i].sequence
  PROVE  Cardinality(Block) <= Len(free) + Len(tables[s])
<1>1. s \in Slot /\ call = Idle /\ IInv /\ TypeOK /\ Consistent /\ IndexExact
  BY EngineParts, Resident, RoomAt DEF CacheInv, IInv
<1>2. ASSUME NEW q \in Slot, NEW b \in Range(tables[q])
      PROVE  b \in Range(tables[s])
  <2>1. active[q]
    <3>1. CASE ~active[q]
      <4>1. Len(tables[q]) = 0 /\ tables[q] \in Seq(Block)
        BY <1>1, <3>1, IdleEmpty, TableType
      <4>2. tables[q] = <<>>
        BY <4>1
      <4> QED BY <1>2, <4>2 DEF Range
    <3> QED BY <3>1
  <2>2. ~Admitting(q)
    BY <1>1 DEF Admitting, Idle
  <2>3. PICK j \in DOMAIN requests : requests[j].sequence = q
    BY <2>1, <2>2, EngineParts DEF Owned
  <2>4. Held(j)
    BY <2>3 DEF Held
  <2> QED BY <1>2, <2>3, <2>4
<1>3. ASSUME NEW b \in Block, b \notin Range(tables[s])
      PROVE  b \in Range(free)
  <2>1. Holders(b) = {}
    BY <1>2, <1>3 DEF Holders
  <2>2. states[b] \notin {PARTIAL, COMPLETE}
    BY <1>1, <2>1, PrivateSole
  <2>3. states[b] # REGISTERED
    <3>1. SUFFICES ASSUME states[b] = REGISTERED PROVE FALSE
      OBVIOUS
    <3>2. PICK k \in DOMAIN entries : entries[k].block = b
      BY <1>1, <3>1 DEF IndexExact, Registered
    <3>3. mode.prefix
      <4>1. entries # <<>>
        BY <3>2
      <4> QED BY <4>1, EngineParts DEF Synchronous
    <3>4. refs[b] = 0
      BY <1>1, <2>1, FS_EmptySet DEF Consistent, RefsExact
    <3>5. Evictable({}) # {}
      BY <3>2, <3>4 DEF Evictable
    <3>6. IsFiniteSet(Evictable({})) /\ (Reclaimable({}) > 0 => Victims({}) # {})
          /\ Reclaimable({}) \in Nat
      BY EngineParts, VictimExists DEF CacheInv
    <3>7. Reclaimable({}) # 0
      BY <3>5, <3>6, FS_EmptySet DEF Reclaimable
    <3> QED BY <3>3, <3>6, <3>7 DEF IdleVictims
  <2>4. states[b] = RESET
    BY <1>1, <2>2, <2>3 DEF TypeOK
  <2> QED BY <1>1, <2>4 DEF Consistent, FreeOnce
<1>4. free \in Seq(Block) /\ tables[s] \in Seq(Block)
  BY <1>1, TableType DEF TypeOK
<1>5. PICK A, B : A = Range(free) /\ B = Range(tables[s])
  OBVIOUS
<1>6. /\ IsFiniteSet(A) /\ Cardinality(A) \in Nat /\ Cardinality(A) <= Len(free)
      /\ IsFiniteSet(B) /\ Cardinality(B) \in Nat /\ Cardinality(B) <= Len(tables[s])
      /\ Len(free) \in Nat /\ Len(tables[s]) \in Nat
  BY <1>4, <1>5, RangeBound
<1>7. Block \subseteq A \cup B
  BY <1>3, <1>5
<1>8. /\ IsFiniteSet(A \cup B) /\ IsFiniteSet(A \cap B)
      /\ Cardinality(A \cup B) = Cardinality(A) + Cardinality(B) - Cardinality(A \cap B)
  <2>1. A \cap B \in SUBSET A
    OBVIOUS
  <2> QED BY <1>6, <2>1, FS_Union, FS_Subset
<1>9. Cardinality(A \cap B) \in Nat /\ Cardinality(Block) \in Nat
  BY <1>8, FS_CardinalityType, GeometryAssumption
<1>10. Cardinality(Block) <= Cardinality(A \cup B)
  BY <1>7, <1>8, FS_Subset
<1> QED BY <1>6, <1>8, <1>9, <1>10

(* So preemption never reaches the oldest live request: it would be the    *)
(* only one that holds blocks, it would be the target, and the whole pool  *)
(* would not do.                                                           *)
LEMMA OldestIsSafe ==
  ASSUME EngineInv, Fits, RoomPreempt, NEW i \in Newest(Preemptible),
         \A j \in DOMAIN requests : Live(j) => requests[i].ticket <= requests[j].ticket
  PROVE  FALSE
<1>1. step.phase = "room" /\ ~mode.lifetime /\ ~step.target.lost /\ Short /\ IdleVictims = {}
  BY DEF RoomPreempt, Phase
<1>2. PICK t, n : t = step.target.index /\ n = step.target.count
  OBVIOUS
<1>3. /\ RoomTarget(t) /\ Target1(t) /\ t \in DOMAIN requests /\ Held(t) /\ step \in StepType
      /\ \A j \in ChosenSlots : j \in DOMAIN requests /\ Held(j)
  BY <1>1, <1>2, RoomAt
<1>4. /\ i \in DOMAIN requests /\ Held(i) /\ i \notin ChosenSlots
      /\ \A j \in DOMAIN requests : Held(j) /\ j # i => requests[j].ticket < requests[i].ticket
  BY <1>1, PreemptedIsNewest
<1>5. ASSUME NEW j \in DOMAIN requests, Held(j)
      PROVE  j = i
  <2>1. Live(j) /\ requests[i].ticket \in Nat /\ requests[j].ticket \in Nat
    BY <1>4, <1>5, EngineParts, RequestAt, StateAt
  <2>2. requests[i].ticket <= requests[j].ticket
    BY <1>5, <2>1
  <2> QED BY <1>4, <1>5, <2>1, <2>2
<1>6. t = i
  BY <1>3, <1>5
<1>7. PICK s : s = requests[i].sequence
  OBVIOUS
<1>8. Cardinality(Block) <= Len(free) + Len(tables[s])
  BY <1>1, <1>4, <1>5, <1>7, SoleHolder
<1>9. /\ Past(i) + n <= History(i) /\ step.target.needed = Needed(i, Past(i) + n)
      /\ requests[i].state \in {PREFILL, DECODE}
  BY <1>1, <1>2, <1>3, <1>6 DEF RoomTarget
<1>10. Live(i) /\ requests[i].maximum > 0
  <2>1. Live(i) /\ requests[i].state # DRAINING
    BY <1>4, StateAt
  <2> QED BY <1>1, <1>4, <2>1, ChoosingAt DEF Choosing
<1>11. PICK peak : peak = PeakKVExtent(requests[i].prompt, requests[i].maximum)
  OBVIOUS
<1>12. peak \in Nat /\ History(i) \in Nat /\ History(i) <= peak
  BY <1>4, <1>10, <1>11, PeakCovers
<1>13. PICK m \in Nat : m = Past(i) + n
  <2>1. Past(i) \in Nat /\ n \in Nat
    BY <1>2, <1>3, <1>4, EngineParts, Resident, StepAt
  <2> QED BY <2>1
<1>14. CeilDiv(m, BlockSize) <= CeilDiv(peak, BlockSize)
       /\ CeilDiv(m, BlockSize) \in Nat /\ CeilDiv(peak, BlockSize) \in Nat
  <2>1. m <= peak
    BY <1>9, <1>12, <1>13
  <2> QED BY <1>12, <1>13, <2>1, DivMonotone, CeilType, GeometryAssumption
<1>15. CeilDiv(peak, BlockSize) <= Cardinality(Block)
  BY <1>4, <1>10, <1>11 DEF Fits, Fitting
<1>16. /\ step.target.needed = CeilDiv(m, BlockSize) - Len(tables[s])
  BY <1>7, <1>9, <1>13 DEF Needed
<1>17. Cardinality(Block) \in Nat /\ Len(free) \in Nat /\ Len(tables[s]) \in Nat
  <2>1. s \in Slot /\ TypeOK
    BY <1>4, <1>7, EngineParts, Resident DEF IInv
  <2>2. Len(tables[s]) \in Nat
    BY <2>1, TableType
  <2> QED BY <2>1, <2>2, FS_CardinalityType, GeometryAssumption DEF TypeOK
<1>18. step.target.needed > Len(free)
  BY <1>1 DEF Short
<1> QED BY <1>8, <1>14, <1>15, <1>16, <1>17, <1>18

(* Preemption of any other leaves it alone, and everybody's peak.          *)
LEMMA OthersSit ==
  ASSUME EngineInv, RoomPreempt
  PROVE  \E i \in Newest(Preemptible) :
           /\ i \in DOMAIN requests /\ DOMAIN requests' = DOMAIN requests
           /\ \A j \in DOMAIN requests : j # i => Sits(j)
           /\ Live(i) /\ requests'[i].prompt = requests[i].prompt
           /\ requests'[i].maximum = requests[i].maximum
<1>1. PICK i \in Newest(Preemptible) :
        requests' = [requests EXCEPT ![i].sequence = 0, ![i].state = WAITING]
  BY DEF RoomPreempt
<1>2. step.phase = "room" /\ ~step.target.lost
  BY DEF RoomPreempt, Phase
<1>3. i \in DOMAIN requests /\ Held(i)
  BY <1>2, PreemptedIsNewest
<1>4. PICK q : q = requests[i]
  OBVIOUS
<1>5. q \in RequestType /\ Live(i)
  BY <1>3, <1>4, EngineParts, RequestAt, StateAt
<1>6. PICK r : r = With(q, q.tokens, q.prompt, q.maximum, WAITING, 0, q.abort)
  OBVIOUS
<1>7. requests' = [requests EXCEPT ![i] = r]
  <2>1. 0 \in 0..MaxSlots
    BY GeometryAssumption
  <2>2. r = [[q EXCEPT !.sequence = 0] EXCEPT !.state = WAITING]
    BY <1>5, <1>6, <2>1, WithChanges
  <2> QED BY <1>1, <1>4, <2>2
<1>8. r.prompt = q.prompt /\ r.maximum = q.maximum
  BY <1>6 DEF With
<1>9. DOMAIN requests' = DOMAIN requests /\ requests'[i] = r
      /\ \A j \in DOMAIN requests : j # i => requests'[j] = requests[j]
  <2>1. requests \in Seq(RequestType)
    BY EngineParts
  <2> QED BY <1>3, <1>7, <2>1
<1>10. \A j \in DOMAIN requests : j # i => Sits(j)
  BY <1>9 DEF Sits, Live
<1> QED BY <1>1, <1>3, <1>4, <1>5, <1>8, <1>9, <1>10

(* A step over the slots, as the action property has it.                   *)
OldestStays ==
  \A i \in DOMAIN requests :
    Held(i) /\ (\A j \in DOMAIN requests : Live(j) => requests[i].ticket <= requests[j].ticket)
      => requests'[i].sequence = requests[i].sequence \/ requests'[i].state = FINISHED

(* Where everybody sits, both are kept.                                    *)
LEMMA SittingKeeps ==
  ASSUME Fits, AllSit
  PROVE  Fits' /\ OldestStays
<1>1. ASSUME NEW i \in DOMAIN requests', Live(i)'
      PROVE  Fitting(requests[i])'
  <2>1. i \in DOMAIN requests /\ Sits(i) /\ requests'[i].state # FINISHED
    BY <1>1 DEF AllSit, Live
  <2>2. /\ Live(i) /\ requests'[i].prompt = requests[i].prompt
        /\ requests'[i].maximum = requests[i].maximum
    BY <2>1 DEF Sits
  <2> QED BY <2>1, <2>2 DEF Fits, Fitting
<1>2. OldestStays
  BY DEF AllSit, Sits, OldestStays
<1> QED BY <1>1, <1>2 DEF Fits

(* A new request fits, and the others are where they were.                 *)
LEMMA AddKeeps ==
  ASSUME EngineInv, Fits, NEW id \in Ids, NEW prompt \in Prompts, NEW maximum \in Outputs,
         NEW salt \in Salts, Add(id, prompt, maximum, salt)
  PROVE  Fits' /\ OldestStays
<1>1. PICK r : r = [id |-> id, ticket |-> nextTicket, tokens |-> prompt, prompt |-> Len(prompt),
                    maximum |-> maximum, salt |-> salt, state |-> WAITING, sequence |-> 0,
                    abort |-> FALSE, uses |-> 0, samples |-> 0]
  OBVIOUS
<1>2. r \in RequestType /\ r.prompt = Len(prompt) /\ r.maximum = maximum
  <2>1. prompt \in Seq(Token) /\ maximum \in Nat /\ nextTicket \in Nat /\ 0 \in 0..MaxSlots
    BY EngineParts, PromptIsTokens, HostAssumption, GeometryAssumption DEF Tickets
  <2>2. Len(prompt) \in Nat
    BY <2>1
  <2> QED BY <1>1, <2>1, <2>2 DEF RequestType, Tenant
<1>3. PlaceRequest(r) /\ CeilDiv(PeakKVExtent(Len(prompt), maximum), BlockSize) <= Cardinality(Block)
  BY <1>1 DEF Add
<1>4. PICK i : Placed(i, r)
  BY <1>2, <1>3, EngineParts, RequestPlaced
<1>5. ASSUME NEW j \in DOMAIN requests', Live(j)'
      PROVE  Fitting(requests[j])'
  <2>1. CASE j = i
    <3>1. requests'[j] = r
      BY <1>4, <2>1 DEF Placed
    <3> QED BY <1>2, <1>3, <3>1 DEF Fitting
  <2>2. CASE j # i
    <3>1. j \in DOMAIN requests /\ requests'[j] = requests[j]
      BY <1>4, <1>5, <2>2 DEF Placed
    <3> QED BY <1>5, <3>1 DEF Fits, Fitting, Live
  <2> QED BY <2>1, <2>2
<1>6. ASSUME NEW j \in DOMAIN requests, Held(j)
      PROVE  requests'[j].sequence = requests[j].sequence
  <2>1. Live(j)
    BY <1>6, StateAt
  <2> QED BY <1>4, <2>1 DEF Placed
<1>7. OldestStays
  BY <1>6 DEF OldestStays
<1> QED BY <1>5, <1>7 DEF Fits

(* Every step.                                                             *)
LEMMA OldestStep ==
  ASSUME EngineInv, Fits, [EngineNext]_allVars
  PROVE  Fits' /\ OldestStays
<1>1. ASSUME NEW id \in Ids, NEW prompt \in Prompts, NEW maximum \in Outputs, NEW salt \in Salts,
             Add(id, prompt, maximum, salt)
      PROVE  Fits' /\ OldestStays
  BY <1>1, AddKeeps
<1>2. CASE ClearCache \/ \E id : Abort(id)
  BY <1>2, HostSits, SittingKeeps
<1>3. CASE (BeginStep \/ ExecuteFails \/ StepContinues \/ UNCHANGED allVars) /\ ~RoomPreempt
  BY <1>3, MostSit, SittingKeeps
<1>4. CASE RoomPreempt
  <2>1. PICK i \in Newest(Preemptible) :
           /\ i \in DOMAIN requests /\ DOMAIN requests' = DOMAIN requests
           /\ \A j \in DOMAIN requests : j # i => Sits(j)
           /\ Live(i) /\ requests'[i].prompt = requests[i].prompt
           /\ requests'[i].maximum = requests[i].maximum
    BY <1>4, OthersSit
  <2>2. ASSUME NEW j \in DOMAIN requests', Live(j)'
        PROVE  Fitting(requests[j])'
    <3>1. /\ j \in DOMAIN requests /\ Live(j) /\ requests'[j].prompt = requests[j].prompt
          /\ requests'[j].maximum = requests[j].maximum
      BY <2>1, <2>2 DEF Sits, Live
    <3> QED BY <3>1 DEF Fits, Fitting
  <2>3. ASSUME NEW j \in DOMAIN requests, Held(j),
               \A l \in DOMAIN requests : Live(l) => requests[j].ticket <= requests[l].ticket
        PROVE  requests'[j].sequence = requests[j].sequence \/ requests'[j].state = FINISHED
    <3>1. j # i
      BY <1>4, <2>1, <2>3, OldestIsSafe
    <3> QED BY <2>1, <2>3, <3>1 DEF Sits
  <2>4. OldestStays
    BY <2>3 DEF OldestStays
  <2> QED BY <2>2, <2>4 DEF Fits
<1> QED BY <1>1, <1>2, <1>3, <1>4 DEF EngineNext, Host

(* Preemption preserves progress of the oldest request: once resident it   *)
(* gives its blocks up only by finishing.                                  *)
THEOREM OldestIsNeverPreempted == EngineSpec => OldestKeepsBlocks
<1>1. EngineInit => Fits
  BY DEF EngineInit, Fits
<1>2. EngineInv /\ Fits /\ [EngineNext]_allVars => Fits' /\ [OldestStays]_allVars
  BY OldestStep
<1>3. OldestKeepsBlocks <=> [][OldestStays]_allVars
  BY DEF OldestKeepsBlocks, OldestStays
<1> QED BY <1>1, <1>2, <1>3, EngineInductive, PTL DEF EngineSpec
-----------------------------------------------------------------------------
(* A failed engine is left without live requests.                          *)
LeftEmpty == failed /\ Phase("idle") => LiveSlots = {}

(* Only a runner's failure makes it invalid.                               *)
LEMMA FailureIsRunners ==
  ASSUME [EngineNext]_allVars, ~ExecuteFails
  PROVE  failed' = failed
<1>1. CASE Host
  BY <1>1 DEF Host, Add, Abort, ClearCache, engineVars
<1>2. CASE BeginStep \/ UNCHANGED allVars
  BY <1>2 DEF BeginStep, OnlyStep, allVars, engineVars
<1>3. CASE BoundaryFinish \/ FailRequest \/ BoundaryDone \/ EmptyBatch \/ BuildBatch \/ Execute
  BY <1>3 DEF BoundaryFinish, FailRequest, BoundaryDone, EmptyBatch, BuildBatch, Execute, OnlyStep
<1>4. CASE FailDone \/ CacheClears \/ CommitChosen \/ PublishChosen \/ PublishContinues \/ Published
  BY <1>4 DEF FailDone, CacheClears, CommitChosen, PublishChosen, PublishContinues, Published, engineVars
<1>5. CASE MoreToPrefill \/ \E token \in Sampled : SampleToken(token)
  BY <1>5 DEF MoreToPrefill, SampleToken, OnlyStep
<1>6. CASE Schedule
  <2>1. CASE DecodePick \/ DecodeDone \/ RoomOwned \/ RoomReclaim \/ RoomPreempt \/ RoomReserve \/ RoomLost
    BY <2>1 DEF DecodePick, DecodeDone, RoomOwned, RoomReclaim, RoomPreempt, RoomReserve, RoomLost,
                OnlyStep, engineVars
  <2>2. CASE PrefillPick \/ PrefillNone \/ PrefillSkip \/ AdmitBlocks \/ AdmitRefuse \/ AdmitPlain
    BY <2>2 DEF PrefillPick, PrefillNone, PrefillSkip, AdmitBlocks, AdmitRefuse, AdmitPlain, OnlyStep
  <2>3. CASE AdmitBegin \/ AdmitReclaim \/ AdmitSequence \/ AdmitChoose
    BY <2>3 DEF AdmitBegin, AdmitReclaim, AdmitSequence, AdmitChoose, engineVars
  <2> QED BY <1>6, <2>1, <2>2, <2>3 DEF Schedule
<1> QED BY <1>1, <1>2, <1>3, <1>4, <1>5, <1>6 DEF EngineNext, StepContinues

(* After it the engine's call ends its requests, and no other begins.      *)
LEMMA AfterFailure ==
  ASSUME EngineInv, failed, [EngineNext]_allVars
  PROVE  \/ UNCHANGED <<requests, step>>
         \/ FailRequest \/ FailDone \/ \E id : Abort(id)
<1>1. step.phase \in {"idle", "failing"}
  BY EngineParts DEF Synchronous
<1>2. call.op \notin {"admit", "reserve", "publish"}
  BY <1>1, EngineParts DEF Calling, Phase
<1>3. CASE Host
  BY <1>3 DEF Host, Add, ClearCache, engineVars
<1>4. CASE BeginStep \/ ExecuteFails \/ UNCHANGED allVars
  BY <1>1, <1>4 DEF BeginStep, ExecuteFails, Executing, Phase, allVars, engineVars
<1>5. CASE BoundaryFinish \/ BoundaryDone \/ EmptyBatch \/ BuildBatch \/ Execute
  BY <1>1, <1>5 DEF BoundaryFinish, BoundaryDone, EmptyBatch, BuildBatch, Execute, Phase
<1>6. CASE CommitChosen \/ PublishChosen \/ PublishContinues \/ Published \/ MoreToPrefill
  BY <1>1, <1>6 DEF CommitChosen, PublishChosen, PublishContinues, Published, MoreToPrefill, Phase
<1>7. CASE \E token \in Sampled : SampleToken(token)
  BY <1>1, <1>7 DEF SampleToken, Phase
<1>8. CASE CacheClears
  BY <1>8 DEF CacheClears, engineVars
<1>9. CASE Schedule
  <2>1. CASE DecodePick \/ DecodeDone \/ RoomOwned \/ RoomReclaim \/ RoomPreempt \/ RoomReserve \/ RoomLost
    BY <1>1, <2>1 DEF DecodePick, DecodeDone, RoomOwned, RoomReclaim, RoomPreempt, RoomReserve,
                      RoomLost, Phase
  <2>2. CASE PrefillPick \/ PrefillNone \/ PrefillSkip \/ AdmitBlocks \/ AdmitRefuse \/ AdmitPlain
    BY <1>1, <2>2 DEF PrefillPick, PrefillNone, PrefillSkip, AdmitBlocks, AdmitRefuse, AdmitPlain, Phase
  <2>3. CASE AdmitBegin \/ AdmitReclaim \/ AdmitSequence \/ AdmitChoose
    BY <1>1, <1>2, <2>3 DEF AdmitBegin, AdmitReclaim, AdmitSequence, AdmitAttach, AdmitChoose,
                            AdmitReserve, Phase
  <2> QED BY <1>9, <2>1, <2>2, <2>3 DEF Schedule
<1> QED BY <1>3, <1>4, <1>5, <1>6, <1>7, <1>8, <1>9 DEF EngineNext, StepContinues

(* So the invariant is kept.                                               *)
LEMMA LeftEmptyStep ==
  ASSUME EngineInv, LeftEmpty, [EngineNext]_allVars
  PROVE  LeftEmpty'
<1> SUFFICES ASSUME failed', step'.phase = "idle" PROVE (LiveSlots = {})'
  BY DEF LeftEmpty, Phase
<1>1. failed
  <2>1. ASSUME ExecuteFails PROVE FALSE
    <3>1. step' = [step EXCEPT !.phase = "failing"] /\ step \in StepType
      BY <2>1, EngineParts DEF ExecuteFails, Goto
    <3>2. step'.phase = "failing"
      BY <3>1 DEF StepType
    <3> QED BY <3>2
  <2> QED BY <2>1, FailureIsRunners
<1>2. CASE UNCHANGED <<requests, step>>
  BY <1>1, <1>2 DEF LeftEmpty, Phase, LiveSlots, Live
<1>3. CASE FailRequest
  BY <1>3 DEF FailRequest, Phase
<1>4. CASE FailDone
  BY <1>4 DEF FailDone, LiveSlots, Live
<1>5. CASE \E id : Abort(id)
  <2>1. step.phase = "idle" /\ LiveSlots # {}
    BY <1>5 DEF Abort, Idling, Phase, LiveSlots
  <2> QED BY <1>1, <2>1 DEF LeftEmpty, Phase
<1> QED BY <1>1, <1>2, <1>3, <1>4, <1>5, AfterFailure

(* Between two calls every live sequence has exactly one request, and the  *)
(* requests stand as the engine's check() has them.                        *)
LEMMA ConsistentBetween ==
  ASSUME EngineInv, LeftEmpty
  PROVE  RequestsConsistent
<1> SUFFICES ASSUME Idling PROVE RequestsConsistent
  BY DEF RequestsConsistent
<1>1. step.phase = "idle" /\ call = Idle
  BY DEF Idling, Phase
<1>2. ASSUME NEW s \in Slot
      PROVE  Cardinality({i \in DOMAIN requests : requests[i].sequence = s}) =
               IF active[s] THEN 1 ELSE 0
  <2> DEFINE X == {i \in DOMAIN requests : requests[i].sequence = s}
  <2>1. \A i \in X : active[s] /\ i \in DOMAIN requests /\ Held(i)
    <3>1. s # 0
      OBVIOUS
    <3> QED BY <3>1, EngineParts DEF Owned, Held
  <2>2. CASE active[s]
    <3>1. ~Admitting(s)
      BY <1>1 DEF Admitting, Idle
    <3>2. PICK i \in DOMAIN requests : requests[i].sequence = s
      BY <1>2, <2>2, <3>1, EngineParts DEF Owned
    <3>3. X = {i}
      BY <2>1, <3>2, EngineParts DEF Owned
    <3>4. Cardinality({i}) = 1
      BY FS_Singleton
    <3> QED BY <2>2, <3>3, <3>4
  <2>3. CASE ~active[s]
    <3>1. X = {}
      BY <2>1, <2>3
    <3> QED BY <2>3, <3>1, FS_EmptySet
  <2> QED BY <2>2, <2>3
<1>3. ASSUME NEW i \in DOMAIN requests
      PROVE  /\ Held(i) <=> requests[i].state \in {PREFILL, DECODE, DRAINING}
             /\ Live(i) => /\ Generated(i) + requests[i].samples <= requests[i].maximum
                           /\ requests[i].samples <= requests[i].uses
  BY EngineParts DEF Owned, Shape
<1>4. ASSUME NEW i \in DOMAIN requests, Held(i)
      PROVE  /\ Past(i) <= History(i)
             /\ requests[i].state = DECODE => Past(i) = History(i) - 1
             /\ mode.lifetime => reserved[requests[i].sequence] =
                  PeakKVExtent(requests[i].prompt, requests[i].maximum)
  <2>1. ~failed
    <3>1. Live(i)
      BY <1>4, StateAt
    <3> QED BY <1>1, <1>4, <3>1 DEF LeftEmpty, Phase, LiveSlots
  <2>2. Standing /\ Lifetime /\ step.phase \notin Running
    BY <1>1, <2>1, EngineParts DEF Stepwise, Running, Posting
  <2>3. Stands(i) /\ Steady(i)
    <3>1. requests[i].state # DRAINING
      BY <1>4, EngineParts DEF Synchronous
    <3> QED BY <1>4, <2>2, <3>1, AllSteady DEF Stands
  <2>4. Past(i) <= History(i)
    <3>1. Past(i) \in Nat /\ History(i) \in Nat
      BY <1>4, EngineParts, Resident, RequestAt
    <3> QED BY <2>3, <3>1 DEF Steady
  <2>5. mode.lifetime => Space(i) = PeakKVExtent(requests[i].prompt, requests[i].maximum)
    BY <1>1, <2>2, <2>3 DEF Lifetime, Phase
  <2> QED BY <2>3, <2>4, <2>5 DEF Steady, Space
<1> QED BY <1>2, <1>3, <1>4 DEF RequestsConsistent

(* The engine's own audit of its requests never fails.                     *)
THEOREM RequestsStayConsistent == EngineSpec => []RequestsConsistent
<1>1. EngineInit => LeftEmpty
  BY DEF EngineInit, LeftEmpty
<1>2. EngineInv /\ LeftEmpty /\ [EngineNext]_allVars => LeftEmpty'
  BY LeftEmptyStep
<1>3. EngineInv /\ LeftEmpty => RequestsConsistent
  BY ConsistentBetween
<1> QED BY <1>1, <1>2, <1>3, EngineInductive, PTL DEF EngineSpec
=============================================================================
