------------------------ MODULE EngineAsync_proofs -------------------------
(***************************************************************************)
(* Asynchronous stepping, for every configuration, pool, request limit and *)
(* host, on an engine that may have stepped synchronously before: nothing  *)
(* the device may use is taken from the request that uses it               *)
(* (InFlightHeld), and a failure leaks nothing (FailureReleases).          *)
(*                                                                         *)
(* While no failure was met, a request has exactly the uses and samples of *)
(* the places in the queue that still count for it (Accounted), the blocks *)
(* a queued step may use are held by the requests it selected (Flying),    *)
(* and who is selected or aimed at holds blocks (Batched, Aim). A request  *)
(* with a use is not released, preempted or truncated, so the device's     *)
(* blocks stay held. A step that retires, or a batch that is enqueued, is  *)
(* counted place by place: Counted says which places of the queue do. A    *)
(* failure forgets the queue, and what is left then (Grounded) is that     *)
(* somebody holds each block the device may use, until the drain; once     *)
(* nothing is out, everything has been released (Emptied).                 *)
(* AsyncInv joins this with the invariant of the synchronous engine, which *)
(* is what the first asynchronous step starts from.                        *)
(***************************************************************************)
EXTENDS EngineAsync, EngineSync_proofs

USE DEF Slot, State, RESET, PARTIAL, COMPLETE, REGISTERED, WAITING, PREFILL, DECODE, FINISHED, DRAINING
-----------------------------------------------------------------------------
(* Asynchronous stepping refuses prefix caching: nothing is cached, and    *)
(* the index is called by the host alone.                                  *)
Uncached ==
  /\ ~mode.prefix /\ entries = <<>> /\ call.op \in {"none", "clear"}
  /\ call.op = "clear" => Phase("idle")

(* Where a call stands; what is selected are requests that hold blocks,    *)
(* each once, and only decodes until a prefill was considered.             *)
AsyncStepType ==
  [phase : Still \cup Choosing \cup {"execute", "commit"}, chosen : Seq([index : Nat, count : Int]),
   considered : SUBSET Nat, done : Nat,
   target : [index : Nat, count : Int, needed : Int, from : {"none", "decode", "prefill"}, lost : BOOLEAN]]

Runs(i) == i \in DOMAIN requests /\ requests[i].state \in {PREFILL, DECODE}

Batched ==
  /\ \A k \in DOMAIN step.chosen : Runs(step.chosen[k].index)
  /\ \A k, l \in DOMAIN step.chosen : step.chosen[k].index = step.chosen[l].index => k = l
  /\ step.phase \in Still => step.chosen = <<>>
  /\ step.phase \in Choosing \ {"build"} => \A k \in DOMAIN step.chosen :
       requests[step.chosen[k].index].state = DECODE /\ step.chosen[k].index \in step.considered
  /\ step.phase \in (Still \ {"retire"}) \cup Choosing => step.done = 0
  /\ step.phase \in {"execute", "commit"} => step.done < Len(step.chosen)

(* What room is made for, or blocks are reserved for.                      *)
Aim ==
  LET i == step.target.index
  IN  /\ Phase("room") =>
           /\ i \in DOMAIN requests /\ i \notin ChosenSlots /\ step.target.from # "none"
           /\ step.target.from = "decode" => i \in step.considered
           /\ IF step.target.lost THEN ~mode.lifetime
              ELSE requests[i].state = (IF step.target.from = "decode" THEN DECODE ELSE PREFILL)
      /\ Phase("reserve") => i \in DOMAIN requests /\ i \notin ChosenSlots /\ requests[i].state = PREFILL

(* How much is outstanding where a call stands.                            *)
Waits ==
  /\ step.phase \in {"idle", "boundary", "execute", "lost"} \cup Choosing => Len(queue) <= 1
  /\ Phase("pressure") => Len(queue) = 1
  /\ step.phase \in {"commit", "retire"} => queue # <<>>
  /\ Phase("retire") => step.done < Len(queue[1].selected)
  /\ Phase("failing") => queue = <<>> /\ inflight = <<>>
  /\ failed => step.phase \in {"idle", "boundary", "retire", "lost", "failing"} /\ step.done = 0
  /\ ~failed => step.phase \notin {"lost", "failing"}
  /\ failed /\ step.phase \in {"boundary", "retire"} => queue # <<>> /\ draining
  /\ Phase("boundary") /\ draining => queue # <<>>
  /\ draining => step.phase \in {"boundary", "retire", "lost", "failing"}
-----------------------------------------------------------------------------
(* What was submitted.                                                     *)
Ticketed ==
  [selected : Seq(Nat), tickets : Seq(Nat), results : Seq({<<>>} \cup {<<token>> : token \in Sampled})]

Queued(e) ==
  /\ e.selected # <<>> /\ Len(e.tickets) = Len(e.selected) /\ Len(e.results) = Len(e.selected)
  /\ \A k, l \in DOMAIN e.selected : e.selected[k] = e.selected[l] => k = l

(* The places of a queued step that count as uses: all of them, but for    *)
(* those of the oldest already retired and those of the newest not yet     *)
(* committed.                                                              *)
Counted(p) ==
  {k \in DOMAIN queue[p].selected :
     /\ Phase("retire") /\ p = 1 => k > step.done
     /\ Phase("commit") /\ p = Len(queue) => k <= step.done}

Uses(p, i)    == \E k \in Counted(p) : queue[p].selected[k] = i
Selects(p, i) == \E k \in Counted(p) : queue[p].selected[k] = i /\ queue[p].results[k] # <<>>

One(b)       == IF b THEN 1 ELSE 0
UsesOf(i)    == One(1 \in DOMAIN queue /\ Uses(1, i)) + One(2 \in DOMAIN queue /\ Uses(2, i))
SamplesOf(i) == One(1 \in DOMAIN queue /\ Selects(1, i)) + One(2 \in DOMAIN queue /\ Selects(2, i))

(* A use keeps its request, under its ticket and with its blocks.          *)
Accounted ==
  /\ \A i \in DOMAIN requests :
       /\ requests[i].uses = UsesOf(i) /\ requests[i].samples = SamplesOf(i)
       /\ requests[i].uses > 0 => Held(i)
       /\ requests[i].state = DRAINING => requests[i].uses > 0
  /\ \A p \in DOMAIN queue : \A k \in Counted(p) :
       /\ queue[p].selected[k] \in DOMAIN requests
       /\ requests[queue[p].selected[k]].ticket = queue[p].tickets[k]

(* While the newest step's sequences are committed, its selection is the   *)
(* engine's.                                                               *)
Submitted ==
  Phase("commit") =>
    LET e == queue[Len(queue)]
    IN  /\ Len(e.selected) = Len(step.chosen)
        /\ \A k \in DOMAIN step.chosen :
             e.selected[k] = step.chosen[k].index /\ e.tickets[k] = requests[e.selected[k]].ticket

(* What may still use blocks, and the request at slot i that holds them.   *)
Holds(i, use) ==
  requests[i].ticket = use[1] /\ Held(i) /\ use[2] \in Range(tables[requests[i].sequence])

Collected == IF Phase("retire") /\ step.done > 0 THEN 1 ELSE 0

Flying ==
  /\ Len(inflight) = Len(queue) - Collected
  /\ \A p \in DOMAIN inflight : \A use \in inflight[p] :
       \E k \in DOMAIN queue[p + Collected].selected :
         /\ queue[p + Collected].selected[k] \in DOMAIN requests
         /\ Holds(queue[p + Collected].selected[k], use)

(* After a failure nothing may be forgotten either.                        *)
Firm(i)  == i \in DOMAIN requests /\ Held(i) /\ (queue # <<>> => requests[i].uses > 0)
Grounded ==
  /\ \A i \in DOMAIN requests : requests[i].uses > 0 => Held(i)
  /\ \A p \in DOMAIN inflight : \A use \in inflight[p] : \E i \in DOMAIN requests : Firm(i) /\ Holds(i, use)
  /\ inflight # <<>> => \E i \in DOMAIN requests : Firm(i)

Outstanding ==
  /\ queue \in Seq(Ticketed) /\ Len(queue) <= 2
  /\ \A p \in DOMAIN queue : Queued(queue[p])
  /\ inflight \in Seq(SUBSET (Nat \X Block))
  /\ ~failed => Accounted /\ Submitted /\ Flying
  /\ failed => Grounded

AsyncRunning == Roster /\ Uncached /\ step \in AsyncStepType /\ Batched /\ Aim /\ Waits /\ Outstanding

(* A failed engine whose call is over has no cache, as it has no requests. *)
Cleared == failed /\ Idling => entries = <<>>

AsyncInv ==
  /\ enabled \in BOOLEAN /\ draining \in BOOLEAN
  /\ ~enabled => EngineInv /\ LeftEmpty /\ Cleared /\ ~draining /\ queue = <<>> /\ inflight = <<>>
  /\ enabled => AsyncRunning
-----------------------------------------------------------------------------
(* The invariant while stepping asynchronously, in parts.                  *)
LEMMA AsyncParts ==
  ASSUME AsyncRunning
  PROVE  /\ Roster /\ CacheInv(Tenant, Token) /\ IInv
         /\ requests \in Seq(RequestType) /\ DOMAIN requests = 1..Len(requests) /\ Len(requests) \in Nat
         /\ Tickets /\ Owned /\ mode \in Modes /\ failed \in BOOLEAN
         /\ mode.mixed \in BOOLEAN /\ mode.lifetime \in BOOLEAN
         /\ Uncached /\ step \in AsyncStepType /\ Batched /\ Aim /\ Waits /\ Outstanding
<1>1. Roster /\ Uncached /\ step \in AsyncStepType /\ Batched /\ Aim /\ Waits /\ Outstanding
  BY DEF AsyncRunning
<1>2. /\ CacheInv(Tenant, Token) /\ requests \in Seq(RequestType) /\ Tickets /\ Owned
      /\ mode \in Modes /\ failed \in BOOLEAN
  BY <1>1 DEF Roster
<1>3. IInv
  BY <1>2 DEF CacheInv
<1>4. mode.mixed \in BOOLEAN /\ mode.lifetime \in BOOLEAN
  BY <1>2, EngineAssumption
<1> QED BY <1>1, <1>2, <1>3, <1>4

(* The step in progress, as a record.                                      *)
LEMMA AsyncStepAt ==
  ASSUME step \in AsyncStepType
  PROVE  /\ step.phase \in Still \cup Choosing \cup {"execute", "commit"}
         /\ step.chosen \in Seq([index : Nat, count : Int]) /\ step.considered \in SUBSET Nat
         /\ step.done \in Nat /\ Len(step.chosen) \in Nat /\ DOMAIN step.chosen = 1..Len(step.chosen)
         /\ step.target.index \in Nat /\ step.target.count \in Int /\ step.target.lost \in BOOLEAN
         /\ step.target.from \in {"none", "decode", "prefill"}
<1>1. /\ step.phase \in Still \cup Choosing \cup {"execute", "commit"}
      /\ step.chosen \in Seq([index : Nat, count : Int]) /\ step.considered \in SUBSET Nat
      /\ step.done \in Nat
      /\ step.target \in [index : Nat, count : Int, needed : Int, from : {"none", "decode", "prefill"},
                          lost : BOOLEAN]
  BY DEF AsyncStepType
<1>2. Len(step.chosen) \in Nat /\ DOMAIN step.chosen = 1..Len(step.chosen)
  BY <1>1
<1>3. /\ step.target.index \in Nat /\ step.target.count \in Int /\ step.target.lost \in BOOLEAN
      /\ step.target.from \in {"none", "decode", "prefill"}
  BY <1>1
<1> QED BY <1>1, <1>2, <1>3

(* The queue, as at most two steps.                                        *)
LEMMA QueueAt ==
  ASSUME Outstanding
  PROVE  /\ queue \in Seq(Ticketed) /\ Len(queue) \in {0, 1, 2} /\ DOMAIN queue = 1..Len(queue)
         /\ inflight \in Seq(SUBSET (Nat \X Block))
         /\ Len(inflight) \in Nat /\ DOMAIN inflight = 1..Len(inflight)
         /\ (queue = <<>> <=> Len(queue) = 0) /\ (inflight = <<>> <=> Len(inflight) = 0)
         /\ \A p \in DOMAIN queue : queue[p] \in Ticketed /\ Queued(queue[p])
<1>1. queue \in Seq(Ticketed) /\ inflight \in Seq(SUBSET (Nat \X Block)) /\ Len(queue) <= 2
  BY DEF Outstanding
<1>2. /\ Len(queue) \in Nat /\ DOMAIN queue = 1..Len(queue)
      /\ Len(inflight) \in Nat /\ DOMAIN inflight = 1..Len(inflight)
  BY <1>1
<1>3. (queue = <<>> <=> Len(queue) = 0) /\ (inflight = <<>> <=> Len(inflight) = 0)
  BY <1>1, EmptySeq
<1>4. \A p \in DOMAIN queue : queue[p] \in Ticketed
  BY <1>1
<1> QED BY <1>1, <1>2, <1>3, <1>4 DEF Outstanding

(* The places of one submitted step.                                       *)
LEMMA PlacesAt ==
  ASSUME NEW e \in Ticketed, Queued(e)
  PROVE  /\ Len(e.selected) \in Nat \ {0} /\ DOMAIN e.selected = 1..Len(e.selected)
         /\ DOMAIN e.results = 1..Len(e.selected) /\ DOMAIN e.tickets = 1..Len(e.selected)
         /\ \A k \in DOMAIN e.selected :
              e.selected[k] \in Nat /\ e.tickets[k] \in Nat
              /\ (e.results[k] = <<>> \/ \E token \in Sampled : e.results[k] = <<token>>)
<1>1. /\ e.selected \in Seq(Nat) /\ e.tickets \in Seq(Nat)
      /\ e.results \in Seq({<<>>} \cup {<<token>> : token \in Sampled})
  BY DEF Ticketed
<1>2. Len(e.selected) \in Nat /\ Len(e.selected) # 0
  BY <1>1, EmptySeq DEF Queued
<1>3. /\ DOMAIN e.selected = 1..Len(e.selected) /\ DOMAIN e.results = 1..Len(e.selected)
      /\ DOMAIN e.tickets = 1..Len(e.selected)
  BY <1>1 DEF Queued
<1>4. \A k \in DOMAIN e.selected :
        e.selected[k] \in Nat /\ e.tickets[k] \in Nat
        /\ e.results[k] \in {<<>>} \cup {<<token>> : token \in Sampled}
  BY <1>1, <1>3
<1> QED BY <1>2, <1>3, <1>4
-----------------------------------------------------------------------------
(* Neither committing nor in the middle of retiring, every place of every  *)
(* queued step counts.                                                     *)
Whole == step.phase # "commit" /\ (step.phase = "retire" => step.done = 0)

(* So does each when none has been committed or retired in part.           *)
LEMMA CountedAll ==
  ASSUME Outstanding, Whole, NEW p \in DOMAIN queue
  PROVE  Counted(p) = DOMAIN queue[p].selected
<1>1. queue[p] \in Ticketed /\ Queued(queue[p])
  BY QueueAt
<1>2. \A k \in DOMAIN queue[p].selected : k \in Nat /\ k > 0
  BY <1>1, PlacesAt
<1> QED BY <1>2 DEF Counted, Phase, Whole

(* A place that counts is a use of its request.                            *)
LEMMA UseCounts ==
  ASSUME Outstanding, ~failed, NEW p \in DOMAIN queue, NEW k \in Counted(p),
         NEW i, i = queue[p].selected[k]
  PROVE  /\ i \in DOMAIN requests /\ requests[i].uses > 0 /\ Held(i)
         /\ requests[i].ticket = queue[p].tickets[k]
<1>1. Accounted
  BY DEF Outstanding
<1>2. i \in DOMAIN requests /\ requests[i].ticket = queue[p].tickets[k]
  BY <1>1 DEF Accounted
<1>3. p \in {1, 2} /\ Uses(p, i)
  BY QueueAt DEF Uses
<1>4. UsesOf(i) > 0
  BY <1>3 DEF UsesOf, One
<1>5. requests[i].uses = UsesOf(i) /\ (requests[i].uses > 0 => Held(i))
  BY <1>1, <1>2 DEF Accounted
<1> QED BY <1>2, <1>4, <1>5

(* A request that has no place has no use.                                 *)
LEMMA NoUse ==
  ASSUME Outstanding, ~failed, NEW i, i \notin DOMAIN requests
  PROVE  UsesOf(i) = 0 /\ SamplesOf(i) = 0
<1>1. \A p \in DOMAIN queue : ~Uses(p, i) /\ ~Selects(p, i)
  BY DEF Outstanding, Accounted, Uses, Selects
<1> QED BY <1>1 DEF UsesOf, SamplesOf, One

(* What is outstanding changes with what its definitions name.             *)
LEMMA SameCounted ==
  ASSUME UNCHANGED queue, \A p \in DOMAIN queue : Counted(p)' = Counted(p)
  PROVE  \A i : UsesOf(i)' = UsesOf(i) /\ SamplesOf(i)' = SamplesOf(i)
<1>1. \A i : \A p \in DOMAIN queue : (Uses(p, i)' <=> Uses(p, i)) /\ (Selects(p, i)' <=> Selects(p, i))
  BY DEF Uses, Selects
<1>2. \A i : /\ (1 \in DOMAIN queue /\ Uses(1, i))' <=> (1 \in DOMAIN queue /\ Uses(1, i))
             /\ (2 \in DOMAIN queue /\ Uses(2, i))' <=> (2 \in DOMAIN queue /\ Uses(2, i))
             /\ (1 \in DOMAIN queue /\ Selects(1, i))' <=> (1 \in DOMAIN queue /\ Selects(1, i))
             /\ (2 \in DOMAIN queue /\ Selects(2, i))' <=> (2 \in DOMAIN queue /\ Selects(2, i))
  BY <1>1
<1> QED BY <1>2 DEF UsesOf, SamplesOf, One

(* A request that keeps its ticket and its blocks.                         *)
Keeps(i) ==
  /\ i \in DOMAIN requests' /\ requests'[i].ticket = requests[i].ticket /\ Held(i)'
  /\ Range(tables[requests[i].sequence]) \subseteq Range(tables'[requests'[i].sequence])

(* What a request that keeps its blocks holds, it holds on.                *)
LEMMA HoldsOn ==
  ASSUME NEW i, NEW use, Holds(i, use), Keeps(i)
  PROVE  Holds(i, use)'
BY DEF Holds, Keeps

(* Steps that submit and retire nothing leave what is outstanding as it    *)
(* is, if requests with uses keep their blocks.                            *)
LEMMA OutstandingKept ==
  ASSUME Outstanding, Whole, Whole', UNCHANGED <<queue, inflight, failed>>, failed \in BOOLEAN,
         DOMAIN requests \subseteq DOMAIN requests',
         \A i \in DOMAIN requests :
           /\ requests'[i].uses = requests[i].uses /\ requests'[i].samples = requests[i].samples
           /\ Held(i) /\ (requests[i].uses > 0 \/ (failed /\ queue = <<>> /\ inflight # <<>>)) => Keeps(i),
         \A i \in DOMAIN requests' :
           /\ i \notin DOMAIN requests => requests'[i].uses = 0 /\ requests'[i].samples = 0
           /\ requests'[i].state = DRAINING =>
                requests'[i].uses > 0 \/ (i \in DOMAIN requests /\ requests[i].state = DRAINING)
  PROVE  Outstanding'
<1>1. /\ queue' \in Seq(Ticketed) /\ Len(queue') <= 2 /\ inflight' \in Seq(SUBSET (Nat \X Block))
      /\ \A p \in DOMAIN queue' : Queued(queue'[p])
  BY DEF Outstanding
<1>2. ASSUME ~failed PROVE Accounted' /\ Submitted' /\ Flying'
  <2>1. \A p \in DOMAIN queue : Counted(p) = DOMAIN queue[p].selected /\ Counted(p)' = Counted(p)
    <3>1. \A p \in DOMAIN queue : Counted(p) = DOMAIN queue[p].selected
      BY CountedAll
    <3>2. \A p \in DOMAIN queue : \A k \in DOMAIN queue[p].selected : k \in Nat /\ k > 0
      BY QueueAt, PlacesAt
    <3>3. \A p \in DOMAIN queue : Counted(p)' = DOMAIN queue[p].selected
      BY <3>2 DEF Counted, Phase, Whole
    <3> QED BY <3>1, <3>3
  <2>2. \A i : UsesOf(i)' = UsesOf(i) /\ SamplesOf(i)' = SamplesOf(i)
    BY <2>1, SameCounted
  <2>3. Accounted
    BY <1>2 DEF Outstanding
  <2>4. ASSUME NEW i \in DOMAIN requests'
        PROVE  /\ requests'[i].uses = UsesOf(i)' /\ requests'[i].samples = SamplesOf(i)'
               /\ requests'[i].uses > 0 => Held(i)'
               /\ requests'[i].state = DRAINING => requests'[i].uses > 0
    <3>1. CASE i \in DOMAIN requests
      BY <2>2, <2>3, <2>4, <3>1 DEF Accounted, Keeps
    <3>2. CASE i \notin DOMAIN requests
      <4>1. UsesOf(i)' = 0 /\ SamplesOf(i)' = 0
        BY <1>2, <2>2, <3>2, NoUse
      <4>2. requests'[i].uses = 0 /\ requests'[i].samples = 0
        BY <2>4, <3>2
      <4>3. requests'[i].state # DRAINING
        BY <2>4, <3>2, <4>2
      <4> QED BY <4>1, <4>2, <4>3
    <3> QED BY <3>1, <3>2
  <2>5. \A p \in DOMAIN queue : \A k \in Counted(p) : Keeps(queue[p].selected[k])
    BY <1>2, UseCounts
  <2>6. Accounted'
    <3>1. \A p \in DOMAIN queue' : \A k \in Counted(p)' :
            /\ queue'[p].selected[k] \in DOMAIN requests'
            /\ requests'[queue'[p].selected[k]].ticket = queue'[p].tickets[k]
      BY <2>1, <2>3, <2>5 DEF Accounted, Keeps
    <3> QED BY <2>4, <3>1 DEF Accounted
  <2>7. Submitted'
    BY DEF Submitted, Phase, Whole
  <2>8. Flying'
    <3>1. Flying /\ Collected = 0 /\ Collected' = 0
      <4>1. step.phase = "retire" => ~(step.done > 0)
        BY DEF Whole
      <4>2. step'.phase = "retire" => ~(step'.done > 0)
        BY DEF Whole
      <4> QED BY <1>2, <4>1, <4>2 DEF Outstanding, Collected, Phase
    <3>2. ASSUME NEW p \in DOMAIN inflight, NEW use \in inflight[p]
          PROVE  \E k \in DOMAIN queue[p].selected :
                   queue[p].selected[k] \in DOMAIN requests' /\ Holds(queue[p].selected[k], use)'
      <4>1. p + 0 = p /\ p \in DOMAIN queue
        BY <3>1, <3>2, QueueAt DEF Flying
      <4>2. PICK k \in DOMAIN queue[p].selected : Holds(queue[p].selected[k], use)
        BY <3>1, <4>1 DEF Flying
      <4>3. Keeps(queue[p].selected[k])
        BY <2>1, <2>5, <4>1
      <4> QED BY <4>2, <4>3, HoldsOn DEF Keeps
    <3>3. \A p \in DOMAIN inflight : p + Collected' = p
      BY <3>1, QueueAt
    <3> QED BY <3>1, <3>2, <3>3, QueueAt DEF Flying
  <2> QED BY <2>6, <2>7, <2>8
<1>3. ASSUME failed PROVE Grounded'
  <2>1. Grounded
    BY <1>3 DEF Outstanding
  <2>2. ASSUME NEW i, Firm(i), inflight # <<>> PROVE Keeps(i) /\ Firm(i)'
    <3>1. i \in DOMAIN requests /\ Held(i) /\ (queue # <<>> => requests[i].uses > 0)
      BY <2>2 DEF Firm
    <3>2. Keeps(i)
      BY <1>3, <2>2, <3>1
    <3> QED BY <3>1, <3>2 DEF Firm, Keeps
  <2>3. \A p \in DOMAIN inflight' : \A use \in inflight'[p] :
          \E i \in DOMAIN requests' : Firm(i)' /\ Holds(i, use)'
    <3> SUFFICES ASSUME NEW p \in DOMAIN inflight, NEW use \in inflight[p]
                 PROVE  \E i \in DOMAIN requests' : Firm(i)' /\ Holds(i, use)'
      OBVIOUS
    <3>1. PICK i \in DOMAIN requests : Firm(i) /\ Holds(i, use)
      BY <2>1 DEF Grounded
    <3>2. inflight # <<>>
      BY QueueAt
    <3> QED BY <2>2, <3>1, <3>2, HoldsOn DEF Keeps
  <2>4. inflight' # <<>> => \E i \in DOMAIN requests' : Firm(i)'
    BY <2>1, <2>2 DEF Grounded, Keeps
  <2>5. ASSUME NEW i \in DOMAIN requests', requests'[i].uses > 0 PROVE Held(i)'
    <3>1. i \in DOMAIN requests /\ requests[i].uses > 0
      BY <2>5
    <3>2. Held(i)
      BY <2>1, <3>1 DEF Grounded
    <3> QED BY <3>1, <3>2 DEF Keeps
  <2> QED BY <2>3, <2>4, <2>5 DEF Grounded
<1> QED BY <1>1, <1>2, <1>3 DEF Outstanding
-----------------------------------------------------------------------------
(* A call that selects nothing, or has not begun to.                       *)
LEMMA NothingChosen ==
  ASSUME step'.chosen = <<>>, step'.done = 0, step'.phase \in Still \cup {"decode", "prefill"}
  PROVE  Batched' /\ Aim'
<1>1. DOMAIN step'.chosen = {} /\ step'.phase \notin {"room", "reserve", "execute", "commit"}
  BY DEF Still
<1> QED BY <1>1 DEF Batched, Aim, Phase

(* A step that only moves on.                                              *)
LEMMA MovesOn ==
  ASSUME AsyncRunning, OnlyStep, UNCHANGED <<queue, inflight>>, Whole, Whole',
         step' \in AsyncStepType, Batched', Aim', Waits', call.op = "clear" => step'.phase = "idle"
  PROVE  AsyncRunning'
<1>1. UNCHANGED <<vars, cacheVars, image, mode, requests, nextTicket, account, failed>>
  BY DEF OnlyStep
<1>2. UNCHANGED <<entries, call, tables, active>>
  BY <1>1 DEF vars, cacheVars
<1>3. CacheInv(Tenant, Token)'
  BY <1>1, AsyncParts, StillCacheInv
<1>4. Roster'
  BY <1>1, <1>2, <1>3, AsyncParts, RosterStill DEF Admitting
<1>5. Uncached'
  BY <1>1, <1>2, AsyncParts DEF Uncached, Phase
<1>6. Outstanding'
  <2>1. \A i \in DOMAIN requests : Held(i) => Keeps(i)
    BY <1>1, <1>2 DEF Keeps, Held
  <2> QED BY <1>1, <2>1, AsyncParts, OutstandingKept
<1> QED BY <1>4, <1>5, <1>6 DEF AsyncRunning

(* Calls begin and end, and the phases between scheduling and running      *)
(* follow each other.                                                      *)
LEMMA NewStep ==
  ASSUME step \in AsyncStepType, NEW p \in Still \cup {"decode", "prefill"}
  PROVE  /\ [NoStep EXCEPT !.phase = p] \in AsyncStepType
         /\ [NoStep EXCEPT !.phase = p].phase = p /\ [NoStep EXCEPT !.phase = p].chosen = <<>>
         /\ [NoStep EXCEPT !.phase = p].done = 0
         /\ [step EXCEPT !.phase = p] \in AsyncStepType
         /\ [step EXCEPT !.phase = p].phase = p
         /\ [step EXCEPT !.phase = p].chosen = step.chosen /\ [step EXCEPT !.phase = p].done = step.done
<1>1. NoStep \in AsyncStepType /\ NoStep.chosen = <<>> /\ NoStep.done = 0
  BY DEF NoStep, NoTarget, AsyncStepType, Still
<1>2. p \in Still \cup Choosing \cup {"execute", "commit"}
  BY DEF Choosing
<1>3. ASSUME NEW u \in AsyncStepType
      PROVE  /\ [u EXCEPT !.phase = p] \in AsyncStepType /\ [u EXCEPT !.phase = p].phase = p
             /\ [u EXCEPT !.phase = p].chosen = u.chosen /\ [u EXCEPT !.phase = p].done = u.done
  BY <1>2, <1>3 DEF AsyncStepType
<1> QED BY <1>1, <1>3

(* Where nothing is selected there is nothing to lose.                     *)
LEMMA GoesTo ==
  ASSUME AsyncRunning, OnlyStep, UNCHANGED <<queue, inflight>>, step.phase \in Still \ {"retire"},
         NEW p \in Still \cup {"decode", "prefill"},
         step' = [step EXCEPT !.phase = p] \/ step' = [NoStep EXCEPT !.phase = p],
         call.op = "clear" => p = "idle", Waits'
  PROVE  AsyncRunning'
<1>1. step.chosen = <<>> /\ step.done = 0 /\ step \in AsyncStepType
  BY AsyncParts DEF Batched
<1>2. step' \in AsyncStepType /\ step'.phase = p /\ step'.chosen = <<>> /\ step'.done = 0
  <2>1. CASE step' = [step EXCEPT !.phase = p]
    BY <1>1, <2>1, NewStep
  <2>2. CASE step' = [NoStep EXCEPT !.phase = p]
    BY <1>1, <2>2, NewStep
  <2> QED BY <2>1, <2>2
<1>3. Batched' /\ Aim'
  BY <1>2, NothingChosen
<1>4. Whole /\ Whole'
  BY <1>1, <1>2 DEF Whole, Still
<1> QED BY <1>2, <1>3, <1>4, MovesOn

(* A step on a working engine begins, waits for the queue, or ends.        *)
LEMMA PhasesOK ==
  ASSUME AsyncRunning, enabled,
         BeginAsync \/ BeginDrain \/ BoundaryPassed \/ PressureDrains \/ PressurePasses
  PROVE  AsyncRunning'
<1>1. mode.mixed \in BOOLEAN /\ step \in AsyncStepType /\ Waits /\ Uncached
  BY AsyncParts
<1>2. FirstPass \in {"decode", "prefill"}
  BY DEF FirstPass
<1>3. call = Idle => call.op # "clear"
  BY DEF Idle
<1>4. Idling => call.op # "clear"
  BY <1>3 DEF Idling
<1>5. step.phase # "idle" => call.op # "clear"
  BY <1>1 DEF Uncached, Phase
<1>6. Len(queue) \in {0, 1, 2} /\ (queue = <<>> <=> Len(queue) = 0)
  BY AsyncParts, QueueAt
<1>7. queue # <<>> => Len(queue[1].selected) > 0
  <2>1. ASSUME queue # <<>> PROVE Len(queue[1].selected) > 0
    <3>1. queue[1] \in Ticketed /\ Queued(queue[1])
      BY <2>1, AsyncParts, QueueAt
    <3> QED BY <3>1, PlacesAt
  <2> QED BY <2>1
<1>8. step.phase # "retire" => (~failed => (step.phase \in Still => step.done = 0))
  BY AsyncParts DEF Batched
<1>9. CASE BeginAsync
  <2>1. /\ step.phase = "idle" /\ ~failed /\ OnlyStep /\ UNCHANGED <<queue, inflight, draining>>
        /\ step' = [step EXCEPT !.phase = "boundary"] /\ call.op # "clear"
    BY <1>4, <1>9 DEF BeginAsync, Goto, Idling, Phase
  <2>2. step'.phase = "boundary" /\ step'.done = step.done
    BY <1>1, <2>1, NewStep DEF Still
  <2>3. Waits'
    BY <1>1, <2>1, <2>2 DEF Waits, Phase, OnlyStep, Choosing
  <2> QED BY <2>1, <2>3, GoesTo DEF Still
<1>10. CASE BeginDrain
  <2>1. /\ step.phase = "idle" /\ OnlyStep /\ UNCHANGED <<queue, inflight>> /\ queue # <<>> /\ draining'
        /\ step' = [step EXCEPT !.phase = "boundary"] /\ call.op # "clear"
    BY <1>4, <1>10 DEF BeginDrain, Goto, Idling, Phase
  <2>2. step'.phase = "boundary" /\ step'.done = step.done
    BY <1>1, <2>1, NewStep DEF Still
  <2>3. Waits'
    BY <1>1, <2>1, <2>2 DEF Waits, Phase, OnlyStep, Choosing
  <2> QED BY <2>1, <2>3, GoesTo DEF Still
<1>11. CASE BoundaryPassed
  <2>1. PICK p : p = IF draining THEN "retire" ELSE IF queue = <<>> THEN FirstPass ELSE "pressure"
    OBVIOUS
  <2>2. /\ step.phase = "boundary" /\ OnlyStep /\ UNCHANGED <<queue, inflight, draining>>
        /\ step' = [step EXCEPT !.phase = p]
    BY <1>11, <2>1 DEF BoundaryPassed, Goto, Phase, Stepping
  <2>3. p \in Still \cup {"decode", "prefill"}
    BY <1>2, <2>1 DEF Still
  <2>4. step'.phase = p /\ step'.done = step.done /\ step.done = 0
    BY <1>1, <2>2, <2>3, NewStep, AsyncParts DEF Batched, Still
  <2>5. draining => queue # <<>>
    BY <1>1, <2>2 DEF Waits, Phase
  <2>6. Waits'
    BY <1>1, <1>2, <1>6, <1>7, <2>1, <2>2, <2>4, <2>5 DEF Waits, Phase, OnlyStep, Choosing
  <2> QED BY <1>5, <2>2, <2>3, <2>6, GoesTo DEF Still
<1>12. CASE PressureDrains
  <2>1. /\ step.phase = "pressure" /\ OnlyStep /\ UNCHANGED <<queue, inflight, draining>>
        /\ step' = [NoStep EXCEPT !.phase = "retire"]
    BY <1>12 DEF PressureDrains, Phase, Stepping
  <2>2. step'.phase = "retire" /\ step'.done = 0
    BY <1>1, <2>1, NewStep DEF Still
  <2>3. Waits'
    BY <1>1, <1>6, <1>7, <2>1, <2>2 DEF Waits, Phase, OnlyStep, Choosing
  <2> QED BY <1>5, <2>1, <2>3, GoesTo DEF Still
<1>13. CASE PressurePasses
  <2>1. PICK p \in {"decode", "prefill"} : p = FirstPass
    BY <1>2
  <2>2. /\ step.phase = "pressure" /\ OnlyStep /\ UNCHANGED <<queue, inflight, draining>>
        /\ step' = [NoStep EXCEPT !.phase = p]
    BY <1>13, <2>1 DEF PressurePasses, Phase, Stepping
  <2>3. step'.phase = p /\ step'.done = 0
    BY <1>1, <2>1, <2>2, NewStep
  <2>4. Len(queue) = 1 /\ ~failed /\ ~draining
    BY <1>1, <2>2 DEF Waits, Phase
  <2>5. step'.phase = "decode" \/ step'.phase = "prefill"
    BY <2>1, <2>3
  <2>6. Len(queue') = 1 /\ ~failed' /\ ~draining'
    BY <2>2, <2>4 DEF OnlyStep
  <2>7. Waits'
    BY <2>4, <2>5, <2>6 DEF Waits, Phase
  <2>8. step.phase \in Still \ {"retire"} /\ UNCHANGED <<queue, inflight>> /\ OnlyStep /\ call.op # "clear"
    BY <1>5, <2>2 DEF Still
  <2>9. p \in Still \cup {"decode", "prefill"} /\ step' = [NoStep EXCEPT !.phase = p]
    BY <2>1, <2>2
  <2> QED BY <2>7, <2>8, <2>9, GoesTo
<1> QED BY <1>9, <1>10, <1>11, <1>12, <1>13

(* NoStep is the end of a call.                                            *)
LEMMA IdleStep ==
  NoStep \in AsyncStepType /\ NoStep.phase = "idle" /\ NoStep.chosen = <<>> /\ NoStep.done = 0
BY DEF NoStep, NoTarget, AsyncStepType, Still

(* A call that ends, or turns to the oldest step, drops its selection.     *)
LEMMA Lands ==
  ASSUME AsyncRunning, OnlyStep, UNCHANGED <<queue, inflight>>, Whole, NEW p \in Still,
         step' = [NoStep EXCEPT !.phase = p] \/ (step' = NoStep /\ p = "idle"),
         call.op = "clear" => p = "idle", Waits'
  PROVE  AsyncRunning'
<1>1. step \in AsyncStepType
  BY AsyncParts
<1>2. step' \in AsyncStepType /\ step'.phase = p /\ step'.chosen = <<>> /\ step'.done = 0
  <2>1. CASE step' = [NoStep EXCEPT !.phase = p]
    BY <1>1, <2>1, NewStep
  <2>2. CASE step' = NoStep /\ p = "idle"
    BY <2>2, IdleStep
  <2> QED BY <2>1, <2>2
<1>3. Batched' /\ Aim'
  BY <1>2, NothingChosen
<1>4. Whole'
  BY <1>2 DEF Whole, Still
<1> QED BY <1>2, <1>3, <1>4, MovesOn

(* A failed call ends when it has released everything, or when the drain   *)
(* raised too.                                                             *)
LEMMA FailuresOK ==
  ASSUME AsyncRunning, enabled, AsyncFailDone \/ DrainRaises
  PROVE  AsyncRunning'
<1>1. step \in AsyncStepType /\ Waits /\ Uncached
  BY AsyncParts
<1>2. /\ step.phase \in {"failing", "lost"} /\ OnlyStep /\ UNCHANGED <<queue, inflight>>
      /\ step' = NoStep /\ ~draining'
  BY DEF AsyncFailDone, DrainRaises, Phase
<1>3. Len(queue) \in {0, 1, 2} /\ (queue = <<>> <=> Len(queue) = 0)
  BY AsyncParts, QueueAt
<1>4. Len(queue) <= 1
  BY <1>1, <1>2, <1>3 DEF Waits, Phase
<1>5. step'.phase = "idle" /\ step'.done = 0
  BY <1>2, IdleStep
<1>6. Waits'
  BY <1>2, <1>4, <1>5 DEF Waits, Phase
<1>7. Whole
  BY <1>2 DEF Whole
<1>8. PICK p \in Still : p = "idle"
  BY DEF Still
<1>9. step' = NoStep /\ OnlyStep /\ UNCHANGED <<queue, inflight>>
  BY <1>2, <1>5, <1>8
<1> QED BY <1>6, <1>7, <1>8, <1>9, Lands

(* With nothing selected there is no step, or no successor.                *)
LEMMA NothingSelectedOK ==
  ASSUME AsyncRunning, enabled, NothingSelected
  PROVE  AsyncRunning'
<1>1. step \in AsyncStepType /\ Waits /\ Uncached
  BY AsyncParts
<1>2. /\ step.phase = "build" /\ OnlyStep /\ UNCHANGED <<queue, inflight, draining>>
      /\ step' = IF queue = <<>> THEN NoStep ELSE [NoStep EXCEPT !.phase = "retire"]
  BY DEF NothingSelected, Phase, Stepping
<1>3. Len(queue) \in {0, 1, 2} /\ (queue = <<>> <=> Len(queue) = 0)
  BY AsyncParts, QueueAt
<1>4. Len(queue) <= 1 /\ ~failed /\ ~draining
  BY <1>1, <1>2 DEF Waits, Phase, Choosing
<1>5. Whole /\ call.op # "clear"
  BY <1>1, <1>2 DEF Whole, Uncached, Phase
<1>6. Len(queue') <= 1 /\ ~failed' /\ ~draining'
  BY <1>2, <1>4 DEF OnlyStep
<1>7. CASE queue = <<>>
  <2>1. step' = NoStep /\ step'.phase = "idle" /\ step'.done = 0
    BY <1>2, <1>7, IdleStep
  <2>2. Waits'
    BY <1>6, <2>1 DEF Waits, Phase
  <2> QED BY <1>2, <1>5, <2>1, <2>2, Lands DEF Still
<1>8. CASE queue # <<>>
  <2>1. step' = [NoStep EXCEPT !.phase = "retire"]
    BY <1>2, <1>8
  <2>2. step'.phase = "retire" /\ step'.done = 0
    BY <1>1, <2>1, NewStep DEF Still
  <2>3. Len(queue'[1].selected) > 0 /\ queue' # <<>>
    <3>1. queue[1] \in Ticketed /\ Queued(queue[1])
      BY <1>3, <1>8, AsyncParts, QueueAt
    <3> QED BY <1>2, <1>8, <3>1, PlacesAt
  <2>4. Waits'
    BY <1>6, <2>2, <2>3 DEF Waits, Phase, Choosing
  <2> QED BY <1>2, <1>5, <2>1, <2>4, Lands DEF Still
<1> QED BY <1>7, <1>8
-----------------------------------------------------------------------------
(* Where a scheduling pass stands.                                         *)
LEMMA PassAt ==
  ASSUME AsyncRunning, step.phase \in Choosing
  PROVE  /\ ~failed /\ ~draining /\ Len(queue) <= 1 /\ Whole /\ step \in AsyncStepType /\ step.done = 0
         /\ call = Idle /\ call.op = "none"
         /\ Len(step.chosen) \in Nat /\ DOMAIN step.chosen = 1..Len(step.chosen)
         /\ \A k \in DOMAIN step.chosen :
              /\ Runs(step.chosen[k].index)
              /\ step.phase # "build" => requests[step.chosen[k].index].state = DECODE
                                         /\ step.chosen[k].index \in step.considered
<1>1. Waits /\ Batched /\ Uncached /\ Roster /\ step \in AsyncStepType
  BY AsyncParts
<1>2. ~failed /\ ~draining /\ Len(queue) <= 1 /\ Whole
  BY <1>1 DEF Waits, Choosing, Whole
<1>3. step.done = 0
  BY <1>1 DEF Batched
<1>4. call.op = "none"
  BY <1>1 DEF Uncached, Phase, Choosing
<1>5. call = Idle
  BY <1>1, <1>4, RosterIdle
<1>6. Len(step.chosen) \in Nat /\ DOMAIN step.chosen = 1..Len(step.chosen)
  BY <1>1, AsyncStepAt
<1>7. \A k \in DOMAIN step.chosen :
        /\ Runs(step.chosen[k].index)
        /\ step.phase # "build" => requests[step.chosen[k].index].state = DECODE
                                   /\ step.chosen[k].index \in step.considered
  BY <1>1 DEF Batched
<1> QED BY <1>1, <1>2, <1>3, <1>4, <1>5, <1>6, <1>7

(* A request that runs holds a sequence.                                   *)
LEMMA RunsHolds ==
  ASSUME AsyncRunning, NEW i, Runs(i)
  PROVE  /\ i \in DOMAIN requests /\ i \in Nat /\ Held(i) /\ requests[i].sequence \in Slot
         /\ active[requests[i].sequence] /\ Past(i) \in Nat /\ History(i) \in Nat
         /\ Len(tables[requests[i].sequence]) \in Nat
<1>1. i \in DOMAIN requests /\ Held(i)
  BY AsyncParts DEF Runs, Owned
<1>2. requests[i].sequence \in Slot /\ active[requests[i].sequence] /\ Past(i) \in Nat
  BY <1>1, AsyncParts, RosterResident
<1>3. i \in Nat /\ History(i) \in Nat
  BY <1>1, AsyncParts, RequestAt
<1>4. Len(tables[requests[i].sequence]) \in Nat
  BY <1>2, AsyncParts, TableType DEF IInv
<1> QED BY <1>1, <1>2, <1>3, <1>4

(* The pass goes on while a step is outstanding or none is.                *)
LEMMA WaitsOn ==
  ASSUME AsyncRunning, step.phase \in Choosing, UNCHANGED <<queue, inflight, draining, failed>>,
         step'.phase \in Choosing \cup {"execute"}
  PROVE  Waits' /\ Whole'
<1>1. ~failed /\ ~draining /\ Len(queue) <= 1
  BY PassAt
<1>2. ~failed' /\ ~draining' /\ Len(queue') <= 1
  BY <1>1
<1> QED BY <1>2 DEF Waits, Whole, Phase, Choosing

(* A pass that changes the step alone goes on where it was.                *)
LEMMA PassesOn ==
  ASSUME AsyncRunning, OnlyStep, UNCHANGED Stepping, step.phase \in Choosing, step' \in AsyncStepType,
         step'.phase \in Choosing \cup {"execute"}, Batched', Aim'
  PROVE  AsyncRunning'
<1>1. Whole /\ call.op = "none"
  BY PassAt
<1>2. UNCHANGED <<queue, inflight, draining, failed>>
  BY DEF OnlyStep, Stepping
<1>3. Waits' /\ Whole'
  BY <1>2, WaitsOn
<1> QED BY <1>1, <1>2, <1>3, MovesOn

(* The same selection, while prefills are not selected.                    *)
LEMMA StillBatched ==
  ASSUME AsyncRunning, step.phase \in Choosing, step.phase # "build" \/ step'.phase = "execute",
         step'.chosen = step.chosen, step'.done = 0, step.considered \subseteq step'.considered,
         step'.phase \in Choosing \/ (step'.phase = "execute" /\ step.chosen # <<>>),
         \A k \in DOMAIN step.chosen : step.chosen[k].index \in DOMAIN requests'
           /\ requests'[step.chosen[k].index].state = requests[step.chosen[k].index].state
  PROVE  Batched'
<1>1. \A k, l \in DOMAIN step.chosen : step.chosen[k].index = step.chosen[l].index => k = l
  BY AsyncParts DEF Batched
<1>2. \A k \in DOMAIN step.chosen : Runs(step.chosen[k].index)'
  BY PassAt DEF Runs
<1>3. step'.phase \notin Still
  BY DEF Choosing, Still
<1>4. step'.phase \in Choosing \ {"build"} => \A k \in DOMAIN step.chosen :
        requests'[step.chosen[k].index].state = DECODE /\ step.chosen[k].index \in step'.considered
  BY PassAt DEF Choosing
<1>5. step'.phase \in {"execute", "commit"} => step'.done < Len(step'.chosen)
  <2>1. step.chosen # <<>> => Len(step.chosen) > 0
    BY AsyncParts, EmptySeq DEF AsyncStepType
  <2>2. step'.phase \in {"execute", "commit"} => step.chosen # <<>>
    BY DEF Choosing
  <2> QED BY <2>1, <2>2
<1> QED BY <1>1, <1>2, <1>3, <1>4, <1>5 DEF Batched

(* A request joins it.                                                     *)
LEMMA NowBatched ==
  ASSUME AsyncRunning, step.phase \in Choosing \ {"build"}, NEW i, NEW n \in Int, i \notin ChosenSlots,
         Runs(i)', i \in Nat, step'.chosen = Choose(i, n), step'.done = 0,
         step.considered \subseteq step'.considered,
         step'.phase = "build"
           \/ (step'.phase = "decode" /\ requests'[i].state = DECODE /\ i \in step'.considered),
         \A k \in DOMAIN step.chosen : step.chosen[k].index \in DOMAIN requests'
           /\ requests'[step.chosen[k].index].state = requests[step.chosen[k].index].state
  PROVE  Batched' /\ step'.chosen \in Seq([index : Nat, count : Int])
<1>1. \A k, l \in DOMAIN step.chosen : step.chosen[k].index = step.chosen[l].index => k = l
  BY AsyncParts DEF Batched
<1>2. \A k \in DOMAIN step.chosen :
        /\ step.chosen[k].index \in DOMAIN requests' /\ step.chosen[k].index \in step'.considered
        /\ requests'[step.chosen[k].index].state = DECODE /\ step.chosen[k].index # i
  BY PassAt DEF Runs, ChosenSlots
<1> DEFINE c == [index |-> i, count |-> n]
<1>3. /\ step.chosen \in Seq([index : Nat, count : Int]) /\ c \in [index : Nat, count : Int]
      /\ step'.chosen = Append(step.chosen, c) /\ c.index = i
  BY AsyncParts, AsyncStepAt DEF Choose
<1> HIDE DEF c
<1>4. /\ step'.chosen \in Seq([index : Nat, count : Int])
      /\ DOMAIN step'.chosen = 1..(Len(step.chosen) + 1)
      /\ DOMAIN step.chosen = 1..Len(step.chosen) /\ Len(step.chosen) \in Nat
      /\ \A k \in DOMAIN step.chosen : step'.chosen[k] = step.chosen[k]
      /\ step'.chosen[Len(step.chosen) + 1].index = i
  <2>1. PICK T : T = [index : Nat, count : Int]
    OBVIOUS
  <2>2. step.chosen \in Seq(T) /\ c \in T
    BY <1>3, <2>1
  <2>3. /\ Append(step.chosen, c) \in Seq(T)
        /\ DOMAIN Append(step.chosen, c) = 1..(Len(step.chosen) + 1)
        /\ DOMAIN step.chosen = 1..Len(step.chosen) /\ Len(step.chosen) \in Nat
        /\ \A k \in DOMAIN step.chosen : Append(step.chosen, c)[k] = step.chosen[k]
        /\ Append(step.chosen, c)[Len(step.chosen) + 1] = c
    BY <2>2
  <2> QED BY <1>3, <2>1, <2>3
<1>5. \A k \in DOMAIN step'.chosen :
        (k \in DOMAIN step.chosen /\ step'.chosen[k] = step.chosen[k])
        \/ (k = Len(step.chosen) + 1 /\ step'.chosen[k].index = i)
  BY <1>4
<1>6. \A k \in DOMAIN step'.chosen : Runs(step.chosen[k].index)'
  BY <1>2, <1>5 DEF Runs
<1>7. \A k, l \in DOMAIN step'.chosen : step'.chosen[k].index = step'.chosen[l].index => k = l
  BY <1>1, <1>2, <1>5
<1>8. step'.phase = "decode" => \A k \in DOMAIN step'.chosen :
        requests'[step'.chosen[k].index].state = DECODE /\ step'.chosen[k].index \in step'.considered
  BY <1>2, <1>5
<1>9. step'.phase \in {"decode", "build"}
  OBVIOUS
<1> QED BY <1>4, <1>6, <1>7, <1>8, <1>9 DEF Batched, Still, Choosing

(* What a pass may aim at.                                                 *)
Aims == [index : Nat, count : Int, needed : Int, from : {"none", "decode", "prefill"}, lost : BOOLEAN]

(* A resident request makes a target of the type,                          *)
LEMMA TargetTyped ==
  ASSUME AsyncRunning, NEW i, Runs(i), NEW n \in Int, NEW from, from = "decode" \/ from = "prefill"
  PROVE  Target(i, n, from) \in Aims
<1>1. i \in Nat /\ Past(i) \in Nat /\ Len(tables[requests[i].sequence]) \in Nat
  BY RunsHolds
<1>2. CeilDiv(Past(i) + n, BlockSize) \in Int
  BY <1>1, GeometryAssumption DEF CeilDiv
<1>3. Needed(i, Past(i) + n) \in Int
  BY <1>1, <1>2 DEF Needed
<1> QED BY <1>1, <1>3 DEF Target, Aims

(* and so does none.                                                       *)
LEMMA NoTargetTyped == NoTarget \in Aims
BY DEF NoTarget, Aims

(* A pass that turns to another choice, with the same selection.           *)
LEMMA TurnsTo ==
  ASSUME AsyncRunning, OnlyStep, UNCHANGED Stepping, step.phase \in Choosing,
         NEW p \in Choosing \cup {"execute"}, p \notin {"room", "reserve"}, NEW t \in Aims,
         step.phase # "build" \/ p = "execute", p = "execute" => step.chosen # <<>>,
         step' = [step EXCEPT !.phase = p] \/ step' = [step EXCEPT !.target = t, !.phase = p]
  PROVE  AsyncRunning'
<1>1. step \in AsyncStepType /\ step.done = 0
  BY PassAt
<1>2. step' \in AsyncStepType /\ step'.phase = p /\ step'.chosen = step.chosen /\ step'.done = 0
      /\ step'.considered = step.considered
  <2>1. CASE step' = [step EXCEPT !.phase = p]
    BY <1>1, <2>1 DEF AsyncStepType
  <2>2. CASE step' = [step EXCEPT !.target = t, !.phase = p]
    BY <1>1, <2>2 DEF AsyncStepType, Aims
  <2> QED BY <2>1, <2>2
<1>3. UNCHANGED requests
  BY DEF OnlyStep
<1>4. \A k \in DOMAIN step.chosen : step.chosen[k].index \in DOMAIN requests
  BY PassAt DEF Runs
<1>5. Batched'
  BY <1>2, <1>3, <1>4, StillBatched
<1>6. Aim'
  BY <1>2 DEF Aim, Phase
<1> QED BY <1>2, <1>5, <1>6, PassesOn

(* Room is to be made for a request that is not selected.                  *)
LEMMA MakesRoom ==
  ASSUME AsyncRunning, OnlyStep, UNCHANGED Stepping, step.phase \in Choosing \ {"build"},
         NEW i \in DOMAIN requests, i \notin ChosenSlots, NEW n \in Int,
         NEW from, from = "decode" \/ from = "prefill",
         requests[i].state = (IF from = "decode" THEN DECODE ELSE PREFILL),
         step' = [step EXCEPT !.phase = "room", !.considered = @ \cup {i}, !.target = Target(i, n, from)]
         \/ (from = "prefill" /\ step' = [step EXCEPT !.phase = "room", !.target = Target(i, n, from)])
  PROVE  AsyncRunning'
<1>1. step \in AsyncStepType /\ step.done = 0
  BY PassAt
<1>2. Runs(i) /\ i \in Nat
  BY RunsHolds DEF Runs
<1>3. PICK t \in Aims : t = Target(i, n, from) /\ t.index = i /\ t.from = from /\ ~t.lost
  <2>1. Target(i, n, from) \in Aims
    BY <1>2, TargetTyped
  <2>2. Target(i, n, from).index = i /\ Target(i, n, from).from = from /\ ~Target(i, n, from).lost
    BY DEF Target
  <2> QED BY <2>1, <2>2
<1>4. step' \in AsyncStepType /\ step'.phase = "room" /\ step'.chosen = step.chosen /\ step'.done = 0
      /\ step.considered \subseteq step'.considered /\ step'.target = t
      /\ (from = "decode" => i \in step'.considered)
  <2>1. CASE step' = [step EXCEPT !.phase = "room", !.considered = @ \cup {i}, !.target = t]
    BY <1>1, <1>2, <2>1 DEF AsyncStepType, Choosing, Aims
  <2>2. CASE from = "prefill" /\ step' = [step EXCEPT !.phase = "room", !.target = t]
    BY <1>1, <1>2, <2>2 DEF AsyncStepType, Choosing, Aims
  <2> QED BY <1>3, <2>1, <2>2
<1>5. UNCHANGED requests
  BY DEF OnlyStep
<1>6. \A k \in DOMAIN step.chosen : step.chosen[k].index \in DOMAIN requests
  BY PassAt DEF Runs
<1>7. Batched'
  BY <1>4, <1>5, <1>6, StillBatched DEF Choosing
<1>8. Aim'
  <2>1. i \notin ChosenSlots'
    BY <1>4 DEF ChosenSlots
  <2> QED BY <1>3, <1>4, <1>5, <2>1 DEF Aim, Phase
<1> QED BY <1>4, <1>7, <1>8, PassesOn DEF Choosing

(* The oldest of a state that no slot is excluded from.                    *)
LEMMA OldestIs ==
  ASSUME NEW state, NEW excluded, NEW i \in Oldest(state, excluded)
  PROVE  i \in DOMAIN requests /\ requests[i].state = state /\ i \notin excluded
BY DEF Oldest

(* The decodes' turn.                                                      *)
LEMMA DecodesOK ==
  ASSUME AsyncRunning, UNCHANGED Stepping, DecodePick \/ DecodeDone
  PROVE  AsyncRunning'
<1>1. step.phase = "decode" /\ OnlyStep /\ step.phase \in Choosing
  BY DEF DecodePick, DecodeDone, Phase, Choosing
<1>2. CASE DecodeDone
  <2>1. PICK p \in {"prefill", "build"} : p = AfterDecode
    BY DEF AfterDecode
  <2>2. step' = [step EXCEPT !.phase = p]
    BY <1>2, <2>1 DEF DecodeDone, Goto
  <2> QED BY <1>1, <2>1, <2>2, NoTargetTyped, TurnsTo DEF Choosing
<1>3. CASE DecodePick
  <2>1. PICK i \in DecodeChoices :
          \/ step' = [step EXCEPT !.considered = @ \cup {i}]
          \/ step' = [step EXCEPT !.phase = "room", !.considered = @ \cup {i},
                                  !.target = Target(i, 1, "decode")]
    BY <1>3 DEF DecodePick
  <2>2. i \in DOMAIN requests /\ requests[i].state = DECODE /\ i \notin step.considered
    BY OldestIs DEF DecodeChoices
  <2>3. i \notin ChosenSlots
    BY <1>1, <2>2, PassAt DEF ChosenSlots
  <2>4. CASE step' = [step EXCEPT !.considered = @ \cup {i}]
    <3>1. step \in AsyncStepType /\ step.done = 0 /\ i \in Nat
      BY <1>1, <2>2, PassAt, AsyncParts, RequestAt
    <3>2. /\ step' \in AsyncStepType /\ step'.phase = "decode" /\ step'.chosen = step.chosen
          /\ step'.done = 0 /\ step.considered \subseteq step'.considered
      BY <1>1, <2>4, <3>1 DEF AsyncStepType
    <3>3. UNCHANGED requests /\ \A k \in DOMAIN step.chosen : step.chosen[k].index \in DOMAIN requests
      BY <1>1, PassAt DEF OnlyStep, Runs
    <3>4. Batched'
      BY <1>1, <3>2, <3>3, StillBatched
    <3>5. Aim'
      BY <3>2 DEF Aim, Phase
    <3> QED BY <1>1, <3>2, <3>4, <3>5, PassesOn
  <2>5. CASE step' = [step EXCEPT !.phase = "room", !.considered = @ \cup {i},
                                  !.target = Target(i, 1, "decode")]
    <3>1. PICK from : from = "decode"
      OBVIOUS
    <3>2. PICK n \in Int : n = 1
      OBVIOUS
    <3>3. step.phase \in Choosing \ {"build"} /\ requests[i].state = (IF from = "decode" THEN DECODE ELSE PREFILL)
      BY <1>1, <2>2, <3>1
    <3>4. step' = [step EXCEPT !.phase = "room", !.considered = @ \cup {i}, !.target = Target(i, n, from)]
      BY <2>5, <3>1, <3>2
    <3> QED BY <1>1, <2>2, <2>3, <3>1, <3>2, <3>3, <3>4, MakesRoom
  <2> QED BY <2>1, <2>4, <2>5
<1> QED BY <1>2, <1>3

(* The prefill in progress, or else the oldest waiting request.            *)
LEMMA PrefillsOK ==
  ASSUME AsyncRunning, UNCHANGED Stepping, PrefillPick \/ PrefillNone \/ PrefillSkip \/ AdmitRefuse
  PROVE  AsyncRunning'
<1>1. step.phase \in {"prefill", "admit"} /\ OnlyStep /\ step.phase \in Choosing
  BY DEF PrefillPick, PrefillNone, PrefillSkip, AdmitRefuse, Phase, Choosing
<1>2. CASE PrefillPick
  <2>1. PICK i \in Oldest(PREFILL, {}) :
          step' = [step EXCEPT !.phase = "room",
                               !.target = Target(i, PrefillCount(i, Past(i)), "prefill")]
    BY <1>2 DEF PrefillPick
  <2>2. i \in DOMAIN requests /\ requests[i].state = PREFILL
    BY OldestIs
  <2>3. i \notin ChosenSlots
    BY <1>1, <2>2, PassAt DEF ChosenSlots
  <2>4. PICK n \in Int : n = PrefillCount(i, Past(i))
    <3>1. Past(i) \in Nat /\ History(i) \in Nat
      BY <2>2, RunsHolds DEF Runs
    <3>2. RowsLeft \in Int
      BY <1>1, PassAt, EngineAssumption DEF RowsLeft
    <3> QED BY <3>1, <3>2, EngineAssumption DEF PrefillCount, Smaller
  <2> QED BY <1>1, <2>1, <2>2, <2>3, <2>4, MakesRoom
<1>3. CASE PrefillNone \/ PrefillSkip \/ AdmitRefuse
  <2>1. PICK p \in {"admit", "build", "decode"} : step' = [step EXCEPT !.phase = p]
    BY <1>3 DEF PrefillNone, PrefillSkip, AdmitRefuse, NoPrefill, Goto
  <2> QED BY <1>1, <2>1, NoTargetTyped, TurnsTo DEF Choosing
<1> QED BY <1>2, <1>3

(* Room that was lost, or is the request's own already; the batch begins.  *)
LEMMA RoomStepsOK ==
  ASSUME AsyncRunning, UNCHANGED Stepping, RoomLost \/ BuildBatch
  PROVE  AsyncRunning'
<1>1. CASE RoomLost
  <2>1. step.phase = "room" /\ OnlyStep /\ step.phase \in Choosing
    BY <1>1 DEF RoomLost, Phase, Choosing
  <2>2. PICK p \in {"admit", "decode"} : step' = [step EXCEPT !.target = NoTarget, !.phase = p]
    BY <1>1 DEF RoomLost
  <2> QED BY <2>1, <2>2, NoTargetTyped, TurnsTo DEF Choosing
<1>2. CASE BuildBatch
  <2>1. step.phase = "build" /\ OnlyStep /\ step.phase \in Choosing /\ step.chosen # <<>>
    BY <1>2 DEF BuildBatch, Phase, Choosing
  <2>2. step' = [step EXCEPT !.phase = "execute"]
    BY <1>2 DEF BuildBatch, Goto
  <2> QED BY <2>1, <2>2, NoTargetTyped, TurnsTo DEF Choosing
<1> QED BY <1>1, <1>2
-----------------------------------------------------------------------------
(* A pass that also changes blocks or requests, but takes no blocks from   *)
(* a request with a use.                                                   *)
LEMMA PassChanges ==
  ASSUME AsyncRunning, step.phase \in Choosing, Roster', UNCHANGED <<mode, failed, cacheVars>>,
         UNCHANGED Stepping, step' \in AsyncStepType, step'.phase \in Choosing, Batched', Aim',
         DOMAIN requests' = DOMAIN requests,
         \A i \in DOMAIN requests :
           /\ requests'[i].uses = requests[i].uses /\ requests'[i].samples = requests[i].samples
           /\ Held(i) /\ requests[i].uses > 0 => Keeps(i)
           /\ requests'[i].state = DRAINING => requests[i].state = DRAINING
  PROVE  AsyncRunning'
<1>1. ~failed /\ Whole /\ call.op = "none" /\ failed \in BOOLEAN
  BY PassAt, AsyncParts
<1>2. UNCHANGED <<queue, inflight, draining, failed>>
  BY DEF Stepping
<1>3. Waits' /\ Whole'
  BY <1>2, WaitsOn
<1>4. Outstanding'
  BY <1>1, <1>2, <1>3, AsyncParts, OutstandingKept
<1>5. Uncached'
  BY <1>1, AsyncParts DEF Uncached, cacheVars
<1> QED BY <1>3, <1>4, <1>5 DEF AsyncRunning

(* Room was made for a request that runs: it joins the batch.              *)
LEMMA TakesRoom ==
  ASSUME AsyncRunning, step.phase = "room", ~step.target.lost, step' = RoomTaken, UNCHANGED requests
  PROVE  /\ Batched' /\ Aim' /\ step' \in AsyncStepType /\ step'.phase \in {"decode", "build"}
         /\ Runs(step.target.index)
<1>1. PICK i : i = step.target.index
  OBVIOUS
<1>2. PICK n : n = step.target.count
  OBVIOUS
<1>3. PICK from : from = step.target.from
  OBVIOUS
<1>4. /\ i \in DOMAIN requests /\ i \notin ChosenSlots /\ (from = "decode" \/ from = "prefill")
      /\ from = "decode" => i \in step.considered
      /\ requests[i].state = (IF from = "decode" THEN DECODE ELSE PREFILL)
  <2>1. Aim
    BY AsyncParts
  <2>2. from \in {"none", "decode", "prefill"}
    BY <1>3, AsyncParts, AsyncStepAt
  <2> QED BY <1>1, <1>3, <2>1, <2>2 DEF Aim, Phase
<1>5. Runs(i) /\ i \in Nat /\ n \in Int
  <2>1. Runs(i)
    BY <1>4 DEF Runs
  <2>2. n \in Int
    BY <1>2, AsyncParts, AsyncStepAt
  <2> QED BY <2>1, <2>2, RunsHolds
<1>6. step \in AsyncStepType /\ step.done = 0 /\ step.phase \in Choosing \ {"build"}
  <2>1. step.phase \in Choosing \ {"build"}
    BY DEF Choosing
  <2> QED BY <2>1, PassAt
<1>7. PICK p : p = IF from = "decode" THEN "decode" ELSE "build"
  OBVIOUS
<1>8. step' = [step EXCEPT !.phase = p, !.chosen = Choose(i, n), !.target = NoTarget]
  BY <1>1, <1>2, <1>3, <1>7 DEF RoomTaken
<1>9. /\ step'.phase = p /\ step'.chosen = Choose(i, n) /\ step'.done = 0
      /\ step'.considered = step.considered /\ step'.target = NoTarget
  BY <1>6, <1>8 DEF AsyncStepType
<1>10. \A k \in DOMAIN step.chosen : step.chosen[k].index \in DOMAIN requests'
          /\ requests'[step.chosen[k].index].state = requests[step.chosen[k].index].state
  BY <1>6, PassAt DEF Runs
<1>11. Batched' /\ step'.chosen \in Seq([index : Nat, count : Int])
  <2>1. Runs(i)'
    BY <1>5 DEF Runs
  <2>2. p = "build" \/ (p = "decode" /\ requests'[i].state = DECODE /\ i \in step'.considered)
    BY <1>4, <1>7, <1>9
  <2> QED BY <1>4, <1>5, <1>6, <1>9, <1>10, <2>1, <2>2, NowBatched
<1>12. step' \in AsyncStepType
  <2>1. NoTarget \in Aims
    BY NoTargetTyped
  <2>2. p \in Choosing
    BY <1>7 DEF Choosing
  <2>3. PICK c \in Seq([index : Nat, count : Int]) : c = Choose(i, n)
    BY <1>9, <1>11
  <2> QED BY <1>6, <1>8, <2>1, <2>2, <2>3 DEF AsyncStepType, Aims
<1>13. Aim' /\ step'.phase \in {"decode", "build"}
  BY <1>7, <1>9 DEF Aim, Phase
<1> QED BY <1>1, <1>5, <1>11, <1>12, <1>13

(* A lifetime reservation has its room already.                            *)
LEMMA RoomOwnedAsync ==
  ASSUME AsyncRunning, UNCHANGED Stepping, RoomOwned
  PROVE  AsyncRunning'
<1>1. step.phase = "room" /\ mode.lifetime /\ step' = RoomTaken /\ OnlyStep /\ UNCHANGED requests
  BY DEF RoomOwned, Phase, OnlyStep
<1>2. ~step.target.lost
  <2>1. Aim /\ step.target.lost \in BOOLEAN
    BY AsyncParts, AsyncStepAt
  <2> QED BY <1>1, <2>1 DEF Aim, Phase
<1>3. Batched' /\ Aim' /\ step' \in AsyncStepType /\ step'.phase \in {"decode", "build"}
  BY <1>1, <1>2, TakesRoom
<1>4. step.phase \in Choosing /\ step'.phase \in Choosing \cup {"execute"}
  BY <1>1, <1>3 DEF Choosing
<1> QED BY <1>1, <1>3, <1>4, PassesOn

(* Reserving more blocks takes none from anybody.                          *)
LEMMA ReservesMore ==
  ASSUME AsyncRunning, step.phase \in Choosing, NEW i, Runs(i), NEW length \in Int,
         Reserve(requests[i].sequence, length), UNCHANGED <<requests, mode, nextTicket, failed, cacheVars>>
  PROVE  Roster' /\ \A j \in DOMAIN requests : Held(j) => Keeps(j)
<1>1. PICK s \in Slot : s = requests[i].sequence
  BY RunsHolds
<1>2. Reserve(s, length) /\ IInv /\ CacheInv(Tenant, Token) /\ Roster
  BY <1>1, AsyncParts
<1>3. length \in 0..MaxLength
  <2>1. lengths[s] <= length /\ length <= MaxLength /\ lengths[s] \in Nat
    BY <1>1, <1>2, RunsHolds DEF Reserve, Past
  <2> QED BY <2>1, GeometryAssumption
<1>4. IInv' /\ Registered' = Registered
  BY <1>2, <1>3, ReserveIInv, ReserveTakes
<1>5. CacheInv(Tenant, Token)'
  BY <1>2, <1>4, PassAt, Between
<1>6. UNCHANGED active
  BY <1>2 DEF Reserve
<1>7. \A q \in Slot : Admitting(q)' <=> Admitting(q)
  BY DEF Admitting, cacheVars
<1>8. Roster'
  BY <1>2, <1>5, <1>6, <1>7, AsyncParts, RosterStill
<1>9. \A q \in Slot : Range(tables[q]) \subseteq Range(tables'[q])
  <2>1. Range(tables[s]) \subseteq Range(tables'[s])
        /\ \A r \in Slot : r # s => Range(tables'[r]) = Range(tables[r])
    BY <1>2, <1>3, ReserveTakes
  <2> QED BY <2>1
<1>10. ASSUME NEW j \in DOMAIN requests, Held(j) PROVE Keeps(j)
  <2>1. requests[j].sequence \in Slot
    BY <1>2, <1>10, RosterResident
  <2> QED BY <1>9, <1>10, <2>1 DEF Keeps, Held
<1> QED BY <1>8, <1>10

(* Room that is free is reserved, and the request joins the batch.         *)
LEMMA RoomReserveAsync ==
  ASSUME AsyncRunning, UNCHANGED Stepping, RoomReserve
  PROVE  AsyncRunning'
<1>1. /\ step.phase = "room" /\ ~step.target.lost /\ step' = RoomTaken
      /\ Reserve(requests[step.target.index].sequence, WantedLength)
      /\ UNCHANGED <<cacheVars, mode, requests, nextTicket, account, failed>>
  BY DEF RoomReserve, Phase
<1>2. /\ Batched' /\ Aim' /\ step' \in AsyncStepType /\ step'.phase \in {"decode", "build"}
      /\ Runs(step.target.index)
  BY <1>1, TakesRoom
<1>3. PICK i : i = step.target.index
  OBVIOUS
<1>4. Runs(i)
  BY <1>2, <1>3
<1>5. PICK n \in Int : n = WantedLength
  <2>1. Past(i) \in Nat /\ step.target.count \in Int
    BY <1>4, RunsHolds, AsyncParts, AsyncStepAt
  <2> QED BY <1>3, <2>1 DEF WantedLength
<1>6. step.phase \in Choosing /\ step'.phase \in Choosing
  BY <1>1, <1>2 DEF Choosing
<1>7. Roster' /\ \A j \in DOMAIN requests : Held(j) => Keeps(j)
  BY <1>1, <1>3, <1>4, <1>5, <1>6, ReservesMore
<1> QED BY <1>1, <1>2, <1>6, <1>7, PassChanges

(* So are an admitted request's blocks.                                    *)
LEMMA AdmitBlocksAsync ==
  ASSUME AsyncRunning, UNCHANGED Stepping, AdmitBlocks
  PROVE  AsyncRunning'
<1>1. PICK i : i = step.target.index
  OBVIOUS
<1>2. PICK n : n = step.target.count
  OBVIOUS
<1>3. PICK length : length = IF mode.lifetime THEN PeakKVExtent(requests[i].prompt, requests[i].maximum)
                             ELSE n
  OBVIOUS
<1>4. /\ step.phase = "reserve" /\ step' = Admitted /\ Reserve(requests[i].sequence, length)
      /\ UNCHANGED <<cacheVars, mode, requests, nextTicket, account, failed>>
  BY <1>1, <1>2, <1>3 DEF AdmitBlocks, Phase
<1>5. i \in DOMAIN requests /\ i \notin ChosenSlots /\ requests[i].state = PREFILL
  BY <1>1, <1>4, AsyncParts DEF Aim, Phase
<1>6. Runs(i) /\ i \in Nat /\ n \in Int
  <2>1. Runs(i)
    BY <1>5 DEF Runs
  <2>2. n \in Int
    BY <1>2, AsyncParts, AsyncStepAt
  <2> QED BY <2>1, <2>2, RunsHolds
<1>7. length \in Int
  <2>1. requests[i].prompt \in Nat /\ requests[i].maximum \in Nat
    BY <1>5, AsyncParts, RequestAt
  <2> QED BY <1>3, <1>6, <2>1 DEF PeakKVExtent
<1>8. step \in AsyncStepType /\ step.done = 0 /\ step.phase \in Choosing \ {"build"}
  <2>1. step.phase \in Choosing \ {"build"}
    BY <1>4 DEF Choosing
  <2> QED BY <2>1, PassAt
<1>9. step' = [step EXCEPT !.phase = "build", !.target = NoTarget, !.chosen = Choose(i, n)]
  BY <1>1, <1>2, <1>4 DEF Admitted
<1>10. /\ step'.phase = "build" /\ step'.chosen = Choose(i, n) /\ step'.done = 0
       /\ step'.considered = step.considered /\ step'.target = NoTarget
  BY <1>8, <1>9 DEF AsyncStepType
<1>11. \A k \in DOMAIN step.chosen : step.chosen[k].index \in DOMAIN requests'
          /\ requests'[step.chosen[k].index].state = requests[step.chosen[k].index].state
  BY <1>4, <1>8, PassAt DEF Runs
<1>12. Batched' /\ step'.chosen \in Seq([index : Nat, count : Int])
  <2>1. Runs(i)'
    BY <1>4, <1>6 DEF Runs
  <2> QED BY <1>5, <1>6, <1>8, <1>10, <1>11, <2>1, NowBatched
<1>13. step' \in AsyncStepType
  <2>1. NoTarget \in Aims /\ "build" \in Choosing
    BY NoTargetTyped DEF Choosing
  <2>2. PICK c \in Seq([index : Nat, count : Int]) : c = Choose(i, n)
    BY <1>10, <1>12
  <2> QED BY <1>8, <1>9, <2>1, <2>2 DEF AsyncStepType, Aims
<1>14. Aim' /\ step'.phase \in Choosing /\ step.phase \in Choosing
  BY <1>8, <1>10 DEF Aim, Phase, Choosing
<1>15. Roster' /\ \A j \in DOMAIN requests : Held(j) => Keeps(j)
  BY <1>4, <1>6, <1>7, <1>14, ReservesMore
<1> QED BY <1>4, <1>12, <1>13, <1>14, <1>15, PassChanges
-----------------------------------------------------------------------------
(* A request gives up what it holds, whatever was outstanding for it.      *)
Drops(i, r) ==
  /\ requests' = [requests EXCEPT ![i] = r]
  /\ r \in RequestType /\ r.ticket = requests[i].ticket
  /\ r.sequence = 0 /\ r.state \in {WAITING, FINISHED}
  /\ IF Held(i) THEN Detach(requests[i].sequence) ELSE UNCHANGED vars
  /\ UNCHANGED <<cacheVars, mode, nextTicket>>

(* Nobody else loses anything.                                             *)
LEMMA DropsBlocks ==
  ASSUME Roster, call.op = "none", NEW i \in DOMAIN requests, NEW r, Drops(i, r), failed' \in BOOLEAN
  PROVE  /\ Roster' /\ DOMAIN requests' = DOMAIN requests /\ requests'[i] = r
         /\ \A j \in DOMAIN requests : j # i => requests'[j] = requests[j] /\ (Held(j) => Keeps(j))
<1>1. CacheInv(Tenant, Token) /\ IInv /\ call = Idle
  BY RosterIdle DEF Roster, CacheInv
<1>2. /\ requests' = [requests EXCEPT ![i] = r] /\ r \in RequestType /\ r.ticket = requests[i].ticket
      /\ r.sequence = 0 /\ r.state \in {WAITING, FINISHED}
      /\ UNCHANGED <<cacheVars, mode, nextTicket>> /\ UNCHANGED <<entries, call>>
      /\ IF Held(i) THEN Detach(requests[i].sequence) ELSE UNCHANGED vars
  BY DEF Drops, cacheVars
<1>3. call.op = "none" /\ call'.op = "none"
  BY <1>2
<1>4. Held(i) => requests[i].sequence \in Slot
  BY RosterResident
<1>5. /\ IInv' /\ Registered' = Registered
      /\ \A q \in Slot : active'[q] <=> active[q] /\ q # requests[i].sequence
      /\ \A q \in Slot : q # requests[i].sequence => tables'[q] = tables[q]
  <2>1. CASE Held(i)
    BY <1>1, <1>2, <1>4, <2>1, Released
  <2>2. CASE ~Held(i)
    <3>1. IInv' /\ Registered' = Registered
      BY <1>1, <1>2, <2>2, StillIInv
    <3> QED BY <1>2, <2>2, <3>1 DEF Held, vars
  <2> QED BY <2>1, <2>2
<1>6. CacheInv(Tenant, Token)'
  BY <1>1, <1>2, <1>5, Between
<1>7. Becomes(i, r)
  <2>1. 0 \notin Slot
    OBVIOUS
  <2> QED BY <1>2, <1>3, <1>5, <2>1 DEF Becomes, Admitting
<1>8. /\ DOMAIN requests' = DOMAIN requests /\ requests'[i] = r
      /\ \A j \in DOMAIN requests : j # i => requests'[j] = requests[j]
  BY <1>7, RosterUpdated
<1>9. Roster'
  BY <1>2, <1>3, <1>6, <1>7, RosterUpdate
<1>10. \A j \in DOMAIN requests : j # i /\ Held(j) =>
         requests[j].sequence \in Slot /\ requests[j].sequence # requests[i].sequence
  BY RosterResident DEF Roster, Owned
<1>11. \A j \in DOMAIN requests : j # i /\ Held(j) => Keeps(j)
  BY <1>5, <1>8, <1>10 DEF Keeps, Held
<1> QED BY <1>8, <1>9, <1>11

(* A request changes, but not in what it holds.                            *)
LEMMA HoldsStill ==
  ASSUME Roster, CacheInv(Tenant, Token)', call.op # "reserve", call'.op # "reserve",
         NEW i \in DOMAIN requests, NEW r \in RequestType,
         requests' = [requests EXCEPT ![i] = r],
         r.ticket = requests[i].ticket, r.sequence = requests[i].sequence,
         r.sequence # 0 <=> r.state \in {PREFILL, DECODE, DRAINING},
         UNCHANGED <<active, tables, nextTicket, mode>>, failed' \in BOOLEAN
  PROVE  /\ Roster' /\ DOMAIN requests' = DOMAIN requests /\ requests'[i] = r
         /\ \A j \in DOMAIN requests : j # i => requests'[j] = requests[j]
         /\ \A j \in DOMAIN requests : Held(j) => Keeps(j)
<1>1. Becomes(i, r)
  <2>1. \A s \in Slot : ~Admitting(s)
    BY DEF Admitting
  <2>2. requests[i].sequence \in Slot => active[requests[i].sequence]
    BY RosterResident DEF Held
  <2>3. r.sequence # 0 =>
          r.sequence = requests[i].sequence \/ ~active[r.sequence] \/ Admitting(r.sequence)
    OBVIOUS
  <2>4. \A s \in Slot : active'[s] <=> s = r.sequence \/ (active[s] /\ s # requests[i].sequence)
    BY <2>2
  <2> QED BY <2>1, <2>3, <2>4 DEF Becomes
<1>2. /\ DOMAIN requests' = DOMAIN requests /\ requests'[i] = r
      /\ \A j \in DOMAIN requests : j # i => requests'[j] = requests[j]
      /\ \A j \in DOMAIN requests : requests'[j].ticket = requests[j].ticket
  BY <1>1, RosterUpdated
<1>3. Roster'
  BY <1>1, RosterUpdate
<1>4. \A j \in DOMAIN requests : requests'[j].sequence = requests[j].sequence
  BY <1>2
<1>5. \A j \in DOMAIN requests : Held(j) => Keeps(j)
  BY <1>2, <1>4 DEF Keeps, Held
<1> QED BY <1>2, <1>3, <1>5

(* The newest holder not selected makes room: it has no use outstanding.   *)
LEMMA RoomPreemptAsync ==
  ASSUME AsyncRunning, UNCHANGED Stepping, RoomPreempt
  PROVE  AsyncRunning'
<1>1. PICK i \in Newest(Preemptible) :
       /\ Detach(requests[i].sequence)
       /\ requests' = [requests EXCEPT ![i].sequence = 0, ![i].state = WAITING]
       /\ step' = [step EXCEPT !.target.lost = (i = step.target.index)]
  BY DEF RoomPreempt
<1>2. /\ step.phase = "room" /\ ~mode.lifetime /\ ~step.target.lost
      /\ UNCHANGED <<cacheVars, mode, nextTicket, account, failed>>
  BY DEF RoomPreempt, Phase
<1>3. step.phase \in Choosing \ {"build"} /\ step.phase \in Choosing
  BY <1>2 DEF Choosing
<1>4. /\ ~failed /\ failed \in BOOLEAN /\ call.op = "none" /\ step \in AsyncStepType /\ step.done = 0
      /\ Roster /\ requests \in Seq(RequestType) /\ Outstanding /\ Owned
  BY <1>3, PassAt, AsyncParts
<1>5. i \in DOMAIN requests /\ Held(i) /\ requests[i].uses = 0 /\ i \notin ChosenSlots
  BY DEF Newest, Preemptible
<1>6. PICK q : q = requests[i]
  OBVIOUS
<1>7. PICK r : r = With(q, q.tokens, q.prompt, q.maximum, WAITING, 0, q.abort)
  OBVIOUS
<1>8. q \in RequestType
  BY <1>4, <1>5, <1>6, RequestAt
<1>9. 0 \in 0..MaxSlots
  BY GeometryAssumption
<1>10. /\ r \in RequestType /\ r.ticket = q.ticket /\ r.state = WAITING /\ r.sequence = 0
       /\ r.uses = q.uses /\ r.samples = q.samples
  <2>1. q.tokens \in Seq(Token) /\ q.prompt \in Nat /\ q.maximum \in Nat /\ q.abort \in BOOLEAN
    BY <1>8 DEF RequestType
  <2>2. r \in RequestType
    BY <1>7, <1>8, <1>9, <2>1, WithTyped
  <2> QED BY <1>7, <2>2 DEF With
<1>11. requests' = [requests EXCEPT ![i] = r]
  <2>1. r = [[q EXCEPT !.sequence = 0] EXCEPT !.state = WAITING]
    BY <1>7, <1>8, <1>9, WithChanges
  <2> QED BY <1>1, <1>6, <2>1
<1>12. Drops(i, r)
  BY <1>1, <1>2, <1>5, <1>6, <1>10, <1>11 DEF Drops
<1>13. /\ Roster' /\ DOMAIN requests' = DOMAIN requests /\ requests'[i] = r
       /\ \A j \in DOMAIN requests : j # i => requests'[j] = requests[j] /\ (Held(j) => Keeps(j))
  <2>1. failed' \in BOOLEAN
    BY <1>2, <1>4
  <2> QED BY <1>4, <1>5, <1>12, <2>1, DropsBlocks
<1>14. PICK t : t = step.target.index
  OBVIOUS
<1>15. PICK lost \in BOOLEAN : lost = (i = t)
  OBVIOUS
<1>16. PICK x : x = [step.target EXCEPT !.lost = lost]
  OBVIOUS
<1>17. /\ x \in Aims /\ x.index = t /\ x.from = step.target.from /\ x.lost = lost
  <2>1. step.target \in Aims
    BY <1>4 DEF AsyncStepType, Aims
  <2> QED BY <1>14, <1>16, <2>1 DEF Aims
<1>18. step' = [step EXCEPT !.target = x]
  BY <1>1, <1>14, <1>15, <1>16
<1>19. /\ step' \in AsyncStepType /\ step'.phase = "room" /\ step'.chosen = step.chosen
       /\ step'.considered = step.considered /\ step'.done = 0 /\ step'.target = x
  BY <1>2, <1>4, <1>17, <1>18 DEF AsyncStepType, Aims
<1>20. \A k \in DOMAIN step.chosen : step.chosen[k].index \in DOMAIN requests'
         /\ requests'[step.chosen[k].index].state = requests[step.chosen[k].index].state
  <2>1. \A k \in DOMAIN step.chosen : step.chosen[k].index \in DOMAIN requests /\ step.chosen[k].index # i
    BY <1>3, <1>5, PassAt DEF Runs, ChosenSlots
  <2> QED BY <1>13, <2>1
<1>21. Batched'
  BY <1>2, <1>3, <1>19, <1>20, StillBatched
<1>22. Aim'
  <2>1. /\ t \in DOMAIN requests /\ t \notin ChosenSlots /\ step.target.from # "none"
        /\ step.target.from = "decode" => t \in step.considered
        /\ requests[t].state = (IF step.target.from = "decode" THEN DECODE ELSE PREFILL)
    BY <1>2, <1>14, AsyncParts DEF Aim, Phase
  <2>2. t \notin ChosenSlots'
    BY <1>19, <2>1 DEF ChosenSlots
  <2>3. ~lost => requests'[t] = requests[t]
    BY <1>13, <1>15, <2>1
  <2>4. x.index \in DOMAIN requests' /\ x.from # "none" /\ (x.from = "decode" => x.index \in step'.considered)
    BY <1>13, <1>17, <1>19, <2>1
  <2>5. IF x.lost THEN ~mode'.lifetime
        ELSE requests'[x.index].state = (IF x.from = "decode" THEN DECODE ELSE PREFILL)
    BY <1>2, <1>17, <2>1, <2>3
  <2> QED BY <1>17, <1>19, <2>2, <2>4, <2>5 DEF Aim, Phase
<1>23. \A j \in DOMAIN requests :
         /\ requests'[j].uses = requests[j].uses /\ requests'[j].samples = requests[j].samples
         /\ Held(j) /\ requests[j].uses > 0 => Keeps(j)
         /\ requests'[j].state = DRAINING => requests[j].state = DRAINING
  BY <1>5, <1>6, <1>10, <1>13
<1>24. step'.phase \in Choosing
  BY <1>19 DEF Choosing
<1> QED BY <1>2, <1>3, <1>13, <1>19, <1>21, <1>22, <1>23, <1>24, PassChanges

(* What would be admitted is a number of rows.                             *)
LEMMA AdmissionTyped ==
  ASSUME AsyncRunning, step.phase \in Choosing, NEW i \in DOMAIN requests
  PROVE  AdmissionCount(i, <<>>) \in Int
<1>1. PICK cached : cached = <<>>
  OBVIOUS
<1>2. cached \in Seq(Block)
  BY <1>1
<1>3. PICK past : past = Len(cached) * BlockSize
  OBVIOUS
<1>4. past \in Nat
  <2>1. Len(cached) \in Nat /\ BlockSize \in Nat
    BY <1>2, GeometryAssumption
  <2> QED BY <1>3, <2>1
<1>5. RowsLeft \in Int /\ History(i) \in Nat /\ PrefillCap \in Nat
  BY PassAt, AsyncParts, RequestAt, EngineAssumption DEF RowsLeft
<1>6. PICK count \in Int : count = PrefillCount(i, past)
  BY <1>4, <1>5 DEF PrefillCount, Smaller
<1>7. PICK room \in Int : room = Available(cached) * BlockSize
  <2>1. Len(free) \in Nat
    BY AsyncParts DEF IInv, TypeOK
  <2>2. Reclaimable(Range(cached)) \in Nat
    BY AsyncParts, VictimExists DEF CacheInv
  <2>3. Margin \in Int
    <3>1. IsFiniteSet(Block)
      BY GeometryAssumption, Zenon
    <3>2. Watermark \in 0..Cardinality(Block)
      BY EngineAssumption, Zenon
    <3>3. Cardinality(Block) \in Nat
      BY <3>1, FS_CardinalityType
    <3> QED BY <3>2, <3>3 DEF Margin
  <2>4. PICK a \in Nat : a = Len(free)
    BY <2>1
  <2>5. PICK b \in Nat : b = Reclaimable(Range(cached))
    BY <2>2
  <2>6. PICK m \in Int : m = Margin
    BY <2>3
  <2>7. Available(cached) = (IF a + b - m >= 0 THEN a + b - m ELSE 0)
    BY <2>4, <2>5, <2>6 DEF Available, Larger
  <2>8. Available(cached) \in Int
    BY <2>4, <2>5, <2>6, <2>7
  <2>9. BlockSize \in Nat
    BY GeometryAssumption
  <2> QED BY <2>8, <2>9
<1>8. AdmissionCount(i, cached) \in Int
  BY <1>3, <1>6, <1>7 DEF AdmissionCount, Smaller
<1> QED BY <1>1, <1>8

(* An admitted request gets its sequence: it has no use outstanding.       *)
LEMMA AdmitPlainAsync ==
  ASSUME AsyncRunning, UNCHANGED Stepping, AdmitPlain
  PROVE  AsyncRunning'
<1>1. PICK i \in NextWaiting, s \in Slot :
        /\ Attach(s, <<>>)
        /\ requests' = [requests EXCEPT ![i].sequence = s, ![i].state = PREFILL]
        /\ step' = [step EXCEPT !.phase = "reserve", !.target =
             [NoTarget EXCEPT !.index = i, !.count = AdmissionCount(i, <<>>)]]
  BY DEF AdmitPlain
<1>2. /\ step.phase = "admit" /\ UNCHANGED <<cacheVars, mode, nextTicket, account, failed>>
      /\ UNCHANGED <<entries, call>>
  BY DEF AdmitPlain, Phase, cacheVars
<1>3. step.phase \in Choosing \ {"build"} /\ step.phase \in Choosing
  BY <1>2 DEF Choosing
<1>4. /\ ~failed /\ failed \in BOOLEAN /\ call = Idle /\ call.op = "none" /\ call'.op = "none"
      /\ step \in AsyncStepType /\ step.done = 0
      /\ Roster /\ requests \in Seq(RequestType) /\ Owned /\ IInv /\ CacheInv(Tenant, Token)
  BY <1>2, <1>3, PassAt, AsyncParts
<1>5. i \in DOMAIN requests /\ requests[i].state = WAITING /\ ~Held(i) /\ i \in Nat
  <2>1. i \in DOMAIN requests /\ requests[i].state = WAITING
    BY OldestIs DEF NextWaiting
  <2> QED BY <1>4, <2>1, RequestAt DEF Owned
<1>6. PICK q : q = requests[i]
  OBVIOUS
<1>7. PICK r : r = With(q, q.tokens, q.prompt, q.maximum, PREFILL, s, q.abort)
  OBVIOUS
<1>8. q \in RequestType /\ q.sequence = 0 /\ s \in 0..MaxSlots /\ s # 0
  BY <1>4, <1>5, <1>6, RequestAt, GeometryAssumption DEF Held
<1>9. /\ r \in RequestType /\ r.ticket = q.ticket /\ r.state = PREFILL /\ r.sequence = s
      /\ r.uses = q.uses /\ r.samples = q.samples
  <2>1. q.tokens \in Seq(Token) /\ q.prompt \in Nat /\ q.maximum \in Nat /\ q.abort \in BOOLEAN
    BY <1>8 DEF RequestType
  <2>2. r \in RequestType
    BY <1>7, <1>8, <2>1, WithTyped
  <2> QED BY <1>7, <2>2 DEF With
<1>10. requests' = [requests EXCEPT ![i] = r]
  <2>1. r = [[q EXCEPT !.sequence = s] EXCEPT !.state = PREFILL]
    BY <1>7, <1>8, WithChanges
  <2> QED BY <1>1, <1>6, <2>1
<1>11. /\ IInv' /\ Registered' = Registered /\ ~active[s]
       /\ \A p \in Slot : /\ active'[p] <=> p = s \/ active[p]
                          /\ p # s => tables'[p] = tables[p]
  BY <1>1, <1>4, EmptySequence
<1>12. CacheInv(Tenant, Token)'
  BY <1>2, <1>4, <1>11, Between
<1>13. Becomes(i, r)
  <2>1. \A p \in Slot : p # requests[i].sequence
    BY <1>6, <1>8
  <2>2. \A p \in Slot : /\ active'[p] <=> p = r.sequence \/ (active[p] /\ p # requests[i].sequence)
                        /\ Admitting(p) => p = r.sequence
    BY <1>4, <1>9, <1>11, <2>1 DEF Admitting
  <2> QED BY <1>6, <1>8, <1>9, <1>10, <1>11, <2>2 DEF Becomes
<1>14. /\ DOMAIN requests' = DOMAIN requests /\ requests'[i] = r
       /\ \A j \in DOMAIN requests : j # i => requests'[j] = requests[j]
  BY <1>4, <1>5, <1>13, RosterUpdated
<1>15. Roster'
  <2>1. call'.op # "reserve" /\ failed' \in BOOLEAN
    BY <1>2, <1>4
  <2> QED BY <1>2, <1>4, <1>5, <1>12, <1>13, <2>1, RosterUpdate
<1>16. ASSUME NEW j \in DOMAIN requests, Held(j) PROVE Keeps(j) /\ j # i
  <2>1. j # i
    BY <1>5, <1>16
  <2>2. PICK p \in Slot : p = requests[j].sequence /\ active[p]
    BY <1>4, <1>16, RosterResident
  <2>3. p # s /\ tables'[p] = tables[p]
    BY <1>11, <2>2
  <2> QED BY <1>14, <1>16, <2>1, <2>2, <2>3 DEF Keeps, Held
<1>17. PICK n \in Int : n = AdmissionCount(i, <<>>)
  BY <1>3, <1>5, AdmissionTyped
<1>18. PICK x : x = [[NoTarget EXCEPT !.index = i] EXCEPT !.count = n]
  OBVIOUS
<1>19. x \in Aims /\ x.index = i
  <2>1. PICK z : z = NoTarget
    OBVIOUS
  <2>2. z \in Aims
    BY <2>1, NoTargetTyped
  <2> QED BY <1>5, <1>18, <2>1, <2>2 DEF Aims
<1>20. step' = [step EXCEPT !.phase = "reserve", !.target = x]
  BY <1>1, <1>17, <1>18
<1>21. /\ step' \in AsyncStepType /\ step'.phase = "reserve" /\ step'.chosen = step.chosen
       /\ step'.considered = step.considered /\ step'.done = 0 /\ step'.target = x
  BY <1>4, <1>19, <1>20 DEF AsyncStepType, Aims, Choosing
<1>22. \A k \in DOMAIN step.chosen :
         /\ step.chosen[k].index \in DOMAIN requests /\ step.chosen[k].index # i
         /\ requests'[step.chosen[k].index].state = requests[step.chosen[k].index].state
  <2>1. \A k \in DOMAIN step.chosen : step.chosen[k].index \in DOMAIN requests /\ step.chosen[k].index # i
    BY <1>3, <1>5, PassAt DEF Runs
  <2> QED BY <1>14, <2>1
<1>23. Batched'
  <2>1. step'.phase \in Choosing /\ step.considered \subseteq step'.considered
    BY <1>21 DEF Choosing
  <2> QED BY <1>3, <1>14, <1>21, <1>22, <2>1, StillBatched
<1>24. Aim'
  <2>1. i \notin ChosenSlots'
    BY <1>21, <1>22 DEF ChosenSlots
  <2> QED BY <1>5, <1>9, <1>14, <1>19, <1>21, <2>1 DEF Aim, Phase
<1>25. \A j \in DOMAIN requests :
         /\ requests'[j].uses = requests[j].uses /\ requests'[j].samples = requests[j].samples
         /\ Held(j) /\ requests[j].uses > 0 => Keeps(j)
         /\ requests'[j].state = DRAINING => requests[j].state = DRAINING
  BY <1>6, <1>9, <1>14, <1>16
<1>26. step'.phase \in Choosing
  BY <1>21 DEF Choosing
<1> QED BY <1>2, <1>3, <1>14, <1>15, <1>21, <1>23, <1>24, <1>25, <1>26, PassChanges

(* A whole pass; prefix caching, and its admissions, are out of the way.   *)
LEMMA ScheduleAsync ==
  ASSUME AsyncRunning, UNCHANGED Stepping, Schedule
  PROVE  AsyncRunning'
<1>1. ~mode.prefix /\ call.op \in {"none", "clear"}
  BY AsyncParts DEF Uncached
<1>2. CASE RoomReclaim \/ AdmitBegin
  BY <1>1, <1>2 DEF RoomReclaim, AdmitBegin, IdleVictims
<1>3. CASE AdmitReclaim \/ AdmitSequence \/ AdmitChoose
  BY <1>1, <1>3 DEF AdmitReclaim, AdmitSequence, AdmitChoose, AdmitAttach, AdmitReserve
<1>4. CASE DecodePick \/ DecodeDone
  BY <1>4, DecodesOK
<1>5. CASE PrefillPick \/ PrefillNone \/ PrefillSkip \/ AdmitRefuse
  BY <1>5, PrefillsOK
<1>6. CASE RoomOwned
  BY <1>6, RoomOwnedAsync
<1>7. CASE RoomPreempt
  BY <1>7, RoomPreemptAsync
<1>8. CASE RoomReserve
  BY <1>8, RoomReserveAsync
<1>9. CASE RoomLost
  BY <1>9, RoomStepsOK
<1>10. CASE AdmitPlain
  BY <1>10, AdmitPlainAsync
<1>11. CASE AdmitBlocks
  BY <1>11, AdmitBlocksAsync
<1> QED BY <1>2, <1>3, <1>4, <1>5, <1>6, <1>7, <1>8, <1>9, <1>10, <1>11 DEF Schedule
-----------------------------------------------------------------------------
(* A request that ends keeps its blocks while it has uses, and gives them  *)
(* up otherwise.                                                           *)
LEMMA ClosesAsync ==
  ASSUME AsyncRunning, step.phase \in {"boundary", "failing"}, NEW i \in DOMAIN requests,
         CloseRequest(i), UNCHANGED <<step, failed, cacheVars, mode, nextTicket>>, UNCHANGED Stepping
  PROVE  AsyncRunning'
<1>1. /\ Roster /\ CacheInv(Tenant, Token) /\ requests \in Seq(RequestType) /\ Outstanding /\ Waits
      /\ Batched /\ Uncached /\ failed \in BOOLEAN /\ step \in AsyncStepType
  BY AsyncParts
<1>2. step.phase \in Still \ {"retire"} /\ step.phase \in Still /\ step.phase # "idle"
  BY DEF Still
<1>3. call.op = "none" /\ step.chosen = <<>> /\ step.done = 0
  BY <1>1, <1>2 DEF Uncached, Phase, Batched
<1>4. UNCHANGED <<queue, inflight, draining>> /\ UNCHANGED <<entries, call>>
  BY DEF Stepping, cacheVars
<1>5. ~(failed /\ queue = <<>> /\ inflight # <<>>)
  BY <1>1 DEF Waits, Phase
<1>6. PICK q : q = requests[i]
  OBVIOUS
<1>7. q \in RequestType /\ q.ticket \in Nat /\ q.uses \in Nat
  BY <1>1, <1>6, RequestAt
<1>8. /\ q.tokens \in Seq(Token) /\ q.prompt \in Nat /\ q.maximum \in Nat /\ q.abort \in BOOLEAN
      /\ q.sequence \in 0..MaxSlots
  BY <1>7 DEF RequestType
<1>9. /\ Roster' /\ DOMAIN requests' = DOMAIN requests
      /\ \A j \in DOMAIN requests :
           /\ requests'[j].uses = requests[j].uses /\ requests'[j].samples = requests[j].samples
           /\ Held(j) /\ requests[j].uses > 0 => Keeps(j)
           /\ requests'[j].state = DRAINING => requests'[j].uses > 0 \/ requests[j].state = DRAINING
  <2>1. CASE q.uses > 0
    <3>1. requests' = [requests EXCEPT ![i].state = DRAINING] /\ UNCHANGED vars
      BY <1>6, <2>1 DEF CloseRequest
    <3>2. Held(i)
      BY <1>1, <1>6, <2>1 DEF Outstanding, Accounted, Grounded
    <3>3. PICK r : r = With(q, q.tokens, q.prompt, q.maximum, DRAINING, q.sequence, q.abort)
      OBVIOUS
    <3>4. r = [q EXCEPT !.state = DRAINING]
      BY <1>7, <3>3 DEF RequestType, With
    <3>5. r \in RequestType
      BY <1>7, <1>8, <3>3, WithTyped
    <3>6. /\ r.ticket = q.ticket /\ r.state = DRAINING /\ r.sequence = q.sequence
          /\ r.uses = q.uses /\ r.samples = q.samples
      BY <3>3 DEF With
    <3>7. requests' = [requests EXCEPT ![i] = r]
      BY <1>6, <3>1, <3>4
    <3>8. CacheInv(Tenant, Token)'
      BY <1>1, <3>1, StillCacheInv
    <3>9. UNCHANGED <<active, tables, nextTicket, mode>> /\ failed' \in BOOLEAN
          /\ call.op # "reserve" /\ call'.op # "reserve"
      BY <1>1, <1>3, <1>4, <3>1 DEF vars
    <3>10. r.sequence # 0 <=> r.state \in {PREFILL, DECODE, DRAINING}
      BY <1>6, <3>2, <3>6 DEF Held
    <3>11. /\ Roster' /\ DOMAIN requests' = DOMAIN requests /\ requests'[i] = r
           /\ \A j \in DOMAIN requests : j # i => requests'[j] = requests[j]
           /\ \A j \in DOMAIN requests : Held(j) => Keeps(j)
      BY <1>1, <1>6, <3>5, <3>6, <3>7, <3>8, <3>9, <3>10, HoldsStill
    <3> QED BY <1>6, <2>1, <3>6, <3>11
  <2>2. CASE ~(q.uses > 0)
    <3>1. requests' = [requests EXCEPT ![i] = Retired(@)] /\ ReleaseHeld(i)
      BY <1>6, <2>2 DEF CloseRequest
    <3>2. PICK r : r = Retired(q)
      OBVIOUS
    <3>3. r = With(q, <<>>, 0, 0, FINISHED, 0, FALSE)
      BY <1>7, <3>2, WithChanges
    <3>4. r \in RequestType
      <4>1. PICK e : e = <<>>
        OBVIOUS
      <4>2. e \in Seq(Token) /\ 0 \in 0..MaxSlots
        BY <4>1, GeometryAssumption
      <4>3. PICK b : b = FALSE
        OBVIOUS
      <4>4. b \in BOOLEAN /\ 0 \in Nat
        BY <4>3
      <4>5. With(q, e, 0, 0, FINISHED, 0, b) \in RequestType
        BY <1>7, <4>2, <4>4, WithTyped
      <4> QED BY <3>3, <4>1, <4>3, <4>5
    <3>5. /\ r.ticket = q.ticket /\ r.state = FINISHED /\ r.sequence = 0
          /\ r.uses = q.uses /\ r.samples = q.samples
      BY <3>3 DEF With
    <3>6. Drops(i, r)
      BY <1>6, <3>1, <3>2, <3>4, <3>5 DEF Drops, ReleaseHeld
    <3>7. /\ Roster' /\ DOMAIN requests' = DOMAIN requests /\ requests'[i] = r
          /\ \A j \in DOMAIN requests : j # i => requests'[j] = requests[j] /\ (Held(j) => Keeps(j))
      BY <1>1, <1>3, <3>6, DropsBlocks
    <3> QED BY <1>6, <2>2, <3>5, <3>7
  <2> QED BY <2>1, <2>2
<1>10. Whole /\ Whole'
  BY <1>2, <1>3 DEF Whole
<1>11. Outstanding'
  BY <1>1, <1>4, <1>5, <1>9, <1>10, OutstandingKept
<1>12. Batched' /\ Aim'
  BY <1>2, <1>3, NothingChosen
<1>13. Waits'
  BY <1>1, <1>4 DEF Waits, Phase
<1>14. Uncached'
  BY <1>1, <1>4 DEF Uncached, Phase
<1> QED BY <1>1, <1>9, <1>11, <1>12, <1>13, <1>14 DEF AsyncRunning

(* At the boundary, and when a failed engine winds up.                     *)
LEMMA EndingsOK ==
  ASSUME AsyncRunning, UNCHANGED Stepping, BoundaryFinish \/ AsyncFailRequest
  PROVE  AsyncRunning'
<1>1. CASE BoundaryFinish
  <2>1. PICK i \in Due : Finish(i, IF requests[i].abort THEN "abort" ELSE "length")
    BY <1>1 DEF BoundaryFinish
  <2>2. i \in DOMAIN requests /\ CloseRequest(i) /\ UNCHANGED <<step, failed, cacheVars, mode, nextTicket>>
    BY <1>1, <2>1 DEF BoundaryFinish, Finish, Due
  <2>3. step.phase \in {"boundary", "failing"}
    BY <1>1 DEF BoundaryFinish, Phase
  <2> QED BY <2>2, <2>3, ClosesAsync
<1>2. CASE AsyncFailRequest
  <2>1. PICK i \in LiveSlots : CloseRequest(i) /\ UNCHANGED <<cacheVars, mode, nextTicket>>
    BY <1>2 DEF AsyncFailRequest, ReleaseDrained, Finish
  <2>2. i \in DOMAIN requests /\ UNCHANGED <<step, failed, cacheVars, mode, nextTicket>>
    BY <1>2, <2>1 DEF AsyncFailRequest, LiveSlots
  <2>3. step.phase \in {"boundary", "failing"}
    BY <1>2 DEF AsyncFailRequest, Phase
  <2> QED BY <2>1, <2>2, <2>3, ClosesAsync
<1> QED BY <1>1, <1>2
-----------------------------------------------------------------------------
(* The host calls between steps, and takes nothing from a request.         *)
LEMMA HostKeeps ==
  ASSUME AsyncRunning, step.phase = "idle", UNCHANGED <<step, failed>>, UNCHANGED Stepping,
         Roster', Uncached', DOMAIN requests \subseteq DOMAIN requests',
         \A i \in DOMAIN requests :
           /\ requests'[i].uses = requests[i].uses /\ requests'[i].samples = requests[i].samples
           /\ Held(i) => Keeps(i),
         \A i \in DOMAIN requests' :
           /\ i \notin DOMAIN requests => requests'[i].uses = 0 /\ requests'[i].samples = 0
           /\ requests'[i].state = DRAINING =>
                requests'[i].uses > 0 \/ (i \in DOMAIN requests /\ requests[i].state = DRAINING)
  PROVE  AsyncRunning'
<1>1. Outstanding /\ Waits /\ Batched /\ failed \in BOOLEAN /\ step \in AsyncStepType
  BY AsyncParts
<1>2. step.phase \in Still \ {"retire"} /\ step.phase \in Still
  BY DEF Still
<1>3. step.chosen = <<>> /\ step.done = 0
  BY <1>1, <1>2 DEF Batched
<1>4. UNCHANGED <<queue, inflight, draining>>
  BY DEF Stepping
<1>5. Whole /\ Whole'
  BY <1>2, <1>3 DEF Whole
<1>6. Outstanding'
  BY <1>1, <1>4, <1>5, OutstandingKept
<1>7. Batched' /\ Aim'
  BY <1>2, <1>3, NothingChosen
<1>8. Waits'
  BY <1>1, <1>4 DEF Waits, Phase
<1> QED BY <1>1, <1>6, <1>7, <1>8 DEF AsyncRunning

(* An abort is only noted.                                                 *)
LEMMA AbortAsync ==
  ASSUME AsyncRunning, UNCHANGED Stepping, NEW id, Abort(id)
  PROVE  AsyncRunning'
<1>1. PICK i \in DOMAIN requests : requests' = [requests EXCEPT ![i].abort = TRUE]
  BY DEF Abort
<1>2. /\ step.phase = "idle" /\ call = Idle /\ call.op = "none" /\ call'.op = "none"
      /\ UNCHANGED <<vars, cacheVars, mode, nextTicket, step, failed>>
      /\ UNCHANGED <<entries, call, active, tables>>
  BY DEF Abort, Idling, Phase, Idle, vars, cacheVars
<1>3. /\ Roster /\ CacheInv(Tenant, Token) /\ requests \in Seq(RequestType) /\ failed \in BOOLEAN
      /\ Uncached
  BY AsyncParts
<1>4. PICK q : q = requests[i]
  OBVIOUS
<1>5. PICK r : r = With(q, q.tokens, q.prompt, q.maximum, q.state, q.sequence, TRUE)
  OBVIOUS
<1>6. q \in RequestType
  BY <1>3, <1>4, RequestAt
<1>7. /\ r \in RequestType /\ r.ticket = q.ticket /\ r.state = q.state /\ r.sequence = q.sequence
      /\ r.uses = q.uses /\ r.samples = q.samples
  <2>1. /\ q.tokens \in Seq(Token) /\ q.prompt \in Nat /\ q.maximum \in Nat
        /\ q.state \in {WAITING, PREFILL, DECODE, FINISHED, DRAINING} /\ q.sequence \in 0..MaxSlots
    BY <1>6 DEF RequestType
  <2>2. r \in RequestType
    BY <1>5, <1>6, <2>1, WithTyped
  <2> QED BY <1>5, <1>6, <2>2 DEF With
<1>8. requests' = [requests EXCEPT ![i] = r]
  BY <1>1, <1>4, <1>5, <1>6, WithChanges
<1>9. CacheInv(Tenant, Token)'
  BY <1>2, <1>3, StillCacheInv
<1>10. r.sequence # 0 <=> r.state \in {PREFILL, DECODE, DRAINING}
  BY <1>4, <1>7, AsyncParts DEF Owned, Held
<1>11. /\ Roster' /\ DOMAIN requests' = DOMAIN requests /\ requests'[i] = r
       /\ \A j \in DOMAIN requests : j # i => requests'[j] = requests[j]
       /\ \A j \in DOMAIN requests : Held(j) => Keeps(j)
  <2>1. call.op # "reserve" /\ call'.op # "reserve" /\ failed' \in BOOLEAN
    BY <1>2, <1>3
  <2> QED BY <1>2, <1>3, <1>4, <1>7, <1>8, <1>9, <1>10, <2>1, HoldsStill
<1>12. Uncached'
  BY <1>2, <1>3 DEF Uncached, Phase
<1>13. \A j \in DOMAIN requests :
         /\ requests'[j].uses = requests[j].uses /\ requests'[j].samples = requests[j].samples
         /\ requests'[j].state = requests[j].state
  BY <1>4, <1>7, <1>11
<1> QED BY <1>2, <1>11, <1>12, <1>13, HostKeeps

(* A request without a use has no selected token outstanding either.       *)
LEMMA NoSample ==
  ASSUME Outstanding, ~failed, NEW i \in DOMAIN requests, requests[i].uses = 0
  PROVE  requests[i].samples = 0
<1>1. requests[i].uses = UsesOf(i) /\ requests[i].samples = SamplesOf(i)
  BY DEF Outstanding, Accounted
<1>2. ~(1 \in DOMAIN queue /\ Uses(1, i)) /\ ~(2 \in DOMAIN queue /\ Uses(2, i))
  BY <1>1 DEF UsesOf, One
<1>3. ~(1 \in DOMAIN queue /\ Selects(1, i)) /\ ~(2 \in DOMAIN queue /\ Selects(2, i))
  BY <1>2 DEF Uses, Selects
<1> QED BY <1>1, <1>3 DEF SamplesOf, One

(* A new request has nothing outstanding, nor had the one it replaces.     *)
LEMMA AddAsync ==
  ASSUME AsyncRunning, UNCHANGED Stepping, NEW id \in Ids, NEW prompt \in Prompts,
         NEW maximum \in Outputs, NEW salt \in Salts, Add(id, prompt, maximum, salt)
  PROVE  AsyncRunning'
<1>1. PICK r : r = [id |-> id, ticket |-> nextTicket, tokens |-> prompt, prompt |-> Len(prompt),
                    maximum |-> maximum, salt |-> salt, state |-> WAITING, sequence |-> 0,
                    abort |-> FALSE, uses |-> 0, samples |-> 0]
  OBVIOUS
<1>2. /\ step.phase = "idle" /\ call = Idle /\ call.op = "none" /\ call'.op = "none" /\ ~failed
      /\ nextTicket' = nextTicket + 1
      /\ UNCHANGED <<vars, cacheVars, mode, step, failed>>
      /\ UNCHANGED <<entries, call, active, tables>>
  BY DEF Add, Idling, Phase, Idle, vars, cacheVars
<1>3. PlaceRequest(r)
  BY <1>1 DEF Add
<1>4. /\ Roster /\ CacheInv(Tenant, Token) /\ requests \in Seq(RequestType) /\ failed \in BOOLEAN
      /\ Uncached /\ Tickets /\ Owned /\ Outstanding /\ mode \in Modes
  BY AsyncParts
<1>5. prompt \in Seq(Token) /\ maximum \in Nat /\ nextTicket \in Nat /\ Len(prompt) \in Nat
  BY <1>4, PromptIsTokens, HostAssumption DEF Tickets
<1>6. /\ r \in RequestType /\ r.ticket = nextTicket /\ r.state = WAITING /\ r.sequence = 0
      /\ r.uses = 0 /\ r.samples = 0
  <2>1. 0 \in 0..MaxSlots
    BY GeometryAssumption
  <2> QED BY <1>1, <1>5, <2>1 DEF RequestType, Tenant
<1>7. PICK i : Placed(i, r)
  BY <1>3, <1>4, <1>6, RequestPlaced
<1>8. /\ requests' \in Seq(RequestType) /\ i \in DOMAIN requests' /\ requests'[i] = r
      /\ DOMAIN requests \subseteq DOMAIN requests'
      /\ \A j \in DOMAIN requests' : j # i => j \in DOMAIN requests /\ requests'[j] = requests[j]
      /\ i \in DOMAIN requests => ~Held(i)
  BY <1>4, <1>7 DEF Placed, Live, Owned
<1>9. i \in DOMAIN requests => requests[i].uses = 0 /\ requests[i].samples = 0
  <2>1. SUFFICES ASSUME i \in DOMAIN requests PROVE requests[i].uses = 0 /\ requests[i].samples = 0
    OBVIOUS
  <2>2. ~(requests[i].uses > 0)
    BY <1>2, <1>4, <1>8, <2>1 DEF Outstanding, Accounted
  <2>3. requests[i].uses \in Nat
    BY <1>4, <2>1, RequestAt
  <2> QED BY <1>2, <1>4, <2>1, <2>2, <2>3, NoSample
<1>10. CacheInv(Tenant, Token)'
  BY <1>2, <1>4, StillCacheInv
<1>11. \A j \in DOMAIN requests' : Held(j)' => j # i /\ j \in DOMAIN requests /\ Held(j)
  BY <1>6, <1>8 DEF Held
<1>12. Tickets'
  <2>1. \A j \in DOMAIN requests : requests[j].ticket \in Nat /\ requests[j].ticket < nextTicket
    BY <1>4, RequestAt DEF Tickets
  <2>2. \A j, k \in DOMAIN requests : requests[j].ticket = requests[k].ticket => j = k
    BY <1>4 DEF Tickets
  <2>3. \A j \in DOMAIN requests' : j # i => j \in DOMAIN requests
          /\ requests'[j].ticket = requests[j].ticket /\ requests'[j].ticket \in Nat
          /\ requests'[j].ticket < nextTicket
    BY <1>8, <2>1
  <2>4. requests'[i].ticket = nextTicket
    BY <1>6, <1>8
  <2>5. \A j \in DOMAIN requests' : requests'[j].ticket < nextTicket'
    BY <1>2, <1>5, <2>3, <2>4
  <2>6. \A j, k \in DOMAIN requests' : requests'[j].ticket = requests'[k].ticket => j = k
    BY <1>5, <2>2, <2>3, <2>4
  <2> QED BY <1>2, <1>5, <2>5, <2>6 DEF Tickets
<1>13. Owned'
  <2>1. \A j \in DOMAIN requests' : Held(j)' <=> requests'[j].state \in {PREFILL, DECODE, DRAINING}
    BY <1>4, <1>6, <1>8 DEF Owned, Held
  <2>2. \A s : ~Admitting(s)' /\ ~Admitting(s)
    BY <1>2 DEF Admitting
  <2>3. \A j \in DOMAIN requests' : Held(j)' =>
          active'[requests'[j].sequence] /\ requests'[j].sequence = requests[j].sequence
    BY <1>2, <1>4, <1>8, <1>11, RosterResident
  <2>4. \A j, k \in DOMAIN requests' :
          Held(j)' /\ requests'[j].sequence = requests'[k].sequence => j = k
    BY <1>4, <1>6, <1>8, <1>11 DEF Owned, Held
  <2>5. \A s \in Slot : active'[s] => \E j \in DOMAIN requests' : requests'[j].sequence = s
    <3> SUFFICES ASSUME NEW s \in Slot, active'[s]
                 PROVE  \E j \in DOMAIN requests' : requests'[j].sequence = s
      OBVIOUS
    <3>1. PICK j \in DOMAIN requests : requests[j].sequence = s
      BY <1>2, <1>4, <2>2 DEF Owned
    <3>2. j # i /\ j \in DOMAIN requests'
      BY <1>8, <3>1 DEF Held
    <3> QED BY <1>8, <3>1, <3>2
  <2> QED BY <2>1, <2>2, <2>3, <2>4, <2>5 DEF Owned
<1>14. Roster'
  BY <1>2, <1>4, <1>8, <1>10, <1>12, <1>13 DEF Roster
<1>15. Uncached'
  BY <1>2, <1>4 DEF Uncached, Phase
<1>16. \A j \in DOMAIN requests :
         /\ requests'[j].uses = requests[j].uses /\ requests'[j].samples = requests[j].samples
         /\ Held(j) => Keeps(j)
  <2>1. \A j \in DOMAIN requests : j # i => requests'[j] = requests[j]
    BY <1>8
  <2>2. \A j \in DOMAIN requests : Held(j) => Keeps(j)
    BY <1>2, <1>8, <2>1 DEF Keeps, Held
  <2> QED BY <1>6, <1>8, <1>9, <2>1, <2>2
<1>17. \A j \in DOMAIN requests' :
         /\ j \notin DOMAIN requests => requests'[j].uses = 0 /\ requests'[j].samples = 0
         /\ requests'[j].state = DRAINING =>
              requests'[j].uses > 0 \/ (j \in DOMAIN requests /\ requests[j].state = DRAINING)
  BY <1>6, <1>8
<1> QED BY <1>2, <1>8, <1>14, <1>15, <1>16, <1>17, HostKeeps

(* The host may clear the empty index of an idle engine.                   *)
LEMMA ClearsAsync ==
  ASSUME AsyncRunning, UNCHANGED Stepping, ClearCache \/ CacheClears
  PROVE  AsyncRunning'
<1>1. /\ Roster /\ CacheInv(Tenant, Token) /\ failed \in BOOLEAN /\ Uncached /\ entries = <<>>
  BY AsyncParts DEF Uncached
<1>2. /\ step.phase = "idle" /\ UNCHANGED <<mode, requests, nextTicket, step, failed>>
      /\ UNCHANGED <<vars, entries>> /\ call.op # "reserve" /\ call'.op \in {"none", "clear"}
      /\ CacheInv(Tenant, Token)'
  <2>1. CASE ClearCache
    <3>1. step.phase = "idle" /\ call = Idle /\ BeginClear /\ UNCHANGED engineVars
      BY <2>1 DEF ClearCache, Idling, Phase
    <3>2. CacheInv(Tenant, Token)'
      BY <1>1, <3>1, BeginClearOK
    <3> QED BY <3>1, <3>2 DEF BeginClear, Idle, engineVars
  <2>2. CASE CacheClears
    <3>1. EndClear /\ UNCHANGED engineVars
      BY <1>1, <2>2 DEF CacheClears, ClearOne
    <3>2. CacheInv(Tenant, Token)'
      BY <1>1, <3>1, EndOK
    <3>3. step.phase = "idle"
      BY <1>1, <3>1 DEF EndClear, Uncached, Phase
    <3> QED BY <3>1, <3>2, <3>3 DEF EndClear, Idle, engineVars
  <2> QED BY <2>1, <2>2
<1>3. UNCHANGED <<active, tables>>
  BY <1>2 DEF vars
<1>4. Roster'
  <2>1. \A s : ~Admitting(s) /\ ~Admitting(s)'
    BY <1>2 DEF Admitting
  <2> QED BY <1>1, <1>2, <1>3, <2>1, RosterStill
<1>5. Uncached'
  BY <1>1, <1>2 DEF Uncached, Phase
<1>6. \A j \in DOMAIN requests : Held(j) => Keeps(j)
  BY <1>2, <1>3 DEF Keeps, Held
<1> QED BY <1>2, <1>4, <1>5, <1>6, HostKeeps

(* Whatever the host does.                                                 *)
LEMMA HostAsync ==
  ASSUME AsyncRunning, HostCalls
  PROVE  AsyncRunning'
BY AbortAsync, AddAsync, ClearsAsync DEF HostCalls, Host
-----------------------------------------------------------------------------
(* A batch that is submitted is of requests that run, each once.           *)
LEMMA SubmittingAt ==
  ASSUME AsyncRunning, step.phase \in {"execute", "commit"}, NEW k, k = step.done + 1,
         NEW i, i = step.chosen[k].index
  PROVE  /\ ~failed /\ ~draining /\ call = Idle /\ call.op = "none" /\ step \in AsyncStepType
         /\ step.done \in Nat /\ Len(step.chosen) \in Nat /\ DOMAIN step.chosen = 1..Len(step.chosen)
         /\ k \in DOMAIN step.chosen /\ k \in Nat /\ step.done < Len(step.chosen)
         /\ Runs(i) /\ i \in DOMAIN requests /\ Held(i) /\ requests[i].sequence \in Slot
         /\ \A l \in DOMAIN step.chosen : step.chosen[l].count \in Int /\ Runs(step.chosen[l].index)
         /\ \A l, m \in DOMAIN step.chosen : step.chosen[l].index = step.chosen[m].index => l = m
         /\ Current = step.chosen[k] /\ Request = requests[i] /\ Sequence = requests[i].sequence
<1>1. /\ Roster /\ step \in AsyncStepType /\ Batched /\ Waits /\ Uncached
  BY AsyncParts
<1>2. /\ step.done \in Nat /\ Len(step.chosen) \in Nat /\ DOMAIN step.chosen = 1..Len(step.chosen)
      /\ step.chosen \in Seq([index : Nat, count : Int])
  BY <1>1, AsyncStepAt
<1>3. step.phase \notin {"idle", "boundary", "retire", "lost", "failing"}
  OBVIOUS
<1>4. ~failed /\ ~draining
  BY <1>1, <1>3 DEF Waits
<1>5. call = Idle /\ call.op = "none"
  <2>1. call.op = "none"
    BY <1>1, <1>3 DEF Uncached, Phase
  <2> QED BY <1>1, <2>1, RosterIdle
<1>6. step.done < Len(step.chosen)
  BY <1>1 DEF Batched
<1>7. k \in DOMAIN step.chosen /\ k \in Nat
  BY <1>2, <1>6
<1>8. /\ \A l \in DOMAIN step.chosen : Runs(step.chosen[l].index)
      /\ \A l, m \in DOMAIN step.chosen : step.chosen[l].index = step.chosen[m].index => l = m
  BY <1>1 DEF Batched
<1>9. ASSUME NEW l \in DOMAIN step.chosen PROVE step.chosen[l].count \in Int
  <2>1. PICK choices \in Seq([index : Nat, count : Int]) : choices = step.chosen
    BY <1>2
  <2>2. l \in 1..Len(choices)
    BY <1>2, <2>1
  <2>3. choices[l] \in [index : Nat, count : Int]
    BY <2>2, ElementOfSeq
  <2> QED BY <2>1, <2>3
<1>10. Runs(i)
  BY <1>7, <1>8
<1>11. i \in DOMAIN requests /\ Held(i) /\ requests[i].sequence \in Slot
  BY <1>10, RunsHolds
<1>12. Current = step.chosen[k] /\ Request = requests[i] /\ Sequence = requests[i].sequence
  BY DEF Current, Request, Sequence
<1> QED BY <1>1, <1>2, <1>4, <1>5, <1>6, <1>7, <1>8, <1>9, <1>10, <1>11, <1>12

(* Rows and commits move no block.                                         *)
LEMMA RowsMove ==
  ASSUME AsyncRunning, step.phase \in {"execute", "commit"}, UNCHANGED cacheVars,
         NEW s \in Slot, Commit(s) \/ \E length \in Int : Write(s, length)
  PROVE  CacheInv(Tenant, Token)' /\ UNCHANGED <<tables, active, entries, call>>
<1>1. IInv /\ CacheInv(Tenant, Token) /\ UNCHANGED <<entries, call>>
  BY AsyncParts DEF cacheVars
<1>2. call = Idle
  BY SubmittingAt
<1>3. IInv' /\ Registered' = Registered /\ UNCHANGED <<tables, active>>
  <2>1. CASE Commit(s)
    BY <1>1, <2>1, CommitIInv, OthersRegistered DEF Commit
  <2>2. CASE \E length \in Int : Write(s, length)
    <3>1. PICK length \in Int : Write(s, length)
      BY <2>2
    <3>2. length \in 0..MaxLength
      <4>1. lengths[s] \in Nat /\ reserved[s] \in Nat /\ reserved[s] <= MaxLength /\ MaxLength \in Nat
        BY <1>1, ExtentType, GeometryAssumption DEF IInv, Consistent
      <4>2. lengths[s] < length /\ length <= reserved[s]
        BY <3>1 DEF Write
      <4> QED BY <4>1, <4>2
    <3>3. IInv' /\ Registered' = Registered
      BY <1>1, <3>1, <3>2, WriteIInv, OthersRegistered
    <3> QED BY <3>1, <3>3 DEF Write
  <2> QED BY <2>1, <2>2
<1> QED BY <1>1, <1>2, <1>3, Between
-----------------------------------------------------------------------------
(* What a batch may use is held by the requests it is of.                  *)
LEMMA BatchHolds ==
  ASSUME AsyncRunning, step.phase = "execute"
  PROVE  /\ BatchTables \in SUBSET (Nat \X Block)
         /\ \A use \in BatchTables : \E k \in DOMAIN step.chosen : Holds(step.chosen[k].index, use)
<1>1. \A k \in DOMAIN step.chosen : Runs(step.chosen[k].index)
  BY SubmittingAt
<1>2. requests \in Seq(RequestType) /\ TypeOK
  BY AsyncParts DEF IInv
<1>3. ASSUME NEW use \in BatchTables
      PROVE  use \in Nat \X Block /\ \E k \in DOMAIN step.chosen : Holds(step.chosen[k].index, use)
  <2>1. PICK k \in DOMAIN step.chosen :
          use \in {requests[step.chosen[k].index].ticket}
                    \X Range(tables[requests[step.chosen[k].index].sequence])
    BY DEF BatchTables
  <2>2. PICK i : i = step.chosen[k].index
    OBVIOUS
  <2>3. i \in DOMAIN requests /\ Held(i) /\ requests[i].sequence \in Slot /\ requests[i].ticket \in Nat
    <3>1. Runs(i)
      BY <1>1, <2>2
    <3>2. i \in DOMAIN requests
      BY <3>1, RunsHolds
    <3> QED BY <1>2, <3>1, <3>2, RunsHolds, RequestAt
  <2>4. use[1] = requests[i].ticket /\ use[2] \in Range(tables[requests[i].sequence])
        /\ use = <<use[1], use[2]>>
    BY <2>1, <2>2
  <2>5. Range(tables[requests[i].sequence]) \subseteq Block
    <3>1. PICK table \in Seq(Block) : table = tables[requests[i].sequence]
      BY <1>2, <2>3 DEF TypeOK
    <3>2. Range(table) \subseteq Block
      BY DEF Range
    <3> QED BY <3>1, <3>2
  <2>6. use[1] \in Nat /\ use[2] \in Block
    BY <2>3, <2>4, <2>5
  <2>7. Holds(i, use)
    BY <2>3, <2>4 DEF Holds
  <2> QED BY <2>2, <2>4, <2>6, <2>7
<1> QED BY <1>3

(* The runner's writes change nothing the engine holds.                    *)
LEMMA WritesHold ==
  ASSUME AsyncRunning, Enqueue
  PROVE  /\ Roster' /\ \A j \in DOMAIN requests : Held(j) => Keeps(j)
         /\ UNCHANGED <<tables, active, entries, call>>
<1>1. /\ step.phase = "execute"
      /\ WriteRows(Sequence, lengths[Sequence] + Current.count, Request.tokens \o Promised(Current.index))
      /\ UNCHANGED <<cacheVars, mode, requests, nextTicket, account, failed, enabled, draining>>
  BY DEF Enqueue, Phase
<1>2. PICK k : k = step.done + 1
  OBVIOUS
<1>3. PICK i : i = step.chosen[k].index
  OBVIOUS
<1>4. /\ Held(i) /\ i \in DOMAIN requests /\ requests[i].sequence \in Slot /\ k \in DOMAIN step.chosen
      /\ step.chosen[k].count \in Int /\ Current = step.chosen[k] /\ Sequence = requests[i].sequence
  BY <1>1, <1>2, <1>3, SubmittingAt
<1>5. PICK s \in Slot : s = Sequence
  BY <1>4
<1>6. PICK length \in Int : length = lengths[s] + Current.count
  <2>1. lengths[s] \in Nat
    BY AsyncParts DEF IInv, TypeOK
  <2> QED BY <1>4, <2>1
<1>7. Write(s, length)
  BY <1>1, <1>5, <1>6 DEF WriteRows
<1>8. CacheInv(Tenant, Token)' /\ UNCHANGED <<tables, active, entries, call>>
  BY <1>1, <1>7, RowsMove
<1>9. Roster'
  BY <1>1, <1>8, AsyncParts, RosterStill DEF Admitting
<1>10. \A j \in DOMAIN requests : Held(j) => Keeps(j)
  BY <1>1, <1>8 DEF Keeps, Held
<1> QED BY <1>8, <1>9, <1>10

(* Sequence by sequence, nothing is outstanding for the batch yet.         *)
LEMMA EnqueueOn ==
  ASSUME AsyncRunning, Enqueue, step.done + 1 # Len(step.chosen)
  PROVE  AsyncRunning'
<1>1. /\ step.phase = "execute" /\ Advance("commit")
      /\ UNCHANGED <<cacheVars, mode, requests, failed, draining>>
  BY DEF Enqueue, Phase
<1>2. /\ step \in AsyncStepType /\ step.done \in Nat /\ Len(step.chosen) \in Nat
      /\ step.done < Len(step.chosen) /\ failed \in BOOLEAN /\ Outstanding /\ Waits /\ Batched /\ Uncached
  BY <1>1, SubmittingAt, AsyncParts
<1>3. step.done + 1 < Len(step.chosen)
  BY <1>2
<1>4. UNCHANGED <<queue, inflight>>
  BY <1>3 DEF Enqueue
<1>5. step' = [step EXCEPT !.done = @ + 1]
  BY <1>1 DEF Advance
<1>6. /\ step' \in AsyncStepType /\ step'.phase = "execute" /\ step'.chosen = step.chosen
      /\ step'.done = step.done + 1
  <2>1. PICK done \in Nat : done = step.done + 1
    BY <1>2
  <2>2. step' = [step EXCEPT !.done = done]
    BY <1>5, <2>1
  <2> QED BY <1>1, <1>2, <2>1, <2>2 DEF AsyncStepType
<1>7. /\ Roster' /\ \A j \in DOMAIN requests : Held(j) => Keeps(j)
      /\ UNCHANGED <<tables, active, entries, call>>
  BY WritesHold
<1>8. Whole /\ Whole'
  BY <1>1, <1>6 DEF Whole
<1>9. Outstanding'
  BY <1>1, <1>2, <1>4, <1>7, <1>8, OutstandingKept
<1>10. Batched'
  <2>1. step'.phase \notin Still \cup Choosing
    BY <1>6 DEF Still, Choosing
  <2>2. \A k \in DOMAIN step'.chosen : Runs(step.chosen[k].index)'
    BY <1>1, <1>2, <1>6 DEF Batched, Runs
  <2>3. \A k, l \in DOMAIN step.chosen : step.chosen[k].index = step.chosen[l].index => k = l
    BY <1>2 DEF Batched
  <2>4. step'.done < Len(step'.chosen)
    BY <1>3, <1>6
  <2> QED BY <1>6, <2>1, <2>2, <2>3, <2>4 DEF Batched
<1>11. Aim'
  BY <1>6 DEF Aim, Phase
<1>12. Waits'
  BY <1>1, <1>2, <1>4, <1>6, SubmittingAt DEF Waits, Phase
<1>13. Uncached'
  BY <1>1, <1>2, <1>6, <1>7, SubmittingAt DEF Uncached, Phase
<1> QED BY <1>6, <1>7, <1>9, <1>10, <1>11, <1>12, <1>13 DEF AsyncRunning
-----------------------------------------------------------------------------
(* What is submitted names the batch's requests and their tickets.         *)
LEMMA Submission ==
  ASSUME AsyncRunning, step.phase = "execute", NEW tokens \in [DOMAIN step.chosen -> Sampled],
         NEW e, e = [selected |-> [k \in DOMAIN step.chosen |-> step.chosen[k].index],
                     tickets  |-> [k \in DOMAIN step.chosen |-> requests[step.chosen[k].index].ticket],
                     results  |-> [k \in DOMAIN step.chosen |-> IF Heads(k) THEN <<tokens[k]>> ELSE <<>>]]
  PROVE  /\ e \in Ticketed /\ Queued(e) /\ Len(e.selected) = Len(step.chosen)
         /\ \A k \in DOMAIN step.chosen :
              e.selected[k] = step.chosen[k].index /\ e.tickets[k] = requests[step.chosen[k].index].ticket
<1>1. PICK n \in Nat : n = Len(step.chosen) /\ DOMAIN step.chosen = 1..n /\ n # 0
  BY SubmittingAt
<1>2. \A k \in 1..n : Runs(step.chosen[k].index)
  BY <1>1, SubmittingAt
<1>3. \A k \in 1..n : step.chosen[k].index \in Nat /\ requests[step.chosen[k].index].ticket \in Nat
  BY <1>2, AsyncParts, RunsHolds, RequestAt
<1>4. PICK selected : selected = [k \in 1..n |-> step.chosen[k].index]
  OBVIOUS
<1>5. PICK tickets : tickets = [k \in 1..n |-> requests[step.chosen[k].index].ticket]
  OBVIOUS
<1>6. PICK results : results = [k \in 1..n |-> IF Heads(k) THEN <<tokens[k]>> ELSE <<>>]
  OBVIOUS
<1>7. e.selected = selected /\ e.tickets = tickets /\ e.results = results
      /\ e = [selected |-> selected, tickets |-> tickets, results |-> results]
  BY <1>1, <1>4, <1>5, <1>6
<1>8. PICK Kinds : Kinds = {<<>>} \cup {<<token>> : token \in Sampled}
  OBVIOUS
<1>9. /\ selected \in Seq(Nat) /\ Len(selected) = n /\ DOMAIN selected = 1..n
      /\ \A k \in 1..n : selected[k] = step.chosen[k].index
  BY <1>3, <1>4
<1>10. /\ tickets \in Seq(Nat) /\ Len(tickets) = n
       /\ \A k \in 1..n : tickets[k] = requests[step.chosen[k].index].ticket
  BY <1>3, <1>5
<1>11. results \in Seq(Kinds) /\ Len(results) = n
  <2>1. \A k \in 1..n : tokens[k] \in Sampled
    BY <1>1
  <2>2. ASSUME NEW k \in 1..n PROVE results[k] \in Kinds
    <3>1. results[k] = <<tokens[k]>> \/ results[k] = <<>>
      BY <1>6
    <3> QED BY <1>8, <2>1, <3>1
  <2>3. results \in [1..n -> Kinds]
    BY <1>6, <2>2
  <2> QED BY <2>3
<1>12. e \in Ticketed
  BY <1>7, <1>8, <1>9, <1>10, <1>11 DEF Ticketed
<1>13. Queued(e)
  <2>1. selected # <<>>
    BY <1>1, <1>9
  <2>2. \A k, l \in 1..n : selected[k] = selected[l] => k = l
    <3>1. \A k, l \in DOMAIN step.chosen : step.chosen[k].index = step.chosen[l].index => k = l
      BY SubmittingAt
    <3>2. \A k, l \in 1..n : step.chosen[k].index = step.chosen[l].index => k = l
      BY <1>1, <3>1
    <3>3. \A k \in 1..n : selected[k] = step.chosen[k].index
      BY <1>9
    <3> QED BY <3>2, <3>3
  <2>3. e.selected = selected /\ e.tickets = tickets /\ e.results = results
    BY <1>7
  <2>4. Len(selected) = n /\ Len(tickets) = n /\ Len(results) = n /\ DOMAIN selected = 1..n
    BY <1>9, <1>10, <1>11
  <2> QED BY <2>1, <2>2, <2>3, <2>4 DEF Queued
<1> QED BY <1>1, <1>7, <1>9, <1>10, <1>12, <1>13

(* A step joins the queue: its uses count from its commits on.             *)
LEMMA JoinsQueue ==
  ASSUME Outstanding, ~failed, step.phase = "execute", Len(queue) <= 1, NEW e \in Ticketed, Queued(e),
         queue' = Append(queue, e), step'.phase = "commit", step'.done = 0
  PROVE  /\ Len(queue') = Len(queue) + 1 /\ Len(queue') <= 2 /\ queue'[Len(queue')] = e
         /\ queue' \in Seq(Ticketed) /\ \A p \in DOMAIN queue' : Queued(queue'[p])
         /\ \A p \in DOMAIN queue : p \in DOMAIN queue' /\ queue'[p] = queue[p] /\ Counted(p)' = Counted(p)
         /\ \A p \in DOMAIN queue' : p \in DOMAIN queue \/ (p = Len(queue') /\ Counted(p)' = {})
         /\ \A i : UsesOf(i)' = UsesOf(i) /\ SamplesOf(i)' = SamplesOf(i)
<1>1. /\ queue \in Seq(Ticketed) /\ Len(queue) \in {0, 1} /\ DOMAIN queue = 1..Len(queue)
      /\ \A p \in DOMAIN queue : queue[p] \in Ticketed /\ Queued(queue[p])
  BY QueueAt
<1>2. /\ queue' \in Seq(Ticketed) /\ Len(queue') = Len(queue) + 1
      /\ queue'[Len(queue) + 1] = e /\ \A p \in 1..Len(queue) : queue'[p] = queue[p]
  BY <1>1, AppendProperties
<1>3. DOMAIN queue' = 1..(Len(queue) + 1)
  BY <1>2
<1>4. \A p \in DOMAIN queue : Counted(p) = DOMAIN queue[p].selected
  BY CountedAll DEF Whole
<1>5. \A p \in DOMAIN queue : p \in DOMAIN queue' /\ queue'[p] = queue[p] /\ Counted(p)' = Counted(p)
  <2> SUFFICES ASSUME NEW p \in DOMAIN queue
               PROVE  p \in DOMAIN queue' /\ queue'[p] = queue[p] /\ Counted(p)' = Counted(p)
    OBVIOUS
  <2>1. p \in DOMAIN queue' /\ queue'[p] = queue[p] /\ p # Len(queue')
    BY <1>1, <1>2, <1>3
  <2>2. Counted(p)' = DOMAIN queue[p].selected
    BY <2>1 DEF Counted, Phase
  <2> QED BY <1>4, <2>1, <2>2
<1>6. ASSUME NEW p \in DOMAIN queue', p \notin DOMAIN queue
      PROVE  p = Len(queue') /\ queue'[p] = e /\ Counted(p)' = {}
  <2>1. p = Len(queue') /\ queue'[p] = e
    BY <1>1, <1>2, <1>3, <1>6
  <2>2. \A k \in DOMAIN e.selected : k \in Nat /\ k > 0
    BY PlacesAt
  <2>3. \A k \in DOMAIN e.selected : ~(k <= 0)
    BY <2>2
  <2> QED BY <2>1, <2>3 DEF Counted, Phase
<1>7. \A p \in DOMAIN queue' : Queued(queue'[p])
  BY <1>1, <1>5, <1>6
<1>8. \A i : UsesOf(i)' = UsesOf(i) /\ SamplesOf(i)' = SamplesOf(i)
  <2> SUFFICES ASSUME NEW i PROVE UsesOf(i)' = UsesOf(i) /\ SamplesOf(i)' = SamplesOf(i)
    OBVIOUS
  <2>1. \A p \in DOMAIN queue : (Uses(p, i)' <=> Uses(p, i)) /\ (Selects(p, i)' <=> Selects(p, i))
    BY <1>5 DEF Uses, Selects
  <2>2. \A p \in DOMAIN queue' : p \notin DOMAIN queue => ~Uses(p, i)' /\ ~Selects(p, i)'
    BY <1>6 DEF Uses, Selects
  <2>3. /\ (1 \in DOMAIN queue /\ Uses(1, i))' <=> (1 \in DOMAIN queue /\ Uses(1, i))
        /\ (2 \in DOMAIN queue /\ Uses(2, i))' <=> (2 \in DOMAIN queue /\ Uses(2, i))
        /\ (1 \in DOMAIN queue /\ Selects(1, i))' <=> (1 \in DOMAIN queue /\ Selects(1, i))
        /\ (2 \in DOMAIN queue /\ Selects(2, i))' <=> (2 \in DOMAIN queue /\ Selects(2, i))
    BY <1>5, <2>1, <2>2
  <2> QED BY <2>3 DEF UsesOf, SamplesOf, One
<1> QED BY <1>1, <1>2, <1>3, <1>5, <1>6, <1>7, <1>8

(* Accounts change only with what they are of.                             *)
LEMMA AccountsKept ==
  ASSUME Accounted, UNCHANGED requests, \A j \in DOMAIN requests : Held(j) => Keeps(j),
         \A i : UsesOf(i)' = UsesOf(i) /\ SamplesOf(i)' = SamplesOf(i),
         \A p \in DOMAIN queue' : \A k \in Counted(p)' :
           p \in DOMAIN queue /\ queue'[p] = queue[p] /\ k \in Counted(p)
  PROVE  Accounted'
<1>1. \A i \in DOMAIN requests :
        /\ requests[i].uses = UsesOf(i) /\ requests[i].samples = SamplesOf(i)
        /\ requests[i].uses > 0 => Held(i)
        /\ requests[i].state = DRAINING => requests[i].uses > 0
  BY DEF Accounted
<1>2. \A i \in DOMAIN requests' :
        /\ requests'[i].uses = UsesOf(i)' /\ requests'[i].samples = SamplesOf(i)'
        /\ requests'[i].uses > 0 => Held(i)'
        /\ requests'[i].state = DRAINING => requests'[i].uses > 0
  BY <1>1 DEF Keeps
<1>3. \A p \in DOMAIN queue' : \A k \in Counted(p)' :
        /\ queue'[p].selected[k] \in DOMAIN requests'
        /\ requests'[queue'[p].selected[k]].ticket = queue'[p].tickets[k]
  BY DEF Accounted
<1> QED BY <1>2, <1>3 DEF Accounted

(* With the last sequence the step is queued, and its tables are in use.   *)
LEMMA EnqueueLast ==
  ASSUME AsyncRunning, Enqueue, step.done + 1 = Len(step.chosen)
  PROVE  AsyncRunning'
<1>1. /\ step.phase = "execute" /\ Advance("commit")
      /\ UNCHANGED <<cacheVars, mode, requests, failed, draining>>
  BY DEF Enqueue, Phase
<1>2. /\ step \in AsyncStepType /\ step.done \in Nat /\ Len(step.chosen) \in Nat /\ ~failed /\ ~draining
      /\ step.done < Len(step.chosen) /\ failed \in BOOLEAN /\ Outstanding /\ Waits /\ Batched /\ Uncached
      /\ requests \in Seq(RequestType)
  BY <1>1, SubmittingAt, AsyncParts
<1>3. Accounted /\ Flying
  BY <1>2 DEF Outstanding
<1>4. PICK tokens \in [DOMAIN step.chosen -> Sampled] :
        /\ queue' = Append(queue,
             [selected |-> [k \in DOMAIN step.chosen |-> step.chosen[k].index],
              tickets  |-> [k \in DOMAIN step.chosen |-> requests[step.chosen[k].index].ticket],
              results  |-> [k \in DOMAIN step.chosen |-> IF Heads(k) THEN <<tokens[k]>> ELSE <<>>]])
        /\ inflight' = Append(inflight, BatchTables)
  <2>1. ~(step.done + 1 < Len(step.chosen))
    BY <1>2
  <2> QED BY <2>1, Zenon DEF Enqueue
<1>5. PICK e : e = [selected |-> [k \in DOMAIN step.chosen |-> step.chosen[k].index],
                    tickets  |-> [k \in DOMAIN step.chosen |-> requests[step.chosen[k].index].ticket],
                    results  |-> [k \in DOMAIN step.chosen |-> IF Heads(k) THEN <<tokens[k]>> ELSE <<>>]]
  OBVIOUS
<1>6. /\ e \in Ticketed /\ Queued(e) /\ Len(e.selected) = Len(step.chosen)
      /\ \A k \in DOMAIN step.chosen :
           e.selected[k] = step.chosen[k].index /\ e.tickets[k] = requests[step.chosen[k].index].ticket
  BY <1>1, <1>5, Submission
<1>7. queue' = Append(queue, e) /\ inflight' = Append(inflight, BatchTables)
  BY <1>4, <1>5
<1>8. step' = [step EXCEPT !.phase = "commit", !.done = 0]
  BY <1>1 DEF Advance
<1>9. /\ step' \in AsyncStepType /\ step'.phase = "commit" /\ step'.chosen = step.chosen
      /\ step'.done = 0
  BY <1>2, <1>8 DEF AsyncStepType
<1>10. /\ Roster' /\ \A j \in DOMAIN requests : Held(j) => Keeps(j)
       /\ UNCHANGED <<tables, active, entries, call>>
  BY WritesHold
<1>11. Len(queue) <= 1 /\ Len(queue) \in Nat
  BY <1>1, <1>2, QueueAt DEF Waits
<1>12. /\ Len(queue') = Len(queue) + 1 /\ Len(queue') <= 2 /\ queue'[Len(queue')] = e
       /\ queue' \in Seq(Ticketed) /\ \A p \in DOMAIN queue' : Queued(queue'[p])
       /\ \A p \in DOMAIN queue : p \in DOMAIN queue' /\ queue'[p] = queue[p] /\ Counted(p)' = Counted(p)
       /\ \A p \in DOMAIN queue' : p \in DOMAIN queue \/ (p = Len(queue') /\ Counted(p)' = {})
       /\ \A i : UsesOf(i)' = UsesOf(i) /\ SamplesOf(i)' = SamplesOf(i)
  BY <1>1, <1>2, <1>6, <1>7, <1>9, <1>11, JoinsQueue
<1>13. Accounted'
  <2>1. \A p \in DOMAIN queue' : \A k \in Counted(p)' :
          p \in DOMAIN queue /\ queue'[p] = queue[p] /\ k \in Counted(p)
    BY <1>12
  <2> QED BY <1>1, <1>3, <1>10, <1>12, <2>1, AccountsKept
<1>14. Submitted'
  BY <1>1, <1>6, <1>9, <1>12 DEF Submitted
<1>15. /\ inflight \in Seq(SUBSET (Nat \X Block)) /\ Len(inflight) \in Nat
       /\ DOMAIN inflight = 1..Len(inflight) /\ BatchTables \in SUBSET (Nat \X Block)
       /\ \A use \in BatchTables : \E k \in DOMAIN step.chosen : Holds(step.chosen[k].index, use)
  BY <1>1, <1>2, QueueAt, BatchHolds
<1>16. /\ inflight' \in Seq(SUBSET (Nat \X Block)) /\ Len(inflight') = Len(inflight) + 1
       /\ inflight'[Len(inflight) + 1] = BatchTables
       /\ \A p \in 1..Len(inflight) : inflight'[p] = inflight[p]
  BY <1>7, <1>15, AppendProperties
<1>17. Flying'
  <2>1. Collected = 0 /\ Collected' = 0 /\ Len(inflight) = Len(queue)
    BY <1>1, <1>3, <1>9, <1>11 DEF Collected, Phase, Flying
  <2>2. Len(inflight') = Len(queue') - Collected'
    BY <1>11, <1>12, <1>16, <2>1
  <2>3. ASSUME NEW p \in DOMAIN inflight', NEW use \in inflight'[p]
        PROVE  \E k \in DOMAIN queue'[p].selected :
                 queue'[p].selected[k] \in DOMAIN requests' /\ Holds(queue[p].selected[k], use)'
    <3>1. CASE p \in 1..Len(inflight)
      <4>1. p + 0 = p /\ p \in DOMAIN inflight /\ use \in inflight[p] /\ p \in DOMAIN queue
        BY <1>2, <1>15, <1>16, <2>1, <2>3, <3>1, QueueAt
      <4>2. PICK k \in DOMAIN queue[p].selected :
              queue[p].selected[k] \in DOMAIN requests /\ Holds(queue[p].selected[k], use)
        BY <1>3, <2>1, <4>1 DEF Flying
      <4>3. PICK j : j = queue[p].selected[k]
        OBVIOUS
      <4>4. Keeps(j) /\ Holds(j, use)
        BY <1>10, <4>2, <4>3 DEF Holds
      <4>5. Holds(j, use)' /\ j \in DOMAIN requests'
        BY <1>1, <4>2, <4>3, <4>4, HoldsOn
      <4>6. queue'[p] = queue[p]
        BY <1>12, <4>1
      <4> QED BY <4>2, <4>3, <4>5, <4>6 DEF Holds, Held
    <3>2. CASE p \notin 1..Len(inflight)
      <4>1. p = Len(inflight) + 1
        BY <1>15, <1>16, <2>3, <3>2
      <4>2. use \in BatchTables /\ queue'[p] = e
        BY <1>12, <1>16, <2>1, <2>3, <4>1
      <4>3. PICK k \in DOMAIN step.chosen : Holds(step.chosen[k].index, use)
        BY <1>15, <4>2
      <4>4. PICK j : j = step.chosen[k].index
        OBVIOUS
      <4>5. j \in DOMAIN requests /\ Held(j)
        BY <1>1, <4>4, SubmittingAt, RunsHolds
      <4>6. Keeps(j)
        BY <1>10, <4>5
      <4>7. Holds(j, use)' /\ j \in DOMAIN requests'
        BY <1>1, <4>3, <4>4, <4>5, <4>6, HoldsOn
      <4>8. k \in DOMAIN e.selected /\ e.selected[k] = j
        <5>1. DOMAIN step.chosen = 1..Len(step.chosen) /\ DOMAIN e.selected = 1..Len(e.selected)
          BY <1>1, <1>6, SubmittingAt, PlacesAt
        <5> QED BY <1>6, <4>4, <5>1
      <4> QED BY <4>2, <4>7, <4>8 DEF Holds, Held
    <3> QED BY <3>1, <3>2
  <2>4. \A p \in DOMAIN inflight' : p + Collected' = p
    BY <1>16, <2>1
  <2> QED BY <2>2, <2>3, <2>4 DEF Flying, Holds, Held
<1>18. Outstanding'
  BY <1>1, <1>2, <1>12, <1>13, <1>14, <1>16, <1>17 DEF Outstanding
<1>19. Batched'
  <2>1. step'.phase \notin Still \cup Choosing
    BY <1>9 DEF Still, Choosing
  <2>2. \A k \in DOMAIN step'.chosen : Runs(step.chosen[k].index)'
    BY <1>1, <1>2, <1>9 DEF Batched, Runs
  <2>3. \A k, l \in DOMAIN step.chosen : step.chosen[k].index = step.chosen[l].index => k = l
    BY <1>2 DEF Batched
  <2>4. step'.done < Len(step'.chosen)
    BY <1>2, <1>9
  <2> QED BY <1>9, <2>1, <2>2, <2>3, <2>4 DEF Batched
<1>20. Aim'
  BY <1>9 DEF Aim, Phase
<1>21. Waits'
  <2>1. queue' # <<>>
    BY <1>11, <1>12
  <2> QED BY <1>1, <1>2, <1>9, <2>1 DEF Waits, Phase, Choosing
<1>22. Uncached'
  BY <1>1, <1>2, <1>9, <1>10, SubmittingAt DEF Uncached, Phase
<1> QED BY <1>9, <1>10, <1>18, <1>19, <1>20, <1>21, <1>22 DEF AsyncRunning
-----------------------------------------------------------------------------
(* One place more counts.                                                  *)
LEMMA CountsOneMore ==
  ASSUME UNCHANGED queue, DOMAIN queue \subseteq {1, 2}, NEW n \in DOMAIN queue, Queued(queue[n]),
         NEW k \in DOMAIN queue[n].selected, k \notin Counted(n), NEW i, i = queue[n].selected[k],
         \A p \in DOMAIN queue : Counted(p)' = IF p = n THEN Counted(p) \cup {k} ELSE Counted(p)
  PROVE  \A j : /\ UsesOf(j)' = UsesOf(j) + One(j = i)
                /\ SamplesOf(j)' = SamplesOf(j) + One(j = i /\ queue[n].results[k] # <<>>)
<1>1. ASSUME NEW j PROVE /\ UsesOf(j)' = UsesOf(j) + One(j = i)
                         /\ SamplesOf(j)' = SamplesOf(j) + One(j = i /\ queue[n].results[k] # <<>>)
  <2>1. ASSUME NEW p \in DOMAIN queue
        PROVE  /\ Uses(p, j)' <=> Uses(p, j) \/ (p = n /\ j = i)
               /\ Selects(p, j)' <=> Selects(p, j) \/ (p = n /\ j = i /\ queue[n].results[k] # <<>>)
    <3>1. CASE p = n
      <4>1. Counted(p)' = Counted(p) \cup {k}
        BY <3>1
      <4> QED BY <3>1, <4>1, Zenon DEF Uses, Selects
    <3>2. CASE p # n
      <4>1. Counted(p)' = Counted(p)
        BY <3>2
      <4> QED BY <3>2, <4>1, Zenon DEF Uses, Selects
    <3> QED BY <3>1, <3>2
  <2>2. ~Uses(n, i) /\ ~Selects(n, i)
    <3>1. Counted(n) \subseteq DOMAIN queue[n].selected
      BY DEF Counted
    <3>2. \A l \in Counted(n) : queue[n].selected[l] # i
      BY <3>1 DEF Queued
    <3> QED BY <3>2 DEF Uses, Selects
  <2>3. /\ (1 \in DOMAIN queue /\ Uses(1, j))' <=> (1 \in DOMAIN queue /\ Uses(1, j)) \/ (n = 1 /\ j = i)
        /\ (2 \in DOMAIN queue /\ Uses(2, j))' <=> (2 \in DOMAIN queue /\ Uses(2, j)) \/ (n = 2 /\ j = i)
        /\ (1 \in DOMAIN queue /\ Selects(1, j))' <=>
             (1 \in DOMAIN queue /\ Selects(1, j)) \/ (n = 1 /\ j = i /\ queue[n].results[k] # <<>>)
        /\ (2 \in DOMAIN queue /\ Selects(2, j))' <=>
             (2 \in DOMAIN queue /\ Selects(2, j)) \/ (n = 2 /\ j = i /\ queue[n].results[k] # <<>>)
    <3>1. 1 \in DOMAIN queue => /\ Uses(1, j)' <=> Uses(1, j) \/ (1 = n /\ j = i)
                                /\ Selects(1, j)' <=> Selects(1, j) \/ (1 = n /\ j = i /\ queue[n].results[k] # <<>>)
      BY <2>1
    <3>2. 2 \in DOMAIN queue => /\ Uses(2, j)' <=> Uses(2, j) \/ (2 = n /\ j = i)
                                /\ Selects(2, j)' <=> Selects(2, j) \/ (2 = n /\ j = i /\ queue[n].results[k] # <<>>)
      BY <2>1
    <3> QED BY <3>1, <3>2
  <2>4. j = i => /\ n = 1 => ~(1 \in DOMAIN queue /\ Uses(1, j)) /\ ~(1 \in DOMAIN queue /\ Selects(1, j))
                 /\ n = 2 => ~(2 \in DOMAIN queue /\ Uses(2, j)) /\ ~(2 \in DOMAIN queue /\ Selects(2, j))
    BY <2>2
  <2>5. n = 1 \/ n = 2
    OBVIOUS
  <2> QED BY <2>3, <2>4, <2>5 DEF UsesOf, SamplesOf, One
<1> QED BY <1>1

(* What may still use blocks may, while what holds them keeps them.        *)
LEMMA FlyingKept ==
  ASSUME Flying, UNCHANGED <<queue, inflight>>, Collected' = Collected,
         \A j \in DOMAIN requests : Held(j) => Keeps(j)
  PROVE  Flying'
<1>1. ASSUME NEW p \in DOMAIN inflight, NEW use \in inflight[p], NEW q, q = p + Collected
      PROVE  \E k \in DOMAIN queue[q].selected :
               queue[q].selected[k] \in DOMAIN requests' /\ Holds(queue[q].selected[k], use)'
  <2>1. PICK k \in DOMAIN queue[q].selected :
          queue[q].selected[k] \in DOMAIN requests /\ Holds(queue[q].selected[k], use)
    BY <1>1 DEF Flying
  <2>2. PICK j : j = queue[q].selected[k]
    OBVIOUS
  <2>3. Keeps(j) /\ Holds(j, use)
    BY <2>1, <2>2 DEF Holds
  <2>4. Holds(j, use)' /\ j \in DOMAIN requests'
    BY <2>3, HoldsOn DEF Keeps
  <2> QED BY <2>1, <2>2, <2>4 DEF Holds, Held
<1>2. Len(inflight') = Len(queue') - Collected'
  BY DEF Flying
<1> QED BY <1>1, <1>2 DEF Flying, Holds, Held

(* A use counted for a batch's next sequence.                              *)
LEMMA CommitAt ==
  ASSUME AsyncRunning, CommitEnqueued, NEW n, n = Len(queue), NEW k, k = step.done + 1,
         NEW i, i = step.chosen[k].index
  PROVE  /\ n \in DOMAIN queue /\ queue[n] \in Ticketed /\ Queued(queue[n]) /\ n \in {1, 2}
         /\ k \in DOMAIN queue[n].selected /\ DOMAIN queue[n].selected = 1..Len(step.chosen)
         /\ i = queue[n].selected[k] /\ i \in DOMAIN requests /\ Runs(i)
         /\ requests[i].ticket = queue[n].tickets[k]
         /\ k \notin Counted(n) /\ DOMAIN queue \subseteq {1, 2} /\ UNCHANGED queue
         /\ \A p \in DOMAIN queue : Counted(p)' = IF p = n THEN Counted(p) \cup {k} ELSE Counted(p)
<1>1. step.phase = "commit" /\ UNCHANGED queue
  BY DEF CommitEnqueued, Phase, Stepping
<1>2. /\ step \in AsyncStepType /\ step.done \in Nat /\ Len(step.chosen) \in Nat
      /\ k \in DOMAIN step.chosen /\ k \in Nat /\ DOMAIN step.chosen = 1..Len(step.chosen)
      /\ Runs(i) /\ i \in DOMAIN requests /\ ~failed /\ step.done < Len(step.chosen)
  BY <1>1, SubmittingAt
<1>3. /\ Outstanding /\ Waits /\ queue # <<>>
  BY <1>1, AsyncParts DEF Waits
<1>4. Len(queue) \in {1, 2} /\ DOMAIN queue = 1..Len(queue)
  BY <1>3, QueueAt
<1>5. n \in DOMAIN queue /\ n \in {1, 2} /\ DOMAIN queue \subseteq {1, 2}
  BY <1>4
<1>6. queue[n] \in Ticketed /\ Queued(queue[n])
  BY <1>3, <1>5, QueueAt
<1>7. /\ Len(queue[n].selected) = Len(step.chosen)
      /\ \A l \in DOMAIN step.chosen : queue[n].selected[l] = step.chosen[l].index
                                       /\ queue[n].tickets[l] = requests[queue[n].selected[l]].ticket
  BY <1>1, <1>2, <1>3 DEF Outstanding, Submitted, Phase
<1>8. DOMAIN queue[n].selected = 1..Len(step.chosen) /\ k \in DOMAIN queue[n].selected
  BY <1>2, <1>6, <1>7, PlacesAt
<1>9. i = queue[n].selected[k] /\ requests[i].ticket = queue[n].tickets[k]
  BY <1>2, <1>7
<1>10. Counted(n) = {l \in DOMAIN queue[n].selected : l <= step.done}
  BY <1>1 DEF Counted, Phase
<1>11. k \notin Counted(n)
  BY <1>2, <1>10
<1>12. ASSUME NEW p \in DOMAIN queue
       PROVE  Counted(p)' = IF p = n THEN Counted(p) \cup {k} ELSE Counted(p)
  <2>1. CASE step.done + 1 < Len(step.chosen)
    <3>1. step' = [step EXCEPT !.done = @ + 1]
      BY <2>1 DEF CommitEnqueued
    <3>2. step'.phase = "commit" /\ step'.done = k
      BY <1>1, <1>2, <3>1 DEF AsyncStepType
    <3>3. Counted(p)' = {l \in DOMAIN queue[p].selected : p = n => l <= k}
      BY <1>1, <3>2 DEF Counted, Phase
    <3>4. Counted(p) = {l \in DOMAIN queue[p].selected : p = n => l <= step.done}
      BY <1>1 DEF Counted, Phase
    <3>5. \A l \in 1..Len(step.chosen) : l <= k <=> l <= step.done \/ l = k
      BY <1>2
    <3>6. CASE p = n
      BY <1>8, <3>3, <3>4, <3>5, <3>6
    <3>7. CASE p # n
      BY <3>3, <3>4, <3>7
    <3> QED BY <3>6, <3>7
  <2>2. CASE ~(step.done + 1 < Len(step.chosen))
    <3>1. step' = [NoStep EXCEPT !.phase = IF Len(queue) = 1 THEN "pressure" ELSE "retire"]
      BY <2>2 DEF CommitEnqueued
    <3>2. step'.phase \in {"pressure", "retire"} /\ step'.done = 0
      BY <3>1 DEF NoStep
    <3>3. k = Len(step.chosen)
      BY <1>2, <2>2
    <3>4. Counted(p)' = DOMAIN queue[p].selected
      <4>1. Outstanding /\ DOMAIN queue'[p].selected = DOMAIN queue[p].selected
        BY <1>1, <1>3
      <4>2. \A l \in DOMAIN queue[p].selected : p = 1 => l > 0
        BY <1>3, QueueAt, PlacesAt
      <4> QED BY <1>1, <3>2, <4>1, <4>2 DEF Counted, Phase
    <3>5. Counted(p) = {l \in DOMAIN queue[p].selected : p = n => l <= step.done}
      BY <1>1 DEF Counted, Phase
    <3>6. \A l \in 1..Len(step.chosen) : l <= step.done \/ l = k
      BY <1>2, <3>3
    <3>7. CASE p = n
      BY <1>8, <3>4, <3>5, <3>6, <3>7
    <3>8. CASE p # n
      BY <3>4, <3>5, <3>8
    <3> QED BY <3>7, <3>8
  <2> QED BY <2>1, <2>2
<1> QED BY <1>1, <1>2, <1>5, <1>6, <1>8, <1>9, <1>11, <1>12

(* What a use or a sample makes of a request.                              *)
LEMMA CountUseIs ==
  ASSUME NEW q \in RequestType, NEW head \in BOOLEAN, NEW r, r = CountUse(q, head), q.state \in {PREFILL, DECODE}
  PROVE  /\ r \in RequestType /\ r.ticket = q.ticket /\ r.sequence = q.sequence
         /\ r.state \in {PREFILL, DECODE} /\ r.uses = q.uses + 1 /\ r.samples = q.samples + One(head)
         /\ head => r.state = DECODE
<1>1. PICK uses \in Nat, samples \in Nat : uses = q.uses + 1 /\ samples = q.samples + 1
  BY DEF RequestType
<1>2. r = IF head THEN [q EXCEPT !.uses = uses, !.samples = samples, !.state = DECODE]
          ELSE [q EXCEPT !.uses = uses]
  BY <1>1 DEF CountUse
<1>3. q.samples \in Nat
  BY DEF RequestType
<1>4. CASE head
  <2>1. r = [q EXCEPT !.uses = uses, !.samples = samples, !.state = DECODE]
    BY <1>2, <1>4
  <2>2. r \in RequestType /\ r.ticket = q.ticket /\ r.sequence = q.sequence /\ r.state = DECODE
        /\ r.uses = uses /\ r.samples = samples
    BY <2>1 DEF RequestType
  <2> QED BY <1>1, <1>4, <2>2 DEF One
<1>5. CASE ~head
  <2>1. r = [q EXCEPT !.uses = uses]
    BY <1>2, <1>5
  <2>2. r \in RequestType /\ r.ticket = q.ticket /\ r.sequence = q.sequence /\ r.state = q.state
        /\ r.uses = uses /\ r.samples = q.samples
    BY <2>1 DEF RequestType
  <2> QED BY <1>1, <1>3, <1>5, <2>2 DEF One
<1> QED BY <1>4, <1>5

(* The uses counted are those the queue has, when a sequence is committed. *)
LEMMA CommitCounts ==
  ASSUME AsyncRunning, CommitEnqueued
  PROVE  /\ Roster' /\ \A j \in DOMAIN requests : Held(j) => Keeps(j)
         /\ UNCHANGED <<tables, active, entries, call>>
         /\ DOMAIN requests' = DOMAIN requests
         /\ \A j : Runs(j) => Runs(j)'
         /\ \A j \in DOMAIN requests : requests'[j].ticket = requests[j].ticket
         /\ Accounted'
<1>1. PICK n, k, i : n = Len(queue) /\ k = step.done + 1 /\ i = step.chosen[k].index
  OBVIOUS
<1>2. /\ step.phase = "commit" /\ Commit(Sequence) /\ UNCHANGED <<cacheVars, mode, nextTicket, failed, queue>>
      /\ requests' = [requests EXCEPT ![Current.index] = CountUse(@, queue[Len(queue)].results[step.done + 1] # <<>>)]
  BY DEF CommitEnqueued, Phase, Stepping
<1>3. /\ n \in DOMAIN queue /\ queue[n] \in Ticketed /\ Queued(queue[n]) /\ n \in {1, 2}
      /\ k \in DOMAIN queue[n].selected
      /\ i = queue[n].selected[k] /\ i \in DOMAIN requests /\ Runs(i)
      /\ requests[i].ticket = queue[n].tickets[k]
      /\ k \notin Counted(n) /\ DOMAIN queue \subseteq {1, 2}
      /\ \A p \in DOMAIN queue : Counted(p)' = IF p = n THEN Counted(p) \cup {k} ELSE Counted(p)
  BY <1>1, CommitAt
<1>4. /\ Held(i) /\ requests[i].sequence \in Slot /\ ~failed /\ call = Idle /\ call.op = "none"
      /\ Current = step.chosen[k] /\ Sequence = requests[i].sequence
  BY <1>1, <1>2, SubmittingAt
<1>5. /\ Roster /\ requests \in Seq(RequestType) /\ Outstanding /\ failed \in BOOLEAN
      /\ DOMAIN requests = 1..Len(requests)
  BY AsyncParts
<1>6. PICK q : q = requests[i]
  OBVIOUS
<1>7. q \in RequestType /\ q.state \in {PREFILL, DECODE} /\ q.sequence # 0
  <2>1. requests[i] \in RequestType
    BY <1>3, <1>5, ElementOfSeq
  <2> QED BY <1>3, <1>4, <1>6, <2>1 DEF Runs, Held
<1>8. PICK head \in BOOLEAN : head = (queue[n].results[k] # <<>>)
  OBVIOUS
<1>9. PICK r : r = CountUse(q, head)
  OBVIOUS
<1>10. requests' = [requests EXCEPT ![i] = r]
  BY <1>1, <1>2, <1>4, <1>6, <1>8, <1>9
<1>11. /\ r \in RequestType /\ r.ticket = q.ticket /\ r.sequence = q.sequence
       /\ r.state \in {PREFILL, DECODE} /\ r.uses = q.uses + 1 /\ r.samples = q.samples + One(head)
  BY <1>7, <1>9, CountUseIs
<1>12. CacheInv(Tenant, Token)' /\ UNCHANGED <<tables, active, entries, call>>
  <2>1. PICK s \in Slot : s = Sequence
    BY <1>4
  <2>2. Commit(s)
    BY <1>2, <2>1
  <2> QED BY <1>2, <2>2, RowsMove
<1>13. /\ Roster' /\ DOMAIN requests' = DOMAIN requests /\ requests'[i] = r
       /\ \A j \in DOMAIN requests : j # i => requests'[j] = requests[j]
       /\ \A j \in DOMAIN requests : Held(j) => Keeps(j)
  <2>1. r.sequence # 0 <=> r.state \in {PREFILL, DECODE, DRAINING}
    BY <1>7, <1>11
  <2>2. r.ticket = requests[i].ticket /\ r.sequence = requests[i].sequence
    BY <1>6, <1>11
  <2>3. UNCHANGED <<active, tables, nextTicket, mode>> /\ failed' \in BOOLEAN
    BY <1>2, <1>5, <1>12
  <2>4. call.op # "reserve" /\ call'.op # "reserve"
    BY <1>4, <1>12
  <2> QED BY <1>3, <1>5, <1>10, <1>11, <1>12, <2>1, <2>2, <2>3, <2>4, HoldsStill
<1>14. \A j : Runs(j) => Runs(j)'
  BY <1>11, <1>13 DEF Runs
<1>15. \A j \in DOMAIN requests : requests'[j].ticket = requests[j].ticket
  BY <1>6, <1>11, <1>13
<1>16. \A j : /\ UsesOf(j)' = UsesOf(j) + One(j = i) /\ SamplesOf(j)' = SamplesOf(j) + One(j = i /\ head)
  <2>1. \A j : /\ UsesOf(j)' = UsesOf(j) + One(j = i)
               /\ SamplesOf(j)' = SamplesOf(j) + One(j = i /\ queue[n].results[k] # <<>>)
    BY <1>2, <1>3, CountsOneMore
  <2> QED BY <1>8, <2>1
<1>17. Accounted
  BY <1>4, <1>5 DEF Outstanding
<1>18. ASSUME NEW j \in DOMAIN requests
       PROVE  /\ requests'[j].uses = UsesOf(j)' /\ requests'[j].samples = SamplesOf(j)'
              /\ requests'[j].uses > 0 => Held(j)'
              /\ requests'[j].state = DRAINING => requests'[j].uses > 0
  <2>1. /\ requests[j].uses = UsesOf(j) /\ requests[j].samples = SamplesOf(j)
        /\ requests[j].uses > 0 => Held(j)
        /\ requests[j].state = DRAINING => requests[j].uses > 0
    BY <1>17 DEF Accounted
  <2>2. /\ UsesOf(j)' = UsesOf(j) + One(j = i) /\ SamplesOf(j)' = SamplesOf(j) + One(j = i /\ head)
    BY <1>16
  <2>3. UsesOf(j) \in Nat /\ SamplesOf(j) \in Nat
    BY DEF UsesOf, SamplesOf, One
  <2>4. CASE j = i
    <3>1. One(j = i) = 1 /\ One(j = i /\ head) = One(head) /\ One(head) \in {0, 1}
      BY <2>4 DEF One
    <3>2. requests'[j] = r /\ requests[j] = q
      BY <1>6, <1>13, <2>4
    <3>3. Held(j)'
      BY <1>4, <1>13, <2>4 DEF Keeps
    <3>4. r.uses = UsesOf(j) + 1 /\ r.samples = SamplesOf(j) + One(head)
      BY <1>11, <2>1, <3>2
    <3>5. r.uses = UsesOf(j)' /\ r.samples = SamplesOf(j)'
      BY <2>2, <3>1, <3>4
    <3>6. r.state # DRAINING
      BY <1>11
    <3> QED BY <3>2, <3>3, <3>5, <3>6
  <2>5. CASE j # i
    <3>1. requests'[j] = requests[j]
      BY <1>13, <2>5
    <3>2. One(j = i) = 0 /\ One(j = i /\ head) = 0
      BY <2>5 DEF One
    <3>3. requests[j].uses > 0 => Held(j)'
      BY <1>13, <2>1 DEF Keeps
    <3>4. UsesOf(j)' = UsesOf(j) /\ SamplesOf(j)' = SamplesOf(j)
      BY <2>2, <2>3, <3>2
    <3> QED BY <2>1, <3>1, <3>3, <3>4
  <2> QED BY <2>4, <2>5
<1>19. ASSUME NEW p \in DOMAIN queue, NEW l \in Counted(p)'
       PROVE  /\ queue[p].selected[l] \in DOMAIN requests'
              /\ requests'[queue[p].selected[l]].ticket = queue[p].tickets[l]
  <2>1. CASE l \in Counted(p)
    BY <1>13, <1>15, <1>17, <2>1 DEF Accounted
  <2>2. CASE p = n /\ l = k
    BY <1>3, <1>13, <1>15, <2>2
  <2> QED BY <1>3, <2>1, <2>2
<1>20. Accounted'
  BY <1>2, <1>13, <1>18, <1>19 DEF Accounted
<1> QED BY <1>12, <1>13, <1>14, <1>15, <1>20

(* Sequence by sequence the batch is committed; then the call waits for    *)
(* its predecessor, or is over but for its successor.                      *)
LEMMA CommitOK ==
  ASSUME AsyncRunning, enabled, CommitEnqueued
  PROVE  AsyncRunning'
<1>1. /\ step.phase = "commit" /\ UNCHANGED <<cacheVars, mode, failed>> /\ UNCHANGED Stepping
  BY DEF CommitEnqueued, Phase
<1>2. UNCHANGED <<queue, inflight, draining>>
  BY <1>1 DEF Stepping
<1>3. /\ Roster' /\ \A j \in DOMAIN requests : Held(j) => Keeps(j)
      /\ UNCHANGED <<tables, active, entries, call>>
      /\ DOMAIN requests' = DOMAIN requests
      /\ \A j : Runs(j) => Runs(j)'
      /\ \A j \in DOMAIN requests : requests'[j].ticket = requests[j].ticket
      /\ Accounted'
  BY CommitCounts
<1>4. /\ Outstanding /\ Waits /\ Batched /\ Uncached /\ step \in AsyncStepType /\ failed \in BOOLEAN
  BY AsyncParts
<1>5. /\ step.done \in Nat /\ Len(step.chosen) \in Nat /\ step.done < Len(step.chosen) /\ ~failed /\ ~draining
      /\ call.op = "none" /\ DOMAIN step.chosen = 1..Len(step.chosen)
  BY <1>1, SubmittingAt
<1>6. Flying'
  <2>1. Collected = 0
    BY <1>1 DEF Collected, Phase
  <2>2. step'.done = 0 \/ step'.phase = "commit"
    BY <1>1, <1>4 DEF CommitEnqueued, NoStep, AsyncStepType
  <2>3. ~(0 > 0)
    OBVIOUS
  <2>4. Collected' = 0
    BY <2>2, <2>3 DEF Collected, Phase
  <2> QED BY <1>2, <1>3, <1>4, <1>5, <2>1, <2>4, FlyingKept DEF Outstanding
<1>7. Len(queue) \in {1, 2} /\ DOMAIN queue = 1..Len(queue)
  BY <1>1, <1>4, QueueAt DEF Waits
<1>8. CASE step.done + 1 < Len(step.chosen)
  <2>1. step' = [step EXCEPT !.done = @ + 1]
    BY <1>8 DEF CommitEnqueued
  <2>2. PICK done \in Nat : done = step.done + 1
    BY <1>5
  <2>3. step' = [step EXCEPT !.done = done]
    BY <2>1, <2>2
  <2>4. /\ step' \in AsyncStepType /\ step'.phase = "commit" /\ step'.chosen = step.chosen /\ step'.done = done
    BY <1>1, <1>4, <2>3 DEF AsyncStepType
  <2>5. Submitted'
    <3>1. PICK n : n = Len(queue)
      OBVIOUS
    <3>2. /\ Len(queue[n].selected) = Len(step.chosen)
          /\ \A k \in DOMAIN step.chosen : queue[n].selected[k] = step.chosen[k].index
                                           /\ queue[n].tickets[k] = requests[queue[n].selected[k]].ticket
      BY <1>1, <1>4, <1>5, <3>1 DEF Outstanding, Submitted, Phase
    <3>3. \A k \in DOMAIN step.chosen : queue[n].selected[k] \in DOMAIN requests
      BY <1>4, <3>2 DEF Batched, Runs
    <3>4. \A k \in DOMAIN step.chosen : queue[n].selected[k] = step.chosen[k].index
                                        /\ queue[n].tickets[k] = requests'[queue[n].selected[k]].ticket
      BY <1>3, <3>2, <3>3
    <3> QED BY <1>2, <2>4, <3>1, <3>2, <3>4 DEF Submitted, Phase
  <2>6. Outstanding'
    BY <1>1, <1>2, <1>3, <1>4, <1>5, <1>6, <2>5 DEF Outstanding
  <2>7. Batched'
    <3>1. step'.phase \notin Still \cup Choosing
      BY <2>4 DEF Still, Choosing
    <3>2. \A k \in DOMAIN step'.chosen : Runs(step.chosen[k].index)'
      <4>1. ASSUME NEW k \in DOMAIN step.chosen, NEW j, j = step.chosen[k].index PROVE Runs(j)'
        BY <1>3, <1>4, <4>1 DEF Batched
      <4> QED BY <2>4, <4>1 DEF Runs
    <3>3. \A k, l \in DOMAIN step.chosen : step.chosen[k].index = step.chosen[l].index => k = l
      BY <1>4 DEF Batched
    <3>4. step'.done < Len(step'.chosen)
      BY <1>8, <2>2, <2>4
    <3> QED BY <2>4, <3>1, <3>2, <3>3, <3>4 DEF Batched
  <2>8. Aim'
    BY <2>4 DEF Aim, Phase
  <2>9. Waits'
    BY <1>1, <1>2, <1>4, <1>5, <2>4 DEF Waits, Phase, Choosing
  <2>10. Uncached'
    BY <1>1, <1>3, <1>4, <1>5, <2>4 DEF Uncached, Phase
  <2> QED BY <1>3, <2>4, <2>6, <2>7, <2>8, <2>9, <2>10 DEF AsyncRunning
<1>9. CASE ~(step.done + 1 < Len(step.chosen))
  <2>1. PICK p \in {"pressure", "retire"} : p = IF Len(queue) = 1 THEN "pressure" ELSE "retire"
    OBVIOUS
  <2>2. step' = [NoStep EXCEPT !.phase = p]
    BY <1>9, <2>1 DEF CommitEnqueued
  <2>3. /\ step' \in AsyncStepType /\ step'.phase = p /\ step'.chosen = <<>> /\ step'.done = 0
    <3>1. p \in Still \cup {"decode", "prefill"}
      BY DEF Still
    <3> QED BY <1>4, <2>2, <3>1, NewStep
  <2>4. Batched' /\ Aim'
    BY <2>3, NothingChosen DEF Still
  <2>5. Submitted'
    BY <2>3 DEF Submitted, Phase
  <2>6. Outstanding'
    BY <1>1, <1>2, <1>3, <1>4, <1>5, <1>6, <2>5 DEF Outstanding
  <2>7. Waits'
    <3>1. \A e \in Ticketed : Queued(e) => 0 < Len(e.selected)
      BY PlacesAt
    <3>2. queue[1] \in Ticketed /\ Queued(queue[1]) /\ queue # <<>>
      BY <1>4, <1>7, QueueAt
    <3>3. 0 < Len(queue[1].selected)
      BY <3>1, <3>2
    <3>4. p = "pressure" => Len(queue) = 1
      BY <2>1
    <3> QED BY <1>1, <1>2, <1>5, <2>3, <3>2, <3>3, <3>4 DEF Waits, Phase, Choosing
  <2>8. Uncached'
    BY <1>1, <1>3, <1>4, <1>5, <2>3 DEF Uncached, Phase
  <2> QED BY <1>3, <2>3, <2>4, <2>6, <2>7, <2>8 DEF AsyncRunning
<1> QED BY <1>8, <1>9
-----------------------------------------------------------------------------
(* What retires is a use of the oldest step, of a request that has it.     *)
LEMMA RetireAt ==
  ASSUME AsyncRunning, RetireNext, NEW k, k = step.done + 1, NEW i, i = queue[1].selected[k]
  PROVE  /\ step.phase = "retire" /\ ~failed /\ Outstanding /\ call.op = "none"
         /\ step \in AsyncStepType /\ step.done \in Nat /\ k \in Nat /\ step.chosen = <<>>
         /\ 1 \in DOMAIN queue /\ queue # <<>> /\ queue[1] \in Ticketed /\ Queued(queue[1])
         /\ queue \in Seq(Ticketed) /\ Len(queue) \in {1, 2} /\ DOMAIN queue = 1..Len(queue)
         /\ k \in DOMAIN queue[1].selected /\ DOMAIN queue[1].selected = 1..Len(queue[1].selected)
         /\ Len(queue[1].selected) \in Nat /\ step.done < Len(queue[1].selected)
         /\ Counted(1) = {l \in DOMAIN queue[1].selected : l > step.done} /\ k \in Counted(1)
         /\ 2 \in DOMAIN queue =>
              Counted(2) = DOMAIN queue[2].selected /\ queue[2] \in Ticketed /\ Queued(queue[2])
         /\ i \in DOMAIN requests /\ requests[i].uses > 0 /\ Held(i) /\ Retiree = i
         /\ Result = queue[1].results[k] /\ (Result = <<>> \/ \E token \in Sampled : Result = <<token>>)
<1>1. step.phase = "retire" /\ ~failed
  BY DEF RetireNext, Phase
<1>2. /\ Outstanding /\ Waits /\ Uncached /\ step \in AsyncStepType /\ Batched
  BY AsyncParts
<1>3. step.done \in Nat /\ k \in Nat
  BY <1>2, AsyncStepAt
<1>4. queue # <<>> /\ step.done < Len(queue[1].selected) /\ call.op = "none"
  BY <1>1, <1>2 DEF Waits, Uncached, Phase
<1>5. queue \in Seq(Ticketed) /\ Len(queue) \in {1, 2} /\ DOMAIN queue = 1..Len(queue)
  BY <1>2, <1>4, QueueAt
<1>6. 1 \in DOMAIN queue /\ queue[1] \in Ticketed /\ Queued(queue[1])
  BY <1>2, <1>5, QueueAt
<1>7. /\ Len(queue[1].selected) \in Nat /\ DOMAIN queue[1].selected = 1..Len(queue[1].selected)
      /\ \A l \in DOMAIN queue[1].selected :
           queue[1].results[l] = <<>> \/ \E token \in Sampled : queue[1].results[l] = <<token>>
  BY <1>6, PlacesAt
<1>8. k \in DOMAIN queue[1].selected
  BY <1>3, <1>4, <1>7
<1>9. Counted(1) = {l \in DOMAIN queue[1].selected : l > step.done}
  BY <1>1 DEF Counted, Phase
<1>10. k \in Counted(1)
  BY <1>3, <1>8, <1>9
<1>11. ASSUME 2 \in DOMAIN queue
       PROVE  Counted(2) = DOMAIN queue[2].selected /\ queue[2] \in Ticketed /\ Queued(queue[2])
  BY <1>1, <1>2, <1>11, QueueAt DEF Counted, Phase
<1>12. i \in DOMAIN requests /\ requests[i].uses > 0 /\ Held(i)
  BY <1>1, <1>2, <1>6, <1>10, UseCounts
<1>13. Retiree = i /\ Result = queue[1].results[k]
  BY DEF Retiree, Result
<1>14. step.chosen = <<>>
  BY <1>1, <1>2 DEF Batched, Still
<1> QED BY <1>1, <1>2, <1>3, <1>4, <1>5, <1>6, <1>7, <1>8, <1>9, <1>10, <1>11, <1>12, <1>13, <1>14

(* The queue after it: that use gone, the others as they were.             *)
LEMMA RetireQueues ==
  ASSUME AsyncRunning, RetireNext, NEW k, k = step.done + 1, NEW i, i = queue[1].selected[k]
  PROVE  /\ queue' \in Seq(Ticketed) /\ Len(queue') <= 2 /\ \A p \in DOMAIN queue' : Queued(queue'[p])
         /\ \A p \in DOMAIN queue' : \A l \in Counted(p)' :
              \E m \in DOMAIN queue : /\ l \in Counted(m) /\ queue'[p].selected[l] = queue[m].selected[l]
                                      /\ queue'[p].tickets[l] = queue[m].tickets[l]
         /\ \A j : /\ UsesOf(j) = UsesOf(j)' + One(j = i)
                   /\ SamplesOf(j) = SamplesOf(j)' + One(j = i /\ Result # <<>>)
<1>1. /\ step.phase = "retire" /\ step \in AsyncStepType /\ step.done \in Nat /\ k \in Nat
      /\ 1 \in DOMAIN queue /\ queue # <<>> /\ queue[1] \in Ticketed /\ Queued(queue[1])
      /\ queue \in Seq(Ticketed) /\ Len(queue) \in {1, 2} /\ DOMAIN queue = 1..Len(queue)
      /\ k \in DOMAIN queue[1].selected /\ DOMAIN queue[1].selected = 1..Len(queue[1].selected)
      /\ Len(queue[1].selected) \in Nat /\ step.done < Len(queue[1].selected)
      /\ Counted(1) = {l \in DOMAIN queue[1].selected : l > step.done} /\ k \in Counted(1)
      /\ 2 \in DOMAIN queue =>
           Counted(2) = DOMAIN queue[2].selected /\ queue[2] \in Ticketed /\ Queued(queue[2])
      /\ Result = queue[1].results[k]
  BY RetireAt
<1>2. \A l \in Counted(1) : queue[1].selected[l] = i => l = k
  BY <1>1 DEF Queued
<1>3. CASE k = Len(queue[1].selected)
  <2>1. queue' = Tail(queue) /\ step' = NoStep
    BY <1>3 DEF RetireNext
  <2>2. step'.phase = "idle"
    BY <2>1, IdleStep
  <2>3. /\ queue' \in Seq(Ticketed) /\ Len(queue') = Len(queue) - 1
        /\ \A p \in 1..Len(queue') : queue'[p] = queue[p + 1]
    BY <1>1, <2>1, HeadTailProperties
  <2>4. DOMAIN queue' = 1..Len(queue')
    BY <2>3
  <2>5. /\ 2 \notin DOMAIN queue' /\ (1 \in DOMAIN queue' <=> 2 \in DOMAIN queue)
        /\ 1 \in DOMAIN queue' => queue'[1] = queue[2]
        /\ \A p \in DOMAIN queue' : p = 1
    BY <1>1, <2>3, <2>4
  <2>6. 1 \in DOMAIN queue' => Counted(1)' = DOMAIN queue[2].selected
    BY <2>2, <2>5 DEF Counted, Phase
  <2>7. Counted(1) = {k}
    BY <1>1, <1>3
  <2>8. ASSUME NEW j
        PROVE  /\ UsesOf(j) = UsesOf(j)' + One(j = i)
               /\ SamplesOf(j) = SamplesOf(j)' + One(j = i /\ Result # <<>>)
    <3>1. /\ (1 \in DOMAIN queue /\ Uses(1, j)) <=> j = i
          /\ (1 \in DOMAIN queue /\ Selects(1, j)) <=> j = i /\ Result # <<>>
      BY <1>1, <2>7 DEF Uses, Selects
    <3>2. /\ (1 \in DOMAIN queue /\ Uses(1, j))' <=> (2 \in DOMAIN queue /\ Uses(2, j))
          /\ (1 \in DOMAIN queue /\ Selects(1, j))' <=> (2 \in DOMAIN queue /\ Selects(2, j))
      <4>1. CASE 2 \in DOMAIN queue
        <5>1. 1 \in DOMAIN queue' /\ queue'[1] = queue[2] /\ Counted(1)' = Counted(2)
          BY <1>1, <2>5, <2>6, <4>1
        <5> QED BY <4>1, <5>1 DEF Uses, Selects
      <4>2. CASE 2 \notin DOMAIN queue
        BY <2>5, <4>2
      <4> QED BY <4>1, <4>2
    <3>3. /\ ~(2 \in DOMAIN queue /\ Uses(2, j))' /\ ~(2 \in DOMAIN queue /\ Selects(2, j))'
      BY <2>5
    <3> QED BY <3>1, <3>2, <3>3 DEF UsesOf, SamplesOf, One
  <2>9. ASSUME NEW p \in DOMAIN queue', NEW l \in Counted(p)'
        PROVE  \E m \in DOMAIN queue : /\ l \in Counted(m) /\ queue'[p].selected[l] = queue[m].selected[l]
                                       /\ queue'[p].tickets[l] = queue[m].tickets[l]
    <3>1. p = 1 /\ 2 \in DOMAIN queue /\ queue'[p] = queue[2]
      BY <2>5
    <3>2. l \in Counted(2)
      BY <1>1, <2>5, <2>6, <2>9, <3>1
    <3> QED BY <3>1, <3>2
  <2>10. \A p \in DOMAIN queue' : Queued(queue'[p])
    BY <1>1, <2>5
  <2> QED BY <1>1, <2>3, <2>8, <2>9, <2>10
<1>4. CASE k # Len(queue[1].selected)
  <2>1. /\ queue' = [queue EXCEPT ![1].results[step.done + 1] = <<>>] /\ step' = [step EXCEPT !.done = @ + 1]
    BY <1>4 DEF RetireNext
  <2>2. step'.phase = "retire" /\ step'.done = k
    BY <1>1, <2>1 DEF AsyncStepType
  <2>3. PICK e : e = [queue[1] EXCEPT !.results[k] = <<>>]
    OBVIOUS
  <2>4. queue' = [queue EXCEPT ![1] = e]
    BY <2>1, <2>3
  <2>5. /\ e \in Ticketed /\ e.selected = queue[1].selected /\ e.tickets = queue[1].tickets
        /\ Len(e.results) = Len(queue[1].results)
        /\ \A l \in DOMAIN queue[1].selected : l # k => e.results[l] = queue[1].results[l]
    <3>1. /\ queue[1].selected \in Seq(Nat) /\ queue[1].tickets \in Seq(Nat)
          /\ queue[1].results \in Seq({<<>>} \cup {<<token>> : token \in Sampled})
          /\ DOMAIN queue[1].results = 1..Len(queue[1].selected)
      BY <1>1, PlacesAt DEF Ticketed
    <3>2. PICK results, none : results = queue[1].results /\ none = <<>>
      OBVIOUS
    <3>3. PICK R : R = {<<>>} \cup {<<token>> : token \in Sampled}
      OBVIOUS
    <3>4. results \in Seq(R) /\ none \in R /\ k \in DOMAIN results
      BY <1>1, <3>1, <3>2, <3>3
    <3>5. /\ [results EXCEPT ![k] = none] \in Seq(R) /\ Len([results EXCEPT ![k] = none]) = Len(results)
          /\ \A l \in DOMAIN results : l # k => [results EXCEPT ![k] = none][l] = results[l]
      BY <3>4
    <3>6. e = [queue[1] EXCEPT !.results = [results EXCEPT ![k] = none]]
      BY <2>3, <3>2
    <3> QED BY <1>1, <3>1, <3>2, <3>3, <3>5, <3>6 DEF Ticketed
  <2>6. /\ queue' \in Seq(Ticketed) /\ Len(queue') = Len(queue) /\ DOMAIN queue' = DOMAIN queue
        /\ queue'[1] = e /\ \A p \in DOMAIN queue : p # 1 => queue'[p] = queue[p]
    BY <1>1, <2>4, <2>5
  <2>7. Queued(e)
    BY <1>1, <2>5 DEF Queued
  <2>8. \A p \in DOMAIN queue' : Queued(queue'[p])
    BY <1>1, <2>6, <2>7
  <2>9. Counted(1)' = Counted(1) \ {k} /\ (2 \in DOMAIN queue => Counted(2)' = Counted(2) /\ queue'[2] = queue[2])
    <3>1. Counted(1)' = {l \in DOMAIN queue[1].selected : l > k}
      BY <2>2, <2>5, <2>6 DEF Counted, Phase
    <3>2. \A l \in 1..Len(queue[1].selected) : l > k <=> l > step.done /\ l # k
      BY <1>1
    <3>3. 2 \in DOMAIN queue => queue'[2] = queue[2]
      BY <2>6
    <3>4. 2 \in DOMAIN queue => Counted(2)' = DOMAIN queue'[2].selected
      BY <2>2 DEF Counted, Phase
    <3> QED BY <1>1, <3>1, <3>2, <3>3, <3>4
  <2>10. ASSUME NEW j
         PROVE  /\ UsesOf(j) = UsesOf(j)' + One(j = i)
                /\ SamplesOf(j) = SamplesOf(j)' + One(j = i /\ Result # <<>>)
    <3>1. /\ Uses(1, j) <=> Uses(1, j)' \/ j = i
          /\ Selects(1, j) <=> Selects(1, j)' \/ (j = i /\ Result # <<>>)
          /\ j = i => ~Uses(1, j)' /\ ~Selects(1, j)'
      <4>1. /\ Uses(1, j)' <=> \E l \in Counted(1) \ {k} : queue[1].selected[l] = j
            /\ Selects(1, j)' <=> \E l \in Counted(1) \ {k} : queue[1].selected[l] = j /\ e.results[l] # <<>>
        BY <2>5, <2>6, <2>9 DEF Uses, Selects
      <4>2. \A l \in Counted(1) \ {k} : l \in DOMAIN queue[1].selected /\ l # k /\ queue[1].selected[l] # i
        BY <1>1, <1>2
      <4>3. \A l \in Counted(1) \ {k} : e.results[l] = queue[1].results[l]
        BY <2>5, <4>2
      <4> QED BY <1>1, <4>1, <4>2, <4>3 DEF Uses, Selects
    <3>2. /\ (2 \in DOMAIN queue /\ Uses(2, j))' <=> (2 \in DOMAIN queue /\ Uses(2, j))
          /\ (2 \in DOMAIN queue /\ Selects(2, j))' <=> (2 \in DOMAIN queue /\ Selects(2, j))
      BY <2>6, <2>9 DEF Uses, Selects
    <3>3. 1 \in DOMAIN queue /\ 1 \in DOMAIN queue'
      BY <1>1, <2>6
    <3> QED BY <3>1, <3>2, <3>3 DEF UsesOf, SamplesOf, One
  <2>11. ASSUME NEW p \in DOMAIN queue', NEW l \in Counted(p)'
         PROVE  \E m \in DOMAIN queue : /\ l \in Counted(m) /\ queue'[p].selected[l] = queue[m].selected[l]
                                        /\ queue'[p].tickets[l] = queue[m].tickets[l]
    <3>1. p \in DOMAIN queue /\ queue'[p].selected = queue[p].selected /\ queue'[p].tickets = queue[p].tickets
      BY <2>5, <2>6
    <3>2. p = 1 \/ p = 2
      BY <1>1, <3>1
    <3>3. l \in Counted(p)
      BY <2>9, <2>11, <3>1, <3>2
    <3> QED BY <3>1, <3>3
  <2> QED BY <1>1, <2>6, <2>8, <2>10, <2>11
<1> QED BY <1>3, <1>4

(* What its result makes of the request: one use less, its tokens perhaps  *)
(* one more, and perhaps its end.                                          *)
Settles(q, r) ==
  /\ r \in RequestType /\ r.ticket = q.ticket /\ r.sequence = q.sequence
  /\ r.uses = q.uses - 1 /\ r.samples = q.samples - One(Result # <<>>)
  /\ r.state \in {q.state, DRAINING}

(* A retired use settles the request.                                      *)
LEMMA SettledIs ==
  ASSUME NEW q \in RequestType, q.uses > 0, Result # <<>> => q.samples > 0, NEW r, r = Settled(q)
  PROVE  Settles(q, r) /\ r.state = q.state /\ r.tokens = q.tokens
<1>1. q.uses \in Nat /\ q.samples \in Nat
  BY DEF RequestType
<1>2. PICK uses \in Nat : uses = q.uses - 1
  BY <1>1
<1>3. PICK samples \in Nat : samples = q.samples - One(Result # <<>>)
  BY <1>1 DEF One
<1>4. r = [q EXCEPT !.uses = uses, !.samples = samples]
  <2>1. CASE Result = <<>>
    <3>1. samples = q.samples
      BY <1>1, <1>3, <2>1 DEF One
    <3>2. r = [q EXCEPT !.uses = uses, !.samples = q.samples]
      BY <1>2, <2>1 DEF Settled
    <3> QED BY <3>1, <3>2
  <2>2. CASE Result # <<>>
    <3>1. samples = q.samples - 1
      BY <1>1, <1>3, <2>2 DEF One
    <3>2. r = [q EXCEPT !.uses = uses, !.samples = q.samples - 1]
      BY <1>2, <2>2 DEF Settled
    <3> QED BY <3>1, <3>2
  <2> QED BY <2>1, <2>2
<1>5. /\ r \in RequestType /\ r.ticket = q.ticket /\ r.sequence = q.sequence
      /\ r.uses = uses /\ r.samples = samples /\ r.state = q.state /\ r.tokens = q.tokens
  BY <1>4 DEF RequestType
<1> QED BY <1>2, <1>3, <1>5 DEF Settles

(* A request concluded keeps its blocks for the uses it has left.          *)
LEMMA Concludes ==
  ASSUME AsyncRunning, RetireNext, NEW i, i = Retiree, NEW r, Settles(requests[i], r), Conclude(i, r),
         KeepRows
  PROVE  /\ Roster' /\ DOMAIN requests' = DOMAIN requests /\ UNCHANGED <<entries, call>>
         /\ \A j \in DOMAIN requests : requests'[j].ticket = requests[j].ticket
         /\ \A j \in DOMAIN requests : j # i => requests'[j] = requests[j]
         /\ \A j \in DOMAIN requests : Held(j) /\ (j # i \/ requests'[j].uses > 0) => Keeps(j)
         /\ requests'[i].uses = r.uses /\ requests'[i].samples = r.samples
         /\ requests'[i].state = DRAINING => requests'[i].uses > 0
<1>1. /\ step.phase = "retire" /\ ~failed /\ call.op = "none" /\ i \in DOMAIN requests /\ Held(i)
  BY RetireAt
<1>2. UNCHANGED <<cacheVars, mode, nextTicket, failed, enabled>> /\ UNCHANGED <<entries, call, mode, nextTicket>>
  BY DEF RetireNext, cacheVars
<1>3. Roster /\ failed' \in BOOLEAN /\ CacheInv(Tenant, Token)
  BY <1>2, AsyncParts
<1>4. PICK q : q = requests[i]
  OBVIOUS
<1>5. q.sequence # 0 /\ q.state \in {PREFILL, DECODE, DRAINING} /\ q \in RequestType
  <2>1. requests[i].sequence \in Slot /\ requests[i].state \in {PREFILL, DECODE, DRAINING}
    BY <1>1, <1>3, RosterResident
  <2>2. requests[i] \in RequestType
    BY <1>1, <1>3, AsyncParts, ElementOfSeq
  <2> QED BY <1>4, <2>1, <2>2
<1>6. /\ r \in RequestType /\ r.ticket = q.ticket /\ r.sequence = q.sequence /\ r.uses = q.uses - 1
      /\ r.samples = q.samples - One(Result # <<>>) /\ r.state \in {PREFILL, DECODE, DRAINING}
  BY <1>4, <1>5 DEF Settles
<1>7. CASE Gone(r)
  <2>1. requests' = [requests EXCEPT ![i] = Retired(r)] /\ ReleaseHeld(i) /\ r.uses = 0
    BY <1>7 DEF Conclude, Gone
  <2>2. PICK t : t = Retired(r)
    OBVIOUS
  <2>3. t = With(r, <<>>, 0, 0, FINISHED, 0, FALSE)
    BY <1>6, <2>2, WithChanges
  <2>4. t \in RequestType
    <3>1. PICK e : e = <<>>
      OBVIOUS
    <3>2. e \in Seq(Token) /\ 0 \in 0..MaxSlots
      BY <3>1, GeometryAssumption
    <3>3. PICK b : b = FALSE
      OBVIOUS
    <3>4. b \in BOOLEAN /\ 0 \in Nat
      BY <3>3
    <3>5. With(r, e, 0, 0, FINISHED, 0, b) \in RequestType
      BY <1>6, <3>2, <3>4, WithTyped
    <3> QED BY <2>3, <3>1, <3>3, <3>5
  <2>5. /\ t.ticket = r.ticket /\ t.state = FINISHED /\ t.sequence = 0
        /\ t.uses = r.uses /\ t.samples = r.samples
    BY <2>3 DEF With
  <2>6. Drops(i, t)
    BY <1>2, <1>4, <1>6, <2>1, <2>2, <2>4, <2>5 DEF Drops, ReleaseHeld
  <2>7. /\ Roster' /\ DOMAIN requests' = DOMAIN requests /\ requests'[i] = t
        /\ \A j \in DOMAIN requests : j # i => requests'[j] = requests[j] /\ (Held(j) => Keeps(j))
    BY <1>1, <1>3, <2>6, DropsBlocks
  <2>8. \A j \in DOMAIN requests : requests'[j].ticket = requests[j].ticket
    BY <1>4, <1>6, <2>5, <2>7
  <2>9. requests'[i].uses = 0 /\ ~(requests'[i].uses > 0)
    BY <2>1, <2>5, <2>7
  <2>10. \A j \in DOMAIN requests : Held(j) /\ (j # i \/ requests'[j].uses > 0) => Keeps(j)
    BY <2>7, <2>9
  <2>11. requests'[i].uses = r.uses /\ requests'[i].samples = r.samples /\ requests'[i].state # DRAINING
    BY <2>5, <2>7
  <2> QED BY <1>2, <2>7, <2>8, <2>10, <2>11
<1>8. CASE ~Gone(r)
  <2>1. requests' = [requests EXCEPT ![i] = r] /\ UNCHANGED vars
    BY <1>8 DEF Conclude
  <2>2. UNCHANGED <<active, tables>>
    BY <2>1 DEF vars
  <2>3. CacheInv(Tenant, Token)'
    BY <1>2, <1>3, <2>1, StillCacheInv DEF KeepRows
  <2>4. call.op # "reserve" /\ call'.op # "reserve"
    BY <1>1, <1>2
  <2>5. /\ r.sequence # 0 <=> r.state \in {PREFILL, DECODE, DRAINING}
        /\ r.ticket = requests[i].ticket /\ r.sequence = requests[i].sequence
    BY <1>4, <1>5, <1>6
  <2>6. /\ Roster' /\ DOMAIN requests' = DOMAIN requests /\ requests'[i] = r
        /\ \A j \in DOMAIN requests : j # i => requests'[j] = requests[j]
        /\ \A j \in DOMAIN requests : Held(j) => Keeps(j)
    BY <1>1, <1>2, <1>3, <1>6, <2>1, <2>2, <2>3, <2>4, <2>5, HoldsStill
  <2>7. \A j \in DOMAIN requests : requests'[j].ticket = requests[j].ticket
    BY <1>4, <1>6, <2>6
  <2>8. r.state = DRAINING => r.uses > 0
    <3>1. q.uses \in Nat /\ q.uses > 0
      BY <1>1, <1>4, <1>5, RetireAt DEF RequestType
    <3> QED BY <1>6, <1>8, <3>1 DEF Gone
  <2> QED BY <1>2, <2>6, <2>7, <2>8
<1> QED BY <1>7, <1>8

(* A use retired leaves the other uses what they may use, and counted.     *)
LEMMA RetireOutstanding ==
  ASSUME AsyncRunning, RetireNext, NEW i, i = Retiree, NEW r, Settles(requests[i], r), Conclude(i, r),
         KeepRows
  PROVE  Outstanding'
<1>1. PICK k : k = step.done + 1
  OBVIOUS
<1>2. i = queue[1].selected[k]
  BY <1>1 DEF Retiree
<1>3. /\ step.phase = "retire" /\ ~failed /\ Outstanding
      /\ step.done \in Nat /\ k \in Nat /\ 1 \in DOMAIN queue
      /\ queue \in Seq(Ticketed) /\ Len(queue) \in {1, 2} /\ DOMAIN queue = 1..Len(queue)
      /\ step \in AsyncStepType
      /\ 2 \in DOMAIN queue =>
           Counted(2) = DOMAIN queue[2].selected /\ queue[2] \in Ticketed /\ Queued(queue[2])
      /\ i \in DOMAIN requests /\ requests[i].uses > 0 /\ Held(i)
  BY <1>1, <1>2, RetireAt
<1>4. /\ queue' \in Seq(Ticketed) /\ Len(queue') <= 2 /\ \A p \in DOMAIN queue' : Queued(queue'[p])
      /\ \A p \in DOMAIN queue' : \A l \in Counted(p)' :
           \E m \in DOMAIN queue : /\ l \in Counted(m) /\ queue'[p].selected[l] = queue[m].selected[l]
                                   /\ queue'[p].tickets[l] = queue[m].tickets[l]
      /\ \A j : /\ UsesOf(j) = UsesOf(j)' + One(j = i)
                /\ SamplesOf(j) = SamplesOf(j)' + One(j = i /\ Result # <<>>)
  BY <1>1, <1>2, RetireQueues
<1>5. /\ Roster' /\ DOMAIN requests' = DOMAIN requests
      /\ \A j \in DOMAIN requests : requests'[j].ticket = requests[j].ticket
      /\ \A j \in DOMAIN requests : j # i => requests'[j] = requests[j]
      /\ \A j \in DOMAIN requests : Held(j) /\ (j # i \/ requests'[j].uses > 0) => Keeps(j)
      /\ requests'[i].uses = r.uses /\ requests'[i].samples = r.samples
      /\ requests'[i].state = DRAINING => requests'[i].uses > 0
  BY Concludes
<1>6. Accounted /\ Flying
  BY <1>3 DEF Outstanding
<1>7. \A j : UsesOf(j) \in Nat /\ SamplesOf(j) \in Nat /\ UsesOf(j)' \in Nat /\ SamplesOf(j)' \in Nat
  BY DEF UsesOf, SamplesOf, One
<1>8. ASSUME NEW j \in DOMAIN requests
      PROVE  /\ requests'[j].uses = UsesOf(j)' /\ requests'[j].samples = SamplesOf(j)'
             /\ requests'[j].uses > 0 => Held(j)'
             /\ requests'[j].state = DRAINING => requests'[j].uses > 0
  <2>1. /\ requests[j].uses = UsesOf(j) /\ requests[j].samples = SamplesOf(j)
        /\ requests[j].uses > 0 => Held(j)
        /\ requests[j].state = DRAINING => requests[j].uses > 0
    BY <1>6 DEF Accounted
  <2>2. UsesOf(j) = UsesOf(j)' + One(j = i) /\ SamplesOf(j) = SamplesOf(j)' + One(j = i /\ Result # <<>>)
    BY <1>4
  <2>3. CASE j = i
    <3>1. One(j = i) = 1 /\ One(j = i /\ Result # <<>>) = One(Result # <<>>) /\ One(Result # <<>>) \in {0, 1}
      BY <2>3 DEF One
    <3>2. r.uses = UsesOf(j) - 1 /\ r.samples = SamplesOf(j) - One(Result # <<>>)
      BY <2>1, <2>3 DEF Settles
    <3>3. r.uses = UsesOf(j)' /\ r.samples = SamplesOf(j)'
      BY <1>7, <2>2, <3>1, <3>2
    <3>4. requests'[j].uses > 0 => Held(j)'
      BY <1>3, <1>5, <2>3 DEF Keeps
    <3> QED BY <1>5, <2>3, <3>3, <3>4
  <2>4. CASE j # i
    <3>1. requests'[j] = requests[j]
      BY <1>5, <2>4
    <3>2. One(j = i) = 0 /\ One(j = i /\ Result # <<>>) = 0
      BY <2>4 DEF One
    <3>3. UsesOf(j)' = UsesOf(j) /\ SamplesOf(j)' = SamplesOf(j)
      BY <1>7, <2>2, <3>2
    <3>4. requests[j].uses > 0 => Held(j)'
      BY <1>5, <2>1, <2>4 DEF Keeps
    <3> QED BY <2>1, <3>1, <3>3, <3>4
  <2> QED BY <2>3, <2>4
<1>9. ASSUME NEW p \in DOMAIN queue', NEW l \in Counted(p)'
      PROVE  /\ queue'[p].selected[l] \in DOMAIN requests'
             /\ requests'[queue'[p].selected[l]].ticket = queue'[p].tickets[l]
  <2>1. PICK m \in DOMAIN queue : /\ l \in Counted(m) /\ queue'[p].selected[l] = queue[m].selected[l]
                                  /\ queue'[p].tickets[l] = queue[m].tickets[l]
    BY <1>4, <1>9
  <2>2. PICK j : j = queue[m].selected[l]
    OBVIOUS
  <2>3. j \in DOMAIN requests /\ requests[j].ticket = queue[m].tickets[l]
    BY <1>6, <2>1, <2>2 DEF Accounted
  <2> QED BY <1>5, <2>1, <2>2, <2>3
<1>10. Accounted'
  BY <1>5, <1>8, <1>9 DEF Accounted
<1>11. /\ inflight \in Seq(SUBSET (Nat \X Block)) /\ Len(inflight) \in Nat /\ DOMAIN inflight = 1..Len(inflight)
       /\ Len(inflight) = Len(queue) - Collected
  BY <1>3, <1>6, QueueAt DEF Flying
<1>12. PICK c \in {0, 1} : c = Collected
  BY DEF Collected
<1>13. c = IF step.done = 0 THEN 0 ELSE 1
  <2>1. step.done > 0 <=> step.done # 0
    BY <1>3
  <2> QED BY <1>3, <1>12, <2>1 DEF Collected, Phase
<1>14. /\ inflight' \in Seq(SUBSET (Nat \X Block)) /\ Len(inflight') = Len(queue) - 1
       /\ \A p \in 1..Len(inflight') : inflight'[p] = inflight[p + 1 - c] /\ p + 1 - c \in DOMAIN inflight
  <2>1. CASE step.done = 0
    <3>1. inflight' = Tail(inflight) /\ c = 0
      BY <1>13, <2>1 DEF RetireNext
    <3>2. inflight # <<>> /\ Len(inflight) = Len(queue)
      BY <1>3, <1>11, <1>12, <3>1
    <3>3. /\ inflight' \in Seq(SUBSET (Nat \X Block)) /\ Len(inflight') = Len(inflight) - 1
          /\ \A p \in 1..Len(inflight') : inflight'[p] = inflight[p + 1]
      BY <1>11, <3>1, <3>2, HeadTailProperties
    <3> QED BY <1>11, <3>1, <3>2, <3>3
  <2>2. CASE step.done # 0
    <3>1. inflight' = inflight /\ c = 1
      BY <1>13, <2>2 DEF RetireNext
    <3>2. \A p \in 1..Len(inflight) : p + 1 - c = p
      BY <1>11, <3>1
    <3> QED BY <1>11, <1>12, <3>1, <3>2
  <2> QED BY <2>1, <2>2
<1>15. \A p \in DOMAIN inflight' : p = 1 /\ Len(queue) = 2 /\ inflight'[1] = inflight[2 - c] /\ 2 - c \in DOMAIN inflight
  <2>1. DOMAIN inflight' = 1..Len(inflight')
    BY <1>14
  <2>2. \A p \in 1..Len(inflight') : p = 1 /\ Len(queue) = 2
    BY <1>3, <1>14
  <2>3. 1 + 1 - c = 2 - c
    OBVIOUS
  <2> QED BY <1>14, <2>1, <2>2, <2>3
<1>16. PICK d \in {0, 1} : d = Collected'
  BY DEF Collected
<1>17. /\ Len(queue') - d = Len(queue) - 1
       /\ Len(queue) = 2 => 1 + d \in DOMAIN queue' /\ queue'[1 + d] = queue[2]
                            /\ Counted(1 + d)' = DOMAIN queue[2].selected
  <2>1. CASE k = Len(queue[1].selected)
    <3>1. queue' = Tail(queue) /\ step' = NoStep
      BY <1>1, <2>1 DEF RetireNext
    <3>2. d = 0 /\ step'.phase = "idle"
      BY <1>16, <3>1, IdleStep DEF Collected, Phase
    <3>3. Len(queue') = Len(queue) - 1 /\ \A p \in 1..Len(queue') : queue'[p] = queue[p + 1]
      <4>1. queue # <<>>
        BY <1>3
      <4> QED BY <1>3, <3>1, <4>1, HeadTailProperties
    <3>4. DOMAIN queue' = 1..Len(queue')
      BY <1>4
    <3>5. Len(queue) = 2 => 1 \in DOMAIN queue' /\ queue'[1] = queue[2]
      BY <3>3, <3>4
    <3>6. Len(queue) = 2 => Counted(1)' = DOMAIN queue[2].selected
      BY <3>2, <3>5 DEF Counted, Phase
    <3> QED BY <1>3, <3>2, <3>3, <3>5, <3>6
  <2>2. CASE k # Len(queue[1].selected)
    <3>1. /\ queue' = [queue EXCEPT ![1].results[step.done + 1] = <<>>] /\ step' = [step EXCEPT !.done = @ + 1]
      BY <1>1, <2>2 DEF RetireNext
    <3>2. step'.phase = "retire" /\ step'.done = k
      BY <1>1, <1>3, <3>1 DEF AsyncStepType
    <3>3. d = 1
      <4>1. k > 0
        BY <1>1, <1>3
      <4> QED BY <1>16, <3>2, <4>1 DEF Collected, Phase
    <3>4. Len(queue') = Len(queue) /\ DOMAIN queue' = DOMAIN queue /\ (2 \in DOMAIN queue => queue'[2] = queue[2])
      BY <1>3, <1>4, <3>1
    <3>5. Len(queue) = 2 => 2 \in DOMAIN queue /\ 1 + d = 2
      BY <1>3, <3>3
    <3>6. Len(queue) = 2 => Counted(2)' = DOMAIN queue[2].selected
      BY <3>2, <3>4, <3>5 DEF Counted, Phase
    <3> QED BY <1>3, <3>3, <3>4, <3>5, <3>6
  <2> QED BY <2>1, <2>2
<1>18. ASSUME NEW p \in DOMAIN inflight', NEW use \in inflight'[p]
       PROVE  \E l \in DOMAIN queue'[p + d].selected :
                queue'[p + d].selected[l] \in DOMAIN requests' /\ Holds(queue[p + d].selected[l], use)'
  <2>1. p = 1 /\ Len(queue) = 2 /\ use \in inflight[2 - c] /\ 2 - c \in DOMAIN inflight
    BY <1>15, <1>18
  <2>2. 2 - c + Collected = 2
    BY <1>12
  <2>3. PICK l \in DOMAIN queue[2].selected : queue[2].selected[l] \in DOMAIN requests /\ Holds(queue[2].selected[l], use)
    BY <1>6, <2>1, <2>2 DEF Flying
  <2>4. PICK j : j = queue[2].selected[l]
    OBVIOUS
  <2>5. Holds(j, use) /\ Held(j) /\ j \in DOMAIN requests
    BY <2>3, <2>4 DEF Holds
  <2>6. UsesOf(j)' > 0
    <3>1. queue'[1 + d] = queue[2] /\ 1 + d \in DOMAIN queue' /\ l \in Counted(1 + d)'
      BY <1>17, <2>1
    <3>2. (1 + d \in DOMAIN queue /\ Uses(1 + d, j))'
      BY <2>4, <3>1 DEF Uses
    <3>3. CASE d = 0
      <4>1. (1 \in DOMAIN queue /\ Uses(1, j))'
        BY <3>2, <3>3
      <4> QED BY <4>1 DEF UsesOf, One
    <3>4. CASE d = 1
      <4>1. (2 \in DOMAIN queue /\ Uses(2, j))'
        BY <3>2, <3>4
      <4> QED BY <4>1 DEF UsesOf, One
    <3> QED BY <3>3, <3>4
  <2>7. Keeps(j)
    BY <1>5, <1>8, <2>5, <2>6
  <2>8. Holds(j, use)' /\ j \in DOMAIN requests'
    BY <1>5, <2>5, <2>7, HoldsOn
  <2>9. queue'[p + d] = queue[2]
    BY <1>17, <2>1
  <2> QED BY <2>3, <2>4, <2>8, <2>9 DEF Holds, Held
<1>19. Len(inflight') = Len(queue') - Collected'
  BY <1>14, <1>16, <1>17
<1>20. Flying'
  BY <1>16, <1>18, <1>19 DEF Flying, Holds, Held
<1>21. Submitted'
  <2>1. step'.phase # "commit"
    <3>1. step' = NoStep \/ step' = [step EXCEPT !.done = @ + 1]
      BY DEF RetireNext
    <3> QED BY <1>3, <3>1, IdleStep DEF AsyncStepType
  <2> QED BY <2>1 DEF Submitted, Phase
<1>22. ~failed'
  BY <1>3 DEF RetireNext
<1> QED BY <1>4, <1>10, <1>14, <1>20, <1>21, <1>22 DEF Outstanding

(* A result retires.                                                       *)
LEMMA RetiresAsync ==
  ASSUME AsyncRunning, RetireNext, NEW i, i = Retiree, NEW r, Settles(requests[i], r), Conclude(i, r),
         KeepRows
  PROVE  AsyncRunning'
<1>1. PICK k : k = step.done + 1
  OBVIOUS
<1>2. /\ step.phase = "retire" /\ ~failed /\ call.op = "none" /\ step \in AsyncStepType
      /\ step.done \in Nat /\ k \in Nat /\ step.chosen = <<>>
      /\ queue \in Seq(Ticketed) /\ Len(queue) \in {1, 2} /\ 1 \in DOMAIN queue
      /\ Len(queue[1].selected) \in Nat /\ step.done < Len(queue[1].selected)
      /\ DOMAIN queue = 1..Len(queue)
  BY <1>1, RetireAt
<1>3. Roster' /\ UNCHANGED <<entries, call>>
  BY Concludes
<1>4. Outstanding'
  BY RetireOutstanding
<1>5. UNCHANGED <<mode, failed>> /\ Waits /\ Uncached
  BY AsyncParts DEF RetireNext
<1>6. CASE k = Len(queue[1].selected)
  <2>1. queue' = Tail(queue) /\ step' = NoStep /\ draining' = FALSE
    BY <1>1, <1>6 DEF RetireNext
  <2>2. step' \in AsyncStepType /\ step'.phase = "idle" /\ step'.chosen = <<>> /\ step'.done = 0
    BY <2>1, IdleStep
  <2>3. Batched' /\ Aim'
    BY <2>2, NothingChosen DEF Still
  <2>4. Len(queue') <= 1
    <3>1. queue # <<>>
      BY <1>2
    <3> QED BY <1>2, <2>1, <3>1, HeadTailProperties
  <2>5. Waits'
    BY <1>2, <1>5, <2>1, <2>2, <2>4 DEF Waits, Phase, Choosing
  <2>6. Uncached'
    BY <1>2, <1>3, <1>5, <2>2 DEF Uncached, Phase
  <2> QED BY <1>3, <1>4, <2>2, <2>3, <2>5, <2>6 DEF AsyncRunning
<1>7. CASE k # Len(queue[1].selected)
  <2>1. /\ queue' = [queue EXCEPT ![1].results[step.done + 1] = <<>>] /\ step' = [step EXCEPT !.done = @ + 1]
        /\ draining' = draining
    BY <1>1, <1>7 DEF RetireNext
  <2>2. step' = [step EXCEPT !.done = k]
    BY <1>1, <2>1
  <2>3. step' \in AsyncStepType /\ step'.phase = "retire" /\ step'.chosen = <<>> /\ step'.done = k
    BY <1>2, <2>2 DEF AsyncStepType
  <2>4. Batched'
    <3>1. DOMAIN step'.chosen = {}
      BY <2>3
    <3>2. step'.phase \notin (Still \ {"retire"}) \cup Choosing \cup {"execute", "commit"}
      BY <2>3 DEF Still, Choosing
    <3> QED BY <2>3, <3>1, <3>2 DEF Batched
  <2>5. Aim'
    BY <2>3 DEF Aim, Phase
  <2>6. queue' # <<>> /\ queue'[1].selected = queue[1].selected
    <3>1. 1 \in DOMAIN queue' /\ queue'[1] = [queue[1] EXCEPT !.results[step.done + 1] = <<>>]
      BY <1>2, <2>1
    <3>2. queue[1] \in Ticketed
      BY <1>1, RetireAt
    <3> QED BY <3>1, <3>2 DEF Ticketed
  <2>7. k < Len(queue[1].selected)
    BY <1>1, <1>2, <1>7
  <2>8. Waits'
    BY <1>2, <1>5, <2>1, <2>3, <2>6, <2>7 DEF Waits, Phase, Choosing
  <2>9. Uncached'
    BY <1>2, <1>3, <1>5, <2>3 DEF Uncached, Phase
  <2> QED BY <1>3, <1>4, <2>3, <2>4, <2>5, <2>8, <2>9 DEF AsyncRunning
<1> QED BY <1>6, <1>7

(* The request that a result is for.                                       *)
LEMMA RetiredRequest ==
  ASSUME AsyncRunning, RetireNext, NEW i, i = Retiree
  PROVE  /\ requests[i] \in RequestType /\ requests[i].uses > 0 /\ (Result # <<>> => requests[i].samples > 0)
         /\ (Result = <<>> \/ \E token \in Sampled : Result = <<token>>)
<1>1. PICK k : k = step.done + 1
  OBVIOUS
<1>2. i = queue[1].selected[k]
  BY <1>1 DEF Retiree
<1>3. /\ i \in DOMAIN requests /\ requests[i].uses > 0 /\ Outstanding /\ ~failed
      /\ (Result = <<>> \/ \E token \in Sampled : Result = <<token>>)
  BY <1>1, <1>2, RetireAt
<1>4. requests[i] \in RequestType
  BY <1>3, AsyncParts, ElementOfSeq
<1>5. ASSUME Result # <<>> PROVE requests[i].samples > 0
  <2>1. SamplesOf(i) = SamplesOf(i)' + 1
    <3>1. SamplesOf(i) = SamplesOf(i)' + One(i = i /\ Result # <<>>)
      BY <1>1, <1>2, RetireQueues
    <3>2. One(i = i /\ Result # <<>>) = 1
      BY <1>5 DEF One
    <3> QED BY <3>1, <3>2
  <2>2. SamplesOf(i)' \in Nat
    BY DEF SamplesOf, One
  <2>3. requests[i].samples = SamplesOf(i)
    BY <1>3 DEF Outstanding, Accounted
  <2> QED BY <2>1, <2>2, <2>3
<1> QED BY <1>3, <1>4, <1>5

(* With or without a token.                                                *)
LEMMA RetireOK ==
  ASSUME AsyncRunning, RetireSilently \/ RetireToken
  PROVE  AsyncRunning'
<1>1. RetireNext /\ KeepRows
  BY DEF RetireSilently, RetireToken
<1>2. PICK i, q, settled : i = Retiree /\ q = requests[i] /\ settled = Settled(q)
  OBVIOUS
<1>3. /\ q \in RequestType /\ q.uses > 0 /\ (Result # <<>> => q.samples > 0)
      /\ (Result = <<>> \/ \E token \in Sampled : Result = <<token>>)
  BY <1>1, <1>2, RetiredRequest
<1>4. Settles(q, settled) /\ settled.state = q.state /\ settled.tokens = q.tokens
  BY <1>2, <1>3, SettledIs
<1>5. CASE RetireSilently
  <2>1. Conclude(i, settled)
    BY <1>2, <1>5 DEF RetireSilently
  <2> QED BY <1>1, <1>2, <1>4, <2>1, RetiresAsync
<1>6. CASE RetireToken
  <2>1. PICK token : token = Result[1]
    OBVIOUS
  <2>2. Result # <<>>
    BY <1>6 DEF RetireToken
  <2>3. token \in Token
    <3>1. PICK t \in Sampled : Result = <<t>>
      BY <1>3, <2>2
    <3>2. token = t
      BY <2>1, <3>1
    <3> QED BY <3>2 DEF Token
  <2>4. PICK tokens : tokens = Append(settled.tokens, token)
    OBVIOUS
  <2>5. settled \in RequestType /\ tokens \in Seq(Token)
    BY <1>4, <2>3, <2>4 DEF Settles, RequestType
  <2>6. PICK r : r = [settled EXCEPT !.tokens = tokens]
    OBVIOUS
  <2>7. PICK ended : ended = [r EXCEPT !.state = DRAINING]
    OBVIOUS
  <2>8. Settles(q, r)
    <3>1. /\ r \in RequestType /\ r.ticket = settled.ticket /\ r.sequence = settled.sequence
          /\ r.uses = settled.uses /\ r.samples = settled.samples /\ r.state = settled.state
      BY <2>5, <2>6 DEF RequestType
    <3> QED BY <1>4, <3>1 DEF Settles
  <2>9. Settles(q, ended)
    <3>1. r \in RequestType
      BY <2>8 DEF Settles
    <3>2. /\ ended \in RequestType /\ ended.ticket = r.ticket /\ ended.sequence = r.sequence
          /\ ended.uses = r.uses /\ ended.samples = r.samples /\ ended.state = DRAINING
      BY <2>7, <3>1 DEF RequestType
    <3> QED BY <2>8, <3>2 DEF Settles
  <2>10. r = [Settled(requests[Retiree]) EXCEPT !.tokens = Append(@, Result[1])]
    BY <1>2, <2>1, <2>4, <2>6
  <2>11. Conclude(i, ended) \/ Conclude(i, r)
    BY <1>2, <1>6, <2>7, <2>10 DEF RetireToken
  <2>12. CASE Conclude(i, ended)
    BY <1>1, <1>2, <2>9, <2>12, RetiresAsync
  <2>13. CASE Conclude(i, r)
    BY <1>1, <1>2, <2>8, <2>13, RetiresAsync
  <2> QED BY <2>11, <2>12, <2>13
<1> QED BY <1>5, <1>6
-----------------------------------------------------------------------------
(* What a failure leaves on the device is held.                            *)
LEMMA FailsGrounded ==
  ASSUME AsyncRunning, AsyncFails
  PROVE  /\ Outstanding' /\ Len(queue') <= 1 /\ call.op = "none"
         /\ step.phase \in {"execute", "commit", "retire"}
<1>1. /\ UNCHANGED <<vars, cacheVars, mode, requests, nextTicket>> /\ failed' = TRUE
      /\ (SubmitRaises \/ CollectRaises)
  BY DEF AsyncFails
<1>2. UNCHANGED tables
  BY <1>1 DEF vars
<1>3. /\ Outstanding /\ Waits /\ Uncached /\ step \in AsyncStepType /\ failed \in BOOLEAN
  BY AsyncParts
<1>4. /\ queue \in Seq(Ticketed) /\ Len(queue) \in {0, 1, 2} /\ DOMAIN queue = 1..Len(queue)
      /\ inflight \in Seq(SUBSET (Nat \X Block)) /\ Len(inflight) \in Nat /\ DOMAIN inflight = 1..Len(inflight)
      /\ \A p \in DOMAIN queue : queue[p] \in Ticketed /\ Queued(queue[p])
  BY <1>3, QueueAt
<1>5. \A i \in DOMAIN requests : requests[i].uses > 0 => Held(i)
  BY <1>3 DEF Outstanding, Accounted, Grounded
<1>6. \A i : Held(i)' <=> Held(i)
  BY <1>1 DEF Held
<1>7. \A i, use : Holds(i, use)' <=> Holds(i, use)
  BY <1>1, <1>2 DEF Holds, Held
<1>8. \A i \in DOMAIN requests' : requests'[i].uses > 0 => Held(i)'
  BY <1>1, <1>5, <1>6
<1>9. CASE SubmitRaises /\ Phase("execute")
  <2>1. step.phase = "execute" /\ inflight' = Append(inflight, BatchTables) /\ queue' = <<>>
    BY <1>9 DEF SubmitRaises, Phase
  <2>2. PICK k, i : k = step.done + 1 /\ i = step.chosen[k].index
    OBVIOUS
  <2>3. i \in DOMAIN requests /\ Held(i) /\ ~failed /\ call.op = "none"
    BY <2>1, <2>2, SubmittingAt
  <2>4. /\ BatchTables \in SUBSET (Nat \X Block)
        /\ \A use \in BatchTables : \E l \in DOMAIN step.chosen : Holds(step.chosen[l].index, use)
        /\ \A l \in DOMAIN step.chosen : Runs(step.chosen[l].index)
    BY <2>1, <2>2, BatchHolds, SubmittingAt
  <2>5. /\ inflight' \in Seq(SUBSET (Nat \X Block)) /\ Len(inflight') = Len(inflight) + 1
        /\ inflight'[Len(inflight) + 1] = BatchTables
        /\ \A p \in 1..Len(inflight) : inflight'[p] = inflight[p]
    BY <1>4, <2>1, <2>4, AppendProperties
  <2>6. Flying /\ Collected = 0
    BY <1>3, <2>1, <2>3 DEF Outstanding, Collected, Phase
  <2>7. \A j \in DOMAIN requests : Held(j) => Firm(j)'
    BY <1>1, <1>6, <2>1 DEF Firm
  <2>8. ASSUME NEW p \in DOMAIN inflight', NEW use \in inflight'[p]
        PROVE  \E j \in DOMAIN requests : Firm(j)' /\ Holds(j, use)'
    <3>1. CASE p \in 1..Len(inflight)
      <4>1. p + Collected = p /\ p \in DOMAIN inflight /\ use \in inflight[p]
        BY <1>4, <2>5, <2>6, <2>8, <3>1
      <4>2. PICK l \in DOMAIN queue[p].selected :
              queue[p].selected[l] \in DOMAIN requests /\ Holds(queue[p].selected[l], use)
        BY <2>6, <4>1 DEF Flying
      <4>3. PICK j : j = queue[p].selected[l]
        OBVIOUS
      <4>4. j \in DOMAIN requests /\ Holds(j, use) /\ Held(j)
        BY <4>2, <4>3 DEF Holds
      <4> QED BY <1>7, <2>7, <4>4
    <3>2. CASE p \notin 1..Len(inflight)
      <4>1. DOMAIN inflight' = 1..Len(inflight')
        BY <2>5
      <4>2. p = Len(inflight) + 1
        BY <1>4, <2>5, <2>8, <3>2, <4>1
      <4>3. PICK l \in DOMAIN step.chosen : Holds(step.chosen[l].index, use)
        BY <2>4, <2>5, <2>8, <4>2
      <4>4. PICK j : j = step.chosen[l].index
        OBVIOUS
      <4>5. j \in DOMAIN requests /\ Holds(j, use) /\ Held(j)
        BY <2>4, <4>3, <4>4 DEF Holds, Runs
      <4> QED BY <1>7, <2>7, <4>5
    <3> QED BY <3>1, <3>2
  <2>9. \E j \in DOMAIN requests : Firm(j)'
    BY <2>3, <2>7
  <2>10. Grounded'
    BY <1>1, <1>8, <2>8, <2>9 DEF Grounded
  <2>11. queue' \in Seq(Ticketed) /\ Len(queue') = 0 /\ DOMAIN queue' = {}
    BY <2>1
  <2> QED BY <1>1, <2>1, <2>3, <2>5, <2>10, <2>11 DEF Outstanding
<1>10. CASE SubmitRaises /\ ~Phase("execute")
  <2>1. step.phase = "commit" /\ inflight' = inflight /\ queue' = <<>>
    BY <1>10 DEF SubmitRaises, Executing, Phase
  <2>2. PICK k, i : k = step.done + 1 /\ i = step.chosen[k].index
    OBVIOUS
  <2>3. i \in DOMAIN requests /\ Held(i) /\ ~failed /\ call.op = "none"
    BY <2>1, <2>2, SubmittingAt
  <2>4. Flying /\ Collected = 0
    BY <1>3, <2>1, <2>3 DEF Outstanding, Collected, Phase
  <2>5. \A j \in DOMAIN requests : Held(j) => Firm(j)'
    BY <1>1, <1>6, <2>1 DEF Firm
  <2>6. ASSUME NEW p \in DOMAIN inflight', NEW use \in inflight'[p]
        PROVE  \E j \in DOMAIN requests : Firm(j)' /\ Holds(j, use)'
    <3>1. p + Collected = p /\ p \in DOMAIN inflight /\ use \in inflight[p]
      BY <1>4, <2>1, <2>4, <2>6
    <3>2. PICK l \in DOMAIN queue[p].selected :
            queue[p].selected[l] \in DOMAIN requests /\ Holds(queue[p].selected[l], use)
      BY <2>4, <3>1 DEF Flying
    <3>3. PICK j : j = queue[p].selected[l]
      OBVIOUS
    <3>4. j \in DOMAIN requests /\ Holds(j, use) /\ Held(j)
      BY <3>2, <3>3 DEF Holds
    <3> QED BY <1>7, <2>5, <3>4
  <2>7. \E j \in DOMAIN requests : Firm(j)'
    BY <2>3, <2>5
  <2>8. Grounded'
    BY <1>1, <1>8, <2>6, <2>7 DEF Grounded
  <2>9. queue' \in Seq(Ticketed) /\ Len(queue') = 0 /\ DOMAIN queue' = {}
    BY <2>1
  <2>10. inflight' \in Seq(SUBSET (Nat \X Block))
    BY <1>4, <2>1
  <2> QED BY <1>1, <2>1, <2>3, <2>8, <2>9, <2>10 DEF Outstanding
<1>11. CASE CollectRaises
  <2>1. step.phase = "retire" /\ step.done = 0 /\ queue' = Tail(queue) /\ UNCHANGED inflight
    BY <1>11 DEF CollectRaises, Phase
  <2>2. queue # <<>> /\ call.op = "none"
    BY <1>3, <2>1 DEF Waits, Uncached, Phase
  <2>3. /\ queue' \in Seq(Ticketed) /\ Len(queue') = Len(queue) - 1
        /\ \A p \in 1..Len(queue') : queue'[p] = queue[p + 1]
    BY <1>4, <2>1, <2>2, HeadTailProperties
  <2>4. Len(queue') <= 1 /\ DOMAIN queue' = 1..Len(queue')
    BY <1>4, <2>3
  <2>5. \A p \in DOMAIN queue' : p + 1 \in DOMAIN queue
    BY <1>4, <2>3, <2>4
  <2>6. \A p \in DOMAIN queue' : Queued(queue'[p])
    BY <1>4, <2>3, <2>4, <2>5
  <2>7. Whole
    BY <2>1 DEF Whole
  <2>8. \A j \in DOMAIN requests : requests[j].uses > 0 => Firm(j)'
    BY <1>1, <1>5, <1>6 DEF Firm
  <2>9. ASSUME NEW p \in DOMAIN inflight, NEW use \in inflight[p]
        PROVE  \E j \in DOMAIN requests : requests[j].uses > 0 /\ Holds(j, use)
    <3>1. CASE ~failed
      <4>1. Flying /\ Collected = 0
        <5>1. ~(0 > 0)
          OBVIOUS
        <5> QED BY <1>3, <2>1, <3>1, <5>1 DEF Outstanding, Collected
      <4>2. p + Collected = p /\ p \in DOMAIN queue
        BY <1>4, <4>1 DEF Flying
      <4>3. PICK l \in DOMAIN queue[p].selected :
              queue[p].selected[l] \in DOMAIN requests /\ Holds(queue[p].selected[l], use)
        BY <2>9, <4>1, <4>2 DEF Flying
      <4>4. PICK j : j = queue[p].selected[l]
        OBVIOUS
      <4>5. l \in Counted(p)
        BY <1>3, <2>7, <4>2, <4>3, CountedAll
      <4>6. requests[j].uses > 0
        BY <1>3, <3>1, <4>2, <4>4, <4>5, UseCounts
      <4> QED BY <4>3, <4>4, <4>6
    <3>2. CASE failed
      <4>1. PICK j \in DOMAIN requests : Firm(j) /\ Holds(j, use)
        BY <1>3, <2>9, <3>2 DEF Outstanding, Grounded
      <4> QED BY <2>2, <4>1 DEF Firm
    <3> QED BY <1>3, <3>1, <3>2
  <2>10. ASSUME inflight # <<>> PROVE \E j \in DOMAIN requests : requests[j].uses > 0
    <3>1. CASE ~failed
      <4>1. 1 \in DOMAIN queue
        BY <1>4, <2>2
      <4>2. 1 \in DOMAIN queue[1].selected
        BY <1>4, <4>1, PlacesAt
      <4>3. 1 \in Counted(1)
        BY <1>3, <2>7, <4>1, <4>2, CountedAll
      <4>4. PICK j : j = queue[1].selected[1]
        OBVIOUS
      <4>5. j \in DOMAIN requests /\ requests[j].uses > 0
        BY <1>3, <3>1, <4>1, <4>3, <4>4, UseCounts
      <4> QED BY <4>5
    <3>2. CASE failed
      <4>1. PICK j \in DOMAIN requests : Firm(j)
        BY <1>3, <2>10, <3>2 DEF Outstanding, Grounded
      <4> QED BY <2>2, <4>1 DEF Firm
    <3> QED BY <1>3, <3>1, <3>2
  <2>11. Grounded'
    <3>1. ASSUME NEW p \in DOMAIN inflight', NEW use \in inflight'[p]
          PROVE  \E j \in DOMAIN requests : Firm(j)' /\ Holds(j, use)'
      <4>1. PICK j \in DOMAIN requests : requests[j].uses > 0 /\ Holds(j, use)
        BY <2>1, <2>9, <3>1
      <4> QED BY <1>7, <2>8, <4>1
    <3>2. inflight' # <<>> => \E j \in DOMAIN requests : Firm(j)'
      BY <2>1, <2>8, <2>10
    <3> QED BY <1>1, <1>8, <3>1, <3>2 DEF Grounded
  <2>12. inflight' \in Seq(SUBSET (Nat \X Block)) /\ Len(queue') <= 2
    BY <1>4, <2>1, <2>3
  <2> QED BY <1>1, <2>1, <2>2, <2>3, <2>4, <2>6, <2>11, <2>12 DEF Outstanding
<1> QED BY <1>1, <1>9, <1>10, <1>11

(* Submission or collection raises.                                        *)
LEMMA FailsOK ==
  ASSUME AsyncRunning, AsyncFails
  PROVE  AsyncRunning'
<1>1. /\ UNCHANGED <<vars, cacheVars, mode, requests, nextTicket, draining>> /\ failed' = TRUE
      /\ step' = [NoStep EXCEPT !.phase = "lost"]
  BY DEF AsyncFails
<1>2. /\ Outstanding' /\ Len(queue') <= 1 /\ call.op = "none"
      /\ step.phase \in {"execute", "commit", "retire"}
  BY FailsGrounded
<1>3. /\ Waits /\ Uncached /\ step \in AsyncStepType /\ Roster /\ CacheInv(Tenant, Token)
  BY AsyncParts
<1>4. UNCHANGED <<tables, active, entries, call>>
  BY <1>1 DEF vars, cacheVars
<1>5. PICK p \in Still : p = "lost"
  BY DEF Still
<1>6. step' \in AsyncStepType /\ step'.phase = "lost" /\ step'.chosen = <<>> /\ step'.done = 0
  BY <1>1, <1>3, <1>5, NewStep
<1>7. Batched' /\ Aim'
  BY <1>6, NothingChosen DEF Still
<1>8. CacheInv(Tenant, Token)'
  BY <1>1, <1>3, StillCacheInv
<1>9. Roster'
  BY <1>1, <1>3, <1>4, <1>8, RosterStill DEF Admitting
<1>10. Waits'
  <2>1. draining => step.phase \notin {"execute", "commit"}
    BY <1>2, <1>3 DEF Waits
  <2> QED BY <1>1, <1>2, <1>6 DEF Waits, Phase, Choosing
<1>11. Uncached'
  BY <1>1, <1>2, <1>3, <1>4, <1>6 DEF Uncached, Phase
<1> QED BY <1>2, <1>6, <1>7, <1>9, <1>10, <1>11 DEF AsyncRunning

(* The runner drained: nothing is outstanding.                             *)
LEMMA DrainedOK ==
  ASSUME AsyncRunning, Drained
  PROVE  AsyncRunning'
<1>1. /\ step.phase = "lost" /\ Goto("failing") /\ inflight' = <<>> /\ queue' = <<>>
      /\ requests' = [i \in DOMAIN requests |-> [requests[i] EXCEPT !.uses = 0, !.samples = 0]]
      /\ UNCHANGED <<vars, cacheVars, image, mode, nextTicket, account, failed, enabled, draining>>
  BY DEF Drained, Phase
<1>2. /\ Waits /\ Uncached /\ step \in AsyncStepType /\ Roster /\ CacheInv(Tenant, Token)
      /\ requests \in Seq(RequestType) /\ DOMAIN requests = 1..Len(requests) /\ Len(requests) \in Nat
      /\ failed \in BOOLEAN /\ mode \in Modes /\ Tickets /\ Owned /\ Batched
  BY AsyncParts
<1>3. UNCHANGED <<tables, active, entries, call>>
  BY <1>1 DEF vars, cacheVars
<1>4. failed /\ call.op = "none"
  BY <1>1, <1>2 DEF Waits, Uncached, Phase
<1>5. ASSUME NEW i \in DOMAIN requests
      PROVE  /\ requests'[i] \in RequestType /\ requests'[i].ticket = requests[i].ticket
             /\ requests'[i].sequence = requests[i].sequence /\ requests'[i].state = requests[i].state
             /\ requests'[i].uses = 0 /\ requests'[i].samples = 0
  <2>1. requests[i] \in RequestType
    BY <1>2, ElementOfSeq
  <2>2. PICK q, zero : q = requests[i] /\ zero = 0
    OBVIOUS
  <2>3. requests'[i] = [q EXCEPT !.uses = zero, !.samples = zero] /\ zero \in Nat /\ q \in RequestType
    BY <1>1, <2>1, <2>2
  <2>4. /\ requests'[i] \in RequestType /\ requests'[i].ticket = q.ticket
        /\ requests'[i].sequence = q.sequence /\ requests'[i].state = q.state
        /\ requests'[i].uses = zero /\ requests'[i].samples = zero
    BY <2>3 DEF RequestType
  <2> QED BY <2>2, <2>4
<1>6. DOMAIN requests' = DOMAIN requests
  BY <1>1
<1>7. requests' \in Seq(RequestType)
  <2>1. requests' \in [1..Len(requests) -> RequestType]
    BY <1>1, <1>2, <1>5
  <2> QED BY <1>2, <2>1
<1>8. CacheInv(Tenant, Token)'
  BY <1>1, <1>2, StillCacheInv
<1>9. Tickets'
  <2>1. nextTicket' = nextTicket
    BY <1>1
  <2>2. \A i \in DOMAIN requests' : requests'[i].ticket < nextTicket'
    BY <1>2, <1>5, <1>6, <2>1 DEF Tickets
  <2>3. \A i, j \in DOMAIN requests' : requests'[i].ticket = requests'[j].ticket => i = j
    BY <1>2, <1>5, <1>6 DEF Tickets
  <2> QED BY <1>2, <2>1, <2>2, <2>3 DEF Tickets
<1>10. \A i \in DOMAIN requests : Held(i)' <=> Held(i)
  BY <1>5 DEF Held
<1>11. Owned'
  <2>1. ~(call'.op = "reserve")
    BY <1>3, <1>4
  <2>2. \A s : ~Admitting(s)' /\ ~Admitting(s)
    BY <1>4, <2>1 DEF Admitting
  <2>3. \A i \in DOMAIN requests : Held(i)' <=> requests'[i].state \in {PREFILL, DECODE, DRAINING}
    BY <1>2, <1>5, <1>10 DEF Owned
  <2>4. \A i \in DOMAIN requests : Held(i)' => active'[requests'[i].sequence]
    BY <1>2, <1>3, <1>5, <1>10 DEF Owned
  <2>5. \A i, j \in DOMAIN requests : Held(i)' /\ requests'[i].sequence = requests'[j].sequence => i = j
    BY <1>2, <1>5, <1>10 DEF Owned
  <2>6. \A s \in Slot : active'[s] => \E i \in DOMAIN requests : requests'[i].sequence = s
    BY <1>2, <1>3, <1>5, <2>2 DEF Owned
  <2>7. \A i \in DOMAIN requests : ~Admitting(requests[i].sequence)'
    BY <2>1 DEF Admitting
  <2> QED BY <1>6, <2>2, <2>3, <2>4, <2>5, <2>6, <2>7 DEF Owned
<1>12. Roster'
  BY <1>1, <1>2, <1>7, <1>8, <1>9, <1>11 DEF Roster
<1>13. PICK p \in Still : p = "failing"
  BY DEF Still
<1>14. step' \in AsyncStepType /\ step'.phase = "failing" /\ step'.chosen = <<>> /\ step'.done = 0
  <2>1. step' = [step EXCEPT !.phase = "failing"]
    BY <1>1 DEF Goto
  <2>2. step.chosen = <<>> /\ step.done = 0
    BY <1>1, <1>2 DEF Batched, Still
  <2> QED BY <1>2, <1>13, <2>1, <2>2, NewStep
<1>15. Batched' /\ Aim'
  BY <1>14, NothingChosen DEF Still
<1>16. Outstanding'
  <2>1. queue' \in Seq(Ticketed) /\ Len(queue') <= 2 /\ DOMAIN queue' = {} /\ DOMAIN inflight' = {}
        /\ inflight' \in Seq(SUBSET (Nat \X Block)) /\ failed'
    <3>1. PICK e : e = <<>>
      OBVIOUS
    <3>2. e \in Seq(Ticketed) /\ Len(e) = 0 /\ DOMAIN e = {}
      BY <3>1
    <3>3. e \in Seq(SUBSET (Nat \X Block))
      BY <3>1
    <3>4. queue' = e /\ inflight' = e
      BY <1>1, <3>1
    <3>5. failed'
      BY <1>1, <1>4
    <3> QED BY <3>2, <3>3, <3>4, <3>5
  <2>2. \A i \in DOMAIN requests' : ~(requests'[i].uses > 0)
    BY <1>5, <1>6
  <2>3. Grounded'
    BY <1>1, <2>1, <2>2 DEF Grounded
  <2> QED BY <2>1, <2>3 DEF Outstanding
<1>17. Waits'
  BY <1>1, <1>2, <1>4, <1>14 DEF Waits, Phase, Choosing
<1>18. Uncached'
  BY <1>1, <1>2, <1>3, <1>4, <1>14 DEF Uncached, Phase
<1> QED BY <1>12, <1>14, <1>15, <1>16, <1>17, <1>18 DEF AsyncRunning
-----------------------------------------------------------------------------
(* Nothing happens.                                                        *)
LEMMA AsyncStutter ==
  ASSUME AsyncRunning, UNCHANGED asyncVars
  PROVE  AsyncRunning'
<1>1. /\ UNCHANGED <<vars, cacheVars, image>>
      /\ UNCHANGED <<mode, requests, nextTicket, step, account, failed>>
      /\ UNCHANGED <<enabled, draining, queue, inflight>>
  BY DEF asyncVars, allVars, engineVars
<1>2. UNCHANGED <<entries, call, tables, active>>
  BY <1>1 DEF vars, cacheVars
<1>3. /\ Roster /\ Uncached /\ step \in AsyncStepType /\ Batched /\ Aim /\ Waits /\ Outstanding
      /\ CacheInv(Tenant, Token) /\ failed \in BOOLEAN
  BY AsyncParts
<1>4. CacheInv(Tenant, Token)'
  BY <1>1, <1>3, StillCacheInv
<1>5. Roster'
  BY <1>1, <1>2, <1>3, <1>4, RosterStill DEF Admitting
<1>6. Uncached' /\ step' \in AsyncStepType
  BY <1>1, <1>2, <1>3 DEF Uncached, Phase
<1>7. Batched'
  BY <1>1, <1>3 DEF Batched, Runs
<1>8. Aim'
  BY <1>1, <1>3 DEF Aim, Phase, ChosenSlots
<1>9. Waits'
  BY <1>1, <1>3 DEF Waits, Phase
<1>10. \A p : Counted(p)' = Counted(p)
  BY <1>1 DEF Counted, Phase
<1>11. \A i : UsesOf(i)' = UsesOf(i) /\ SamplesOf(i)' = SamplesOf(i)
  BY <1>1, <1>10, SameCounted
<1>12. \A j \in DOMAIN requests : Held(j) => Keeps(j)
  BY <1>1, <1>2 DEF Keeps, Held
<1>13. ASSUME ~failed PROVE Accounted' /\ Submitted' /\ Flying'
  <2>1. Accounted /\ Submitted /\ Flying
    BY <1>3, <1>13 DEF Outstanding
  <2>2. Accounted'
    BY <1>1, <1>10, <1>11, <1>12, <2>1, AccountsKept
  <2>3. Submitted'
    BY <1>1, <2>1 DEF Submitted, Phase
  <2>4. Collected' = Collected
    BY <1>1 DEF Collected, Phase
  <2> QED BY <1>1, <1>12, <2>1, <2>2, <2>3, <2>4, FlyingKept
<1>14. ASSUME failed PROVE Grounded'
  <2>1. Grounded
    BY <1>3, <1>14 DEF Outstanding
  <2> QED BY <1>1, <1>2, <2>1 DEF Grounded, Firm, Holds, Held
<1>15. Outstanding'
  BY <1>1, <1>3, <1>13, <1>14 DEF Outstanding, Queued
<1> QED BY <1>5, <1>6, <1>7, <1>8, <1>9, <1>15 DEF AsyncRunning

(* Every step of an engine that steps asynchronously.                      *)
LEMMA RunningStep ==
  ASSUME AsyncRunning, enabled, [AsyncNext]_asyncVars
  PROVE  AsyncRunning'
<1>1. CASE HostCalls
  BY <1>1, HostAsync
<1>2. CASE SyncStep \/ SyncContinues
  BY <1>2 DEF SyncStep, SyncContinues
<1>3. CASE BeginAsync \/ BeginDrain
  BY <1>3, PhasesOK
<1>4. CASE AsyncContinues
  <2>1. CASE BoundaryFinish /\ UNCHANGED Stepping
    BY <2>1, EndingsOK
  <2>2. CASE Schedule /\ UNCHANGED Stepping
    BY <2>2, ScheduleAsync
  <2>3. CASE BuildBatch /\ UNCHANGED Stepping
    BY <2>3, RoomStepsOK
  <2>4. CASE BoundaryPassed \/ PressureDrains \/ PressurePasses
    BY <2>4, PhasesOK
  <2>5. CASE NothingSelected
    BY <2>5, NothingSelectedOK
  <2>6. CASE Enqueue
    BY <2>6, EnqueueOn, EnqueueLast
  <2>7. CASE CommitEnqueued
    BY <2>7, CommitOK
  <2>8. CASE RetireSilently \/ RetireToken
    BY <2>8, RetireOK
  <2>9. CASE Drained
    BY <2>9, DrainedOK
  <2>10. CASE AsyncFailRequest
    <3>1. UNCHANGED Stepping
      BY <2>10 DEF AsyncFailRequest
    <3> QED BY <2>10, <3>1, EndingsOK
  <2>11. CASE AsyncFailDone
    BY <2>11, FailuresOK
  <2> QED BY <1>4, <2>1, <2>2, <2>3, <2>4, <2>5, <2>6, <2>7, <2>8, <2>9, <2>10, <2>11 DEF AsyncContinues
<1>5. CASE AsyncFails
  BY <1>5, FailsOK
<1>6. CASE DrainRaises
  BY <1>6, FailuresOK
<1>7. CASE UNCHANGED asyncVars
  BY <1>7, AsyncStutter
<1> QED BY <1>1, <1>2, <1>3, <1>4, <1>5, <1>6, <1>7 DEF AsyncNext

(* It goes on that way.                                                    *)
LEMMA StaysEnabled ==
  ASSUME enabled \in BOOLEAN, draining \in BOOLEAN, [AsyncNext]_asyncVars
  PROVE  enabled' \in BOOLEAN /\ draining' \in BOOLEAN /\ (enabled => enabled')
<1>1. CASE HostCalls \/ SyncStep \/ SyncContinues
  BY <1>1 DEF HostCalls, SyncStep, SyncContinues, Stepping
<1>2. CASE BeginAsync \/ BeginDrain \/ AsyncFails \/ DrainRaises
  BY <1>2 DEF BeginAsync, BeginDrain, AsyncFails, DrainRaises
<1>3. CASE AsyncContinues
  <2>1. CASE enabled /\ (BoundaryFinish \/ Schedule \/ BuildBatch) /\ UNCHANGED Stepping
    BY <2>1 DEF Stepping
  <2>2. CASE BoundaryPassed \/ PressureDrains \/ PressurePasses \/ NothingSelected
    BY <2>2 DEF BoundaryPassed, PressureDrains, PressurePasses, NothingSelected, Stepping
  <2>3. CASE Enqueue \/ CommitEnqueued
    BY <2>3 DEF Enqueue, CommitEnqueued, Stepping
  <2>4. CASE RetireSilently \/ RetireToken
    BY <2>4 DEF RetireSilently, RetireToken, RetireNext
  <2>5. CASE Drained \/ AsyncFailRequest \/ AsyncFailDone
    BY <2>5 DEF Drained, AsyncFailRequest, AsyncFailDone, Stepping
  <2> QED BY <1>3, <2>1, <2>2, <2>3, <2>4, <2>5 DEF AsyncContinues
<1>4. CASE UNCHANGED asyncVars
  BY <1>4 DEF asyncVars
<1> QED BY <1>1, <1>2, <1>3, <1>4 DEF AsyncNext

(* After a failure of a synchronous step only its wind-up and clears move  *)
(* the call or the index.                                                  *)
LEMMA AfterFailureIndex ==
  ASSUME EngineInv, failed, [EngineNext]_allVars
  PROVE  \/ UNCHANGED <<step, entries, call>>
         \/ FailRequest \/ FailDone \/ ClearCache \/ CacheClears
<1>1. step.phase \in {"idle", "failing"}
  BY EngineParts DEF Synchronous
<1>2. call.op \notin {"admit", "reserve", "publish"}
  BY <1>1, EngineParts DEF Calling, Phase
<1>3. CASE Host
  BY <1>3 DEF Host, Add, Abort, cacheVars
<1>4. CASE BeginStep \/ ExecuteFails \/ UNCHANGED allVars
  BY <1>1, <1>4 DEF BeginStep, ExecuteFails, Executing, Phase, allVars, engineVars, cacheVars
<1>5. CASE BoundaryFinish \/ BoundaryDone \/ EmptyBatch \/ BuildBatch \/ Execute
  BY <1>1, <1>5 DEF BoundaryFinish, BoundaryDone, EmptyBatch, BuildBatch, Execute, Phase
<1>6. CASE CommitChosen \/ PublishChosen \/ PublishContinues \/ Published \/ MoreToPrefill
  BY <1>1, <1>6 DEF CommitChosen, PublishChosen, PublishContinues, Published, MoreToPrefill, Phase
<1>7. CASE \E token \in Sampled : SampleToken(token)
  BY <1>1, <1>7 DEF SampleToken, Phase
<1>8. CASE Schedule
  <2>1. CASE DecodePick \/ DecodeDone \/ RoomOwned \/ RoomReclaim \/ RoomPreempt \/ RoomReserve \/ RoomLost
    BY <1>1, <2>1 DEF DecodePick, DecodeDone, RoomOwned, RoomReclaim, RoomPreempt, RoomReserve,
                      RoomLost, Phase
  <2>2. CASE PrefillPick \/ PrefillNone \/ PrefillSkip \/ AdmitBlocks \/ AdmitRefuse \/ AdmitPlain
    BY <1>1, <2>2 DEF PrefillPick, PrefillNone, PrefillSkip, AdmitBlocks, AdmitRefuse, AdmitPlain, Phase
  <2>3. CASE AdmitBegin \/ AdmitReclaim \/ AdmitSequence \/ AdmitChoose
    BY <1>1, <1>2, <2>3 DEF AdmitBegin, AdmitReclaim, AdmitSequence, AdmitAttach, AdmitChoose,
                            AdmitReserve, Phase
  <2> QED BY <1>8, <2>1, <2>2, <2>3 DEF Schedule
<1> QED BY <1>3, <1>4, <1>5, <1>6, <1>7, <1>8 DEF EngineNext, StepContinues

(* A failed synchronous step leaves no cache.                              *)
LEMMA ClearedStep ==
  ASSUME EngineInv, Cleared, [EngineNext]_allVars
  PROVE  Cleared'
<1> SUFFICES ASSUME failed', step'.phase = "idle", call' = Idle PROVE entries' = <<>>
  BY DEF Cleared, Idling, Phase
<1>1. failed
  <2>1. ASSUME ExecuteFails PROVE FALSE
    <3>1. step' = [step EXCEPT !.phase = "failing"] /\ step \in StepType
      BY <2>1, EngineParts DEF ExecuteFails, Goto
    <3>2. step'.phase = "failing"
      BY <3>1 DEF StepType
    <3> QED BY <3>2
  <2> QED BY <2>1, FailureIsRunners
<1>2. CASE UNCHANGED <<step, entries, call>>
  BY <1>1, <1>2 DEF Cleared, Idling, Phase
<1>3. CASE FailRequest
  BY <1>3 DEF FailRequest, Phase
<1>4. BeginClear => call' # Idle
  BY DEF BeginClear, Idle
<1>5. CASE FailDone
  <2>1. ~mode.prefix /\ entries' = entries
    BY <1>4, <1>5 DEF FailDone, cacheVars
  <2> QED BY <2>1, EngineParts DEF Synchronous
<1>6. CASE ClearCache
  BY <1>4, <1>6 DEF ClearCache
<1>7. CASE CacheClears
  <2>1. CASE ClearOne
    BY <2>1 DEF ClearOne, Idle
  <2>2. CASE EndClear
    BY <2>2 DEF EndClear
  <2> QED BY <1>7, <2>1, <2>2 DEF CacheClears
<1> QED BY <1>1, <1>2, <1>3, <1>5, <1>6, <1>7, AfterFailureIndex

(* The first asynchronous step.                                            *)
LEMMA FirstAsync ==
  ASSUME EngineInv, BeginAsync, ~draining, queue = <<>>, inflight = <<>>
  PROVE  AsyncRunning'
<1>1. /\ step.phase = "idle" /\ call = Idle /\ ~failed /\ ~mode.prefix /\ entries = <<>>
      /\ step' = [step EXCEPT !.phase = "boundary"]
      /\ UNCHANGED <<vars, cacheVars, mode, requests, nextTicket, failed, draining, queue, inflight>>
  BY DEF BeginAsync, Idling, Phase, Goto, OnlyStep
<1>2. UNCHANGED <<entries, call, tables, active>>
  BY <1>1 DEF vars, cacheVars
<1>3. /\ Roster /\ CacheInv(Tenant, Token) /\ step \in StepType /\ Stepwise /\ failed \in BOOLEAN
      /\ \A i \in DOMAIN requests :
           requests[i].uses = 0 /\ requests[i].samples = 0 /\ requests[i].state # DRAINING
  BY EngineParts DEF Base
<1>4. step.chosen = <<>> /\ step.done = 0
  BY <1>1, <1>3 DEF Stepwise, Selected, Still
<1>5. step' \in AsyncStepType /\ step'.phase = "boundary" /\ step'.chosen = <<>> /\ step'.done = 0
  <2>1. PICK chosen, target : chosen = step.chosen /\ target = step.target
    OBVIOUS
  <2>2. chosen \in Seq([index : Nat, count : Int])
    BY <1>4, <2>1
  <2>3. target \in Aims
    <3>1. target \in TargetType
      BY <1>3, <2>1 DEF StepType
    <3> QED BY <3>1 DEF TargetType, Aims
  <2>4. step.considered \in SUBSET Nat /\ step.done \in Nat
    BY <1>3 DEF StepType
  <2>5. /\ step' = [phase |-> "boundary", chosen |-> chosen, considered |-> step.considered,
                    target |-> target, done |-> step.done]
    BY <1>1, <1>3, <2>1 DEF StepType
  <2> QED BY <1>4, <2>1, <2>2, <2>3, <2>4, <2>5 DEF AsyncStepType, Aims, Still
<1>6. Batched' /\ Aim'
  BY <1>5, NothingChosen DEF Still
<1>7. CacheInv(Tenant, Token)'
  BY <1>1, <1>3, StillCacheInv
<1>8. Roster'
  BY <1>1, <1>2, <1>3, <1>7, RosterStill DEF Admitting
<1>9. Uncached'
  <2>1. call'.op = "none"
    BY <1>1, <1>2 DEF Idle
  <2> QED BY <1>1, <1>2, <2>1 DEF Uncached
<1>10. queue' = <<>> /\ inflight' = <<>> /\ Len(queue') = 0 /\ Len(inflight') = 0
       /\ DOMAIN queue' = {} /\ DOMAIN inflight' = {}
  BY <1>1
<1>11. Waits'
  BY <1>1, <1>5, <1>10 DEF Waits, Phase, Choosing
<1>12. Outstanding'
  <2>1. \A i : UsesOf(i)' = 0 /\ SamplesOf(i)' = 0
    BY <1>10 DEF UsesOf, SamplesOf, One
  <2>2. \A i \in DOMAIN requests' : ~(requests'[i].uses > 0)
    BY <1>1, <1>3
  <2>3. Accounted'
    BY <1>1, <1>3, <1>10, <2>1, <2>2 DEF Accounted
  <2>4. Submitted'
    BY <1>5 DEF Submitted, Phase
  <2>5. Collected' = 0
    BY <1>5 DEF Collected, Phase
  <2>6. Flying'
    BY <1>10, <2>5 DEF Flying
  <2>7. queue' \in Seq(Ticketed) /\ inflight' \in Seq(SUBSET (Nat \X Block)) /\ Len(queue') <= 2
    <3>1. PICK e : e = <<>>
      OBVIOUS
    <3>2. e \in Seq(Ticketed) /\ e \in Seq(SUBSET (Nat \X Block)) /\ Len(e) = 0
      BY <3>1
    <3> QED BY <1>10, <3>1, <3>2
  <2> QED BY <1>1, <1>10, <2>3, <2>4, <2>6, <2>7 DEF Outstanding
<1> QED BY <1>5, <1>6, <1>8, <1>9, <1>11, <1>12 DEF AsyncRunning

(* Until then the engine steps synchronously.                              *)
LEMMA SyncOrFirst ==
  ASSUME EngineInv, ~enabled, queue = <<>>, [AsyncNext]_asyncVars
  PROVE  ([EngineNext]_allVars /\ UNCHANGED Stepping) \/ BeginAsync
<1>1. step.phase \notin {"pressure", "retire", "lost"}
  BY EngineParts DEF Synchronous
<1>2. CASE HostCalls
  BY <1>2 DEF HostCalls, EngineNext, StepContinues
<1>3. CASE SyncStep \/ SyncContinues
  BY <1>3 DEF SyncStep, SyncContinues, EngineNext
<1>4. CASE BeginDrain
  BY <1>4 DEF BeginDrain
<1>5. CASE AsyncContinues
  BY <1>1, <1>5 DEF AsyncContinues, BoundaryPassed, PressureDrains, PressurePasses, NothingSelected,
                    Enqueue, CommitEnqueued, RetireSilently, RetireToken, RetireNext, Drained,
                    AsyncFailRequest, AsyncFailDone, Phase
<1>6. CASE AsyncFails \/ DrainRaises
  BY <1>1, <1>6 DEF AsyncFails, SubmitRaises, CollectRaises, DrainRaises, Phase
<1>7. CASE UNCHANGED asyncVars
  BY <1>7 DEF asyncVars, Stepping
<1> QED BY <1>2, <1>3, <1>4, <1>5, <1>6, <1>7 DEF AsyncNext

(* The invariant of the engine, however it steps.                          *)
LEMMA AsyncInvStep ==
  ASSUME AsyncInv, [AsyncNext]_asyncVars
  PROVE  AsyncInv'
<1>1. enabled \in BOOLEAN /\ draining \in BOOLEAN
  BY DEF AsyncInv
<1>2. enabled' \in BOOLEAN /\ draining' \in BOOLEAN /\ (enabled => enabled')
  BY <1>1, StaysEnabled
<1>3. CASE enabled
  <2>1. AsyncRunning'
    BY <1>3, RunningStep DEF AsyncInv
  <2> QED BY <1>2, <1>3, <2>1 DEF AsyncInv
<1>4. CASE ~enabled
  <2>1. EngineInv /\ LeftEmpty /\ Cleared /\ ~draining /\ queue = <<>> /\ inflight = <<>>
    BY <1>4 DEF AsyncInv
  <2>2. CASE BeginAsync
    <3>1. AsyncRunning' /\ enabled'
      BY <2>1, <2>2, FirstAsync DEF BeginAsync
    <3> QED BY <1>2, <3>1 DEF AsyncInv
  <2>3. CASE [EngineNext]_allVars /\ UNCHANGED Stepping
    <3>1. EngineInv' /\ LeftEmpty' /\ Cleared'
      BY <2>1, <2>3, EngineStep, LeftEmptyStep, ClearedStep
    <3>2. UNCHANGED <<enabled, draining, queue, inflight>>
      BY <2>3 DEF Stepping
    <3> QED BY <1>2, <1>4, <2>1, <3>1, <3>2 DEF AsyncInv
  <2> QED BY <1>4, <2>1, <2>2, <2>3, SyncOrFirst
<1> QED BY <1>1, <1>3, <1>4

(* The inductive invariant of the engine, however it is stepped: while no  *)
(* step was asynchronous, that of synchronous stepping; from then on, that *)
(* the uses and samples of every request are exactly those of the steps    *)
(* outstanding, and that what the device may use is held.                  *)
THEOREM AsyncInductive == AsyncSpec => []AsyncInv
<1>1. AsyncInit => AsyncInv
  <2> SUFFICES ASSUME AsyncInit PROVE AsyncInv
    OBVIOUS
  <2>1. EngineInit /\ enabled = FALSE /\ draining = FALSE /\ queue = <<>> /\ inflight = <<>>
    BY DEF AsyncInit
  <2>2. EngineInv
    BY <2>1, EngineInitOK
  <2>3. failed = FALSE
    BY <2>1 DEF EngineInit
  <2>4. LeftEmpty /\ Cleared
    BY <2>3 DEF LeftEmpty, Cleared
  <2> QED BY <2>1, <2>2, <2>4 DEF AsyncInv
<1>2. AsyncInv /\ [AsyncNext]_asyncVars => AsyncInv'
  BY AsyncInvStep
<1> QED BY <1>1, <1>2, PTL DEF AsyncSpec
-----------------------------------------------------------------------------
(* What holds whatever the device may use is a request, by its ticket.     *)
LEMMA HeldInFlight ==
  ASSUME AsyncInv
  PROVE  InFlightHeld
<1> SUFFICES ASSUME NEW use \in UNION Range(inflight)
             PROVE  \E i \in DOMAIN requests : Holds(i, use)
  BY DEF InFlightHeld, Holds
<1>1. PICK p \in DOMAIN inflight : use \in inflight[p]
  BY DEF Range
<1>2. inflight # <<>>
  BY <1>1
<1>3. enabled /\ AsyncRunning
  BY <1>2 DEF AsyncInv
<1>4. Outstanding /\ failed \in BOOLEAN
  BY <1>3, AsyncParts
<1>5. CASE ~failed
  <2>1. Flying
    BY <1>4, <1>5 DEF Outstanding
  <2>2. PICK q, k, i : /\ q = p + Collected /\ k \in DOMAIN queue[q].selected /\ i = queue[q].selected[k]
                       /\ i \in DOMAIN requests /\ Holds(i, use)
    BY <1>1, <2>1 DEF Flying
  <2> QED BY <2>2
<1>6. CASE failed
  BY <1>1, <1>4, <1>6 DEF Outstanding, Grounded
<1> QED BY <1>4, <1>5, <1>6

(* Nothing is released, preempted or truncated under queued device work,   *)
(* not even after a failure whose drain raised.                            *)
THEOREM NothingFreedInFlight == AsyncSpec => []InFlightHeld
BY AsyncInductive, HeldInFlight, PTL

(* With no request that holds blocks and nothing cached, all are free.     *)
LEMMA AllReleased ==
  ASSUME Roster, call = Idle, entries = <<>>, LiveSlots = {}
  PROVE  Len(free) = Cardinality(Block) /\ \A b \in Block : written[b] = 0
<1>1. CacheInv(Tenant, Token) /\ IInv /\ IndexExact /\ Owned
  BY DEF Roster, CacheInv
<1>2. TypeOK /\ FreeOnce /\ Extents /\ HeldStates /\ RefsExact /\ PoolAgrees
  BY <1>1 DEF IInv, Consistent
<1>3. \A i \in DOMAIN requests : ~Held(i)
  BY <1>1 DEF LiveSlots, Live, Owned
<1>4. \A s \in Slot : ~active[s]
  <2>1. \A s : ~Admitting(s)
    BY DEF Admitting, Idle
  <2>2. ASSUME NEW s \in Slot, active[s] PROVE FALSE
    <3>1. PICK i \in DOMAIN requests : requests[i].sequence = s
      BY <1>1, <2>1, <2>2 DEF Owned
    <3>2. s # 0
      OBVIOUS
    <3> QED BY <1>3, <3>1, <3>2 DEF Held
  <2> QED BY <2>2
<1>5. \A s \in Slot : Len(tables[s]) = 0
  <2>1. CeilDiv(0, BlockSize) = 0
    <3>1. BlockSize \in Nat \ {0} /\ 0 * BlockSize = 0
      BY GeometryAssumption
    <3>2. CeilDiv(0, BlockSize) \in Nat /\ (0 <= 0 * BlockSize <=> CeilDiv(0, BlockSize) <= 0)
      BY <3>1, CeilBound
    <3> QED BY <3>1, <3>2
  <2> QED BY <1>2, <1>4, <2>1 DEF Extents
<1>6. \A b \in Block : refs[b] = 0
  <2>1. \A b \in Block : Holders(b) = {}
    <3>1. ASSUME NEW b \in Block, NEW s \in Slot PROVE s \notin Holders(b)
      <4>1. \A i \in 1..Len(tables[s]) : FALSE
        BY <1>5
      <4> QED BY <1>2, <4>1, HolderIndex
    <3> QED BY <1>2, <3>1, HolderIndex
  <2> QED BY <1>2, <2>1, FS_EmptySet DEF RefsExact
<1>7. Registered = {}
  BY <1>1 DEF IndexExact
<1>8. \A b \in Block : states[b] = RESET
  <2>1. \A b \in Block : states[b] \in State /\ states[b] # REGISTERED
    BY <1>2, <1>7 DEF TypeOK, Registered
  <2>2. \A b \in Block : states[b] \notin {PARTIAL, COMPLETE}
    BY <1>2, <1>6 DEF RefsExact
  <2> QED BY <2>1, <2>2
<1>9. \A b \in Block : written[b] = 0
  BY <1>2, <1>8 DEF PoolAgrees
<1>10. Range(free) = Block /\ IsInjective(free) /\ free \in Seq(Block)
  BY <1>2, <1>8 DEF FreeOnce, TypeOK
<1>11. Len(free) = Cardinality(Block)
  <2>1. Len(free) \in Nat /\ DOMAIN free = 1..Len(free) /\ free \in [1..Len(free) -> Block]
    BY <1>10
  <2>2. free \in Bijection(1..Len(free), Block)
    BY <1>10, <2>1 DEF Bijection, Injection, Surjection, IsInjective, Range
  <2>3. ExistsBijection(1..Len(free), Block)
    BY <2>2 DEF ExistsBijection
  <2> QED BY <2>1, <2>3, FS_CountingElements
<1> QED BY <1>9, <1>11
-----------------------------------------------------------------------------
(* A failed engine that has no device work out has released everything, or *)
(* is doing so: only a drain that raised leaves requests behind.           *)
Emptied ==
  enabled /\ failed /\ inflight = <<>> =>
    queue = <<>> /\ (Phase("failing") \/ (Phase("idle") /\ LiveSlots = {}))

(* Whatever fails, it leaves a ticket that was not collected.              *)
LEMMA FailsWithTicket ==
  ASSUME AsyncRunning, AsyncFails, ~failed
  PROVE  inflight' # <<>>
<1>1. Outstanding /\ Waits
  BY AsyncParts
<1>2. /\ Len(queue) \in Nat /\ (queue = <<>> <=> Len(queue) = 0)
      /\ Len(inflight) \in Nat /\ (inflight = <<>> <=> Len(inflight) = 0)
      /\ inflight \in Seq(SUBSET (Nat \X Block))
  BY <1>1, QueueAt
<1>3. Flying
  BY <1>1 DEF Outstanding
<1>4. CASE SubmitRaises /\ Phase("execute")
  <2>1. step.phase = "execute" /\ inflight' = Append(inflight, BatchTables)
    BY <1>4 DEF SubmitRaises, Phase
  <2>2. BatchTables \in SUBSET (Nat \X Block)
    BY <2>1, BatchHolds
  <2>3. Len(inflight') = Len(inflight) + 1
    BY <1>2, <2>1, <2>2, AppendProperties
  <2> QED BY <1>2, <2>3
<1>5. CASE (SubmitRaises /\ ~Phase("execute")) \/ CollectRaises
  <2>1. step.phase \in {"commit", "retire"} /\ inflight' = inflight /\ step.done = 0
    BY <1>5 DEF SubmitRaises, CollectRaises, Executing, Phase
  <2>2. Collected = 0
    <3>1. ~(0 > 0)
      OBVIOUS
    <3> QED BY <2>1, <3>1 DEF Collected
  <2>3. queue # <<>>
    BY <1>1, <2>1 DEF Waits
  <2> QED BY <1>2, <1>3, <2>1, <2>2, <2>3 DEF Flying
<1> QED BY <1>4, <1>5 DEF AsyncFails

(* Only submission and collection make an engine invalid that steps        *)
(* asynchronously.                                                         *)
LEMMA FailureIsAsync ==
  ASSUME enabled, [AsyncNext]_asyncVars, ~AsyncFails
  PROVE  failed' = failed
<1>1. CASE HostCalls
  BY <1>1 DEF HostCalls, Host, Add, Abort, ClearCache, CacheClears, engineVars
<1>2. CASE BeginAsync \/ BeginDrain \/ DrainRaises \/ UNCHANGED asyncVars
  BY <1>2 DEF BeginAsync, BeginDrain, DrainRaises, OnlyStep, asyncVars, allVars, engineVars
<1>3. CASE BoundaryFinish \/ BuildBatch \/ BoundaryPassed \/ PressureDrains \/ PressurePasses \/ NothingSelected
  BY <1>3 DEF BoundaryFinish, BuildBatch, BoundaryPassed, PressureDrains, PressurePasses, NothingSelected,
              OnlyStep
<1>4. CASE Enqueue \/ CommitEnqueued \/ RetireSilently \/ RetireToken
  BY <1>4 DEF Enqueue, CommitEnqueued, RetireSilently, RetireToken, RetireNext
<1>5. CASE Drained \/ AsyncFailRequest \/ AsyncFailDone
  BY <1>5 DEF Drained, AsyncFailRequest, AsyncFailDone, OnlyStep
<1>6. CASE Schedule
  <2>1. CASE DecodePick \/ DecodeDone \/ RoomOwned \/ RoomReclaim \/ RoomPreempt \/ RoomReserve \/ RoomLost
    BY <2>1 DEF DecodePick, DecodeDone, RoomOwned, RoomReclaim, RoomPreempt, RoomReserve, RoomLost,
                OnlyStep, engineVars
  <2>2. CASE PrefillPick \/ PrefillNone \/ PrefillSkip \/ AdmitBlocks \/ AdmitRefuse \/ AdmitPlain
    BY <2>2 DEF PrefillPick, PrefillNone, PrefillSkip, AdmitBlocks, AdmitRefuse, AdmitPlain, OnlyStep
  <2>3. CASE AdmitBegin \/ AdmitReclaim \/ AdmitSequence \/ AdmitChoose
    BY <2>3 DEF AdmitBegin, AdmitReclaim, AdmitSequence, AdmitChoose, engineVars
  <2> QED BY <1>6, <2>1, <2>2, <2>3 DEF Schedule
<1>7. ~SyncStep /\ ~SyncContinues
  BY DEF SyncStep, SyncContinues
<1> QED BY <1>1, <1>2, <1>3, <1>4, <1>5, <1>6, <1>7 DEF AsyncNext, AsyncContinues

(* After a failure the device's work stays out until a drain succeeds, and *)
(* then the call ends the requests before it returns.                      *)
LEMMA AfterAsyncFailure ==
  ASSUME AsyncRunning, enabled, failed, [AsyncNext]_asyncVars
  PROVE  \/ UNCHANGED <<requests, step, queue, inflight>>
         \/ BeginDrain \/ Drained \/ AsyncFailRequest \/ AsyncFailDone \/ ((\E id : Abort(id)) /\ UNCHANGED Stepping)
         \/ DrainRaises \/ AsyncFails \/ (BoundaryFinish /\ UNCHANGED Stepping) \/ BoundaryPassed
<1>1. Waits
  BY AsyncParts
<1>2. step.phase \in {"idle", "boundary", "retire", "lost", "failing"}
  BY <1>1 DEF Waits
<1>3. CASE HostCalls
  <2>1. CASE \E id \in Ids : Abort(id)
    BY <1>3, <2>1 DEF HostCalls
  <2>2. CASE ClearCache \/ CacheClears
    BY <1>3, <2>2 DEF HostCalls, ClearCache, CacheClears, engineVars, Stepping
  <2> QED BY <1>3, <2>1, <2>2 DEF HostCalls, Host, Add
<1>4. ~BeginAsync /\ ~SyncStep /\ ~SyncContinues
  BY DEF BeginAsync, SyncStep, SyncContinues
<1>5. CASE UNCHANGED asyncVars
  BY <1>5 DEF asyncVars, allVars, engineVars
<1>6. ~(BuildBatch \/ PressureDrains \/ PressurePasses \/ NothingSelected \/ Enqueue \/ CommitEnqueued)
  BY <1>2 DEF BuildBatch, PressureDrains, PressurePasses, NothingSelected, Enqueue, CommitEnqueued, Phase
<1>7. ~(RetireSilently \/ RetireToken)
  BY DEF RetireSilently, RetireToken, RetireNext
<1>8. ~Schedule
  <2>1. call.op \notin {"admit", "reserve"}
    BY AsyncParts DEF Uncached
  <2>2. ~(DecodePick \/ DecodeDone \/ RoomOwned \/ RoomReclaim \/ RoomPreempt \/ RoomReserve \/ RoomLost)
    BY <1>2 DEF DecodePick, DecodeDone, RoomOwned, RoomReclaim, RoomPreempt, RoomReserve, RoomLost, Phase
  <2>3. ~(PrefillPick \/ PrefillNone \/ PrefillSkip \/ AdmitBlocks \/ AdmitRefuse \/ AdmitPlain)
    BY <1>2 DEF PrefillPick, PrefillNone, PrefillSkip, AdmitBlocks, AdmitRefuse, AdmitPlain, Phase
  <2>4. ~(AdmitBegin \/ AdmitReclaim \/ AdmitSequence \/ AdmitChoose)
    BY <1>2, <2>1 DEF AdmitBegin, AdmitReclaim, AdmitSequence, AdmitAttach, AdmitChoose, AdmitReserve, Phase
  <2> QED BY <2>2, <2>3, <2>4 DEF Schedule
<1> QED BY <1>3, <1>4, <1>5, <1>6, <1>7, <1>8 DEF AsyncNext, AsyncContinues

(* Every step keeps it.                                                    *)
LEMMA EmptiedStep ==
  ASSUME AsyncInv, Emptied, [AsyncNext]_asyncVars
  PROVE  Emptied'
<1> SUFFICES ASSUME enabled', failed', inflight' = <<>>
             PROVE  queue' = <<>> /\ (step'.phase = "failing" \/ (step'.phase = "idle" /\ (LiveSlots = {})'))
  BY DEF Emptied, Phase
<1>1. enabled
  <2>1. ASSUME ~enabled PROVE FALSE
    <3>1. EngineInv /\ queue = <<>>
      BY <2>1 DEF AsyncInv
    <3>2. BeginAsync
      BY <2>1, <3>1, SyncOrFirst DEF Stepping
    <3> QED BY <3>2 DEF BeginAsync, OnlyStep
  <2> QED BY <2>1 DEF AsyncInv
<1>2. AsyncRunning
  BY <1>1 DEF AsyncInv
<1>3. failed
  BY <1>1, <1>2, FailsWithTicket, FailureIsAsync
<1>4. /\ Waits /\ step \in AsyncStepType
      /\ step.phase \in {"idle", "boundary", "retire", "lost", "failing"}
  BY <1>2, <1>3, AsyncParts DEF Waits
<1>5. CASE inflight = <<>>
  <2>1. queue = <<>> /\ (step.phase = "failing" \/ (step.phase = "idle" /\ LiveSlots = {}))
    BY <1>1, <1>3, <1>5 DEF Emptied, Phase
  <2>2. CASE UNCHANGED <<requests, step, queue, inflight>>
    BY <2>1, <2>2 DEF LiveSlots, Live
  <2>3. ~(BeginDrain \/ Drained \/ DrainRaises \/ AsyncFails \/ BoundaryFinish \/ BoundaryPassed)
    BY <2>1 DEF BeginDrain, Drained, DrainRaises, AsyncFails, SubmitRaises, CollectRaises, Executing,
                BoundaryFinish, BoundaryPassed, Phase
  <2>4. ASSUME NEW id, Abort(id) PROVE FALSE
    BY <2>1, <2>4 DEF Abort, Idling, Phase, LiveSlots
  <2>5. CASE AsyncFailRequest
    BY <2>1, <2>5 DEF AsyncFailRequest, Stepping, Phase
  <2>6. CASE AsyncFailDone
    <3>1. NoStep.phase = "idle"
      BY DEF NoStep
    <3> QED BY <2>1, <2>6, <3>1 DEF AsyncFailDone, OnlyStep, LiveSlots, Live
  <2> QED BY <1>1, <1>2, <1>3, <1>5, <2>2, <2>3, <2>4, <2>5, <2>6, AfterAsyncFailure
<1>6. CASE inflight # <<>>
  <2>1. ~UNCHANGED inflight
    BY <1>6
  <2>2. Drained
    <3>1. ~(BeginDrain \/ AsyncFailRequest \/ AsyncFailDone \/ DrainRaises \/ BoundaryPassed)
      BY <2>1 DEF BeginDrain, AsyncFailRequest, AsyncFailDone, DrainRaises, BoundaryPassed, Stepping
    <3>2. ~AsyncFails
      BY <1>4, <2>1 DEF AsyncFails, SubmitRaises, CollectRaises, Executing, Phase
    <3>3. ~UNCHANGED Stepping
      BY <2>1 DEF Stepping
    <3> QED BY <1>1, <1>2, <1>3, <2>1, <3>1, <3>2, <3>3, AfterAsyncFailure
  <2>3. step' = [step EXCEPT !.phase = "failing"] /\ queue' = <<>>
    BY <2>2 DEF Drained, Goto
  <2> QED BY <1>4, <2>3 DEF AsyncStepType
<1> QED BY <1>5, <1>6

(* Once a failure is over and no call is running, the blocks are all free. *)
LEMMA RestoredAfterFailure ==
  ASSUME AsyncInv, Emptied
  PROVE  FailureReleases
<1> SUFFICES ASSUME failed, Idling, ~(inflight # <<>> /\ LiveSlots # {})
             PROVE  /\ LiveSlots = {}
                    /\ Len(free) = Cardinality(Block)
                    /\ \A b \in Block : written[b] = 0
                    /\ inflight = <<>>
  BY DEF FailureReleases
<1>1. call = Idle /\ Phase("idle")
  BY DEF Idling
<1>2. enabled \in BOOLEAN
  BY DEF AsyncInv
<1>3. CASE ~enabled
  <2>1. EngineInv /\ LeftEmpty /\ Cleared /\ inflight = <<>>
    BY <1>3 DEF AsyncInv
  <2>2. LiveSlots = {} /\ entries = <<>>
    BY <1>1, <2>1 DEF LeftEmpty, Cleared
  <2>3. Roster
    BY <2>1, EngineParts DEF Base
  <2> QED BY <1>1, <2>1, <2>2, <2>3, AllReleased
<1>4. CASE enabled
  <2>1. LiveSlots = {} /\ AsyncRunning
    BY <1>1, <1>4 DEF AsyncInv, Emptied, Phase
  <2>2. Roster /\ Uncached /\ Outstanding /\ Owned
    BY <2>1, AsyncParts
  <2>3. entries = <<>> /\ Grounded
    BY <2>2 DEF Uncached, Outstanding
  <2>4. ASSUME NEW i \in DOMAIN requests, Firm(i) PROVE FALSE
    <3>1. requests[i].state \in {PREFILL, DECODE, DRAINING}
      BY <2>2, <2>4 DEF Firm, Owned
    <3> QED BY <2>1, <3>1 DEF LiveSlots, Live
  <2>5. inflight = <<>>
    BY <2>3, <2>4 DEF Grounded
  <2> QED BY <1>1, <2>1, <2>2, <2>3, <2>5, AllReleased
<1> QED BY <1>2, <1>3, <1>4

(* A failed engine leaks nothing: between two calls every request has      *)
(* ended, every block is free and empty and no device work is out, unless  *)
(* the drain raised as well: then tickets are left uncollected, and        *)
(* requests still hold what the device may use.                            *)
THEOREM FailureLeaksNothing == AsyncSpec => []FailureReleases
<1>1. AsyncInit => Emptied
  BY DEF AsyncInit, EngineInit, Emptied
<1>2. AsyncInv /\ Emptied /\ [AsyncNext]_asyncVars => Emptied'
  BY EmptiedStep
<1>3. AsyncInv /\ Emptied => FailureReleases
  BY RestoredAfterFailure
<1> QED BY <1>1, <1>2, <1>3, AsyncInductive, PTL DEF AsyncSpec
=============================================================================
