----------------------- MODULE EngineScheduler_proofs -----------------------
(***************************************************************************)
(* The engine's scheduler, for every configuration, pool, request limit    *)
(* and host: the invariant of the engine stepped synchronously, and that   *)
(* every step of scheduling keeps it.                                      *)
(*                                                                         *)
(* One call of step takes many steps of the model, and between them the    *)
(* engine's own audit does not hold. EngineInv says what holds instead,    *)
(* phase by phase. Core: a request that goes on stands where its history   *)
(* ends (Steady), one that is selected has room for its rows (Ready), has  *)
(* them run (Written), has them committed (Committed); what the step in    *)
(* progress selected or aims at stays possible until it is used; and a     *)
(* call on the index stands for the request it was made for. Fifo:         *)
(* residents are older than waiters, a prefill is the newest resident, and *)
(* no request is selected before an older decode was. Rows: what a         *)
(* sequence's blocks hold are the rows of its request's own history.       *)
(* Synchronous: nothing is outstanding.                                    *)
(*                                                                         *)
(* Each property of the engine is a consequence of the four in one state.  *)
(* None of them is inductive without the others: that preemption takes no  *)
(* selected request rests on the order, the order rests on who may hold    *)
(* blocks, and the rows of a shared block on what the index files.         *)
(*                                                                         *)
(* The runner's part of a step is in EngineSync_proofs. What asynchronous  *)
(* stepping keeps too is apart as Roster: the blocks, the index, and whose *)
(* sequences are whose, without where each request stands.                 *)
(***************************************************************************)
EXTENDS EngineSync, KVCache_proofs

USE DEF Slot, State, RESET, PARTIAL, COMPLETE, REGISTERED, WAITING, PREFILL, DECODE, FINISHED, DRAINING
-----------------------------------------------------------------------------
(* Tokens requests are made of, and their tenants.                         *)
Token  == Sampled \cup UNION {Range(p) : p \in Prompts}
Tenant == Salts

(* A request slot.                                                         *)
RequestType ==
  [id : Ids, ticket : Nat, tokens : Seq(Token), prompt : Nat, maximum : Nat, salt : Tenant,
   state : {WAITING, PREFILL, DECODE, FINISHED, DRAINING}, sequence : 0..MaxSlots,
   abort : BOOLEAN, uses : Nat, samples : Nat]

(* Where a call of step stands: outside its choice, in it, or after it.    *)
Still    == {"idle", "boundary", "failing", "pressure", "retire", "lost"}
Choosing == {"decode", "room", "prefill", "admit", "reserve", "build"}
Posting  == {"publish", "publishing", "sample"}
Running  == {"execute", "commit"} \cup Posting

Choice     == [index : Nat, count : Nat]
TargetType == [index : Nat, count : Nat, needed : Int, from : {"none", "decode", "prefill"}, lost : BOOLEAN]

StepType ==
  [phase : Still \cup Choosing \cup Running, chosen : Seq(Choice), considered : SUBSET Nat,
   target : TargetType, done : Nat]
-----------------------------------------------------------------------------
(* Requests are told apart by their tickets.                               *)
Tickets ==
  /\ nextTicket \in Nat
  /\ \A i \in DOMAIN requests : requests[i].ticket < nextTicket
  /\ \A i, j \in DOMAIN requests : requests[i].ticket = requests[j].ticket => i = j

(* A live request: what is left of its output, and what is outstanding.    *)
Shape(i) ==
  /\ requests[i].prompt >= 1 /\ requests[i].prompt <= Len(requests[i].tokens)
  /\ requests[i].prompt + requests[i].maximum <= MaxLength
  /\ Generated(i) + requests[i].samples <= requests[i].maximum
  /\ requests[i].samples <= requests[i].uses
  /\ requests[i].maximum > 0 /\ requests[i].state # DRAINING => Generated(i) < requests[i].maximum
  /\ requests[i].maximum = 0 => requests[i].state = WAITING
  /\ requests[i].state \in {WAITING, PREFILL} => requests[i].samples = 0
  /\ requests[i].state = WAITING => requests[i].uses = 0

(* A live sequence is a resident request's, or that of the one being       *)
(* admitted.                                                               *)
Admitting(s) == call.op = "reserve" /\ call.sequence = s

Owned ==
  /\ \A i \in DOMAIN requests : Held(i) <=> requests[i].state \in {PREFILL, DECODE, DRAINING}
  /\ \A i \in DOMAIN requests : Held(i) =>
       active[requests[i].sequence] /\ ~Admitting(requests[i].sequence)
  /\ \A i, j \in DOMAIN requests : Held(i) /\ requests[i].sequence = requests[j].sequence => i = j
  /\ \A s \in Slot : active[s] =>
       Admitting(s) \/ \E i \in DOMAIN requests : requests[i].sequence = s

Roster ==
  /\ CacheInv(Tenant, Token)
  /\ requests \in Seq(RequestType) /\ mode \in Modes /\ failed \in BOOLEAN
  /\ Tickets
  /\ Owned

Base == Roster /\ \A i \in DOMAIN requests : Live(i) => Shape(i)
-----------------------------------------------------------------------------
(* A resident request that goes on, and how far its blocks are: between    *)
(* its steps, with room for n rows, with them run, with them committed.    *)
Stands(i) == Held(i) /\ requests[i].state # DRAINING
Extent(i) == enqueued[requests[i].sequence]
Space(i)  == reserved[requests[i].sequence]

Steady(i) ==
  /\ Extent(i) = Past(i) /\ Past(i) < History(i)
  /\ requests[i].state = DECODE => Past(i) = History(i) - 1
Ready(i, n) == n >= 1 /\ Past(i) + n <= Space(i) /\ Past(i) + n <= History(i)
Written(i, n) ==
  /\ n >= 1 /\ Extent(i) = Past(i) + n /\ Extent(i) <= History(i)
  /\ requests[i].state = DECODE => Extent(i) = History(i)
Committed(i) ==
  /\ Extent(i) = Past(i) /\ Past(i) <= History(i)
  /\ requests[i].state = DECODE => Past(i) = History(i)

(* The selected requests between their run and their post-processing.      *)
Executed ==
  {k \in DOMAIN step.chosen :
     \/ Phase("execute") /\ k <= step.done
     \/ step.phase \in Running \ {"execute"} /\ k > step.done}
Unsteady  == {step.chosen[k].index : k \in Executed}
Posted(k) == step.phase \in Posting /\ k = step.done + 1

Standing == \A i \in DOMAIN requests : Stands(i) /\ i \notin Unsteady => Steady(i)

(* A lifetime reservation is owned in full.                                *)
Lifetime ==
  mode.lifetime => \A i \in DOMAIN requests :
    Stands(i) /\ ~(Phase("reserve") /\ i = step.target.index) =>
      Space(i) = PeakKVExtent(requests[i].prompt, requests[i].maximum)
-----------------------------------------------------------------------------
(* The selection of the step in progress: within the limits, no request    *)
(* twice, one row each but for the last.                                   *)
Batch ==
  /\ Len(step.chosen) <= MaxSequences
  /\ \A k \in DOMAIN step.chosen : step.chosen[k].index \in DOMAIN requests
  /\ \A k, l \in DOMAIN step.chosen : step.chosen[k].index = step.chosen[l].index => k = l
  /\ \A k \in DOMAIN step.chosen : k < Len(step.chosen) => step.chosen[k].count = 1
  /\ step.chosen # <<>> => Len(step.chosen) - 1 + step.chosen[Len(step.chosen)].count <= TokenBudget

Picked(k) ==
  LET i == step.chosen[k].index
  IN  requests[i].state \in {PREFILL, DECODE} /\ Ready(i, step.chosen[k].count)

(* Until a prefill is selected there are decodes only.                     *)
Single(k) ==
  LET i == step.chosen[k].index
  IN  step.chosen[k].count = 1 /\ requests[i].state = DECODE /\ i \in step.considered

Ran(k) ==
  LET i == step.chosen[k].index
      n == step.chosen[k].count
  IN  IF k \notin Executed THEN Phase("execute") => Picked(k)
      ELSE /\ requests[i].state \in {PREFILL, DECODE}
           /\ IF Posted(k) THEN Committed(i) ELSE Written(i, n)

(* What room is made for.                                                  *)
Target1(i) ==
  LET t == step.target
  IN  /\ i = t.index /\ i \in DOMAIN requests /\ i \notin ChosenSlots
      /\ t.count >= 1 /\ t.count <= RowsLeft /\ SequenceLeft

RoomTarget(i) ==
  LET t == step.target
  IN  /\ Target1(i)
      /\ t.from \in {"decode", "prefill"}
      /\ t.from = "decode" => t.count = 1 /\ i \in step.considered
      /\ IF t.lost THEN requests[i].state = WAITING /\ ~mode.lifetime
         ELSE /\ requests[i].state = (IF t.from = "decode" THEN DECODE ELSE PREFILL)
              /\ Past(i) + t.count <= History(i)
              /\ t.needed = Needed(i, Past(i) + t.count)
              /\ Generated(i) + requests[i].samples < requests[i].maximum

ReserveTarget(i) ==
  /\ Target1(i)
  /\ requests[i].state = PREFILL
  /\ Past(i) = 0 /\ Extent(i) = 0 /\ Space(i) = 0
  /\ step.target.count <= History(i)

AdmitTarget(i) ==
  /\ Target1(i)
  /\ i \in NextWaiting
  /\ Len(call.cached) * BlockSize + step.target.count <= History(i)
  /\ Len(call.cached) * BlockSize + step.target.count <= call.length
  /\ mode.lifetime => call.length = PeakKVExtent(requests[i].prompt, requests[i].maximum)
  /\ call.op = "admit" => Matched(call.cached, requests[i].tokens, requests[i].salt)
  /\ call.op = "reserve" =>
       enqueued[call.sequence] = lengths[call.sequence] /\ reserved[call.sequence] <= call.length

Selected ==
  /\ step.phase \in Still => step.chosen = <<>>
  /\ step.phase \in (Still \ {"retire"}) \cup Choosing => step.done = 0
  /\ step.phase \in Choosing =>
       /\ Batch /\ \A k \in DOMAIN step.chosen : Picked(k)
       /\ \A i \in DOMAIN requests :
            Live(i) /\ requests[i].state # DRAINING => requests[i].maximum > 0
  /\ step.phase \in Choosing \ {"build"} => \A k \in DOMAIN step.chosen : Single(k)
  /\ Phase("room") => RoomTarget(step.target.index)
  /\ Phase("admit") => SequenceLeft
  /\ Phase("reserve") => ReserveTarget(step.target.index)
  /\ step.phase \in Running =>
       /\ Batch /\ step.done < Len(step.chosen)
       /\ \A k \in DOMAIN step.chosen : Ran(k)
  /\ Phase("publish") => mode.prefix

(* The engine's calls on its index, and what their arguments stand for.    *)
Calling ==
  /\ call.op \in {"none", "admit", "reserve", "publish", "clear"}
  /\ call.op \in {"admit", "reserve"} => Phase("admit") /\ AdmitTarget(step.target.index)
  /\ call.op = "publish" <=> Phase("publishing")
  /\ call.op = "publish" =>
       call.sequence = Sequence /\ call.tokens = Request.tokens /\ call.salt = Request.salt
  /\ call.op = "clear" => Phase("idle") /\ LiveSlots = {}

Stepwise ==
  /\ step \in StepType
  /\ ~failed => Standing /\ Lifetime /\ Selected
  /\ Calling

Core == Base /\ Stepwise
-----------------------------------------------------------------------------
(* Who came first.                                                         *)
NewestPrefill ==
  \A i, j \in DOMAIN requests : requests[i].state = PREFILL /\ Held(j) /\ j # i =>
    requests[j].ticket < requests[i].ticket
NonePrefilling == \A i \in DOMAIN requests : requests[i].state # PREFILL

OldestChosen ==
  \A k \in DOMAIN step.chosen : \A j \in DOMAIN requests :
    /\ requests[j].state = DECODE /\ j \notin ChosenSlots
    /\ j \notin step.considered \/ j = step.target.index
    => requests[step.chosen[k].index].ticket < requests[j].ticket

Fifo ==
  /\ ResidentsOlderThanWaiters
  /\ NewestPrefill
  /\ step.phase \in Choosing \ {"build", "reserve"} => OldestChosen
  /\ Phase("admit") => NonePrefilling
  /\ Phase("room") /\ step.target.from = "decode" =>
       \A j \in DOMAIN requests : requests[j].state = DECODE /\ j \notin step.considered =>
         requests[step.target.index].ticket < requests[j].ticket
  /\ Phase("room") /\ step.target.from = "prefill" /\ step.target.lost => NonePrefilling
-----------------------------------------------------------------------------
(* Rows are those of the histories delivered.                              *)
Rows ==
  /\ RowsTyped(Token) /\ EntriesOwnRows
  /\ \A i \in DOMAIN requests : Held(i) =>
       OwnRows(requests[i].sequence, requests[i].tokens, requests[i].salt)
  /\ call.op = "reserve" =>
       OwnRows(call.sequence, requests[step.target.index].tokens, requests[step.target.index].salt)

(* Stepping synchronously nothing is outstanding between two calls.        *)
Synchronous ==
  /\ step.phase \notin {"pressure", "retire", "lost"}
  /\ \A i \in DOMAIN requests :
       requests[i].uses = 0 /\ requests[i].samples = 0 /\ requests[i].state # DRAINING
  /\ ~mode.prefix => entries = <<>> /\ call.op \in {"none", "clear"}
  /\ failed => step.phase \in {"idle", "failing"}

EngineInv == Core /\ Fifo /\ Rows /\ Synchronous
-----------------------------------------------------------------------------
(* A request slot and its fields.                                          *)
LEMMA RequestAt ==
  ASSUME requests \in Seq(RequestType), NEW i \in DOMAIN requests
  PROVE  /\ Len(requests) \in Nat /\ DOMAIN requests = 1..Len(requests) /\ i \in Nat /\ i # 0
         /\ requests[i] \in RequestType
         /\ requests[i].ticket \in Nat /\ requests[i].tokens \in Seq(Token)
         /\ Len(requests[i].tokens) \in Nat /\ requests[i].salt \in Tenant
         /\ requests[i].prompt \in Nat /\ requests[i].maximum \in Nat
         /\ requests[i].uses \in Nat /\ requests[i].samples \in Nat
         /\ requests[i].sequence \in 0..MaxSlots /\ Generated(i) \in Int /\ History(i) \in Nat
<1>1. Len(requests) \in Nat /\ DOMAIN requests = 1..Len(requests) /\ requests[i] \in RequestType
  OBVIOUS
<1>2. /\ requests[i].ticket \in Nat /\ requests[i].tokens \in Seq(Token)
      /\ requests[i].salt \in Tenant
      /\ requests[i].prompt \in Nat /\ requests[i].maximum \in Nat
      /\ requests[i].uses \in Nat /\ requests[i].samples \in Nat
      /\ requests[i].sequence \in 0..MaxSlots
  BY <1>1 DEF RequestType
<1>3. Len(requests[i].tokens) \in Nat
  BY <1>2
<1>4. Generated(i) \in Int /\ History(i) \in Nat
  BY <1>2, <1>3 DEF Generated, History
<1> QED BY <1>1, <1>2, <1>3, <1>4

(* A request that holds blocks holds them in a sequence.                   *)
LEMMA RosterResident ==
  ASSUME Roster, NEW i \in DOMAIN requests, Held(i)
  PROVE  /\ requests[i].sequence \in Slot /\ active[requests[i].sequence]
         /\ Past(i) \in Nat /\ Extent(i) \in Nat /\ Space(i) \in Nat
         /\ Past(i) <= Extent(i) /\ Extent(i) <= Space(i) /\ Space(i) <= MaxLength
         /\ requests[i].state \in {PREFILL, DECODE, DRAINING}
<1>1. requests[i].sequence \in Slot
  <2>1. requests[i].sequence \in 0..MaxSlots /\ requests[i].sequence # 0
    BY RequestAt DEF Roster, Held
  <2> QED BY <2>1, GeometryAssumption
<1>2. active[requests[i].sequence] /\ requests[i].state \in {PREFILL, DECODE, DRAINING}
  BY DEF Roster, Owned
<1>3. TypeOK /\ Extents
  BY DEF Roster, CacheInv, IInv, Consistent
<1>4. PICK s \in Slot : s = requests[i].sequence
  BY <1>1
<1>5. /\ lengths[s] \in Nat /\ enqueued[s] \in Nat /\ reserved[s] \in Nat
      /\ lengths[s] <= enqueued[s] /\ enqueued[s] <= reserved[s] /\ reserved[s] <= MaxLength
  BY <1>3, ExtentType
<1> QED BY <1>1, <1>2, <1>4, <1>5 DEF Past, Extent, Space

(* The same of Base.                                                       *)
LEMMA Resident ==
  ASSUME Base, NEW i \in DOMAIN requests, Held(i)
  PROVE  /\ requests[i].sequence \in Slot /\ active[requests[i].sequence]
         /\ Past(i) \in Nat /\ Extent(i) \in Nat /\ Space(i) \in Nat
         /\ Past(i) <= Extent(i) /\ Extent(i) <= Space(i) /\ Space(i) <= MaxLength
         /\ requests[i].state \in {PREFILL, DECODE, DRAINING}
BY RosterResident DEF Base

(* One slot changes, the others do not.                                    *)
LEMMA UpdateOne ==
  ASSUME requests \in Seq(RequestType), NEW i \in DOMAIN requests, NEW r \in RequestType,
         requests' = [requests EXCEPT ![i] = r]
  PROVE  /\ requests' \in Seq(RequestType) /\ DOMAIN requests' = DOMAIN requests
         /\ requests'[i] = r
         /\ \A j \in DOMAIN requests : j # i => requests'[j] = requests[j]
<1>1. requests \in [1..Len(requests) -> RequestType] /\ Len(requests) \in Nat
  OBVIOUS
<1>2. requests' \in [1..Len(requests) -> RequestType]
  BY <1>1
<1>3. requests' \in Seq(RequestType)
  BY <1>1, <1>2, SeqDef
<1> QED BY <1>1, <1>2, <1>3

(* Its ticket stays, so requests are still told apart.                     *)
LEMMA SameTickets ==
  ASSUME Tickets, requests \in Seq(RequestType), DOMAIN requests' = DOMAIN requests,
         \A j \in DOMAIN requests : requests'[j].ticket = requests[j].ticket,
         nextTicket' = nextTicket
  PROVE  Tickets'
BY DEF Tickets
-----------------------------------------------------------------------------
(* A step that leaves request i and the extents of its sequence alone.     *)
Same(i) ==
  /\ requests'[i] = requests[i]
  /\ LET s == requests[i].sequence
     IN  /\ lengths'[s] = lengths[s] /\ enqueued'[s] = enqueued[s] /\ reserved'[s] = reserved[s]
         /\ Len(tables'[s]) = Len(tables[s])

(* What is known of the request stays known.                               *)
LEMMA SameRequest ==
  ASSUME NEW i, Same(i)
  PROVE  /\ Past(i)' = Past(i) /\ Extent(i)' = Extent(i) /\ Space(i)' = Space(i)
         /\ History(i)' = History(i) /\ Generated(i)' = Generated(i)
         /\ Held(i)' = Held(i) /\ Stands(i)' = Stands(i) /\ Live(i)' = Live(i)
         /\ Steady(i) => Steady(i)'
         /\ Committed(i) => Committed(i)'
         /\ \A n : Ready(i, n) => Ready(i, n)'
         /\ \A n : Written(i, n) => Written(i, n)'
         /\ \A n : Needed(i, n)' = Needed(i, n)
<1>1. /\ Past(i)' = Past(i) /\ Extent(i)' = Extent(i) /\ Space(i)' = Space(i)
      /\ History(i)' = History(i) /\ Generated(i)' = Generated(i)
      /\ Held(i)' = Held(i) /\ Live(i)' = Live(i)
      /\ requests'[i].state = requests[i].state
  BY DEF Same, Past, Extent, Space, History, Generated, Held, Live
<1>2. Stands(i)' = Stands(i)
  BY <1>1 DEF Stands
<1>3. \A n : Needed(i, n)' = Needed(i, n)
  BY DEF Same, Needed
<1>4. Steady(i) => Steady(i)'
  BY <1>1 DEF Steady
<1>5. Committed(i) => Committed(i)'
  BY <1>1 DEF Committed
<1>6. \A n : Ready(i, n) => Ready(i, n)'
  BY <1>1 DEF Ready
<1>7. \A n : Written(i, n) => Written(i, n)'
  BY <1>1 DEF Written
<1> QED BY <1>1, <1>2, <1>3, <1>4, <1>5, <1>6, <1>7

(* Operations on another sequence, and on none.                            *)
LEMMA SameByStill ==
  ASSUME NEW i, UNCHANGED <<requests, vars>>
  PROVE  Same(i)
BY DEF Same, vars
-----------------------------------------------------------------------------
(* Steps that change no request keep what is known of them all.            *)
LEMMA RosterStill ==
  ASSUME Roster, CacheInv(Tenant, Token)', UNCHANGED <<requests, nextTicket, mode, active>>,
         failed' \in BOOLEAN, \A s \in Slot : Admitting(s)' <=> Admitting(s)
  PROVE  Roster'
<1>1. Tickets' /\ requests' \in Seq(RequestType) /\ mode' \in Modes
  BY DEF Roster, Tickets
<1>3. \A i \in DOMAIN requests' :
        /\ Held(i)' <=> requests'[i].state \in {PREFILL, DECODE, DRAINING}
        /\ Held(i)' => active'[requests'[i].sequence] /\ ~(call'.op = "reserve" /\ call'.sequence = requests'[i].sequence)
  <2> SUFFICES ASSUME NEW i \in DOMAIN requests
               PROVE  /\ Held(i)' <=> requests'[i].state \in {PREFILL, DECODE, DRAINING}
                      /\ Held(i)' => active'[requests'[i].sequence]
                                     /\ ~(call'.op = "reserve" /\ call'.sequence = requests'[i].sequence)
    OBVIOUS
  <2>1. Held(i)' <=> Held(i)
    BY DEF Held
  <2>2. Held(i) <=> requests[i].state \in {PREFILL, DECODE, DRAINING}
    BY DEF Roster, Owned
  <2>3. PICK s : s = requests[i].sequence
    OBVIOUS
  <2>4. Held(i) => s \in Slot /\ active[s] /\ ~Admitting(s)
    BY <2>3, RosterResident DEF Roster, Owned
  <2>5. Held(i) => active'[s] /\ ~Admitting(s)'
    BY <2>4
  <2>6. requests'[i].sequence = s /\ requests'[i].state = requests[i].state
    BY <2>3
  <2> QED BY <2>1, <2>2, <2>5, <2>6 DEF Admitting
<1>4. \A i, j \in DOMAIN requests' :
        Held(i)' /\ requests'[i].sequence = requests'[j].sequence => i = j
  BY DEF Roster, Owned, Held
<1>5. \A s \in Slot : active'[s] =>
        Admitting(s)' \/ \E i \in DOMAIN requests' : requests'[i].sequence = s
  BY DEF Roster, Owned
<1>6. Owned'
  BY <1>3, <1>4, <1>5 DEF Owned, Admitting
<1> QED BY <1>1, <1>6 DEF Roster

(* and of what each is by itself.                                          *)
LEMMA BaseStill ==
  ASSUME Base, CacheInv(Tenant, Token)', UNCHANGED <<requests, nextTicket, mode, active>>,
         failed' \in BOOLEAN, \A s \in Slot : Admitting(s)' <=> Admitting(s)
  PROVE  Base'
<1>1. Roster'
  BY RosterStill DEF Base
<1>2. \A i \in DOMAIN requests' : Live(i)' => Shape(i)'
  BY DEF Base, Roster, Live, Shape, Generated
<1> QED BY <1>1, <1>2 DEF Base

(* What slot i becomes, and what its operation does to the live sequences. *)
Becomes(i, r) ==
  /\ requests' = [requests EXCEPT ![i] = r]
  /\ r \in RequestType /\ r.ticket = requests[i].ticket
  /\ r.sequence # 0 <=> r.state \in {PREFILL, DECODE, DRAINING}
  /\ r.sequence # 0 =>
       r.sequence = requests[i].sequence \/ ~active[r.sequence] \/ Admitting(r.sequence)
  /\ \A s \in Slot :
       /\ active'[s] <=> s = r.sequence \/ (active[s] /\ s # requests[i].sequence)
       /\ Admitting(s) => s = r.sequence

(* So the slots and their tickets are those of before.                     *)
LEMMA RosterUpdated ==
  ASSUME Roster, NEW i \in DOMAIN requests, NEW r, Becomes(i, r)
  PROVE  /\ requests' \in Seq(RequestType) /\ DOMAIN requests' = DOMAIN requests
         /\ requests'[i] = r /\ r \in RequestType
         /\ \A j \in DOMAIN requests : j # i => requests'[j] = requests[j]
         /\ \A j \in DOMAIN requests : requests'[j].ticket = requests[j].ticket
<1>1. requests \in Seq(RequestType) /\ r \in RequestType /\ requests' = [requests EXCEPT ![i] = r]
      /\ r.ticket = requests[i].ticket
  BY DEF Roster, Becomes
<1>2. /\ requests' \in Seq(RequestType) /\ DOMAIN requests' = DOMAIN requests
      /\ requests'[i] = r
      /\ \A j \in DOMAIN requests : j # i => requests'[j] = requests[j]
  BY <1>1, UpdateOne
<1> QED BY <1>1, <1>2

(* The same of Base.                                                       *)
LEMMA Updated ==
  ASSUME Base, NEW i \in DOMAIN requests, NEW r, Becomes(i, r)
  PROVE  /\ requests' \in Seq(RequestType) /\ DOMAIN requests' = DOMAIN requests
         /\ requests'[i] = r /\ r \in RequestType
         /\ \A j \in DOMAIN requests : j # i => requests'[j] = requests[j]
         /\ \A j \in DOMAIN requests : requests'[j].ticket = requests[j].ticket
BY RosterUpdated DEF Base

(* Ownership is kept by it,                                                *)
LEMMA RosterOwned ==
  ASSUME Roster, NEW i \in DOMAIN requests, NEW r, Becomes(i, r), call'.op # "reserve"
  PROVE  Owned'
<1>1. /\ DOMAIN requests' = DOMAIN requests /\ requests'[i] = r
      /\ \A j \in DOMAIN requests : j # i => requests'[j] = requests[j]
  BY RosterUpdated
<1>2. /\ r.sequence # 0 <=> r.state \in {PREFILL, DECODE, DRAINING}
      /\ r.sequence # 0 =>
           r.sequence = requests[i].sequence \/ ~active[r.sequence] \/ Admitting(r.sequence)
      /\ r.sequence \in 0..MaxSlots
  BY DEF Becomes, RequestType
<1>3. \A s \in Slot :
        /\ active'[s] <=> s = r.sequence \/ (active[s] /\ s # requests[i].sequence)
        /\ Admitting(s) => s = r.sequence
  BY DEF Becomes
<1>4. \A j \in DOMAIN requests : j # i /\ Held(j) =>
        /\ requests[j].sequence \in Slot /\ active[requests[j].sequence]
        /\ ~Admitting(requests[j].sequence)
        /\ requests[j].sequence # requests[i].sequence
  <2> SUFFICES ASSUME NEW j \in DOMAIN requests, j # i, Held(j)
               PROVE  /\ requests[j].sequence \in Slot /\ active[requests[j].sequence]
                      /\ ~Admitting(requests[j].sequence)
                      /\ requests[j].sequence # requests[i].sequence
    OBVIOUS
  <2>1. requests[j].sequence \in Slot /\ active[requests[j].sequence]
    BY RosterResident
  <2>2. ~Admitting(requests[j].sequence) /\ requests[j].sequence # requests[i].sequence
    BY DEF Roster, Owned
  <2> QED BY <2>1, <2>2
<1>5. \A j \in DOMAIN requests : j # i => (Held(j)' <=> Held(j))
  BY <1>1 DEF Held
<1>6. Held(i)' <=> r.sequence # 0
  BY <1>1 DEF Held
<1>7. \A j \in DOMAIN requests' : Held(j)' <=> requests'[j].state \in {PREFILL, DECODE, DRAINING}
  BY <1>1, <1>2, <1>5, <1>6 DEF Roster, Owned
<1>8. \A s : ~Admitting(s)'
  BY DEF Admitting
<1>9. \A j \in DOMAIN requests' : Held(j)' => active'[requests'[j].sequence]
  <2> SUFFICES ASSUME NEW j \in DOMAIN requests, Held(j)'
               PROVE  active'[requests'[j].sequence]
    BY <1>1
  <2>1. CASE j = i
    <3>1. r.sequence \in Slot
      BY <1>2, <1>6, <2>1, GeometryAssumption
    <3> QED BY <1>1, <1>3, <2>1, <3>1
  <2>2. CASE j # i
    BY <1>1, <1>3, <1>4, <1>5, <2>2
  <2> QED BY <2>1, <2>2
<1>10. \A j, k \in DOMAIN requests' :
         Held(j)' /\ requests'[j].sequence = requests'[k].sequence => j = k
  <2> SUFFICES ASSUME NEW j \in DOMAIN requests, NEW k \in DOMAIN requests, j # k,
                      Held(j)', requests'[j].sequence = requests'[k].sequence
               PROVE  FALSE
    BY <1>1
  <2>1. Held(k)'
    BY DEF Held
  <2>2. CASE j = i
    BY <1>1, <1>2, <1>4, <1>5, <1>6, <2>1, <2>2
  <2>3. CASE k = i
    BY <1>1, <1>2, <1>4, <1>5, <1>6, <2>1, <2>3
  <2>4. CASE j # i /\ k # i
    BY <1>1, <1>5, <2>4 DEF Roster, Owned
  <2> QED BY <2>2, <2>3, <2>4
<1>11. \A s \in Slot : active'[s] => \E j \in DOMAIN requests' : requests'[j].sequence = s
  <2> SUFFICES ASSUME NEW s \in Slot, active'[s]
               PROVE  \E j \in DOMAIN requests : requests'[j].sequence = s
    BY <1>1
  <2>1. CASE s = r.sequence
    BY <1>1, <2>1
  <2>2. CASE s # r.sequence
    <3>1. active[s] /\ s # requests[i].sequence /\ ~Admitting(s)
      BY <1>3, <2>2
    <3>2. PICK j \in DOMAIN requests : requests[j].sequence = s
      BY <3>1 DEF Roster, Owned
    <3> QED BY <1>1, <3>1, <3>2
  <2> QED BY <2>1, <2>2
<1>12. \A j \in DOMAIN requests' : Held(j)' =>
         active'[requests'[j].sequence] /\ ~(call'.op = "reserve" /\ call'.sequence = requests'[j].sequence)
  BY <1>9 DEF Admitting
<1>13. \A s \in Slot : active'[s] =>
         Admitting(s)' \/ \E j \in DOMAIN requests' : requests'[j].sequence = s
  BY <1>11
<1> QED BY <1>7, <1>10, <1>12, <1>13 DEF Owned, Admitting

(* The same of Base.                                                       *)
LEMMA OwnedUpdate ==
  ASSUME Base, NEW i \in DOMAIN requests, NEW r, Becomes(i, r), call'.op # "reserve"
  PROVE  Owned'
BY RosterOwned DEF Base

(* Shape is about the request alone.                                       *)
LEMMA SameShape ==
  ASSUME NEW j, requests'[j] = requests[j], Live(j) => Shape(j)
  PROVE  Live(j)' => Shape(j)'
<1>1. Live(j)' <=> Live(j)
  BY DEF Live
<1>2. Shape(j) => Shape(j)'
  BY DEF Shape, Generated
<1> QED BY <1>1, <1>2

(* Who holds what is kept,                                                 *)
LEMMA RosterUpdate ==
  ASSUME Roster, NEW i \in DOMAIN requests, NEW r, Becomes(i, r), call'.op # "reserve",
         CacheInv(Tenant, Token)', UNCHANGED <<nextTicket, mode>>, failed' \in BOOLEAN
  PROVE  Roster'
<1>1. /\ requests' \in Seq(RequestType) /\ DOMAIN requests' = DOMAIN requests
      /\ \A j \in DOMAIN requests : requests'[j].ticket = requests[j].ticket
  BY RosterUpdated
<1>2. Tickets' /\ mode' \in Modes
  BY <1>1, SameTickets DEF Roster
<1> QED BY <1>1, <1>2, RosterOwned DEF Roster

(* and with it everything a request is by itself.                          *)
LEMMA BaseUpdate ==
  ASSUME Base, NEW i \in DOMAIN requests, NEW r, Becomes(i, r), call'.op # "reserve",
         CacheInv(Tenant, Token)', UNCHANGED <<nextTicket, mode>>, failed' \in BOOLEAN,
         Live(i)' => Shape(i)'
  PROVE  Base'
<1>1. /\ requests' \in Seq(RequestType) /\ DOMAIN requests' = DOMAIN requests
      /\ \A j \in DOMAIN requests : j # i => requests'[j] = requests[j]
      /\ \A j \in DOMAIN requests : requests'[j].ticket = requests[j].ticket
  BY Updated
<1>2. Roster'
  BY RosterUpdate DEF Base
<1>3. \A j \in DOMAIN requests' : Live(j)' => Shape(j)'
  <2> SUFFICES ASSUME NEW j \in DOMAIN requests PROVE Live(j)' => Shape(j)'
    BY <1>1
  <2>1. CASE j = i
    BY <2>1
  <2>2. CASE j # i
    BY <1>1, <2>2, SameShape DEF Base, Roster
  <2> QED BY <2>1, <2>2
<1> QED BY <1>2, <1>3 DEF Base
-----------------------------------------------------------------------------
(* The step in progress, as a record.                                      *)
LEMMA StepAt ==
  ASSUME step \in StepType
  PROVE  /\ step.chosen \in Seq(Choice) /\ Len(step.chosen) \in Nat
         /\ DOMAIN step.chosen = 1..Len(step.chosen)
         /\ \A k \in 1..Len(step.chosen) :
              step.chosen[k].index \in Nat /\ step.chosen[k].count \in Nat
         /\ step.target \in TargetType /\ step.target.index \in Nat /\ step.target.count \in Nat
         /\ step.considered \in SUBSET Nat /\ step.done \in Nat
         /\ step.phase \in Still \cup Choosing \cup Running
         /\ step = [phase |-> step.phase, chosen |-> step.chosen, considered |-> step.considered,
                    target |-> step.target, done |-> step.done]
         /\ RowsLeft \in Int
<1>1. /\ step.chosen \in Seq(Choice) /\ step.target \in TargetType
      /\ step.considered \in SUBSET Nat /\ step.done \in Nat
      /\ step.phase \in Still \cup Choosing \cup Running
      /\ step = [phase |-> step.phase, chosen |-> step.chosen, considered |-> step.considered,
                 target |-> step.target, done |-> step.done]
  BY DEF StepType
<1>2. /\ Len(step.chosen) \in Nat /\ DOMAIN step.chosen = 1..Len(step.chosen)
      /\ \A k \in 1..Len(step.chosen) : step.chosen[k] \in Choice
  BY <1>1
<1>3. \A k \in 1..Len(step.chosen) :
        step.chosen[k].index \in Nat /\ step.chosen[k].count \in Nat
  BY <1>2 DEF Choice
<1>4. step.target.index \in Nat /\ step.target.count \in Nat
  BY <1>1 DEF TargetType
<1>5. RowsLeft \in Int
  BY <1>2, EngineAssumption DEF RowsLeft
<1> QED BY <1>1, <1>2, <1>3, <1>4, <1>5

(* Outside its run every request that goes on is between steps.            *)
LEMMA AllSteady ==
  ASSUME Standing, step.phase \notin Running
  PROVE  \A i \in DOMAIN requests : Stands(i) => Steady(i)
<1>1. Executed = {}
  BY DEF Executed, Running, Posting, Phase
<1>2. Unsteady = {}
  BY <1>1 DEF Unsteady
<1> QED BY <1>2 DEF Standing

(* Outside a run, requests that go on as they were stay steady.            *)
LEMMA StandAgain ==
  ASSUME Stepwise, ~failed, step.phase \notin Running \cup {"reserve"}, mode' = mode,
         \A i \in DOMAIN requests' : Stands(i)' => i \in DOMAIN requests /\ Same(i)
  PROVE  Standing' /\ Lifetime'
<1>1. Standing /\ Lifetime
  BY DEF Stepwise
<1>2. \A i \in DOMAIN requests : Stands(i) => Steady(i)
  BY <1>1, AllSteady
<1>3. \A i \in DOMAIN requests' : Stands(i)' =>
        /\ i \in DOMAIN requests /\ Stands(i) /\ Steady(i)'
        /\ Space(i)' = Space(i) /\ requests'[i] = requests[i]
  <2> SUFFICES ASSUME NEW i \in DOMAIN requests', Stands(i)'
               PROVE  /\ i \in DOMAIN requests /\ Stands(i) /\ Steady(i)'
                      /\ Space(i)' = Space(i) /\ requests'[i] = requests[i]
    OBVIOUS
  <2>1. i \in DOMAIN requests /\ Same(i)
    OBVIOUS
  <2>2. Stands(i) /\ Space(i)' = Space(i) /\ (Steady(i) => Steady(i)')
    BY <2>1, SameRequest
  <2>3. requests'[i] = requests[i]
    BY <2>1 DEF Same
  <2> QED BY <1>2, <2>1, <2>2, <2>3
<1>4. Standing'
  BY <1>3 DEF Standing
<1>5. mode.lifetime => \A i \in DOMAIN requests' : Stands(i)' =>
        Space(i)' = PeakKVExtent(requests'[i].prompt, requests'[i].maximum)
  BY <1>1, <1>3 DEF Lifetime, Phase, PeakKVExtent
<1>6. Lifetime'
  BY <1>5 DEF Lifetime
<1> QED BY <1>4, <1>6

(* Outside a choice and a run nothing is selected.                         *)
LEMMA StillSelected ==
  ASSUME step'.phase \in Still, step'.chosen = <<>>, step'.done = 0
  PROVE  Selected'
<1>1. /\ step'.phase \notin Choosing \cup Running
      /\ ~Phase("room")' /\ ~Phase("admit")' /\ ~Phase("reserve")' /\ ~Phase("publish")'
  BY DEF Phase, Still, Choosing, Running, Posting
<1> QED BY <1>1 DEF Selected

(* What a choice in progress has to show,                                  *)
LEMMA ChoosingSelected ==
  ASSUME step'.phase \in Choosing, step'.done = 0, Batch',
         \A k \in DOMAIN step'.chosen : Picked(k)',
         \A i \in DOMAIN requests' :
           Live(i)' /\ requests'[i].state # DRAINING => requests'[i].maximum > 0,
         step'.phase # "build" => \A k \in DOMAIN step'.chosen : Single(k)',
         step'.phase = "room" => RoomTarget(step.target.index)',
         step'.phase = "admit" => SequenceLeft',
         step'.phase = "reserve" => ReserveTarget(step.target.index)'
  PROVE  Selected'
<1>1. step'.phase \notin Still \cup Running /\ ~Phase("publish")'
  BY DEF Phase, Still, Choosing, Running, Posting
<1> DEFINE Rest == \A i \in DOMAIN requests :
                     Live(i) /\ requests[i].state # DRAINING => requests[i].maximum > 0
           All1 == \A k \in DOMAIN step.chosen : Picked(k)
           All2 == \A k \in DOMAIN step.chosen : Single(k)
<1>2. Rest' /\ All1' /\ (step'.phase # "build" => All2')
  OBVIOUS
<1> HIDE DEF Rest, All1, All2
<1>3. Selected' <=>
        /\ step'.phase \in Still => step'.chosen = <<>>
        /\ step'.phase \in (Still \ {"retire"}) \cup Choosing => step'.done = 0
        /\ step'.phase \in Choosing => Batch' /\ All1' /\ Rest'
        /\ step'.phase \in Choosing \ {"build"} => All2'
        /\ step'.phase = "room" => RoomTarget(step.target.index)'
        /\ step'.phase = "admit" => SequenceLeft'
        /\ step'.phase = "reserve" => ReserveTarget(step.target.index)'
        /\ step'.phase \in Running =>
             /\ Batch' /\ step'.done < Len(step'.chosen)
             /\ \A k \in DOMAIN step'.chosen : Ran(k)'
        /\ Phase("publish")' => mode'.prefix
  BY DEF Selected, Phase, Rest, All1, All2
<1> QED BY <1>1, <1>2, <1>3

(* and a batch that runs.                                                  *)
LEMMA RunningSelected ==
  ASSUME step'.phase \in Running, Batch', step'.done < Len(step'.chosen),
         \A k \in DOMAIN step'.chosen : Ran(k)', step'.phase = "publish" => mode'.prefix
  PROVE  Selected'
<1>1. step'.phase \notin Still \cup Choosing /\ ~Phase("room")' /\ ~Phase("admit")' /\ ~Phase("reserve")'
  BY DEF Phase, Still, Choosing, Running, Posting
<1>2. Phase("publish")' => mode'.prefix
  BY DEF Phase
<1> QED BY <1>1, <1>2 DEF Selected
-----------------------------------------------------------------------------
(* A step that selects nothing keeps what was selected.                    *)
LEMMA ChosenAt ==
  ASSUME step \in StepType, Batch, NEW k \in DOMAIN step.chosen
  PROVE  /\ step.chosen[k].index \in ChosenSlots /\ step.chosen[k].index \in DOMAIN requests
         /\ k \in 1..Len(step.chosen) /\ step.chosen[k].count \in Nat /\ Len(step.chosen) \in Nat
BY StepAt DEF ChosenSlots, Batch

(* The selection stays one as long as nobody selected is touched,          *)
LEMMA ChoiceKept ==
  ASSUME step \in StepType, Batch, \A k \in DOMAIN step.chosen : Picked(k),
         step'.chosen = step.chosen, step.considered \subseteq step'.considered,
         DOMAIN requests' = DOMAIN requests, \A i \in ChosenSlots : Same(i)
  PROVE  /\ Batch' /\ \A k \in DOMAIN step'.chosen : Picked(k)'
         /\ \A k \in DOMAIN step'.chosen : Single(k) => Single(k)'
<1>1. Batch'
  BY DEF Batch
<1>2. ASSUME NEW k \in DOMAIN step.chosen
      PROVE  Picked(k)' /\ (Single(k) => Single(k)')
  <2>1. PICK i, n : i = step.chosen[k].index /\ n = step.chosen[k].count
    OBVIOUS
  <2>2. Same(i) /\ requests'[i] = requests[i]
    BY <2>1, ChosenAt DEF Same
  <2>3. requests[i].state \in {PREFILL, DECODE} /\ Ready(i, n)
    BY <2>1 DEF Picked
  <2>4. Ready(i, n)'
    BY <2>2, <2>3, SameRequest
  <2>5. Picked(k)'
    BY <2>1, <2>2, <2>3, <2>4 DEF Picked
  <2>6. Single(k) => Single(k)'
    BY <2>1, <2>2 DEF Single
  <2> QED BY <2>5, <2>6
<1> QED BY <1>1, <1>2

(* One that selects its target adds it at the end.                         *)
LEMMA ChoiceMade ==
  ASSUME step \in StepType, Batch, \A k \in DOMAIN step.chosen : Picked(k) /\ Single(k),
         NEW i, Target1(i), NEW n, n = step.target.count, step'.chosen = Choose(i, n),
         step'.considered = step.considered,
         DOMAIN requests' = DOMAIN requests, \A j \in ChosenSlots : Same(j),
         requests'[i].state \in {PREFILL, DECODE}, Ready(i, n)'
  PROVE  /\ Batch' /\ \A k \in DOMAIN step'.chosen : Picked(k)'
         /\ n = 1 /\ requests'[i].state = DECODE /\ i \in step.considered =>
              \A k \in DOMAIN step'.chosen : Single(k)'
<1> DEFINE last == Len(step.chosen) + 1
           e == [index |-> i, count |-> n]
<1>1. /\ i \in DOMAIN requests /\ i \notin ChosenSlots /\ n >= 1 /\ n <= RowsLeft
      /\ SequenceLeft
  BY DEF Target1
<1>2. step.chosen \in Seq(Choice) /\ Len(step.chosen) \in Nat /\ n \in Nat
      /\ DOMAIN step.chosen = 1..Len(step.chosen)
  BY StepAt
<1>3. i \in Nat
  BY StepAt DEF Target1
<1>4. e \in Choice
  BY <1>2, <1>3 DEF Choice
<1>5. /\ Len(step'.chosen) = last /\ DOMAIN step'.chosen = 1..last
      /\ step'.chosen[last] = e
      /\ \A k \in 1..Len(step.chosen) : step'.chosen[k] = step.chosen[k]
  <2>1. step'.chosen = Append(step.chosen, e)
    BY DEF Choose
  <2> HIDE DEF e
  <2>2. step'.chosen \in Seq(Choice)
    BY <1>2, <1>4, <2>1
  <2> QED BY <1>2, <1>4, <2>1, <2>2, AppendProperties
<1>6. \A k \in 1..Len(step.chosen) : /\ step.chosen[k].index \in ChosenSlots
                                     /\ step.chosen[k].index \in DOMAIN requests
                                     /\ step.chosen[k].count = 1
  BY <1>2, ChosenAt DEF Single
<1>7. Batch'
  <2>1. Len(step'.chosen) <= MaxSequences
    BY <1>1, <1>2, <1>5, EngineAssumption DEF SequenceLeft
  <2>2. \A k \in DOMAIN step'.chosen : step'.chosen[k].index \in DOMAIN requests'
    BY <1>1, <1>2, <1>5, <1>6
  <2>3. \A k, l \in DOMAIN step'.chosen :
          step'.chosen[k].index = step'.chosen[l].index => k = l
    <3> SUFFICES ASSUME NEW k \in 1..last, NEW l \in 1..last,
                        step'.chosen[k].index = step'.chosen[l].index
                 PROVE  k = l
      BY <1>5
    <3>1. k = last \/ k \in 1..Len(step.chosen)
      BY <1>2
    <3>2. l = last \/ l \in 1..Len(step.chosen)
      BY <1>2
    <3>3. step'.chosen[last].index = i
      BY <1>5
    <3>4. \A m \in 1..Len(step.chosen) : step'.chosen[m].index # i
      BY <1>1, <1>5, <1>6
    <3>5. k \in 1..Len(step.chosen) /\ l \in 1..Len(step.chosen) => k = l
      BY <1>2, <1>5 DEF Batch
    <3> HIDE DEF last
    <3> QED BY <3>1, <3>2, <3>3, <3>4, <3>5
  <2>4. \A k \in DOMAIN step'.chosen : k < Len(step'.chosen) => step'.chosen[k].count = 1
    BY <1>2, <1>5, <1>6
  <2>5. Len(step'.chosen) - 1 + step'.chosen[Len(step'.chosen)].count <= TokenBudget
    <3>1. step'.chosen[Len(step'.chosen)].count = n
      BY <1>5
    <3>2. n <= TokenBudget - Len(step.chosen)
      BY <1>1 DEF RowsLeft
    <3> QED BY <1>2, <1>5, <3>1, <3>2, EngineAssumption
  <2> QED BY <2>1, <2>2, <2>3, <2>4, <2>5 DEF Batch
<1>8. ASSUME NEW k \in 1..Len(step.chosen)
      PROVE  Picked(k)' /\ Single(k)'
  <2>1. PICK j, m : j = step.chosen[k].index /\ m = step.chosen[k].count
    OBVIOUS
  <2>2. Same(j) /\ requests'[j] = requests[j]
    BY <1>6, <2>1 DEF Same
  <2>3. Picked(k) /\ Single(k)
    BY <1>2
  <2>4. Ready(j, m)'
    BY <2>1, <2>2, <2>3, SameRequest DEF Picked
  <2> QED BY <1>5, <2>1, <2>2, <2>3, <2>4 DEF Picked, Single
<1>9. ASSUME NEW k, k = last
      PROVE  Picked(k)' /\ (n = 1 /\ requests'[i].state = DECODE /\ i \in step.considered => Single(k)')
  <2>1. step'.chosen[k].index = i /\ step'.chosen[k].count = n
    BY <1>5, <1>9
  <2>2. Picked(k)'
    BY <2>1 DEF Picked
  <2> QED BY <2>1, <2>2 DEF Single
<1>11. \A k \in DOMAIN step'.chosen : k = last \/ k \in 1..Len(step.chosen)
  BY <1>2, <1>5
<1> HIDE DEF last
<1> QED BY <1>7, <1>8, <1>9, <1>11
-----------------------------------------------------------------------------
(* The engine calls its index in the phases that say so, one call at a     *)
(* time.                                                                   *)
LEMMA RosterIdle ==
  ASSUME Roster, call.op = "none"
  PROVE  call = Idle
<1>1. CallOK(Tenant, Token)
  BY DEF Roster, CacheInv
<1>2. (\E n \in Int : ReclaimCall(n)) => call.op # "none"
  BY DEF ReclaimCall
<1>3. (\E n \in Int, cached \in Seq(Block), length \in 0..MaxLength : AdmitCall(n, cached, length))
        => call.op # "none"
  BY DEF AdmitCall
<1>4. (\E s \in Slot, cached \in Seq(Block), length \in 0..MaxLength : ReserveCall(s, cached, length))
        => call.op # "none"
  BY DEF ReserveCall
<1>5. (\E s \in Slot, tokens \in Seq(Token), salt \in Tenant, j \in Nat \ {0} :
         PublishCall(s, tokens, salt, j)) => call.op # "none"
  BY DEF PublishCall
<1>6. ClearCall => call.op # "none"
  BY DEF ClearCall
<1> QED BY <1>1, <1>2, <1>3, <1>4, <1>5, <1>6 DEF CallOK

(* The same of Base.                                                       *)
LEMMA NoneIsIdle ==
  ASSUME Base, call.op = "none"
  PROVE  call = Idle
BY RosterIdle DEF Base

(* The index works for the engine in two phases, and for its host.         *)
LEMMA NoCall ==
  ASSUME Base, Calling, step.phase \notin {"idle", "admit", "publishing"}
  PROVE  call = Idle /\ call.op = "none"
<1>1. call.op = "none"
  BY DEF Calling, Phase
<1> QED BY <1>1, NoneIsIdle

(* An index at rest is called by nobody.                                   *)
LEMMA CallingNone ==
  ASSUME call' = Idle, step'.phase # "publishing"
  PROVE  Calling'
<1>1. call'.op = "none"
  BY DEF Idle
<1> QED BY <1>1 DEF Calling, Phase
-----------------------------------------------------------------------------
(* The order of the requests is kept while nobody starts to hold blocks,   *)
(* to wait or to prefill.                                                  *)
LEMMA OrderKept ==
  ASSUME ResidentsOlderThanWaiters, NewestPrefill,
         \A i \in DOMAIN requests' :
           /\ i \in DOMAIN requests /\ requests'[i].ticket = requests[i].ticket
           /\ Held(i)' => Held(i)
           /\ requests'[i].state = WAITING => requests[i].state = WAITING
           /\ requests'[i].state = PREFILL => requests[i].state = PREFILL
  PROVE  ResidentsOlderThanWaiters' /\ NewestPrefill'
<1>1. \A i, j \in DOMAIN requests' :
        Held(i)' /\ requests'[j].state = WAITING => requests'[i].ticket < requests'[j].ticket
  BY DEF ResidentsOlderThanWaiters
<1>2. \A i, j \in DOMAIN requests' : requests'[i].state = PREFILL /\ Held(j)' /\ j # i =>
        requests'[j].ticket < requests'[i].ticket
  BY DEF NewestPrefill
<1> QED BY <1>1, <1>2 DEF ResidentsOlderThanWaiters, NewestPrefill

(* Outside a choice the order of the residents is all there is,            *)
LEMMA FifoOutside ==
  ASSUME ResidentsOlderThanWaiters', NewestPrefill',
         step'.phase \in Still \cup Running \cup {"build", "reserve"}
  PROVE  Fifo'
<1>1. step'.phase \notin Choosing \ {"build", "reserve"} /\ ~Phase("room")' /\ ~Phase("admit")'
  BY DEF Phase, Still, Choosing, Running, Posting
<1> QED BY <1>1 DEF Fifo

(* inside one the selected requests come first, too.                       *)
LEMMA FifoChoosing ==
  ASSUME ResidentsOlderThanWaiters', NewestPrefill', OldestChosen',
         step'.phase \in {"decode", "prefill"} \/ (step'.phase = "admit" /\ NonePrefilling')
  PROVE  Fifo'
BY DEF Fifo, Phase

(* Nobody was overtaken while the same requests are selected.              *)
LEMMA OldestKept ==
  ASSUME OldestChosen, step'.chosen = step.chosen, step.considered \subseteq step'.considered,
         DOMAIN requests' = DOMAIN requests,
         \A i \in DOMAIN requests : requests'[i].ticket = requests[i].ticket,
         \A k \in DOMAIN step.chosen : step.chosen[k].index \in DOMAIN requests,
         \A j \in DOMAIN requests : requests'[j].state = DECODE =>
           /\ requests[j].state = DECODE
           /\ j = step'.target.index => j \notin step.considered \/ j = step.target.index
  PROVE  OldestChosen'
<1>1. ChosenSlots' = ChosenSlots
  BY DEF ChosenSlots
<1>2. ASSUME NEW k \in DOMAIN step.chosen, NEW j \in DOMAIN requests,
             requests'[j].state = DECODE, j \notin ChosenSlots,
             j \notin step'.considered \/ j = step'.target.index
      PROVE  requests'[step.chosen[k].index].ticket < requests'[j].ticket
  <2>1. requests[j].state = DECODE /\ (j \notin step.considered \/ j = step.target.index)
    BY <1>2
  <2>2. requests[step.chosen[k].index].ticket < requests[j].ticket
    BY <1>2, <2>1 DEF OldestChosen
  <2> QED BY <2>2
<1> QED BY <1>1, <1>2 DEF OldestChosen
-----------------------------------------------------------------------------
(* Rows stay those of their histories under every quiet step that leaves   *)
(* the residents their sequences.                                          *)
LEMMA RowsKept ==
  ASSUME Base, Rows, CacheInv(Tenant, Token)', Quiet, KeepRows, call'.op # "reserve",
         \A i \in DOMAIN requests' : Held(i)' =>
           /\ i \in DOMAIN requests
           /\ requests'[i].sequence = requests[i].sequence
           /\ requests'[i].tokens = requests[i].tokens /\ requests'[i].salt = requests[i].salt
           /\ tables'[requests[i].sequence] = tables[requests[i].sequence]
           /\ enqueued'[requests[i].sequence] = enqueued[requests[i].sequence]
  PROVE  Rows'
<1>1. RowsTyped(Token) /\ EntriesOwnRows /\ CacheInv(Tenant, Token)
  BY DEF Rows, Base, Roster
<1>2. RowsTyped(Token)' /\ EntriesOwnRows'
  BY <1>1, QuietRows
<1>3. ASSUME NEW i \in DOMAIN requests', Held(i)'
      PROVE  OwnRows(requests[i].sequence, requests[i].tokens, requests[i].salt)'
  <2>1. i \in DOMAIN requests /\ Held(i)
    BY <1>3 DEF Held
  <2>2. PICK s, tokens, salt :
          s = requests[i].sequence /\ tokens = requests[i].tokens /\ salt = requests[i].salt
    OBVIOUS
  <2>3. OwnRows(s, tokens, salt)
    BY <2>1, <2>2 DEF Rows
  <2>4. s \in Slot
    BY <2>1, <2>2, Resident
  <2>5. tables'[s] = tables[s] /\ enqueued'[s] = enqueued[s]
    BY <1>3, <2>2
  <2>6. OwnRows(s, tokens, salt)'
    BY <1>1, <2>3, <2>4, <2>5, QuietOwn
  <2>7. requests'[i].sequence = s /\ requests'[i].tokens = tokens /\ requests'[i].salt = salt
    BY <1>3, <2>2
  <2> QED BY <2>6, <2>7 DEF OwnRows, HoldsHistory, SharesOwn
<1> QED BY <1>2, <1>3 DEF Rows

(* Rows stay where nothing of the pool changes.                            *)
LEMMA RowsStill ==
  ASSUME Base, Rows, UNCHANGED <<vars, entries, image, requests>>, CacheInv(Tenant, Token)',
         call'.op # "reserve"
  PROVE  Rows'
<1>1. IInv /\ IInv' /\ RowsTyped(Token)
  BY DEF Base, Roster, CacheInv, Rows
<1>2. Quiet /\ KeepRows
  BY <1>1, ManagerQuiet, StillRows
<1>3. UNCHANGED <<tables, enqueued>>
  BY DEF vars
<1> QED BY <1>2, <1>3, RowsKept

(* Stepping synchronously, every step leaves nothing outstanding.          *)
LEMMA SyncKept ==
  ASSUME Synchronous, mode' = mode,
         \A i \in DOMAIN requests' :
           requests'[i].uses = 0 /\ requests'[i].samples = 0 /\ requests'[i].state # DRAINING,
         step'.phase \notin {"pressure", "retire", "lost"},
         failed' => step'.phase \in {"idle", "failing"},
         ~mode.prefix => entries' = <<>> /\ call'.op \in {"none", "clear"}
  PROVE  Synchronous'
BY DEF Synchronous

(* A step that only moves on.                                              *)
LEMMA Moved ==
  ASSUME EngineInv, OnlyStep, call = Idle,
         step'.phase \notin {"pressure", "retire", "lost", "publishing"},
         failed => step'.phase \in {"idle", "failing"}
  PROVE  /\ Base' /\ Calling' /\ ResidentsOlderThanWaiters' /\ NewestPrefill' /\ Rows'
         /\ Synchronous'
<1>1. Base /\ Rows /\ Synchronous /\ ResidentsOlderThanWaiters /\ NewestPrefill
  BY DEF EngineInv, Core, Fifo
<1>2. /\ UNCHANGED <<vars, cacheVars, image, mode, requests, nextTicket, account, failed>>
      /\ UNCHANGED <<entries, call, active>> /\ call.op = "none"
  BY DEF OnlyStep, vars, cacheVars, Idle
<1>3. CacheInv(Tenant, Token)'
  BY <1>1, <1>2, StillCacheInv DEF Base, Roster
<1>4. Base'
  BY <1>1, <1>2, <1>3, BaseStill DEF Base, Roster, Admitting
<1>5. Calling'
  BY <1>2, CallingNone
<1>6. ResidentsOlderThanWaiters' /\ NewestPrefill'
  BY <1>1, <1>2, OrderKept DEF Held
<1>7. Rows'
  BY <1>1, <1>2, <1>3, RowsStill
<1>8. Synchronous'
  BY <1>1, <1>2 DEF Synchronous
<1> QED BY <1>4, <1>5, <1>6, <1>7, <1>8

(* What the invariant says of each part.                                   *)
LEMMA EngineParts ==
  ASSUME EngineInv
  PROVE  /\ Base /\ Stepwise /\ Fifo /\ Rows /\ Synchronous /\ CacheInv(Tenant, Token) /\ IInv
         /\ requests \in Seq(RequestType) /\ step \in StepType /\ Tickets /\ Owned /\ Calling
         /\ mode \in Modes /\ mode.mixed \in BOOLEAN /\ failed \in BOOLEAN
         /\ ResidentsOlderThanWaiters /\ NewestPrefill
         /\ \A i \in DOMAIN requests : Live(i) => Shape(i)
         /\ \A i \in DOMAIN requests :
              requests[i].uses = 0 /\ requests[i].samples = 0 /\ requests[i].state # DRAINING
<1>1. mode.mixed \in BOOLEAN
  BY EngineAssumption DEF EngineInv, Core, Base, Roster
<1> QED BY <1>1 DEF EngineInv, Core, Base, Roster, Stepwise, Fifo, Synchronous, CacheInv
-----------------------------------------------------------------------------
(* What holds while the step chooses.                                      *)
LEMMA ChoosingAt ==
  ASSUME EngineInv, step.phase \in Choosing
  PROVE  /\ ~failed /\ Standing /\ Lifetime /\ Selected /\ step.done = 0
         /\ Batch /\ \A k \in DOMAIN step.chosen : Picked(k)
         /\ step.phase # "build" => \A k \in DOMAIN step.chosen : Single(k)
         /\ \A i \in DOMAIN requests :
              Live(i) /\ requests[i].state # DRAINING => requests[i].maximum > 0
         /\ \A i \in DOMAIN requests : Stands(i) => Steady(i)
<1>1. ~failed /\ Standing /\ Lifetime /\ Selected
  BY DEF EngineInv, Core, Stepwise, Synchronous, Choosing
<1>2. step.phase \notin Running
  BY DEF Choosing, Running, Posting
<1>3. \A i \in DOMAIN requests : Stands(i) => Steady(i)
  BY <1>1, <1>2, AllSteady
<1> QED BY <1>1, <1>3 DEF Selected

(* The step goes on choosing, and no request changes.                      *)
LEMMA GoesOn ==
  ASSUME EngineInv, OnlyStep, call = Idle, step.phase \in Choosing \ {"build", "reserve"},
         step' \in StepType, step'.chosen = step.chosen, step'.done = step.done,
         step.considered \subseteq step'.considered,
         step'.phase \in Choosing \ {"reserve"},
         step'.phase = "room" => RoomTarget(step.target.index)',
         step'.phase = "admit" => SequenceLeft'
  PROVE  Core' /\ Rows' /\ Synchronous' /\ ResidentsOlderThanWaiters' /\ NewestPrefill'
<1>1. /\ ~failed /\ Batch /\ step.done = 0
      /\ \A k \in DOMAIN step.chosen : Picked(k) /\ Single(k)
      /\ \A i \in DOMAIN requests :
           Live(i) /\ requests[i].state # DRAINING => requests[i].maximum > 0
  BY ChoosingAt
<1>2. step \in StepType /\ Stepwise
  BY EngineParts
<1>3. UNCHANGED <<requests, vars, mode, failed>>
  BY DEF OnlyStep
<1>4. \A i : Same(i)
  BY <1>3, SameByStill
<1>5. /\ Batch' /\ \A k \in DOMAIN step'.chosen : Picked(k)'
      /\ \A k \in DOMAIN step'.chosen : Single(k)'
  BY <1>1, <1>2, <1>3, <1>4, ChoiceKept
<1>6. \A i \in DOMAIN requests' :
        Live(i)' /\ requests'[i].state # DRAINING => requests'[i].maximum > 0
  BY <1>1, <1>3 DEF Live
<1>7. Selected'
  BY <1>1, <1>5, <1>6, ChoosingSelected
<1>8. step.phase \notin Running \cup {"reserve"}
  BY DEF Choosing, Running, Posting
<1>9. Standing' /\ Lifetime'
  <2>1. \A i \in DOMAIN requests' : Stands(i)' => i \in DOMAIN requests /\ Same(i)
    BY <1>3, <1>4
  <2> QED BY <1>1, <1>2, <1>3, <1>8, <2>1, StandAgain
<1>10. step'.phase \notin {"pressure", "retire", "lost", "publishing"}
  BY DEF Choosing
<1>11. /\ Base' /\ Calling' /\ ResidentsOlderThanWaiters' /\ NewestPrefill' /\ Rows'
       /\ Synchronous'
  BY <1>1, <1>10, Moved
<1> QED BY <1>7, <1>9, <1>11 DEF Core, Stepwise

(* A request that waits is not one that stands, and so on.                 *)
LEMMA StateAt ==
  ASSUME EngineInv, NEW i \in DOMAIN requests
  PROVE  /\ requests[i].state \in {WAITING, PREFILL, DECODE, FINISHED, DRAINING}
         /\ requests[i].state \in {PREFILL, DECODE} => Held(i) /\ Stands(i) /\ Live(i) /\ Shape(i)
         /\ requests[i].state = WAITING => ~Held(i) /\ Live(i) /\ Shape(i)
         /\ requests[i].state = FINISHED => ~Held(i) /\ ~Live(i)
         /\ requests[i].state # DRAINING
<1>1. requests[i].state \in {WAITING, PREFILL, DECODE, FINISHED, DRAINING}
  BY EngineParts, RequestAt DEF RequestType
<1>2. Held(i) <=> requests[i].state \in {PREFILL, DECODE, DRAINING}
  BY EngineParts DEF Owned
<1>3. (Live(i) => Shape(i)) /\ requests[i].state # DRAINING
  BY EngineParts
<1> QED BY <1>1, <1>2, <1>3 DEF Live, Stands

(* Among requests in one state one is the oldest.                          *)
LEMMA OldestExists ==
  ASSUME requests \in Seq(RequestType), NEW state, NEW excluded,
         NEW i \in DOMAIN requests, requests[i].state = state, i \notin excluded
  PROVE  Oldest(state, excluded) # {}
<1> DEFINE C == {j \in DOMAIN requests : requests[j].state = state /\ j \notin excluded}
           T == {requests[j].ticket : j \in C}
<1>1. T \in SUBSET Nat /\ T # {}
  <2>1. i \in C
    OBVIOUS
  <2>2. \A j \in C : requests[j].ticket \in Nat
    BY RequestAt
  <2> QED BY <2>1, <2>2
<1> HIDE DEF T
<1>2. PICK m \in T : \A k \in T : m <= k
  BY <1>1, LeastNatural
<1> USE DEF T
<1>3. PICK j \in C : m = requests[j].ticket
  OBVIOUS
<1>4. \A k \in C : requests[j].ticket <= requests[k].ticket
  BY <1>2, <1>3
<1>5. j \in Oldest(state, excluded)
  BY <1>3, <1>4 DEF Oldest
<1> QED BY <1>5

(* and comes before the other candidates.                                  *)
LEMMA OldestAt ==
  ASSUME EngineInv, NEW state, NEW excluded, NEW i \in Oldest(state, excluded)
  PROVE  /\ i \in DOMAIN requests /\ requests[i].state = state /\ i \notin excluded
         /\ \A j \in DOMAIN requests : requests[j].state = state /\ j \notin excluded /\ j # i =>
              requests[i].ticket < requests[j].ticket
<1>1. /\ i \in DOMAIN requests /\ requests[i].state = state /\ i \notin excluded
      /\ \A j \in DOMAIN requests : requests[j].state = state /\ j \notin excluded =>
           requests[i].ticket <= requests[j].ticket
  BY DEF Oldest
<1>2. \A j \in DOMAIN requests : requests[j].ticket \in Nat
  BY EngineParts, RequestAt
<1>3. \A j \in DOMAIN requests : requests[j].ticket = requests[i].ticket => j = i
  BY <1>1, EngineParts DEF Tickets
<1> QED BY <1>1, <1>2, <1>3

(* Room is to be made for a request that goes on.                          *)
LEMMA Aimed ==
  ASSUME EngineInv, NEW i \in DOMAIN requests, NEW n \in Nat, NEW from \in {"decode", "prefill"},
         requests[i].state = (IF from = "decode" THEN DECODE ELSE PREFILL),
         i \notin ChosenSlots, n >= 1, n <= RowsLeft, SequenceLeft, Past(i) + n <= History(i),
         Generated(i) + requests[i].samples < requests[i].maximum
  PROVE  /\ Target(i, n, from) \in TargetType
         /\ /\ UNCHANGED <<requests, vars, mode>>
            /\ step'.target = Target(i, n, from) /\ step'.chosen = step.chosen
            /\ from = "decode" => n = 1 /\ i \in step'.considered
            => RoomTarget(step.target.index)'
<1>1. Held(i) /\ step \in StepType
  BY StateAt, EngineParts
<1>2. Target(i, n, from) \in TargetType
  <2>1. requests[i].sequence \in Slot /\ Past(i) \in Nat /\ i \in Nat
    BY <1>1, EngineParts, Resident, RequestAt
  <2>2. Len(tables[requests[i].sequence]) \in Nat
    BY <2>1, EngineParts, TableType DEF IInv
  <2>3. CeilDiv(Past(i) + n, BlockSize) \in Int
    BY <2>1, GeometryAssumption DEF CeilDiv
  <2>4. Needed(i, Past(i) + n) \in Int
    BY <2>2, <2>3 DEF Needed
  <2> QED BY <2>1, <2>4 DEF Target, TargetType
<1>3. ASSUME UNCHANGED <<requests, vars, mode>>,
             step'.target = Target(i, n, from), step'.chosen = step.chosen,
             from = "decode" => n = 1 /\ i \in step'.considered
      PROVE  RoomTarget(step.target.index)'
  <2>1. /\ Same(i) /\ Past(i)' = Past(i) /\ History(i)' = History(i) /\ Generated(i)' = Generated(i)
    BY <1>3, SameByStill, SameRequest
  <2>2. /\ step'.target.index = i /\ step'.target.count = n /\ step'.target.from = from
        /\ step'.target.needed = Needed(i, Past(i) + n) /\ step'.target.lost = FALSE
    BY <1>3 DEF Target
  <2>3. ChosenSlots' = ChosenSlots /\ RowsLeft' = RowsLeft /\ SequenceLeft' = SequenceLeft
    BY <1>3 DEF ChosenSlots, RowsLeft, SequenceLeft
  <2>4. Target1(i)'
    BY <1>3, <2>2, <2>3 DEF Target1
  <2>5. (step.target.needed = Needed(i, Past(i) + step.target.count))'
    BY <1>3, <2>1, <2>2 DEF Needed, vars
  <2>6. RoomTarget(i)'
    BY <1>3, <2>1, <2>2, <2>4, <2>5 DEF RoomTarget
  <2> QED BY <2>2, <2>6 DEF RoomTarget, Target1, Generated, History, Past, Needed
<1> QED BY <1>2, <1>3
-----------------------------------------------------------------------------
(* _schedule: the decodes.                                                 *)
LEMMA DecodeDoneOK ==
  ASSUME EngineInv, DecodeDone
  PROVE  EngineInv'
<1>1. /\ step.phase = "decode" /\ OnlyStep /\ step' = [step EXCEPT !.phase = AfterDecode]
  BY DEF DecodeDone, Phase, Goto
<1>2. step \in StepType /\ AfterDecode \in {"prefill", "build"}
  BY EngineParts DEF AfterDecode
<1>3. /\ step' \in StepType /\ step'.phase = AfterDecode /\ step'.chosen = step.chosen
      /\ step'.done = step.done /\ step'.considered = step.considered
      /\ step'.target = step.target
  BY <1>1, <1>2 DEF StepType, Choosing
<1>4. call = Idle
  BY <1>1, EngineParts, NoCall
<1>5. Core' /\ Rows' /\ Synchronous' /\ ResidentsOlderThanWaiters' /\ NewestPrefill'
  BY <1>1, <1>2, <1>3, <1>4, GoesOn DEF Choosing
<1>6. Fifo'
  <2>1. CASE AfterDecode = "build"
    BY <1>3, <1>5, <2>1, FifoOutside
  <2>2. CASE AfterDecode = "prefill"
    <3>1. OldestChosen
      BY <1>1, EngineParts DEF Fifo, Choosing
    <3>2. Batch /\ requests' = requests
      BY <1>1, ChoosingAt DEF Choosing, OnlyStep
    <3>3. OldestChosen'
      BY <1>3, <3>1, <3>2, OldestKept DEF Batch
    <3> QED BY <1>3, <1>5, <2>2, <3>3, FifoChoosing
  <2> QED BY <1>2, <2>1, <2>2
<1> QED BY <1>5, <1>6 DEF EngineInv

(* The oldest decode is passed over or aimed at.                           *)
LEMMA DecodePickOK ==
  ASSUME EngineInv, DecodePick
  PROVE  EngineInv'
<1>1. PICK i \in DecodeChoices :
        IF Generated(i) + requests[i].samples >= requests[i].maximum
        THEN step' = [step EXCEPT !.considered = @ \cup {i}]
        ELSE step' = [step EXCEPT !.phase = "room", !.considered = @ \cup {i},
                                  !.target = Target(i, 1, "decode")]
  BY DEF DecodePick
<1>2. step.phase = "decode" /\ OnlyStep
  BY DEF DecodePick, Phase
<1>3. RowsLeft > 0 /\ SequenceLeft /\ i \in Oldest(DECODE, step.considered)
  BY DEF DecodeChoices
<1>4. /\ i \in DOMAIN requests /\ requests[i].state = DECODE /\ i \notin step.considered
      /\ \A j \in DOMAIN requests : requests[j].state = DECODE /\ j \notin step.considered /\ j # i =>
           requests[i].ticket < requests[j].ticket
  BY <1>3, OldestAt
<1>5. /\ ~failed /\ Batch /\ step.done = 0 /\ Steady(i) /\ Stands(i) /\ Held(i) /\ Live(i) /\ Shape(i)
      /\ requests[i].maximum > 0
      /\ \A k \in DOMAIN step.chosen : Single(k)
  BY <1>2, <1>4, ChoosingAt, StateAt DEF Choosing
<1>6. /\ step \in StepType /\ i \in Nat /\ Past(i) \in Nat /\ History(i) \in Nat
      /\ Generated(i) \in Int /\ requests[i].maximum \in Nat /\ requests[i].samples = 0
  BY <1>4, <1>5, EngineParts, RequestAt, Resident
<1>7. Generated(i) < requests[i].maximum
  BY <1>4, <1>5 DEF Shape
<1>8. step' = [step EXCEPT !.phase = "room", !.considered = @ \cup {i},
                           !.target = Target(i, 1, "decode")]
  BY <1>1, <1>6, <1>7
<1>9. Past(i) + 1 <= History(i)
  BY <1>5, <1>6 DEF Steady
<1>10. i \notin ChosenSlots
  BY <1>4, <1>5 DEF ChosenSlots, Single
<1>11. /\ Target(i, 1, "decode") \in TargetType
       /\ /\ UNCHANGED <<requests, vars, mode>>
          /\ step'.target = Target(i, 1, "decode") /\ step'.chosen = step.chosen
          /\ i \in step'.considered
          => RoomTarget(step.target.index)'
  <2>1. 1 <= RowsLeft
    <3>1. RowsLeft \in Int
      BY <1>6, StepAt
    <3> QED BY <1>3, <3>1
  <2>2. Generated(i) + requests[i].samples < requests[i].maximum
    BY <1>6, <1>7
  <2> QED BY <1>3, <1>4, <1>9, <1>10, <2>1, <2>2, Aimed
<1>12. /\ step'.phase = "room" /\ step'.chosen = step.chosen /\ step'.done = step.done
       /\ step'.considered = step.considered \cup {i} /\ step'.target = Target(i, 1, "decode")
       /\ step' \in StepType
  BY <1>6, <1>8, <1>11 DEF StepType, Choosing
<1>13. call = Idle
  BY <1>2, EngineParts, NoCall
<1>14. UNCHANGED <<requests, vars, mode>>
  BY <1>2 DEF OnlyStep
<1>17. RoomTarget(step.target.index)'
  BY <1>11, <1>12, <1>14
<1>18. Core' /\ Rows' /\ Synchronous' /\ ResidentsOlderThanWaiters' /\ NewestPrefill'
  BY <1>2, <1>12, <1>13, <1>17, GoesOn DEF Choosing
<1>19. OldestChosen'
  <2>1. OldestChosen
    BY <1>2, EngineParts DEF Fifo, Choosing
  <2> QED BY <1>4, <1>5, <1>12, <1>14, <2>1, OldestKept DEF Batch, Target
<1>20. Fifo'
  <2>1. step'.target.index = i /\ step'.target.from = "decode"
    BY <1>12 DEF Target
  <2>2. \A j \in DOMAIN requests' : requests'[j].state = DECODE /\ j \notin step'.considered =>
          requests'[i].ticket < requests'[j].ticket
    BY <1>4, <1>12, <1>14
  <2> QED BY <1>12, <1>18, <1>19, <2>1, <2>2 DEF Fifo, Phase
<1> QED BY <1>18, <1>20 DEF EngineInv
-----------------------------------------------------------------------------
(* _schedule_prefill, as far as it only chooses.                           *)
LEMMA PrefillCountAt ==
  ASSUME EngineInv, NEW i \in DOMAIN requests, NEW past \in Nat, past < History(i), RowsLeft >= 1
  PROVE  /\ PrefillCount(i, past) \in Nat /\ PrefillCount(i, past) >= 1
         /\ PrefillCount(i, past) <= RowsLeft /\ past + PrefillCount(i, past) <= History(i)
<1>1. RowsLeft \in Int /\ History(i) \in Nat /\ PrefillCap \in Nat
  BY EngineParts, StepAt, RequestAt, EngineAssumption
<1>2. PICK c \in Nat : c = Smaller(RowsLeft, History(i) - past)
  BY <1>1 DEF Smaller
<1>3. c >= 1 /\ c <= RowsLeft /\ past + c <= History(i)
  BY <1>1, <1>2 DEF Smaller
<1>4. PICK d \in Nat : d = PrefillCount(i, past) /\ d >= 1 /\ d <= c
  <2>1. PrefillCount(i, past) = c \/ (PrefillCap > 0 /\ PrefillCount(i, past) = Smaller(c, PrefillCap))
    BY <1>2 DEF PrefillCount
  <2> QED BY <1>1, <1>3, <2>1 DEF Smaller
<1> QED BY <1>1, <1>3, <1>4

(* A prefill goes on with its next chunk.                                  *)
LEMMA PrefillPickOK ==
  ASSUME EngineInv, PrefillPick
  PROVE  EngineInv'
<1>1. PICK i \in Oldest(PREFILL, {}) :
        step' = [step EXCEPT !.phase = "room",
                             !.target = Target(i, PrefillCount(i, Past(i)), "prefill")]
  BY DEF PrefillPick
<1>2. step.phase = "prefill" /\ OnlyStep /\ RowsLeft >= 1 /\ SequenceLeft
  BY DEF PrefillPick, Phase
<1>3. i \in DOMAIN requests /\ requests[i].state = PREFILL
  BY OldestAt
<1>4. /\ ~failed /\ Batch /\ Steady(i) /\ Held(i) /\ Live(i) /\ Shape(i) /\ requests[i].maximum > 0
      /\ \A k \in DOMAIN step.chosen : Single(k)
  BY <1>2, <1>3, ChoosingAt, StateAt DEF Choosing
<1>5. /\ step \in StepType /\ Past(i) \in Nat /\ History(i) \in Nat /\ Generated(i) \in Int
      /\ requests[i].maximum \in Nat /\ requests[i].samples = 0
  BY <1>3, <1>4, EngineParts, RequestAt, Resident
<1>6. Generated(i) + requests[i].samples < requests[i].maximum
  BY <1>3, <1>4, <1>5 DEF Shape
<1>7. PICK n \in Nat : n = PrefillCount(i, Past(i)) /\ n >= 1 /\ n <= RowsLeft
                       /\ Past(i) + n <= History(i)
  <2>1. Past(i) < History(i)
    BY <1>4 DEF Steady
  <2> QED BY <1>2, <1>3, <1>5, <2>1, PrefillCountAt
<1>8. i \notin ChosenSlots
  BY <1>3, <1>4 DEF ChosenSlots, Single
<1>9. /\ Target(i, n, "prefill") \in TargetType
      /\ /\ UNCHANGED <<requests, vars, mode>>
         /\ step'.target = Target(i, n, "prefill") /\ step'.chosen = step.chosen
         => RoomTarget(step.target.index)'
  BY <1>2, <1>3, <1>6, <1>7, <1>8, Aimed
<1>10. /\ step'.phase = "room" /\ step'.chosen = step.chosen /\ step'.done = step.done
       /\ step'.considered = step.considered /\ step'.target = Target(i, n, "prefill")
       /\ step' \in StepType
  BY <1>1, <1>5, <1>7, <1>9 DEF StepType, Choosing
<1>11. call = Idle
  BY <1>2, EngineParts, NoCall
<1>12. UNCHANGED <<requests, vars, mode>>
  BY <1>2 DEF OnlyStep
<1>13. Core' /\ Rows' /\ Synchronous' /\ ResidentsOlderThanWaiters' /\ NewestPrefill'
  BY <1>2, <1>9, <1>10, <1>11, <1>12, GoesOn DEF Choosing
<1>14. OldestChosen'
  <2>1. OldestChosen
    BY <1>2, EngineParts DEF Fifo, Choosing
  <2> QED BY <1>3, <1>4, <1>10, <1>12, <2>1, OldestKept DEF Batch, Target
<1>15. Fifo'
  BY <1>10, <1>13, <1>14 DEF Fifo, Phase, Target
<1> QED BY <1>13, <1>15 DEF EngineInv

(* The other steps that only change the phase while choosing.              *)
LEMMA Turns ==
  ASSUME EngineInv, OnlyStep, call = Idle, step.phase \in {"prefill", "admit"},
         NEW p, step' = [step EXCEPT !.phase = p], p \in {"decode", "admit", "build"},
         p = "admit" => SequenceLeft /\ NonePrefilling
  PROVE  EngineInv'
<1>1. step \in StepType
  BY EngineParts
<1>2. /\ step' \in StepType /\ step'.phase = p /\ step'.chosen = step.chosen
      /\ step'.done = step.done /\ step'.considered = step.considered
      /\ step'.target = step.target
  BY <1>1 DEF StepType, Choosing
<1>3. p = "admit" => SequenceLeft'
  BY <1>2 DEF SequenceLeft
<1>4. Core' /\ Rows' /\ Synchronous' /\ ResidentsOlderThanWaiters' /\ NewestPrefill'
  BY <1>2, <1>3, GoesOn DEF Choosing
<1>5. OldestChosen'
  <2>1. OldestChosen
    BY EngineParts DEF Fifo, Choosing
  <2>2. Batch /\ requests' = requests
    BY ChoosingAt DEF Choosing, OnlyStep
  <2> QED BY <1>2, <2>1, <2>2, OldestKept DEF Batch
<1>6. p = "admit" => NonePrefilling'
  BY DEF NonePrefilling, OnlyStep
<1>7. Fifo'
  BY <1>2, <1>4, <1>5, <1>6, FifoOutside, FifoChoosing
<1> QED BY <1>4, <1>7 DEF EngineInv

(* Without one the turn passes.                                            *)
LEMMA PrefillTurnsOK ==
  ASSUME EngineInv, PrefillNone \/ PrefillSkip \/ AdmitRefuse
  PROVE  EngineInv'
<1>1. NoPrefill \in {"build", "decode"}
  BY DEF NoPrefill
<1>2. CASE PrefillNone
  <2>1. /\ step.phase = "prefill" /\ OnlyStep /\ SequenceLeft /\ Oldest(PREFILL, {}) = {}
        /\ step' = [step EXCEPT !.phase = "admit"]
    BY <1>2 DEF PrefillNone, Phase, Goto
  <2>2. NonePrefilling
    <3> SUFFICES ASSUME NEW i \in DOMAIN requests, requests[i].state = PREFILL PROVE FALSE
      BY DEF NonePrefilling
    <3>1. Oldest(PREFILL, {}) # {}
      BY EngineParts, OldestExists
    <3> QED BY <2>1, <3>1
  <2>3. call = Idle
    BY <2>1, EngineParts, NoCall
  <2> QED BY <2>1, <2>2, <2>3, Turns
<1>3. CASE PrefillSkip
  <2>1. /\ step.phase = "prefill" /\ OnlyStep /\ step' = [step EXCEPT !.phase = NoPrefill]
    BY <1>3 DEF PrefillSkip, Phase, Goto
  <2>2. call = Idle
    BY <2>1, EngineParts, NoCall
  <2> QED BY <1>1, <2>1, <2>2, Turns
<1>4. CASE AdmitRefuse
  <2>1. /\ step.phase = "admit" /\ OnlyStep /\ call = Idle
        /\ step' = [step EXCEPT !.phase = NoPrefill]
    BY <1>4 DEF AdmitRefuse, Phase, Goto
  <2> QED BY <1>1, <2>1, Turns
<1> QED BY <1>2, <1>3, <1>4

(* The boundary gives way to the first pass of the schedule.               *)
LEMMA BoundaryDoneOK ==
  ASSUME EngineInv, BoundaryDone
  PROVE  EngineInv'
<1>1. /\ step.phase = "boundary" /\ Due = {} /\ OnlyStep
      /\ step' = [step EXCEPT !.phase = FirstPass] /\ FirstPass \in {"decode", "prefill"}
  BY DEF BoundaryDone, Phase, Goto, OnlyStep, FirstPass
<1>2. step \in StepType /\ Stepwise /\ ~failed
  BY <1>1, EngineParts DEF Synchronous
<1>3. step.chosen = <<>> /\ step.done = 0
  BY <1>1, <1>2 DEF Stepwise, Selected, Still
<1>4. /\ step' \in StepType /\ step'.phase = FirstPass /\ step'.chosen = <<>> /\ step'.done = 0
  BY <1>1, <1>2, <1>3 DEF StepType, Choosing
<1>5. call = Idle
  BY <1>1, EngineParts, NoCall
<1>6. UNCHANGED <<requests, vars, mode, failed>>
  BY <1>1 DEF OnlyStep
<1>7. \A i \in DOMAIN requests' :
        Live(i)' /\ requests'[i].state # DRAINING => requests'[i].maximum > 0
  <2>1. \A i \in DOMAIN requests : requests[i].maximum \in Nat
    BY EngineParts, RequestAt
  <2> QED BY <1>1, <1>6, <2>1 DEF Due, Live
<1>8. Batch'
  BY <1>4, EngineAssumption DEF Batch
<1>9. Selected'
  BY <1>1, <1>4, <1>7, <1>8, ChoosingSelected DEF Choosing
<1>10. Standing' /\ Lifetime'
  <2>1. \A i \in DOMAIN requests' : Stands(i)' => i \in DOMAIN requests /\ Same(i)
    BY <1>6, SameByStill
  <2> QED BY <1>1, <1>2, <1>6, <2>1, StandAgain DEF Running, Posting
<1>11. /\ Base' /\ Calling' /\ ResidentsOlderThanWaiters' /\ NewestPrefill' /\ Rows'
       /\ Synchronous'
  BY <1>1, <1>2, <1>4, <1>5, Moved
<1>12. OldestChosen'
  BY <1>4 DEF OldestChosen
<1>13. Fifo'
  BY <1>1, <1>4, <1>11, <1>12, FifoChoosing
<1> QED BY <1>4, <1>9, <1>10, <1>11, <1>13 DEF EngineInv, Core, Stepwise
-----------------------------------------------------------------------------
(* _make_room: what it is called for.                                      *)
LEMMA RoomAt ==
  ASSUME EngineInv, step.phase = "room"
  PROVE  LET i == step.target.index
         IN  /\ RoomTarget(i) /\ Target1(i) /\ i \in DOMAIN requests /\ call = Idle /\ step \in StepType
             /\ ~failed /\ Batch /\ \A k \in DOMAIN step.chosen : Picked(k) /\ Single(k)
             /\ \A j \in ChosenSlots : j \in DOMAIN requests /\ j # i /\ requests[j].state = DECODE
                                       /\ Held(j)
             /\ ~step.target.lost => Held(i) /\ Stands(i) /\ Steady(i)
<1>1. PICK i : i = step.target.index
  OBVIOUS
<1>2. /\ ~failed /\ Batch /\ \A k \in DOMAIN step.chosen : Picked(k) /\ Single(k)
      /\ Selected /\ \A j \in DOMAIN requests : Stands(j) => Steady(j)
  BY ChoosingAt DEF Choosing
<1>3. RoomTarget(i) /\ Target1(i) /\ i \in DOMAIN requests /\ i \notin ChosenSlots
  BY <1>1, <1>2 DEF Selected, Phase, RoomTarget, Target1
<1>4. call = Idle /\ step \in StepType
  BY EngineParts, NoCall
<1>5. \A j \in ChosenSlots : j \in DOMAIN requests /\ requests[j].state = DECODE
  BY <1>2 DEF ChosenSlots, Batch, Single
<1>6. \A j \in ChosenSlots : Held(j)
  BY <1>5, StateAt
<1>7. ~step.target.lost => requests[i].state \in {PREFILL, DECODE}
  BY <1>3 DEF RoomTarget
<1>8. ~step.target.lost => Held(i) /\ Stands(i)
  BY <1>3, <1>7, StateAt
<1> QED BY <1>1, <1>2, <1>3, <1>4, <1>5, <1>6, <1>8

(* The room is there: the target joins the selected ones.                  *)
LEMMA Taken ==
  ASSUME EngineInv, step.phase = "room", ~step.target.lost, step' = RoomTaken,
         UNCHANGED <<mode, requests, failed, lengths, enqueued>>,
         mode.lifetime => UNCHANGED reserved,
         NEW i, i = step.target.index, NEW n, n = step.target.count, Ready(i, n)',
         \A j \in DOMAIN requests : Held(j) /\ j # i => Same(j)
  PROVE  /\ step' \in StepType /\ Standing' /\ Lifetime' /\ Selected' /\ Fifo'
         /\ step'.phase \in {"decode", "build"}
<1>1. /\ RoomTarget(i) /\ Target1(i) /\ i \in DOMAIN requests /\ step \in StepType
      /\ ~failed /\ Batch /\ \A k \in DOMAIN step.chosen : Picked(k) /\ Single(k)
      /\ \A j \in ChosenSlots : j \in DOMAIN requests /\ j # i /\ requests[j].state = DECODE
                                /\ Held(j)
      /\ Stands(i)
  BY RoomAt
<1>2. /\ \A j \in DOMAIN requests :
           Live(j) /\ requests[j].state # DRAINING => requests[j].maximum > 0
      /\ \A j \in DOMAIN requests : Stands(j) => Steady(j)
      /\ Lifetime /\ step.done = 0
  BY ChoosingAt DEF Choosing
<1>3. /\ step'.chosen = Choose(i, n) /\ step'.considered = step.considered
      /\ step'.done = 0 /\ step'.target = NoTarget
      /\ step'.phase = IF step.target.from = "decode" THEN "decode" ELSE "build"
      /\ step'.phase \in {"decode", "build"}
  BY <1>1, <1>2 DEF RoomTaken, StepType
<1>4. step' \in StepType
  <2>1. NoTarget \in TargetType
    BY DEF NoTarget, TargetType
  <2>2. Choose(i, n) \in Seq(Choice)
    <3>1. [index |-> i, count |-> n] \in Choice /\ step.chosen \in Seq(Choice)
      BY <1>1, StepAt DEF Choice
    <3>2. \A e \in Choice : Append(step.chosen, e) \in Seq(Choice)
      BY <3>1
    <3> QED BY <3>1, <3>2 DEF Choose
  <2> QED BY <1>1, <1>3, <2>1, <2>2 DEF RoomTaken, StepType, Choosing
<1>5. requests[i].state \in {PREFILL, DECODE}
  BY <1>1 DEF RoomTarget
<1>6. /\ Batch' /\ \A k \in DOMAIN step'.chosen : Picked(k)'
      /\ n = 1 /\ requests'[i].state = DECODE /\ i \in step.considered =>
           \A k \in DOMAIN step'.chosen : Single(k)'
  BY <1>1, <1>3, <1>5, ChoiceMade
<1>7. step'.phase # "build" => \A k \in DOMAIN step'.chosen : Single(k)'
  BY <1>1, <1>3, <1>6 DEF RoomTarget
<1>8. Selected'
  <2>1. \A j \in DOMAIN requests' :
          Live(j)' /\ requests'[j].state # DRAINING => requests'[j].maximum > 0
    BY <1>2 DEF Live
  <2> QED BY <1>3, <1>6, <1>7, <2>1, ChoosingSelected DEF Choosing
<1>9. Standing'
  BY <1>2 DEF Standing, Stands, Held, Steady, Extent, Past, History
<1>10. Lifetime'
  BY <1>2 DEF Lifetime, Stands, Held, Space, Phase, PeakKVExtent
<1>11. Fifo'
  <2>1. ResidentsOlderThanWaiters' /\ NewestPrefill'
    BY EngineParts, OrderKept DEF Held
  <2>2. CASE step'.phase = "build"
    BY <2>1, <2>2, FifoOutside
  <2>3. CASE step'.phase = "decode"
    <3>1. /\ step.target.from = "decode" /\ OldestChosen
          /\ \A j \in DOMAIN requests : requests[j].state = DECODE /\ j \notin step.considered =>
               requests[i].ticket < requests[j].ticket
      BY <1>3, <2>3, EngineParts DEF Fifo, Phase, Choosing
    <3>2. OldestChosen'
      <4>1. /\ step.chosen \in Seq(Choice) /\ [index |-> i, count |-> n] \in Choice
            /\ Len(step.chosen) \in Nat /\ DOMAIN step.chosen = 1..Len(step.chosen)
        BY <1>1, StepAt DEF Choice
      <4>2. /\ DOMAIN step'.chosen = 1..(Len(step.chosen) + 1)
            /\ step'.chosen[Len(step.chosen) + 1].index = i
            /\ \A k \in 1..Len(step.chosen) : step'.chosen[k] = step.chosen[k]
        <5> DEFINE e == [index |-> i, count |-> n]
        <5>1. step'.chosen = Append(step.chosen, e) /\ e.index = i
          BY <1>3 DEF Choose
        <5>2. e \in Choice
          BY <4>1
        <5> HIDE DEF e
        <5> QED BY <4>1, <5>1, <5>2, AppendProperties
      <4>3. ASSUME NEW k \in DOMAIN step'.chosen, NEW j \in DOMAIN requests,
                   requests[j].state = DECODE, j \notin ChosenSlots', j \notin step.considered
            PROVE  requests[step'.chosen[k].index].ticket < requests[j].ticket
        <5>1. CASE k = Len(step.chosen) + 1
          BY <3>1, <4>2, <4>3, <5>1
        <5>2. CASE k \in 1..Len(step.chosen)
          <6>1. j \notin ChosenSlots
            BY <4>1, <4>2, <4>3 DEF ChosenSlots
          <6>2. requests[step.chosen[k].index].ticket < requests[j].ticket
            BY <3>1, <4>1, <4>3, <5>2, <6>1 DEF OldestChosen
          <6> QED BY <4>2, <5>2, <6>2
        <5> QED BY <4>1, <4>2, <4>3, <5>1, <5>2
      <4>4. step'.target.index \notin DOMAIN requests
        <5>1. step'.target.index = 0
          BY <1>3 DEF NoTarget
        <5> QED BY <1>1, <5>1, EngineParts, RequestAt
      <4> QED BY <1>3, <4>3, <4>4 DEF OldestChosen
    <3> QED BY <2>1, <2>3, <3>2, FifoChoosing
  <2> QED BY <1>3, <2>2, <2>3
<1> QED BY <1>3, <1>4, <1>8, <1>9, <1>10, <1>11

(* A reservation that is owned is used.                                    *)
LEMMA RoomOwnedOK ==
  ASSUME EngineInv, RoomOwned
  PROVE  EngineInv'
<1>1. PICK i : i = step.target.index
  OBVIOUS
<1>2. PICK n : n = step.target.count
  OBVIOUS
<1>3. /\ step.phase = "room" /\ mode.lifetime /\ Past(i) + n <= Space(i)
      /\ step' = RoomTaken /\ OnlyStep
  BY <1>1, <1>2 DEF RoomOwned, Phase, WantedLength, Past, Space
<1>4. /\ RoomTarget(i) /\ Target1(i) /\ call = Idle /\ ~failed
  BY <1>1, <1>3, RoomAt
<1>5. ~step.target.lost /\ n >= 1 /\ Past(i) + n <= History(i)
  BY <1>2, <1>3, <1>4 DEF RoomTarget, Target1
<1>6. UNCHANGED <<mode, requests, failed, vars, lengths, enqueued, reserved>>
  BY <1>3 DEF OnlyStep, vars
<1>7. \A j : Same(j)
  BY <1>6, SameByStill
<1>8. Ready(i, n)'
  <2>1. Ready(i, n)
    BY <1>3, <1>5 DEF Ready
  <2> QED BY <1>7, <2>1, SameRequest
<1>9. /\ step' \in StepType /\ Standing' /\ Lifetime' /\ Selected' /\ Fifo'
      /\ step'.phase \in {"decode", "build"}
  BY <1>1, <1>2, <1>3, <1>5, <1>6, <1>7, <1>8, Taken
<1>10. Base' /\ Calling' /\ Rows' /\ Synchronous'
  BY <1>3, <1>4, <1>9, Moved
<1> QED BY <1>9, <1>10 DEF EngineInv, Core, Stepwise

(* A target that lost its blocks loses its turn.                           *)
LEMMA RoomLostOK ==
  ASSUME EngineInv, RoomLost
  PROVE  EngineInv'
<1> DEFINE p == IF step.target.from = "prefill" /\ mode.mixed THEN "admit" ELSE "decode"
<1>1. /\ step.phase = "room" /\ step.target.lost /\ OnlyStep
      /\ step' = [step EXCEPT !.target = NoTarget, !.phase = p]
  BY DEF RoomLost, Phase
<1>2. /\ step \in StepType /\ call = Idle /\ Target1(step.target.index) /\ Batch
  BY <1>1, RoomAt
<1>3. NoTarget \in TargetType
  BY DEF NoTarget, TargetType
<1>4. /\ step' \in StepType /\ step'.phase = p /\ step'.chosen = step.chosen
      /\ step'.done = step.done /\ step'.considered = step.considered
      /\ step'.target = NoTarget /\ p \in {"admit", "decode"}
  BY <1>1, <1>2, <1>3 DEF StepType, Choosing
<1>5. SequenceLeft'
  BY <1>2, <1>4 DEF Target1, SequenceLeft
<1>6. requests' = requests
  BY <1>1 DEF OnlyStep
<1>7. Core' /\ Rows' /\ Synchronous' /\ ResidentsOlderThanWaiters' /\ NewestPrefill'
  BY <1>1, <1>2, <1>4, <1>5, GoesOn DEF Choosing
<1>8. OldestChosen /\ (p = "admit" => NonePrefilling)
  BY <1>1, EngineParts DEF Fifo, Choosing, Phase
<1>9. OldestChosen'
  <2>1. step'.target.index \notin DOMAIN requests
    <3>1. step'.target.index = 0
      BY <1>4 DEF NoTarget
    <3> QED BY <3>1, EngineParts, RequestAt
  <2> QED BY <1>2, <1>4, <1>6, <1>8, <2>1, OldestKept DEF Batch
<1>10. p = "admit" => NonePrefilling'
  BY <1>6, <1>8 DEF NonePrefilling
<1>11. Fifo'
  BY <1>4, <1>7, <1>9, <1>10, FifoChoosing
<1> QED BY <1>7, <1>11 DEF EngineInv
-----------------------------------------------------------------------------
(* Blocks reserved for one sequence: the rows of all stay.                 *)
OwningAfter(i) ==
  \E q \in Slot : \E tokens, salt :
    /\ requests'[i].sequence = q /\ requests'[i].tokens = tokens /\ requests'[i].salt = salt
    /\ OwnRows(q, tokens, salt)

(* Blocks a sequence gets leave the rows of all as they are.               *)
LEMMA RowsReserved ==
  ASSUME Base, Rows, CacheInv(Tenant, Token)', Quiet, KeepRows, call'.op # "reserve",
         NEW s \in Slot, NEW length \in 0..MaxLength, Reserve(s, length),
         \A i \in DOMAIN requests' : Held(i)' => OwningAfter(i)
  PROVE  Rows'
<1>1. RowsTyped(Token) /\ EntriesOwnRows /\ CacheInv(Tenant, Token)
  BY DEF Rows, Base, Roster
<1>2. RowsTyped(Token)' /\ EntriesOwnRows'
  BY <1>1, QuietRows
<1>3. \A q \in Slot : q # s => tables'[q] = tables[q] /\ enqueued'[q] = enqueued[q]
  BY DEF Reserve
<1>4. ASSUME NEW i \in DOMAIN requests', Held(i)'
      PROVE  OwnRows(requests[i].sequence, requests[i].tokens, requests[i].salt)'
  <2>1. PICK q \in Slot : \E tokens, salt :
          /\ requests'[i].sequence = q /\ requests'[i].tokens = tokens /\ requests'[i].salt = salt
          /\ OwnRows(q, tokens, salt)
    BY <1>4 DEF OwningAfter
  <2>2. PICK tokens, salt :
          /\ requests'[i].sequence = q /\ requests'[i].tokens = tokens /\ requests'[i].salt = salt
          /\ OwnRows(q, tokens, salt)
    BY <2>1
  <2>3. OwnRows(q, tokens, salt)'
    <3>1. CASE q = s
      BY <1>1, <2>2, <3>1, ReservedRows
    <3>2. CASE q # s
      BY <1>1, <1>3, <2>2, <3>2, QuietOwn
    <3> QED BY <3>1, <3>2
  <2> QED BY <2>2, <2>3 DEF OwnRows, HoldsHistory, SharesOwn
<1> QED BY <1>2, <1>4 DEF Rows

(* What a reservation for resident i leaves alone.                         *)
LEMMA ReserveSame ==
  ASSUME Base, NEW i \in DOMAIN requests, Held(i), NEW s \in Slot, s = requests[i].sequence,
         NEW length \in 0..MaxLength, Reserve(s, length), UNCHANGED requests
  PROVE  /\ \A j \in DOMAIN requests : Held(j) /\ j # i => Same(j)
         /\ UNCHANGED <<lengths, enqueued, active>>
         /\ reserved'[s] = Larger(reserved[s], length) /\ reserved[s] \in Nat
         /\ IInv' /\ Registered' = Registered
<1>1. IInv /\ reserved \in [Slot -> Nat]
  BY DEF Base, Roster, CacheInv, IInv, TypeOK
<1>2. /\ UNCHANGED <<lengths, enqueued, active>>
      /\ reserved' = [reserved EXCEPT ![s] = Larger(@, length)]
      /\ \E new : tables' = [tables EXCEPT ![s] = @ \o new]
  BY DEF Reserve
<1>3. ASSUME NEW j \in DOMAIN requests, Held(j), j # i
      PROVE  Same(j)
  <2>1. requests[j].sequence \in Slot /\ requests[j].sequence # s
    BY <1>3, Resident DEF Base, Roster, Owned
  <2>2. tables'[requests[j].sequence] = tables[requests[j].sequence]
    BY <1>2, <2>1
  <2> QED BY <1>2, <2>1, <2>2 DEF Same
<1>4. IInv' /\ Registered' = Registered
  BY <1>1, ReserveIInv, ReserveRegistered
<1> QED BY <1>1, <1>2, <1>3, <1>4

(* A target gets its room.                                                 *)
LEMMA RoomReserveOK ==
  ASSUME EngineInv, RoomReserve
  PROVE  EngineInv'
<1>1. PICK i : i = step.target.index
  OBVIOUS
<1>2. PICK n : n = step.target.count
  OBVIOUS
<1>3. PICK s : s = requests[i].sequence
  OBVIOUS
<1>4. PICK length : length = Past(i) + n
  OBVIOUS
<1>5. /\ step.phase = "room" /\ ~mode.lifetime /\ ~step.target.lost /\ Reserve(s, length)
      /\ step' = RoomTaken /\ KeepRows
      /\ UNCHANGED <<cacheVars, mode, requests, nextTicket, account, failed>>
  BY <1>1, <1>2, <1>3, <1>4 DEF RoomReserve, Phase, WantedLength, Past
<1>6. /\ RoomTarget(i) /\ Target1(i) /\ i \in DOMAIN requests /\ call = Idle /\ ~failed /\ Held(i)
  BY <1>1, <1>5, RoomAt
<1>7. n >= 1 /\ Past(i) + n <= History(i)
  BY <1>2, <1>5, <1>6 DEF RoomTarget, Target1
<1>8. s \in Slot /\ length \in 0..MaxLength /\ Past(i) \in Nat /\ n \in Nat
  <2>1. step.target.count \in Nat
    BY EngineParts, StepAt
  <2>2. Past(i) \in Nat /\ s \in Slot
    BY <1>3, <1>6, EngineParts, Resident
  <2>3. length <= MaxLength
    BY <1>5 DEF Reserve
  <2> QED BY <1>2, <1>4, <2>1, <2>2, <2>3, GeometryAssumption
<1>9. /\ \A j \in DOMAIN requests : Held(j) /\ j # i => Same(j)
      /\ UNCHANGED <<lengths, enqueued, active>>
      /\ reserved'[s] = Larger(reserved[s], length) /\ reserved[s] \in Nat
      /\ IInv' /\ Registered' = Registered
  BY <1>3, <1>5, <1>6, <1>8, EngineParts, ReserveSame
<1>10. Ready(i, n)'
  <2>1. Past(i)' = Past(i) /\ History(i)' = History(i) /\ Space(i)' = reserved'[s]
    BY <1>3, <1>5, <1>9 DEF Past, History, Space
  <2>2. Past(i) + n <= reserved'[s]
    BY <1>4, <1>8, <1>9 DEF Larger
  <2> QED BY <1>7, <2>1, <2>2 DEF Ready
<1>11. /\ step' \in StepType /\ Standing' /\ Lifetime' /\ Selected' /\ Fifo'
       /\ step'.phase \in {"decode", "build"}
  BY <1>1, <1>2, <1>5, <1>9, <1>10, Taken
<1>12. UNCHANGED <<entries, call>> /\ call'.op # "reserve" /\ call' = Idle /\ call.op # "reserve"
  BY <1>5, <1>6 DEF cacheVars, Idle
<1>13. CacheInv(Tenant, Token)'
  BY <1>5, <1>6, <1>9, EngineParts, Between
<1>14. Base'
  BY <1>5, <1>6, <1>9, <1>12, <1>13, EngineParts, BaseStill DEF Admitting
<1>15. Rows'
  <2>1. Quiet
    BY <1>5, <1>8, <1>9, <1>12, EngineParts, ManagerQuiet
  <2>2. ASSUME NEW j \in DOMAIN requests, Held(j)
        PROVE  OwningAfter(j)
    BY <1>5, <2>2, EngineParts, Resident DEF Rows, OwningAfter
  <2>3. \A j \in DOMAIN requests' : Held(j)' => OwningAfter(j)
    BY <1>5, <2>2 DEF Held
  <2> QED BY <1>5, <1>8, <1>12, <1>13, <2>1, <2>3, EngineParts, RowsReserved
<1>16. Synchronous'
  BY <1>5, <1>6, <1>11, <1>12, EngineParts, SyncKept DEF Synchronous
<1> QED BY <1>11, <1>12, <1>14, <1>15, <1>16, CallingNone DEF EngineInv, Core, Stepwise
-----------------------------------------------------------------------------
(* Steps of the index alone: the requests and the step stay as they are.   *)
LEMMA FifoStill ==
  ASSUME Fifo, UNCHANGED <<requests, step>>
  PROVE  Fifo'
<1>1. UNCHANGED <<ResidentsOlderThanWaiters, NewestPrefill, OldestChosen, NonePrefilling>>
  BY DEF ResidentsOlderThanWaiters, NewestPrefill, OldestChosen, NonePrefilling, Held, ChosenSlots
<1> QED BY <1>1 DEF Fifo, Phase

(* A selection stays where nobody resident is touched.                     *)
LEMMA SelectionStill ==
  ASSUME EngineInv, UNCHANGED <<requests, step, mode, failed>>, ~failed,
         \A i \in DOMAIN requests : Held(i) => Same(i)
  PROVE  Standing' /\ Lifetime' /\ Selected'
<1>1. Standing /\ Lifetime /\ Selected
  BY EngineParts DEF Stepwise
<1>2. /\ UNCHANGED <<Executed, Unsteady, ChosenSlots, RowsLeft, SequenceLeft>>
      /\ \A k : Posted(k)' = Posted(k)
      /\ \A p : Phase(p)' = Phase(p)
  BY DEF Executed, Unsteady, ChosenSlots, RowsLeft, SequenceLeft, Posted, Phase
<1>3. \A i \in DOMAIN requests : Held(i)' = Held(i) /\ Stands(i)' = Stands(i) /\ Live(i)' = Live(i)
  BY DEF Held, Stands, Live
<1>4. \A i \in DOMAIN requests : Stands(i) => Held(i) /\ Same(i)
  BY DEF Stands
<1>5. Standing'
  <2>1. \A i \in DOMAIN requests : Stands(i) /\ i \notin Unsteady => Steady(i)'
    BY <1>1, <1>4, SameRequest DEF Standing
  <2> QED BY <1>2, <1>3, <2>1 DEF Standing
<1>6. Lifetime'
  <2>1. \A i \in DOMAIN requests : Stands(i) => Space(i)' = Space(i)
    BY <1>4, SameRequest
  <2> QED BY <1>1, <1>2, <1>3, <2>1 DEF Lifetime, PeakKVExtent
<1>7. Batch => Batch'
  BY DEF Batch
<1>8. \A k \in DOMAIN step.chosen : Single(k) => Single(k)'
  BY DEF Single
<1>9. ASSUME NEW k \in DOMAIN step.chosen, step.chosen[k].index \in DOMAIN requests
      PROVE  (Picked(k) => Picked(k)') /\ (Ran(k) => Ran(k)')
  <2>1. PICK i, n : i = step.chosen[k].index /\ n = step.chosen[k].count
    OBVIOUS
  <2>2. requests[i].state \in {PREFILL, DECODE} =>
          /\ Ready(i, n) => Ready(i, n)'
          /\ Written(i, n) => Written(i, n)'
          /\ Committed(i) => Committed(i)'
    <3>1. requests[i].state \in {PREFILL, DECODE} => Same(i)
      BY <1>4, <1>9, <2>1, StateAt
    <3> QED BY <3>1, SameRequest
  <2>3. step'.chosen[k].index = i /\ step'.chosen[k].count = n /\ requests'[i] = requests[i]
    BY <2>1
  <2>4. Picked(k) => Picked(k)'
    BY <2>1, <2>2, <2>3 DEF Picked
  <2>5. Ran(k) => Ran(k)'
    BY <1>2, <2>1, <2>2, <2>3, <2>4 DEF Ran
  <2> QED BY <2>4, <2>5
<1>10. PICK i : i = step.target.index
  OBVIOUS
<1>11. Target1(i) => Target1(i)'
  BY <1>2 DEF Target1
<1>12. RoomTarget(i) => RoomTarget(i)'
  <2> SUFFICES ASSUME RoomTarget(i) PROVE RoomTarget(i)'
    OBVIOUS
  <2>1. Target1(i) /\ i \in DOMAIN requests
    BY DEF RoomTarget, Target1
  <2>2. ~step.target.lost => Same(i)
    <3>1. ~step.target.lost => requests[i].state \in {PREFILL, DECODE}
      BY DEF RoomTarget
    <3> QED BY <1>4, <2>1, <3>1, StateAt
  <2>3. ~step.target.lost =>
          /\ Past(i)' = Past(i) /\ History(i)' = History(i) /\ Generated(i)' = Generated(i)
          /\ \A n : Needed(i, n)' = Needed(i, n)
    BY <2>2, SameRequest
  <2>4. ~step.target.lost => (step.target.needed = Needed(i, Past(i) + step.target.count))'
    <3>1. PICK m : m = Past(i) + step.target.count
      OBVIOUS
    <3>2. ~step.target.lost => step.target.needed = Needed(i, m) /\ Needed(i, m)' = Needed(i, m)
      BY <2>3, <3>1 DEF RoomTarget
    <3>3. ~step.target.lost => (Past(i) + step.target.count)' = m
      BY <2>3, <3>1
    <3> QED BY <3>2, <3>3 DEF Needed
  <2> QED BY <1>11, <2>1, <2>3, <2>4 DEF RoomTarget
<1>13. ReserveTarget(i) => ReserveTarget(i)'
  <2> SUFFICES ASSUME ReserveTarget(i) PROVE ReserveTarget(i)'
    OBVIOUS
  <2>1. i \in DOMAIN requests /\ requests[i].state = PREFILL
    BY DEF ReserveTarget, Target1
  <2>2. Same(i)
    BY <1>4, <2>1, StateAt
  <2>3. Past(i)' = Past(i) /\ Extent(i)' = Extent(i) /\ Space(i)' = Space(i) /\ History(i)' = History(i)
    BY <2>2, SameRequest
  <2> QED BY <1>11, <2>3 DEF ReserveTarget
<1>14. RoomTarget(i)' => RoomTarget(step.target.index)'
  BY <1>10 DEF RoomTarget, Target1, Generated, History, Past, Needed
<1>15. ReserveTarget(i)' => ReserveTarget(step.target.index)'
  BY <1>10 DEF ReserveTarget, Target1, History, Past, Extent, Space
<1>16. CASE step.phase \in Still
  <2>1. step.chosen = <<>> /\ step.done = 0
    <3>1. step.phase # "retire"
      BY EngineParts DEF Synchronous
    <3> QED BY <1>1, <1>16, <3>1 DEF Selected
  <2> QED BY <1>5, <1>6, <1>16, <2>1, StillSelected
<1>17. CASE step.phase \in Choosing
  <2>1. Batch' /\ \A k \in DOMAIN step'.chosen : Picked(k)'
    BY <1>1, <1>7, <1>9, <1>17 DEF Selected, Batch
  <2>2. \A j \in DOMAIN requests' :
          Live(j)' /\ requests'[j].state # DRAINING => requests'[j].maximum > 0
    BY <1>1, <1>3, <1>17 DEF Selected
  <2>3. step'.phase # "build" => \A k \in DOMAIN step'.chosen : Single(k)'
    BY <1>1, <1>8, <1>17 DEF Selected
  <2>4. step'.phase = "room" => RoomTarget(step.target.index)'
    BY <1>1, <1>10, <1>12, <1>14 DEF Selected, Phase
  <2>5. step'.phase = "reserve" => ReserveTarget(step.target.index)'
    BY <1>1, <1>10, <1>13, <1>15 DEF Selected, Phase
  <2>6. (step'.phase = "admit" => SequenceLeft') /\ step'.done = 0
    BY <1>1, <1>2, <1>17 DEF Selected, Phase
  <2> QED BY <1>5, <1>6, <1>17, <2>1, <2>2, <2>3, <2>4, <2>5, <2>6, ChoosingSelected
<1>18. CASE step.phase \in Running
  <2>1. Batch /\ step.done < Len(step.chosen) /\ \A k \in DOMAIN step.chosen : Ran(k)
    BY <1>1, <1>18 DEF Selected
  <2>2. Batch' /\ \A k \in DOMAIN step'.chosen : Ran(k)'
    BY <1>7, <1>9, <2>1 DEF Batch
  <2>3. step'.phase = "publish" => mode'.prefix
    BY <1>1 DEF Selected, Phase
  <2>4. step'.phase \in Running /\ step'.done < Len(step'.chosen)
    BY <1>18, <2>1
  <2>5. Selected'
    BY <2>2, <2>3, <2>4, RunningSelected
  <2> QED BY <1>5, <1>6, <2>5
<1> QED BY <1>16, <1>17, <1>18, EngineParts, StepAt

(* Idle cache makes room.                                                  *)
LEMMA RoomReclaimOK ==
  ASSUME EngineInv, RoomReclaim
  PROVE  EngineInv'
<1>1. /\ step.phase = "room" /\ KeepRows
      /\ UNCHANGED <<clock, call, mode, requests, nextTicket, step, account, failed>>
  BY DEF RoomReclaim, Phase, engineVars
<1>2. PICK k \in IdleVictims : Evict(k)
  BY DEF RoomReclaim
<1>3. mode.prefix /\ k \in DOMAIN entries
  BY DEF IdleVictims, Victims, Evictable
<1>4. call = Idle /\ ~failed /\ call.op = "none"
  BY <1>1, RoomAt DEF Idle
<1>5. IInv /\ IndexTyped(Tenant, Token) /\ IndexExact /\ k \in 1..Len(entries)
  BY <1>3, EngineParts, EntryAt DEF CacheInv
<1>6. /\ IInv' /\ IndexTyped(Tenant, Token)' /\ IndexExact'
      /\ UNCHANGED <<refs, tables, lengths, reserved, active, enqueued>>
  BY <1>1, <1>2, <1>5, EvictIndex
<1>7. CacheInv(Tenant, Token)'
  BY <1>1, <1>4, <1>6, EndCall
<1>8. Base'
  BY <1>1, <1>4, <1>6, <1>7, EngineParts, BaseStill DEF Admitting
<1>9. Standing' /\ Lifetime' /\ Selected'
  BY <1>1, <1>4, <1>6, SelectionStill DEF Same
<1>10. Fifo'
  BY <1>1, EngineParts, FifoStill
<1>11. Rows'
  <2>1. Quiet
    BY <1>2, <1>5, EvictQuiet
  <2> QED BY <1>1, <1>4, <1>6, <1>7, <2>1, EngineParts, RowsKept DEF Held
<1>12. Synchronous'
  BY <1>1, <1>3, EngineParts, SyncKept DEF Synchronous
<1>13. Calling' /\ step' \in StepType
  BY <1>1, <1>4, EngineParts, CallingNone
<1> QED BY <1>8, <1>9, <1>10, <1>11, <1>12, <1>13 DEF EngineInv, Core, Stepwise
-----------------------------------------------------------------------------
(* What becomes of a request's record.                                     *)
With(q, tokens, prompt, maximum, state, sequence, abort) ==
  [id |-> q.id, ticket |-> q.ticket, tokens |-> tokens, prompt |-> prompt, maximum |-> maximum,
   salt |-> q.salt, state |-> state, sequence |-> sequence, abort |-> abort, uses |-> q.uses,
   samples |-> q.samples]

(* It is one,                                                              *)
LEMMA WithTyped ==
  ASSUME NEW q \in RequestType, NEW tokens \in Seq(Token), NEW prompt \in Nat, NEW maximum \in Nat,
         NEW state \in {WAITING, PREFILL, DECODE, FINISHED, DRAINING},
         NEW sequence \in 0..MaxSlots, NEW abort \in BOOLEAN
  PROVE  With(q, tokens, prompt, maximum, state, sequence, abort) \in RequestType
<1>1. /\ q.id \in Ids /\ q.ticket \in Nat /\ q.salt \in Tenant /\ q.uses \in Nat /\ q.samples \in Nat
  BY DEF RequestType
<1> QED BY <1>1 DEF With, RequestType

(* and what the actions make of a request.                                 *)
LEMMA WithChanges ==
  ASSUME NEW q \in RequestType
  PROVE  /\ \A s \in 0..MaxSlots, state \in {WAITING, PREFILL, DECODE, FINISHED, DRAINING} :
              [[q EXCEPT !.sequence = s] EXCEPT !.state = state]
                = With(q, q.tokens, q.prompt, q.maximum, state, s, q.abort)
         /\ \A tokens \in Seq(Token), state \in {WAITING, PREFILL, DECODE, FINISHED, DRAINING} :
              [[q EXCEPT !.tokens = tokens] EXCEPT !.state = state]
                = With(q, tokens, q.prompt, q.maximum, state, q.sequence, q.abort)
         /\ [q EXCEPT !.abort = TRUE]
              = With(q, q.tokens, q.prompt, q.maximum, q.state, q.sequence, TRUE)
         /\ Retired(q) = With(q, <<>>, 0, 0, FINISHED, 0, FALSE)
<1>1. ASSUME NEW e \in RequestType, e.id = q.id, e.ticket = q.ticket, e.salt = q.salt,
             e.uses = q.uses, e.samples = q.samples
      PROVE  e = With(q, e.tokens, e.prompt, e.maximum, e.state, e.sequence, e.abort)
  BY <1>1 DEF With, RequestType
<1>2. ASSUME NEW s \in 0..MaxSlots, NEW state \in {WAITING, PREFILL, DECODE, FINISHED, DRAINING}
      PROVE  [[q EXCEPT !.sequence = s] EXCEPT !.state = state]
               = With(q, q.tokens, q.prompt, q.maximum, state, s, q.abort)
  <2>1. PICK e : e = [[q EXCEPT !.sequence = s] EXCEPT !.state = state]
    OBVIOUS
  <2>2. e \in RequestType
    BY <2>1 DEF RequestType
  <2>3. /\ e.id = q.id /\ e.ticket = q.ticket /\ e.salt = q.salt /\ e.uses = q.uses
        /\ e.samples = q.samples /\ e.tokens = q.tokens /\ e.prompt = q.prompt
        /\ e.maximum = q.maximum /\ e.state = state /\ e.sequence = s /\ e.abort = q.abort
    BY <2>1 DEF RequestType
  <2> QED BY <1>1, <2>1, <2>2, <2>3
<1>3. ASSUME NEW tokens \in Seq(Token),
             NEW state \in {WAITING, PREFILL, DECODE, FINISHED, DRAINING}
      PROVE  [[q EXCEPT !.tokens = tokens] EXCEPT !.state = state]
               = With(q, tokens, q.prompt, q.maximum, state, q.sequence, q.abort)
  <2>1. PICK e : e = [[q EXCEPT !.tokens = tokens] EXCEPT !.state = state]
    OBVIOUS
  <2>2. e \in RequestType
    BY <2>1 DEF RequestType
  <2>3. /\ e.id = q.id /\ e.ticket = q.ticket /\ e.salt = q.salt /\ e.uses = q.uses
        /\ e.samples = q.samples /\ e.tokens = tokens /\ e.prompt = q.prompt
        /\ e.maximum = q.maximum /\ e.state = state /\ e.sequence = q.sequence
        /\ e.abort = q.abort
    BY <2>1 DEF RequestType
  <2> QED BY <1>1, <2>1, <2>2, <2>3
<1>4. [q EXCEPT !.abort = TRUE]
        = With(q, q.tokens, q.prompt, q.maximum, q.state, q.sequence, TRUE)
  <2>1. PICK e : e = [q EXCEPT !.abort = TRUE]
    OBVIOUS
  <2>2. e \in RequestType
    BY <2>1 DEF RequestType
  <2>3. /\ e.id = q.id /\ e.ticket = q.ticket /\ e.salt = q.salt /\ e.uses = q.uses
        /\ e.samples = q.samples /\ e.tokens = q.tokens /\ e.prompt = q.prompt
        /\ e.maximum = q.maximum /\ e.state = q.state /\ e.sequence = q.sequence /\ e.abort = TRUE
    BY <2>1 DEF RequestType
  <2> QED BY <1>1, <2>1, <2>2, <2>3
<1>5. Retired(q) = With(q, <<>>, 0, 0, FINISHED, 0, FALSE)
  <2>1. PICK e : e = Retired(q)
    OBVIOUS
  <2>2. <<>> \in Seq(Token) /\ 0 \in 0..MaxSlots
    BY GeometryAssumption
  <2>3. e \in RequestType
    BY <2>1, <2>2 DEF RequestType, Retired
  <2>4. /\ e.id = q.id /\ e.ticket = q.ticket /\ e.salt = q.salt /\ e.uses = q.uses
        /\ e.samples = q.samples /\ e.tokens = <<>> /\ e.prompt = 0
        /\ e.maximum = 0 /\ e.state = FINISHED /\ e.sequence = 0 /\ e.abort = FALSE
    BY <2>1 DEF RequestType, Retired
  <2> QED BY <1>1, <2>1, <2>3, <2>4
<1> QED BY <1>2, <1>3, <1>4, <1>5
-----------------------------------------------------------------------------
(* A sequence given back leaves the others alone.                          *)
LEMMA Released ==
  ASSUME IInv, NEW s \in Slot, Detach(s)
  PROVE  /\ IInv' /\ Registered' = Registered /\ active[s]
         /\ \A q \in Slot :
              /\ active'[q] <=> active[q] /\ q # s
              /\ q # s => /\ tables'[q] = tables[q] /\ lengths'[q] = lengths[q]
                          /\ enqueued'[q] = enqueued[q] /\ reserved'[q] = reserved[q]
<1>1. active[s] /\ ReleaseAll({s})
  BY DEF Detach
<1>2. IInv' /\ Registered' = Registered
  BY <1>1, ReleaseIInv, OthersRegistered
<1>3. \A q \in Slot :
        /\ active'[q] <=> active[q] /\ q # s
        /\ q # s => /\ tables'[q] = tables[q] /\ lengths'[q] = lengths[q]
                    /\ enqueued'[q] = enqueued[q] /\ reserved'[q] = reserved[q]
  BY <1>1 DEF ReleaseAll
<1> QED BY <1>1, <1>2, <1>3

(* A request gives up what it holds: it goes back to wait, or ends.        *)
Lets(i, r) ==
  /\ requests' = [requests EXCEPT ![i] = r]
  /\ r \in RequestType /\ r.ticket = requests[i].ticket
  /\ r.sequence = 0 /\ r.state \in {WAITING, FINISHED}
  /\ r.uses = 0 /\ r.samples = 0
  /\ IF Held(i) THEN Detach(requests[i].sequence) ELSE UNCHANGED vars
  /\ KeepRows
  /\ UNCHANGED <<cacheVars, mode, nextTicket>>

(* Then what is left is consistent, and has its rows,                      *)
LEMMA LetsGo ==
  ASSUME EngineInv, call = Idle, NEW i \in DOMAIN requests, NEW r, Lets(i, r),
         failed' \in BOOLEAN, Live(i)' => Shape(i)'
  PROVE  /\ Base' /\ Rows' /\ DOMAIN requests' = DOMAIN requests /\ requests'[i] = r
         /\ \A j \in DOMAIN requests : j # i => requests'[j] = requests[j] /\ (Held(j) => Same(j))
         /\ \A j \in DOMAIN requests : requests'[j].ticket = requests[j].ticket
         /\ UNCHANGED <<entries, call>> /\ call' = Idle
<1>1. Base /\ Rows /\ CacheInv(Tenant, Token) /\ IInv
  BY EngineParts
<1>2. /\ requests' = [requests EXCEPT ![i] = r] /\ r \in RequestType /\ r.ticket = requests[i].ticket
      /\ r.sequence = 0 /\ r.state \in {WAITING, FINISHED} /\ KeepRows
      /\ UNCHANGED <<cacheVars, mode, nextTicket>> /\ UNCHANGED <<entries, call>>
      /\ IF Held(i) THEN Detach(requests[i].sequence) ELSE UNCHANGED vars
  BY DEF Lets, cacheVars
<1>3. call.op = "none" /\ call'.op = "none" /\ call' = Idle
  BY <1>2 DEF Idle
<1>4. Held(i) => requests[i].sequence \in Slot
  BY <1>1, Resident
<1>5. /\ IInv' /\ Registered' = Registered
      /\ \A q \in Slot : active'[q] <=> active[q] /\ q # requests[i].sequence
      /\ \A q \in Slot : q # requests[i].sequence =>
           /\ tables'[q] = tables[q] /\ lengths'[q] = lengths[q]
           /\ enqueued'[q] = enqueued[q] /\ reserved'[q] = reserved[q]
  <2>1. CASE Held(i)
    BY <1>1, <1>2, <1>4, <2>1, Released
  <2>2. CASE ~Held(i)
    <3>1. IInv' /\ Registered' = Registered
      BY <1>1, <1>2, <2>2, StillIInv
    <3> QED BY <1>2, <2>2, <3>1 DEF Held, vars
  <2> QED BY <2>1, <2>2
<1>6. CacheInv(Tenant, Token)'
  BY <1>1, <1>2, <1>5, Between
<1>7. Becomes(i, r)
  <2>1. 0 \notin Slot
    OBVIOUS
  <2> QED BY <1>2, <1>3, <1>5, <2>1 DEF Becomes, Admitting
<1>8. /\ DOMAIN requests' = DOMAIN requests /\ requests'[i] = r
      /\ \A j \in DOMAIN requests : j # i => requests'[j] = requests[j]
      /\ \A j \in DOMAIN requests : requests'[j].ticket = requests[j].ticket
  BY <1>1, <1>7, Updated
<1>9. Base'
  BY <1>1, <1>2, <1>3, <1>6, <1>7, BaseUpdate
<1>10. \A j \in DOMAIN requests : j # i /\ Held(j) =>
         requests[j].sequence \in Slot /\ requests[j].sequence # requests[i].sequence
  BY <1>1, Resident DEF Base, Roster, Owned
<1>11. \A j \in DOMAIN requests : j # i /\ Held(j) => Same(j)
  BY <1>5, <1>8, <1>10 DEF Same
<1>12. Quiet
  <2>1. CASE Held(i)
    BY <1>1, <1>2, <1>4, <1>5, <2>1, ManagerQuiet
  <2>2. CASE ~Held(i)
    BY <1>1, <1>2, <1>5, <2>2, ManagerQuiet
  <2> QED BY <2>1, <2>2
<1>13. Rows'
  <2>1. \A j \in DOMAIN requests' : Held(j)' => j \in DOMAIN requests /\ j # i /\ Held(j)
    BY <1>2, <1>8 DEF Held
  <2> QED BY <1>1, <1>2, <1>3, <1>5, <1>6, <1>8, <1>10, <1>12, <2>1, RowsKept
<1> QED BY <1>2, <1>3, <1>8, <1>9, <1>11, <1>13

(* and the other requests go on.                                           *)
LEMMA LetsStand ==
  ASSUME EngineInv, call = Idle, NEW i \in DOMAIN requests, NEW r, Lets(i, r),
         failed' \in BOOLEAN, Live(i)' => Shape(i)', ~failed,
         step.phase \notin Running \cup {"reserve"}
  PROVE  Standing' /\ Lifetime'
<1>1. /\ DOMAIN requests' = DOMAIN requests /\ requests'[i] = r
      /\ \A j \in DOMAIN requests : j # i => requests'[j] = requests[j] /\ (Held(j) => Same(j))
  BY LetsGo
<1>2. r.sequence = 0 /\ mode' = mode
  BY DEF Lets
<1>3. \A j \in DOMAIN requests' : Stands(j)' => j \in DOMAIN requests /\ Same(j)
  BY <1>1, <1>2 DEF Stands, Held
<1> QED BY <1>2, <1>3, EngineParts, StandAgain

(* Among the residents not selected one is the newest.                     *)
LEMMA PreemptedIsNewest ==
  ASSUME EngineInv, step.phase = "room", ~step.target.lost, NEW i \in Newest(Preemptible)
  PROVE  /\ i \in DOMAIN requests /\ Held(i) /\ i \notin ChosenSlots
         /\ \A j \in DOMAIN requests : Held(j) /\ j # i => requests[j].ticket < requests[i].ticket
<1>1. /\ i \in DOMAIN requests /\ Held(i) /\ i \notin ChosenSlots
      /\ \A j \in Preemptible : requests[j].ticket <= requests[i].ticket
  BY DEF Newest, Preemptible
<1>2. PICK t : t = step.target.index
  OBVIOUS
<1>3. /\ RoomTarget(t) /\ Target1(t) /\ t \in DOMAIN requests /\ Held(t) /\ t \notin ChosenSlots
      /\ \A j \in ChosenSlots : j \in DOMAIN requests /\ j # t /\ Held(j)
  BY <1>2, RoomAt DEF Target1
<1>4. \A j \in DOMAIN requests : requests[j].ticket \in Nat /\ requests[j].uses = 0
  BY EngineParts, RequestAt
<1>5. \A j \in DOMAIN requests : Held(j) /\ j \notin ChosenSlots => requests[j].ticket <= requests[i].ticket
  BY <1>1, <1>4 DEF Preemptible
<1>6. requests[t].ticket <= requests[i].ticket
  BY <1>3, <1>5
<1>7. \A j \in ChosenSlots : requests[j].ticket < requests[t].ticket
  <2>1. CASE step.target.from = "decode"
    <3>1. requests[t].state = DECODE /\ OldestChosen
      BY <1>3, <2>1, EngineParts DEF RoomTarget, Fifo, Choosing
    <3> QED BY <1>2, <1>3, <3>1 DEF OldestChosen, ChosenSlots
  <2>2. CASE step.target.from = "prefill"
    <3>1. requests[t].state = PREFILL /\ NewestPrefill
      BY <1>3, <2>2, EngineParts DEF RoomTarget
    <3> QED BY <1>3, <3>1 DEF NewestPrefill
  <2> QED BY <1>3, <2>1, <2>2 DEF RoomTarget
<1>8. ASSUME NEW j \in DOMAIN requests, Held(j), j # i
      PROVE  requests[j].ticket < requests[i].ticket
  <2>1. CASE j \in ChosenSlots
    <3>1. requests[j].ticket < requests[t].ticket
      BY <1>7, <2>1
    <3> QED BY <1>1, <1>3, <1>4, <1>6, <3>1
  <2>2. CASE j \notin ChosenSlots
    <3>1. requests[j].ticket <= requests[i].ticket
      BY <1>5, <1>8, <2>2
    <3>2. requests[j].ticket # requests[i].ticket
      BY <1>1, <1>8, EngineParts DEF Tickets
    <3> QED BY <1>1, <1>4, <3>1, <3>2
  <2> QED BY <2>1, <2>2
<1> QED BY <1>1, <1>8

(* The newest holder makes room.                                           *)
LEMMA RoomPreemptOK ==
  ASSUME EngineInv, RoomPreempt
  PROVE  EngineInv'
<1>1. PICK i \in Newest(Preemptible) :
       /\ Detach(requests[i].sequence)
       /\ requests' = [requests EXCEPT ![i].sequence = 0, ![i].state = WAITING]
       /\ step' = [step EXCEPT !.target.lost = (i = step.target.index)]
  BY DEF RoomPreempt
<1>2. /\ step.phase = "room" /\ ~mode.lifetime /\ ~step.target.lost /\ KeepRows
      /\ UNCHANGED <<cacheVars, mode, nextTicket, account, failed>>
  BY DEF RoomPreempt, Phase
<1>3. PICK t : t = step.target.index
  OBVIOUS
<1>4. /\ RoomTarget(t) /\ Target1(t) /\ t \in DOMAIN requests /\ call = Idle /\ step \in StepType
      /\ ~failed /\ Batch /\ \A k \in DOMAIN step.chosen : Picked(k) /\ Single(k)
      /\ \A j \in ChosenSlots : j \in DOMAIN requests /\ requests[j].state = DECODE /\ Held(j)
      /\ Held(t)
  BY <1>2, <1>3, RoomAt
<1>5. /\ i \in DOMAIN requests /\ Held(i) /\ i \notin ChosenSlots
      /\ \A j \in DOMAIN requests : Held(j) /\ j # i => requests[j].ticket < requests[i].ticket
  BY <1>2, PreemptedIsNewest
<1>6. PICK q : q = requests[i]
  OBVIOUS
<1>7. PICK r : r = With(q, q.tokens, q.prompt, q.maximum, WAITING, 0, q.abort)
  OBVIOUS
<1>8. q \in RequestType /\ q.uses = 0 /\ q.samples = 0 /\ q.state \in {PREFILL, DECODE}
  BY <1>5, <1>6, EngineParts, RequestAt DEF Owned
<1>9. /\ r \in RequestType /\ r.ticket = q.ticket /\ r.tokens = q.tokens /\ r.prompt = q.prompt
      /\ r.maximum = q.maximum /\ r.salt = q.salt /\ r.state = WAITING /\ r.sequence = 0
      /\ r.uses = 0 /\ r.samples = 0
  <2>1. q.tokens \in Seq(Token) /\ q.prompt \in Nat /\ q.maximum \in Nat /\ q.abort \in BOOLEAN
    BY <1>8 DEF RequestType
  <2>2. 0 \in 0..MaxSlots
    BY GeometryAssumption
  <2>3. r \in RequestType
    BY <1>7, <1>8, <2>1, <2>2, WithTyped
  <2> QED BY <1>7, <1>8, <2>3 DEF With
<1>10. requests' = [requests EXCEPT ![i] = r]
  <2>1. r = [[q EXCEPT !.sequence = 0] EXCEPT !.state = WAITING]
    <3>1. 0 \in 0..MaxSlots
      BY GeometryAssumption
    <3> QED BY <1>7, <1>8, <3>1, WithChanges
  <2> QED BY <1>1, <1>6, <2>1
<1>11. Lets(i, r)
  BY <1>1, <1>2, <1>5, <1>6, <1>9, <1>10 DEF Lets
<1>12. Live(i)' => Shape(i)'
  <2>1. requests'[i] = r
    BY <1>5, <1>9, <1>10, EngineParts, UpdateOne
  <2>2. Shape(i)
    BY <1>5, <1>6, <1>8, EngineParts DEF Live
  <2>3. Generated(i)' = Generated(i)
    BY <1>6, <1>9, <2>1 DEF Generated
  <2>4. q.maximum \in Nat
    BY <1>8 DEF RequestType
  <2> QED BY <1>6, <1>8, <1>9, <2>1, <2>2, <2>3, <2>4 DEF Shape
<1>13. /\ Base' /\ Rows' /\ DOMAIN requests' = DOMAIN requests /\ requests'[i] = r
       /\ \A j \in DOMAIN requests : j # i => requests'[j] = requests[j] /\ (Held(j) => Same(j))
       /\ \A j \in DOMAIN requests : requests'[j].ticket = requests[j].ticket
       /\ UNCHANGED <<entries, call>> /\ call' = Idle
  BY <1>2, <1>4, <1>5, <1>11, <1>12, EngineParts, LetsGo
<1>14. Standing' /\ Lifetime'
  BY <1>2, <1>4, <1>5, <1>11, <1>12, EngineParts, LetsStand DEF Running, Posting
<1>15. /\ step' \in StepType /\ step'.phase = "room" /\ step'.chosen = step.chosen
       /\ step'.considered = step.considered /\ step'.done = step.done
       /\ step'.target.index = t /\ step'.target.count = step.target.count
       /\ step'.target.from = step.target.from /\ step'.target.needed = step.target.needed
       /\ step'.target.lost = (i = t)
  <2>1. step.target \in TargetType
    BY <1>4, StepAt
  <2>2. step' = [step EXCEPT !.target = [step.target EXCEPT !.lost = (i = t)]]
    BY <1>1, <1>3
  <2>3. PICK x : x = [step.target EXCEPT !.lost = (i = t)]
    OBVIOUS
  <2>4. /\ x \in TargetType /\ x.index = t /\ x.count = step.target.count
        /\ x.from = step.target.from /\ x.needed = step.target.needed /\ x.lost = (i = t)
    BY <1>3, <2>1, <2>3 DEF TargetType
  <2>5. step' = [step EXCEPT !.target = x]
    BY <2>2, <2>3
  <2>6. /\ step' \in StepType /\ step'.phase = "room" /\ step'.chosen = step.chosen
        /\ step'.considered = step.considered /\ step'.done = step.done /\ step'.target = x
    BY <1>2, <1>4, <2>4, <2>5 DEF StepType
  <2> QED BY <2>4, <2>6
<1>16. Batch' /\ \A k \in DOMAIN step'.chosen : Picked(k)' /\ Single(k)'
  <2>1. \A j \in ChosenSlots : Same(j)
    BY <1>4, <1>5, <1>13
  <2>2. Batch' /\ (\A k \in DOMAIN step'.chosen : Picked(k)')
        /\ \A k \in DOMAIN step'.chosen : Single(k) => Single(k)'
    BY <1>4, <1>13, <1>15, <2>1, ChoiceKept
  <2> QED BY <1>4, <1>15, <2>2
<1>17. RoomTarget(step.target.index)'
  <2>1. ChosenSlots' = ChosenSlots /\ RowsLeft' = RowsLeft /\ SequenceLeft' = SequenceLeft
    BY <1>15 DEF ChosenSlots, RowsLeft, SequenceLeft
  <2>2. Target1(t)'
    BY <1>4, <1>13, <1>15, <2>1 DEF Target1
  <2>3. CASE i = t
    <3>1. RoomTarget(t)'
      BY <1>2, <1>4, <1>9, <1>13, <1>15, <2>2, <2>3 DEF RoomTarget
    <3> QED BY <1>15, <3>1 DEF RoomTarget, Target1, Generated, History, Past, Needed
  <2>4. CASE i # t
    <3>1. Same(t) /\ requests'[t] = requests[t]
      BY <1>4, <1>13, <2>4
    <3>2. /\ Past(t)' = Past(t) /\ History(t)' = History(t) /\ Generated(t)' = Generated(t)
          /\ \A n : Needed(t, n)' = Needed(t, n)
      BY <3>1, SameRequest
    <3>3. (step.target.needed = Needed(t, Past(t) + step.target.count))'
      <4>1. PICK m : m = Past(t) + step.target.count
        OBVIOUS
      <4>2. step.target.needed = Needed(t, m) /\ Needed(t, m)' = Needed(t, m)
        BY <1>2, <1>4, <3>2, <4>1 DEF RoomTarget
      <4>3. (Past(t) + step.target.count)' = m
        BY <1>15, <3>2, <4>1
      <4> QED BY <1>15, <4>2, <4>3 DEF Needed
    <3>4. RoomTarget(t)'
      BY <1>2, <1>4, <1>15, <2>2, <2>4, <3>1, <3>2, <3>3 DEF RoomTarget
    <3> QED BY <1>15, <3>4 DEF RoomTarget, Target1, Generated, History, Past, Needed
  <2> QED BY <1>15, <2>3, <2>4 DEF RoomTarget, Target1, Generated, History, Past, Needed
<1>18. Selected'
  <2>1. \A j \in DOMAIN requests' :
          Live(j)' /\ requests'[j].state # DRAINING => requests'[j].maximum > 0
    <3>1. \A j \in DOMAIN requests : Live(j) /\ requests[j].state # DRAINING => requests[j].maximum > 0
      BY <1>2, ChoosingAt DEF Choosing
    <3>2. requests[i].maximum > 0
      BY <1>5, <1>6, <1>8, <3>1, EngineParts DEF Live
    <3> QED BY <1>6, <1>9, <1>13, <3>1, <3>2 DEF Live
  <2>2. step'.done = 0
    BY <1>2, <1>15, ChoosingAt DEF Choosing
  <2> QED BY <1>15, <1>16, <1>17, <2>1, <2>2, ChoosingSelected DEF Choosing
<1>19. Fifo'
  <2>1. r.state = WAITING /\ ~Held(i)'
    BY <1>9, <1>13 DEF Held
  <2>2. \A j \in DOMAIN requests : Held(j)' => Held(j) /\ j # i
    BY <1>13, <2>1 DEF Held
  <2>3. ResidentsOlderThanWaiters'
    <3> SUFFICES ASSUME NEW j \in DOMAIN requests, NEW k \in DOMAIN requests,
                        Held(j)', requests'[k].state = WAITING
                 PROVE  requests'[j].ticket < requests'[k].ticket
      BY <1>13 DEF ResidentsOlderThanWaiters
    <3>1. requests[j].ticket < requests[k].ticket
      <4>1. CASE k = i
        BY <1>5, <2>2, <4>1
      <4>2. CASE k # i
        BY <1>13, <2>2, <4>2, EngineParts DEF ResidentsOlderThanWaiters
      <4> QED BY <4>1, <4>2
    <3> QED BY <1>13, <3>1
  <2>4. NewestPrefill'
    <3> SUFFICES ASSUME NEW j \in DOMAIN requests, NEW k \in DOMAIN requests, k # j,
                        Held(k)', requests'[j].state = PREFILL
                 PROVE  requests'[k].ticket < requests'[j].ticket
      BY <1>13 DEF NewestPrefill
    <3>1. requests[j].state = PREFILL
      BY <1>13, <2>1
    <3>2. requests[k].ticket < requests[j].ticket
      BY <2>2, <3>1, EngineParts DEF NewestPrefill
    <3> QED BY <1>13, <3>2
  <2>5. OldestChosen'
    <3>1. OldestChosen
      BY <1>2, EngineParts DEF Fifo, Choosing
    <3>2. \A j \in DOMAIN requests : requests'[j].state = DECODE => requests[j].state = DECODE
      BY <1>13, <2>1
    <3> QED BY <1>3, <1>4, <1>13, <1>15, <3>1, <3>2, OldestKept DEF Batch
  <2>6. step.target.from = "decode" =>
          \A j \in DOMAIN requests' : requests'[j].state = DECODE /\ j \notin step'.considered =>
            requests'[t].ticket < requests'[j].ticket
    BY <1>2, <1>3, <1>4, <1>13, <1>15, <2>1, EngineParts DEF Fifo, Phase
  <2>7. step.target.from = "prefill" /\ i = t => NonePrefilling'
    <3> SUFFICES ASSUME step.target.from = "prefill", i = t,
                        NEW j \in DOMAIN requests, requests'[j].state = PREFILL
                 PROVE  FALSE
      BY <1>13 DEF NonePrefilling
    <3>1. j # i /\ requests[j].state = PREFILL
      BY <1>13, <2>1
    <3>2. requests[i].state = PREFILL
      BY <1>2, <1>4 DEF RoomTarget
    <3>3. Held(j)
      BY <3>1, StateAt
    <3>4. requests[j].ticket < requests[i].ticket /\ requests[i].ticket < requests[j].ticket
      BY <1>5, <3>1, <3>2, <3>3, EngineParts DEF NewestPrefill
    <3>5. requests[i].ticket \in Nat /\ requests[j].ticket \in Nat
      BY <1>5, EngineParts, RequestAt
    <3> QED BY <3>4, <3>5
  <2> QED BY <1>15, <2>3, <2>4, <2>5, <2>6, <2>7 DEF Fifo, Phase
<1>20. Synchronous'
  <2>1. \A j \in DOMAIN requests' :
          requests'[j].uses = 0 /\ requests'[j].samples = 0 /\ requests'[j].state # DRAINING
    BY <1>8, <1>9, <1>13, EngineParts
  <2> QED BY <1>2, <1>4, <1>13, <1>15, <2>1, EngineParts, SyncKept DEF Synchronous, Idle
<1> QED BY <1>13, <1>14, <1>15, <1>18, <1>19, <1>20, CallingNone DEF EngineInv, Core, Stepwise
-----------------------------------------------------------------------------
(* Admission: what would be admitted, and how far.                         *)
LEMMA AdmissionAt ==
  ASSUME EngineInv, step.phase = "admit", NEW i \in NextWaiting, NEW cached \in Seq(Block),
         Admissible(i, cached)
  PROVE  LET n == AdmissionCount(i, cached)
             extent == AdmissionExtent(i, cached)
         IN  /\ n \in Nat /\ n >= 1 /\ n <= RowsLeft
             /\ Len(cached) * BlockSize + n <= History(i)
             /\ extent \in 0..MaxLength /\ Len(cached) * BlockSize + n <= extent
             /\ mode.lifetime => extent = PeakKVExtent(requests[i].prompt, requests[i].maximum)
<1>1. i \in DOMAIN requests /\ requests[i].state = WAITING
  BY OldestAt DEF NextWaiting
<1>2. PICK past : past = Len(cached) * BlockSize
  OBVIOUS
<1>3. past \in Nat
  <2>1. Len(cached) \in Nat /\ BlockSize \in Nat
    BY GeometryAssumption
  <2> QED BY <1>2, <2>1
<1>4. RowsLeft \in Int /\ History(i) \in Nat /\ PrefillCap \in Nat
  BY <1>1, EngineParts, StepAt, RequestAt, EngineAssumption
<1>5. PICK count \in Int : count = PrefillCount(i, past)
  BY <1>3, <1>4 DEF PrefillCount, Smaller
<1>6. count <= RowsLeft /\ past + count <= History(i)
  <2>1. PICK c \in Int : c = Smaller(RowsLeft, History(i) - past)
    BY <1>3, <1>4 DEF Smaller
  <2>2. c <= RowsLeft /\ past + c <= History(i)
    BY <1>3, <1>4, <2>1 DEF Smaller
  <2>3. count = c \/ count = Smaller(c, PrefillCap)
    BY <1>5, <2>1 DEF PrefillCount
  <2>4. count <= c
    BY <1>4, <1>5, <2>1, <2>3 DEF Smaller
  <2> QED BY <1>3, <1>4, <1>5, <2>1, <2>2, <2>4
<1>7. PICK room \in Int : room = Available(cached) * BlockSize
  <2>1. Len(free) \in Nat
    BY EngineParts DEF IInv, TypeOK
  <2>2. Reclaimable(Range(cached)) \in Nat
    BY EngineParts, VictimExists DEF CacheInv
  <2>3. Margin \in Int
    <3>1. IsFiniteSet(Block) /\ Watermark \in 0..Cardinality(Block)
      BY GeometryAssumption, EngineAssumption
    <3>2. Cardinality(Block) \in Nat
      BY <3>1, FS_CardinalityType
    <3> QED BY <3>1, <3>2 DEF Margin
  <2>4. Available(cached) \in Int
    BY <2>1, <2>2, <2>3 DEF Available, Larger
  <2>5. BlockSize \in Nat
    BY GeometryAssumption
  <2> QED BY <2>4, <2>5
<1>8. PICK n \in Int : n = AdmissionCount(i, cached)
  BY <1>2, <1>5, <1>7 DEF AdmissionCount, Smaller
<1>9. n >= 1 /\ n <= count
  <2>1. n = count \/ n = Smaller(count, room)
    BY <1>2, <1>5, <1>7, <1>8 DEF AdmissionCount
  <2>2. n >= 1
    BY <1>8 DEF Admissible
  <2> QED BY <1>5, <1>7, <1>8, <2>1, <2>2 DEF Smaller
<1>10. past + n <= History(i) /\ n <= RowsLeft
  BY <1>3, <1>4, <1>5, <1>6, <1>8, <1>9
<1>11. PICK peak \in Nat : peak = PeakKVExtent(requests[i].prompt, requests[i].maximum)
                           /\ History(i) <= peak /\ peak <= MaxLength
  <2>1. Shape(i) /\ Live(i) /\ requests[i].maximum > 0 /\ requests[i].samples = 0
    BY <1>1, ChoosingAt, StateAt, EngineParts DEF Choosing
  <2>2. /\ requests[i].prompt \in Nat /\ requests[i].maximum \in Nat
        /\ Len(requests[i].tokens) \in Nat /\ MaxLength \in Nat
    BY <1>1, EngineParts, RequestAt, GeometryAssumption
  <2>3. /\ Generated(i) < requests[i].maximum
        /\ requests[i].prompt + requests[i].maximum <= MaxLength
    BY <1>1, <2>1 DEF Shape
  <2>4. PICK peak \in Int : peak = requests[i].prompt + requests[i].maximum - 1
    BY <2>2
  <2>5. PeakKVExtent(requests[i].prompt, requests[i].maximum) = peak
    BY <2>1, <2>2, <2>4 DEF PeakKVExtent
  <2>6. Len(requests[i].tokens) - requests[i].prompt < requests[i].maximum
    BY <2>3 DEF Generated
  <2>7. History(i) = Len(requests[i].tokens)
    BY <2>1, <2>2 DEF History
  <2>8. peak \in Nat /\ peak <= MaxLength /\ History(i) <= peak
    <3>1. requests[i].prompt >= 1 /\ requests[i].maximum > 0
      BY <1>1, <2>1 DEF Shape
    <3>2. \A p, m, l \in Nat : p >= 1 /\ m > 0 /\ p + m <= MaxLength /\ l - p < m =>
            p + m - 1 \in Nat /\ p + m - 1 <= MaxLength /\ l <= p + m - 1
      BY <2>2
    <3> QED BY <2>2, <2>3, <2>4, <2>6, <2>7, <3>1, <3>2
  <2> QED BY <2>5, <2>8
<1>12. AdmissionExtent(i, cached) = IF mode.lifetime THEN peak ELSE past + n
  BY <1>2, <1>8, <1>11 DEF AdmissionExtent
<1>13. /\ AdmissionExtent(i, cached) \in 0..MaxLength
       /\ past + n <= AdmissionExtent(i, cached)
  BY <1>3, <1>4, <1>8, <1>9, <1>10, <1>11, <1>12, GeometryAssumption
<1> QED BY <1>2, <1>8, <1>9, <1>10, <1>11, <1>12, <1>13

(* The oldest waiting request is admitted when nobody prefills: it is the  *)
(* newest resident then.                                                   *)
LEMMA TakesOrder ==
  ASSUME EngineInv, NonePrefilling, NEW i \in NextWaiting, DOMAIN requests' = DOMAIN requests,
         requests'[i].ticket = requests[i].ticket, requests'[i].state = PREFILL,
         \A j \in DOMAIN requests : j # i => requests'[j] = requests[j]
  PROVE  ResidentsOlderThanWaiters' /\ NewestPrefill'
<1>1. /\ i \in DOMAIN requests /\ requests[i].state = WAITING
      /\ \A j \in DOMAIN requests : requests[j].state = WAITING /\ j # i =>
           requests[i].ticket < requests[j].ticket
  BY OldestAt DEF NextWaiting
<1>2. ResidentsOlderThanWaiters /\ NonePrefilling
  BY EngineParts
<1>3. ASSUME NEW j \in DOMAIN requests, NEW k \in DOMAIN requests,
             Held(j)', requests'[k].state = WAITING
      PROVE  requests'[j].ticket < requests'[k].ticket
  <2>1. k # i /\ requests[k].state = WAITING
    BY <1>3
  <2>2. CASE j = i
    BY <1>1, <2>1, <2>2
  <2>3. CASE j # i
    <3>1. Held(j)
      BY <1>3, <2>3 DEF Held
    <3> QED BY <1>2, <2>1, <2>3, <3>1 DEF ResidentsOlderThanWaiters
  <2> QED BY <2>2, <2>3
<1>4. ASSUME NEW j \in DOMAIN requests, NEW k \in DOMAIN requests, k # j,
             requests'[j].state = PREFILL, Held(k)'
      PROVE  requests'[k].ticket < requests'[j].ticket
  <2>1. j = i
    BY <1>2, <1>4 DEF NonePrefilling
  <2>2. Held(k) /\ requests'[k] = requests[k]
    BY <1>4, <2>1 DEF Held
  <2> QED BY <1>1, <1>2, <2>1, <2>2 DEF ResidentsOlderThanWaiters
<1>5. ResidentsOlderThanWaiters'
  BY <1>3 DEF ResidentsOlderThanWaiters
<1>6. NewestPrefill'
  BY <1>4 DEF NewestPrefill
<1> QED BY <1>5, <1>6

(* It takes sequence s, new or the one the index made for it.              *)
Takes(i, s) ==
  /\ requests' = [requests EXCEPT ![i].sequence = s, ![i].state = PREFILL]
  /\ ~active[s] \/ Admitting(s)
  /\ \A q \in Slot :
       /\ active'[q] <=> q = s \/ active[q]
       /\ Admitting(q) => q = s
       /\ q # s => /\ tables'[q] = tables[q] /\ lengths'[q] = lengths[q]
                   /\ enqueued'[q] = enqueued[q] /\ reserved'[q] = reserved[q]
  /\ UNCHANGED <<mode, nextTicket, failed>>

(* What becomes of it and of the others.                                   *)
LEMMA Taking ==
  ASSUME EngineInv, step.phase = "admit", NEW i \in NextWaiting, NEW s \in Slot, Takes(i, s),
         call'.op # "reserve", CacheInv(Tenant, Token)'
  PROVE  /\ Base' /\ ResidentsOlderThanWaiters' /\ NewestPrefill'
         /\ i \in DOMAIN requests /\ DOMAIN requests' = DOMAIN requests /\ ~Held(i)
         /\ requests'[i].sequence = s /\ requests'[i].state = PREFILL
         /\ requests'[i].tokens = requests[i].tokens /\ requests'[i].salt = requests[i].salt
         /\ requests'[i].prompt = requests[i].prompt /\ requests'[i].maximum = requests[i].maximum
         /\ History(i)' = History(i)
         /\ \A j \in DOMAIN requests : j # i => requests'[j] = requests[j]
         /\ \A j \in DOMAIN requests : Held(j) =>
              /\ Same(j) /\ j # i /\ requests[j].sequence \in Slot /\ requests[j].sequence # s
         /\ \A j \in DOMAIN requests' :
              requests'[j].uses = 0 /\ requests'[j].samples = 0 /\ requests'[j].state # DRAINING
         /\ \A j \in DOMAIN requests' :
              Live(j)' /\ requests'[j].state # DRAINING => requests'[j].maximum > 0
<1>1. /\ i \in DOMAIN requests /\ requests[i].state = WAITING
  BY OldestAt DEF NextWaiting
<1>2. ~Held(i) /\ Live(i) /\ Shape(i)
  BY <1>1, StateAt
<1>3. /\ ~failed /\ \A j \in DOMAIN requests :
           Live(j) /\ requests[j].state # DRAINING => requests[j].maximum > 0
  BY ChoosingAt DEF Choosing
<1>4. PICK q : q = requests[i]
  OBVIOUS
<1>5. PICK r : r = With(q, q.tokens, q.prompt, q.maximum, PREFILL, s, q.abort)
  OBVIOUS
<1>6. q \in RequestType /\ q.uses = 0 /\ q.samples = 0 /\ q.state = WAITING /\ q.sequence = 0
  BY <1>1, <1>2, <1>4, EngineParts, RequestAt DEF Held
<1>7. s \in 0..MaxSlots /\ s # 0
  BY GeometryAssumption
<1>8. /\ r \in RequestType /\ r.ticket = q.ticket /\ r.tokens = q.tokens /\ r.prompt = q.prompt
      /\ r.maximum = q.maximum /\ r.salt = q.salt /\ r.state = PREFILL /\ r.sequence = s
      /\ r.uses = 0 /\ r.samples = 0
  <2>1. q.tokens \in Seq(Token) /\ q.prompt \in Nat /\ q.maximum \in Nat /\ q.abort \in BOOLEAN
    BY <1>6 DEF RequestType
  <2>2. r \in RequestType
    BY <1>5, <1>6, <1>7, <2>1, WithTyped
  <2> QED BY <1>5, <1>6, <2>2 DEF With
<1>9. requests' = [requests EXCEPT ![i] = r]
  <2>1. r = [[q EXCEPT !.sequence = s] EXCEPT !.state = PREFILL]
    BY <1>5, <1>6, <1>7, WithChanges
  <2> QED BY <1>4, <2>1 DEF Takes
<1>10. Becomes(i, r)
  <2>1. \A p \in Slot : p # requests[i].sequence
    BY <1>4, <1>6
  <2>2. \A p \in Slot : /\ active'[p] <=> p = r.sequence \/ (active[p] /\ p # requests[i].sequence)
                        /\ Admitting(p) => p = r.sequence
    BY <1>8, <2>1 DEF Takes
  <2>3. r.sequence # 0 => ~active[r.sequence] \/ Admitting(r.sequence)
    BY <1>8 DEF Takes
  <2> QED BY <1>4, <1>7, <1>8, <1>9, <2>2, <2>3 DEF Becomes
<1>11. /\ DOMAIN requests' = DOMAIN requests /\ requests'[i] = r
       /\ \A j \in DOMAIN requests : j # i => requests'[j] = requests[j]
  BY <1>1, <1>10, EngineParts, Updated
<1>12. Shape(i)'
  <2>1. Generated(i)' = Generated(i)
    BY <1>4, <1>8, <1>11 DEF Generated
  <2>2. requests[i].maximum > 0 /\ requests[i].maximum \in Nat
    BY <1>1, <1>2, <1>3, EngineParts, RequestAt
  <2>3. Generated(i) < requests[i].maximum
    BY <1>1, <1>2, <2>2 DEF Shape
  <2> QED BY <1>2, <1>4, <1>6, <1>8, <1>11, <2>1, <2>2, <2>3 DEF Shape
<1>13. Base'
  <2>1. failed' \in BOOLEAN /\ UNCHANGED <<nextTicket, mode>>
    BY EngineParts DEF Takes
  <2> QED BY <1>1, <1>10, <1>12, <2>1, EngineParts, BaseUpdate
<1>14. ResidentsOlderThanWaiters' /\ NewestPrefill'
  <2>1. NonePrefilling
    BY EngineParts DEF Fifo, Phase
  <2> QED BY <1>4, <1>8, <1>11, <2>1, TakesOrder
<1>15. ASSUME NEW j \in DOMAIN requests, Held(j)
       PROVE  Same(j) /\ j # i /\ requests[j].sequence \in Slot /\ requests[j].sequence # s
  <2>1. PICK p : p = requests[j].sequence
    OBVIOUS
  <2>2. p \in Slot /\ active[p] /\ ~Admitting(p) /\ j # i
    BY <1>2, <1>15, <2>1, EngineParts, Resident DEF Owned
  <2>3. p # s
    BY <2>2 DEF Takes
  <2>4. /\ tables'[p] = tables[p] /\ lengths'[p] = lengths[p]
        /\ enqueued'[p] = enqueued[p] /\ reserved'[p] = reserved[p]
    BY <2>2, <2>3 DEF Takes
  <2> QED BY <1>11, <2>1, <2>2, <2>3, <2>4 DEF Same
<1>16. History(i)' = History(i)
  BY <1>4, <1>6, <1>8, <1>11 DEF History
<1>17. \A j \in DOMAIN requests' :
         requests'[j].uses = 0 /\ requests'[j].samples = 0 /\ requests'[j].state # DRAINING
  BY <1>8, <1>11, EngineParts
<1>18. \A j \in DOMAIN requests' :
         Live(j)' /\ requests'[j].state # DRAINING => requests'[j].maximum > 0
  BY <1>1, <1>2, <1>3, <1>4, <1>8, <1>11, EngineParts DEF Live
<1> QED BY <1>1, <1>2, <1>4, <1>8, <1>11, <1>13, <1>14, <1>15, <1>16, <1>17, <1>18
-----------------------------------------------------------------------------
(* The target of an admission.                                             *)
Admits(i, n) == [NoTarget EXCEPT !.index = i, !.count = n]

(* It is a target for that request, and for that many rows.                *)
LEMMA AimedAt ==
  ASSUME NEW i \in Nat, NEW n \in Nat
  PROVE  Admits(i, n) \in TargetType /\ Admits(i, n).index = i /\ Admits(i, n).count = n
<1>1. PICK z : z = NoTarget
  OBVIOUS
<1>2. z \in TargetType
  BY <1>1 DEF NoTarget, TargetType
<1>3. PICK t : t = [[z EXCEPT !.index = i] EXCEPT !.count = n]
  OBVIOUS
<1>4. t = Admits(i, n)
  BY <1>1, <1>3 DEF Admits
<1>5. t \in TargetType /\ t.index = i /\ t.count = n
  BY <1>2, <1>3 DEF TargetType
<1> QED BY <1>4, <1>5
-----------------------------------------------------------------------------
(* Rows stay those of their histories when one request joins the residents *)
(* or its history grows.                                                   *)
LEMMA RowsJoined ==
  ASSUME Base, Rows, CacheInv(Tenant, Token)', Quiet, KeepRows, call'.op # "reserve", NEW i,
         OwnRows(requests[i].sequence, requests[i].tokens, requests[i].salt)',
         \A j \in DOMAIN requests' : Held(j)' /\ j # i =>
           /\ j \in DOMAIN requests
           /\ requests'[j].sequence = requests[j].sequence
           /\ requests'[j].tokens = requests[j].tokens /\ requests'[j].salt = requests[j].salt
           /\ tables'[requests[j].sequence] = tables[requests[j].sequence]
           /\ enqueued'[requests[j].sequence] = enqueued[requests[j].sequence]
  PROVE  Rows'
<1>1. RowsTyped(Token) /\ EntriesOwnRows /\ CacheInv(Tenant, Token)
  BY DEF Rows, Base, Roster
<1>2. RowsTyped(Token)' /\ EntriesOwnRows'
  BY <1>1, QuietRows
<1>3. ASSUME NEW j \in DOMAIN requests', Held(j)', j # i
      PROVE  OwnRows(requests[j].sequence, requests[j].tokens, requests[j].salt)'
  <2>1. j \in DOMAIN requests /\ Held(j)
    BY <1>3 DEF Held
  <2>2. PICK s, tokens, salt :
          s = requests[j].sequence /\ tokens = requests[j].tokens /\ salt = requests[j].salt
    OBVIOUS
  <2>3. OwnRows(s, tokens, salt)
    BY <2>1, <2>2 DEF Rows
  <2>4. s \in Slot
    BY <2>1, <2>2, Resident
  <2>5. tables'[s] = tables[s] /\ enqueued'[s] = enqueued[s]
    BY <1>3, <2>2
  <2>6. OwnRows(s, tokens, salt)'
    BY <1>1, <2>3, <2>4, <2>5, QuietOwn
  <2>7. requests'[j].sequence = s /\ requests'[j].tokens = tokens /\ requests'[j].salt = salt
    BY <1>3, <2>2
  <2> QED BY <2>6, <2>7 DEF OwnRows, HoldsHistory, SharesOwn
<1> QED BY <1>2, <1>3 DEF Rows

(* A new, empty sequence.                                                  *)
LEMMA EmptySequence ==
  ASSUME IInv, NEW s \in Slot, Attach(s, <<>>)
  PROVE  /\ IInv' /\ Registered' = Registered /\ ~active[s]
         /\ tables'[s] = <<>> /\ lengths'[s] = 0 /\ enqueued'[s] = 0 /\ reserved'[s] = 0
         /\ \A q \in Slot :
              /\ active'[q] <=> q = s \/ active[q]
              /\ q # s => /\ tables'[q] = tables[q] /\ lengths'[q] = lengths[q]
                          /\ enqueued'[q] = enqueued[q] /\ reserved'[q] = reserved[q]
<1>1. <<>> \in CachedPrefixes
  <2>1. MaxLength \div BlockSize \in Nat
    BY GeometryAssumption, Division
  <2>2. PICK z : z = <<>>
    OBVIOUS
  <2>3. Len(z) = 0 /\ z \in [1..0 -> Registered]
    <3>1. z \in Seq(Registered) /\ Len(z) = 0
      BY <2>2
    <3> QED BY <3>1, LenProperties
  <2>4. IsInjective(z)
    BY <2>3 DEF IsInjective
  <2>5. 0 \in 0..(MaxLength \div BlockSize)
    BY <2>1
  <2>6. z \in CachedPrefixes
    BY <2>3, <2>4, <2>5 DEF CachedPrefixes
  <2> QED BY <2>2, <2>6
<1>2. IInv'
  BY <1>1, AttachIInv
<1>3. Registered' = Registered
  BY DEF Attach, Registered
<1>4. PICK m : m = Len(<<>>) * BlockSize /\ m = 0
  BY GeometryAssumption
<1>5. /\ tables' = [tables EXCEPT ![s] = <<>>] /\ lengths' = [lengths EXCEPT ![s] = 0]
      /\ reserved' = [reserved EXCEPT ![s] = 0] /\ enqueued' = [enqueued EXCEPT ![s] = 0]
      /\ active' = [active EXCEPT ![s] = TRUE] /\ ~active[s]
  BY <1>4 DEF Attach, FirstIdle
<1>6. /\ tables \in [Slot -> Seq(Block)] /\ lengths \in [Slot -> Nat] /\ reserved \in [Slot -> Nat]
      /\ active \in [Slot -> BOOLEAN] /\ enqueued \in [Slot -> Nat]
  BY DEF IInv, TypeOK
<1> QED BY <1>2, <1>3, <1>5, <1>6

(* Without a prefix index an admitted request first gets its sequence.     *)
LEMMA AdmitPlainOK ==
  ASSUME EngineInv, AdmitPlain
  PROVE  EngineInv'
<1>1. PICK i \in NextWaiting, s \in Slot :
        /\ Admissible(i, <<>>) /\ Attach(s, <<>>)
        /\ requests' = [requests EXCEPT ![i].sequence = s, ![i].state = PREFILL]
        /\ step' = [step EXCEPT !.phase = "reserve", !.target =
             [NoTarget EXCEPT !.index = i, !.count = AdmissionCount(i, <<>>)]]
  BY DEF AdmitPlain
<1>2. /\ step.phase = "admit" /\ ~mode.prefix /\ KeepRows
      /\ UNCHANGED <<cacheVars, mode, nextTicket, account, failed>>
      /\ UNCHANGED <<entries, call>>
  BY DEF AdmitPlain, Phase, cacheVars
<1>3. call = Idle /\ call.op = "none" /\ call'.op # "reserve" /\ call' = Idle
  <2>1. call.op = "none"
    BY <1>2, EngineParts DEF Synchronous, Calling, Phase
  <2> QED BY <1>2, <2>1, EngineParts, NoneIsIdle
<1>4. PICK n : n = AdmissionCount(i, <<>>)
  OBVIOUS
<1>5. n \in Nat /\ n >= 1 /\ n <= RowsLeft /\ n <= History(i) /\ History(i) \in Nat
  <2>1. PICK c : c = <<>>
    OBVIOUS
  <2>0. c \in Seq(Block)
    BY <2>1
  <2>2. Len(c) * BlockSize = 0
    BY <2>1, GeometryAssumption
  <2>3. n \in Nat /\ n >= 1 /\ n <= RowsLeft /\ Len(c) * BlockSize + n <= History(i)
    BY <1>1, <1>2, <1>4, <2>0, <2>1, AdmissionAt
  <2>4. History(i) \in Nat
    BY OldestAt, EngineParts, RequestAt DEF NextWaiting
  <2> QED BY <2>2, <2>3, <2>4
<1>6. /\ IInv' /\ Registered' = Registered /\ ~active[s]
      /\ tables'[s] = <<>> /\ lengths'[s] = 0 /\ enqueued'[s] = 0 /\ reserved'[s] = 0
      /\ \A q \in Slot :
           /\ active'[q] <=> q = s \/ active[q]
           /\ q # s => /\ tables'[q] = tables[q] /\ lengths'[q] = lengths[q]
                       /\ enqueued'[q] = enqueued[q] /\ reserved'[q] = reserved[q]
  BY <1>1, EngineParts, EmptySequence
<1>7. Takes(i, s)
  BY <1>1, <1>2, <1>3, <1>6 DEF Takes, Admitting
<1>8. CacheInv(Tenant, Token)'
  BY <1>2, <1>3, <1>6, EngineParts, Between
<1>9. /\ Base' /\ ResidentsOlderThanWaiters' /\ NewestPrefill'
      /\ i \in DOMAIN requests /\ DOMAIN requests' = DOMAIN requests /\ ~Held(i)
      /\ requests'[i].sequence = s /\ requests'[i].state = PREFILL
      /\ requests'[i].tokens = requests[i].tokens /\ requests'[i].salt = requests[i].salt
      /\ History(i)' = History(i)
      /\ \A j \in DOMAIN requests : j # i => requests'[j] = requests[j]
      /\ \A j \in DOMAIN requests : Held(j) =>
           /\ Same(j) /\ j # i /\ requests[j].sequence \in Slot /\ requests[j].sequence # s
      /\ \A j \in DOMAIN requests' :
           requests'[j].uses = 0 /\ requests'[j].samples = 0 /\ requests'[j].state # DRAINING
      /\ \A j \in DOMAIN requests' :
           Live(j)' /\ requests'[j].state # DRAINING => requests'[j].maximum > 0
  BY <1>2, <1>3, <1>7, <1>8, Taking
<1>10. /\ ~failed /\ Batch /\ \A k \in DOMAIN step.chosen : Picked(k) /\ Single(k)
       /\ \A j \in DOMAIN requests : Stands(j) => Steady(j)
       /\ Lifetime /\ step.done = 0 /\ SequenceLeft
  BY <1>2, ChoosingAt DEF Choosing, Selected, Phase
<1>11. /\ step' \in StepType /\ step'.phase = "reserve" /\ step'.chosen = step.chosen
       /\ step'.done = 0 /\ step'.considered = step.considered
       /\ step'.target.index = i /\ step'.target.count = n
  <2>1. PICK t : t = Admits(i, n)
    OBVIOUS
  <2>2. i \in Nat
    BY <1>9, EngineParts, RequestAt
  <2>5. n \in Nat
    BY <1>5
  <2>3. t \in TargetType /\ t.index = i /\ t.count = n
    BY <2>1, <2>2, <2>5, AimedAt
  <2>4. step' = [step EXCEPT !.phase = "reserve", !.target = t]
    BY <1>1, <1>4, <2>1 DEF Admits
  <2> QED BY <1>10, <2>3, <2>4, EngineParts DEF StepType, Choosing
<1>12. /\ Past(i)' = 0 /\ Extent(i)' = 0 /\ Space(i)' = 0
  BY <1>6, <1>9 DEF Past, Extent, Space
<1>13. Steady(i)'
  BY <1>5, <1>9, <1>12 DEF Steady
<1>14. \A j \in DOMAIN requests' : Stands(j)' /\ j # i =>
         j \in DOMAIN requests /\ Held(j) /\ Stands(j) /\ Same(j)
  BY <1>9 DEF Stands, Held
<1>15. Standing'
  <2>1. \A j \in DOMAIN requests' : Stands(j)' /\ j # i => Steady(j)'
    BY <1>10, <1>14, SameRequest
  <2> QED BY <1>13, <2>1 DEF Standing
<1>16. Lifetime'
  <2>1. ASSUME mode.lifetime, NEW j \in DOMAIN requests', Stands(j)', j # i
        PROVE  Space(j)' = PeakKVExtent(requests'[j].prompt, requests'[j].maximum)
    <3>1. Space(j) = PeakKVExtent(requests[j].prompt, requests[j].maximum)
      BY <1>2, <1>10, <1>14, <2>1 DEF Lifetime, Phase
    <3> QED BY <1>9, <1>14, <2>1, <3>1, SameRequest
  <2> QED BY <1>2, <1>11, <2>1 DEF Lifetime, Phase, PeakKVExtent
<1>17. \A j \in ChosenSlots : j \in DOMAIN requests /\ Held(j) /\ j # i
  <2>1. \A j \in ChosenSlots : j \in DOMAIN requests /\ requests[j].state = DECODE
    BY <1>10 DEF ChosenSlots, Batch, Single
  <2> QED BY <1>9, <2>1, StateAt
<1>18. Batch' /\ \A k \in DOMAIN step'.chosen : Picked(k)' /\ Single(k)'
  <2>1. \A j \in ChosenSlots : Same(j)
    BY <1>9, <1>17
  <2>2. Batch' /\ (\A k \in DOMAIN step'.chosen : Picked(k)')
        /\ \A k \in DOMAIN step'.chosen : Single(k) => Single(k)'
    BY <1>9, <1>10, <1>11, <2>1, EngineParts, ChoiceKept
  <2> QED BY <1>10, <1>11, <2>2
<1>19. ReserveTarget(step.target.index)'
  <2>1. ChosenSlots' = ChosenSlots /\ RowsLeft' = RowsLeft /\ SequenceLeft' = SequenceLeft
    BY <1>11 DEF ChosenSlots, RowsLeft, SequenceLeft
  <2>2. Target1(i)'
    BY <1>5, <1>9, <1>10, <1>11, <1>17, <2>1 DEF Target1
  <2>3. ReserveTarget(i)'
    BY <1>5, <1>9, <1>11, <1>12, <2>2 DEF ReserveTarget
  <2> QED BY <1>11, <2>3 DEF ReserveTarget, Target1, History, Past, Extent, Space
<1>20. Selected'
  BY <1>9, <1>11, <1>18, <1>19, ChoosingSelected DEF Choosing
<1>21. Fifo'
  BY <1>9, <1>11, FifoOutside
<1>22. Rows'
  <2>1. Quiet
    <3>1. <<>> \in Seq(Block)
      OBVIOUS
    <3> QED BY <1>1, <1>2, <1>6, <3>1, EngineParts, ManagerQuiet
  <2>2. PICK tokens, salt : tokens = requests[i].tokens /\ salt = requests[i].salt
    OBVIOUS
  <2>3. OwnRows(s, tokens, salt)'
    <3>1. RowsTyped(Token) /\ EntriesOwnRows
      BY EngineParts DEF Rows
    <3>2. \A b \in Block : written'[b] = written[b] => image'[b] = image[b]
      BY <1>2, <1>8, <2>1, <3>1, EngineParts, QuietRows
    <3>3. tokens \in Seq(Token)
      BY <1>9, <2>2, EngineParts, RequestAt
    <3>4. PICK c : c = <<>>
      OBVIOUS
    <3>6. c \in Seq(Block)
      BY <3>4
    <3>5. Matched(c, tokens, salt)
      <4>1. Len(c) = 0 /\ Len(c) * BlockSize = 0 /\ Len(tokens) \in Nat
        BY <3>3, <3>4, GeometryAssumption
      <4> QED BY <4>1 DEF Matched
    <3> QED BY <1>1, <1>2, <1>6, <3>1, <3>2, <3>3, <3>4, <3>5, <3>6, EngineParts, AttachedRows
  <2>4. OwnRows(requests[i].sequence, requests[i].tokens, requests[i].salt)'
    BY <1>9, <2>2, <2>3 DEF OwnRows, HoldsHistory, SharesOwn
  <2>5. ASSUME NEW j \in DOMAIN requests', Held(j)', j # i
        PROVE  /\ j \in DOMAIN requests
               /\ requests'[j].sequence = requests[j].sequence
               /\ requests'[j].tokens = requests[j].tokens /\ requests'[j].salt = requests[j].salt
               /\ tables'[requests[j].sequence] = tables[requests[j].sequence]
               /\ enqueued'[requests[j].sequence] = enqueued[requests[j].sequence]
    <3>1. j \in DOMAIN requests /\ requests'[j] = requests[j] /\ Held(j)
      BY <1>9, <2>5 DEF Held
    <3> QED BY <1>6, <1>9, <3>1
  <2> QED BY <1>2, <1>3, <1>8, <2>1, <2>4, <2>5, EngineParts, RowsJoined
<1>23. Synchronous'
  BY <1>2, <1>3, <1>9, <1>10, <1>11, EngineParts, SyncKept DEF Synchronous
<1> QED BY <1>3, <1>9, <1>11, <1>15, <1>16, <1>20, <1>21, <1>22, <1>23, CallingNone DEF EngineInv, Core, Stepwise
-----------------------------------------------------------------------------
(* What a live request may come to hold covers its history.                *)
LEMMA PeakCovers ==
  ASSUME EngineInv, NEW i \in DOMAIN requests, Live(i), requests[i].maximum > 0
  PROVE  LET peak == PeakKVExtent(requests[i].prompt, requests[i].maximum)
         IN  peak \in Nat /\ History(i) \in Nat /\ History(i) <= peak /\ peak < MaxLength
<1>1. Shape(i) /\ requests[i].samples = 0 /\ requests[i].state # DRAINING
  BY EngineParts
<1>2. /\ requests[i].prompt \in Nat /\ requests[i].maximum \in Nat
      /\ Len(requests[i].tokens) \in Nat /\ MaxLength \in Nat
  BY EngineParts, RequestAt, GeometryAssumption
<1>3. /\ Generated(i) < requests[i].maximum
      /\ requests[i].prompt + requests[i].maximum <= MaxLength
  BY <1>1 DEF Shape
<1>4. PICK peak \in Int : peak = requests[i].prompt + requests[i].maximum - 1
  BY <1>2
<1>5. PeakKVExtent(requests[i].prompt, requests[i].maximum) = peak
  BY <1>2, <1>4 DEF PeakKVExtent
<1>6. peak \in Nat /\ peak < MaxLength
  BY <1>2, <1>3, <1>4
<1>7. History(i) <= peak /\ History(i) \in Nat
  BY <1>1, <1>2, <1>3, <1>4 DEF Generated, History
<1> QED BY <1>5, <1>6, <1>7

(* An admitted request is selected last: the batch is complete.            *)
LEMMA AdmittedLast ==
  ASSUME EngineInv, step.phase \in {"reserve", "admit"}, step' = Admitted, mode' = mode,
         NEW i, i = step.target.index, NEW n, n = step.target.count, Target1(i),
         requests'[i].state = PREFILL, Ready(i, n)', Steady(i)',
         mode.lifetime =>
           Space(i)' = PeakKVExtent(requests'[i].prompt, requests'[i].maximum),
         DOMAIN requests' = DOMAIN requests,
         \A j \in DOMAIN requests : j # i => requests'[j] = requests[j],
         \A j \in DOMAIN requests : Held(j) /\ j # i => Same(j),
         \A j \in DOMAIN requests' :
           Live(j)' /\ requests'[j].state # DRAINING => requests'[j].maximum > 0
  PROVE  step' \in StepType /\ Standing' /\ Lifetime' /\ Selected' /\ step'.phase = "build"
<1>1. /\ ~failed /\ Batch /\ \A k \in DOMAIN step.chosen : Picked(k) /\ Single(k)
      /\ \A j \in DOMAIN requests : Stands(j) => Steady(j)
      /\ Lifetime /\ step.done = 0
  BY ChoosingAt DEF Choosing
<1>2. step \in StepType /\ i \in DOMAIN requests /\ i \notin ChosenSlots
  BY EngineParts DEF Target1
<1>3. /\ step'.chosen = Choose(i, n) /\ step'.considered = step.considered
      /\ step'.done = 0 /\ step'.target = NoTarget /\ step'.phase = "build"
  BY <1>1, <1>2 DEF Admitted, StepType
<1>4. step' \in StepType
  <2>1. NoTarget \in TargetType
    BY DEF NoTarget, TargetType
  <2>2. Choose(i, n) \in Seq(Choice)
    <3>1. [index |-> i, count |-> n] \in Choice /\ step.chosen \in Seq(Choice)
      BY <1>2, StepAt DEF Choice
    <3>2. \A e \in Choice : Append(step.chosen, e) \in Seq(Choice)
      BY <3>1
    <3> QED BY <3>1, <3>2 DEF Choose
  <2> QED BY <1>2, <2>1, <2>2 DEF Admitted, StepType, Choosing
<1>5. \A j \in ChosenSlots : Same(j)
  <2>1. \A j \in ChosenSlots : j \in DOMAIN requests /\ requests[j].state = DECODE
    BY <1>1 DEF ChosenSlots, Batch, Single
  <2> QED BY <1>2, <2>1, StateAt
<1>6. Batch' /\ \A k \in DOMAIN step'.chosen : Picked(k)'
  BY <1>1, <1>2, <1>3, <1>5, ChoiceMade
<1>7. Selected'
  BY <1>3, <1>6, ChoosingSelected DEF Choosing
<1>8. \A j \in DOMAIN requests' : Stands(j)' /\ j # i =>
        j \in DOMAIN requests /\ Held(j) /\ Stands(j) /\ Same(j)
  BY DEF Stands, Held
<1>9. Standing'
  <2>1. \A j \in DOMAIN requests' : Stands(j)' /\ j # i => Steady(j)'
    BY <1>1, <1>8, SameRequest
  <2> QED BY <2>1 DEF Standing
<1>10. Lifetime'
  <2>1. ASSUME mode.lifetime, NEW j \in DOMAIN requests', Stands(j)', j # i
        PROVE  Space(j)' = PeakKVExtent(requests'[j].prompt, requests'[j].maximum)
    <3>1. Space(j) = PeakKVExtent(requests[j].prompt, requests[j].maximum)
      BY <1>1, <1>8, <2>1 DEF Lifetime
    <3> QED BY <1>8, <2>1, <3>1, SameRequest
  <2> QED BY <2>1 DEF Lifetime, PeakKVExtent
<1> QED BY <1>3, <1>4, <1>7, <1>9, <1>10

(* Then it gets its blocks.                                                *)
LEMMA AdmitBlocksOK ==
  ASSUME EngineInv, AdmitBlocks
  PROVE  EngineInv'
<1>1. PICK i : i = step.target.index
  OBVIOUS
<1>2. PICK n : n = step.target.count
  OBVIOUS
<1>3. PICK s : s = requests[i].sequence
  OBVIOUS
<1>4. PICK length : length = IF mode.lifetime
                             THEN PeakKVExtent(requests[i].prompt, requests[i].maximum) ELSE n
  OBVIOUS
<1>5. /\ step.phase = "reserve" /\ Reserve(s, length) /\ step' = Admitted /\ KeepRows
      /\ UNCHANGED <<cacheVars, mode, requests, nextTicket, account, failed>>
  BY <1>1, <1>2, <1>3, <1>4 DEF AdmitBlocks, Phase
<1>6. /\ ~failed /\ Selected
      /\ \A j \in DOMAIN requests :
           Live(j) /\ requests[j].state # DRAINING => requests[j].maximum > 0
      /\ \A j \in DOMAIN requests : Stands(j) => Steady(j)
  BY <1>5, ChoosingAt DEF Choosing
<1>7. /\ Target1(i) /\ i \in DOMAIN requests /\ requests[i].state = PREFILL
      /\ Past(i) = 0 /\ Extent(i) = 0 /\ Space(i) = 0 /\ n <= History(i) /\ n >= 1
  BY <1>1, <1>2, <1>5, <1>6 DEF Selected, Phase, ReserveTarget, Target1
<1>8. Held(i) /\ Stands(i) /\ Live(i) /\ Steady(i) /\ requests[i].maximum > 0
  BY <1>6, <1>7, StateAt
<1>9. call = Idle /\ call.op = "none"
  BY <1>5, EngineParts, NoCall
<1>10. s \in Slot /\ length \in 0..MaxLength /\ n \in Nat /\ n <= length /\ lengths[s] \in Nat
  <2>1. n \in Nat
    BY <1>2, EngineParts, StepAt
  <2>2. s \in Slot /\ Past(i) \in Nat
    BY <1>3, <1>7, <1>8, EngineParts, Resident
  <2>3. CASE mode.lifetime
    <3>1. length \in Nat /\ History(i) \in Nat /\ History(i) <= length /\ length < MaxLength
      BY <1>4, <1>7, <1>8, <2>3, PeakCovers
    <3> QED BY <1>3, <1>7, <2>1, <2>2, <3>1, GeometryAssumption DEF Past
  <2>4. CASE ~mode.lifetime
    <3>1. length = n /\ length <= MaxLength
      BY <1>4, <1>5, <2>4 DEF Reserve
    <3> QED BY <1>3, <1>7, <2>1, <2>2, <3>1, GeometryAssumption DEF Past
  <2> QED BY <2>3, <2>4
<1>11. /\ \A j \in DOMAIN requests : Held(j) /\ j # i => Same(j)
       /\ UNCHANGED <<lengths, enqueued, active>>
       /\ reserved'[s] = Larger(reserved[s], length) /\ reserved[s] \in Nat
       /\ IInv' /\ Registered' = Registered
  BY <1>3, <1>5, <1>7, <1>8, <1>10, EngineParts, ReserveSame
<1>12. Space(i)' = length /\ Past(i)' = 0 /\ Extent(i)' = 0 /\ History(i)' = History(i)
  <2>1. reserved[s] = 0 /\ reserved'[s] = length
    BY <1>3, <1>7, <1>10, <1>11 DEF Space, Larger
  <2> QED BY <1>3, <1>5, <1>7, <1>11, <2>1 DEF Space, Past, Extent, History
<1>13. Ready(i, n)' /\ Steady(i)'
  BY <1>5, <1>7, <1>8, <1>10, <1>12 DEF Ready, Steady
<1>14. /\ step' \in StepType /\ Standing' /\ Lifetime' /\ Selected' /\ step'.phase = "build"
  <2>1. \A j \in DOMAIN requests' :
          Live(j)' /\ requests'[j].state # DRAINING => requests'[j].maximum > 0
    BY <1>5, <1>6 DEF Live
  <2>2. mode.lifetime => Space(i)' = PeakKVExtent(requests'[i].prompt, requests'[i].maximum)
    BY <1>4, <1>5, <1>12
  <2> QED BY <1>1, <1>2, <1>5, <1>7, <1>11, <1>13, <2>1, <2>2, AdmittedLast
<1>15. UNCHANGED <<entries, call>> /\ call' = Idle /\ call'.op # "reserve"
  BY <1>5, <1>9 DEF cacheVars
<1>16. CacheInv(Tenant, Token)'
  BY <1>5, <1>9, <1>11, EngineParts, Between
<1>17. Base'
  BY <1>5, <1>9, <1>11, <1>15, <1>16, EngineParts, BaseStill DEF Admitting
<1>18. Rows'
  <2>1. Quiet
    BY <1>5, <1>10, <1>11, <1>15, EngineParts, ManagerQuiet
  <2>2. ASSUME NEW j \in DOMAIN requests, Held(j)
        PROVE  OwningAfter(j)
    BY <1>5, <2>2, EngineParts, Resident DEF Rows, OwningAfter
  <2>3. \A j \in DOMAIN requests' : Held(j)' => OwningAfter(j)
    BY <1>5, <2>2 DEF Held
  <2> QED BY <1>5, <1>10, <1>15, <1>16, <2>1, <2>3, EngineParts, RowsReserved
<1>19. Fifo'
  <2>1. ResidentsOlderThanWaiters' /\ NewestPrefill'
    BY <1>5, EngineParts, OrderKept DEF Held
  <2> QED BY <1>14, <2>1, FifoOutside
<1>20. Synchronous'
  BY <1>5, <1>6, <1>9, <1>14, <1>15, EngineParts, SyncKept DEF Synchronous
<1> QED BY <1>14, <1>15, <1>17, <1>18, <1>19, <1>20, CallingNone DEF EngineInv, Core, Stepwise
-----------------------------------------------------------------------------
(* With a prefix index the engine admits through it, from a match of the   *)
(* request's own history.                                                  *)
LEMMA AdmitBeginOK ==
  ASSUME EngineInv, AdmitBegin
  PROVE  EngineInv'
<1>1. PICK i \in NextWaiting :
        /\ Admissible(i, CachedPrefix(i))
        /\ BeginAdmit(CachedPrefix(i), AdmissionExtent(i, CachedPrefix(i)), Margin)
        /\ step' = [step EXCEPT !.target =
             [NoTarget EXCEPT !.index = i, !.count = AdmissionCount(i, CachedPrefix(i))]]
  BY DEF AdmitBegin
<1>2. /\ step.phase = "admit" /\ mode.prefix /\ call = Idle
      /\ UNCHANGED <<image, mode, requests, nextTicket, account, failed>>
  BY DEF AdmitBegin, Phase
<1>3. PICK cached : cached = CachedPrefix(i)
  OBVIOUS
<1>4. PICK n : n = AdmissionCount(i, cached)
  OBVIOUS
<1>5. PICK length : length = AdmissionExtent(i, cached)
  OBVIOUS
<1>6. i \in DOMAIN requests /\ requests[i].state = WAITING /\ i \in Nat
  BY OldestAt, EngineParts, RequestAt DEF NextWaiting
<1>7. cached \in Seq(Block) /\ Matched(cached, requests[i].tokens, requests[i].salt)
  <2>1. PICK tokens, salt : tokens = requests[i].tokens /\ salt = requests[i].salt
    OBVIOUS
  <2>2. tokens \in Seq(Token) /\ tokens # <<>>
    <3>1. tokens \in Seq(Token) /\ requests[i].prompt \in Nat
      BY <1>6, <2>1, EngineParts, RequestAt
    <3>2. Shape(i)
      BY <1>6, StateAt
    <3>3. Len(tokens) >= 1
      BY <2>1, <3>1, <3>2 DEF Shape
    <3> QED BY <3>1, <3>3, EmptySeq
  <2>3. cached = Match(tokens, salt)
    BY <1>2, <1>3, <2>1 DEF CachedPrefix
  <2>4. cached \in Seq(Block) /\ Matched(cached, tokens, salt)
    BY <2>2, <2>3, EngineParts, MatchIsFiled DEF CacheInv
  <2> QED BY <2>1, <2>4
<1>8. /\ n \in Nat /\ n >= 1 /\ n <= RowsLeft
      /\ Len(cached) * BlockSize + n <= History(i)
      /\ length \in 0..MaxLength /\ Len(cached) * BlockSize + n <= length
      /\ mode.lifetime => length = PeakKVExtent(requests[i].prompt, requests[i].maximum)
  BY <1>1, <1>2, <1>3, <1>4, <1>5, <1>7, AdmissionAt
<1>9. BeginAdmit(cached, length, Margin)
  BY <1>1, <1>3, <1>5
<1>10. /\ CacheInv(Tenant, Token)'
       /\ UNCHANGED <<entries, clock, vars>>
       /\ call'.op = "admit" /\ call'.cached = cached /\ call'.length = length
  <2>1. CacheInv(Tenant, Token)'
    BY <1>7, <1>8, <1>9, EngineParts, BeginAdmitOK
  <2> QED BY <1>9, <2>1 DEF BeginAdmit
<1>11. /\ ~failed /\ Batch /\ \A k \in DOMAIN step.chosen : Picked(k) /\ Single(k)
       /\ \A j \in DOMAIN requests :
            Live(j) /\ requests[j].state # DRAINING => requests[j].maximum > 0
       /\ SequenceLeft /\ step.done = 0
  BY <1>2, ChoosingAt DEF Choosing, Selected, Phase
<1>12. /\ step' \in StepType /\ step'.phase = "admit" /\ step'.chosen = step.chosen
       /\ step'.done = step.done /\ step'.considered = step.considered
       /\ step'.target.index = i /\ step'.target.count = n
  <2>1. PICK t : t = Admits(i, n)
    OBVIOUS
  <2>2. n \in Nat
    BY <1>8
  <2>3. t \in TargetType /\ t.index = i /\ t.count = n
    BY <1>6, <2>1, <2>2, AimedAt
  <2>4. step' = [step EXCEPT !.target = t]
    BY <1>1, <1>3, <1>4, <2>1 DEF Admits
  <2> QED BY <1>2, <2>3, <2>4, EngineParts DEF StepType, Choosing
<1>13. \A j : Same(j)
  BY <1>2, <1>10, SameByStill
<1>14. i \notin ChosenSlots
  BY <1>6, <1>11 DEF ChosenSlots, Single
<1>15. Base'
  <2>1. UNCHANGED active /\ \A s \in Slot : Admitting(s)' <=> Admitting(s)
    BY <1>2, <1>10 DEF vars, Admitting, Idle
  <2> QED BY <1>2, <1>10, <2>1, EngineParts, BaseStill
<1>16. Standing' /\ Lifetime'
  <2>1. \A j \in DOMAIN requests' : Stands(j)' => j \in DOMAIN requests /\ Same(j)
    BY <1>2, <1>13
  <2> QED BY <1>2, <1>11, <2>1, EngineParts, StandAgain DEF Running, Posting
<1>17. Selected'
  <2>1. /\ Batch' /\ \A k \in DOMAIN step'.chosen : Picked(k)'
        /\ \A k \in DOMAIN step'.chosen : Single(k)'
    BY <1>2, <1>11, <1>12, <1>13, EngineParts, ChoiceKept
  <2>2. \A j \in DOMAIN requests' :
          Live(j)' /\ requests'[j].state # DRAINING => requests'[j].maximum > 0
    BY <1>2, <1>11 DEF Live
  <2>3. SequenceLeft'
    BY <1>11, <1>12 DEF SequenceLeft
  <2> QED BY <1>11, <1>12, <2>1, <2>2, <2>3, ChoosingSelected DEF Choosing
<1>18. Calling'
  <2>1. ChosenSlots' = ChosenSlots /\ RowsLeft' = RowsLeft /\ SequenceLeft' = SequenceLeft
    BY <1>12 DEF ChosenSlots, RowsLeft, SequenceLeft
  <2>2. Target1(i)'
    BY <1>2, <1>6, <1>8, <1>11, <1>12, <1>14, <2>1 DEF Target1
  <2>3. i \in NextWaiting'
    BY <1>2 DEF NextWaiting, Oldest
  <2>4. Matched(call.cached, requests[i].tokens, requests[i].salt)'
    BY <1>2, <1>7, <1>10 DEF Matched, Filed
  <2>5. History(i)' = History(i)
    BY <1>2 DEF History
  <2>6. AdmitTarget(i)'
    BY <1>2, <1>8, <1>10, <1>12, <2>2, <2>3, <2>4, <2>5 DEF AdmitTarget, PeakKVExtent
  <2>7. AdmitTarget(step.target.index)'
    BY <1>12, <2>6 DEF AdmitTarget, Target1, History, PeakKVExtent
  <2> QED BY <1>10, <1>12, <2>7 DEF Calling, Phase
<1>19. Fifo'
  <2>1. ResidentsOlderThanWaiters' /\ NewestPrefill'
    BY <1>2, EngineParts, OrderKept DEF Held
  <2>2. NonePrefilling'
    BY <1>2, EngineParts DEF Fifo, Phase, NonePrefilling
  <2>3. OldestChosen'
    <3>1. OldestChosen
      BY <1>2, EngineParts DEF Fifo, Choosing
    <3> QED BY <1>2, <1>6, <1>11, <1>12, <3>1, OldestKept DEF Batch
  <2> QED BY <1>12, <2>1, <2>2, <2>3, FifoChoosing
<1>20. Rows'
  BY <1>2, <1>10, EngineParts, RowsStill
<1>21. Synchronous'
  BY <1>2, <1>11, <1>12, EngineParts, SyncKept
<1> QED BY <1>12, <1>15, <1>16, <1>17, <1>18, <1>19, <1>20, <1>21 DEF EngineInv, Core, Stepwise

(* In the middle of an admission.                                          *)
LEMMA AdmittingAt ==
  ASSUME EngineInv, call.op \in {"admit", "reserve"}, NEW i, i = step.target.index
  PROVE  /\ step.phase = "admit" /\ mode.prefix /\ ~failed /\ AdmitTarget(i) /\ Target1(i)
         /\ i \in NextWaiting /\ i \in DOMAIN requests /\ ~Held(i)
<1>1. Phase("admit") /\ AdmitTarget(i)
  BY EngineParts DEF Calling
<1>2. step.phase = "admit" /\ Target1(i) /\ i \in NextWaiting
  BY <1>1 DEF Phase, AdmitTarget
<1>3. i \in DOMAIN requests /\ requests[i].state = WAITING
  BY <1>2, OldestAt DEF NextWaiting
<1>4. ~failed /\ mode.prefix
  BY <1>2, EngineParts DEF Synchronous
<1> QED BY <1>1, <1>2, <1>3, <1>4, StateAt

(* Its target stays while the requests do.                                 *)
LEMMA TargetStays ==
  ASSUME EngineInv, call.op \in {"admit", "reserve"}, NEW i, i = step.target.index,
         UNCHANGED <<requests, step, mode>>, call'.cached = call.cached, call'.length = call.length,
         call'.op \in {"admit", "reserve"},
         call'.op = "admit" => Matched(call.cached, requests[i].tokens, requests[i].salt)',
         call'.op = "reserve" =>
           (enqueued[call.sequence] = lengths[call.sequence] /\ reserved[call.sequence] <= call.length)'
  PROVE  Calling'
<1>1. AdmitTarget(i) /\ step.phase = "admit"
  BY AdmittingAt
<1>2. ChosenSlots' = ChosenSlots /\ RowsLeft' = RowsLeft /\ SequenceLeft' = SequenceLeft
  BY DEF ChosenSlots, RowsLeft, SequenceLeft
<1>3. Target1(i)'
  BY <1>1, <1>2 DEF Target1, AdmitTarget
<1>4. i \in NextWaiting'
  BY <1>1 DEF NextWaiting, Oldest, AdmitTarget
<1>5. History(i)' = History(i)
  BY DEF History
<1>6. AdmitTarget(i)'
  BY <1>1, <1>3, <1>4, <1>5 DEF AdmitTarget, PeakKVExtent
<1>7. AdmitTarget(step.target.index)'
  BY <1>6 DEF AdmitTarget, Target1, History, PeakKVExtent
<1> QED BY <1>1, <1>7 DEF Calling, Phase

(* It reclaims what it lacks.                                              *)
LEMMA AdmitReclaimOK ==
  ASSUME EngineInv, AdmitReclaim
  PROVE  EngineInv'
<1>1. /\ call.op = "admit" /\ ReclaimOne /\ KeepRows
      /\ UNCHANGED <<clock, call, mode, requests, nextTicket, step, account, failed>>
  BY DEF AdmitReclaim, engineVars, ReclaimOne
<1>2. PICK i : i = step.target.index
  OBVIOUS
<1>3. /\ step.phase = "admit" /\ mode.prefix /\ ~failed /\ AdmitTarget(i) /\ i \in DOMAIN requests
  BY <1>1, <1>2, AdmittingAt
<1>4. PICK k \in Victims(call.protected) : Evict(k)
  BY <1>1 DEF ReclaimOne
<1>5. k \in DOMAIN entries /\ entries[k].block \notin call.protected
  BY DEF Victims, Evictable
<1>6. IInv /\ IndexTyped(Tenant, Token) /\ IndexExact /\ k \in 1..Len(entries)
  BY <1>5, EngineParts, EntryAt DEF CacheInv
<1>7. UNCHANGED <<refs, tables, lengths, reserved, active, enqueued>>
  BY <1>1, <1>4, <1>6, EvictIndex
<1>8. CacheInv(Tenant, Token)'
  BY <1>1, EngineParts, ReclaimOneOK
<1>9. Base'
  BY <1>1, <1>3, <1>7, <1>8, EngineParts, BaseStill DEF Admitting
<1>10. Standing' /\ Lifetime' /\ Selected'
  BY <1>1, <1>3, <1>7, SelectionStill DEF Same
<1>11. Fifo'
  BY <1>1, EngineParts, FifoStill
<1>12. Quiet
  BY <1>4, <1>6, EvictQuiet
<1>13. Rows'
  BY <1>1, <1>7, <1>8, <1>12, EngineParts, RowsKept DEF Held
<1>14. Synchronous'
  BY <1>1, <1>3, EngineParts, SyncKept DEF Synchronous
<1>15. Calling'
  <2>1. PICK n \in Int, cached \in Seq(Block), length \in 0..MaxLength :
          AdmitCall(n, cached, length)
    BY <1>1, EngineParts, WhichCall DEF CacheInv
  <2>2. /\ call.cached = cached /\ call.protected = Range(cached)
        /\ \A j \in 1..Len(cached) : states[cached[j]] = REGISTERED
    BY <2>1 DEF AdmitCall
  <2>3. \A j \in 1..Len(cached) : states'[cached[j]] = REGISTERED
    <3> SUFFICES ASSUME NEW j \in 1..Len(cached) PROVE states'[cached[j]] = REGISTERED
      OBVIOUS
    <3>1. cached[j] \in Block /\ cached[j] \in Range(cached)
      BY DEF Range
    <3>2. cached[j] # entries[k].block
      BY <1>5, <2>2, <3>1
    <3>3. states' = [states EXCEPT ![entries[k].block] = RESET] /\ states \in [Block -> State]
      BY <1>4, <1>6 DEF Evict, EvictRegistered, IInv, TypeOK
    <3> QED BY <2>2, <3>1, <3>2, <3>3
  <2>4. PICK tokens, salt : tokens = requests[i].tokens /\ salt = requests[i].salt
    OBVIOUS
  <2>5. Matched(cached, tokens, salt)
    BY <1>1, <1>3, <2>2, <2>4 DEF AdmitTarget
  <2>6. Matched(cached, tokens, salt)'
    BY <1>12, <2>3, <2>5, StillMatched
  <2>7. Matched(call.cached, requests[i].tokens, requests[i].salt)'
    BY <1>1, <2>2, <2>4, <2>6
  <2> QED BY <1>1, <1>2, <2>7, TargetStays
<1> QED BY <1>1, <1>9, <1>10, <1>11, <1>13, <1>14, <1>15, EngineParts DEF EngineInv, Core, Stepwise
-----------------------------------------------------------------------------
(* A sequence attached to cached blocks: how far it is, and the others.    *)
LEMMA AttachAt ==
  ASSUME IInv, NEW s \in Slot, NEW cached \in Seq(Block), Attach(s, cached)
  PROVE  /\ ~active[s] /\ tables'[s] = cached
         /\ lengths'[s] = Len(cached) * BlockSize /\ enqueued'[s] = Len(cached) * BlockSize
         /\ reserved'[s] = Len(cached) * BlockSize
         /\ \A q \in Slot :
              /\ active'[q] <=> q = s \/ active[q]
              /\ q # s => /\ tables'[q] = tables[q] /\ lengths'[q] = lengths[q]
                          /\ enqueued'[q] = enqueued[q] /\ reserved'[q] = reserved[q]
<1>1. PICK m : m = Len(cached) * BlockSize
  OBVIOUS
<1>2. /\ tables' = [tables EXCEPT ![s] = cached] /\ lengths' = [lengths EXCEPT ![s] = m]
      /\ reserved' = [reserved EXCEPT ![s] = m] /\ enqueued' = [enqueued EXCEPT ![s] = m]
      /\ active' = [active EXCEPT ![s] = TRUE] /\ ~active[s]
  BY <1>1 DEF Attach, FirstIdle
<1>3. /\ tables \in [Slot -> Seq(Block)] /\ lengths \in [Slot -> Nat] /\ reserved \in [Slot -> Nat]
      /\ active \in [Slot -> BOOLEAN] /\ enqueued \in [Slot -> Nat]
  BY DEF IInv, TypeOK
<1> QED BY <1>1, <1>2, <1>3

(* The admitted request's sequence starts with the cached blocks.          *)
LEMMA AdmitSequenceOK ==
  ASSUME EngineInv, AdmitSequence
  PROVE  EngineInv'
<1>1. PICK s \in Slot : AdmitAttach(s)
  BY DEF AdmitSequence
<1>2. /\ call.op = "admit" /\ KeepRows
      /\ UNCHANGED <<entries, clock, mode, requests, nextTicket, step, account, failed>>
  BY <1>1 DEF AdmitSequence, AdmitAttach, engineVars
<1>3. PICK i : i = step.target.index
  OBVIOUS
<1>4. /\ step.phase = "admit" /\ mode.prefix /\ ~failed /\ AdmitTarget(i) /\ i \in DOMAIN requests
      /\ ~Held(i)
  BY <1>2, <1>3, AdmittingAt
<1>5. PICK n \in Int, cached \in Seq(Block), length \in 0..MaxLength : AdmitCall(n, cached, length)
  BY <1>2, EngineParts, WhichCall DEF CacheInv
<1>6. /\ call.cached = cached /\ call.length = length /\ Len(cached) * BlockSize <= length
  BY <1>5 DEF AdmitCall
<1>7. /\ Attach(s, cached)
      /\ call' = [op |-> "reserve", sequence |-> s, cached |-> cached, length |-> length]
  BY <1>1, <1>6 DEF AdmitAttach
<1>8. CacheInv(Tenant, Token)' /\ IInv'
  BY <1>1, EngineParts, AdmitAttachOK DEF CacheInv
<1>9. /\ ~active[s] /\ tables'[s] = cached
      /\ lengths'[s] = Len(cached) * BlockSize /\ enqueued'[s] = Len(cached) * BlockSize
      /\ reserved'[s] = Len(cached) * BlockSize
      /\ \A q \in Slot :
           /\ active'[q] <=> q = s \/ active[q]
           /\ q # s => /\ tables'[q] = tables[q] /\ lengths'[q] = lengths[q]
                       /\ enqueued'[q] = enqueued[q] /\ reserved'[q] = reserved[q]
  BY <1>7, EngineParts, AttachAt
<1>10. \A j \in DOMAIN requests : Held(j) =>
         requests[j].sequence \in Slot /\ requests[j].sequence # s /\ active[requests[j].sequence]
  BY <1>9, EngineParts, Resident
<1>11. \A j \in DOMAIN requests : Held(j) => Same(j)
  BY <1>2, <1>9, <1>10 DEF Same
<1>12. Base'
  <2>1. \A q : Admitting(q)' <=> q = s
    BY <1>7 DEF Admitting
  <2>2. \A q : ~Admitting(q)
    BY <1>2 DEF Admitting
  <2>3. Owned'
    <3>1. /\ \A j \in DOMAIN requests : Held(j) <=> requests[j].state \in {PREFILL, DECODE, DRAINING}
          /\ \A j, k \in DOMAIN requests :
               Held(j) /\ requests[j].sequence = requests[k].sequence => j = k
      BY EngineParts DEF Owned
    <3>2. \A j \in DOMAIN requests : Held(j) =>
            active'[requests[j].sequence] /\ requests[j].sequence # s
      BY <1>9, <1>10
    <3>3. \A q \in Slot : active'[q] =>
            Admitting(q)' \/ \E j \in DOMAIN requests : requests[j].sequence = q
      BY <1>9, <2>1, <2>2, EngineParts DEF Owned
    <3>4. \A j \in DOMAIN requests : Held(j)' <=> Held(j)
      BY <1>2 DEF Held
    <3>5. call'.op = "reserve" /\ call'.sequence = s
      BY <1>7
    <3> QED BY <1>2, <3>1, <3>2, <3>3, <3>4, <3>5 DEF Owned, Admitting
  <2>4. \A j \in DOMAIN requests' : Live(j)' => Shape(j)'
    BY <1>2, EngineParts DEF Live, Shape, Generated
  <2>5. Tickets'
    BY <1>2, EngineParts DEF Tickets
  <2> QED BY <1>2, <1>8, <2>3, <2>4, <2>5, EngineParts DEF Base, Roster
<1>13. Standing' /\ Lifetime' /\ Selected'
  BY <1>2, <1>4, <1>11, SelectionStill
<1>14. Fifo'
  BY <1>2, EngineParts, FifoStill
<1>15. Calling'
  <2>1. call'.cached = call.cached /\ call'.length = call.length /\ call'.op = "reserve"
        /\ call'.sequence = s
    BY <1>6, <1>7
  <2>2. enqueued'[s] = lengths'[s] /\ reserved'[s] <= length
    BY <1>6, <1>9
  <2>3. (enqueued[call.sequence] = lengths[call.sequence] /\ reserved[call.sequence] <= call.length)'
    BY <1>6, <2>1, <2>2
  <2> QED BY <1>2, <1>3, <2>1, <2>3, TargetStays
<1>16. Rows'
  <2>1. Quiet
    BY <1>2, <1>7, <1>8, EngineParts, ManagerQuiet
  <2>2. RowsTyped(Token) /\ EntriesOwnRows
    BY EngineParts DEF Rows
  <2>3. /\ RowsTyped(Token)' /\ EntriesOwnRows'
        /\ \A b \in Block : written'[b] = written[b] => image'[b] = image[b]
    BY <1>2, <1>8, <2>1, <2>2, EngineParts, QuietRows
  <2>4. PICK tokens, salt : tokens = requests[i].tokens /\ salt = requests[i].salt
    OBVIOUS
  <2>5. tokens \in Seq(Token) /\ Matched(cached, tokens, salt)
    BY <1>2, <1>4, <1>6, <2>4, EngineParts, RequestAt DEF AdmitTarget
  <2>6. OwnRows(s, tokens, salt)'
    BY <1>2, <1>7, <1>8, <2>2, <2>3, <2>5, EngineParts, AttachedRows
  <2>7. OwnRows(call.sequence, requests[step.target.index].tokens,
                requests[step.target.index].salt)'
    BY <1>2, <1>3, <1>7, <2>4, <2>6 DEF OwnRows, HoldsHistory, SharesOwn
  <2>8. ASSUME NEW j \in DOMAIN requests', Held(j)'
        PROVE  OwnRows(requests[j].sequence, requests[j].tokens, requests[j].salt)'
    <3>1. j \in DOMAIN requests /\ Held(j)
      BY <1>2, <2>8 DEF Held
    <3>2. PICK q, own, t : q = requests[j].sequence /\ own = requests[j].tokens /\ t = requests[j].salt
      OBVIOUS
    <3>3. OwnRows(q, own, t)
      BY <3>1, <3>2, EngineParts DEF Rows
    <3>4. q \in Slot /\ tables'[q] = tables[q] /\ enqueued'[q] = enqueued[q]
      BY <1>9, <1>10, <3>1, <3>2
    <3>5. OwnRows(q, own, t)'
      BY <1>2, <1>8, <2>1, <2>2, <3>3, <3>4, EngineParts, QuietOwn
    <3> QED BY <1>2, <3>2, <3>5 DEF OwnRows, HoldsHistory, SharesOwn
  <2> QED BY <2>3, <2>7, <2>8 DEF Rows
<1>17. Synchronous'
  BY <1>2, <1>4, EngineParts, SyncKept DEF Synchronous
<1> QED BY <1>2, <1>12, <1>13, <1>14, <1>15, <1>16, <1>17, EngineParts DEF EngineInv, Core, Stepwise
-----------------------------------------------------------------------------
(* It takes the sequence with its private tail, and is selected.           *)
LEMMA AdmitChooseOK ==
  ASSUME EngineInv, AdmitChoose
  PROVE  EngineInv'
<1>1. PICK i : i = step.target.index
  OBVIOUS
<1>2. PICK n : n = step.target.count
  OBVIOUS
<1>3. /\ AdmitReserve /\ call.op = "reserve" /\ step' = Admitted /\ KeepRows
      /\ requests' = [requests EXCEPT ![i].sequence = call.sequence, ![i].state = PREFILL]
      /\ UNCHANGED <<mode, nextTicket, account, failed>> /\ call' = Idle
  BY <1>1 DEF AdmitChoose, AdmitReserve
<1>4. /\ step.phase = "admit" /\ mode.prefix /\ ~failed /\ AdmitTarget(i) /\ Target1(i)
      /\ i \in NextWaiting /\ i \in DOMAIN requests /\ ~Held(i)
  BY <1>1, <1>3, AdmittingAt
<1>5. PICK s \in Slot, cached \in Seq(Block), length \in 0..MaxLength : ReserveCall(s, cached, length)
  BY <1>3, EngineParts, WhichCall DEF CacheInv
<1>6. /\ call.sequence = s /\ call.cached = cached /\ call.length = length
      /\ active[s] /\ lengths[s] = Len(cached) * BlockSize
  BY <1>5 DEF ReserveCall
<1>7. Reserve(s, length)
  BY <1>3, <1>6 DEF AdmitReserve
<1>8. CacheInv(Tenant, Token)' /\ Registered' = Registered /\ Quiet
  BY <1>3, EngineParts, AdmitReserveOK, AdmitReserveQuiet
<1>9. /\ UNCHANGED <<lengths, enqueued, active>>
      /\ \A q \in Slot : q # s => tables'[q] = tables[q] /\ reserved'[q] = reserved[q]
      /\ reserved'[s] = Larger(reserved[s], length) /\ reserved[s] \in Nat /\ lengths[s] \in Nat
  <2>1. /\ tables \in [Slot -> Seq(Block)] /\ reserved \in [Slot -> Nat] /\ lengths \in [Slot -> Nat]
    BY EngineParts DEF IInv, TypeOK
  <2> QED BY <1>7, <2>1 DEF Reserve
<1>10. Takes(i, s)
  BY <1>3, <1>6, <1>9 DEF Takes, Admitting
<1>11. call'.op # "reserve" /\ call'.op = "none"
  BY <1>3 DEF Idle
<1>12. /\ Base' /\ ResidentsOlderThanWaiters' /\ NewestPrefill'
       /\ i \in DOMAIN requests /\ DOMAIN requests' = DOMAIN requests /\ ~Held(i)
       /\ requests'[i].sequence = s /\ requests'[i].state = PREFILL
       /\ requests'[i].tokens = requests[i].tokens /\ requests'[i].salt = requests[i].salt
       /\ requests'[i].prompt = requests[i].prompt /\ requests'[i].maximum = requests[i].maximum
       /\ History(i)' = History(i)
       /\ \A j \in DOMAIN requests : j # i => requests'[j] = requests[j]
       /\ \A j \in DOMAIN requests : Held(j) =>
            /\ Same(j) /\ j # i /\ requests[j].sequence \in Slot /\ requests[j].sequence # s
       /\ \A j \in DOMAIN requests' :
            requests'[j].uses = 0 /\ requests'[j].samples = 0 /\ requests'[j].state # DRAINING
       /\ \A j \in DOMAIN requests' :
            Live(j)' /\ requests'[j].state # DRAINING => requests'[j].maximum > 0
  BY <1>4, <1>8, <1>10, <1>11, Taking
<1>13. /\ n \in Nat /\ n >= 1 /\ Len(cached) * BlockSize + n <= History(i)
       /\ Len(cached) * BlockSize + n <= length /\ History(i) \in Nat
       /\ mode.lifetime => length = PeakKVExtent(requests[i].prompt, requests[i].maximum)
       /\ enqueued[s] = lengths[s] /\ reserved[s] <= length
  <2>1. n \in Nat /\ History(i) \in Nat
    BY <1>2, <1>4, EngineParts, StepAt, RequestAt
  <2> QED BY <1>2, <1>3, <1>4, <1>6, <2>1 DEF AdmitTarget, Target1
<1>14. Past(i)' = lengths[s] /\ Extent(i)' = lengths[s] /\ Space(i)' = length
  <2>1. reserved'[s] = length
    BY <1>9, <1>13 DEF Larger
  <2>2. requests'[i].sequence = s
    BY <1>12
  <2>3. lengths'[s] = lengths[s] /\ enqueued'[s] = lengths[s]
    BY <1>9, <1>13
  <2> QED BY <2>1, <2>2, <2>3 DEF Past, Extent, Space
<1>15. Ready(i, n)' /\ Steady(i)'
  BY <1>6, <1>9, <1>12, <1>13, <1>14 DEF Ready, Steady
<1>16. /\ step' \in StepType /\ Standing' /\ Lifetime' /\ Selected' /\ step'.phase = "build"
  <2>1. mode.lifetime => Space(i)' = PeakKVExtent(requests'[i].prompt, requests'[i].maximum)
    BY <1>12, <1>13, <1>14
  <2>2. /\ step.phase \in {"reserve", "admit"} /\ step' = Admitted /\ mode' = mode /\ Target1(i)
        /\ requests'[i].state = PREFILL /\ Ready(i, n)' /\ Steady(i)'
    BY <1>3, <1>4, <1>12, <1>15
  <2>3. /\ DOMAIN requests' = DOMAIN requests
        /\ \A j \in DOMAIN requests : j # i => requests'[j] = requests[j]
        /\ \A j \in DOMAIN requests : Held(j) /\ j # i => Same(j)
        /\ \A j \in DOMAIN requests' :
             Live(j)' /\ requests'[j].state # DRAINING => requests'[j].maximum > 0
    BY <1>12
  <2> QED BY <1>1, <1>2, <2>1, <2>2, <2>3, AdmittedLast
<1>17. Fifo'
  BY <1>12, <1>16, FifoOutside
<1>18. Rows'
  <2>1. PICK tokens, salt : tokens = requests[i].tokens /\ salt = requests[i].salt
    OBVIOUS
  <2>2. RowsTyped(Token) /\ EntriesOwnRows /\ OwnRows(s, tokens, salt)
    BY <1>1, <1>3, <1>6, <2>1, EngineParts DEF Rows
  <2>3. OwnRows(s, tokens, salt)'
    BY <1>3, <1>7, <1>8, <2>2, EngineParts, ReservedRows
  <2>4. OwnRows(requests[i].sequence, requests[i].tokens, requests[i].salt)'
    BY <1>12, <2>1, <2>3 DEF OwnRows, HoldsHistory, SharesOwn
  <2>5. ASSUME NEW j \in DOMAIN requests', Held(j)', j # i
        PROVE  /\ j \in DOMAIN requests
               /\ requests'[j].sequence = requests[j].sequence
               /\ requests'[j].tokens = requests[j].tokens /\ requests'[j].salt = requests[j].salt
               /\ tables'[requests[j].sequence] = tables[requests[j].sequence]
               /\ enqueued'[requests[j].sequence] = enqueued[requests[j].sequence]
    <3>1. j \in DOMAIN requests /\ requests'[j] = requests[j] /\ Held(j)
      BY <1>12, <2>5 DEF Held
    <3> QED BY <1>9, <1>12, <3>1
  <2>6. Base /\ Rows /\ KeepRows /\ Quiet /\ CacheInv(Tenant, Token)' /\ call'.op # "reserve"
    BY <1>3, <1>8, <1>11, EngineParts
  <2> QED BY <2>4, <2>5, <2>6, RowsJoined
<1>19. Synchronous'
  BY <1>3, <1>4, <1>11, <1>12, <1>16, EngineParts, SyncKept
<1> QED BY <1>3, <1>12, <1>16, <1>17, <1>18, <1>19, CallingNone DEF EngineInv, Core, Stepwise
-----------------------------------------------------------------------------
(* A request that ends gives up what it holds; the others go on.           *)
LEMMA Closing ==
  ASSUME EngineInv, call = Idle, NEW i \in DOMAIN requests, CloseRequest(i), KeepRows,
         UNCHANGED <<cacheVars, mode, nextTicket>>, failed' \in BOOLEAN
  PROVE  /\ Base' /\ Rows' /\ DOMAIN requests' = DOMAIN requests
         /\ requests'[i].state = FINISHED /\ requests'[i].sequence = 0
         /\ \A j \in DOMAIN requests : j # i => requests'[j] = requests[j] /\ (Held(j) => Same(j))
         /\ UNCHANGED <<entries, call>> /\ call' = Idle
         /\ ResidentsOlderThanWaiters' /\ NewestPrefill'
         /\ \A j \in DOMAIN requests' :
              requests'[j].uses = 0 /\ requests'[j].samples = 0 /\ requests'[j].state # DRAINING
         /\ ~failed /\ step.phase \notin Running \cup {"reserve"} => Standing' /\ Lifetime'
<1>1. PICK q : q = requests[i]
  OBVIOUS
<1>2. PICK r : r = With(q, <<>>, 0, 0, FINISHED, 0, FALSE)
  OBVIOUS
<1>3. q \in RequestType /\ q.uses = 0 /\ q.samples = 0
  BY <1>1, EngineParts, RequestAt
<1>4. /\ r \in RequestType /\ r.ticket = q.ticket /\ r.state = FINISHED /\ r.sequence = 0
      /\ r.uses = 0 /\ r.samples = 0
  <2>1. PICK z : z = <<>>
    OBVIOUS
  <2>2. z \in Seq(Token)
    BY <2>1
  <2>3. 0 \in 0..MaxSlots
    BY GeometryAssumption
  <2>4. r = With(q, z, 0, 0, FINISHED, 0, FALSE)
    BY <1>2, <2>1
  <2>5. r \in RequestType
    BY <1>3, <2>2, <2>3, <2>4, WithTyped
  <2> QED BY <1>3, <2>4, <2>5 DEF With
<1>5. r = Retired(q)
  BY <1>2, <1>3, WithChanges
<1>6. requests' = [requests EXCEPT ![i] = r]
  BY <1>1, <1>3, <1>5 DEF CloseRequest
<1>7. IF Held(i) THEN Detach(requests[i].sequence) ELSE UNCHANGED vars
  BY <1>1, <1>3 DEF CloseRequest, ReleaseHeld
<1>8. Lets(i, r)
  BY <1>1, <1>4, <1>6, <1>7 DEF Lets
<1>9. requests'[i] = r
  BY <1>4, <1>6, EngineParts, UpdateOne
<1>10. Live(i)' => Shape(i)'
  BY <1>4, <1>9 DEF Live
<1>11. /\ Base' /\ Rows' /\ DOMAIN requests' = DOMAIN requests
       /\ \A j \in DOMAIN requests : j # i => requests'[j] = requests[j] /\ (Held(j) => Same(j))
       /\ \A j \in DOMAIN requests : requests'[j].ticket = requests[j].ticket
       /\ UNCHANGED <<entries, call>> /\ call' = Idle
  BY <1>8, <1>10, LetsGo
<1>12. ResidentsOlderThanWaiters' /\ NewestPrefill'
  <2>1. \A j \in DOMAIN requests' :
          /\ j \in DOMAIN requests /\ requests'[j].ticket = requests[j].ticket
          /\ Held(j)' => Held(j)
          /\ requests'[j].state = WAITING => requests[j].state = WAITING
          /\ requests'[j].state = PREFILL => requests[j].state = PREFILL
    BY <1>4, <1>9, <1>11 DEF Held
  <2> QED BY <2>1, EngineParts, OrderKept
<1>13. \A j \in DOMAIN requests' :
         requests'[j].uses = 0 /\ requests'[j].samples = 0 /\ requests'[j].state # DRAINING
  BY <1>4, <1>9, <1>11, EngineParts
<1>14. ~failed /\ step.phase \notin Running \cup {"reserve"} => Standing' /\ Lifetime'
  BY <1>8, <1>10, LetsStand
<1> QED BY <1>4, <1>9, <1>11, <1>12, <1>13, <1>14

(* The boundary ends aborted and empty requests.                           *)
LEMMA BoundaryFinishOK ==
  ASSUME EngineInv, BoundaryFinish
  PROVE  EngineInv'
<1>1. PICK i \in Due : Finish(i, IF requests[i].abort THEN "abort" ELSE "length")
  BY DEF BoundaryFinish
<1>2. /\ step.phase = "boundary" /\ UNCHANGED <<step, failed>> /\ i \in DOMAIN requests
      /\ CloseRequest(i) /\ KeepRows /\ UNCHANGED <<cacheVars, mode, nextTicket>>
  BY <1>1 DEF BoundaryFinish, Phase, Due, Finish
<1>3. call = Idle /\ failed' \in BOOLEAN /\ ~failed
  <2>1. call = Idle
    BY <1>2, EngineParts, NoCall
  <2> QED BY <1>2, <2>1, EngineParts DEF Synchronous
<1>4. /\ Base' /\ Rows'
      /\ UNCHANGED <<entries, call>> /\ call' = Idle
      /\ ResidentsOlderThanWaiters' /\ NewestPrefill'
      /\ \A j \in DOMAIN requests' :
           requests'[j].uses = 0 /\ requests'[j].samples = 0 /\ requests'[j].state # DRAINING
      /\ Standing' /\ Lifetime'
  BY <1>2, <1>3, Closing DEF Running, Posting
<1>5. Selected'
  BY <1>2, <1>3, EngineParts, StillSelected DEF Stepwise, Selected, Still
<1>6. Fifo'
  BY <1>2, <1>4, FifoOutside DEF Still
<1>7. Synchronous'
  BY <1>2, <1>3, <1>4, EngineParts, SyncKept DEF Synchronous
<1>8. Calling'
  BY <1>2, <1>4, CallingNone
<1> QED BY <1>2, <1>4, <1>5, <1>6, <1>7, <1>8, EngineParts DEF EngineInv, Core, Stepwise

(* So does a failed step, request by request.                              *)
LEMMA FailRequestOK ==
  ASSUME EngineInv, FailRequest
  PROVE  EngineInv'
<1>1. PICK i \in LiveSlots : Finish(i, "error")
  BY DEF FailRequest
<1>2. /\ step.phase = "failing" /\ UNCHANGED <<step, failed>> /\ i \in DOMAIN requests
      /\ CloseRequest(i) /\ KeepRows /\ UNCHANGED <<cacheVars, mode, nextTicket>>
  BY <1>1 DEF FailRequest, Phase, LiveSlots, Finish
<1>3. call = Idle /\ failed' \in BOOLEAN
  <2>1. call = Idle
    BY <1>2, EngineParts, NoCall
  <2> QED BY <1>2, <2>1, EngineParts
<1>4. /\ Base' /\ Rows'
      /\ UNCHANGED <<entries, call>> /\ call' = Idle
      /\ ResidentsOlderThanWaiters' /\ NewestPrefill'
      /\ \A j \in DOMAIN requests' :
           requests'[j].uses = 0 /\ requests'[j].samples = 0 /\ requests'[j].state # DRAINING
      /\ ~failed => Standing' /\ Lifetime'
  BY <1>2, <1>3, Closing DEF Running, Posting
<1>5. ~failed => Selected'
  BY <1>2, <1>3, EngineParts, StillSelected DEF Stepwise, Selected, Still
<1>6. Fifo'
  BY <1>2, <1>4, FifoOutside DEF Still
<1>7. Synchronous'
  BY <1>2, <1>3, <1>4, EngineParts, SyncKept DEF Synchronous
<1>8. Calling'
  BY <1>2, <1>4, CallingNone
<1> QED BY <1>2, <1>4, <1>5, <1>6, <1>7, <1>8, EngineParts DEF EngineInv, Core, Stepwise
-----------------------------------------------------------------------------
(* An abort is only noted.                                                 *)
LEMMA AbortOK ==
  ASSUME EngineInv, NEW id, Abort(id)
  PROVE  EngineInv'
<1>1. PICK i \in DOMAIN requests : requests' = [requests EXCEPT ![i].abort = TRUE]
  BY DEF Abort
<1>2. /\ step.phase = "idle" /\ call = Idle /\ call.op = "none"
      /\ UNCHANGED <<vars, cacheVars, image, mode, nextTicket, step, failed>>
      /\ UNCHANGED <<entries, call, active, tables, lengths, reserved, enqueued>>
  BY DEF Abort, Idling, Phase, Idle, vars, cacheVars
<1>3. PICK q : q = requests[i]
  OBVIOUS
<1>4. PICK r : r = With(q, q.tokens, q.prompt, q.maximum, q.state, q.sequence, TRUE)
  OBVIOUS
<1>5. q \in RequestType
  BY <1>3, EngineParts, RequestAt
<1>6. /\ r \in RequestType /\ r.ticket = q.ticket /\ r.tokens = q.tokens /\ r.prompt = q.prompt
      /\ r.maximum = q.maximum /\ r.salt = q.salt /\ r.state = q.state /\ r.sequence = q.sequence
      /\ r.uses = q.uses /\ r.samples = q.samples
  <2>1. /\ q.tokens \in Seq(Token) /\ q.prompt \in Nat /\ q.maximum \in Nat
        /\ q.state \in {WAITING, PREFILL, DECODE, FINISHED, DRAINING} /\ q.sequence \in 0..MaxSlots
    BY <1>5 DEF RequestType
  <2>2. r \in RequestType
    BY <1>4, <1>5, <2>1, WithTyped
  <2> QED BY <1>4, <1>5, <2>2 DEF With
<1>7. requests' = [requests EXCEPT ![i] = r]
  BY <1>1, <1>3, <1>4, <1>5, WithChanges
<1>8. Becomes(i, r)
  <2>1. r.sequence # 0 <=> r.state \in {PREFILL, DECODE, DRAINING}
    BY <1>3, <1>6, EngineParts DEF Owned, Held
  <2>2. \A s \in Slot : ~Admitting(s)
    BY <1>2 DEF Admitting
  <2>3. q.sequence \in Slot => active[q.sequence]
    BY <1>3, EngineParts, Resident DEF Held
  <2> QED BY <1>2, <1>3, <1>6, <1>7, <2>1, <2>2, <2>3 DEF Becomes
<1>9. /\ DOMAIN requests' = DOMAIN requests
      /\ \A j \in DOMAIN requests :
           /\ requests'[j].ticket = requests[j].ticket /\ requests'[j].tokens = requests[j].tokens
           /\ requests'[j].prompt = requests[j].prompt /\ requests'[j].maximum = requests[j].maximum
           /\ requests'[j].salt = requests[j].salt /\ requests'[j].state = requests[j].state
           /\ requests'[j].sequence = requests[j].sequence /\ requests'[j].uses = requests[j].uses
           /\ requests'[j].samples = requests[j].samples
  BY <1>3, <1>6, <1>8, EngineParts, Updated
<1>10. CacheInv(Tenant, Token)'
  BY <1>2, EngineParts, StillCacheInv
<1>11. Base'
  <2>1. Live(i)' => Shape(i)'
    BY <1>9, EngineParts DEF Live, Shape, Generated
  <2> QED BY <1>2, <1>8, <1>10, <2>1, EngineParts, BaseUpdate
<1>12. ~failed => Standing' /\ Lifetime'
  <2>1. SUFFICES ASSUME ~failed PROVE Standing' /\ Lifetime'
    OBVIOUS
  <2>2. Standing /\ Lifetime
    BY <2>1, EngineParts DEF Stepwise
  <2>3. \A j \in DOMAIN requests : Stands(j) => Steady(j)
    BY <1>2, <2>2, AllSteady DEF Running, Posting
  <2>4. Standing'
    BY <1>2, <1>9, <2>3 DEF Standing, Stands, Held, Steady, Extent, Past, History
  <2>5. Lifetime'
    BY <1>2, <1>9, <2>2 DEF Lifetime, Stands, Held, Space, Phase, PeakKVExtent
  <2> QED BY <2>4, <2>5
<1>13. ~failed => Selected'
  BY <1>2, EngineParts, StillSelected DEF Stepwise, Selected, Still
<1>14. Calling'
  BY <1>2, CallingNone
<1>15. Fifo'
  <2>1. ResidentsOlderThanWaiters' /\ NewestPrefill'
    BY <1>9, EngineParts, OrderKept DEF Held
  <2> QED BY <1>2, <2>1, FifoOutside DEF Still
<1>16. Rows'
  <2>1. Quiet /\ KeepRows
    BY <1>2, <1>10, EngineParts, ManagerQuiet, StillRows DEF CacheInv, Rows
  <2> QED BY <1>2, <1>9, <1>10, <2>1, EngineParts, RowsKept DEF Held
<1>17. Synchronous'
  BY <1>2, <1>9, EngineParts, SyncKept DEF Synchronous
<1> QED BY <1>2, <1>11, <1>12, <1>13, <1>14, <1>15, <1>16, <1>17, EngineParts DEF EngineInv, Core, Stepwise
-----------------------------------------------------------------------------
(* A prompt is made of tokens.                                             *)
LEMMA PromptIsTokens ==
  ASSUME NEW prompt \in Prompts
  PROVE  prompt \in Seq(Token)
<1> DEFINE words == UNION {Range(p) : p \in Prompts}
<1>1. prompt \in Seq(words)
  BY HostAssumption
<1>2. words \subseteq Token
  BY DEF Token
<1> HIDE DEF words
<1> QED BY <1>1, <1>2

(* A slot for a new request: a further one, or one that has finished.      *)
Placed(i, r) ==
  /\ requests' \in Seq(RequestType) /\ i \in DOMAIN requests' /\ requests'[i] = r
  /\ DOMAIN requests \subseteq DOMAIN requests'
  /\ \A j \in DOMAIN requests' : j # i => j \in DOMAIN requests /\ requests'[j] = requests[j]
  /\ i \in DOMAIN requests => ~Live(i)

(* That is where the request goes.                                         *)
LEMMA RequestPlaced ==
  ASSUME requests \in Seq(RequestType), NEW r \in RequestType, PlaceRequest(r)
  PROVE  \E i : Placed(i, r)
<1>1. CASE FinishedSlots = {}
  <2>1. requests' = Append(requests, r)
    BY <1>1 DEF PlaceRequest
  <2>2. /\ requests' \in Seq(RequestType) /\ Len(requests') = Len(requests) + 1
        /\ requests'[Len(requests) + 1] = r /\ Len(requests) \in Nat
        /\ \A j \in 1..Len(requests) : requests'[j] = requests[j]
    BY <2>1, AppendProperties
  <2>3. DOMAIN requests = 1..Len(requests) /\ DOMAIN requests' = 1..(Len(requests) + 1)
    BY <2>2
  <2> QED BY <2>2, <2>3 DEF Placed
<1>2. CASE FinishedSlots # {}
  <2>1. PICK i \in FinishedSlots : requests' = [requests EXCEPT ![i] = r]
    BY <1>2 DEF PlaceRequest
  <2>2. i \in DOMAIN requests /\ ~Live(i)
    BY DEF FinishedSlots
  <2>3. /\ requests' \in Seq(RequestType) /\ DOMAIN requests' = DOMAIN requests
        /\ requests'[i] = r
        /\ \A j \in DOMAIN requests : j # i => requests'[j] = requests[j]
    BY <2>1, <2>2, UpdateOne
  <2> QED BY <2>2, <2>3 DEF Placed
<1> QED BY <1>1, <1>2

(* A new request waits behind all others.                                  *)
LEMMA AddOK ==
  ASSUME EngineInv, NEW id \in Ids, NEW prompt \in Prompts, NEW maximum \in Outputs,
         NEW salt \in Salts, Add(id, prompt, maximum, salt)
  PROVE  EngineInv'
<1>1. PICK r : r = [id |-> id, ticket |-> nextTicket, tokens |-> prompt, prompt |-> Len(prompt),
                    maximum |-> maximum, salt |-> salt, state |-> WAITING, sequence |-> 0,
                    abort |-> FALSE, uses |-> 0, samples |-> 0]
  OBVIOUS
<1>2. /\ step.phase = "idle" /\ call = Idle /\ call.op = "none" /\ ~failed
      /\ Len(prompt) + maximum <= MaxLength /\ prompt # <<>> /\ nextTicket' = nextTicket + 1
      /\ UNCHANGED <<vars, cacheVars, image, mode, step, failed>>
      /\ UNCHANGED <<entries, call, active, tables, lengths, reserved, enqueued>>
  BY DEF Add, Idling, Phase, Idle, vars, cacheVars
<1>3. PlaceRequest(r)
  BY <1>1 DEF Add
<1>4. prompt \in Seq(Token) /\ maximum \in Nat /\ nextTicket \in Nat /\ Len(prompt) \in Nat
      /\ Len(prompt) >= 1
  <2>1. prompt \in Seq(Token) /\ maximum \in Nat /\ nextTicket \in Nat
    BY PromptIsTokens, HostAssumption, EngineParts DEF Tickets
  <2> QED BY <1>2, <2>1, EmptySeq
<1>5. /\ r \in RequestType /\ r.ticket = nextTicket /\ r.tokens = prompt /\ r.prompt = Len(prompt)
      /\ r.maximum = maximum /\ r.state = WAITING /\ r.sequence = 0 /\ r.uses = 0 /\ r.samples = 0
  <2>1. 0 \in 0..MaxSlots
    BY GeometryAssumption
  <2> QED BY <1>1, <1>4, <2>1 DEF RequestType, Tenant
<1>6. PICK i : Placed(i, r)
  BY <1>3, <1>5, EngineParts, RequestPlaced
<1>7. /\ requests' \in Seq(RequestType) /\ i \in DOMAIN requests' /\ requests'[i] = r
      /\ DOMAIN requests \subseteq DOMAIN requests'
      /\ \A j \in DOMAIN requests' : j # i => j \in DOMAIN requests /\ requests'[j] = requests[j]
      /\ i \in DOMAIN requests => ~Live(i) /\ ~Held(i)
  BY <1>6, StateAt DEF Placed, Live
<1>8. CacheInv(Tenant, Token)'
  BY <1>2, EngineParts, StillCacheInv
<1>9. \A j \in DOMAIN requests' : Held(j)' => j # i /\ j \in DOMAIN requests /\ Held(j) /\ Same(j)
  BY <1>2, <1>5, <1>7 DEF Held, Same
<1>10. Base'
  <2>1. Tickets'
    <3>1. \A j \in DOMAIN requests : requests[j].ticket \in Nat /\ requests[j].ticket < nextTicket
      BY EngineParts, RequestAt DEF Tickets
    <3>2. \A j, k \in DOMAIN requests : requests[j].ticket = requests[k].ticket => j = k
      BY EngineParts DEF Tickets
    <3>3. \A j \in DOMAIN requests' : j # i => j \in DOMAIN requests
            /\ requests'[j].ticket = requests[j].ticket /\ requests'[j].ticket \in Nat
            /\ requests'[j].ticket < nextTicket
      BY <1>7, <3>1
    <3>4. requests'[i].ticket = nextTicket
      BY <1>5, <1>7
    <3>5. \A j \in DOMAIN requests' : requests'[j].ticket < nextTicket'
      BY <1>2, <1>4, <3>3, <3>4
    <3>6. \A j, k \in DOMAIN requests' : requests'[j].ticket = requests'[k].ticket => j = k
      BY <1>4, <3>2, <3>3, <3>4
    <3> QED BY <1>2, <1>4, <3>5, <3>6 DEF Tickets
  <2>2. \A j \in DOMAIN requests' : Live(j)' => Shape(j)'
    <3>1. \A j \in DOMAIN requests' : j # i /\ Live(j)' => Shape(j)'
      BY <1>7, EngineParts, SameShape
    <3>2. Shape(i)'
      <4>1. Generated(i)' = 0
        BY <1>4, <1>5, <1>7 DEF Generated
      <4>2. /\ requests'[i].tokens = prompt /\ requests'[i].prompt = Len(prompt)
            /\ requests'[i].maximum = maximum /\ requests'[i].state = WAITING
            /\ requests'[i].uses = 0 /\ requests'[i].samples = 0
        BY <1>5, <1>7
      <4> QED BY <1>2, <1>4, <4>1, <4>2 DEF Shape
    <3> QED BY <3>1, <3>2
  <2>3. Owned'
    <3>1. \A j \in DOMAIN requests' : Held(j)' <=> requests'[j].state \in {PREFILL, DECODE, DRAINING}
      BY <1>5, <1>7, EngineParts DEF Owned, Held
    <3>2. \A s : ~Admitting(s)' /\ ~Admitting(s)
      BY <1>2 DEF Admitting
    <3>3. \A j \in DOMAIN requests' : Held(j)' =>
            active'[requests'[j].sequence] /\ requests'[j].sequence = requests[j].sequence
      BY <1>2, <1>7, <1>9, EngineParts, Resident
    <3>4. \A j, k \in DOMAIN requests' :
            Held(j)' /\ requests'[j].sequence = requests'[k].sequence => j = k
      BY <1>5, <1>7, <1>9, EngineParts DEF Owned, Held
    <3>5. \A s \in Slot : active'[s] => \E j \in DOMAIN requests' : requests'[j].sequence = s
      <4> SUFFICES ASSUME NEW s \in Slot, active'[s]
                   PROVE  \E j \in DOMAIN requests' : requests'[j].sequence = s
        OBVIOUS
      <4>1. PICK j \in DOMAIN requests : requests[j].sequence = s
        BY <1>2, <3>2, EngineParts DEF Owned
      <4>2. j # i /\ j \in DOMAIN requests'
        BY <1>7, <4>1 DEF Held
      <4> QED BY <1>7, <4>1, <4>2
    <3>6. call'.op # "reserve"
      BY <1>2
    <3> QED BY <3>1, <3>3, <3>4, <3>5, <3>6 DEF Owned, Admitting
  <2> QED BY <1>2, <1>7, <1>8, <2>1, <2>2, <2>3, EngineParts DEF Base, Roster
<1>11. Standing' /\ Lifetime'
  <2>1. \A j \in DOMAIN requests' : Stands(j)' => j \in DOMAIN requests /\ Same(j)
    BY <1>9 DEF Stands
  <2> QED BY <1>2, <2>1, EngineParts, StandAgain DEF Running, Posting
<1>12. Selected'
  BY <1>2, EngineParts, StillSelected DEF Stepwise, Selected, Still
<1>13. Calling'
  BY <1>2, CallingNone
<1>14. Fifo'
  <2>1. \A j \in DOMAIN requests : requests[j].ticket < nextTicket
    BY EngineParts DEF Tickets
  <2>2. ResidentsOlderThanWaiters'
    BY <1>5, <1>7, <1>9, <2>1, EngineParts DEF ResidentsOlderThanWaiters, Held
  <2>3. NewestPrefill'
    BY <1>5, <1>7, <1>9, EngineParts DEF NewestPrefill, Held
  <2> QED BY <1>2, <2>2, <2>3, FifoOutside DEF Still
<1>15. Rows'
  <2>1. Quiet /\ KeepRows
    BY <1>2, <1>8, EngineParts, ManagerQuiet, StillRows DEF CacheInv, Rows
  <2> QED BY <1>2, <1>7, <1>8, <1>9, <2>1, EngineParts, RowsKept
<1>16. Synchronous'
  BY <1>2, <1>5, <1>7, EngineParts, SyncKept DEF Synchronous
<1> QED BY <1>2, <1>10, <1>11, <1>12, <1>13, <1>14, <1>15, <1>16, EngineParts DEF EngineInv, Core, Stepwise
=============================================================================
