--------------------------- MODULE EngineScheduler ---------------------------
(***************************************************************************)
(* Requests and scheduling of the serving engine (serving/engine.mojo):    *)
(* admission to the queue, aborts, finishing, and one pass of _schedule    *)
(* with _make_room and _schedule_prefill.                                  *)
(*                                                                         *)
(* The engine is single-threaded.  One call of step runs through many      *)
(* calls on the block manager and the prefix index, and each of those is   *)
(* one step of the model; `step.phase' is where the call stands, and only  *)
(* in phase "idle" can the host do anything else.  The phases follow the   *)
(* code's statements; none of them can be skipped.                         *)
(*                                                                         *)
(* Asynchronous stepping shares this module: `uses' and `samples' of a     *)
(* request count its steps and its selected tokens still outstanding, and  *)
(* are 0 as long as stepping is synchronous.                               *)
(***************************************************************************)
EXTENDS KVRows

CONSTANTS
  Modes,          (* configurations [mixed, lifetime, prefix]              *)
  TokenBudget,    (* rows of one step                                      *)
  MaxSequences,   (* sequences of one step                                 *)
  MaxRequests,    (* request slots                                         *)
  Watermark,      (* blocks an admission leaves free beside residents      *)
  PrefillCap,     (* active_prefill_cap, 0 when there is none              *)
  MaxTickets      (* bound: requests added in one behaviour                *)

ASSUME EngineAssumption ==
  /\ Modes \subseteq [mixed : BOOLEAN, lifetime : BOOLEAN, prefix : BOOLEAN]
  /\ {TokenBudget, MaxSequences, MaxRequests, MaxTickets} \subseteq Nat \ {0}
  /\ TokenBudget <= MaxLength
  /\ Watermark \in 0..Cardinality(Block)
  /\ PrefillCap \in Nat

WAITING  == "Waiting"
PREFILL  == "Prefill"
DECODE   == "Decode"
FINISHED == "Finished"
DRAINING == "Draining"

VARIABLES
  mode,           (* this engine's configuration, fixed                    *)
  requests,       (* request slots                                         *)
  nextTicket,     (* tickets given out so far                              *)
  step,           (* the step in progress                                  *)
  account,        (* per ticket: what its host asked for and was given     *)
  failed          (* the engine is permanently invalid                     *)

engineVars == <<mode, requests, nextTicket, step, account, failed>>
allVars    == <<vars, cacheVars, image, engineVars>>

Ticket == 1..MaxTickets

NoTarget == [index |-> 0, count |-> 0, needed |-> 0, from |-> "none", lost |-> FALSE]
NoStep   == [phase |-> "idle", chosen |-> <<>>, considered |-> {}, target |-> NoTarget, done |-> 0]

(* No request: a limit of -1 output tokens.                                *)
NoRequest == [maximum |-> -1, aborted |-> FALSE, tokens |-> <<>>, finish |-> <<>>]

EngineInit ==
  /\ Init /\ CacheInit /\ RowsInit
  /\ mode \in Modes
  /\ requests = <<>>
  /\ nextTicket = 1
  /\ step = NoStep
  /\ account = [t \in Ticket |-> NoRequest]
  /\ failed = FALSE

Phase(p) == step.phase = p
Goto(p)  == step' = [step EXCEPT !.phase = p]

Smaller(x, y) == IF x <= y THEN x ELSE y

PeakKVExtent(prompt, maximum) == IF maximum = 0 THEN 0 ELSE prompt + maximum - 1

Held(i)      == requests[i].sequence # 0
Generated(i) == Len(requests[i].tokens) - requests[i].prompt
HistoryByUse(i) == Len(requests[i].tokens) + requests[i].uses    (* Mutant. *)
History(i)   == Len(requests[i].tokens) + requests[i].samples
Past(i)      == lengths[requests[i].sequence]
Live(i)      == requests[i].state # FINISHED
HasResident  == \E i \in DOMAIN requests : Held(i)

(* Blocks a request lacks to hold `length' positions.                      *)
Needed(i, length) == CeilDiv(length, BlockSize) - Len(tables[requests[i].sequence])

(* Mutant: the first slot instead of the oldest ticket.                    *)
FirstSlot(state, excluded) ==
  LET candidates == {i \in DOMAIN requests : requests[i].state = state /\ i \notin excluded}
  IN  {i \in candidates : \A j \in candidates : i <= j}

Oldest(state, excluded) ==
  LET candidates == {i \in DOMAIN requests : requests[i].state = state /\ i \notin excluded}
  IN  {i \in candidates : \A j \in candidates : requests[i].ticket <= requests[j].ticket}
-----------------------------------------------------------------------------
(* The queue.  A finished slot is used again, under a new ticket.          *)
Idling == Phase("idle") /\ call = Idle

FinishedSlots == {i \in DOMAIN requests : ~Live(i)}

PlaceRequest(r) ==
  IF FinishedSlots = {}
  THEN Len(requests) < MaxRequests /\ requests' = Append(requests, r)
  ELSE \E i \in FinishedSlots :
         (\A j \in FinishedSlots : i <= j) /\ requests' = [requests EXCEPT ![i] = r]

Add(id, prompt, maximum, salt) ==
  /\ Idling /\ ~failed
  /\ prompt # <<>> /\ Len(prompt) + maximum <= MaxLength
  /\ CeilDiv(PeakKVExtent(Len(prompt), maximum), BlockSize) <= Cardinality(Block)
  /\ \A i \in DOMAIN requests : Live(i) => requests[i].id # id
  /\ nextTicket <= MaxTickets
  /\ PlaceRequest([id |-> id, ticket |-> nextTicket, tokens |-> prompt, prompt |-> Len(prompt),
                   maximum |-> maximum, salt |-> salt, state |-> WAITING, sequence |-> 0,
                   abort |-> FALSE, uses |-> 0, samples |-> 0])
  /\ nextTicket' = nextTicket + 1
  /\ account' = [account EXCEPT ![nextTicket].maximum = maximum]
  /\ UNCHANGED <<vars, cacheVars, image, mode, step, failed>>

Abort(id) ==
  /\ Idling
  /\ \E i \in DOMAIN requests :
       /\ requests[i].id = id /\ Live(i) /\ ~requests[i].abort
       /\ requests' = [requests EXCEPT ![i].abort = TRUE]
       /\ account' = IF requests[i].state = DRAINING THEN account    (* It has ended. *)
                     ELSE [account EXCEPT ![requests[i].ticket].aborted = TRUE]
  /\ UNCHANGED <<vars, cacheVars, image, mode, nextTicket, step, failed>>

(* _release and _finish.  A request with outstanding uses keeps its blocks *)
(* until they retire; its terminal event is given now, and only once.      *)
ReleaseHeld(i) == IF Held(i) THEN Detach(requests[i].sequence) ELSE UNCHANGED vars

RetiredHolding(r) == [r EXCEPT !.state = FINISHED]   (* Mutant: no reset.    *)

(* Nothing but its state is read from a finished slot again.               *)
Retired(r) == [r EXCEPT !.state = FINISHED, !.sequence = 0, !.tokens = <<>>, !.prompt = 0,
                        !.maximum = 0, !.abort = FALSE]

FinishedWith(i, reason) ==
  [account EXCEPT ![requests[i].ticket].finish = Append(@, reason)]

CloseRequest(i) ==
  IF requests[i].uses > 0
  THEN /\ requests' = [requests EXCEPT ![i].state = DRAINING]
       /\ UNCHANGED vars
  ELSE /\ requests' = [requests EXCEPT ![i] = Retired(@)]
       /\ ReleaseHeld(i)

Finish(i, reason) ==
  /\ CloseRequest(i)
  /\ account' = FinishedWith(i, reason)
  /\ KeepRows
  /\ UNCHANGED <<cacheVars, mode, nextTicket>>

(* The step boundary finishes aborted and empty requests, in slot order.   *)
Due == {i \in DOMAIN requests :
          /\ requests[i].state \notin {FINISHED, DRAINING}
          /\ requests[i].abort \/ requests[i].maximum = 0}

BoundaryFinish ==
  /\ Phase("boundary")
  /\ \E i \in Due :
       /\ \A j \in Due : i <= j
       /\ Finish(i, IF requests[i].abort THEN "abort" ELSE "length")
  /\ UNCHANGED <<step, failed>>

(* A standalone prefill goes before the decodes, a mixed one after them.   *)
FirstPass == IF mode.mixed THEN "decode" ELSE "prefill"

BoundaryDone ==
  /\ Phase("boundary") /\ Due = {}
  /\ Goto(FirstPass)
  /\ UNCHANGED <<vars, cacheVars, image, mode, requests, nextTicket, account, failed>>
-----------------------------------------------------------------------------
(* _schedule.  Decodes are considered oldest first while rows and          *)
(* sequences last; one already promised its last token is passed over.     *)
RowsLeft      == TokenBudget - Len(step.chosen)
SequenceLeft  == Len(step.chosen) < MaxSequences
AfterDecode   == IF mode.mixed THEN "prefill" ELSE "build"
NoPrefill     == IF mode.mixed THEN "build" ELSE "decode"
ChosenSlots   == {step.chosen[k].index : k \in DOMAIN step.chosen}
DecodeChoices == IF RowsLeft > 0 /\ SequenceLeft THEN Oldest(DECODE, step.considered) ELSE {}

OnlyStep == UNCHANGED <<vars, cacheVars, image, mode, requests, nextTicket, account, failed>>

Target(i, count, from) ==
  [index |-> i, count |-> count, needed |-> Needed(i, Past(i) + count), from |-> from, lost |-> FALSE]

DecodePick ==
  /\ Phase("decode")
  /\ \E i \in DecodeChoices :
       IF Generated(i) + requests[i].samples >= requests[i].maximum
       THEN step' = [step EXCEPT !.considered = @ \cup {i}]
       ELSE step' = [step EXCEPT !.phase = "room", !.considered = @ \cup {i},
                                 !.target = Target(i, 1, "decode")]
  /\ OnlyStep

DecodeDone ==
  /\ Phase("decode") /\ DecodeChoices = {}
  /\ Goto(AfterDecode)
  /\ OnlyStep

(* _make_room for the target.  A lifetime reservation already has it.      *)
(* Otherwise idle cache goes first, then the newest holder not yet chosen, *)
(* which may be the target itself: then it has lost its turn.              *)
WantedLength == Past(step.target.index) + step.target.count

Short       == step.target.needed > Len(free)
IdleVictims == IF mode.prefix THEN Victims({}) ELSE {}

Preemptible ==
  {i \in DOMAIN requests : Held(i) /\ requests[i].uses = 0 /\ i \notin ChosenSlots}
OldestOf(S) == {i \in S : \A j \in S : requests[i].ticket <= requests[j].ticket}  (* Mutant. *)
Newest(S) == {i \in S : \A j \in S : requests[j].ticket <= requests[i].ticket}

Choose(i, count) == Append(step.chosen, [index |-> i, count |-> count])

RoomTaken ==
  [step EXCEPT !.phase = IF step.target.from = "decode" THEN "decode" ELSE "build",
               !.chosen = Choose(step.target.index, step.target.count),
               !.target = NoTarget]

RoomOwned ==
  /\ Phase("room") /\ mode.lifetime
  /\ WantedLength <= reserved[requests[step.target.index].sequence]
  /\ step' = RoomTaken
  /\ OnlyStep

RoomReclaim ==
  /\ Phase("room") /\ ~mode.lifetime /\ Short
  /\ \E k \in IdleVictims : Evict(k)
  /\ KeepRows
  /\ UNCHANGED <<clock, call, engineVars>>

RoomPreempt ==
  /\ Phase("room") /\ ~mode.lifetime /\ Short /\ IdleVictims = {} /\ ~step.target.lost
  /\ \E i \in Newest(Preemptible) :
       /\ Detach(requests[i].sequence)
       /\ requests' = [requests EXCEPT ![i].sequence = 0, ![i].state = WAITING]
       /\ step' = [step EXCEPT !.target.lost = (i = step.target.index)]
  /\ KeepRows
  /\ UNCHANGED <<cacheVars, mode, nextTicket, account, failed>>

RoomReserve ==
  /\ Phase("room") /\ ~mode.lifetime /\ ~Short /\ ~step.target.lost
  /\ Reserve(requests[step.target.index].sequence, WantedLength)
  /\ step' = RoomTaken
  /\ KeepRows
  /\ UNCHANGED <<cacheVars, mode, requests, nextTicket, account, failed>>

(* Mutant: it always replays itself at once.                               *)
RoomLostReplays ==
  /\ Phase("room") /\ step.target.lost /\ (Short => IdleVictims = {})
  /\ step' = [step EXCEPT !.target = NoTarget,
       !.phase = IF step.target.from = "prefill" THEN "admit" ELSE "decode"]
  /\ OnlyStep

(* A mixed prefill that lost its blocks makes way for the oldest waiting   *)
(* request; a standalone one gives the decodes their turn.                 *)
RoomLost ==
  /\ Phase("room") /\ step.target.lost /\ (Short => IdleVictims = {})
  /\ step' = [step EXCEPT !.target = NoTarget,
       !.phase = IF step.target.from = "prefill" /\ mode.mixed THEN "admit" ELSE "decode"]
  /\ OnlyStep
-----------------------------------------------------------------------------
(* _schedule_prefill: one more chunk of the request in prefill, or else    *)
(* the oldest waiting request, which nobody may overtake.                  *)
PrefillCount(i, past) ==
  LET count == Smaller(RowsLeft, History(i) - past)
  IN  IF PrefillCap > 0 /\ step.chosen # <<>> THEN Smaller(count, PrefillCap) ELSE count

PrefillPick ==
  /\ Phase("prefill") /\ RowsLeft >= 1 /\ SequenceLeft
  /\ \E i \in Oldest(PREFILL, {}) :
       step' = [step EXCEPT !.phase = "room", !.target = Target(i, PrefillCount(i, Past(i)), "prefill")]
  /\ OnlyStep

PrefillNone ==
  /\ Phase("prefill") /\ RowsLeft >= 1 /\ SequenceLeft
  /\ Oldest(PREFILL, {}) = {}
  /\ Goto("admit")
  /\ OnlyStep

PrefillSkip ==
  /\ Phase("prefill") /\ ~(RowsLeft >= 1 /\ SequenceLeft)
  /\ Goto(NoPrefill)
  /\ OnlyStep

(* What admitting request i would take.  Without prefix caching nothing    *)
(* matches and nothing is reclaimable.                                     *)
CachedPrefix(i) == IF mode.prefix THEN Match(requests[i].tokens, requests[i].salt) ELSE <<>>

ChosenOnly == step.chosen # <<>>   (* Mutant: unselected residents are none. *)
Residents == IF mode.lifetime THEN HasResident ELSE step.chosen # <<>>
Margin    == IF Residents THEN Watermark ELSE 0

Available(cached) == Larger(Len(free) + Reclaimable(Range(cached)) - Margin, 0)

AdmissionCount(i, cached) ==
  LET count == PrefillCount(i, Len(cached) * BlockSize)
  IN  IF mode.lifetime THEN count ELSE Smaller(count, Available(cached) * BlockSize)

AdmissionExtent(i, cached) ==
  IF mode.lifetime THEN PeakKVExtent(requests[i].prompt, requests[i].maximum)
  ELSE Len(cached) * BlockSize + AdmissionCount(i, cached)

Admissible(i, cached) ==
  /\ AdmissionCount(i, cached) >= 1
  /\ mode.lifetime =>
       CeilDiv(AdmissionExtent(i, cached), BlockSize) - Len(cached) <= Available(cached)

(* The oldest waiting request, admissible or not.                          *)
NextWaiting == Oldest(WAITING, {})

(* Without prefix caching the request gets an empty sequence, then blocks. *)
AdmitPlain ==
  /\ Phase("admit") /\ ~mode.prefix
  /\ \E i \in NextWaiting, s \in Slot :
       /\ Admissible(i, <<>>)
       /\ Attach(s, <<>>)
       /\ requests' = [requests EXCEPT ![i].sequence = s, ![i].state = PREFILL]
       /\ step' = [step EXCEPT !.phase = "reserve", !.target =
            [NoTarget EXCEPT !.index = i, !.count = AdmissionCount(i, <<>>)]]
  /\ KeepRows
  /\ UNCHANGED <<cacheVars, mode, nextTicket, account, failed>>

Admitted ==
  [step EXCEPT !.phase = "build", !.target = NoTarget,
               !.chosen = Choose(step.target.index, step.target.count)]

AdmitBlocks ==
  /\ Phase("reserve")
  /\ LET i == step.target.index
     IN  Reserve(requests[i].sequence,
                 IF mode.lifetime THEN PeakKVExtent(requests[i].prompt, requests[i].maximum)
                 ELSE step.target.count)
  /\ step' = Admitted
  /\ KeepRows
  /\ UNCHANGED <<cacheVars, mode, requests, nextTicket, account, failed>>

(* With it, the index admits the request over its longest cached prefix.   *)
AdmitBegin ==
  /\ Phase("admit") /\ mode.prefix /\ call = Idle
  /\ \E i \in NextWaiting :
       LET cached == CachedPrefix(i)
       IN  /\ Admissible(i, cached)
           /\ BeginAdmit(cached, AdmissionExtent(i, cached), Margin)
           /\ step' = [step EXCEPT !.target =
                [NoTarget EXCEPT !.index = i, !.count = AdmissionCount(i, cached)]]
  /\ UNCHANGED <<image, mode, requests, nextTicket, account, failed>>

AdmitRefuse ==
  /\ Phase("admit") /\ call = Idle
  /\ \A i \in NextWaiting : ~Admissible(i, CachedPrefix(i))
  /\ Goto(NoPrefill)
  /\ OnlyStep

AdmitReclaim ==
  /\ call.op = "admit" /\ ReclaimOne
  /\ KeepRows
  /\ UNCHANGED engineVars

AdmitSequence ==
  /\ \E s \in Slot : AdmitAttach(s)
  /\ KeepRows
  /\ UNCHANGED engineVars

AdmitChoose ==
  /\ AdmitReserve
  /\ requests' = [requests EXCEPT ![step.target.index].sequence = call.sequence,
                                  ![step.target.index].state = PREFILL]
  /\ step' = Admitted
  /\ KeepRows
  /\ UNCHANGED <<mode, nextTicket, account, failed>>

Schedule ==
  \/ DecodePick \/ DecodeDone
  \/ RoomOwned \/ RoomReclaim \/ RoomPreempt \/ RoomReserve \/ RoomLost
  \/ PrefillPick \/ PrefillNone \/ PrefillSkip
  \/ AdmitPlain \/ AdmitBlocks
  \/ AdmitBegin \/ AdmitRefuse \/ AdmitReclaim \/ AdmitSequence \/ AdmitChoose
-----------------------------------------------------------------------------
(* check(), between steps: a live sequence has exactly one request, a      *)
(* request holds one exactly in the running states, a lifetime reservation *)
(* is owned in full, and a decode has cached all but its last token.       *)
RequestsConsistent ==
  Idling =>
    /\ \A s \in Slot :
         Cardinality({i \in DOMAIN requests : requests[i].sequence = s}) = IF active[s] THEN 1 ELSE 0
    /\ \A i \in DOMAIN requests :
         /\ Held(i) <=> requests[i].state \in {PREFILL, DECODE, DRAINING}
         /\ Live(i) => /\ Generated(i) + requests[i].samples <= requests[i].maximum
                       /\ requests[i].samples <= requests[i].uses
         /\ Held(i) =>
              /\ Past(i) <= History(i)
              /\ requests[i].state = DECODE => Past(i) = History(i) - 1
              /\ mode.lifetime => reserved[requests[i].sequence] =
                   PeakKVExtent(requests[i].prompt, requests[i].maximum)

(* Every row any request would attend to, and every cached row, was        *)
(* computed from exactly that history: through preemption and replay,      *)
(* sharing, eviction and reuse of blocks.                                  *)
KVCorrect ==
  /\ \A i \in DOMAIN requests : Held(i) => HoldsHistory(requests[i].sequence, requests[i].tokens)
  /\ \A k \in DOMAIN entries : EntryRows(entries[k])

(* FIFO: no request holds blocks while an older one waits for its first or *)
(* its next turn, however often requests were preempted and admitted.      *)
ResidentsOlderThanWaiters ==
  \A i, j \in DOMAIN requests :
    Held(i) /\ requests[j].state = WAITING => requests[i].ticket < requests[j].ticket

(* Preemption "preserves progress of the oldest request": the oldest live  *)
(* request, once resident, gives its blocks up only by finishing.          *)
OldestKeepsBlocks ==
  [][\A i \in DOMAIN requests :
       Held(i) /\ (\A j \in DOMAIN requests : Live(j) => requests[i].ticket <= requests[j].ticket)
         => requests'[i].sequence = requests[i].sequence \/ requests'[i].state = FINISHED]_allVars

(* "The conservative margin applies while any request resides, even if     *)
(* none was selected": an admission beside a resident leaves the watermark.*)
WatermarkKept ==
  [][\A j \in DOMAIN requests :
       (Phase("reserve") \/ call.op = "reserve") /\ Held(j) /\ j # step.target.index
         => Len(free') >= Watermark]_allVars

(* Scheduling never reaches one of the code's internal errors: a step that *)
(* exceeds a lifetime reservation, or a shortage with nobody to preempt.   *)
ScheduleNeverRaises ==
  Phase("room") =>
    IF mode.lifetime THEN WantedLength <= reserved[requests[step.target.index].sequence]
    ELSE Short /\ IdleVictims = {} /\ ~step.target.lost => Preemptible # {}
=============================================================================
