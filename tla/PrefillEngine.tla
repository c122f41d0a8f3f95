---------------------------- MODULE PrefillEngine ----------------------------
(***************************************************************************)
(* The engine as the prefill studies run it: synchronous, mixed, reserving *)
(* a request's lifetime, with prefix caching and no watermark, under one   *)
(* of the prefill policies (serving/engine.mojo).                          *)
(*                                                                         *)
(* Nothing runs beside a step, so scheduling is one action, each selected  *)
(* request's results another, and the end of the step a third; arrivals    *)
(* and aborts come between steps.  EngineScheduler and EngineSync have the *)
(* calls inside a step; here are the policies' decisions, which depend on  *)
(* the blocks, and what the step records of them.                          *)
(***************************************************************************)
EXTENDS PrefillTrace

VARIABLES
  requests,   \* [state, tokens, abort]
  table,      \* per request: its blocks, cached prefix first
  length,     \* per request: tokens in its KV
  entries,    \* the prefix index, oldest entry first: [key, block, stamp]
  clock,
  cohort,     \* the frozen forecast, NoCohort between busy periods
  prefix,     \* the cached blocks it was frozen over
  nextCohort,
  pending,    \* forecast events not recorded yet
  stage,      \* "idle", "boundary", "results"
  selected,   \* the step's requests whose results are still to be applied
  record,     \* what the step has recorded
  caps        \* admissions capped since the forecast was frozen (history)
engineVars == <<requests, table, length, entries, clock, cohort, prefix, nextCohort, pending,
                stage, selected>>
vars == <<traceVars, engineVars, record, caps>>

ABSENT   == "Absent"      \* not submitted yet
WAITING  == "Waiting"
PREFILL  == "Prefill"
DECODE   == "Decode"
FINISHED == "Finished"

Submitted(i) == [state |-> WAITING, tokens |-> Prompt(i), abort |-> FALSE]

Init ==
  /\ TraceInit
  /\ requests = [i \in Requests |-> [Submitted(i) EXCEPT !.state = IF i = 0 THEN WAITING ELSE ABSENT]]
  /\ table = [i \in Requests |-> <<>>] /\ length = [i \in Requests |-> 0]
  /\ entries = <<>> /\ clock = 0
  /\ cohort = NoCohort /\ prefix = <<>> /\ nextCohort = 0
  /\ pending = <<>> /\ stage = "idle" /\ selected = <<>> /\ record = NoRecord /\ caps = 0

Live         == {i \in Requests : requests[i].state \notin {ABSENT, FINISHED}}
InState(st)  == {i \in Requests : requests[i].state = st}
Generated(i) == Len(requests[i].tokens) - Len(Prompt(i))
Readers(b)   == {i \in Requests : b \in Range(table[i])}
Registered   == {entries[k].block : k \in DOMAIN entries}
FreeBlocks   == {b \in 1..cell.pool : Readers(b) = {} /\ b \notin Registered}
Idle(kept)   == {k \in DOMAIN entries : Readers(entries[k].block) = {} /\ entries[k].block \notin kept}

CeilDiv(n, d) == (n + d - 1) \div d
PeakExtent(i) == IF Maximum(i) = 0 THEN 0 ELSE Len(Prompt(i)) + Maximum(i) - 1
-----------------------------------------------------------------------------
(* match: the longest run of resident full blocks, the last token left.    *)
Indexed(tokens, n) == {k \in DOMAIN entries : entries[k].key = SubSeq(tokens, 1, n * BlockSize)}

Match(tokens) ==
  LET longest == Max({n \in 0..((Len(tokens) - 1) \div BlockSize) :
                        \A b \in 1..n : Indexed(tokens, b) # {}})
  IN  [b \in 1..longest |-> entries[Min(Indexed(tokens, b))].block]

(* _prefill_count, with the fixed cap of one block in its study arm.       *)
PrefillCount(i, budget, past, decodes) ==
  LET count == Least(budget, Len(requests[i].tokens) - past)
  IN  IF Policy = "fixed" /\ decodes # <<>> THEN Least(count, BlockSize) ELSE count

Oldest(S) == {i \in S : \A j \in S : i <= j}
-----------------------------------------------------------------------------
(* _freeze_frequency and _frequency_admission.                             *)
ThresholdOf(gaps) ==
  IF gaps < 1 THEN 0
  ELSE gaps - (((gaps - 1) \div 20) * 19 + (((gaps - 1) % 20) * 19) \div 20)

PrivateKey(i, cached) ==
  SubSeq(requests[i].tokens, Len(cached) * BlockSize + 1, (Len(cached) + 1) * BlockSize)

Like(i, anchor, cached) ==
  /\ Len(Prompt(i)) = Len(Prompt(anchor)) /\ Maximum(i) = Maximum(anchor)
  /\ i = anchor \/ Match(requests[i].tokens) = cached

(* Mutant: compatible requests behind an incompatible one count too.       *)
SameAnywhere(queue, cached) == SelectSeq(queue, LAMBDA i : Like(i, queue[1], cached))

(* The waiting requests from the anchor on that look like it.              *)
SameRun(queue, cached) ==
  SelectSeq(queue, LAMBDA i : \A j \in Range(queue) : j <= i => Like(j, queue[1], cached))

Repeats(queue, cached, i) ==
  \E j \in Range(queue) : j < i /\ PrivateKey(j, cached) = PrivateKey(i, cached)

Freeze(i, cached, available, required) ==
  LET queue     == Ascending(InState(WAITING))
      gaps      == FoldSeq(LAMBDA j, sum : sum + Most(Maximum(j) - 1, 0), 0, queue)
      past      == Len(cached) * BlockSize
      remaining == Len(Prompt(i)) - past
      refusal   == FirstReason(<<
        <<\E j \in Requests : table[j] # <<>>, "incompatible_initial_state">>,
        <<remaining < BlockSize + 1 \/ remaining > 2 * BlockSize, "tail_length">>,
        <<Maximum(i) < 3, "output_limit">>,
        <<TokenBudget < remaining + 1, "row_budget">>,
        <<MaxSequences < 3, "sequence_slots">>,
        <<required <= 0 \/ (cell.pool - Len(cached)) \div Most(required, 1) # 2, "geometry">>,
        <<gaps = 0, "zero_gap_budget">> >>, "none")
      same      == IF refusal = "none" THEN SameRun(queue, cached) ELSE <<>>
      run       == SelectSeq(same, LAMBDA j : \A k \in Range(same) : k <= j => ~Repeats(queue, cached, k))
      valid     == refusal = "none" /\ run = same
      predicted == Most(Len(run) - 1, 0)
      dense     == valid /\ predicted >= ThresholdOf(gaps)
  IN  [id |-> nextCohort, anchor |-> i, members |-> queue, run |-> run, gaps |-> gaps,
       predicted |-> predicted, threshold |-> ThresholdOf(gaps), past |-> past,
       remaining |-> remaining, maximum |-> Maximum(i), required |-> required,
       valid |-> valid, dense |-> dense,
       reason |-> IF refusal # "none" THEN refusal ELSE IF ~valid THEN "duplicate_private_key"
                  ELSE IF dense THEN "dense" ELSE "sparse"]

Event(c, i, kind, when, reason) ==
  [cohort |-> c.id, request |-> i, kind |-> kind, when |-> when, reason |-> reason]

Invalidated(c, reason) == IF c.valid THEN [c EXCEPT !.valid = FALSE, !.reason = reason] ELSE c
Announced(c, i, when, reason) ==
  IF c.valid THEN <<Event(c, i, "invalidated", when, reason)>> ELSE <<>>

Unchanged(c, over, i, cached, required) ==
  /\ Len(cached) * BlockSize = c.past /\ Len(Prompt(i)) - c.past = c.remaining
  /\ Maximum(i) = c.maximum /\ required = c.required
  /\ cached = over
  /\ SubSeq(requests[i].tokens, 1, c.past) = SubSeq(Prompt(c.anchor), 1, c.past)

Permit(c, i) ==
  LET member == Contains(c.members, i)
      inRun  == Contains(c.run, i)
  IN  [request |-> i, cohort |-> c.id, gaps |-> c.gaps, predicted |-> c.predicted,
       threshold |-> c.threshold, member |-> member, inRun |-> inRun, active |-> c.valid,
       dense |-> c.dense, allowed |-> c.valid /\ c.dense /\ inRun,
       reason |-> FirstReason(<<
         <<c.id < 0, "unfrozen">>, <<~c.valid, c.reason>>, <<~member, "not_member">>,
         <<~inRun, "outside_run">>, <<~c.dense, "sparse">> >>, "allowed")]
-----------------------------------------------------------------------------
(* _admission_prefill_count: the first chunk of an admission.              *)
AdmissionChunk(i, decodes, cached, required, available, count, allowed) ==
  LET budget    == TokenBudget - Len(decodes)
      past      == Len(cached) * BlockSize
      remaining == Len(Prompt(i)) - past
      baseline  == Least(budget, remaining)
      alone     == Len(decodes) = 1
      outputs   == IF alone THEN Maximum(decodes[1]) - Generated(decodes[1]) ELSE -1
      reason    == FirstReason(<<
        <<required > available, "admission_blocked">>,
        <<required <= 0, "no_private_blocks">>,
        <<~alone, "decode_count">>,
        <<outputs < 2, "incumbent_terminal">>,
        <<remaining < BlockSize + 1 \/ remaining > 2 * BlockSize, "tail_length">>,
        <<Len(decodes) + 1 >= MaxSequences, "last_sequence_slot">>,
        <<available - required >= required, "capacity_headroom">> >>, "adaptive_short_tail")
      eligible  == reason = "adaptive_short_tail"
      enabled   == Policy = "adaptive" \/ allowed
      capped    == eligible /\ enabled /\ baseline > BlockSize
      chosen    == IF required > available THEN 0 ELSE IF capped THEN Least(count, BlockSize) ELSE count
  IN  [request |-> i, past |-> past, free |-> Cardinality(FreeBlocks),
       reclaimable |-> Cardinality(Idle(Range(cached))), available |-> available,
       required |-> required, decodes |-> Len(decodes), incumbent |-> IF alone THEN decodes[1] ELSE -1,
       outputs |-> outputs, remaining |-> remaining, budget |-> budget, baseline |-> baseline,
       chosen |-> chosen, eligible |-> eligible, applied |-> capped /\ chosen < baseline,
       reason |-> IF ~eligible THEN reason
                  ELSE IF ~enabled THEN IF Policy = "frequency" THEN "frequency_fallback" ELSE "adaptive_disabled"
                  ELSE IF baseline <= BlockSize THEN "baseline_at_most_32" ELSE reason]

(* admit: the least recently used idle entries go until the private tail   *)
(* fits; the cached prefix is attached, protected and used again.          *)
Inserted(j, k) == j < k    (* Mutant: first in, first out.                 *)
Used(j, k) == entries[j].stamp < entries[k].stamp \/ (entries[j].stamp = entries[k].stamp /\ j < k)
Victims(kept, n) == SubSeq(Sorted(Idle(kept), Used), 1, n)

Admission(i, cached, required) ==
  LET victims == Victims(Range(cached), Most(required - Cardinality(FreeBlocks), 0))
      stays   == Ascending(DOMAIN entries \ Range(victims))
      room    == FreeBlocks \cup {entries[v].block : v \in Range(victims)}
  IN  [removed |-> [v \in DOMAIN victims |-> <<"removed", entries[victims[v]].key>>],
       entries |-> [k \in DOMAIN stays |->
                      IF Contains(cached, entries[stays[k]].block)
                      THEN [entries[stays[k]] EXCEPT !.stamp = clock + 1] ELSE entries[stays[k]]],
       table   |-> cached \o SubSeq(Ascending(room), 1, required)]
-----------------------------------------------------------------------------
(* Between steps: a late arrival disables the forecast, an abort is noted. *)
(* The boundary of the next step finishes aborted and empty requests.      *)
Arrive ==
  /\ phase = "measure" /\ stage = "idle"
  /\ \E i \in Oldest(InState(ABSENT)) :
       /\ requests' = [requests EXCEPT ![i] = Submitted(i)]
       /\ cohort' = Invalidated(cohort, "new_arrival")
       /\ pending' = pending \o Announced(cohort, i, "ingress", "new_arrival")
  /\ UNCHANGED <<traceVars, table, length, entries, clock, prefix, nextCohort, stage, selected, record,
                 caps>>

Abort(i) ==
  /\ phase = "measure" /\ stage = "idle" /\ ~Closed
  /\ i \in Live /\ ~requests[i].abort
  /\ requests' = [requests EXCEPT ![i].abort = TRUE]
  /\ UNCHANGED <<traceVars, table, length, entries, clock, cohort, prefix, nextCohort, pending, stage,
                 selected, record, caps>>

Due     == {i \in Live : requests[i].abort \/ Maximum(i) = 0}
Aborted == {i \in Due : requests[i].abort}
Ended(f, S, value) == [i \in Requests |-> IF i \in S THEN value ELSE f[i]]

Boundary ==
  /\ stage = "idle" /\ Due # {}
  /\ stage' = "boundary"
  /\ requests' = [i \in Requests |-> IF i \in Due THEN [requests[i] EXCEPT !.state = FINISHED]
                                     ELSE requests[i]]
  /\ table' = Ended(table, Due, <<>>) /\ length' = Ended(length, Due, 0)
  /\ IF Aborted = {} THEN UNCHANGED <<cohort, pending>>
     ELSE /\ cohort' = Invalidated(cohort, "abort")
          /\ pending' = pending \o Announced(cohort, Min(Aborted), "boundary", "abort")
  /\ UNCHANGED <<traceVars, entries, clock, prefix, nextCohort, selected, record, caps>>
-----------------------------------------------------------------------------
(* Scheduling: the decodes, then the prefill in progress or else the       *)
(* oldest waiting request.  Lifetime reservations never make room.         *)
Decodes ==
  LET all == Ascending(InState(DECODE))
  IN  SubSeq(all, 1, Least(Len(all), MaxSequences))
DecodePlan == [s \in DOMAIN Decodes |-> <<Decodes[s], length[Decodes[s]], 1>>]
RowsLeft   == Len(Decodes) < MaxSequences

Selection(plan) ==
  [s \in DOMAIN plan |->
     LET i == plan[s][1]
         begin == FoldSeq(LAMBDA p, sum : p[3] + sum, 0, SubSeq(plan, 1, s - 1))
     IN  [request |-> i, past |-> plan[s][2], tokens |-> plan[s][3],
          head |-> IF plan[s][2] + plan[s][3] = Len(requests[i].tokens)
                   THEN begin + plan[s][3] - 1 ELSE -1]]

Select(plan, receipt) ==
  /\ stage = "boundary" \/ (stage = "idle" /\ Due = {} /\ Live # {})
  /\ stage' = "results"
  /\ selected' = Selection(plan)
  /\ record' = [receipt EXCEPT !.selections = Selection(plan), !.events = pending \o @]
  /\ pending' = <<>>
  /\ UNCHANGED traceVars

KeepBlocks == UNCHANGED <<requests, table, length, entries, clock, cohort, prefix, nextCohort, caps>>

ScheduleDecodes ==
  /\ RowsLeft => InState(PREFILL) = {} /\ InState(WAITING) = {}
  /\ Select(DecodePlan, NoRecord)
  /\ KeepBlocks

ScheduleHeld ==
  /\ RowsLeft
  /\ \E i \in Oldest(InState(PREFILL)) :
       LET count == PrefillCount(i, TokenBudget - Len(Decodes), length[i], Decodes)
       IN  Select(Append(DecodePlan, <<i, length[i], count>>), NoRecord)
  /\ KeepBlocks

(* The forecast an admission is decided under: frozen now, or as it is     *)
(* unless the cached blocks no longer fit it.                              *)
Standing(frozen, changed) == IF changed THEN Invalidated(frozen, "geometry_changed") ELSE frozen

Receipt(i, frozen, freezing, changed, decision, permit) ==
  [NoRecord EXCEPT
     !.snapshot = IF freezing THEN <<frozen>> ELSE <<>>,
     !.permission = IF Policy = "frequency" THEN <<permit>> ELSE <<>>,
     !.decision = <<decision>>,
     !.events = (IF freezing THEN <<Event(frozen, i, "frozen", "admission", frozen.reason)>> ELSE <<>>)
       \o (IF changed THEN Announced(frozen, i, "admission", "geometry_changed") ELSE <<>>)]

(* The decided admission is made, or the step is one of decodes only.      *)
Decided(i, cached, required, decision, receipt) ==
  IF decision.chosen < 1
    THEN /\ Select(DecodePlan, receipt)
         /\ UNCHANGED <<requests, table, length, entries, clock>>
    ELSE \E admission \in {Admission(i, cached, required)} :
         /\ Select(Append(DecodePlan, <<i, decision.past, decision.chosen>>),
                   [receipt EXCEPT !.changes = admission.removed])
         /\ requests' = [requests EXCEPT ![i].state = PREFILL]
         /\ table' = [table EXCEPT ![i] = admission.table]
         /\ length' = [length EXCEPT ![i] = decision.past]
         /\ entries' = admission.entries
         /\ clock' = clock + 1

ScheduleWaiting ==
  /\ RowsLeft /\ InState(PREFILL) = {}
  /\ \E i \in Oldest(InState(WAITING)) : \E cached \in {Match(requests[i].tokens)} :
     \E count \in {PrefillCount(i, TokenBudget - Len(Decodes), Len(cached) * BlockSize, Decodes)},
        available \in {Cardinality(FreeBlocks) + Cardinality(Idle(Range(cached)))},
        required \in {CeilDiv(PeakExtent(i), BlockSize) - Len(cached)} :
     \E freezing \in {Policy = "frequency" /\ cohort.id < 0 /\ required <= available /\ count > 0} :
     \E frozen \in {IF freezing THEN Freeze(i, cached, available, required) ELSE cohort},
        over \in {IF freezing THEN cached ELSE prefix} :
     \E changed \in {Contains(frozen.run, i) /\ ~Unchanged(frozen, over, i, cached, required)} :
     \E permit \in {Permit(Standing(frozen, changed), i)} :
     \E decision \in {AdmissionChunk(i, Decodes, cached, required, available, count,
                                     Policy = "frequency" /\ permit.allowed)} :
       /\ cohort' = Standing(frozen, changed) /\ prefix' = over
       /\ nextCohort' = IF freezing THEN nextCohort + 1 ELSE nextCohort
       /\ caps' = (IF freezing THEN 0 ELSE caps) + (IF decision.applied THEN 1 ELSE 0)
       /\ Decided(i, cached, required, decision, Receipt(i, frozen, freezing, changed, decision, permit))
-----------------------------------------------------------------------------
(* Results, in the order of selection: commit, publish the full private    *)
(* blocks whose key is new, deliver a token, finish and release.           *)
Published(i, filled) ==
  LET new == SelectSeq([b \in 1..(filled \div BlockSize) |-> b],
                       LAMBDA b : Indexed(requests[i].tokens, b) = {})
  IN  [k \in DOMAIN new |-> [key |-> SubSeq(requests[i].tokens, 1, new[k] * BlockSize),
                             block |-> table[i][new[k]], stamp |-> clock + k]]

Stored(new) == [k \in DOMAIN new |-> <<"stored", new[k].key>>]

Advance ==
  /\ stage = "results" /\ selected # <<>>
  /\ LET i      == Head(selected).request
         filled == length[i] + Head(selected).tokens
         new    == Published(i, filled)
     IN  /\ entries' = entries \o new
         /\ clock' = clock + Len(new)
         /\ IF filled # Len(requests[i].tokens)
            THEN /\ length' = [length EXCEPT ![i] = filled]
                 /\ record' = [record EXCEPT !.changes = @ \o Stored(new)]
                 /\ UNCHANGED <<requests, table, cohort>>
            ELSE \E token \in IF cell.requests[i].stops THEN {Word, Stop} ELSE {Word} :
                   LET finish == token = Stop \/ Generated(i) + 1 = Maximum(i)
                       early  == finish /\ cohort.id >= 0 /\ Generated(i) + 1 < Maximum(i)
                   IN  /\ requests' = [requests EXCEPT ![i].tokens = Append(@, token),
                                         ![i].state = IF finish THEN FINISHED ELSE DECODE]
                       /\ table' = IF finish THEN [table EXCEPT ![i] = <<>>] ELSE table
                       /\ length' = [length EXCEPT ![i] = IF finish THEN 0 ELSE filled]
                       /\ cohort' = IF early THEN Invalidated(cohort, "early_termination") ELSE cohort
                       /\ record' = [record EXCEPT !.changes = @ \o Stored(new),
                            !.finished = IF finish THEN @ + 1 ELSE @,
                            !.events = @ \o IF early
                              THEN Announced(cohort, i, "postprocess", "early_termination") ELSE <<>>]
  /\ selected' = Tail(selected)
  /\ UNCHANGED <<traceVars, prefix, nextCohort, pending, stage, caps>>

References    == FoldSet(LAMBDA i, sum : Len(table[i]) + sum, 0, Requests)
PrivateBlocks == cell.pool - Cardinality(FreeBlocks) - Len(entries)
Census        == <<Cardinality(FreeBlocks), Len(entries), References, PrivateBlocks,
                   Cardinality(InState(WAITING))>>

EndStep ==
  /\ stage = "results" /\ selected = <<>>
  /\ stage' = "idle"
  /\ LET drained == cohort.id >= 0 /\ Live = {}
     IN  /\ cohort' = IF drained THEN NoCohort ELSE cohort
         /\ prefix' = IF drained THEN <<>> ELSE prefix
         /\ record' = [record EXCEPT !.census = Census,
              !.events = IF drained THEN Append(@, Event(cohort, -1, "closed", "close", "drained")) ELSE @]
  /\ UNCHANGED <<traceVars, requests, table, length, entries, clock, nextCohort, pending, selected, caps>>
-----------------------------------------------------------------------------
(* The driver: the seed drains, the handoff selects the policy and submits *)
(* the requests that come first; when all have drained the index clears.   *)
Idling == stage = "idle" /\ Live = {} /\ References = 0

Handoff ==
  /\ phase = "seed" /\ Idling
  /\ phase' = "measure"
  /\ requests' = [i \in Requests |-> IF i \in 1..cell.first THEN Submitted(i) ELSE requests[i]]
  /\ record' = NoRecord
  /\ UNCHANGED <<cell, table, length, entries, clock, cohort, prefix, nextCohort, pending, stage,
                 selected, caps>>

ClearCache ==
  /\ phase = "measure" /\ Idling /\ InState(ABSENT) = {}
  /\ phase' = "cleared"
  /\ entries' = <<>>
  /\ record' = [NoRecord EXCEPT !.census = <<cell.pool, 0, 0, 0, 0>>,
       !.changes = Append([k \in DOMAIN entries |-> <<"removed", entries[k].key>>], <<"cleared", <<>> >>)]
  /\ UNCHANGED <<cell, requests, table, length, clock, cohort, prefix, nextCohort, pending, stage,
                 selected, caps>>

Next ==
  \/ Arrive \/ (\E i \in Requests : Abort(i)) \/ Boundary
  \/ ScheduleDecodes \/ ScheduleHeld \/ ScheduleWaiting
  \/ Advance \/ EndStep \/ Handoff \/ ClearCache

Spec == Init /\ [][Next]_vars
-----------------------------------------------------------------------------
Admitted(i) == requests[i].state \notin {ABSENT, WAITING}

Audit == INSTANCE PrefillAudit WITH
  stepping  <- stage = "results",
  index     <- [k \in DOMAIN entries |-> [key |-> entries[k].key, owners |-> Readers(entries[k].block),
                                          stamp |-> entries[k].stamp]],
  private   <- [i \in Requests |-> Cardinality(Range(table[i]) \ Registered)],
  completed <- [i \in Requests |-> IF ~Admitted(i) THEN -1
                 ELSE IF requests[i].state = FINISHED THEN Len(requests[i].tokens) - 1 ELSE length[i]],
  generated <- [i \in Requests |-> SubSeq(requests[i].tokens, Len(Prompt(i)) + 1, Len(requests[i].tokens))],
  done      <- {i \in Ids : requests[i].state = FINISHED},
  cohorts   <- nextCohort,
  left      <- selected

(* "Independent" audit: every step of a trace without late arrivals or     *)
(* aborts records exactly what a replay reconstructs that knows only keys, *)
(* owners and block counts.                                                *)
ReplayAccepts == [][Closed => Audit!Next]_vars

(* A dense forecast that is still valid when its cohort has drained was    *)
(* exact: it capped as many admissions as it predicted interruptions.      *)
ForecastExact ==
  stage = "results" /\ selected = <<>> /\ Live = {} /\ cohort.valid /\ cohort.dense
    => caps = cohort.predicted
=============================================================================
