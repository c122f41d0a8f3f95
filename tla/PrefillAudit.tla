---------------------------- MODULE PrefillAudit ----------------------------
(***************************************************************************)
(* The independent audits of the prefill studies                           *)
(* (studies/model_generation/engine-prefix-evidence): a replay of a trace  *)
(* that knows no physical block.  It keeps the indexed keys with their     *)
(* owners, counts each request's private blocks, and reconstructs from     *)
(* them what every step must have recorded: admission inputs, predicate    *)
(* and reason, forecast, selected rows, stores and removals in LRU order,  *)
(* and the census of the pool.  A run is accepted when every record equals *)
(* its reconstruction.                                                     *)
(***************************************************************************)
EXTENDS PrefillTrace

VARIABLES
  stepping,   \* a step is being replayed
  index,      \* indexed keys, oldest entry first: [key, owners, stamp]
  private,    \* per request: its private blocks
  completed,  \* per request: tokens in its KV, -1 before its admission
  generated,  \* per request: delivered tokens
  done,       \* requests of the phase that have finished
  clock,
  cohort,     \* the frozen forecast, or NoCohort
  cohorts,    \* forecasts frozen so far
  record,     \* what the step must have recorded so far
  left        \* its selections still to be replayed
vars == <<traceVars, stepping, index, private, completed, generated, done, clock, cohort, cohorts, record, left>>

Init ==
  /\ TraceInit /\ stepping = FALSE
  /\ index = <<>> /\ clock = 0
  /\ private = [i \in Requests |-> 0]
  /\ completed = [i \in Requests |-> -1]
  /\ generated = [i \in Requests |-> <<>>]
  /\ done = {}
  /\ cohort = NoCohort /\ cohorts = 0
  /\ record = NoRecord /\ left = <<>>

Cached(key) == \E k \in DOMAIN index : index[k].key = key
FreeBlocks  == cell.pool - Len(index) - Total(private, Requests)
References  == Total(private, Requests)
               + FoldSeq(LAMBDA entry, sum : Cardinality(entry.owners) + sum, 0, index)
Census      == <<FreeBlocks, Len(index), References, Total(private, Requests),
                 Cardinality({i \in Ids : completed[i] = -1})>>
-----------------------------------------------------------------------------
(* The inputs of admitting request i beside the decodes.                   *)
Key(prompt, blocks) == SubSeq(prompt, 1, blocks * BlockSize)
Keys(prompt, blocks) == [b \in 1..blocks |-> Key(prompt, b)]

Matched(i) ==
  LET prompt == Prompt(i)
  IN  Keys(prompt, Max({n \in 0..((Len(prompt) - 1) \div BlockSize) :
                          \A b \in 1..n : Cached(Key(prompt, b))}))

Unowned(matched) ==
  {k \in DOMAIN index : index[k].owners = {} /\ ~Contains(matched, index[k].key)}

LeastUsed(matched, n) ==
  SubSeq(Sorted(Unowned(matched), LAMBDA j, k :
           index[j].stamp < index[k].stamp \/ (index[j].stamp = index[k].stamp /\ j < k)), 1, n)

Inputs(i, matched, decodes) ==
  LET remaining == Len(Prompt(i)) - Len(matched) * BlockSize
      reclaim   == Cardinality(Unowned(matched))
      alone     == Len(decodes) = 1
      budget    == TokenBudget - Len(decodes)
  IN  [request |-> i, past |-> Len(matched) * BlockSize, free |-> FreeBlocks, reclaimable |-> reclaim,
       available |-> FreeBlocks + reclaim,
       required |-> (Len(Prompt(i)) + Maximum(i) + BlockSize - 2) \div BlockSize - Len(matched),
       decodes |-> Len(decodes),
       incumbent |-> IF alone THEN decodes[1] ELSE -1,
       outputs |-> IF alone THEN Maximum(decodes[1]) - Len(generated[decodes[1]]) ELSE -1,
       remaining |-> remaining, budget |-> budget, baseline |-> Least(budget, remaining)]

Blocked(a) == a.required > a.available

Ineligible(a) == FirstReason(<<
  <<Blocked(a), "admission_blocked">>,
  <<a.required <= 0, "no_private_blocks">>,
  <<a.decodes # 1, "decode_count">>,
  <<a.outputs < 2, "incumbent_terminal">>,
  <<a.remaining \notin (BlockSize + 1)..(2 * BlockSize), "tail_length">>,
  <<a.decodes + 1 >= MaxSequences, "last_sequence_slot">>,
  <<a.available - a.required >= a.required, "capacity_headroom">> >>, "eligible")
-----------------------------------------------------------------------------
(* The forecast frozen at the first admission: interruptions predicted     *)
(* from the leading run of compatible requests, against the number that    *)
(* puts the 95th percentile of the cohort's gaps among them.               *)
Cutoff(n) == IF n = 0 THEN 0 ELSE n - (19 * (n - 1)) \div 20

Compatible(i, a, matched) ==
  /\ Len(Prompt(i)) = Len(Prompt(a.request)) /\ Maximum(i) = Maximum(a.request)
  /\ i = a.request \/ Matched(i) = matched

FirstPrivate(i, a) == Key(Prompt(i), a.past \div BlockSize + 1)

Leading(ids, Test(_)) ==    (* how many pass before the first that fails    *)
  Max({n \in 0..Len(ids) : \A m \in 1..n : Test(ids[m])})

Forecast(a, matched, ids) ==
  LET gaps   == FoldSeq(LAMBDA i, sum : Most(Maximum(i) - 1, 0) + sum, 0, ids)
      unfit  == FirstReason(<<
        <<\E i \in Ids \ done : completed[i] # -1, "incompatible_initial_state">>,
        <<a.remaining \notin (BlockSize + 1)..(2 * BlockSize), "tail_length">>,
        <<Maximum(a.request) < 3, "output_limit">>,
        <<TokenBudget < a.remaining + 1, "row_budget">>,
        <<a.required <= 0 \/ cell.pool \notin
            (Len(matched) + 2 * a.required)..(Len(matched) + 3 * a.required - 1), "geometry">>,
        <<gaps = 0, "zero_gap_budget">> >>, "fit")
      alike  == Leading(ids, LAMBDA i : Compatible(i, a, matched))
      unique == Leading(SubSeq(ids, 1, alike), LAMBDA i :
                  \A j \in Range(ids) : j < i => FirstPrivate(j, a) # FirstPrivate(i, a))
      reason == IF unfit # "fit" THEN unfit
                ELSE IF unique < alike THEN "duplicate_private_key" ELSE "fit"
      run    == IF unfit = "fit" THEN SubSeq(ids, 1, unique) ELSE <<>>
      dense  == reason = "fit" /\ Most(Len(run) - 1, 0) >= Cutoff(gaps)
  IN  [id |-> cohorts, anchor |-> a.request, members |-> ids, run |-> run, gaps |-> gaps,
       predicted |-> Most(Len(run) - 1, 0), threshold |-> Cutoff(gaps),
       past |-> a.past, remaining |-> a.remaining, maximum |-> Maximum(a.request),
       required |-> a.required, valid |-> reason = "fit", dense |-> dense,
       reason |-> IF reason # "fit" THEN reason ELSE IF dense THEN "dense" ELSE "sparse"]

Event(c, i, kind, when, reason) ==
  [cohort |-> c.id, request |-> i, kind |-> kind, when |-> when, reason |-> reason]

Invalid(c, reason) == [c EXCEPT !.valid = FALSE, !.reason = reason]

(* A counted member whose prefix or reservation is not the forecast one.   *)
Unforeseen(c, a) ==
  /\ c.valid /\ Contains(c.run, a.request)
  /\ \/ <<a.past, a.remaining, Maximum(a.request), a.required>>
          # <<c.past, c.remaining, c.maximum, c.required>>
     \/ SubSeq(Prompt(a.request), 1, a.past) # SubSeq(Prompt(c.anchor), 1, c.past)

Permission(c, a) ==
  LET member == Contains(c.members, a.request)
      inRun  == Contains(c.run, a.request)
  IN  [request |-> a.request, cohort |-> c.id, gaps |-> c.gaps, predicted |-> c.predicted,
       threshold |-> c.threshold, member |-> member, inRun |-> inRun, active |-> c.valid,
       dense |-> c.dense, allowed |-> c.valid /\ c.dense /\ inRun,
       reason |-> FirstReason(<<
         <<c = NoCohort, "unfrozen">>, <<~c.valid, c.reason>>, <<~member, "not_member">>,
         <<~inRun, "outside_run">>, <<~c.dense, "sparse">> >>, "allowed")]
-----------------------------------------------------------------------------
(* The decision of a policy, given whether the forecast allows a cap.      *)
Decision(a, allowed) ==
  LET reason   == Ineligible(a)
      eligible == reason = "eligible"
      capping  == eligible /\ (Policy = "adaptive" \/ allowed)
      chosen   == IF Blocked(a) THEN 0
                  ELSE IF capping \/ (Policy = "fixed" /\ a.decodes > 0)
                       THEN Least(a.baseline, BlockSize) ELSE a.baseline
      applied  == capping /\ chosen < a.baseline
  IN  a @@ [chosen |-> chosen, eligible |-> eligible, applied |-> applied,
            reason |-> IF ~eligible THEN reason
                       ELSE IF Policy = "frequency" /\ ~allowed THEN "frequency_fallback"
                       ELSE IF Policy \notin {"adaptive", "frequency"} THEN "adaptive_disabled"
                       ELSE IF applied THEN "adaptive_short_tail" ELSE "baseline_at_most_32"]

(* The rows of a plan of <<request, past, tokens>>.                        *)
Selections(plan) ==
  [s \in DOMAIN plan |->
     LET i == plan[s][1]  past == plan[s][2]  n == plan[s][3]
         rows == FoldSeq(LAMBDA p, sum : p[3] + sum, 0, SubSeq(plan, 1, s))
     IN  [request |-> i, past |-> past, tokens |-> n,
          head |-> IF past + n = Len(Prompt(i)) + Len(generated[i]) THEN rows - 1 ELSE -1]]

Resident == {i \in Ids \ done : completed[i] # -1}
Decodes ==
  LET all == Ascending({i \in Resident : generated[i] # <<>>})
  IN  SubSeq(all, 1, Least(Len(all), MaxSequences))
HeldBack == {i \in Resident : generated[i] = <<>>}
Waiting  == {i \in Ids : completed[i] = -1}
DecodePlan == [s \in DOMAIN Decodes |-> <<Decodes[s], completed[Decodes[s]], 1>>]
Full == Len(Decodes) = MaxSequences

Begin(plan, receipt) ==
  /\ phase # "cleared" /\ ~stepping /\ done # Ids
  /\ stepping' = TRUE
  /\ left' = Selections(plan)
  /\ record' = [receipt EXCEPT !.selections = Selections(plan)]
  /\ UNCHANGED <<cell, phase, generated, done>>

KeepPool == UNCHANGED <<index, private, completed, clock, cohort, cohorts>>

DecodeOnly ==
  /\ ~Full => HeldBack = {} /\ Waiting = {}
  /\ Begin(DecodePlan, NoRecord)
  /\ KeepPool

Continue ==
  /\ ~Full /\ HeldBack # {}
  /\ LET i == Min(HeldBack)
         n == Least(TokenBudget - Len(Decodes), Len(Prompt(i)) - completed[i])
         capped == Policy = "fixed" /\ Decodes # <<>>
     IN  Begin(Append(DecodePlan, <<i, completed[i], IF capped THEN Least(n, BlockSize) ELSE n>>), NoRecord)
  /\ KeepPool

Admit ==
  /\ ~Full /\ HeldBack = {} /\ Waiting # {}
  /\ LET i        == Min(Waiting)
         matched  == Matched(i)
         a        == Inputs(i, matched, Decodes)
         freezing == Policy = "frequency" /\ cohort = NoCohort /\ ~Blocked(a) /\ a.baseline > 0
         frozen   == IF freezing THEN Forecast(a, matched, Ascending(Waiting)) ELSE cohort
         current  == IF Unforeseen(frozen, a) THEN Invalid(frozen, "geometry_changed") ELSE frozen
         permit   == Permission(current, a)
         d        == Decision(a, Policy = "frequency" /\ permit.allowed)
         victims  == IF d.chosen > 0 THEN LeastUsed(matched, Most(a.required - FreeBlocks, 0)) ELSE <<>>
         kept     == SelectSeq(index, LAMBDA e : ~\E v \in Range(victims) : index[v].key = e.key)
         receipt  == [NoRecord EXCEPT
           !.snapshot = IF freezing THEN <<frozen>> ELSE <<>>,
           !.permission = IF Policy = "frequency" THEN <<permit>> ELSE <<>>,
           !.decision = <<d>>,
           !.events = (IF freezing THEN <<Event(frozen, i, "frozen", "admission", frozen.reason)>> ELSE <<>>)
             \o (IF current # frozen THEN <<Event(current, i, "invalidated", "admission", current.reason)>>
                 ELSE <<>>),
           !.changes = [v \in DOMAIN victims |-> <<"removed", index[victims[v]].key>>]]
     IN  /\ cohort' = current
         /\ cohorts' = IF freezing THEN cohorts + 1 ELSE cohorts
         /\ IF d.chosen = 0
            THEN /\ Begin(DecodePlan, receipt)
                 /\ UNCHANGED <<index, private, completed, clock>>
            ELSE /\ Begin(Append(DecodePlan, <<i, a.past, d.chosen>>), receipt)
                 /\ private' = [private EXCEPT ![i] = a.required]
                 /\ completed' = [completed EXCEPT ![i] = a.past]
                 /\ clock' = clock + 1
                 /\ index' = [k \in DOMAIN kept |->
                      IF Contains(matched, kept[k].key)
                      THEN [kept[k] EXCEPT !.owners = @ \cup {i}, !.stamp = clock + 1] ELSE kept[k]]
-----------------------------------------------------------------------------
(* Each selection in order: its tokens are computed, full blocks stored    *)
(* unless their key is there, and a selected head delivers a token.        *)
Ending(i, token) ==
  IF token = Stop THEN "stop"
  ELSE IF Len(generated[i]) + 1 = Maximum(i) THEN "length" ELSE "none"

Store(i, keys) ==
  index \o [k \in DOMAIN keys |-> [key |-> keys[k], owners |-> {i}, stamp |-> clock + k]]
Disown(entries, i) == [k \in DOMAIN entries |-> [entries[k] EXCEPT !.owners = @ \ {i}]]

Replay ==
  /\ stepping /\ left # <<>>
  /\ LET i    == Head(left).request
         past == completed[i] + Head(left).tokens
         new  == SelectSeq(Keys(Prompt(i) \o generated[i], past \div BlockSize), LAMBDA key : ~Cached(key))
     IN  /\ Len(new) <= private[i]
         /\ completed' = [completed EXCEPT ![i] = past]
         /\ clock' = clock + Len(new)
         /\ IF Head(left).head = -1
            THEN /\ private' = [private EXCEPT ![i] = @ - Len(new)]
                 /\ index' = Store(i, new)
                 /\ record' = [record EXCEPT !.changes = @ \o [k \in DOMAIN new |-> <<"stored", new[k]>>]]
                 /\ UNCHANGED <<generated, done, cohort>>
            ELSE \E token \in IF cell.requests[i].stops THEN {Word, Stop} ELSE {Word} :
                   LET ended == Ending(i, token) # "none"
                       early == cohort.valid /\ ended /\ Len(generated[i]) + 1 < Maximum(i)
                   IN  /\ generated' = [generated EXCEPT ![i] = Append(@, token)]
                       /\ done' = IF ended THEN done \cup {i} ELSE done
                       /\ private' = [private EXCEPT ![i] = IF ended THEN 0 ELSE @ - Len(new)]
                       /\ index' = IF ended THEN Disown(Store(i, new), i) ELSE Store(i, new)
                       /\ cohort' = IF early THEN Invalid(cohort, "early_termination") ELSE cohort
                       /\ record' = [record EXCEPT
                            !.changes = @ \o [k \in DOMAIN new |-> <<"stored", new[k]>>],
                            !.finished = IF ended THEN @ + 1 ELSE @,
                            !.events = IF early
                              THEN Append(@, Event(cohort, i, "invalidated", "postprocess", "early_termination"))
                              ELSE @]
  /\ left' = Tail(left)
  /\ UNCHANGED <<traceVars, stepping, cohorts>>

Close ==
  /\ stepping /\ left = <<>>
  /\ stepping' = FALSE
  /\ LET drained == cohort # NoCohort /\ done = Ids
     IN  /\ cohort' = IF drained THEN NoCohort ELSE cohort
         /\ record' = [record EXCEPT !.census = Census,
              !.events = IF drained THEN Append(@, Event(cohort, -1, "closed", "close", "drained")) ELSE @]
  /\ UNCHANGED <<cell, phase, index, private, completed, generated, done, clock, cohorts, left>>

Drained == ~stepping /\ done = Ids /\ References = 0

Handoff ==
  /\ phase = "seed" /\ Drained
  /\ phase' = "measure" /\ done' = {}
  /\ record' = NoRecord
  /\ UNCHANGED <<cell, stepping, index, private, completed, generated, clock, cohort, cohorts, left>>

Clear ==
  /\ phase = "measure" /\ Drained
  /\ phase' = "cleared"
  /\ index' = <<>>
  /\ record' = [NoRecord EXCEPT !.census = <<cell.pool, 0, 0, 0, 0>>,
       !.changes = Append([k \in DOMAIN index |-> <<"removed", index[k].key>>], <<"cleared", <<>> >>)]
  /\ UNCHANGED <<cell, stepping, private, completed, generated, done, clock, cohort, cohorts, left>>

Next == DecodeOnly \/ Continue \/ Admit \/ Replay \/ Close \/ Handoff \/ Clear

Spec == Init /\ [][Next]_vars
=============================================================================
