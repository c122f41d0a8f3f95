----------------------------- MODULE EngineSync -----------------------------
(***************************************************************************)
(* The engine's synchronous step: boundary, schedule, batch, one runner    *)
(* execution, and post-processing of each selected request in order        *)
(* (EngineCore.step).  The runner's selected tokens and its failures are   *)
(* nondeterministic.                                                       *)
(***************************************************************************)
EXTENDS EngineScheduler

CONSTANTS
  Ids,          (* request IDs hosts use                                   *)
  Prompts,      (* prompts they send                                       *)
  Outputs,      (* output limits they ask for                              *)
  Salts,        (* tenants                                                 *)
  Sampled,      (* tokens the runner may select                            *)
  Stop,         (* stop token of every request                             *)
  MayFail       (* whether the runner may raise                            *)

ASSUME HostAssumption ==
  /\ Prompts \subseteq Seq(UNION {Range(p) : p \in Prompts})
  /\ Outputs \subseteq Nat

(* A step begins: it is refused once the engine has failed.                *)
BeginStep ==
  /\ Idling /\ ~failed
  /\ Goto("boundary")
  /\ OnlyStep

(* Nothing selected: the step ends without running anything.               *)
EmptyBatch ==
  /\ Phase("build") /\ step.chosen = <<>>
  /\ step' = NoStep
  /\ OnlyStep

BuildBatch ==
  /\ Phase("build") /\ step.chosen # <<>>
  /\ Goto("execute")
  /\ OnlyStep

(* The request and row count the batch's next sequence stands for.         *)
Current  == step.chosen[step.done + 1]
Request  == requests[Current.index]
Sequence == Request.sequence

Advance(next) ==
  step' = IF step.done + 1 = Len(step.chosen)
          THEN [step EXCEPT !.phase = next, !.done = 0]
          ELSE [step EXCEPT !.done = @ + 1]

(* The runner executes the batch, sequence by sequence; every write is     *)
(* complete when execute returns.                                          *)
Execute ==
  /\ Phase("execute")
  /\ WriteRows(Sequence, lengths[Sequence] + Current.count, Request.tokens)
  /\ Advance("commit")
  /\ UNCHANGED <<cacheVars, mode, requests, nextTicket, account, failed>>

(* It may raise before, between or after its writes.                       *)
Executing == Phase("execute") \/ (Phase("commit") /\ step.done = 0)

ExecuteFails ==
  /\ Executing /\ MayFail
  /\ failed' = TRUE
  /\ Goto("failing")
  /\ UNCHANGED <<vars, cacheVars, image, mode, requests, nextTicket, account>>

LiveSlots == {i \in DOMAIN requests : Live(i)}

FailRequest ==
  /\ Phase("failing")
  /\ \E i \in LiveSlots : (\A j \in LiveSlots : i <= j) /\ Finish(i, "error")
  /\ UNCHANGED <<step, failed>>

FailDone ==
  /\ Phase("failing") /\ LiveSlots = {} /\ call = Idle
  /\ IF mode.prefix THEN BeginClear ELSE UNCHANGED <<cacheVars, vars>>
  /\ step' = NoStep
  /\ UNCHANGED <<image, mode, requests, nextTicket, account, failed>>

(* clear_cache: the host drops the index of a drained engine.              *)
ClearCache ==
  /\ Idling /\ LiveSlots = {}
  /\ BeginClear
  /\ UNCHANGED <<image, engineVars>>

CacheClears ==
  /\ ClearOne \/ EndClear
  /\ KeepRows
  /\ UNCHANGED engineVars

(* Post-processing of one selected request: commit, publish, then the      *)
(* token, if this chunk reached the end of its history.                    *)
CommitChosen ==
  /\ Phase("commit")
  /\ Commit(Sequence)
  /\ Goto(IF mode.prefix THEN "publish" ELSE "sample")
  /\ KeepRows
  /\ UNCHANGED <<cacheVars, mode, requests, nextTicket, account, failed>>

PublishChosen ==
  /\ Phase("publish")
  /\ BeginPublish(Sequence, Request.tokens, Request.salt)
  /\ Goto("publishing")
  /\ UNCHANGED <<image, mode, requests, nextTicket, account, failed>>

PublishContinues ==
  /\ Phase("publishing") /\ call # Idle
  /\ PublishSkip \/ PublishEvict \/ PublishRegister
  /\ KeepRows
  /\ UNCHANGED engineVars

Published ==
  /\ Phase("publishing") /\ EndPublish
  /\ Goto("sample")
  /\ UNCHANGED <<image, mode, requests, nextTicket, account, failed>>

MoreToPrefill ==
  /\ Phase("sample")
  /\ lengths[Sequence] # Len(Request.tokens)
  /\ IF step.done + 1 = Len(step.chosen) THEN step' = NoStep
     ELSE step' = [step EXCEPT !.phase = "commit", !.done = @ + 1]
  /\ OnlyStep

Emitted(token) == [account EXCEPT ![Request.ticket].tokens = Append(@, token)]

BeyondLimit(i) == Generated(i) = requests[i].maximum      (* Mutant. *)
LastToken(i)   == Generated(i) + 1 = requests[i].maximum

SampleToken(token) ==
  LET i == Current.index
  IN  /\ Phase("sample")
      /\ lengths[Sequence] = Len(Request.tokens)
      /\ IF token = Stop \/ LastToken(i)
         THEN /\ CloseRequest(i)
              /\ account' = [Emitted(token) EXCEPT ![Request.ticket].finish =
                              Append(@, IF token = Stop THEN "stop" ELSE "length")]
         ELSE /\ requests' = [requests EXCEPT ![i].tokens = Append(@, token), ![i].state = DECODE]
              /\ account' = Emitted(token)
              /\ UNCHANGED vars
      /\ IF step.done + 1 = Len(step.chosen) THEN step' = NoStep
         ELSE step' = [step EXCEPT !.phase = "commit", !.done = @ + 1]
      /\ KeepRows
      /\ UNCHANGED <<cacheVars, mode, nextTicket, failed>>

Host ==
  \/ \E id \in Ids, prompt \in Prompts, maximum \in Outputs, salt \in Salts :
       Add(id, prompt, maximum, salt)
  \/ \E id \in Ids : Abort(id)
  \/ ClearCache

StepContinues ==
  \/ BoundaryFinish \/ BoundaryDone
  \/ Schedule
  \/ EmptyBatch \/ BuildBatch \/ Execute \/ FailRequest \/ FailDone \/ CacheClears
  \/ CommitChosen \/ PublishChosen \/ PublishContinues \/ Published
  \/ MoreToPrefill \/ \E token \in Sampled : SampleToken(token)

EngineNext == Host \/ BeginStep \/ StepContinues \/ ExecuteFails

EngineSpec == EngineInit /\ [][EngineNext]_allVars
-----------------------------------------------------------------------------
(* The batch the engine builds passes StepBatch.validate, the private-     *)
(* write check and the runner's append check: its rows and sequences are   *)
(* within the limits, every sequence runs known tokens from where its      *)
(* blocks end, and a block it writes is its own.                           *)
ChosenSequence(k) == requests[step.chosen[k].index].sequence
RowsOf(k)         == (Past(step.chosen[k].index) + 1)..(Past(step.chosen[k].index) + step.chosen[k].count)
BlocksWritten(k)  == {tables[ChosenSequence(k)][EntryIndex(p)] : p \in RowsOf(k)}
RowTotal          == Cardinality(UNION {{k} \X RowsOf(k) : k \in DOMAIN step.chosen})

BatchValid ==
  Phase("execute") /\ step.done = 0 =>
    /\ RowTotal <= TokenBudget /\ Len(step.chosen) <= MaxSequences
    /\ \A k \in DOMAIN step.chosen :
         LET i == step.chosen[k].index
         IN  /\ Held(i)
             /\ step.chosen[k].count >= 1
             /\ Past(i) + step.chosen[k].count <= Smaller(reserved[ChosenSequence(k)], History(i))
             /\ AppendPoint(ChosenSequence(k))
             /\ \A b \in BlocksWritten(k) :
                  /\ states[b] # REGISTERED /\ refs[b] = 1
                  /\ \A l \in DOMAIN step.chosen \ {k} : b \notin Range(tables[ChosenSequence(l)])

(* Publication of a completed step never rejects: a Registered block in    *)
(* the table is indexed under the request's own salt and history.          *)
PublicationNeverRaises ==
  /\ Phase("publish") => Publishable(Sequence, Request.tokens, Request.salt)
  /\ Publishing /\ ~Known => states[tables[call.sequence][call.ordinal]] = COMPLETE

(* Between accepting its requests and delivering their tokens a step never *)
(* runs into one of its own checks: neither the scheduler's, nor the       *)
(* batch's and the runner's, nor those of publication.                     *)
StepNeverRaises == ScheduleNeverRaises /\ BatchValid /\ PublicationNeverRaises

(* The engine implements the token service: preemption, replay, caching,   *)
(* slot reuse and failure are invisible in what is delivered.              *)
Service == INSTANCE TokenService WITH
  asked   <- [t \in Ticket |-> account[t].maximum],
  aborted <- {t \in Ticket : account[t].aborted},
  stream  <- [t \in Ticket |-> account[t].tokens],
  ending  <- [t \in Ticket |-> account[t].finish],
  broken  <- failed

DeliversTokens == Service!TokenServiceSpec

(* Every accepted request ends, whatever the pressure on the pool: nobody  *)
(* is preempted or passed over forever.                                    *)
EveryRequestEnds ==
  \A t \in Ticket : account[t].maximum >= 0 ~> account[t].finish # <<>>
=============================================================================
