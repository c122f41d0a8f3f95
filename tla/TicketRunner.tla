---------------------------- MODULE TicketRunner ----------------------------
(***************************************************************************)
(* What the engine relies on when it steps asynchronously: the runner      *)
(* takes steps under consecutive tickets, two at most before it must be    *)
(* asked for the first one's tokens, and returns those that running the    *)
(* steps one after the other would give, wherever a step's inputs name     *)
(* its predecessor's results.  No queues, buffers or banks in sight.       *)
(***************************************************************************)
EXTENDS Integers, Sequences

VARIABLES
  submitted,  (* the steps taken, since the tickets were last reset        *)
  collected,  (* how many of them have been answered, or drained           *)
  answer,     (* the last answer: its ticket and tokens                    *)
  healthy     (* the runner has not failed                                 *)

ticketVars == <<submitted, collected, answer, healthy>>

(* A step is the source of each of its rows, -1 for a token of its own or  *)
(* the index of one of its predecessor's samples, and how many samples it  *)
(* takes.  Step k of a run reads its rows and all that ran before it.      *)
Token(sample, inputs, ran) == <<sample, inputs, ran>>

ResultsOf(steps, k) ==
  LET results[n \in 1..k] ==
        LET inputs == [i \in DOMAIN steps[n].sources |->
                         IF steps[n].sources[i] < 0 THEN <<n, i>>
                         ELSE results[n - 1][steps[n].sources[i] + 1]]
        IN  [j \in 1..steps[n].samples |-> Token(j, inputs, [m \in 1..n |-> m])]
  IN  results[k]

Chained(step) == \E i \in DOMAIN step.sources : step.sources[i] >= 0

TicketInit == submitted = <<>> /\ collected = 0 /\ answer = <<>> /\ healthy = TRUE

Take(step) ==
  /\ healthy /\ Len(submitted) < collected + 2
  /\ Chained(step) =>
       /\ submitted # <<>>
       /\ \A i \in DOMAIN step.sources : step.sources[i] < submitted[Len(submitted)].samples
  /\ submitted' = Append(submitted, step)
  /\ UNCHANGED <<collected, answer, healthy>>

Answer ==
  /\ healthy /\ collected < Len(submitted)
  /\ collected' = collected + 1
  /\ answer' = <<collected', ResultsOf(submitted, collected')>>
  /\ UNCHANGED <<submitted, healthy>>

(* Everything taken is over, and its tokens are lost.                      *)
Finish ==
  /\ collected' = Len(submitted)
  /\ UNCHANGED <<submitted, answer, healthy>>

Restart ==
  /\ collected = Len(submitted)
  /\ submitted' = <<>> /\ collected' = 0 /\ answer' = <<>>
  /\ UNCHANGED healthy

Fail == healthy' = FALSE /\ UNCHANGED <<submitted, collected, answer>>

TicketNext ==
  \/ submitted' # <<>> /\ Take(submitted'[Len(submitted')])
  \/ Answer
  \/ Finish
  \/ Restart
  \/ Fail

TicketSpec == TicketInit /\ [][TicketNext]_ticketVars
=============================================================================
