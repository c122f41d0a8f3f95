---------------------------- MODULE PrefillTrace ----------------------------
(***************************************************************************)
(* A prefix trace: what the driver of the prefill studies submits          *)
(* (benchmarks/engine_trace.mojo, run_prefix_trace) and what its           *)
(* independent audits replay.  A seed request fills the prefix index; once *)
(* it has drained, the handoff selects the policy and submits the measured *)
(* requests; at the end the index is cleared.                              *)
(*                                                                         *)
(* The engine and the audits count in blocks of 32 tokens; here a block    *)
(* has BlockSize tokens, and their bounds 32, 33 and 64 scale with it.     *)
(***************************************************************************)
EXTENDS Integers, Sequences, FiniteSets, SequencesExt, FiniteSetsExt, TLC

CONSTANTS
  BlockSize,      \* tokens of a block
  Cells,          \* the traces: [policy, pool, budget, sequences, requests, first]
  Word, Stop      \* what a request may sample: an ordinary or a stop token

(* cell.requests[0] is the seed, 1.. are the measured requests in ticket   *)
(* order, each [prompt, maximum, stops]; the first cell.first of them are  *)
(* submitted at the handoff.  A closed cell has no later arrivals and no   *)
(* aborts, which is all the studies use.                                   *)
ASSUME TraceAssumption ==
  /\ BlockSize \in Nat \ {0}
  /\ \A c \in Cells : /\ c.first \in 1..(Cardinality(DOMAIN c.requests) - 1)
                      /\ c.budget >= c.sequences /\ c.sequences > 0

VARIABLES
  cell,       \* the trace being run
  phase       \* "seed", "measure" or "cleared"
traceVars == <<cell, phase>>

Requests   == DOMAIN cell.requests
Measured   == Requests \ {0}
Ids        == IF phase = "seed" THEN {0} ELSE Measured
Prompt(i)  == cell.requests[i].prompt
Maximum(i) == cell.requests[i].maximum
TokenBudget  == cell.budget       (* rows of a step                     *)
MaxSequences == cell.sequences    (* sequences of a step                *)
Policy     == IF phase = "seed" THEN "current" ELSE cell.policy
Closed     == cell.first = Cardinality(Measured)

TraceInit == cell \in Cells /\ phase = "seed"

Least(a, b) == IF a <= b THEN a ELSE b
Most(a, b)  == IF a <= b THEN b ELSE a
Sorted(S, Before(_, _)) ==
  [n \in 1..Cardinality(S) |-> CHOOSE x \in S : Cardinality({y \in S : Before(y, x)}) = n - 1]
Ascending(S) == Sorted(S, <)
Total(f, S)  == FoldSet(LAMBDA i, sum : f[i] + sum, 0, S)

(* The first of the <<failed, reason>> pairs that failed, or `otherwise'.  *)
FirstReason(checks, otherwise) ==
  LET failed == SelectSeq(checks, LAMBDA check : check[1])
  IN  IF failed = <<>> THEN otherwise ELSE failed[1][2]

NoCohort == [id |-> -1, anchor |-> -1, members |-> <<>>, run |-> <<>>, gaps |-> 0, predicted |-> 0,
             threshold |-> 0, past |-> 0, remaining |-> 0, maximum |-> 0, required |-> 0,
             valid |-> FALSE, dense |-> FALSE, reason |-> "none"]

NoRecord == [snapshot |-> <<>>, permission |-> <<>>, decision |-> <<>>, events |-> <<>>,
             selections |-> <<>>, changes |-> <<>>, finished |-> 0, census |-> <<>>]
=============================================================================
