------------------------------ MODULE StepCost ------------------------------
(***************************************************************************)
(* The cost policy of the fixed row budget: a prompt's next chunk is the   *)
(* largest whose predicted step stays within a target, found by a binary   *)
(* search over a prediction in saturating machine integers (StepCost and   *)
(* _prefill_count in serving/engine.mojo).                                 *)
(*                                                                         *)
(* One prompt is prefilled beside requests that decode; a step advances    *)
(* each of these by one token.  Positions attended are counted in plain    *)
(* integers: a context is far too short for them to overflow.              *)
(***************************************************************************)
EXTENDS Integers, Sequences, TLC

LOCAL INSTANCE Functions

CONSTANTS
  IntMax,           \* the largest machine integer
  CostPolicies,     \* the policies an engine may be given, valid or not
  PromptLengths,    \* lengths of the prompt
  DecodingLengths,  \* sequences of the cached lengths of the requests that decode
  Budgets,          \* rows a step may have left for the prompt
  Caps,             \* active_prefill_cap, 0 for none
  MaxCached         \* bound on the lengths of the requests that decode

ASSUME WidthAssumption == IntMax \in Nat \ {0}

VARIABLES
  costPolicy,   \* the engine's policy, or NoPolicy
  past,         \* tokens of the prompt in its KV
  remaining,    \* and those still to come
  decoding,     \* cached lengths of the requests that decode
  chunk         \* the last step's choice, with what it was chosen from
costVars == <<costPolicy, past, remaining, decoding, chunk>>

NoPolicy == [target |-> 0]
NoChunk  == [maximum |-> 0]

(* Sums and products of nonnegative integers that would leave the width.   *)
SaturatedSum(left, right) == IF left > IntMax - right THEN IntMax ELSE left + right
(* Mutant: a product wraps.                                                *)
WrappingProduct(left, right) == (left * right) % (IntMax + 1)
SaturatedProduct(left, right) ==
  IF right = 0 THEN 0 ELSE IF left > IntMax \div right THEN IntMax ELSE left * right

ValidPolicy(p) ==
  /\ p.fixed >= 0 /\ p.row >= 0 /\ p.position >= 0 /\ p.partition >= 0 /\ p.logit >= 0
  /\ p.target >= 1

Estimate(p, rows, positions, partitions, logits) ==
  LET Add(sum, coefficient, n) == SaturatedSum(sum, SaturatedProduct(coefficient, n))
  IN  Add(Add(Add(Add(p.fixed, p.row, rows), p.position, positions),
              p.partition, partitions), p.logit, logits)
-----------------------------------------------------------------------------
(* What a step with `count' tokens of the prompt launches: its rows, the   *)
(* positions they attend to, its attention partitions (the singletons, a   *)
(* one-token chunk among them, and the longer chunk) and its logits.       *)
Rows(count)       == Len(decoding) + count
Positions(count)  ==
  FoldFunction(LAMBDA cached, sum : cached + 1 + sum, 0, decoding)
    + count * past + (count * (count + 1)) \div 2
Partitions(count) ==
  (IF decoding # <<>> \/ count = 1 THEN 1 ELSE 0) + (IF count > 1 THEN 1 ELSE 0)
Logits(count)     == Len(decoding) + (IF count = remaining THEN 1 ELSE 0)

Predicted(count) ==
  Estimate(costPolicy, Rows(count), Positions(count), Partitions(count), Logits(count))

(* The binary search: the last count found affordable, 0 if none was.      *)
Search(maximum) ==
  LET from[low \in 1..(maximum + 1), high \in 0..maximum, best \in 0..maximum] ==
        LET count == low + (high - low) \div 2 IN
        IF low > high THEN best
        ELSE IF Predicted(count) <= costPolicy.target THEN from[count + 1, high, count]
        ELSE from[low, count - 1, best]
  IN  from[1, maximum, 0]

AtMost(budget, cap) ==
  LET count == IF budget < remaining THEN budget ELSE remaining
  IN  IF cap > 0 /\ decoding # <<>> /\ cap < count THEN cap ELSE count

(* Without decodes a prompt progresses whatever it costs.                  *)
Chosen(best) == IF decoding = <<>> /\ best = 0 THEN 1 ELSE best

PrefillChunk(maximum) ==
  IF costPolicy = NoPolicy THEN [count |-> maximum, limited |-> FALSE]
  ELSE LET best == Search(maximum)
       IN  [count |-> Chosen(best), limited |-> best < maximum]
-----------------------------------------------------------------------------
CostInit ==
  /\ costPolicy = NoPolicy
  /\ past = 0 /\ remaining \in PromptLengths
  /\ decoding \in DecodingLengths
  /\ chunk = NoChunk

(* set_cost_policy, between steps.                                         *)
SetCostPolicy(p) ==
  /\ ValidPolicy(p)
  /\ costPolicy' = p
  /\ chunk' = NoChunk
  /\ UNCHANGED <<past, remaining, decoding>>

(* A step: the chunk is chosen, run and committed, with every decode.      *)
PrefillStep(budget, cap) ==
  LET maximum == AtMost(budget, cap) IN
  /\ remaining > 0 /\ budget > 0 /\ \A k \in DOMAIN decoding : decoding[k] < MaxCached
  /\ chunk' = PrefillChunk(maximum) @@ [maximum |-> maximum]
  /\ past' = past + chunk'.count
  /\ remaining' = remaining - chunk'.count
  /\ decoding' = [k \in DOMAIN decoding |-> decoding[k] + 1]
  /\ UNCHANGED costPolicy

CostNext ==
  \/ costPolicy = NoPolicy /\ \E p \in CostPolicies : SetCostPolicy(p)
  \/ \E budget \in Budgets, cap \in Caps : PrefillStep(budget, cap)
-----------------------------------------------------------------------------
(* The prediction without a width.                                         *)
Exact(count) ==
  LET p == costPolicy IN
  p.fixed + p.row * Rows(count) + p.position * Positions(count)
    + p.partition * Partitions(count) + p.logit * Logits(count)

(* The chunk is the largest within the row budget whose step is predicted, *)
(* in unbounded arithmetic, to stay within the target: neither the search  *)
(* nor the width loses one, or lets a larger one through.  Below it the    *)
(* prompt waits if others decode, and otherwise takes one token; and a     *)
(* step says when the target cut it (_prefill_count in serving/engine.mojo,*)
(* for targets below the largest integer, which stands for any prediction).*)
LargestChunk ==
  LET affordable == {n \in 1..chunk'.maximum : Exact(n) <= costPolicy.target}
      least      == IF decoding = <<>> THEN 1 ELSE 0
  IN  costPolicy # NoPolicy =>
        /\ chunk'.count \in affordable \cup {least}
        /\ \A n \in affordable : n <= chunk'.count
        /\ chunk'.limited = (chunk'.maximum \notin affordable)
ChunkIsLargest == [][remaining' # remaining \/ decoding' # decoding => LargestChunk]_costVars
=============================================================================
