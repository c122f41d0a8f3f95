----------------------- MODULE EngineServices_proofs ------------------------
(***************************************************************************)
(* What the engine steps on, apart from the engine: the two-context        *)
(* runner, for any steps and any pace of the contexts, and the index of    *)
(* shared prefixes, for any client that keeps to its contract.             *)
(*                                                                         *)
(* The runner implements the ticket service: the tokens collected are      *)
(* those of running the steps one after the other. A wait makes the        *)
(* commands of a step run after all those of the one before it, so of the  *)
(* two steps that may be on their way only one is in progress. The         *)
(* invariant says how far that one has come, and that the bank behind it   *)
(* still holds what its predecessor selected.                              *)
(*                                                                         *)
(* Of the index: sharing is invisible, the index is exact and no operation *)
(* gets stuck. `SharedRowsAreOwn' speaks of rows and of keys. It is        *)
(* inductive once it also says, of every sequence, which of its blocks'    *)
(* rows the pool counts (OwnRows), of the operation in progress, what its  *)
(* arguments still stand for (CallFits), and of the index what CacheInv    *)
(* says.                                                                   *)
(***************************************************************************)
EXTENDS AsyncRunner, CachedSequences, KVCache_proofs

Inputs(list, n, results) ==
  [i \in DOMAIN list[n].sources |->
     IF list[n].sources[i] < 0 THEN <<n, i>> ELSE results[list[n].sources[i] + 1]]

Outcome(list, n, results) ==
  [j \in 1..list[n].samples |-> <<j, Inputs(list, n, results), [m \in 1..n |-> m]>>]

(* f is the results of the first k steps, each computed from the one before *)
IsRun(f, list, k) == f = [n \in 1..k |-> Outcome(list, n, f[n - 1])]
-----------------------------------------------------------------------------
Command == [op : {"wait"}, until : Nat] \cup [op : {"upload", "chain", "layers", "select", "readback"}]

IsBank(b) ==
  /\ b \in [staging : {b.staging}, metadata : {b.metadata}, selected : {b.selected},
            readback : {b.readback}, ticket : {b.ticket}, samples : {b.samples}, pending : BOOLEAN]
  /\ DOMAIN b.selected = 1..MaxSamples

(* A step names samples of the one before it, which the first has not.     *)
SourcesExist(list) ==
  \A k \in 1..Len(list) : \A i \in DOMAIN list[k].sources :
    list[k].sources[i] >= 0 => k > 1 /\ list[k].sources[i] < list[k - 1].samples

RunnerTypes ==
  /\ steps \in Seq(Shapes) /\ SourcesExist(steps)
  /\ issued = Len(steps) /\ collectNext \in 0..issued /\ issued <= collectNext + 2
  /\ commands \in [Contexts -> Seq(Command)]
  /\ executed \in [Contexts -> Nat]
  /\ banks = [c \in Contexts |-> banks[c]]
  /\ \A c \in Contexts : IsBank(banks[c])
  /\ valid \in BOOLEAN
  /\ host \in {"ready", "drain", "over"}
-----------------------------------------------------------------------------
(* The context of step k, and what its tokens should be.                   *)
Ctx(k)      == (k - 1) % 2
Bank(k)     == banks[Ctx(k)]
Samples(k)  == 1..steps[k].samples
Expected(k) == Tickets!ResultsOf(steps, k)
InputsOf(k) == Inputs(steps, k, Expected(k - 1))

(* Step k may have read a token that was not one, of a step whose own      *)
(* collection will fail.                                                   *)
Tainted(k) ==
  k > 1 /\ collectNext < k - 1 /\ \E j \in Samples(k - 1) : Bank(k - 1).selected[j] = Faulty

Selected(k) ==
  \A j \in Samples(k) :
    \/ Bank(k).selected[j] = Expected(k)[j] /\ Expected(k)[j] # Faulty
    \/ Bank(k).selected[j] = Faulty /\ collectNext < k
    \/ Tainted(k)

Done(k)   == Selected(k) /\ \A j \in Samples(k) : Bank(k).readback[j] = Bank(k).selected[j]
Before(k) == k > 1 => Done(k - 1)
-----------------------------------------------------------------------------
(* How far a step has come: the commands left of it, and what the ones     *)
(* that ran have done.                                                     *)
Do(op)       == <<[op |-> op]>>
WaitUntil(n) == <<[op |-> "wait", until |-> n]>>

AfterSelect(step) == IF step.samples > 0 THEN Do("readback") ELSE <<>>
AfterLayers(step) == Do("select") \o AfterSelect(step)
AfterChain(step)  == Do("layers") \o AfterLayers(step)
AfterUpload(step) == IF Chained(step) THEN Do("chain") \o AfterChain(step) ELSE AfterChain(step)
AfterWait(step)   == Do("upload") \o AfterUpload(step)

Left(k, list)  == commands[Ctx(k)] = list
RanThrough(k)  == ran = [m \in 1..k |-> m]
StagedFor(k)   ==
  Bank(k).staging = [step |-> k, sources |-> steps[k].sources, samples |-> steps[k].samples]
MetadataFor(k) ==
  Bank(k).metadata = [step |-> k, sources |-> steps[k].sources, samples |-> steps[k].samples,
                      tokens |-> Bank(k).metadata.tokens]
InputsReady(k) == MetadataFor(k) /\ (Tainted(k) \/ Bank(k).metadata.tokens = InputsOf(k))

Waiting(k) ==
  /\ Runs(Ctx(k), "wait") /\ Left(k, <<Head(commands[Ctx(k)])>> \o AfterWait(steps[k]))
  /\ StagedFor(k) /\ RanThrough(k - 1)
Uploading(k) == Left(k, AfterWait(steps[k])) /\ StagedFor(k) /\ RanThrough(k - 1)
Chaining(k) ==
  /\ Chained(steps[k]) /\ Left(k, Do("chain") \o AfterChain(steps[k]))
  /\ MetadataFor(k) /\ Bank(k).metadata.tokens = [i \in DOMAIN steps[k].sources |-> <<k, i>>]
  /\ RanThrough(k - 1)
Running(k) == Left(k, AfterChain(steps[k])) /\ InputsReady(k) /\ RanThrough(k - 1)
Selecting(k) ==
  /\ Left(k, AfterLayers(steps[k])) /\ MetadataFor(k) /\ RanThrough(k)
  /\ workspace.ran = [m \in 1..k |-> m] /\ (Tainted(k) \/ workspace.tokens = InputsOf(k))
Reading(k) ==
  steps[k].samples > 0 /\ Left(k, Do("readback")) /\ Selected(k) /\ RanThrough(k)
Finished(k) == Left(k, <<>>) /\ Done(k) /\ RanThrough(k)

InProgress(k) ==
  Waiting(k) \/ Uploading(k) \/ Chaining(k) \/ Running(k) \/ Selecting(k) \/ Reading(k) \/ Finished(k)

(* Step k waits for all that was queued for the one before it.             *)
Queued(k) ==
  Left(k, WaitUntil(QueuedEnd(Ctx(k - 1))) \o AfterWait(steps[k])) /\ StagedFor(k)

Progress ==
  \/ issued = 0 /\ AllSynchronized /\ RanThrough(0)
  \/ issued > 0 /\ commands[Other(Ctx(issued))] = <<>> /\ Before(issued) /\ InProgress(issued)
  \/ issued > 1 /\ Queued(issued) /\ Before(issued - 1) /\ InProgress(issued - 1)

(* The banks' tickets: those of the uncollected steps, and the last one's. *)
Uncollected == (collectNext + 1)..issued
Bookkeeping ==
  /\ \A k \in Uncollected : Bank(k).pending
  /\ \A k \in Uncollected \cup ({issued} \ {0}) :
       Bank(k).ticket = k - 1 /\ Bank(k).samples = steps[k].samples
  /\ \A c \in Contexts : banks[c].pending => \E k \in Uncollected : Ctx(k) = c
  /\ \A c \in Contexts : commands[c] # <<>> => banks[c].pending

RunnerInv ==
  /\ RunnerTypes
  /\ host = "over" => Pending = 0 /\ AllSynchronized
  /\ valid /\ host # "over" => Bookkeeping /\ Progress
-----------------------------------------------------------------------------
(* A list with one more element at its head.                               *)
LEMMA Prepend ==
  ASSUME NEW S, NEW x \in S, NEW s \in Seq(S)
  PROVE  /\ <<x>> \o s \in Seq(S)
         /\ <<x>> \o s # <<>>
         /\ Head(<<x>> \o s) = x
         /\ Tail(<<x>> \o s) = s
         /\ Len(<<x>> \o s) = Len(s) + 1
<1>1. <<x>> \in Seq(S) /\ Len(<<x>>) = 1 /\ <<x>>[1] = x
  OBVIOUS
<1> DEFINE t == <<x>> \o s
<1>2. /\ t \in Seq(S) /\ Len(t) = 1 + Len(s)
      /\ \A i \in 1..(1 + Len(s)) : t[i] = IF i <= 1 THEN <<x>>[i] ELSE s[i - 1]
  BY <1>1, ConcatProperties
<1> HIDE DEF t
<1>3. Len(s) \in Nat /\ t # <<>> /\ Head(t) = x
  BY <1>1, <1>2
<1>4. /\ Tail(t) \in Seq(S) /\ Len(Tail(t)) = Len(s)
      /\ \A i \in 1..Len(s) : Tail(t)[i] = t[i + 1]
  BY <1>2, <1>3, HeadTailProperties
<1>5. \A i \in 1..Len(s) : Tail(t)[i] = s[i]
  BY <1>2, <1>3, <1>4
<1>6. Tail(t) = s
  BY <1>4, <1>5, SeqEqual
<1> QED BY <1>2, <1>3, <1>6 DEF t
-----------------------------------------------------------------------------
(* What running the steps one after the other computes.                    *)

FirstUnchained(list) == \A i \in DOMAIN list[1].sources : list[1].sources[i] < 0

(* The first step has no predecessor to read from.                         *)
LEMMA FirstOutcome ==
  ASSUME NEW list, FirstUnchained(list), NEW f, NEW g
  PROVE  Outcome(list, 1, f) = Outcome(list, 1, g)
  BY DEF FirstUnchained, Outcome, Inputs

Agree(list, more, n) == \A m \in 1..n : list[m] = more[m]

(* Runs over lists that agree compute the same results.                    *)
LEMMA RunsAgree ==
  ASSUME NEW list, NEW more, NEW k \in Nat, NEW l \in Nat, NEW n \in Nat, n <= k, n <= l,
         NEW f, NEW g, IsRun(f, list, k), IsRun(g, more, l),
         Agree(list, more, n), FirstUnchained(list)
  PROVE  Agree(f, g, n)
<1> DEFINE T == {m \in 1..n : f[m] # g[m]}
<1>1. SUFFICES ASSUME T # {} PROVE FALSE
  BY DEF Agree
<1>2. PICK m \in T : \A i \in T : m <= i
  <2>1. T \in SUBSET Nat
    OBVIOUS
  <2> HIDE DEF T
  <2> QED BY <1>1, <2>1, LeastNatural
<1>3. m \in 1..n /\ m \in 1..k /\ m \in 1..l /\ f[m] # g[m] /\ list[m] = more[m]
  BY DEF Agree
<1>4. f[m] = Outcome(list, m, f[m - 1]) /\ g[m] = Outcome(more, m, g[m - 1])
  BY <1>3 DEF IsRun
<1>5. \A r : Outcome(list, m, r) = Outcome(more, m, r)
  BY <1>3 DEF Outcome, Inputs
<1>6. CASE m = 1
  BY <1>3, <1>4, <1>5, <1>6, FirstOutcome
<1>7. CASE m > 1
  <2>1. m - 1 \in 1..n /\ m - 1 \notin T
    BY <1>2, <1>3, <1>7
  <2>2. f[m - 1] = g[m - 1]
    BY <2>1
  <2> QED BY <1>3, <1>4, <1>5, <2>2
<1> QED BY <1>3, <1>6, <1>7

(* The recursion is well founded.                                          *)
LEMMA RunExists ==
  ASSUME NEW list, FirstUnchained(list), NEW k \in Nat
  PROVE  \E f : IsRun(f, list, k)
<1> DEFINE T == {n \in Nat : ~ \E f : IsRun(f, list, n)}
<1>1. SUFFICES ASSUME T # {} PROVE FALSE
  OBVIOUS
<1>2. PICK n \in T : \A i \in T : n <= i
  <2>1. T \in SUBSET Nat
    OBVIOUS
  <2> HIDE DEF T
  <2> QED BY <1>1, <2>1, LeastNatural
<1>3. n \in Nat /\ ~ \E f : IsRun(f, list, n)
  OBVIOUS
<1>4. CASE n = 0
  <2>1. IsRun([m \in 1..n |-> m], list, n)
    BY <1>4 DEF IsRun
  <2> QED BY <1>3, <2>1
<1>5. CASE n > 0
  <2>1. n - 1 \in Nat /\ n - 1 \notin T
    BY <1>2, <1>3, <1>5
  <2>2. PICK f : IsRun(f, list, n - 1)
    BY <2>1
  <2> DEFINE g == [m \in 1..n |-> IF m < n THEN f[m] ELSE Outcome(list, n, f[n - 1])]
  <2>3. \A m \in 1..n : g[m] = Outcome(list, m, g[m - 1])
    <3>1. TAKE m \in 1..n
    <3>2. g[m] = Outcome(list, m, f[m - 1])
      BY <1>3, <2>2 DEF IsRun
    <3>3. CASE m = 1
      BY <3>2, <3>3, FirstOutcome
    <3>4. CASE m > 1
      <4>1. m - 1 \in 1..n /\ m - 1 < n
        BY <1>3, <3>4
      <4> QED BY <3>2, <4>1
    <3> QED BY <1>3, <3>3, <3>4
  <2>4. IsRun(g, list, n)
    BY <2>3 DEF IsRun
  <2> QED BY <1>3, <2>4
<1> QED BY <1>3, <1>4, <1>5

(* ResultsOf is the result of such a run, ...                              *)
LEMMA ResultsAreOfARun ==
  ASSUME NEW list, FirstUnchained(list), NEW k \in Nat
  PROVE  \E f : IsRun(f, list, k) /\ Tickets!ResultsOf(list, k) = f[k]
<1>1. Tickets!ResultsOf(list, k) = (CHOOSE f : IsRun(f, list, k))[k]
  BY Zenon DEF Tickets!ResultsOf, Tickets!Token, IsRun, Outcome, Inputs
<1>2. IsRun(CHOOSE f : IsRun(f, list, k), list, k)
  BY RunExists
<1> QED BY <1>1, <1>2

(* ... computed from those of the step before, ...                         *)
LEMMA ResultsStep ==
  ASSUME NEW list, FirstUnchained(list), NEW k \in Nat \ {0}
  PROVE  Tickets!ResultsOf(list, k) = Outcome(list, k, Tickets!ResultsOf(list, k - 1))
<1>1. PICK f : IsRun(f, list, k) /\ Tickets!ResultsOf(list, k) = f[k]
  BY ResultsAreOfARun
<1>2. k - 1 \in Nat /\ k \in 1..k
  OBVIOUS
<1>3. PICK g : IsRun(g, list, k - 1) /\ Tickets!ResultsOf(list, k - 1) = g[k - 1]
  BY <1>2, ResultsAreOfARun
<1>4. f[k] = Outcome(list, k, f[k - 1])
  BY <1>1, <1>2 DEF IsRun
<1>5. CASE k = 1
  BY <1>1, <1>4, <1>5, FirstOutcome
<1>6. CASE k > 1
  <2>1. \A m \in 1..(k - 1) : f[m] = g[m]
    <3>1. Agree(list, list, k - 1) /\ k - 1 <= k /\ k - 1 <= k - 1
      BY DEF Agree
    <3>2. Agree(f, g, k - 1)
      BY <1>1, <1>2, <1>3, <3>1, RunsAgree
    <3> QED BY <3>2 DEF Agree
  <2>2. f[k - 1] = g[k - 1]
    BY <1>6, <2>1
  <2> QED BY <1>1, <1>3, <1>4, <2>2
<1> QED BY <1>5, <1>6

(* ... whatever steps follow.                                              *)
LEMMA ResultsOfPrefix ==
  ASSUME NEW list, NEW more, FirstUnchained(list), NEW k \in Nat \ {0},
         \A m \in 1..k : list[m] = more[m]
  PROVE  Tickets!ResultsOf(list, k) = Tickets!ResultsOf(more, k)
<1>1. FirstUnchained(more)
  BY DEF FirstUnchained
<1>2. PICK f : IsRun(f, list, k) /\ Tickets!ResultsOf(list, k) = f[k]
  BY ResultsAreOfARun
<1>3. PICK g : IsRun(g, more, k) /\ Tickets!ResultsOf(more, k) = g[k]
  BY <1>1, ResultsAreOfARun
<1>4. Agree(list, more, k)
  BY DEF Agree
<1>5. Agree(f, g, k)
  BY <1>2, <1>3, <1>4, RunsAgree
<1> QED BY <1>2, <1>3, <1>5 DEF Agree
-----------------------------------------------------------------------------
(* The contexts of consecutive steps alternate.                            *)
LEMMA Alternate ==
  ASSUME NEW k \in Nat \ {0}
  PROVE  /\ Ctx(k) \in Contexts /\ Other(Ctx(k)) \in Contexts /\ Other(Ctx(k)) # Ctx(k)
         /\ Ctx(k + 1) = Other(Ctx(k)) /\ Ctx(k + 2) = Ctx(k)
         /\ \A c \in Contexts : c = Ctx(k) \/ c = Other(Ctx(k))
         /\ Ctx(k + 1) = k % 2
         /\ k > 1 => Ctx(k - 1) = Other(Ctx(k))
  BY DEF Ctx, Other, Contexts

(* The commands left after each of a step's own.                           *)
LEMMA CommandLists ==
  ASSUME NEW step
  PROVE  /\ AfterSelect(step) \in Seq(Command) /\ AfterLayers(step) \in Seq(Command)
         /\ AfterChain(step) \in Seq(Command) /\ AfterUpload(step) \in Seq(Command)
         /\ AfterWait(step) \in Seq(Command)
         /\ \A op \in {"upload", "chain", "layers", "select", "readback"} : \A rest \in Seq(Command) :
              /\ Do(op) \o rest # <<>> /\ Head(Do(op) \o rest).op = op /\ Tail(Do(op) \o rest) = rest
              /\ Do(op) \o rest \in Seq(Command)
         /\ \A x \in Command : \A rest \in Seq(Command) :
              /\ <<x>> \o rest # <<>> /\ Head(<<x>> \o rest) = x /\ Tail(<<x>> \o rest) = rest
              /\ <<x>> \o rest \in Seq(Command) /\ Len(<<x>> \o rest) = Len(rest) + 1
<1>1. \A op \in {"upload", "chain", "layers", "select", "readback"} : [op |-> op] \in Command
  BY DEF Command
<1>2. \A x \in Command : \A rest \in Seq(Command) :
        /\ <<x>> \o rest # <<>> /\ Head(<<x>> \o rest) = x /\ Tail(<<x>> \o rest) = rest
        /\ <<x>> \o rest \in Seq(Command) /\ Len(<<x>> \o rest) = Len(rest) + 1
  BY Prepend
<1>3. \A op \in {"upload", "chain", "layers", "select", "readback"} : \A rest \in Seq(Command) :
        /\ Do(op) \o rest # <<>> /\ Head(Do(op) \o rest).op = op /\ Tail(Do(op) \o rest) = rest
        /\ Do(op) \o rest \in Seq(Command)
  BY <1>1, <1>2 DEF Do
<1>4. AfterSelect(step) \in Seq(Command)
  BY <1>1 DEF AfterSelect, Do
<1>5. AfterLayers(step) \in Seq(Command)
  BY <1>3, <1>4 DEF AfterLayers
<1>6. AfterChain(step) \in Seq(Command)
  BY <1>3, <1>5 DEF AfterChain
<1>7. AfterUpload(step) \in Seq(Command)
  BY <1>3, <1>6 DEF AfterUpload
<1>8. AfterWait(step) \in Seq(Command)
  BY <1>3, <1>7 DEF AfterWait
<1> QED BY <1>2, <1>3, <1>4, <1>5, <1>6, <1>7, <1>8

(* What submit queues, command by command.                                 *)
LEMMA SubmittedCommands ==
  ASSUME RunnerTypes, NEW c \in Contexts, NEW step
  PROVE  /\ StepCommands(c, step) =
              IF issued > 0 THEN WaitUntil(QueuedEnd(Other(c))) \o AfterWait(step) ELSE AfterWait(step)
         /\ StepCommands(c, step) \in Seq(Command)
         /\ QueuedEnd(Other(c)) \in Nat
         /\ Len(StepCommands(c, step)) > 0
<1> DEFINE wait  == IF issued > 0 THEN WaitForPredecessor(c) ELSE <<>>
           chain == IF Chained(step) THEN Do("chain") ELSE <<>>
<1>1. QueuedEnd(Other(c)) \in Nat
  <2>1. Other(c) \in Contexts
    BY DEF Other, Contexts
  <2> QED BY <2>1 DEF QueuedEnd, RunnerTypes
<1>2. StepCommands(c, step) = wait \o (Do("upload") \o (chain \o AfterChain(step)))
  BY DEF StepCommands, Do, AfterChain, AfterLayers, AfterSelect
<1>6. chain \o AfterChain(step) = AfterUpload(step)
  <2>1. <<>> \o AfterChain(step) = AfterChain(step)
    BY ConcatEmptySeq, CommandLists
  <2>2. CASE Chained(step)
    BY Zenon, <2>2 DEF AfterUpload
  <2>3. CASE ~Chained(step)
    BY Zenon, <2>1, <2>3 DEF AfterUpload
  <2> QED BY <2>2, <2>3
<1> HIDE DEF chain
<1>8. StepCommands(c, step) = wait \o AfterWait(step)
  BY Zenon, <1>2, <1>6 DEF AfterWait
<1>9. StepCommands(c, step) =
        IF issued > 0 THEN WaitUntil(QueuedEnd(Other(c))) \o AfterWait(step) ELSE AfterWait(step)
  <2>1. <<>> \o AfterWait(step) = AfterWait(step)
    BY ConcatEmptySeq, CommandLists
  <2>2. CASE issued > 0
    BY Zenon, <1>8, <2>2 DEF WaitForPredecessor, WaitUntil
  <2>3. CASE ~(issued > 0)
    BY Zenon, <1>8, <2>1, <2>3
  <2> QED BY <2>2, <2>3
<1>10. StepCommands(c, step) \in Seq(Command) /\ StepCommands(c, step) # <<>>
  <2>1. [op |-> "wait", until |-> QueuedEnd(Other(c))] \in Command
    BY <1>1 DEF Command
  <2>2. AfterWait(step) \in Seq(Command) /\ AfterWait(step) # <<>>
    BY CommandLists DEF AfterWait
  <2> QED BY <1>9, <2>1, <2>2, CommandLists DEF WaitUntil
<1> QED BY <1>1, <1>9, <1>10
-----------------------------------------------------------------------------
(* Assigning one field of a bank leaves the others as they were.           *)
SameTicket(b, d) ==
  b.staging = d.staging /\ b.ticket = d.ticket /\ b.samples = d.samples /\ b.pending = d.pending

(* Each of the three that commands fill, in turn.                          *)
LEMMA BankUpdate ==
  ASSUME NEW b, IsBank(b), NEW m
  PROVE  /\ LET d == [b EXCEPT !.metadata = m]
            IN  /\ IsBank(d) /\ SameTicket(d, b) /\ d.metadata = m
                /\ d.selected = b.selected /\ d.readback = b.readback
         /\ LET d == [b EXCEPT !.selected = m]
            IN  /\ DOMAIN m = 1..MaxSamples => IsBank(d)
                /\ SameTicket(d, b) /\ d.selected = m
                /\ d.metadata = b.metadata /\ d.readback = b.readback
         /\ LET d == [b EXCEPT !.readback = m]
            IN  /\ IsBank(d) /\ SameTicket(d, b) /\ d.readback = m
                /\ d.metadata = b.metadata /\ d.selected = b.selected
  BY DEF IsBank, SameTicket

Updated(bank, c) ==
  /\ banks' = [d \in Contexts |-> IF d = c THEN bank ELSE banks[d]]
  /\ IsBank(bank) /\ SameTicket(bank, banks[c])

(* A context's step takes the first command off its queue and leaves the   *)
(* host, the other context and the other bank alone.                       *)
LEMMA ContextStep ==
  ASSUME RunnerTypes, NEW c \in Contexts, ContextNext(c)
  PROVE  /\ UNCHANGED hostVars
         /\ commands[c] # <<>>
         /\ commands' = [commands EXCEPT ![c] = Tail(@)] /\ executed' = [executed EXCEPT ![c] = @ + 1]
         /\ \E bank : Updated(bank, c)
<1>1. commands[c] # <<>> /\ CommandRun(c)
  BY DEF ContextNext, Wait, Upload, ChainTokens, Layers, SelectTokens, Readback, Runs
<1>2. banks = [d \in Contexts |-> banks[d]] /\ IsBank(banks[c])
  BY DEF RunnerTypes
<1>3. ASSUME NEW bank, banks' = [banks EXCEPT ![c] = bank], IsBank(bank), SameTicket(bank, banks[c])
      PROVE  \E b : Updated(b, c)
  BY <1>2, <1>3 DEF Updated
<1>4. ASSUME UNCHANGED banks
      PROVE  \E b : Updated(b, c)
  <2>1. Updated(banks[c], c)
    BY <1>2, <1>4 DEF Updated, SameTicket
  <2> QED BY <2>1
<1>7. \E bank : Updated(bank, c)
  <2>1. CASE Wait(c) \/ Layers(c)
    BY <1>4, <2>1 DEF Wait, Layers
  <2>2. CASE Upload(c)
    <3>1. PICK m : banks' = [banks EXCEPT ![c] = [@ EXCEPT !.metadata = m]]
      BY <2>2 DEF Upload
    <3> QED BY <1>2, <1>3, <3>1, BankUpdate
  <2>3. CASE ChainTokens(c)
    <3>1. PICK m : banks' = [banks EXCEPT ![c] = [@ EXCEPT !.metadata = m]]
      BY <2>3 DEF ChainTokens
    <3> QED BY <1>2, <1>3, <3>1, BankUpdate
  <2>4. CASE SelectTokens(c)
    <3>0. PICK bad : banks' = [banks EXCEPT ![c].selected =
         [j \in DOMAIN @ |-> IF j > banks[c].metadata.samples THEN @[j] ELSE IF j = bad THEN Faulty
                            ELSE Tickets!Token(j, workspace.tokens, workspace.ran)]]
      BY <2>4 DEF SelectTokens
    <3> DEFINE m == [j \in DOMAIN banks[c].selected |->
                      IF j > banks[c].metadata.samples THEN banks[c].selected[j]
                      ELSE IF j = bad THEN Faulty
                      ELSE Tickets!Token(j, workspace.tokens, workspace.ran)]
    <3>1. /\ banks' = [banks EXCEPT ![c] = [@ EXCEPT !.selected = m]]
          /\ DOMAIN m = DOMAIN banks[c].selected
      BY <3>0
    <3> HIDE DEF m
    <3>2. DOMAIN m = 1..MaxSamples
      BY <1>2, <3>1 DEF IsBank
    <3> QED BY <1>2, <1>3, <3>1, <3>2, BankUpdate
  <2>5. CASE Readback(c)
    <3>1. PICK m : banks' = [banks EXCEPT ![c] = [@ EXCEPT !.readback = m]]
      BY <2>5 DEF Readback
    <3> QED BY <1>2, <1>3, <3>1, BankUpdate
  <2> QED BY <2>1, <2>2, <2>3, <2>4, <2>5 DEF ContextNext
<1> QED BY <1>1, <1>7 DEF CommandRun

(* So it keeps the types.                                                  *)
LEMMA ContextTypes ==
  ASSUME RunnerTypes, NEW c \in Contexts, ContextNext(c)
  PROVE  /\ RunnerTypes'
         /\ QueuedEnd(c)' = QueuedEnd(c)
         /\ commands'[c] = Tail(commands[c]) /\ Len(commands[c]) > 0
         /\ \A d \in Contexts : d # c =>
              commands'[d] = commands[d] /\ banks'[d] = banks[d] /\ QueuedEnd(d)' = QueuedEnd(d)
<1>0. /\ commands \in [Contexts -> Seq(Command)] /\ executed \in [Contexts -> Nat]
      /\ \A d \in Contexts : IsBank(banks[d])
  BY DEF RunnerTypes
<1>1. PICK bank : Updated(bank, c)
  BY ContextStep
<1>2. /\ commands[c] \in Seq(Command) /\ commands[c] # <<>>
      /\ Tail(commands[c]) \in Seq(Command) /\ Len(Tail(commands[c])) = Len(commands[c]) - 1
      /\ Len(commands[c]) \in Nat /\ Len(commands[c]) > 0
  <2>1. commands[c] \in Seq(Command) /\ commands[c] # <<>>
    BY <1>0, ContextStep
  <2> QED BY <2>1, HeadTailProperties
<1>a. commands' = [commands EXCEPT ![c] = Tail(@)] /\ executed' = [executed EXCEPT ![c] = @ + 1]
  BY ContextStep
<1>3. /\ commands' \in [Contexts -> Seq(Command)] /\ executed' \in [Contexts -> Nat]
      /\ commands'[c] = Tail(commands[c]) /\ executed'[c] = executed[c] + 1
      /\ \A d \in Contexts : d # c => commands'[d] = commands[d] /\ executed'[d] = executed[d]
  BY <1>0, <1>2, <1>a
<1>4. QueuedEnd(c)' = QueuedEnd(c)
  <2>1. executed[c] \in Nat /\ Len(Tail(commands[c])) = Len(commands[c]) - 1 /\ Len(commands[c]) \in Nat
    BY <1>0, <1>2
  <2>2. executed'[c] = executed[c] + 1 /\ Len(commands'[c]) = Len(commands[c]) - 1
    BY <1>3, <2>1
  <2> QED BY <2>1, <2>2 DEF QueuedEnd
<1>5. \A d \in Contexts : d # c => banks'[d] = banks[d] /\ QueuedEnd(d)' = QueuedEnd(d)
  BY <1>1, <1>3 DEF Updated, QueuedEnd
<1>6. banks' = [d \in Contexts |-> banks'[d]] /\ \A d \in Contexts : IsBank(banks'[d])
  BY <1>0, <1>1 DEF Updated
<1>7. UNCHANGED <<issued, collectNext, valid, host, steps>>
  BY ContextStep DEF hostVars
<1>8. RunnerTypes'
  BY <1>3, <1>6, <1>7 DEF RunnerTypes, SourcesExist
<1> QED BY <1>2, <1>3, <1>4, <1>5, <1>8

(* What a context's step leaves of the step k it works on, ...             *)
LEMMA ContextFrame ==
  ASSUME RunnerTypes, NEW k \in 1..issued, ContextNext(Ctx(k))
  PROVE  /\ UNCHANGED <<steps, collectNext, issued, valid, host>>
         /\ SameTicket(Bank(k)', Bank(k))
         /\ commands'[Ctx(k)] = Tail(commands[Ctx(k)])
         /\ k > 1 => Bank(k - 1)' = Bank(k - 1)
         /\ Before(k) => Before(k)'
         /\ Tainted(k)' = Tainted(k)
         /\ Expected(k)' = Expected(k) /\ InputsOf(k)' = InputsOf(k)
<1>1. Ctx(k) \in Contexts /\ (k > 1 => Ctx(k - 1) \in Contexts /\ Ctx(k - 1) # Ctx(k))
  BY Alternate DEF RunnerTypes
<1>2. UNCHANGED <<steps, collectNext, issued, valid, host>>
  BY <1>1, ContextStep DEF hostVars
<1>3. /\ commands'[Ctx(k)] = Tail(commands[Ctx(k)]) /\ (k > 1 => Bank(k - 1)' = Bank(k - 1))
  BY <1>1, ContextTypes DEF Bank
<1>4. SameTicket(Bank(k)', Bank(k))
  <2>1. PICK bank : Updated(bank, Ctx(k))
    BY <1>1, ContextStep
  <2> QED BY <1>1, <2>1 DEF Updated, Bank
<1>5. \A n : Expected(n)' = Expected(n)
  BY <1>2 DEF Expected
<1>6. InputsOf(k)' = InputsOf(k)
  BY <1>2, <1>5 DEF InputsOf
<1>7. Tainted(k)' = Tainted(k)
  BY <1>2, <1>3 DEF Tainted, Samples
<1>8. ASSUME Before(k), k > 1 PROVE Done(k - 1)'
  <2>1. Done(k - 1)
    BY <1>8 DEF Before
  <2>2. ~Tainted(k - 1)
    BY <1>8 DEF Tainted, RunnerTypes
  <2> QED BY <1>2, <1>3, <1>5, <1>8, <2>1, <2>2 DEF Done, Selected, Samples
<1> QED BY <1>2, <1>3, <1>4, <1>5, <1>6, <1>7, <1>8 DEF Before

(* Running the first of a list of commands leaves the others.              *)
LEMMA RunFirst ==
  ASSUME NEW op \in {"upload", "chain", "layers", "select", "readback"}, NEW rest \in Seq(Command)
  PROVE  Do(op) \o rest # <<>> /\ Head(Do(op) \o rest).op = op /\ Tail(Do(op) \o rest) = rest
<1>1. [op |-> op] \in Command
  BY DEF Command
<1> QED BY <1>1, Prepend DEF Do

(* The command at the head of a queue says what the context does.          *)
LEMMA WhichCommand ==
  ASSUME NEW c, ContextNext(c)
  PROVE  LET op == Head(commands[c]).op
         IN  /\ op = "wait" => Wait(c)
             /\ op = "upload" => Upload(c)
             /\ op = "chain" => ChainTokens(c)
             /\ op = "layers" => Layers(c)
             /\ op = "select" => SelectTokens(c)
             /\ op = "readback" => Readback(c)
  BY DEF ContextNext, Wait, Upload, ChainTokens, Layers, SelectTokens, Readback, Runs

(* ... what it makes of the step, command by command: the host's record    *)
(* is uploaded, ...                                                        *)
LEMMA UploadStep ==
  ASSUME RunnerTypes, NEW k \in 1..issued, ContextNext(Ctx(k)), Uploading(k)
  PROVE  Chaining(k)' \/ Running(k)'
<1> DEFINE c == Ctx(k)
<1>1. Ctx(k) \in Contexts /\ IsBank(banks[Ctx(k)]) /\ banks = [d \in Contexts |-> banks[d]]
  BY Alternate DEF RunnerTypes
<1>2. /\ commands[Ctx(k)] = Do("upload") \o AfterUpload(steps[k])
      /\ Head(commands[Ctx(k)]).op = "upload" /\ Tail(commands[Ctx(k)]) = AfterUpload(steps[k])
  <2>1. AfterUpload(steps[k]) \in Seq(Command)
    BY CommandLists
  <2>2. commands[Ctx(k)] = Do("upload") \o AfterUpload(steps[k])
    BY DEF Uploading, Left, AfterWait
  <2> QED BY <2>1, <2>2, RunFirst
<1>3. Upload(Ctx(k))
  BY <1>2, WhichCommand
<1>4. commands'[Ctx(k)] = AfterUpload(steps[k])
  BY <1>2, ContextFrame
<1> DEFINE m == [step |-> Bank(k).staging.step, sources |-> Bank(k).staging.sources,
                 samples |-> Bank(k).staging.samples,
                 tokens |-> [i \in DOMAIN Bank(k).staging.sources |-> <<Bank(k).staging.step, i>>]]
<1>5. Bank(k)' = [Bank(k) EXCEPT !.metadata = m]
  BY <1>1, <1>3 DEF Upload, Bank
<1>6. Bank(k)'.metadata = m
  BY <1>1, <1>5, BankUpdate DEF Bank
<1>7. /\ Bank(k).staging.step = k /\ Bank(k).staging.sources = steps[k].sources
      /\ Bank(k).staging.samples = steps[k].samples
  BY DEF Uploading, StagedFor
<1>8. Bank(k)'.metadata = [step |-> k, sources |-> steps[k].sources, samples |-> steps[k].samples,
                           tokens |-> [i \in DOMAIN steps[k].sources |-> <<k, i>>]]
  BY <1>6, <1>7
<1> HIDE DEF m
<1>9. UNCHANGED steps /\ InputsOf(k)' = InputsOf(k)
  BY ContextFrame
<1>10. RanThrough(k - 1)'
  BY <1>3 DEF Upload, Uploading, RanThrough
<1>11. CASE Chained(steps[k])
  BY <1>4, <1>8, <1>9, <1>10, <1>11 DEF Chaining, Left, AfterUpload, MetadataFor
<1>12. CASE ~Chained(steps[k])
  <2>1. InputsOf(k) = [i \in DOMAIN steps[k].sources |-> <<k, i>>]
    <3>1. k \in 1..Len(steps) /\ steps[k] \in Shapes /\ steps[k].sources \in Seq(Int)
      BY ShapesAssumption DEF RunnerTypes
    <3>2. \A i \in DOMAIN steps[k].sources : steps[k].sources[i] < 0
      BY <1>12, <3>1 DEF Chained, Tickets!Chained
    <3> QED BY <3>2 DEF InputsOf, Inputs
  <2>2. Left(k, AfterChain(steps[k]))'
    BY <1>4, <1>9, <1>12 DEF Left, AfterUpload, AfterChain, AfterLayers, AfterSelect
  <2>3. InputsReady(k)'
    BY <1>8, <1>9, <2>1 DEF InputsReady, MetadataFor
  <2> QED BY <1>10, <2>2, <2>3 DEF Running
<1> QED BY <1>11, <1>12

(* ... its tokens are completed from the selection of the step before, ...  *)
LEMMA ChainStep ==
  ASSUME RunnerTypes, NEW k \in 1..issued, ContextNext(Ctx(k)), Chaining(k),
         Before(k), collectNext < k
  PROVE  Running(k)'
<1> DEFINE prior == Bank(k - 1).selected
           sources == steps[k].sources
<1>1. Ctx(k) \in Contexts /\ IsBank(banks[Ctx(k)]) /\ banks = [d \in Contexts |-> banks[d]]
  BY Alternate DEF RunnerTypes
<1>2. /\ commands[Ctx(k)] = Do("chain") \o AfterChain(steps[k])
      /\ Head(commands[Ctx(k)]).op = "chain" /\ Tail(commands[Ctx(k)]) = AfterChain(steps[k])
  <2>1. AfterChain(steps[k]) \in Seq(Command)
    BY CommandLists
  <2>2. commands[Ctx(k)] = Do("chain") \o AfterChain(steps[k])
    BY DEF Chaining, Left
  <2> QED BY <2>1, <2>2, RunFirst
<1>3. ChainTokens(Ctx(k))
  BY <1>2, WhichCommand
<1>4. commands'[Ctx(k)] = AfterChain(steps[k])
  BY <1>2, ContextFrame
<1>5. /\ Bank(k).metadata.sources = sources
      /\ Bank(k).metadata.tokens = [i \in DOMAIN sources |-> <<k, i>>]
      /\ Bank(k).metadata = [step |-> k, sources |-> sources, samples |-> steps[k].samples,
                             tokens |-> Bank(k).metadata.tokens]
  BY DEF Chaining, MetadataFor
<1>6. /\ sources \in Seq(Int) /\ (\E i \in DOMAIN sources : sources[i] >= 0) /\ k \in Nat
      /\ \A i \in DOMAIN sources : sources[i] >= 0 => k > 1 /\ sources[i] < steps[k - 1].samples
  <2>1. steps[k] \in Shapes /\ SourcesExist(steps) /\ k \in 1..Len(steps)
    BY DEF RunnerTypes
  <2>2. steps[k].sources \in Seq(Int) /\ Chained(steps[k]) /\ k \in Nat
    BY <2>1, ShapesAssumption DEF Chaining
  <2>3. \E i \in DOMAIN sources : sources[i] >= 0
    BY <2>2 DEF Chained, Tickets!Chained
  <2>4. \A i \in DOMAIN sources : sources[i] >= 0 => k > 1 /\ sources[i] < steps[k - 1].samples
    BY <2>1 DEF SourcesExist
  <2> QED BY <2>2, <2>3, <2>4
<1>7. k > 1 /\ Other(Ctx(k)) = Ctx(k - 1)
  <2>1. PICK i \in DOMAIN sources : sources[i] >= 0
    BY <1>6
  <2>2. k > 1
    BY <1>6, <2>1
  <2> QED BY <2>2, Alternate
<1> DEFINE tokens == [i \in DOMAIN sources |-> IF sources[i] < 0 THEN <<k, i>>
                                              ELSE Usable(prior[sources[i] + 1])]
           m == [step |-> k, sources |-> sources, samples |-> steps[k].samples, tokens |-> tokens]
<1>8. Bank(k)' = [Bank(k) EXCEPT !.metadata = m]
  <2>1. banks' = [banks EXCEPT ![Ctx(k)].metadata.tokens =
       [i \in DOMAIN @ |-> IF banks[Ctx(k)].metadata.sources[i] < 0 THEN @[i]
                          ELSE Usable(banks[Ctx(k - 1)].selected[banks[Ctx(k)].metadata.sources[i] + 1])]]
    BY <1>3, <1>7 DEF ChainTokens
  <2>2. banks' = [banks EXCEPT ![Ctx(k)].metadata.tokens = tokens]
    BY <1>5, <2>1 DEF Bank
  <2>3. Bank(k)' = [Bank(k) EXCEPT !.metadata.tokens = tokens]
    BY <1>1, <2>2 DEF Bank
  <2>4. ASSUME NEW x
        PROVE  [Bank(k).metadata EXCEPT !.tokens = x] =
                 [step |-> k, sources |-> sources, samples |-> steps[k].samples, tokens |-> x]
    <3> HIDE DEF sources, tokens
    <3> QED BY <1>5
  <2> QED BY <1>1, <2>3, <2>4 DEF Bank
<1>9. Bank(k)'.metadata = m
  BY <1>1, <1>8, BankUpdate DEF Bank
<1>10. UNCHANGED steps /\ InputsOf(k)' = InputsOf(k) /\ Tainted(k)' = Tainted(k)
  BY ContextFrame
<1>11. RanThrough(k - 1)'
  BY <1>3 DEF ChainTokens, Chaining, RanThrough
<1>12. ASSUME ~Tainted(k) PROVE tokens = InputsOf(k)
  <2>1. \A j \in Samples(k - 1) : prior[j] = Expected(k - 1)[j] /\ prior[j] # Faulty
    <3>1. Selected(k - 1)
      BY <1>7 DEF Before, Done
    <3>2. ~Tainted(k - 1) 
      BY <1>7 DEF Tainted, RunnerTypes
    <3>3. \A j \in Samples(k - 1) : prior[j] = Faulty => collectNext >= k - 1
      BY <1>7, <1>12 DEF Tainted, RunnerTypes
    <3> QED BY <3>1, <3>2, <3>3, <1>7 DEF Selected, RunnerTypes
  <2>2. \A i \in DOMAIN sources : sources[i] >= 0 => sources[i] + 1 \in Samples(k - 1)
    <3>1. steps[k - 1] \in Shapes
      BY <1>7 DEF RunnerTypes
    <3>2. steps[k - 1].samples \in Nat
      BY <3>1, ShapesAssumption
    <3> SUFFICES ASSUME NEW i \in DOMAIN sources, sources[i] >= 0
                 PROVE  sources[i] + 1 \in 1..steps[k - 1].samples
      BY DEF Samples
    <3>3. sources[i] \in Int /\ sources[i] < steps[k - 1].samples
      BY <1>6
    <3> HIDE DEF sources
    <3> QED BY <3>2, <3>3
  <2>3. \A i \in DOMAIN sources : sources[i] < 0 \/ sources[i] >= 0
    BY <1>6
  <2>4. \A i \in DOMAIN sources : sources[i] >= 0 =>
          Usable(prior[sources[i] + 1]) = Expected(k - 1)[sources[i] + 1]
    BY <2>1, <2>2 DEF Usable
  <2> HIDE DEF prior
  <2> QED BY <2>3, <2>4 DEF InputsOf, Inputs
<1> HIDE DEF tokens
<1>13. InputsReady(k)'
  BY <1>9, <1>10, <1>12 DEF InputsReady, MetadataFor
<1> QED BY <1>4, <1>10, <1>11, <1>13 DEF Running, Left

(* ... the layers run, ...                                                 *)
LEMMA LayersStep ==
  ASSUME RunnerTypes, NEW k \in 1..issued, ContextNext(Ctx(k)), Running(k)
  PROVE  Selecting(k)'
<1>1. Ctx(k) \in Contexts /\ k \in Nat
  BY Alternate DEF RunnerTypes
<1>2. /\ commands[Ctx(k)] = Do("layers") \o AfterLayers(steps[k])
      /\ Head(commands[Ctx(k)]).op = "layers" /\ Tail(commands[Ctx(k)]) = AfterLayers(steps[k])
  <2>1. AfterLayers(steps[k]) \in Seq(Command)
    BY CommandLists
  <2>2. commands[Ctx(k)] = Do("layers") \o AfterLayers(steps[k])
    BY DEF Running, Left, AfterChain
  <2> QED BY <2>1, <2>2, RunFirst
<1>3. Layers(Ctx(k))
  BY <1>2, WhichCommand
<1>4. commands'[Ctx(k)] = AfterLayers(steps[k]) /\ UNCHANGED <<steps, banks>>
  BY <1>2, <1>3, ContextFrame DEF Layers
<1>5. MetadataFor(k) /\ (Tainted(k) \/ Bank(k).metadata.tokens = InputsOf(k)) /\ Bank(k).metadata.step = k
  BY DEF Running, InputsReady, MetadataFor
<1>6. /\ InputsOf(k)' = InputsOf(k) /\ Tainted(k)' = Tainted(k) /\ MetadataFor(k)'
  BY <1>4, <1>5, ContextFrame DEF MetadataFor, Bank
<1>7. ran' = Append(ran, k) /\ workspace' = [tokens |-> Bank(k).metadata.tokens, ran |-> ran']
  BY <1>3, <1>5 DEF Layers, Bank
<1>8. ran' = [m \in 1..k |-> m]
  <2>1. ran = [m \in 1..(k - 1) |-> m]
    BY DEF Running, RanThrough
  <2>2. ran \in Seq(Nat) /\ Len(ran) = k - 1
    BY <1>1, <2>1
  <2>3. /\ ran' \in Seq(Nat) /\ Len(ran') = k
        /\ \A m \in 1..(k - 1) : ran'[m] = ran[m]
        /\ ran'[k] = k
    BY <1>1, <1>7, <2>2, AppendProperties
  <2>4. \A m \in 1..k : ran'[m] = m
    BY <1>1, <2>1, <2>3
  <2>5. DOMAIN ran' = 1..k /\ ran' = [m \in DOMAIN ran' |-> ran'[m]]
    BY <2>3
  <2> QED BY <2>4, <2>5
<1> QED BY <1>4, <1>5, <1>6, <1>7, <1>8 DEF Selecting, Left, RanThrough

(* ... the selection writes a token, or a nonfinite value, per sample, ... *)
LEMMA SelectStep ==
  ASSUME RunnerTypes, NEW k \in 1..issued, ContextNext(Ctx(k)), Selecting(k),
         FirstUnchained(steps), collectNext < k
  PROVE  Reading(k)' \/ Finished(k)'
<1>1. /\ Ctx(k) \in Contexts /\ IsBank(banks[Ctx(k)]) /\ banks = [d \in Contexts |-> banks[d]]
      /\ k \in Nat \ {0} /\ steps[k].samples \in 0..MaxSamples
  <2>1. steps[k] \in Shapes
    BY DEF RunnerTypes
  <2> QED BY <2>1, ShapesAssumption, Alternate DEF RunnerTypes
<1>2. /\ commands[Ctx(k)] = Do("select") \o AfterSelect(steps[k])
      /\ Head(commands[Ctx(k)]).op = "select" /\ Tail(commands[Ctx(k)]) = AfterSelect(steps[k])
  <2>1. AfterSelect(steps[k]) \in Seq(Command)
    BY CommandLists
  <2>2. commands[Ctx(k)] = Do("select") \o AfterSelect(steps[k])
    BY DEF Selecting, Left, AfterLayers
  <2> QED BY <2>1, <2>2, RunFirst
<1>3. SelectTokens(Ctx(k))
  BY <1>2, WhichCommand
<1>4. commands'[Ctx(k)] = AfterSelect(steps[k]) /\ UNCHANGED <<steps, collectNext>>
  BY <1>2, ContextFrame
<1>5. Bank(k).metadata.samples = steps[k].samples
  BY DEF Selecting, MetadataFor
<1>6. PICK bad : banks' = [banks EXCEPT ![Ctx(k)].selected =
         [j \in DOMAIN @ |-> IF j > banks[Ctx(k)].metadata.samples THEN @[j]
                            ELSE IF j = bad THEN Faulty
                            ELSE Tickets!Token(j, workspace.tokens, workspace.ran)]]
  BY <1>3 DEF SelectTokens
<1> DEFINE m == [j \in 1..MaxSamples |->
                   IF j > steps[k].samples THEN Bank(k).selected[j] ELSE IF j = bad THEN Faulty
                   ELSE <<j, workspace.tokens, workspace.ran>>]
<1>7. Bank(k)'.selected = m
  <2>1. Bank(k)' = [Bank(k) EXCEPT !.selected = m]
    BY <1>1, <1>5, <1>6 DEF Bank, IsBank, Tickets!Token
  <2> HIDE DEF m
  <2> QED BY <1>1, <2>1, BankUpdate DEF Bank
<1>8. /\ Expected(k)' = Expected(k) /\ Tainted(k)' = Tainted(k) /\ Samples(k)' = Samples(k)
  BY <1>4, ContextFrame DEF Samples
<1>9. RanThrough(k)'
  BY <1>3 DEF SelectTokens, Selecting, RanThrough
<1>10. Selected(k)'
  <2>1. SUFFICES ASSUME NEW j \in Samples(k), ~Tainted(k)
                 PROVE  \/ m[j] = Expected(k)[j] /\ Expected(k)[j] # Faulty
                        \/ m[j] = Faulty
    BY <1>4, <1>7, <1>8 DEF Selected
  <2>2. Expected(k)[j] = <<j, workspace.tokens, workspace.ran>>
    <3>1. Expected(k) = Outcome(steps, k, Expected(k - 1))
      BY <1>1, ResultsStep DEF Expected
    <3>2. /\ workspace.ran = [n \in 1..k |-> n]
          /\ workspace.tokens = Inputs(steps, k, Expected(k - 1))
      BY <2>1 DEF Selecting, InputsOf
    <3> QED BY <3>1, <3>2 DEF Outcome, Samples
  <2>3. Expected(k)[j] # Faulty
    BY <2>2 DEF Faulty
  <2>4. j \in 1..MaxSamples /\ ~(j > steps[k].samples)
    BY <1>1, ShapesAssumption DEF Samples
  <2> QED BY <2>2, <2>3, <2>4
<1>11. CASE steps[k].samples > 0
  <2>1. AfterSelect(steps[k]) = Do("readback") 
    BY <1>11 DEF AfterSelect
  <2> QED BY <1>4, <1>9, <1>10, <1>11, <2>1 DEF Reading, Left
<1>12. CASE ~(steps[k].samples > 0)
  BY <1>1, <1>4, <1>8, <1>9, <1>10, <1>12 DEF Finished, Left, Done, AfterSelect, Samples
<1> QED BY <1>11, <1>12

(* ... and the selection is read back.                                     *)
LEMMA ReadStep ==
  ASSUME RunnerTypes, NEW k \in 1..issued, ContextNext(Ctx(k)), Reading(k)
  PROVE  Finished(k)'
<1>1. Ctx(k) \in Contexts /\ IsBank(banks[Ctx(k)]) /\ banks = [d \in Contexts |-> banks[d]]
  BY Alternate DEF RunnerTypes
<1>2. Head(commands[Ctx(k)]).op = "readback" /\ Tail(commands[Ctx(k)]) = <<>>
  <2>1. commands[Ctx(k)] = <<[op |-> "readback"]>>
    BY DEF Reading, Left, Do
  <2> QED BY <2>1
<1>3. Readback(Ctx(k))
  BY <1>2, WhichCommand
<1>4. commands'[Ctx(k)] = <<>> /\ UNCHANGED <<steps, collectNext>>
  BY <1>2, ContextFrame
<1>5. Bank(k)' = [Bank(k) EXCEPT !.readback = Bank(k).selected]
  BY <1>1, <1>3 DEF Readback, Bank
<1>6. Bank(k)'.readback = Bank(k).selected /\ Bank(k)'.selected = Bank(k).selected
  BY <1>1, <1>5, BankUpdate DEF Bank
<1>7. Expected(k)' = Expected(k) /\ Tainted(k)' = Tainted(k) /\ Samples(k)' = Samples(k)
  BY <1>4, ContextFrame DEF Samples
<1>8. Selected(k)' /\ \A j \in Samples(k)' : Bank(k)'.readback[j] = Bank(k)'.selected[j]
  BY <1>4, <1>6, <1>7 DEF Reading, Selected
<1>9. RanThrough(k)'
  BY <1>3 DEF Readback, Reading, RanThrough
<1>10. Left(k, <<>>)'
  BY <1>4 DEF Left
<1>11. Done(k)'
  BY <1>8 DEF Done
<1> QED BY <1>9, <1>10, <1>11 DEF Finished

(* The first step names no sample.                                         *)
LEMMA FirstIsUnchained ==
  ASSUME RunnerTypes, issued > 0
  PROVE  FirstUnchained(steps)
<1>1. 1 \in 1..Len(steps) /\ steps[1] \in Shapes /\ steps[1].sources \in Seq(Int)
  BY ShapesAssumption DEF RunnerTypes
<1>2. \A i \in DOMAIN steps[1].sources : ~(steps[1].sources[i] >= 0) /\ steps[1].sources[i] \in Int
  <2>1. \A i \in DOMAIN steps[1].sources : steps[1].sources[i] \in Int
    BY <1>1
  <2>2. ASSUME NEW i \in DOMAIN steps[1].sources, steps[1].sources[i] >= 0 PROVE FALSE
    <3>1. SourcesExist(steps)
      BY DEF RunnerTypes
    <3> QED BY <1>1, <2>2, <3>1 DEF SourcesExist
  <2> QED BY <2>1, <2>2
<1> QED BY <1>2 DEF FirstUnchained

(* The step in progress comes one command further.                         *)
LEMMA StageStep ==
  ASSUME RunnerTypes, NEW k \in 1..issued, ContextNext(Ctx(k)), InProgress(k),
         Before(k), collectNext < k
  PROVE  InProgress(k)'
<1>1. FirstUnchained(steps)
  BY FirstIsUnchained DEF RunnerTypes
<1>2. CASE Waiting(k)
  <2>1. Wait(Ctx(k))
    BY <1>2, WhichCommand DEF Waiting, Runs
  <2>2. AfterWait(steps[k]) \in Seq(Command) /\ Head(commands[Ctx(k)]) \in Command
    <3>1. Ctx(k) \in Contexts /\ commands[Ctx(k)] \in Seq(Command) /\ commands[Ctx(k)] # <<>>
      BY <1>2, Alternate DEF RunnerTypes, Waiting, Runs
    <3> QED BY <3>1, CommandLists
  <2>3. commands'[Ctx(k)] = AfterWait(steps[k])
    <3>1. Tail(<<Head(commands[Ctx(k)])>> \o AfterWait(steps[k])) = AfterWait(steps[k])
      BY <2>2, Prepend
    <3> QED BY <1>2, <3>1, ContextFrame DEF Waiting, Left
  <2>4. UNCHANGED <<banks, ran, steps>>
    BY <2>1, ContextFrame DEF Wait
  <2>5. Uploading(k)'
    BY <1>2, <2>3, <2>4 DEF Uploading, Waiting, Left, StagedFor, RanThrough, Bank
  <2> QED BY <2>5 DEF InProgress
<1>3. CASE Uploading(k)
  BY <1>3, UploadStep DEF InProgress
<1>4. CASE Chaining(k)
  BY <1>4, ChainStep DEF InProgress
<1>5. CASE Running(k)
  BY <1>5, LayersStep DEF InProgress
<1>6. CASE Selecting(k)
  BY <1>1, <1>6, SelectStep DEF InProgress
<1>7. CASE Reading(k)
  BY <1>7, ReadStep DEF InProgress
<1>8. CASE Finished(k)
  <2>1. Ctx(k) \in Contexts
    BY Alternate DEF RunnerTypes
  <2> QED BY <1>8, <2>1, ContextStep DEF Finished, Left
<1> QED BY <1>2, <1>3, <1>4, <1>5, <1>6, <1>7, <1>8 DEF InProgress

(* A step with no command left has finished.                               *)
LEMMA EmptyQueue ==
  ASSUME NEW k, InProgress(k), commands[Ctx(k)] = <<>>
  PROVE  Finished(k)
<1>1. \A op \in {"upload", "chain", "layers", "select", "readback"} : \A rest \in Seq(Command) :
        Do(op) \o rest # <<>>
  BY RunFirst
<1>2. /\ AfterUpload(steps[k]) \in Seq(Command) /\ AfterLayers(steps[k]) \in Seq(Command)
      /\ AfterChain(steps[k]) \in Seq(Command) /\ AfterSelect(steps[k]) \in Seq(Command)
  BY CommandLists
<1>3. ~Waiting(k)
  BY DEF Waiting, Runs
<1>4. ~Uploading(k)
  BY <1>1, <1>2 DEF Uploading, Left, AfterWait
<1>5. ~Chaining(k)
  BY <1>1, <1>2 DEF Chaining, Left
<1>6. ~Running(k)
  BY <1>1, <1>2 DEF Running, Left, AfterChain
<1>7. ~Selecting(k)
  BY <1>1, <1>2 DEF Selecting, Left, AfterLayers
<1>8. ~Reading(k)
  BY DEF Reading, Left, Do
<1> QED BY <1>3, <1>4, <1>5, <1>6, <1>7, <1>8 DEF InProgress

(* A step whose context has commands left has not been collected.          *)
LEMMA WorkIsUncollected ==
  ASSUME RunnerTypes, Bookkeeping, NEW k \in 1..issued, k >= issued - 1, commands[Ctx(k)] # <<>>
  PROVE  collectNext < k
<1>1. Ctx(k) \in Contexts
  BY Alternate DEF RunnerTypes
<1>2. PICK n \in Uncollected : Ctx(n) = Ctx(k)
  BY <1>1 DEF Bookkeeping
<1>3. n \in Nat /\ n > collectNext /\ n <= issued /\ n >= k - 1 /\ n <= k + 1 /\ collectNext \in Nat /\ k \in Nat
  BY DEF Uncollected, RunnerTypes
<1> QED BY <1>2, <1>3 DEF Ctx

(* A context's step keeps the host's books ...                             *)
LEMMA ContextBookkeeping ==
  ASSUME RunnerTypes, Bookkeeping, NEW c \in Contexts, ContextNext(c)
  PROVE  Bookkeeping'
<1>1. \A d \in Contexts : SameTicket(banks'[d], banks[d])
  <2>1. PICK bank : Updated(bank, c)
    BY ContextStep
  <2> QED BY <2>1 DEF Updated, SameTicket
<1>2. \A d \in Contexts : commands'[d] # <<>> => commands[d] # <<>>
  BY ContextTypes
<1>3. UNCHANGED <<steps, collectNext, issued>>
  BY ContextStep DEF hostVars
<1>4. \A k \in Nat : Ctx(k) \in Contexts
  BY DEF Ctx, Contexts
<1>5. \A k \in Uncollected \cup ({issued} \ {0}) : k \in Nat
  BY DEF Uncollected, RunnerTypes
<1>6. \A k \in Uncollected \cup ({issued} \ {0}) : SameTicket(Bank(k)', Bank(k))
  BY <1>1, <1>4, <1>5 DEF Bank
<1>7. Uncollected' = Uncollected
  BY <1>3 DEF Uncollected
<1> QED BY <1>1, <1>2, <1>3, <1>6, <1>7 DEF Bookkeeping, SameTicket

(* ... and brings the step in progress one command further; the one queued *)
(* behind it waits until it has finished.                                  *)
LEMMA ContextProgress ==
  ASSUME RunnerTypes, Bookkeeping, Progress, NEW c \in Contexts, ContextNext(c)
  PROVE  Progress'
<1>1. UNCHANGED <<steps, collectNext, issued>>
  BY ContextStep DEF hostVars
<1>2. commands[c] # <<>>
  BY ContextStep
<1>3. CASE issued = 0 /\ AllSynchronized
  BY <1>2, <1>3 DEF AllSynchronized, Synchronized
<1>4. CASE issued > 0 /\ commands[Other(Ctx(issued))] = <<>> /\ Before(issued) /\ InProgress(issued)
  <2>1. PICK k \in 1..issued : k = issued /\ k \in Nat \ {0}
    <3>1. issued \in Nat
      BY DEF RunnerTypes
    <3> QED BY <1>4, <3>1
  <2>2. c = Ctx(k)
    BY <1>2, <1>4, <2>1, Alternate
  <2>3. collectNext < k
    BY <1>2, <2>1, <2>2, WorkIsUncollected
  <2>4. InProgress(k)' /\ Before(k)'
    BY <1>4, <2>1, <2>2, <2>3, StageStep, ContextFrame
  <2>5. commands'[Other(Ctx(k))] = <<>>
    BY <1>4, <2>1, <2>2, Alternate, ContextTypes
  <2> QED BY <1>1, <1>4, <2>1, <2>4, <2>5 DEF Progress
<1>5. CASE issued > 1 /\ Queued(issued) /\ Before(issued - 1) /\ InProgress(issued - 1)
  <2>1. PICK k \in 1..issued : k = issued /\ k \in Nat \ {0} /\ k > 1
    BY <1>5 DEF RunnerTypes
  <2>2. k - 1 \in 1..issued /\ k - 1 \in Nat \ {0} /\ Ctx(k - 1) = Other(Ctx(k)) /\ k - 1 >= issued - 1
        /\ Ctx(k) \in Contexts /\ Ctx(k - 1) \in Contexts /\ Ctx(k - 1) # Ctx(k)
    BY <2>1, Alternate
  <2>3. CASE c = Ctx(k - 1)
    <3>1. collectNext < k - 1
      BY <1>2, <2>2, <2>3, WorkIsUncollected
    <3>2. InProgress(k - 1)' /\ Before(k - 1)'
      BY <1>5, <2>1, <2>2, <2>3, <3>1, StageStep, ContextFrame
    <3>3. /\ commands'[Ctx(k)] = commands[Ctx(k)] /\ Bank(k)' = Bank(k)
          /\ QueuedEnd(Ctx(k - 1))' = QueuedEnd(Ctx(k - 1))
      BY <2>2, <2>3, ContextTypes DEF Bank
    <3>4. Queued(k)'
      BY <1>1, <1>5, <2>1, <3>3 DEF Queued, Left, StagedFor
    <3> QED BY <1>1, <1>5, <2>1, <3>2, <3>4 DEF Progress
  <2>4. CASE c = Ctx(k)
    <3>1. commands[c] = WaitUntil(QueuedEnd(Ctx(k - 1))) \o AfterWait(steps[k]) /\ StagedFor(k)
      BY <1>5, <2>1, <2>4 DEF Queued, Left
    <3>2. /\ executed[Ctx(k - 1)] \in Nat /\ Len(commands[Ctx(k - 1)]) \in Nat
          /\ commands[Ctx(k - 1)] \in Seq(Command)
      BY <2>2 DEF RunnerTypes
    <3>3. [op |-> "wait", until |-> QueuedEnd(Ctx(k - 1))] \in Command
      BY <3>2 DEF QueuedEnd, Command
    <3>4. AfterWait(steps[k]) \in Seq(Command)
      BY CommandLists
    <3>5. /\ Head(commands[c]) = [op |-> "wait", until |-> QueuedEnd(Ctx(k - 1))]
          /\ Tail(commands[c]) = AfterWait(steps[k])
      BY <3>1, <3>3, <3>4, Prepend DEF WaitUntil
    <3>6. Wait(c)
      BY <3>5, WhichCommand
    <3>7. executed[Ctx(k - 1)] >= QueuedEnd(Ctx(k - 1))
      BY <2>2, <2>4, <3>5, <3>6 DEF Wait
    <3>8. commands[Ctx(k - 1)] = <<>>
      BY <3>2, <3>7 DEF QueuedEnd
    <3>9. Finished(k - 1)
      BY <1>5, <2>1, <2>2, <3>8, EmptyQueue
    <3>10. /\ commands'[Ctx(k)] = AfterWait(steps[k]) /\ commands'[Ctx(k - 1)] = <<>>
           /\ UNCHANGED <<banks, ran>>
      BY <2>2, <2>4, <3>5, <3>6, <3>8, ContextTypes DEF Wait
    <3>11. Uploading(k)'
      BY <1>1, <3>1, <3>9, <3>10 DEF Uploading, Left, StagedFor, RanThrough, Bank, Finished
    <3>12. Before(k)'
      <4>1. Before(k)
        BY <2>1, <3>9 DEF Before, Finished
      <4> QED BY <2>1, <2>4, <4>1, ContextFrame
    <3> QED BY <1>1, <1>5, <2>1, <2>2, <3>10, <3>11, <3>12 DEF Progress, InProgress
  <2> QED BY <2>2, <2>3, <2>4 DEF Contexts
<1> QED BY <1>3, <1>4, <1>5 DEF Progress
-----------------------------------------------------------------------------
(* What the host leaves of a step on its way.                              *)
StepsKept(k) == \A m \in 1..k : steps'[m] = steps[m]
ResultsKept  ==
  \A c \in Contexts :
    /\ banks'[c].metadata = banks[c].metadata
    /\ banks'[c].selected = banks[c].selected
    /\ banks'[c].readback = banks[c].readback
StillSelected(k) == (Tainted(k) => Tainted(k)') /\ (Selected(k) => Selected(k)')

(* A step's results do not change with the steps behind it.                *)
LEMMA ExpectedKept ==
  ASSUME RunnerTypes, NEW k \in 1..issued, StepsKept(k)
  PROVE  /\ steps'[k] = steps[k]
         /\ Expected(k)' = Expected(k) /\ InputsOf(k)' = InputsOf(k)
         /\ k > 1 => steps'[k - 1] = steps[k - 1] /\ Expected(k - 1)' = Expected(k - 1)
<1>1. k \in Nat \ {0} /\ FirstUnchained(steps) /\ steps'[k] = steps[k] /\ steps'[1] = steps[1]
  BY FirstIsUnchained DEF RunnerTypes, StepsKept
<1>2. \A n \in 1..k : \A m \in 1..n : steps[m] = steps'[m]
  BY <1>1 DEF StepsKept
<1>3. \A n \in 1..k : Tickets!ResultsOf(steps, n) = Tickets!ResultsOf(steps', n)
  BY <1>1, <1>2, ResultsOfPrefix
<1>4. \A n \in 1..k : Expected(n)' = Expected(n)
  BY <1>3 DEF Expected
<1>5. k > 1 => k - 1 \in 1..k /\ steps'[k - 1] = steps[k - 1] /\ Expected(k - 1)' = Expected(k - 1)
  BY <1>1, <1>4 DEF StepsKept
<1>6. InputsOf(k)' = InputsOf(k)
  <2>1. CASE k = 1
    <3>1. \A i \in DOMAIN steps[k].sources : steps[k].sources[i] < 0
      BY <1>1, <2>1 DEF FirstUnchained
    <3> QED BY <1>1, <3>1 DEF InputsOf, Inputs
  <2>2. CASE k > 1
    BY <1>1, <1>5, <2>2 DEF InputsOf, Inputs
  <2> QED BY <1>1, <2>1, <2>2
<1> QED BY <1>1, <1>4, <1>5, <1>6

(* Nor does what its selection holds, while nothing is collected.          *)
LEMMA SelectionKept ==
  ASSUME RunnerTypes, NEW k \in 1..issued, StepsKept(k), ResultsKept, UNCHANGED collectNext
  PROVE  StillSelected(k) /\ (Done(k) => Done(k)')
<1>1. k \in Nat \ {0} /\ Ctx(k) \in Contexts /\ (k > 1 => Ctx(k - 1) \in Contexts)
  BY Alternate DEF RunnerTypes
<1>2. /\ Bank(k)'.selected = Bank(k).selected /\ Bank(k)'.readback = Bank(k).readback
      /\ k > 1 => Bank(k - 1)'.selected = Bank(k - 1).selected
  BY <1>1 DEF Bank, ResultsKept
<1>3. Samples(k)' = Samples(k) /\ (k > 1 => Samples(k - 1)' = Samples(k - 1)) /\ Expected(k)' = Expected(k)
  BY ExpectedKept DEF Samples
<1>4. Tainted(k)' = Tainted(k)
  BY <1>2, <1>3 DEF Tainted
<1>5. Selected(k)' = Selected(k)
  BY <1>2, <1>3, <1>4 DEF Selected
<1> QED BY <1>2, <1>3, <1>4, <1>5 DEF Done, StillSelected

(* So the step is as far as it was.                                        *)
LEMMA StageKept ==
  ASSUME RunnerTypes, NEW k \in 1..issued, StepsKept(k), ResultsKept, StillSelected(k),
         Bank(k)'.staging = Bank(k).staging, commands'[Ctx(k)] = commands[Ctx(k)],
         UNCHANGED <<ran, workspace>>, InProgress(k)
  PROVE  InProgress(k)'
<1>1. k \in Nat \ {0} /\ Ctx(k) \in Contexts
  BY Alternate DEF RunnerTypes
<1>2. /\ Bank(k)'.selected = Bank(k).selected /\ Bank(k)'.readback = Bank(k).readback
      /\ Bank(k)'.metadata = Bank(k).metadata
  BY <1>1 DEF Bank, ResultsKept
<1>3. steps'[k] = steps[k] /\ Samples(k)' = Samples(k) /\ InputsOf(k)' = InputsOf(k)
  BY ExpectedKept DEF Samples
<1>4. \A list : Left(k, list)' = Left(k, list)
  BY DEF Left
<1>5. \A n : RanThrough(n)' = RanThrough(n)
  BY DEF RanThrough
<1>6. StagedFor(k)' = StagedFor(k) /\ MetadataFor(k)' = MetadataFor(k)
  BY <1>2, <1>3 DEF StagedFor, MetadataFor
<1>7. InputsReady(k) => InputsReady(k)'
  BY <1>2, <1>3, <1>6 DEF InputsReady, StillSelected
<1>8. Waiting(k) => Waiting(k)'
  BY <1>3, <1>5, <1>6 DEF Waiting, Left, Runs
<1>9. Uploading(k) => Uploading(k)'
  BY <1>3, <1>5, <1>6 DEF Uploading, Left
<1>10. Chaining(k) => Chaining(k)'
  BY <1>2, <1>3, <1>5, <1>6 DEF Chaining, Left
<1>11. Running(k) => Running(k)'
  BY <1>3, <1>5, <1>7 DEF Running, Left
<1>12. Selecting(k) => Selecting(k)'
  BY <1>3, <1>5, <1>6 DEF Selecting, Left, StillSelected
<1>13. Reading(k) => Reading(k)'
  BY <1>3, <1>5 DEF Reading, Left, StillSelected
<1>14. Finished(k) => Finished(k)'
  BY <1>2, <1>3, <1>5 DEF Finished, Left, Done, StillSelected
<1> QED BY <1>8, <1>9, <1>10, <1>11, <1>12, <1>13, <1>14 DEF InProgress

(* Submission: the bank and the context are free, so the step is queued    *)
(* behind its predecessor.                                                 *)
LEMMA SubmitTypes ==
  ASSUME RunnerTypes, Bookkeeping, NEW step \in Shapes, Submit(step)
  PROVE  /\ RunnerTypes'
         /\ issued' = issued + 1 /\ steps' = Append(steps, step) /\ steps'[issued + 1] = step
         /\ \A k \in 1..issued : steps'[k] = steps[k]
         /\ UNCHANGED <<executed, workspace, ran, collectNext, valid, host>>
         /\ ResultsKept
         /\ LET c == issued % 2
            IN  /\ c = Ctx(issued + 1)
                /\ commands[c] = <<>> /\ ~banks[c].pending
                /\ commands'[c] = StepCommands(c, step)
                /\ \A d \in Contexts : d # c => commands'[d] = commands[d] /\ banks'[d] = banks[d]
                /\ banks'[c].staging = Staged(step) /\ banks'[c].ticket = issued
                /\ banks'[c].samples = step.samples /\ banks'[c].pending
<1> DEFINE c == issued % 2
<1>1. /\ issued \in Nat /\ issued = Len(steps) /\ steps \in Seq(Shapes)
      /\ collectNext \in 0..issued /\ issued <= collectNext + 2
      /\ SourcesExist(steps)
      /\ commands \in [Contexts -> Seq(Command)] /\ executed \in [Contexts -> Nat]
      /\ banks = [d \in Contexts |-> banks[d]] /\ \A d \in Contexts : IsBank(banks[d])
  BY DEF RunnerTypes
<1>2. c \in Contexts /\ c = Ctx(issued + 1)
  BY <1>1 DEF Ctx, Contexts
<1>3. /\ valid /\ Pending < 2 /\ ~banks[c].pending
      /\ Chained(step) =>
           /\ issued > 0
           /\ \A i \in DOMAIN step.sources : step.sources[i] < banks[Other(c)].samples
  BY DEF Submit, Accepted
<1>4. /\ commands' = [commands EXCEPT ![c] = @ \o StepCommands(c, step)]
      /\ banks' = [banks EXCEPT ![c] = [@ EXCEPT !.staging = Staged(step), !.ticket = issued,
                                             !.samples = step.samples, !.pending = TRUE]]
      /\ issued' = issued + 1 /\ steps' = Append(steps, step)
      /\ UNCHANGED <<executed, workspace, ran, collectNext, valid, host>>
  BY DEF Submit, QueueCommands
<1>5. commands[c] = <<>>
  BY <1>2, <1>3 DEF Bookkeeping
<1>6. StepCommands(c, step) \in Seq(Command)
  BY <1>2, SubmittedCommands
<1>7. /\ commands' \in [Contexts -> Seq(Command)] /\ commands'[c] = StepCommands(c, step)
      /\ \A d \in Contexts : d # c => commands'[d] = commands[d]
  <2>1. <<>> \o StepCommands(c, step) = StepCommands(c, step)
    BY <1>6, ConcatEmptySeq
  <2>2. commands' = [commands EXCEPT ![c] = StepCommands(c, step)]
    BY <1>1, <1>2, <1>4, <1>5, <2>1
  <2> HIDE DEF c
  <2> QED BY <1>1, <1>2, <1>6, <2>2
<1> DEFINE bank == [banks[c] EXCEPT !.staging = Staged(step), !.ticket = issued,
                                    !.samples = step.samples, !.pending = TRUE]
<1>8. /\ IsBank(bank) /\ bank.staging = Staged(step) /\ bank.ticket = issued
      /\ bank.samples = step.samples /\ bank.pending
      /\ bank.metadata = banks[c].metadata /\ bank.selected = banks[c].selected
      /\ bank.readback = banks[c].readback
  <2>1. IsBank(banks[c])
    BY <1>1, <1>2
  <2> HIDE DEF c
  <2> QED BY <2>1 DEF IsBank
<1>9. banks' = [d \in Contexts |-> IF d = c THEN bank ELSE banks[d]]
  BY <1>1, <1>4
<1> HIDE DEF bank, c
<1>10. /\ banks' = [d \in Contexts |-> banks'[d]] /\ \A d \in Contexts : IsBank(banks'[d])
       /\ ResultsKept
       /\ banks'[c] = bank /\ \A d \in Contexts : d # c => banks'[d] = banks[d]
  BY <1>1, <1>2, <1>8, <1>9 DEF ResultsKept
<1>11. /\ steps' \in Seq(Shapes) /\ issued' = Len(steps') /\ steps'[issued + 1] = step
       /\ \A k \in 1..issued : steps'[k] = steps[k]
  BY <1>1, <1>4, AppendProperties
<1>12. SourcesExist(steps')
  <2>1. SUFFICES ASSUME NEW k \in 1..Len(steps'), NEW i \in DOMAIN steps'[k].sources,
                        steps'[k].sources[i] >= 0
                 PROVE  k > 1 /\ steps'[k].sources[i] < steps'[k - 1].samples
    BY DEF SourcesExist
  <2>2. CASE k \in 1..issued
    <3>1. k > 1 /\ steps[k].sources[i] < steps[k - 1].samples
      BY <1>1, <1>11, <2>1, <2>2 DEF SourcesExist
    <3>2. k - 1 \in 1..issued
      BY <1>1, <2>2, <3>1
    <3> QED BY <1>11, <2>2, <3>1, <3>2
  <2>3. CASE k = issued + 1
    <3>1. Chained(step)
      BY <1>11, <2>1, <2>3 DEF Chained, Tickets!Chained
    <3>2. issued > 0 /\ step.sources[i] < banks[Other(c)].samples
      BY <1>3, <1>11, <2>1, <2>3, <3>1
    <3>3. banks[Other(c)].samples = steps[issued].samples
      <4>1. Bank(issued).samples = steps[issued].samples
        BY <3>2 DEF Bookkeeping
      <4>2. Ctx(issued) = Other(c)
        <5>1. issued \in Nat \ {0}
          BY <1>1, <3>2
        <5>2. c = Other(Ctx(issued)) /\ Ctx(issued) \in Contexts
          BY <1>2, <5>1, Alternate
        <5> QED BY <5>2 DEF Other, Contexts
      <4> QED BY <4>1, <4>2 DEF Bank
    <3>4. steps'[issued] = steps[issued]
      BY <1>1, <1>11, <3>2
    <3> QED BY <1>1, <1>11, <2>3, <3>2, <3>3, <3>4
  <2> QED BY <1>1, <1>4, <1>11, <2>1, <2>2, <2>3
<1>13. collectNext' \in 0..issued' /\ issued' <= collectNext' + 2
  BY <1>1, <1>3, <1>4 DEF Pending
<1>14. RunnerTypes'
  BY <1>1, <1>4, <1>7, <1>10, <1>11, <1>12, <1>13 DEF RunnerTypes
<1> QED BY <1>2, <1>3, <1>4, <1>5, <1>7, <1>8, <1>10, <1>11, <1>14 DEF c

(* Its bank is the new ticket's.                                           *)
LEMMA SubmitBookkeeping ==
  ASSUME RunnerTypes, Bookkeeping, NEW step \in Shapes, Submit(step)
  PROVE  Bookkeeping'
<1> DEFINE c == issued % 2
<1>1. /\ issued \in Nat /\ collectNext \in 0..issued /\ issued <= collectNext + 2
  BY DEF RunnerTypes
<1>2. PICK L \in Nat : L = issued
  BY <1>1
<1>a. /\ c = Ctx(L + 1) /\ c \in Contexts
      /\ L > 0 => Ctx(L) # c /\ Ctx(L) \in Contexts
  BY <1>2 DEF Ctx, Contexts
<1>b. /\ issued' = L + 1 /\ collectNext' = collectNext /\ L + 1 <= collectNext + 2
  <2>1. Pending < 2
    BY DEF Submit, Accepted
  <2> QED BY <1>1, <1>2, <2>1, SubmitTypes DEF Pending
<1>3. /\ commands[c] = <<>> /\ ~banks[c].pending
      /\ \A d \in Contexts : d # c => commands'[d] = commands[d] /\ banks'[d] = banks[d]
      /\ banks'[c].ticket = issued /\ banks'[c].samples = step.samples /\ banks'[c].pending
      /\ steps'[issued + 1] = step /\ \A k \in 1..issued : steps'[k] = steps[k]
  BY SubmitTypes
<1>4. Uncollected' = Uncollected \cup {L + 1}
  BY <1>1, <1>2, <1>b DEF Uncollected
<1>5. \A k \in Uncollected : k = L /\ L > 0
  BY <1>1, <1>2, <1>b DEF Uncollected
<1> HIDE DEF c
<1>8. /\ \A k \in Uncollected' : Bank(k)'.pending
      /\ \A k \in Uncollected' \cup ({issued'} \ {0}) :
           Bank(k)'.ticket = k - 1 /\ Bank(k)'.samples = steps'[k].samples
  <2>1. Bank(L + 1)' = banks'[c] /\ (L > 0 => Bank(L)' = Bank(L) /\ steps'[L] = steps[L])
    BY <1>2, <1>3, <1>a DEF Bank
  <2>2. \A k \in Uncollected' \cup ({issued'} \ {0}) : k = L + 1 \/ (k = L /\ k \in Uncollected /\ L > 0)
    BY <1>2, <1>b, <1>4, <1>5
  <2>3. banks'[c].ticket = (L + 1) - 1 /\ banks'[c].samples = steps'[L + 1].samples /\ banks'[c].pending
    BY <1>2, <1>3
  <2> QED BY <1>4, <2>1, <2>2, <2>3 DEF Bookkeeping
<1>9. \A d \in Contexts : banks'[d].pending => \E k \in Uncollected' : Ctx(k) = d
  BY <1>3, <1>a, <1>4 DEF Bookkeeping
<1>10. \A d \in Contexts : commands'[d] # <<>> => banks'[d].pending
  BY <1>3, <1>a DEF Bookkeeping
<1> QED BY <1>8, <1>9, <1>10 DEF Bookkeeping

(* It is the step in progress when it is the only one, and otherwise waits *)
(* for all its predecessor has queued.                                     *)
LEMMA SubmitProgress ==
  ASSUME RunnerTypes, Bookkeeping, Progress, NEW step \in Shapes, Submit(step)
  PROVE  Progress'
<1> DEFINE c == issued % 2
<1>1. /\ issued \in Nat /\ collectNext \in 0..issued /\ issued <= collectNext + 2
  BY DEF RunnerTypes
<1>2. PICK L \in Nat : L = issued
  BY <1>1
<1>3. /\ c = Ctx(L + 1) /\ c \in Contexts
      /\ L > 0 => Ctx(L) = Other(c) /\ Ctx(L) # c /\ Ctx(L) \in Contexts
      /\ Other(c) \in Contexts /\ Other(c) # c
      /\ L > 1 => Ctx(L - 1) = c
  BY <1>2 DEF Ctx, Contexts, Other
<1>4. /\ issued' = L + 1 /\ UNCHANGED <<collectNext, executed, workspace, ran>>
      /\ commands[c] = <<>> /\ commands'[c] = StepCommands(c, step)
      /\ \A d \in Contexts : d # c => commands'[d] = commands[d] /\ banks'[d] = banks[d]
      /\ banks'[c].staging = Staged(step)
      /\ steps'[L + 1] = step /\ \A k \in 1..L : steps'[k] = steps[k]
      /\ ResultsKept
  BY <1>2, SubmitTypes
<1> HIDE DEF c
<1>5. StagedFor(L + 1)'
  BY <1>2, <1>3, <1>4 DEF StagedFor, Staged, Bank
<1>6. /\ StepCommands(c, step) =
           IF L > 0 THEN WaitUntil(QueuedEnd(Other(c))) \o AfterWait(step) ELSE AfterWait(step)
  BY <1>2, <1>3, SubmittedCommands
<1>7. \A k \in 1..L : StepsKept(k)
  BY <1>4 DEF StepsKept
<1>8. CASE L = 0
  <2>1. AllSynchronized /\ RanThrough(0)
    BY <1>2, <1>8 DEF Progress
  <2>2. Uploading(L + 1)'
    BY <1>3, <1>4, <1>5, <1>6, <1>8, <2>1 DEF Uploading, Left, RanThrough
  <2>3. commands'[Other(Ctx(L + 1))] = <<>>
    BY <1>3, <1>4, <2>1 DEF AllSynchronized, Synchronized
  <2> QED BY <1>4, <1>8, <2>2, <2>3 DEF Progress, InProgress, Before
<1>9. CASE L > 0
  <2>1. L \in 1..issued /\ L \in Nat \ {0}
    BY <1>2, <1>9
  <2>2. InProgress(L) /\ Before(L)
    <3>1. CASE InProgress(issued) /\ Before(issued)
      BY <1>2, <3>1
    <3>2. CASE issued > 1 /\ Queued(issued) /\ Before(issued - 1) /\ InProgress(issued - 1)
      <4>1. Finished(L - 1)
        BY <1>2, <1>3, <1>4, <3>2, EmptyQueue
      <4>2. Before(L)
        BY <4>1 DEF Before, Finished
      <4>3. Left(L, WaitUntil(QueuedEnd(Ctx(L - 1))) \o AfterWait(steps[L])) /\ StagedFor(L)
        BY <1>2, <3>2 DEF Queued
      <4>4. [op |-> "wait", until |-> QueuedEnd(Ctx(L - 1))] \in Command
        <5>1. QueuedEnd(Ctx(L - 1)) \in Nat
          BY <1>2, <1>3, <3>2 DEF QueuedEnd, RunnerTypes
        <5> QED BY <5>1 DEF Command
      <4>5. AfterWait(steps[L]) \in Seq(Command)
        BY CommandLists
      <4>6. /\ Head(commands[Ctx(L)]) = [op |-> "wait", until |-> QueuedEnd(Ctx(L - 1))]
            /\ commands[Ctx(L)] # <<>>
            /\ commands[Ctx(L)] = <<Head(commands[Ctx(L)])>> \o AfterWait(steps[L])
        BY <4>3, <4>4, <4>5, Prepend DEF Left, WaitUntil
      <4>7. Waiting(L)
        BY <4>1, <4>3, <4>6 DEF Waiting, Runs, Left, Finished
      <4> QED BY <4>2, <4>7 DEF InProgress
    <3> QED BY <1>2, <1>9, <3>1, <3>2 DEF Progress
  <2>3. InProgress(L)'
    <3>1. StillSelected(L)
      BY <1>4, <1>7, <2>1, SelectionKept
    <3>2. Bank(L)'.staging = Bank(L).staging /\ commands'[Ctx(L)] = commands[Ctx(L)]
      BY <1>3, <1>4, <1>9 DEF Bank
    <3> QED BY <1>4, <1>7, <2>1, <2>2, <3>1, <3>2, StageKept
  <2>4. Before(L)'
    <3>1. ASSUME L > 1 PROVE Done(L - 1)'
      <4>1. L - 1 \in 1..issued /\ StepsKept(L - 1) /\ Done(L - 1)
        BY <1>2, <1>7, <2>2, <3>1 DEF Before
      <4> QED BY <1>4, <4>1, SelectionKept
    <3> QED BY <3>1 DEF Before
  <2>5. Queued(L + 1)'
    <3>1. QueuedEnd(Ctx(L))' = QueuedEnd(Ctx(L))
      BY <1>3, <1>4, <1>9 DEF QueuedEnd
    <3>2. commands'[Ctx(L + 1)] = WaitUntil(QueuedEnd(Ctx(L))) \o AfterWait(step)
      BY <1>3, <1>4, <1>6, <1>9
    <3>3. Ctx((L + 1) - 1) = Ctx(L)
      BY DEF Ctx
    <3>4. commands'[Ctx(L + 1)] = WaitUntil(QueuedEnd(Ctx((L + 1) - 1))') \o AfterWait(step)
      BY <3>1, <3>2, <3>3
    <3> QED BY <1>4, <1>5, <3>4 DEF Queued, Left
  <2> QED BY <1>4, <1>9, <2>3, <2>4, <2>5 DEF Progress
<1> QED BY <1>8, <1>9

(* Collection: the step has run, so what is read back is its result, and   *)
(* as it holds no nonfinite value, neither does what its successor read.   *)
LEMMA CollectedIsDone ==
  ASSUME RunnerTypes, Bookkeeping, Progress, Collect
  PROVE  /\ Done(collectNext + 1) /\ Bank(collectNext + 1).samples = steps[collectNext + 1].samples
         /\ collectNext % 2 = Ctx(collectNext + 1) /\ collectNext + 1 \in Uncollected
<1>1. /\ issued \in Nat /\ collectNext \in 0..issued /\ issued <= collectNext + 2
  BY DEF RunnerTypes
<1>2. PICK n \in Nat \ {0} : n = collectNext + 1
  BY <1>1
<1>3. n \in Uncollected /\ (issued = n \/ issued = n + 1) /\ Ctx(n) = collectNext % 2
  BY <1>1, <1>2 DEF Collect, Uncollected, Ctx
<1>4. commands[Ctx(n)] = <<>>
  BY <1>3 DEF Collect, Synchronized
<1>5. \A m \in {n, n + 1} : Queued(m) => commands[Ctx(m)] # <<>>
  <2>1. SUFFICES ASSUME NEW m \in {n, n + 1}, Queued(m) PROVE commands[Ctx(m)] # <<>>
    OBVIOUS
  <2>2. [op |-> "wait", until |-> QueuedEnd(Ctx(m - 1))] \in Command
    <3>1. Ctx(m - 1) \in Contexts
      BY <1>2 DEF Ctx, Contexts
    <3>2. QueuedEnd(Ctx(m - 1)) \in Nat
      BY <3>1 DEF QueuedEnd, RunnerTypes
    <3> QED BY <3>2 DEF Command
  <2>3. AfterWait(steps[m]) \in Seq(Command)
    BY CommandLists
  <2> QED BY <2>1, <2>2, <2>3, Prepend DEF Queued, Left, WaitUntil
<1>6. Done(n)
  <2>1. CASE issued = n
    <3>1. InProgress(n)
      BY <1>2, <1>4, <1>5, <2>1 DEF Progress
    <3> QED BY <1>4, <3>1, EmptyQueue DEF Finished
  <2>2. CASE issued = n + 1
    <3>1. Before(n + 1) \/ InProgress(n)
      BY <1>2, <2>2 DEF Progress
    <3>2. CASE Before(n + 1)
      BY <1>2, <3>2 DEF Before
    <3>3. CASE InProgress(n)
      BY <1>4, <3>3, EmptyQueue DEF Finished
    <3> QED BY <3>1, <3>2, <3>3
  <2> QED BY <1>3, <2>1, <2>2
<1>7. Bank(n).samples = steps[n].samples
  BY <1>3 DEF Bookkeeping
<1> QED BY <1>2, <1>3, <1>6, <1>7

(* So collection returns the expected tokens, and what its successor has   *)
(* read of them was not nonfinite.                                         *)
LEMMA CollectStep ==
  ASSUME RunnerTypes, Bookkeeping, Progress, Collect
  PROVE  /\ RunnerTypes' /\ Bookkeeping' /\ Progress'
         /\ ReadTokens(collectNext % 2) = Expected(collectNext + 1)
<1>1. /\ issued \in Nat /\ issued = Len(steps) /\ collectNext \in 0..issued /\ issued <= collectNext + 2
      /\ banks = [d \in Contexts |-> banks[d]] /\ \A d \in Contexts : IsBank(banks[d])
  BY DEF RunnerTypes
<1>2. PICK n \in Nat \ {0} : n = collectNext + 1
  BY <1>1
<1>3. /\ Done(n) /\ Bank(n).samples = steps[n].samples /\ Ctx(n) = collectNext % 2
      /\ n \in Uncollected /\ n \in 1..issued
  <2>1. /\ Done(n) /\ Bank(n).samples = steps[n].samples /\ Ctx(n) = collectNext % 2 /\ n \in Uncollected
    BY <1>2, CollectedIsDone
  <2> QED BY <1>1, <2>1 DEF Uncollected
<1>4. /\ Ctx(n) \in Contexts /\ (n > 1 => Ctx(n - 1) \in Contexts) /\ Ctx(n + 1) \in Contexts
      /\ Ctx(n + 1) # Ctx(n) /\ FirstUnchained(steps) /\ (issued = n \/ issued = n + 1)
  BY <1>1, <1>2, <1>3, Alternate, FirstIsUnchained
<1>5. Expected(n) = Outcome(steps, n, Expected(n - 1))
  BY <1>2, <1>4, ResultsStep DEF Expected
<1>6. /\ \A j \in Samples(n) : Bank(n).readback[j] # Faulty
      /\ ReadTokens(collectNext % 2) = [j \in Samples(n) |-> Bank(n).readback[j]]
  BY <1>3 DEF Collect, ReadTokens, Bank, Samples
<1>7. ~Tainted(n) /\ \A j \in Samples(n) : Bank(n).selected[j] # Faulty
  <2>1. ~(collectNext < n - 1)
    BY <1>1, <1>2
  <2>2. ~Tainted(n)
    BY <2>1 DEF Tainted
  <2>3. \A j \in Samples(n) : Bank(n).readback[j] = Bank(n).selected[j]
    BY <1>3 DEF Done
  <2> QED BY <1>6, <2>2, <2>3
<1>8. \A j \in Samples(n) : Bank(n).selected[j] = Expected(n)[j] /\ Expected(n)[j] # Faulty
  BY <1>3, <1>7 DEF Done, Selected
<1>9. ReadTokens(collectNext % 2) = Expected(n)
  <2>1. \A j \in Samples(n) : Bank(n).readback[j] = Expected(n)[j]
    BY <1>3, <1>8 DEF Done
  <2>2. Expected(n) = [j \in Samples(n) |-> Expected(n)[j]]
    BY <1>5 DEF Outcome, Samples
  <2> QED BY <1>6, <2>1, <2>2
<1>10. /\ collectNext' = n
       /\ UNCHANGED <<commands, executed, workspace, ran, issued, valid, host, steps>>
       /\ banks' = [banks EXCEPT ![Ctx(n)] = [@ EXCEPT !.pending = FALSE]]
  BY <1>2, <1>3 DEF Collect, deviceVars
<1>11. /\ banks' = [d \in Contexts |-> banks'[d]] /\ \A d \in Contexts : IsBank(banks'[d])
       /\ ~banks'[Ctx(n)].pending
       /\ \A d \in Contexts :
            /\ d # Ctx(n) => banks'[d] = banks[d]
            /\ banks'[d].staging = banks[d].staging
            /\ banks'[d].ticket = banks[d].ticket /\ banks'[d].samples = banks[d].samples
       /\ ResultsKept
  <2>1. IsBank(banks[Ctx(n)])
    BY <1>1, <1>4
  <2> DEFINE bank == [banks[Ctx(n)] EXCEPT !.pending = FALSE]
  <2>2. /\ IsBank(bank) /\ ~bank.pending
        /\ bank.staging = banks[Ctx(n)].staging
        /\ bank.ticket = banks[Ctx(n)].ticket /\ bank.samples = banks[Ctx(n)].samples
        /\ bank.metadata = banks[Ctx(n)].metadata /\ bank.selected = banks[Ctx(n)].selected
        /\ bank.readback = banks[Ctx(n)].readback
    BY <2>1 DEF IsBank
  <2>3. banks' = [d \in Contexts |-> IF d = Ctx(n) THEN bank ELSE banks[d]]
    BY <1>1, <1>10
  <2> HIDE DEF bank
  <2> QED BY <1>1, <1>4, <2>2, <2>3 DEF ResultsKept
<1>12. RunnerTypes'
  <2>1. collectNext' \in 0..issued' /\ issued' <= collectNext' + 2
    BY <1>1, <1>2, <1>3, <1>10
  <2>2. UNCHANGED <<steps, issued, commands, executed, valid, host>>
    BY <1>10
  <2> QED BY <1>11, <2>1, <2>2 DEF RunnerTypes, SourcesExist
<1>13. \A k \in 1..issued : StepsKept(k)
  BY <1>10 DEF StepsKept
<1>14. Uncollected' = Uncollected \ {n}
  BY <1>1, <1>2, <1>10 DEF Uncollected
<1>15. \A k \in Uncollected \ {n} : Ctx(k) # Ctx(n) /\ Ctx(k) \in Contexts
  BY <1>1, <1>2, <1>4 DEF Uncollected
<1>16. Bookkeeping'
  <2>1. \A k \in Uncollected' \cup ({issued'} \ {0}) : k \in Uncollected \cup ({issued} \ {0}) /\ Ctx(k) \in Contexts
    BY <1>1, <1>4, <1>10, <1>14, <1>15 DEF Ctx, Contexts
  <2>2. \A k \in Uncollected' \cup ({issued'} \ {0}) :
          Bank(k)'.ticket = k - 1 /\ Bank(k)'.samples = steps'[k].samples
    BY <1>10, <1>11, <2>1 DEF Bank, Bookkeeping
  <2>3. \A k \in Uncollected' : Bank(k)'.pending
    BY <1>11, <1>14, <1>15 DEF Bank, Bookkeeping
  <2>4. \A d \in Contexts : banks'[d].pending => \E k \in Uncollected' : Ctx(k) = d
    BY <1>11, <1>14 DEF Bookkeeping
  <2>5. commands[Ctx(n)] = <<>>
    BY <1>3 DEF Collect, Synchronized
  <2>6. \A d \in Contexts : commands'[d] # <<>> => banks'[d].pending
    BY <1>10, <1>11, <2>5 DEF Bookkeeping
  <2> QED BY <2>2, <2>3, <2>4, <2>6 DEF Bookkeeping
<1>17. \A k \in 1..issued : k >= n - 1 => StillSelected(k) /\ (Done(k) => Done(k)')
  <2> SUFFICES ASSUME NEW k \in 1..issued, k >= n - 1
               PROVE  StillSelected(k) /\ (Done(k) => Done(k)')
    OBVIOUS
  <2>1. k \in Nat \ {0} /\ Ctx(k) \in Contexts /\ (k > 1 => Ctx(k - 1) \in Contexts)
    BY <1>1, Alternate
  <2>2. ~Tainted(k)
    <3>1. CASE k = n + 1
      BY <1>7, <3>1 DEF Tainted
    <3>2. CASE k # n + 1
      BY <1>1, <1>2, <1>4, <3>2 DEF Tainted
    <3> QED BY <3>1, <3>2
  <2>3. Bank(k)'.selected = Bank(k).selected /\ Bank(k)'.readback = Bank(k).readback
    BY <1>11, <2>1 DEF Bank, ResultsKept
  <2>4. Samples(k)' = Samples(k) /\ Expected(k)' = Expected(k)
    BY <1>13, ExpectedKept DEF Samples
  <2>5. Selected(k) => Selected(k)'
    <3>1. CASE k = n
      BY <1>8, <2>3, <2>4, <3>1 DEF Selected
    <3>2. CASE k = n + 1
      <4>1. collectNext' < k
        BY <1>2, <1>10, <3>2
      <4> QED BY <2>2, <2>3, <2>4, <4>1 DEF Selected
    <3>3. CASE k = n - 1
      <4>1. ~(collectNext < k)
        BY <1>1, <1>2, <3>3
      <4> QED BY <2>2, <2>3, <2>4, <4>1 DEF Selected
    <3> QED BY <1>1, <1>2, <1>4, <3>1, <3>2, <3>3
  <2> QED BY <2>2, <2>3, <2>4, <2>5 DEF StillSelected, Done
<1>18. \A k \in 1..issued : k >= n /\ InProgress(k) => InProgress(k)'
  <2> SUFFICES ASSUME NEW k \in 1..issued, k >= n, InProgress(k) PROVE InProgress(k)'
    OBVIOUS
  <2>1. Ctx(k) \in Contexts /\ StillSelected(k)
    BY <1>1, <1>2, <1>17, Alternate
  <2>2. Bank(k)'.staging = Bank(k).staging /\ commands'[Ctx(k)] = commands[Ctx(k)]
    BY <1>10, <1>11, <2>1 DEF Bank
  <2> QED BY <1>10, <1>11, <1>13, <2>1, <2>2, StageKept
<1>19. \A k \in 1..issued : k >= n /\ Before(k) => Before(k)'
  BY <1>1, <1>2, <1>17 DEF Before
<1>20. PICK L \in 1..issued : L = issued /\ L >= n
  BY <1>1, <1>3, <1>4
<1>21. Progress'
  <2>1. CASE commands[Other(Ctx(issued))] = <<>> /\ Before(issued) /\ InProgress(issued)
    BY <1>3, <1>10, <1>18, <1>19, <1>20, <2>1 DEF Progress
  <2>2. CASE issued > 1 /\ Queued(issued) /\ Before(issued - 1) /\ InProgress(issued - 1)
    <3>1. issued # n
      <4>1. commands[Ctx(n)] = <<>>
        BY <1>3 DEF Collect, Synchronized
      <4>2. ASSUME issued = n PROVE FALSE
        <5>1. [op |-> "wait", until |-> QueuedEnd(Ctx(n - 1))] \in Command
          <6>1. QueuedEnd(Ctx(n - 1)) \in Nat
            BY <1>4, <2>2, <4>2 DEF QueuedEnd, RunnerTypes
          <6> QED BY <6>1 DEF Command
        <5>2. AfterWait(steps[n]) \in Seq(Command)
          BY CommandLists
        <5> QED BY <2>2, <4>1, <4>2, <5>1, <5>2, Prepend DEF Queued, Left, WaitUntil
      <4> QED BY <4>2
    <3>2. L = n + 1 /\ n = L - 1 /\ n >= n
      BY <1>4, <1>20, <3>1
    <3>3. InProgress(n)' /\ Before(n)'
      BY <1>3, <1>18, <1>19, <1>20, <2>2, <3>2
    <3>4. Queued(L)'
      <4>1. Bank(L)'.staging = Bank(L).staging
        BY <1>4, <1>11, <3>2 DEF Bank
      <4>2. QueuedEnd(Ctx(L - 1))' = QueuedEnd(Ctx(L - 1))
        BY <1>10 DEF QueuedEnd
      <4> QED BY <1>10, <1>20, <2>2, <4>1, <4>2 DEF Queued, Left, StagedFor
    <3> QED BY <1>10, <1>20, <2>2, <3>2, <3>3, <3>4 DEF Progress
  <2> QED BY <1>1, <1>3, <2>1, <2>2 DEF Progress
<1> QED BY <1>2, <1>9, <1>12, <1>16, <1>21

(* A drain with nothing pending changes no step, ...                       *)
LEMMA DrainStep ==
  ASSUME RunnerInv, DrainBoth
  PROVE  RunnerInv'
<1>1. /\ RunnerTypes /\ issued \in Nat /\ collectNext \in 0..issued /\ host = "drain"
      /\ banks = [d \in Contexts |-> banks[d]] /\ \A d \in Contexts : IsBank(banks[d])
      /\ commands \in [Contexts -> Seq(Command)]
  BY DEF RunnerInv, RunnerTypes, DrainBoth
<1>2. /\ AllSynchronized /\ banks' = [c \in Contexts |-> [banks[c] EXCEPT !.pending = FALSE]]
      /\ collectNext' = issued /\ host' = (IF Pending = 0 THEN "ready" ELSE "over")
      /\ UNCHANGED <<commands, executed, workspace, ran, issued, valid, steps>>
  BY DEF DrainBoth, deviceVars
<1>3. \A c \in Contexts :
        /\ IsBank(banks'[c]) /\ ~banks'[c].pending
        /\ banks'[c].staging = banks[c].staging
        /\ banks'[c].ticket = banks[c].ticket /\ banks'[c].samples = banks[c].samples
        /\ banks'[c].metadata = banks[c].metadata /\ banks'[c].selected = banks[c].selected
        /\ banks'[c].readback = banks[c].readback
  <2> SUFFICES ASSUME NEW c \in Contexts
               PROVE /\ IsBank(banks'[c]) /\ ~banks'[c].pending
                     /\ banks'[c].staging = banks[c].staging
                     /\ banks'[c].ticket = banks[c].ticket /\ banks'[c].samples = banks[c].samples
                     /\ banks'[c].metadata = banks[c].metadata /\ banks'[c].selected = banks[c].selected
                     /\ banks'[c].readback = banks[c].readback
    OBVIOUS
  <2>1. banks'[c] = [banks[c] EXCEPT !.pending = FALSE] /\ IsBank(banks[c])
    BY <1>1, <1>2
  <2> QED BY <2>1 DEF IsBank
<1>4. banks' = [d \in Contexts |-> banks'[d]]
  BY <1>2
<1>5. RunnerTypes'
  <2>1. collectNext' \in 0..issued' /\ issued' <= collectNext' + 2 /\ host' \in {"ready", "drain", "over"}
    BY <1>1, <1>2
  <2> QED BY <1>1, <1>2, <1>3, <1>4, <2>1 DEF RunnerTypes, SourcesExist
<1>6. Pending' = 0 /\ AllSynchronized'
  BY <1>1, <1>2 DEF Pending, AllSynchronized, Synchronized
<1>7. ASSUME valid', host' # "over" PROVE Bookkeeping' /\ Progress'
  <2>1. Pending = 0 /\ collectNext' = collectNext /\ Bookkeeping /\ Progress /\ collectNext = issued
    BY <1>1, <1>2, <1>7 DEF Pending, RunnerInv
  <2>2. Uncollected = {} /\ Uncollected' = {}
    BY <1>1, <1>2, <2>1 DEF Uncollected
  <2>3. \A k \in {issued} \ {0} : Bank(k)'.ticket = Bank(k).ticket /\ Bank(k)'.samples = Bank(k).samples
    <3>1. \A k \in Nat : Ctx(k) \in Contexts
      BY DEF Ctx, Contexts
    <3> QED BY <1>1, <1>3, <3>1 DEF Bank
  <2>4. Bookkeeping'
    <3>1. \A k \in {issued'} \ {0} : Bank(k)'.ticket = k - 1 /\ Bank(k)'.samples = steps'[k].samples
      BY <1>2, <2>1, <2>3 DEF Bookkeeping
    <3>2. \A c \in Contexts : commands'[c] = <<>>
      BY <1>6 DEF AllSynchronized, Synchronized
    <3> QED BY <1>3, <2>2, <3>1, <3>2 DEF Bookkeeping
  <2>5. CASE issued = 0
    BY <1>2, <1>6, <2>1, <2>4, <2>5 DEF Progress, RanThrough
  <2>6. CASE issued > 0
    <3>1. PICK L \in 1..issued : L = issued /\ L \in Nat \ {0}
      BY <1>1, <2>6
    <3>2. \A c \in Contexts : commands[c] = <<>>
      BY <1>2 DEF AllSynchronized, Synchronized
    <3>3. Ctx(L) \in Contexts /\ Other(Ctx(L)) \in Contexts
      BY <3>1, Alternate
    <3>4. ~Queued(L)
      <4>1. ASSUME Queued(L) PROVE FALSE
        <5>1. [op |-> "wait", until |-> QueuedEnd(Ctx(L - 1))] \in Command
          <6>1. Ctx(L - 1) \in Contexts
            BY <3>1 DEF Ctx, Contexts
          <6>2. QueuedEnd(Ctx(L - 1)) \in Nat
            BY <1>1, <6>1 DEF QueuedEnd, RunnerTypes
          <6> QED BY <6>2 DEF Command
        <5>2. AfterWait(steps[L]) \in Seq(Command)
          BY CommandLists
        <5> QED BY <3>2, <3>3, <4>1, <5>1, <5>2, Prepend DEF Queued, Left, WaitUntil
      <4> QED BY <4>1
    <3>5. Before(L) /\ InProgress(L)
      BY <2>1, <2>6, <3>1, <3>4 DEF Progress
    <3>6. \A k \in 1..issued : StepsKept(k)
      BY <1>2 DEF StepsKept
    <3>7. ResultsKept
      BY <1>3 DEF ResultsKept
    <3>8. \A k \in 1..issued : StillSelected(k) /\ (Done(k) => Done(k)')
      BY <1>1, <2>1, <3>6, <3>7, SelectionKept
    <3>9. InProgress(L)'
      <4>1. Bank(L)'.staging = Bank(L).staging /\ commands'[Ctx(L)] = commands[Ctx(L)]
        BY <1>2, <1>3, <3>3 DEF Bank
      <4> QED BY <1>1, <1>2, <3>1, <3>5, <3>6, <3>7, <3>8, <4>1, StageKept
    <3>10. Before(L)'
      <4>1. L > 1 => L - 1 \in 1..issued
        BY <1>1, <3>1
      <4> QED BY <3>5, <3>8, <4>1 DEF Before
    <3> QED BY <1>2, <2>4, <2>6, <3>1, <3>2, <3>3, <3>9, <3>10 DEF Progress
  <2> QED BY <1>1, <2>4, <2>5, <2>6
<1> QED BY <1>5, <1>6, <1>7 DEF RunnerInv

(* ... and a reset clock starts over.                                      *)
LEMMA ResetStep ==
  ASSUME RunnerInv, ResetClock
  PROVE  RunnerInv'
<1>1. /\ banks = [d \in Contexts |-> banks[d]] /\ \A d \in Contexts : IsBank(banks[d])
      /\ commands \in [Contexts -> Seq(Command)] /\ valid \in BOOLEAN
  BY DEF RunnerInv, RunnerTypes
<1>2. /\ AllSynchronized /\ host = "ready"
      /\ banks' = [c \in Contexts |-> [banks[c] EXCEPT !.ticket = -1, !.samples = 0, !.pending = FALSE]]
      /\ issued' = 0 /\ collectNext' = 0 /\ executed' = [c \in Contexts |-> 0] /\ ran' = <<>>
      /\ steps' = <<>> /\ UNCHANGED <<commands, valid, host>>
  BY DEF ResetClock
<1>a. issued' = 0 /\ collectNext' = 0 /\ steps' = <<>>
  BY <1>2
<1>3. \A c \in Contexts : IsBank(banks'[c]) /\ ~banks'[c].pending
  <2> SUFFICES ASSUME NEW c \in Contexts PROVE IsBank(banks'[c]) /\ ~banks'[c].pending
    OBVIOUS
  <2>1. /\ banks'[c] = [banks[c] EXCEPT !.ticket = -1, !.samples = 0, !.pending = FALSE]
        /\ IsBank(banks[c])
    BY <1>1, <1>2
  <2> QED BY <2>1 DEF IsBank
<1>4. RunnerTypes'
  <2>1. banks' = [d \in Contexts |-> banks'[d]]
    BY <1>2
  <2>2. steps' \in Seq(Shapes) /\ Len(steps') = 0 /\ SourcesExist(steps')
    BY <1>a DEF SourcesExist
  <2>3. executed' \in [Contexts -> Nat]
    BY <1>2
  <2>4. collectNext' \in 0..issued' /\ issued' <= collectNext' + 2
    BY <1>a
  <2> QED BY <1>1, <1>2, <1>3, <2>1, <2>2, <2>3, <2>4 DEF RunnerTypes
<1>5. \A c \in Contexts : commands'[c] = <<>>
  BY <1>2 DEF AllSynchronized, Synchronized
<1>6. Uncollected' = {} /\ {issued'} \ {0} = {}
  <2>1. Uncollected' = (0 + 1)..0
    BY <1>a DEF Uncollected
  <2> QED BY <1>a, <2>1
<1>7. Bookkeeping'
  BY <1>3, <1>5, <1>6 DEF Bookkeeping
<1>8. Progress'
  <2>1. <<>> = [m \in 1..0 |-> m]
    OBVIOUS
  <2> QED BY <1>2, <1>5, <2>1 DEF Progress, AllSynchronized, Synchronized, RanThrough
<1> QED BY <1>2, <1>4, <1>7, <1>8 DEF RunnerInv

(* A failure keeps the types, and nothing more is claimed of the runner.   *)
LEMMA FailureStep ==
  ASSUME RunnerInv,
         \/ \E step \in Shapes, n \in 0..5 : SubmitFails(step, n)
         \/ CollectFails \/ DrainFails \/ Invalidate
  PROVE  RunnerInv' /\ ~valid'
<1>1. RunnerTypes
  BY DEF RunnerInv
<1>2. ASSUME NEW step \in Shapes, NEW n \in 0..5, SubmitFails(step, n)
      PROVE  RunnerInv' /\ ~valid'
  <2> DEFINE c == issued % 2
             queued == SubSeq(StepCommands(c, step), 1, n)
  <2>1. /\ commands' = [commands EXCEPT ![c] = @ \o queued]
        /\ banks' = [banks EXCEPT ![c].staging = Staged(step)]
        /\ n < Len(StepCommands(c, step))
        /\ valid' = FALSE /\ host' = "drain" /\ UNCHANGED <<executed, issued, collectNext, steps>>
    BY <1>2 DEF SubmitFails, QueueCommands
  <2>2. c \in Contexts
    BY <1>1 DEF RunnerTypes, Contexts
  <2> HIDE DEF c
  <2>3. queued \in Seq(Command)
    <3>1. StepCommands(c, step) \in Seq(Command)
      BY <1>1, <2>2, SubmittedCommands
    <3> QED BY <3>1, <2>1, SubSeqProperties
  <2> HIDE DEF queued
  <2>4. commands' \in [Contexts -> Seq(Command)]
    <3>1. commands \in [Contexts -> Seq(Command)] 
      BY <1>1 DEF RunnerTypes
    <3>2. commands[c] \o queued \in Seq(Command)
      BY <2>2, <2>3, <3>1, ConcatProperties
    <3> QED BY <2>1, <2>2, <3>1, <3>2
  <2>5. banks' = [d \in Contexts |-> banks'[d]] /\ \A d \in Contexts : IsBank(banks'[d])
    <3>1. banks = [d \in Contexts |-> banks[d]] /\ \A d \in Contexts : IsBank(banks[d])
      BY <1>1 DEF RunnerTypes
    <3> DEFINE bank == [banks[c] EXCEPT !.staging = Staged(step)]
    <3>2. IsBank(bank)
      <4>1. IsBank(banks[c])
        BY <2>2, <3>1
      <4> QED BY <4>1 DEF IsBank
    <3>3. banks' = [d \in Contexts |-> IF d = c THEN bank ELSE banks[d]]
      BY <2>1, <3>1
    <3> HIDE DEF bank
    <3> QED BY <3>1, <3>2, <3>3
  <2> QED BY <1>1, <2>1, <2>4, <2>5 DEF RunnerInv, RunnerTypes, SourcesExist
<1>3. CASE CollectFails \/ DrainFails \/ Invalidate
  <2>1. /\ UNCHANGED <<banks, commands, executed, issued, collectNext, steps>>
        /\ valid' = FALSE /\ host' \in {"ready", "drain"}
    BY <1>3 DEF CollectFails, DrainFails, Invalidate, deviceVars
  <2> QED BY <1>1, <2>1 DEF RunnerInv, RunnerTypes, SourcesExist
<1> QED BY <1>2, <1>3
-----------------------------------------------------------------------------
(* The invariant holds at the start and after every step.                  *)
LEMMA InitRunnerInv == RunnerInit => RunnerInv
<1> SUFFICES ASSUME RunnerInit PROVE RunnerInv
  OBVIOUS
<1>1. /\ issued = 0 /\ collectNext = 0 /\ steps = <<>> /\ host = "ready" /\ valid = TRUE /\ ran = <<>>
      /\ commands = [c \in Contexts |-> <<>>] /\ executed = [c \in Contexts |-> 0]
  BY DEF RunnerInit
<1>2. banks = [c \in Contexts |-> EmptyBank]
  BY DEF RunnerInit
<1>3. IsBank(EmptyBank) /\ ~EmptyBank.pending
  BY DEF EmptyBank, IsBank
<1>4. /\ banks = [c \in Contexts |-> banks[c]] /\ \A c \in Contexts : IsBank(banks[c]) /\ ~banks[c].pending
  BY <1>2, <1>3
<1>5. RunnerTypes
  <2>1. steps \in Seq(Shapes) /\ Len(steps) = 0 /\ SourcesExist(steps)
    BY <1>1 DEF SourcesExist
  <2>2. issued = Len(steps) /\ collectNext \in 0..issued /\ issued <= collectNext + 2
    BY <1>1, <2>1
  <2>3. commands \in [Contexts -> Seq(Command)] /\ executed \in [Contexts -> Nat]
    BY <1>1
  <2>4. valid \in BOOLEAN /\ host \in {"ready", "drain", "over"}
    BY <1>1
  <2> QED BY <1>4, <2>1, <2>2, <2>3, <2>4 DEF RunnerTypes
<1>6. \A c \in Contexts : commands[c] = <<>>
  BY <1>1
<1>7. Uncollected = {} /\ {issued} \ {0} = {}
  BY <1>1 DEF Uncollected
<1>8. Bookkeeping
  BY <1>4, <1>6, <1>7 DEF Bookkeeping
<1>9. Progress
  <2>1. <<>> = [m \in 1..0 |-> m]
    OBVIOUS
  <2> QED BY <1>1, <1>6, <2>1 DEF Progress, AllSynchronized, Synchronized, RanThrough
<1> QED BY <1>1, <1>5, <1>8, <1>9 DEF RunnerInv

(* It does not depend on the histories.                                    *)
LEMMA NothingMoves ==
  ASSUME UNCHANGED <<banks, commands, executed, workspace, ran, issued, collectNext, steps>>
  PROVE  (Bookkeeping => Bookkeeping') /\ (Progress => Progress')
<1>1. Bookkeeping => Bookkeeping'
  BY DEF Bookkeeping, Uncollected, Bank
<1>2. Progress => Progress'
  BY DEF Progress, AllSynchronized, Synchronized, RanThrough, Queued, QueuedEnd, Left, StagedFor, Bank,
     Before, Done, Selected, Tainted, Samples, Expected, InProgress, Waiting, Runs, Uploading,
     Chaining, MetadataFor, Running, InputsReady, InputsOf, Selecting, Reading, Finished
<1> QED BY <1>1, <1>2

(* ... after every step of the host, ...                                   *)
LEMMA HostStep ==
  ASSUME RunnerInv, HostNext
  PROVE  RunnerInv'
<1>1. CASE \E step \in Shapes : Submit(step)
  <2>1. PICK step \in Shapes : Submit(step)
    BY <1>1
  <2>2. host = "ready" /\ valid /\ host' = host
    BY <2>1 DEF Submit, Accepted
  <2> QED BY <2>1, <2>2, SubmitTypes, SubmitBookkeeping, SubmitProgress DEF RunnerInv
<1>2. CASE Collect
  <2>1. host = "ready" /\ valid /\ host' = host
    BY <1>2 DEF Collect
  <2> QED BY <1>2, <2>1, CollectStep DEF RunnerInv
<1>3. CASE StartDrain
  <2>1. /\ host = "ready" /\ host' = "drain"
        /\ UNCHANGED <<banks, commands, executed, workspace, ran, issued, collectNext, valid, steps>>
    BY <1>3 DEF StartDrain, deviceVars
  <2>2. RunnerTypes'
    BY <2>1 DEF RunnerInv, RunnerTypes, SourcesExist
  <2>3. (Bookkeeping => Bookkeeping') /\ (Progress => Progress')
    BY <2>1, NothingMoves
  <2> QED BY <2>1, <2>2, <2>3 DEF RunnerInv
<1>4. CASE DrainBoth
  BY <1>4, DrainStep
<1>5. CASE ResetClock
  BY <1>5, ResetStep
<1>6. CASE \/ \E step \in Shapes, n \in 0..5 : SubmitFails(step, n)
           \/ CollectFails \/ DrainFails \/ Invalidate
  BY <1>6, FailureStep
<1> QED BY <1>1, <1>2, <1>3, <1>4, <1>5, <1>6 DEF HostNext

(* ... and after every command of a context.                               *)
LEMMA ContextInv ==
  ASSUME RunnerInv, NEW c \in Contexts, ContextNext(c)
  PROVE  RunnerInv'
<1>1. RunnerTypes' /\ UNCHANGED <<valid, host>> /\ commands[c] # <<>>
  BY ContextStep, ContextTypes DEF RunnerInv, hostVars
<1>2. host # "over" /\ RunnerTypes
  BY <1>1 DEF RunnerInv, AllSynchronized, Synchronized
<1>3. Bookkeeping /\ Progress => Bookkeeping' /\ Progress'
  BY <1>2, ContextBookkeeping, ContextProgress
<1> QED BY <1>1, <1>2, <1>3 DEF RunnerInv

(* A stutter changes nothing.                                              *)
LEMMA UnchangedInv ==
  ASSUME RunnerInv, UNCHANGED runnerVars
  PROVE  RunnerInv'
<1>1. /\ UNCHANGED <<banks, commands, executed, workspace, ran, issued, collectNext, valid, steps, host>>
  BY DEF runnerVars, deviceVars, hostVars
<1>2. RunnerTypes'
  BY <1>1 DEF RunnerInv, RunnerTypes, SourcesExist
<1>3. (Bookkeeping => Bookkeeping') /\ (Progress => Progress')
  BY <1>1, NothingMoves
<1> QED BY <1>1, <1>2, <1>3 DEF RunnerInv, Pending, AllSynchronized, Synchronized

(* Whatever is submitted and however the contexts interleave, of the steps *)
(* on their way one is in progress, from the inputs its predecessor left   *)
(* for it (submit and collect of QwenAsyncRunner, forward_staged).         *)
THEOREM RunnerInductive == RunnerSpec => []RunnerInv
<1>1. RunnerInv /\ [RunnerNext]_runnerVars => RunnerInv'
  BY HostStep, ContextInv, UnchangedInv DEF RunnerNext
<1> QED BY <1>1, InitRunnerInv, PTL DEF RunnerSpec

(* A drain that has succeeded, and a healthy runner with nothing pending,  *)
(* leave no command on either context: the KV blocks of the steps may be   *)
(* released (drain of QwenAsyncRunner).                                    *)
THEOREM DrainedIsDone == RunnerSpec => []IdleIsDone
<1>1. RunnerInv => IdleIsDone
  <2>1. SUFFICES ASSUME RunnerInv, Pending = 0, host = "over" \/ (host = "ready" /\ valid)
                 PROVE  \A c \in Contexts : commands[c] = <<>>
    BY DEF IdleIsDone
  <2>2. CASE host = "over"
    BY <2>1, <2>2 DEF RunnerInv, AllSynchronized, Synchronized
  <2>3. CASE host = "ready" /\ valid
    <3>1. Uncollected = {}
      BY <2>1 DEF Uncollected, Pending, RunnerInv, RunnerTypes
    <3> QED BY <2>1, <2>3, <3>1 DEF RunnerInv, Bookkeeping
  <2> QED BY <2>1, <2>2, <2>3
<1> QED BY <1>1, RunnerInductive, PTL

(* The runner implements the ticket service: two tickets at most, answered *)
(* in order, each with the tokens that running the steps one after the     *)
(* other gives (submit, collect, drain and reset_clock of QwenAsyncRunner).*)
THEOREM RunnerImplementsTickets == RunnerSpec => RunsInOrder
<1>1. RunnerInit => Tickets!TicketInit
  BY DEF RunnerInit, Tickets!TicketInit
<1>2. RunnerInv /\ [RunnerNext]_runnerVars => [Tickets!TicketNext]_(Tickets!ticketVars)
  <2> USE DEF Tickets!ticketVars
  <2>1. SUFFICES ASSUME RunnerInv, [RunnerNext]_runnerVars
                 PROVE  [Tickets!TicketNext]_(Tickets!ticketVars)
    OBVIOUS
  <2>2. issued = Len(steps) /\ steps \in Seq(Shapes) /\ issued \in Nat /\ collectNext \in 0..issued
    BY <2>1 DEF RunnerInv, RunnerTypes
  <2>3. CASE \E step \in Shapes : Submit(step)
    <3>1. PICK step \in Shapes : Submit(step)
      BY <2>3
    <3>2. /\ host = "ready" /\ valid /\ Pending < 2
          /\ Chained(step) =>
               /\ issued > 0
               /\ \A i \in DOMAIN step.sources : step.sources[i] < banks[Other(issued % 2)].samples
      BY <3>1 DEF Submit, Accepted
    <3>3. /\ steps' = Append(steps, step) /\ UNCHANGED <<collectNext, answered, valid>>
      BY <3>1 DEF Submit
    <3>4. steps' # <<>> /\ steps'[Len(steps')] = step
      BY <2>2, <3>3, AppendProperties
    <3>5. issued > 0 => banks[Other(issued % 2)].samples = steps[Len(steps)].samples
      <4>1. ASSUME issued > 0 PROVE banks[Other(issued % 2)].samples = steps[Len(steps)].samples
        <5>1. Bank(issued).samples = steps[issued].samples
          BY <2>1, <3>2, <4>1 DEF RunnerInv, Bookkeeping
        <5>2. Ctx(issued) = Other(issued % 2)
          <6>1. issued \in Nat \ {0}
            BY <2>2, <4>1
          <6>2. issued % 2 = Other(Ctx(issued)) /\ Ctx(issued) \in Contexts
            BY <6>1, Alternate
          <6> QED BY <6>2 DEF Other, Contexts
        <5> QED BY <2>2, <5>1, <5>2 DEF Bank
      <4> QED BY <4>1
    <3>6. Chained(step) => steps # <<>> /\ \A i \in DOMAIN step.sources : step.sources[i] < steps[Len(steps)].samples
      BY <2>2, <3>2, <3>5
    <3>7. Len(steps) < collectNext + 2
      BY <2>2, <3>2 DEF Pending
    <3>8. Tickets!Take(steps'[Len(steps')])
      BY <3>2, <3>3, <3>4, <3>6, <3>7 DEF Tickets!Take, Chained
    <3> QED BY <3>4, <3>8 DEF Tickets!TicketNext
  <2>4. CASE Collect
    <3>1. /\ host = "ready" /\ valid /\ collectNext < issued /\ collectNext' = collectNext + 1
          /\ answered' = <<collectNext + 1, ReadTokens(collectNext % 2)>> /\ UNCHANGED <<steps, valid>>
      BY <2>4 DEF Collect
    <3>2. ReadTokens(collectNext % 2) = Tickets!ResultsOf(steps, collectNext + 1)
      BY <2>1, <2>4, <3>1, CollectStep DEF RunnerInv, Expected
    <3>3. answered' = <<collectNext', Tickets!ResultsOf(steps, collectNext')>>
      BY <3>1, <3>2
    <3> QED BY <2>2, <3>1, <3>3 DEF Tickets!TicketNext, Tickets!Answer
  <2>5. CASE DrainBoth
    BY <2>2, <2>5 DEF DrainBoth, deviceVars, Tickets!TicketNext, Tickets!Finish
  <2>6. CASE ResetClock
    <3>1. collectNext = Len(steps)
      <4>1. issued - collectNext = 0
        BY <2>6 DEF ResetClock, Pending
      <4> QED BY <2>2, <4>1
    <3> QED BY <2>6, <3>1 DEF ResetClock, Tickets!TicketNext, Tickets!Restart
  <2>7. CASE \/ \E step \in Shapes, n \in 0..5 : SubmitFails(step, n)
             \/ CollectFails \/ DrainFails \/ Invalidate
    BY <2>7 DEF SubmitFails, CollectFails, DrainFails, Invalidate, deviceVars, Tickets!TicketNext, Tickets!Fail
  <2>8. CASE StartDrain
    BY <2>8 DEF StartDrain
  <2>9. CASE \E c \in Contexts : ContextNext(c)
    BY <2>1, <2>9, ContextStep DEF RunnerInv, hostVars
  <2>10. CASE UNCHANGED runnerVars
    BY <2>10 DEF runnerVars, hostVars
  <2> QED BY <2>1, <2>3, <2>4, <2>5, <2>6, <2>7, <2>8, <2>9, <2>10 DEF RunnerNext, HostNext
<1> QED BY <1>1, <1>2, RunnerInductive, PTL DEF RunnerSpec, RunsInOrder, Tickets!TicketSpec
-----------------------------------------------------------------------------
Token  == Sampled \cup UNION {Range(p) : p \in Prompts}
Tenant == Salts \cup {""}

(* A sequence reads its own rows, under its own keys.                      *)
Owns(s) == OwnRows(s, client[s].tokens, client[s].salt)

(* The arguments of an operation in progress are those the client knows.   *)
CallFits ==
  /\ call.op = "admit" => Matched(call.cached, client[0].tokens, client[0].salt)
  /\ call.op = "publish" =>
       /\ client[call.sequence].salt = call.salt
       /\ client[call.sequence].tokens = call.tokens

ClientInv ==
  /\ CacheInv(Tenant, Token)
  /\ RowsTyped(Token)
  /\ EntriesOwnRows
  /\ client \in [0..MaxSlots -> [salt : Tenant, tokens : Seq(Token)]]
  /\ \A s \in Slot : Owns(s)
  /\ CallFits
-----------------------------------------------------------------------------
(* What the client knows of a slot.                                        *)
LEMMA ClientAt ==
  ASSUME ClientInv, NEW s \in 0..MaxSlots
  PROVE  client[s].tokens \in Seq(Token) /\ client[s].salt \in Tenant
BY DEF ClientInv

(* Slots are the positive indices.                                         *)
LEMMA SlotIndex ==
  ASSUME NEW s \in Slot
  PROVE  s \in 0..MaxSlots /\ s # 0
BY GeometryAssumption DEF Slot

(* No operation, nothing to fit.                                           *)
LEMMA IdleFits ==
  ASSUME call' = Idle
  PROVE  CallFits'
BY DEF Idle, CallFits

(* A quiet step keeps the rows of every sequence it leaves alone.          *)
LEMMA QuietClient ==
  ASSUME ClientInv, CacheInv(Tenant, Token)', Quiet, KeepRows
  PROVE  /\ RowsTyped(Token)' /\ EntriesOwnRows'
         /\ \A b \in Block : written'[b] = written[b] => image'[b] = image[b]
         /\ \A s \in Slot :
              /\ tables'[s] = tables[s] /\ enqueued'[s] = enqueued[s]
              /\ client'[s] = client[s]
              => Owns(s)'
<1>0. CacheInv(Tenant, Token) /\ RowsTyped(Token) /\ EntriesOwnRows
  BY DEF ClientInv
<1>1. /\ RowsTyped(Token)' /\ EntriesOwnRows'
      /\ \A b \in Block : written'[b] = written[b] => image'[b] = image[b]
  BY <1>0, QuietRows
<1>2. ASSUME NEW s \in Slot, tables'[s] = tables[s], enqueued'[s] = enqueued[s],
             client'[s] = client[s]
      PROVE  Owns(s)'
  <2>1. PICK tokens, salt : tokens = client[s].tokens /\ salt = client[s].salt
    OBVIOUS
  <2>2. OwnRows(s, tokens, salt)
    BY <2>1 DEF ClientInv, Owns
  <2>3. OwnRows(s, tokens, salt)'
    BY <1>0, <1>2, <2>2, QuietOwn
  <2>4. client'[s].tokens = tokens /\ client'[s].salt = salt
    BY <1>2, <2>1
  <2> QED BY <2>3, <2>4 DEF Owns
<1> QED BY <1>1, <1>2

(* Reserving room keeps everyone's rows.                                   *)
LEMMA ReservedClient ==
  ASSUME ClientInv, CacheInv(Tenant, Token)', Quiet, KeepRows, UNCHANGED client,
         NEW s \in Slot, NEW length \in 0..MaxLength, Reserve(s, length)
  PROVE  RowsTyped(Token)' /\ EntriesOwnRows' /\ \A r \in Slot : Owns(r)'
<1>0. CacheInv(Tenant, Token) /\ RowsTyped(Token) /\ EntriesOwnRows /\ IInv
  BY DEF ClientInv, CacheInv
<1>1. PICK tokens, salt : tokens = client[s].tokens /\ salt = client[s].salt
  OBVIOUS
<1>2. OwnRows(s, tokens, salt)
  BY <1>1 DEF ClientInv, Owns
<1>3. OwnRows(s, tokens, salt)'
  BY <1>0, <1>2, ReservedRows
<1>4. Owns(s)'
  <2>1. client'[s].tokens = tokens /\ client'[s].salt = salt
    BY <1>1
  <2> QED BY <1>3, <2>1 DEF Owns
<1>5. \A r \in Slot : r # s => tables'[r] = tables[r] /\ enqueued'[r] = enqueued[r]
  BY <1>0 DEF Reserve, IInv, TypeOK
<1> QED BY <1>4, <1>5, QuietClient
-----------------------------------------------------------------------------
(* A step that leaves blocks, rows and entries alone keeps every sequence  *)
(* the client knows the same thing of.                                     *)
LEMMA StillClient ==
  ASSUME ClientInv, CacheInv(Tenant, Token)', UNCHANGED <<vars, entries, image>>
  PROVE  /\ RowsTyped(Token)' /\ EntriesOwnRows'
         /\ \A s \in Slot : client'[s] = client[s] => Owns(s)'
         /\ \A cached, tokens, salt : Matched(cached, tokens, salt) => Matched(cached, tokens, salt)'
<1>1. IInv /\ IInv' /\ RowsTyped(Token)
  BY DEF ClientInv, CacheInv
<1>2. KeepRows
  BY <1>1, StillRows
<1>3. Quiet
  BY <1>1, ManagerQuiet
<1>4. UNCHANGED <<tables, enqueued>>
  BY DEF vars
<1>5. \A cached, tokens, salt : Matched(cached, tokens, salt) => Matched(cached, tokens, salt)'
  BY DEF Matched, Filed
<1> QED BY <1>2, <1>3, <1>4, <1>5, QuietClient

(* Prompts are token sequences of the client.                              *)
LEMMA PromptTyped ==
  ASSUME NEW prompt \in Prompts
  PROVE  prompt \in Seq(Token) /\ prompt # <<>>
<1> DEFINE words == UNION {Range(p) : p \in Prompts}
<1>1. prompt \in Seq(words) /\ prompt # <<>>
  BY PromptsAssumption
<1>2. words \subseteq Token
  BY DEF Token
<1> HIDE DEF words
<1>3. prompt \in Seq(Token)
  BY <1>1, <1>2
<1> QED BY <1>1, <1>3

(* An admission starts from a match of the prompt.                         *)
LEMMA AdmitOK ==
  ASSUME ClientInv, NEW prompt \in Prompts, NEW salt \in Salts, NEW length \in 1..MaxLength,
         NEW watermark, Admit(prompt, salt, length, watermark)
  PROVE  ClientInv'
<1>1. CacheInv(Tenant, Token) /\ IndexTyped(Tenant, Token)
  BY DEF ClientInv, CacheInv
<1>2. prompt \in Seq(Token) /\ prompt # <<>> /\ salt \in Tenant
  BY PromptTyped DEF Tenant
<1>3. PICK cached : cached = Match(prompt, salt)
  OBVIOUS
<1>4. cached \in Seq(Block) /\ Matched(cached, prompt, salt)
  BY <1>1, <1>2, <1>3, MatchIsFiled
<1>5. BeginAdmit(cached, length, watermark)
  BY <1>3 DEF Admit
<1>6. CacheInv(Tenant, Token)'
  <2>1. length \in 0..MaxLength
    BY GeometryAssumption
  <2> QED BY <1>1, <1>4, <1>5, <2>1, BeginAdmitOK
<1>7. UNCHANGED <<vars, entries, image>> /\ call'.op = "admit" /\ call'.cached = cached
  BY <1>5 DEF BeginAdmit, Admit
<1>8. client' = [client EXCEPT ![0] = [salt |-> salt, tokens |-> prompt]]
  BY DEF Admit
<1>9. client \in [0..MaxSlots -> [salt : Tenant, tokens : Seq(Token)]] /\ 0 \in 0..MaxSlots
  BY GeometryAssumption DEF ClientInv
<1>10. client' \in [0..MaxSlots -> [salt : Tenant, tokens : Seq(Token)]]
  BY <1>2, <1>8, <1>9
<1>11. \A s \in Slot : client'[s] = client[s]
  BY <1>8, <1>9, SlotIndex
<1>12. client'[0].tokens = prompt /\ client'[0].salt = salt
  BY <1>8, <1>9
<1>13. Matched(cached, prompt, salt)'
  BY <1>4, <1>6, <1>7, StillClient
<1>14. CallFits'
  BY <1>7, <1>12, <1>13 DEF CallFits
<1> QED BY <1>6, <1>7, <1>10, <1>11, <1>14, StillClient DEF ClientInv

(* The sequence it attaches reads its own prompt's rows.                   *)
LEMMA AttachedOK ==
  ASSUME ClientInv, NEW s \in Slot, Attached(s)
  PROVE  ClientInv'
<1>1. CacheInv(Tenant, Token) /\ IInv /\ RowsTyped(Token) /\ EntriesOwnRows
  BY DEF ClientInv, CacheInv
<1>2. AdmitAttach(s) /\ KeepRows /\ call.op = "admit" /\ call'.op = "reserve"
      /\ client' = [client EXCEPT ![s] = client[0], ![0] = Nobody]
  BY DEF Attached, AdmitAttach
<1>3. CacheInv(Tenant, Token)'
  BY <1>1, <1>2, AdmitAttachOK
<1>4. PICK cached : cached = call.cached /\ cached \in Seq(Block)
  <2>1. PICK n \in Int, cached \in Seq(Block), length \in 0..MaxLength : AdmitCall(n, cached, length)
    BY <1>1, <1>2, WhichCall DEF CacheInv
  <2> QED BY <2>1 DEF AdmitCall
<1>5. Attach(s, cached) /\ UNCHANGED entries
  BY <1>2, <1>4 DEF AdmitAttach
<1>6. IInv'
  BY <1>3 DEF CacheInv
<1>7. Quiet
  BY <1>1, <1>4, <1>5, <1>6, ManagerQuiet
<1>8. client \in [0..MaxSlots -> [salt : Tenant, tokens : Seq(Token)]] /\ 0 \in 0..MaxSlots
      /\ s \in 0..MaxSlots /\ s # 0
  BY GeometryAssumption, SlotIndex DEF ClientInv
<1>9. client' \in [0..MaxSlots -> [salt : Tenant, tokens : Seq(Token)]]
  <2>1. client[0] \in [salt : Tenant, tokens : Seq(Token)]
    BY <1>8
  <2>2. Nobody \in [salt : Tenant, tokens : Seq(Token)]
    <3>1. "" \in Tenant /\ <<>> \in Seq(Token)
      BY DEF Tenant
    <3> QED BY <3>1 DEF Nobody
  <2> QED BY <1>2, <1>8, <2>1, <2>2
<1>10. PICK tokens, salt : tokens = client[0].tokens /\ salt = client[0].salt
  OBVIOUS
<1>11. tokens \in Seq(Token) /\ Matched(cached, tokens, salt)
  BY <1>2, <1>4, <1>8, <1>10, ClientAt DEF ClientInv, CallFits
<1>12. /\ RowsTyped(Token)' /\ EntriesOwnRows'
       /\ \A b \in Block : written'[b] = written[b] => image'[b] = image[b]
  BY <1>2, <1>3, <1>7, QuietClient
<1>13. OwnRows(s, tokens, salt)'
  BY <1>1, <1>4, <1>5, <1>6, <1>11, <1>12, AttachedRows
<1>14. Owns(s)'
  <2>1. client'[s].tokens = tokens /\ client'[s].salt = salt
    BY <1>2, <1>8, <1>10
  <2> QED BY <1>13, <2>1 DEF Owns
<1>15. ASSUME NEW r \in Slot, r # s PROVE Owns(r)'
  <2>1. tables'[r] = tables[r] /\ enqueued'[r] = enqueued[r]
    BY <1>1, <1>5, <1>15 DEF Attach, IInv, TypeOK
  <2>2. client'[r] = client[r]
    BY <1>2, <1>8, <1>15, SlotIndex
  <2> QED BY <1>2, <1>3, <1>7, <2>1, <2>2, QuietClient
<1>16. CallFits'
  BY <1>2 DEF CallFits
<1> QED BY <1>3, <1>9, <1>12, <1>14, <1>15, <1>16 DEF ClientInv

(* And the room it was promised.                                           *)
LEMMA ReservedOK ==
  ASSUME ClientInv, Reserved
  PROVE  ClientInv'
<1>1. AdmitReserve /\ KeepRows /\ UNCHANGED client /\ CacheInv(Tenant, Token) /\ call' = Idle
  BY DEF ClientInv, Reserved, AdmitReserve
<1>2. CacheInv(Tenant, Token)' /\ Quiet
  BY <1>1, AdmitReserveOK, AdmitReserveQuiet
<1>3. PICK s \in Slot, length \in 0..MaxLength : Reserve(s, length)
  BY <1>1, AdmitReserveQuiet
<1>4. RowsTyped(Token)' /\ EntriesOwnRows' /\ \A r \in Slot : Owns(r)'
  BY <1>1, <1>2, <1>3, ReservedClient
<1> QED BY <1>1, <1>2, <1>4, IdleFits DEF ClientInv
-----------------------------------------------------------------------------
(* Publication and admission keep their arguments from step to step.       *)
LEMMA SameArguments ==
  ASSUME CacheInv(Tenant, Token), CacheStep
  PROVE  /\ call'.op = "admit" => call' = call
         /\ call'.op = "publish" =>
              /\ call.op = "publish" /\ call'.sequence = call.sequence
              /\ call'.tokens = call.tokens /\ call'.salt = call.salt
         /\ PublishRegister => call.op = "publish" /\ call'.op = "publish"
<1>1. CASE ReclaimOne \/ PublishEvict \/ ClearOne
  <2>1. call' = call
    BY <1>1 DEF ReclaimOne, PublishEvict, ClearOne
  <2>2. ~PublishRegister
    <3>1. PublishRegister => call'.ordinal # call.ordinal
      <4> SUFFICES ASSUME PublishRegister PROVE call'.ordinal # call.ordinal
        OBVIOUS
      <4>1. PICK s \in Slot, tokens \in Seq(Token), salt \in Tenant, j \in Nat \ {0} :
              Registers(Token, s, tokens, salt, j)
        BY RegisterStep
      <4> QED BY <4>1 DEF Registers, PublishCall
    <3> QED BY <2>1, <3>1
  <2> QED BY <2>1, <2>2
<1>2. CASE EndReclaim \/ EndPublish \/ EndClear
  <2>1. call'.op = "none"
    BY <1>2 DEF EndReclaim, EndPublish, EndClear, Idle
  <2>2. ~PublishRegister
    <3>1. PublishRegister => call'.op = "publish"
      <4> SUFFICES ASSUME PublishRegister PROVE call'.op = "publish"
        OBVIOUS
      <4>1. PICK s \in Slot, tokens \in Seq(Token), salt \in Tenant, j \in Nat \ {0} :
              Registers(Token, s, tokens, salt, j)
        BY RegisterStep
      <4> QED BY <4>1 DEF Registers
    <3> QED BY <2>1, <3>1
  <2> QED BY <2>1, <2>2
<1>3. CASE PublishSkip \/ PublishRegister
  <2>1. Publishing /\ call' = [call EXCEPT !.ordinal = @ + 1]
    BY <1>3 DEF PublishSkip, PublishRegister
  <2>2. PICK s \in Slot, tokens \in Seq(Token), salt \in Tenant, j \in Nat \ {0} :
          PublishCall(s, tokens, salt, j)
    BY <2>1, PublishingAt
  <2>3. call = [op |-> "publish", sequence |-> s, tokens |-> tokens, salt |-> salt, ordinal |-> j]
    BY <2>2 DEF PublishCall
  <2> QED BY <2>1, <2>3
<1> QED BY <1>1, <1>2, <1>3 DEF CacheStep

(* A registration files rows of the sequence's own history.                *)
LEMMA RegisterContinuesOK ==
  ASSUME ClientInv, CacheContinues, PublishRegister
  PROVE  RowsTyped(Token)' /\ EntriesOwnRows' /\ \A s \in Slot : Owns(s)'
<1>1. KeepRows /\ UNCHANGED client /\ CacheInv(Tenant, Token) /\ CacheInv(Tenant, Token)'
      /\ RowsTyped(Token) /\ EntriesOwnRows
  BY CacheStepOK DEF ClientInv, CacheContinues
<1>2. PICK s \in Slot, tokens \in Seq(Token), salt \in Tenant, j \in Nat \ {0} :
        Registers(Token, s, tokens, salt, j)
  BY <1>1, RegisterStep
<1>3. call.op = "publish" /\ call.sequence = s /\ call.tokens = tokens /\ call.salt = salt
  BY <1>2 DEF Registers, PublishCall
<1>4. client[s].tokens = tokens /\ client[s].salt = salt
  BY <1>3 DEF ClientInv, CallFits
<1>5. HoldsHistory(call.sequence, call.tokens)
  <2>1. OwnRows(s, tokens, salt)
    BY <1>4 DEF ClientInv, Owns
  <2> QED BY <1>3, <2>1 DEF OwnRows
<1>6. /\ RowsTyped(Token)' /\ EntriesOwnRows'
      /\ \A r \in Slot : \A t, u : OwnRows(r, t, u)
           /\ (call.sequence = r => call.tokens = t /\ call.salt = u)
           => OwnRows(r, t, u)'
  BY <1>1, <1>5, RegisteredRows
<1>7. ASSUME NEW r \in Slot PROVE Owns(r)'
  <2>1. PICK t, u : t = client[r].tokens /\ u = client[r].salt
    OBVIOUS
  <2>2. OwnRows(r, t, u)
    BY <2>1 DEF ClientInv, Owns
  <2>3. call.sequence = r => call.tokens = t /\ call.salt = u
    BY <1>3, <1>4, <2>1
  <2>4. OwnRows(r, t, u)'
    BY <1>6, <2>2, <2>3
  <2>5. client'[r].tokens = t /\ client'[r].salt = u
    BY <1>1, <2>1
  <2> QED BY <2>4, <2>5 DEF Owns
<1> QED BY <1>6, <1>7

(* The operation in progress goes on.                                      *)
LEMMA CacheContinuesOK ==
  ASSUME ClientInv, CacheContinues
  PROVE  ClientInv'
<1>1. CacheStep /\ KeepRows /\ UNCHANGED client /\ CacheInv(Tenant, Token)
  BY DEF ClientInv, CacheContinues
<1>2. CacheInv(Tenant, Token)'
  BY <1>1, CacheStepOK
<1>3. RowsTyped(Token)' /\ EntriesOwnRows' /\ \A s \in Slot : Owns(s)'
  <2>1. CASE PublishRegister
    BY <2>1, RegisterContinuesOK
  <2>2. CASE ~PublishRegister
    <3>1. Quiet /\ UNCHANGED <<tables, enqueued>>
      BY <1>1, <2>2, CacheQuiet
    <3> QED BY <1>1, <1>2, <3>1, QuietClient
  <2> QED BY <2>1, <2>2
<1>4. call'.op = "admit" => Matched(call.cached, client[0].tokens, client[0].salt)'
  <2> SUFFICES ASSUME call'.op = "admit"
               PROVE  Matched(call.cached, client[0].tokens, client[0].salt)'
    OBVIOUS
  <2>1. call' = call /\ ~PublishRegister
    BY <1>1, SameArguments
  <2>2. PICK n \in Int, cached \in Seq(Block), length \in 0..MaxLength : AdmitCall(n, cached, length)'
    <3>1. (call = Idle => call.op = "none")'
      BY DEF Idle
    <3>2. ((\E n \in Int : ReclaimCall(n)) => call.op = "reclaim")'
      BY DEF ReclaimCall
    <3>3. ((\E s \in Slot, cached \in Seq(Block), length \in 0..MaxLength :
              ReserveCall(s, cached, length)) => call.op = "reserve")'
      BY DEF ReserveCall
    <3>4. ((\E s \in Slot, tokens \in Seq(Token), salt \in Tenant, j \in Nat \ {0} :
              PublishCall(s, tokens, salt, j)) => call.op = "publish")'
      BY DEF PublishCall
    <3>5. (ClearCall => call.op = "clear")'
      BY DEF ClearCall
    <3>6. CallOK(Tenant, Token)'
      BY <1>2 DEF CacheInv
    <3> QED BY <3>1, <3>2, <3>3, <3>4, <3>5, <3>6 DEF CallOK
  <2>3. call'.cached = cached /\ \A i \in 1..Len(cached) : states'[cached[i]] = REGISTERED
    BY <2>2 DEF AdmitCall
  <2>4. PICK tokens, salt : tokens = client[0].tokens /\ salt = client[0].salt
    OBVIOUS
  <2>5. Matched(cached, tokens, salt)
    BY <2>1, <2>3, <2>4 DEF ClientInv, CallFits
  <2>6. Matched(cached, tokens, salt)'
    BY <1>1, <2>1, <2>3, <2>5, CacheQuiet, StillMatched
  <2>7. client'[0].tokens = tokens /\ client'[0].salt = salt
    BY <1>1, <2>4
  <2> QED BY <2>3, <2>6, <2>7
<1>5. CallFits'
  BY <1>1, <1>4, SameArguments DEF ClientInv, CallFits
<1>6. (client \in [0..MaxSlots -> [salt : Tenant, tokens : Seq(Token)]])'
  BY <1>1 DEF ClientInv
<1> QED BY <1>2, <1>3, <1>5, <1>6 DEF ClientInv
-----------------------------------------------------------------------------
(* A step between operations that keeps the index's blocks and is quiet.   *)
LEMMA ManagerOK ==
  ASSUME ClientInv, call = Idle, UNCHANGED cacheVars, KeepRows, IInv', Registered' = Registered, Quiet
  PROVE  /\ CacheInv(Tenant, Token)' /\ RowsTyped(Token)' /\ EntriesOwnRows' /\ CallFits'
         /\ \A s \in Slot :
              /\ tables'[s] = tables[s] /\ enqueued'[s] = enqueued[s]
              /\ client'[s] = client[s]
              => Owns(s)'
<1>1. CacheInv(Tenant, Token)'
  BY Between DEF ClientInv
<1>2. call' = Idle
  BY DEF cacheVars
<1> QED BY <1>1, <1>2, QuietClient, IdleFits

(* Growth takes free blocks, or starts to reclaim some.                    *)
LEMMA GrowOK ==
  ASSUME ClientInv, NEW s \in Slot, NEW length \in 1..MaxLength, Grow(s, length)
  PROVE  ClientInv'
<1>1. CacheInv(Tenant, Token) /\ IInv /\ UNCHANGED client /\ KeepRows /\ call = Idle
      /\ length \in 0..MaxLength
      /\ client \in [0..MaxSlots -> [salt : Tenant, tokens : Seq(Token)]]
  BY GeometryAssumption DEF ClientInv, CacheInv, Grow
<1>2. CASE Reserve(s, length) /\ UNCHANGED cacheVars
  <2>1. IInv' /\ Registered' = Registered
    BY <1>1, <1>2, ReserveIInv, ReserveRegistered
  <2>2. Quiet
    BY <1>1, <1>2, <2>1, ManagerQuiet DEF cacheVars
  <2>3. CacheInv(Tenant, Token)' /\ CallFits'
    BY <1>1, <1>2, <2>1, <2>2, ManagerOK
  <2>4. RowsTyped(Token)' /\ EntriesOwnRows' /\ \A r \in Slot : Owns(r)'
    BY <1>1, <1>2, <2>2, <2>3, ReservedClient
  <2> QED BY <1>1, <2>3, <2>4 DEF ClientInv
<1>3. CASE BeginReclaim(Shortage(s, length) + Len(free))
  <2>1. Shortage(s, length) + Len(free) \in Int
    <3>1. Len(free) \in Int /\ Len(tables[s]) \in Int
      BY <1>1, TableType DEF IInv, TypeOK
    <3>2. CeilDiv(length, BlockSize) \in Int
      BY <1>1, GeometryAssumption, CeilType
    <3> QED BY <3>1, <3>2 DEF Shortage
  <2>2. CacheInv(Tenant, Token)'
    BY <1>1, <1>3, <2>1, BeginReclaimOK
  <2>3. Quiet /\ UNCHANGED <<tables, enqueued>>
    <3>1. UNCHANGED <<vars, entries>> /\ IInv'
      BY <1>3, <2>2 DEF BeginReclaim, CacheInv
    <3> QED BY <1>1, <3>1, ManagerQuiet DEF vars
  <2>4. CallFits'
    BY <1>3 DEF BeginReclaim, CallFits
  <2> QED BY <1>1, <2>2, <2>3, <2>4, QuietClient DEF ClientInv
<1> QED BY <1>2, <1>3 DEF Grow

(* A runner computes rows of the sequence's own history.                   *)
LEMMA RunOK ==
  ASSUME ClientInv, NEW s \in Slot, NEW length \in 1..MaxLength, Run(s, length)
  PROVE  ClientInv'
<1>1. CacheInv(Tenant, Token) /\ IInv /\ RowsTyped(Token) /\ EntriesOwnRows
      /\ IndexExact /\ IndexTyped(Tenant, Token) /\ length \in 0..MaxLength
      /\ client \in [0..MaxSlots -> [salt : Tenant, tokens : Seq(Token)]]
  BY GeometryAssumption DEF ClientInv, CacheInv
<1>2. /\ call = Idle /\ UNCHANGED <<cacheVars, client>>
      /\ enqueued[s] = lengths[s] /\ length <= Len(client[s].tokens)
      /\ WriteRows(s, length, client[s].tokens)
  BY DEF Run
<1>3. Write(s, length)
  BY <1>2 DEF WriteRows
<1>4. IInv' /\ Registered' = Registered
  BY <1>1, <1>3, WriteIInv, OthersRegistered
<1>5. CacheInv(Tenant, Token)' /\ IndexExact' /\ CallFits' /\ UNCHANGED <<entries, states>>
  BY <1>1, <1>2, <1>3, <1>4, Between, IdleFits DEF CacheInv, cacheVars, Write
<1>6. ASSUME NEW r \in Slot, NEW tokens, NEW salt, OwnRows(r, tokens, salt), tables'[r] = tables[r]
      PROVE  SharesOwn(r, tokens, salt)'
  <2>1. SharesOwn(r, tokens, salt)
    BY <1>6 DEF OwnRows
  <2>2. \A b, key : Filed(b, salt, key) => Filed(b, salt, key)'
    BY <1>5 DEF Filed
  <2> QED BY <1>5, <1>6, <2>1, <2>2, OthersKeepKeys
<1>7. UNCHANGED tables /\ enqueued' = [enqueued EXCEPT ![s] = length] /\ enqueued \in [Slot -> Nat]
  BY <1>1, <1>3 DEF Write, IInv, TypeOK
<1>8. PICK tokens, salt : tokens \in Seq(Token) /\ tokens = client[s].tokens /\ salt = client[s].salt
  BY SlotIndex, ClientAt
<1>9. OwnRows(s, tokens, salt)
  BY <1>8 DEF ClientInv, Owns
<1>10. /\ RowsTyped(Token)' /\ HoldsHistory(s, tokens)'
       /\ \A b \in Block : written'[b] = written[b] => image'[b] = image[b]
  <2>1. HoldsHistory(s, tokens) /\ WriteRows(s, length, tokens) /\ length <= Len(tokens)
    BY <1>2, <1>8, <1>9 DEF OwnRows
  <2> QED BY <1>1, <1>2, <1>4, <1>8, <2>1, WrittenRows
<1>11. Owns(s)'
  <2>1. SharesOwn(s, tokens, salt)'
    BY <1>6, <1>7, <1>9
  <2>2. enqueued'[s] <= Len(tokens)
    BY <1>2, <1>7, <1>8
  <2>3. client'[s].tokens = tokens /\ client'[s].salt = salt
    BY <1>2, <1>8
  <2>4. OwnRows(s, tokens, salt)'
    BY <1>10, <2>1, <2>2 DEF OwnRows
  <2> QED BY <2>3, <2>4 DEF Owns
<1>12. ASSUME NEW r \in Slot, r # s PROVE Owns(r)'
  <2>1. PICK t, u : t = client[r].tokens /\ u = client[r].salt
    OBVIOUS
  <2>2. OwnRows(r, t, u)
    BY <2>1 DEF ClientInv, Owns
  <2>3. tables'[r] = tables[r] /\ enqueued'[r] = enqueued[r]
    BY <1>7, <1>12
  <2>4. HoldsHistory(r, t)'
    BY <1>1, <1>4, <1>10, <2>2, <2>3, OthersKeepRows DEF OwnRows
  <2>5. OwnRows(r, t, u)'
    BY <1>6, <2>2, <2>3, <2>4 DEF OwnRows
  <2>6. client'[r].tokens = t /\ client'[r].salt = u
    BY <1>2, <2>1
  <2> QED BY <2>5, <2>6 DEF Owns
<1>13. EntriesOwnRows'
  <2>1. \A j \in DOMAIN entries' : \E k \in DOMAIN entries :
          entries'[j].block = entries[k].block /\ entries'[j].tokens = entries[k].tokens
    BY <1>5
  <2> QED BY <1>1, <1>4, <1>5, <1>10, <2>1, EntriesKeepRows
<1> QED BY <1>1, <1>2, <1>5, <1>10, <1>11, <1>12, <1>13 DEF ClientInv

(* A completed step is committed.                                          *)
LEMMA CompleteOK ==
  ASSUME ClientInv, NEW s \in Slot, Complete(s)
  PROVE  ClientInv'
<1>1. IInv /\ Commit(s) /\ call = Idle /\ KeepRows /\ UNCHANGED <<cacheVars, client>>
      /\ client \in [0..MaxSlots -> [salt : Tenant, tokens : Seq(Token)]]
  BY DEF ClientInv, CacheInv, Complete
<1>2. IInv' /\ Registered' = Registered
  BY <1>1, CommitIInv, OthersRegistered
<1>3. Quiet
  BY <1>1, <1>2, ManagerQuiet DEF cacheVars
<1>4. UNCHANGED <<tables, enqueued>>
  BY <1>1 DEF Commit
<1> QED BY <1>1, <1>2, <1>3, <1>4, ManagerOK DEF ClientInv

(* A finished sequence gives its blocks back; what is cached stays.        *)
LEMMA ReleaseOK ==
  ASSUME ClientInv, NEW s \in Slot, Release(s)
  PROVE  ClientInv'
<1>1. IInv /\ Detach(s) /\ call = Idle /\ KeepRows /\ UNCHANGED cacheVars
      /\ client' = [client EXCEPT ![s] = Nobody]
      /\ client \in [0..MaxSlots -> [salt : Tenant, tokens : Seq(Token)]]
  BY DEF ClientInv, CacheInv, Release
<1>2. ReleaseAll({s})
  BY <1>1 DEF Detach
<1>3. IInv' /\ Registered' = Registered
  BY <1>1, <1>2, ReleaseIInv, OthersRegistered
<1>4. Quiet
  BY <1>1, <1>3, ManagerQuiet DEF cacheVars
<1>5. Nobody \in [salt : Tenant, tokens : Seq(Token)]
  <2>1. "" \in Tenant /\ <<>> \in Seq(Token)
    BY DEF Tenant
  <2> QED BY <2>1 DEF Nobody
<1>6. client' \in [0..MaxSlots -> [salt : Tenant, tokens : Seq(Token)]]
  BY <1>1, <1>5
<1>7. /\ tables'[s] = <<>> /\ enqueued'[s] = 0
      /\ \A r \in Slot : r # s => tables'[r] = tables[r] /\ enqueued'[r] = enqueued[r]
  BY <1>2 DEF ReleaseAll
<1>8. Owns(s)'
  <2>1. client'[s].tokens = <<>> /\ client'[s].salt = ""
    BY <1>1, SlotIndex DEF Nobody
  <2>2. OwnRows(s, <<>>, "")'
    BY <1>7 DEF OwnRows, HoldsHistory, SharesOwn
  <2> QED BY <2>1, <2>2 DEF Owns
<1>9. \A r \in Slot : r # s => client'[r] = client[r]
  BY <1>1, SlotIndex
<1> QED BY <1>1, <1>3, <1>4, <1>6, <1>7, <1>8, <1>9, ManagerOK DEF ClientInv
-----------------------------------------------------------------------------
(* Publication starts with what the client knows of the sequence.          *)
LEMMA PublishOK ==
  ASSUME ClientInv, NEW s \in Slot, Publish(s)
  PROVE  ClientInv'
<1>1. PICK tokens \in Seq(Token), salt \in Tenant : tokens = client[s].tokens /\ salt = client[s].salt
  BY SlotIndex, ClientAt
<1>2. BeginPublish(s, tokens, salt) /\ UNCHANGED <<image, client>> /\ CacheInv(Tenant, Token)
      /\ client \in [0..MaxSlots -> [salt : Tenant, tokens : Seq(Token)]]
  BY <1>1 DEF Publish, ClientInv
<1>3. CacheInv(Tenant, Token)'
  BY <1>2, BeginPublishOK
<1>4. /\ UNCHANGED <<vars, entries>>
      /\ call' = [op |-> "publish", sequence |-> s, tokens |-> tokens, salt |-> salt, ordinal |-> 1]
  BY <1>2 DEF BeginPublish
<1>5. CallFits'
  BY <1>1, <1>2, <1>4 DEF CallFits
<1> QED BY <1>2, <1>3, <1>4, <1>5, StillClient DEF ClientInv

(* A sampled token is appended; the rows already there stay its own.       *)
LEMMA SampleOK ==
  ASSUME ClientInv, NEW s \in Slot, NEW token \in Sampled, Sample(s, token)
  PROVE  ClientInv'
<1>1. /\ call = Idle /\ UNCHANGED <<vars, cacheVars, image>> /\ CacheInv(Tenant, Token) /\ IInv
      /\ client' = [client EXCEPT ![s].tokens = Append(@, token)]
      /\ client \in [0..MaxSlots -> [salt : Tenant, tokens : Seq(Token)]]
      /\ s \in 0..MaxSlots /\ token \in Token
  BY SlotIndex DEF ClientInv, CacheInv, Sample, Token
<1>2. PICK tokens \in Seq(Token), salt \in Tenant : tokens = client[s].tokens /\ salt = client[s].salt
  BY SlotIndex, ClientAt
<1>3. PICK more \in Seq(Token) :
        /\ more = Append(tokens, token) /\ Len(tokens) <= Len(more)
        /\ \A m \in 0..Len(tokens) : Prefix(more, m) = Prefix(tokens, m)
  BY <1>1, SampledHistory
<1>4. client' = [client EXCEPT ![s] = [salt |-> salt, tokens |-> more]]
  <2>1. client[s] = [salt |-> salt, tokens |-> tokens]
    BY <1>1, <1>2
  <2>2. [client[s] EXCEPT !.tokens = Append(client[s].tokens, token)] = [salt |-> salt, tokens |-> more]
    <3>1. [[salt |-> salt, tokens |-> tokens] EXCEPT !.tokens = more] = [salt |-> salt, tokens |-> more]
      OBVIOUS
    <3>2. Append(client[s].tokens, token) = more
      BY <1>2, <1>3
    <3> QED BY <2>1, <3>1, <3>2
  <2> QED BY <1>1, <2>2
<1>5. client' \in [0..MaxSlots -> [salt : Tenant, tokens : Seq(Token)]]
  <2>1. [salt |-> salt, tokens |-> more] \in [salt : Tenant, tokens : Seq(Token)]
    OBVIOUS
  <2> QED BY <1>1, <1>4, <2>1
<1>6. IInv' /\ Registered' = Registered
  BY <1>1, StillIInv
<1>7. CacheInv(Tenant, Token)' /\ CallFits'
  BY <1>1, <1>6, Between, IdleFits DEF cacheVars
<1>8. OwnRows(s, more, salt)
  <2>1. OwnRows(s, tokens, salt)
    BY <1>2 DEF ClientInv, Owns
  <2> QED BY <1>1, <1>3, <2>1, LongerHistory
<1>9. OwnRows(s, more, salt)'
  BY <1>1, <1>8 DEF OwnRows, HoldsHistory, SharesOwn, Filed, vars, cacheVars
<1>10. Owns(s)'
  <2>1. client'[s].tokens = more /\ client'[s].salt = salt
    BY <1>1, <1>4
  <2> QED BY <1>9, <2>1 DEF Owns
<1>11. \A r \in Slot : r # s => client'[r] = client[r]
  BY <1>1, <1>4, SlotIndex
<1>12. UNCHANGED <<vars, entries, image>>
  BY <1>1 DEF cacheVars
<1> QED BY <1>5, <1>7, <1>10, <1>11, <1>12, StillClient DEF ClientInv

(* An index without readers is cleared.                                    *)
LEMMA ClearOK ==
  ASSUME ClientInv, Clear
  PROVE  ClientInv'
<1>1. BeginClear /\ UNCHANGED <<image, client>> /\ CacheInv(Tenant, Token)
      /\ client \in [0..MaxSlots -> [salt : Tenant, tokens : Seq(Token)]]
  BY DEF Clear, ClientInv
<1>2. CacheInv(Tenant, Token)'
  BY <1>1, BeginClearOK
<1>3. UNCHANGED <<vars, entries>> /\ call'.op = "clear"
  BY <1>1 DEF BeginClear
<1>4. CallFits'
  BY <1>3 DEF CallFits
<1> QED BY <1>1, <1>2, <1>3, <1>4, StillClient DEF ClientInv
-----------------------------------------------------------------------------
(* A fresh pool, manager and index.                                        *)
LEMMA ClientInitOK ==
  ASSUME ClientInit
  PROVE  ClientInv
<1>1. Init /\ CacheInit /\ RowsInit /\ client = [s \in 0..MaxSlots |-> Nobody]
  BY DEF ClientInit
<1>2. IInv
  BY <1>1, InitIInv
<1>3. entries = <<>> /\ clock = 0 /\ call = Idle /\ DOMAIN entries = {}
  BY <1>1 DEF CacheInit
<1>4. IndexTyped(Tenant, Token)
  BY <1>3 DEF IndexTyped
<1>5. IndexExact
  <2>1. Registered = {} /\ {entries[k].block : k \in DOMAIN entries} = {}
    BY <1>1, <1>3 DEF Init, Registered, RESET, REGISTERED
  <2>2. Len(entries) = 0 /\ 0 <= Capacity
    <3>1. Cardinality(Block) \in Nat
      BY GeometryAssumption, FS_CardinalityType
    <3> QED BY <1>3, <3>1, CacheAssumption
  <2> QED BY <1>3, <2>1, <2>2 DEF IndexExact
<1>6. CacheInv(Tenant, Token)
  BY <1>2, <1>3, <1>4, <1>5 DEF CacheInv, CallOK
<1>7. RowsTyped(Token)
  BY <1>1 DEF RowsTyped, RowsInit, Init
<1>8. EntriesOwnRows
  BY <1>3 DEF EntriesOwnRows
<1>9. client \in [0..MaxSlots -> [salt : Tenant, tokens : Seq(Token)]]
  <2>1. "" \in Tenant /\ <<>> \in Seq(Token)
    BY DEF Tenant
  <2> QED BY <1>1, <2>1 DEF Nobody
<1>10. ASSUME NEW s \in Slot PROVE Owns(s)
  <2>1. tables[s] = <<>> /\ enqueued[s] = 0 /\ Len(client[s].tokens) = 0
    BY <1>1, SlotIndex DEF Init, Nobody
  <2> QED BY <2>1 DEF Owns, OwnRows, HoldsHistory, SharesOwn
<1>11. CallFits
  BY <1>3 DEF CallFits, Idle
<1> QED BY <1>6, <1>7, <1>8, <1>9, <1>10, <1>11 DEF ClientInv

(* Nothing happens.                                                        *)
LEMMA ClientStutter ==
  ASSUME ClientInv, UNCHANGED clientVars
  PROVE  ClientInv'
<1>1. UNCHANGED <<vars, cacheVars, image, client>> /\ CacheInv(Tenant, Token)
      /\ UNCHANGED <<vars, entries, image>>
  BY DEF clientVars, cacheVars, ClientInv
<1>2. CacheInv(Tenant, Token)'
  BY <1>1, StillCacheInv
<1>3. CallFits'
  <2>1. UNCHANGED <<call, entries, client>>
    BY <1>1 DEF cacheVars
  <2> QED BY <2>1 DEF ClientInv, CallFits, Matched, Filed, Prefix
<1> QED BY <1>1, <1>2, <1>3, StillClient DEF ClientInv
-----------------------------------------------------------------------------
(* Every step of the client keeps the invariant.                           *)
LEMMA ClientStep ==
  ASSUME ClientInv, [ClientNext]_clientVars
  PROVE  ClientInv'
<1>1. ASSUME NEW prompt \in Prompts, NEW salt \in Salts, NEW length \in 1..MaxLength,
             NEW watermark \in 0..1, Admit(prompt, salt, length, watermark)
      PROVE  ClientInv'
  BY <1>1, AdmitOK
<1>2. CASE \E s \in Slot : Attached(s)
  BY <1>2, AttachedOK
<1>3. CASE Reserved
  BY <1>3, ReservedOK
<1>4. CASE CacheContinues
  BY <1>4, CacheContinuesOK
<1>5. CASE \E s \in Slot, length \in 1..MaxLength : Grow(s, length)
  BY <1>5, GrowOK
<1>6. CASE \E s \in Slot, length \in 1..MaxLength : Run(s, length)
  BY <1>6, RunOK
<1>7. CASE \E s \in Slot : Complete(s)
  BY <1>7, CompleteOK
<1>8. CASE \E s \in Slot : Publish(s)
  BY <1>8, PublishOK
<1>9. CASE \E s \in Slot, token \in Sampled : Sample(s, token)
  BY <1>9, SampleOK
<1>10. CASE \E s \in Slot : Release(s)
  BY <1>10, ReleaseOK
<1>11. CASE Clear
  BY <1>11, ClearOK
<1>12. CASE UNCHANGED clientVars
  BY <1>12, ClientStutter
<1> QED BY <1>1, <1>2, <1>3, <1>4, <1>5, <1>6, <1>7, <1>8, <1>9, <1>10, <1>11, <1>12 DEF ClientNext

(* The invariant of the index and of whoever shares blocks through it.     *)
THEOREM ClientInductive == ClientSpec => []ClientInv
<1>1. ClientInit => ClientInv
  BY ClientInitOK
<1>2. ClientInv /\ [ClientNext]_clientVars => ClientInv'
  BY ClientStep
<1> QED BY <1>1, <1>2, PTL DEF ClientSpec

(* check() never fails: the index stays bounded, repeats no key and indexes *)
(* exactly the Registered blocks, even in the middle of an operation.      *)
THEOREM IndexStaysExact == ClientSpec => []IndexExact
<1>1. ClientInv => IndexExact
  BY DEF ClientInv, CacheInv
<1> QED BY <1>1, ClientInductive, PTL

(* Nor does the manager's audit, under any history of sharing.             *)
THEOREM SharedAuditNeverFails == ClientSpec => [](Consistent /\ PoolAgrees)
<1>1. ClientInv => Consistent /\ PoolAgrees
  BY DEF ClientInv, CacheInv, IInv
<1> QED BY <1>1, ClientInductive, PTL

(* Of the client's steps only those that start or end a sequence or reserve *)
(* room for it change a table.                                             *)
LEMMA SharedTableStep ==
  ASSUME ClientInv, ClientNext, NEW s \in Slot, active[s], active'[s],
         NEW i \in DOMAIN tables[s] \cap DOMAIN tables'[s]
  PROVE  tables'[s][i] = tables[s][i]
<1>1. IInv
  BY DEF ClientInv, CacheInv
<1>2. CASE \E r \in Slot : Attached(r)
  <2>1. PICK r \in Slot : Attached(r)
    BY <1>2
  <2>2. ~active[r] /\ tables' = [tables EXCEPT ![r] = call.cached]
    BY <2>1 DEF Attached, AdmitAttach, Attach, FirstIdle
  <2> QED BY <1>1, <2>2 DEF IInv, TypeOK
<1>3. CASE Reserved
  <2>1. PICK r \in Slot, length \in 0..MaxLength : Reserve(r, length)
    BY <1>3, AdmitReserveQuiet DEF ClientInv, Reserved
  <2> QED BY <1>1, <2>1, TableStep DEF Next
<1>4. CASE CacheContinues
  <2>1. UNCHANGED tables
    BY <1>4 DEF CacheContinues, CacheStep, ReclaimOne, EndReclaim, PublishSkip, PublishEvict,
                PublishRegister, EndPublish, ClearOne, EndClear, Evict, EvictRegistered, Register, vars
  <2> QED BY <2>1
<1>5. CASE \E r \in Slot, length \in 1..MaxLength : Grow(r, length)
  <2>1. PICK r \in Slot, length \in 1..MaxLength : Grow(r, length)
    BY <1>5
  <2>2. CASE Reserve(r, length)
    <3>1. length \in 0..MaxLength
      BY GeometryAssumption
    <3> QED BY <1>1, <2>2, <3>1, TableStep DEF Next
  <2>3. CASE UNCHANGED tables
    BY <2>3
  <2> QED BY <2>1, <2>2, <2>3 DEF Grow, BeginReclaim, vars
<1>6. CASE \E r \in Slot : Release(r)
  <2>1. PICK r \in Slot : Detach(r)
    BY <1>6 DEF Release
  <2> QED BY <1>1, <2>1, TableStep DEF Next
<1>7. CASE \/ \E prompt \in Prompts, salt \in Salts, length \in 1..MaxLength, watermark \in 0..1 :
                Admit(prompt, salt, length, watermark)
           \/ \E r \in Slot, length \in 1..MaxLength : Run(r, length)
           \/ \E r \in Slot : Complete(r)
           \/ \E r \in Slot : Publish(r)
           \/ \E r \in Slot, token \in Sampled : Sample(r, token)
           \/ Clear
  <2>1. UNCHANGED tables
    BY <1>7 DEF Admit, BeginAdmit, Run, WriteRows, Write, Complete, Commit, Publish, BeginPublish,
                Sample, Clear, BeginClear, vars
  <2> QED BY <2>1
<1> QED BY <1>2, <1>3, <1>4, <1>5, <1>6, <1>7 DEF ClientNext

(* A live table is never remapped, whatever is shared, published twice or  *)
(* evicted around it: publication leaves a duplicate where it is.          *)
THEOREM SharedTablesKeepTheirPlaces == ClientSpec => NoRemap
<1>1. ClientInv /\ [ClientNext]_clientVars =>
        [\A s \in Slot : active[s] /\ active'[s] =>
           \A i \in DOMAIN tables[s] \cap DOMAIN tables'[s] : tables'[s][i] = tables[s][i]]_vars
  BY SharedTableStep DEF clientVars
<1> QED BY <1>1, ClientInductive, PTL DEF ClientSpec, NoRemap

(* Sharing is invisible: no sequence ever attends to a row computed from   *)
(* another history, and no block is filed under another tenant's key.      *)
THEOREM SharingIsInvisible == ClientSpec => []SharedRowsAreOwn
<1>1. ASSUME ClientInv PROVE SharedRowsAreOwn
  <2>1. KVCorrect
    BY <1>1 DEF ClientInv, Owns, OwnRows, EntriesOwnRows, KVCorrect
  <2>2. ReadersUnderOwnKey
    <3> SUFFICES ASSUME NEW s \in Slot, NEW i \in DOMAIN tables[s], states[tables[s][i]] = REGISTERED
                 PROVE  \E k \in EntryOf(tables[s][i]) :
                          /\ entries[k].salt = client[s].salt
                          /\ entries[k].tokens = Prefix(client[s].tokens, i * BlockSize)
      BY DEF ReadersUnderOwnKey
    <3>1. i \in 1..Len(tables[s])
      BY <1>1, TableType DEF ClientInv, CacheInv, IInv
    <3>2. Filed(tables[s][i], client[s].salt, Prefix(client[s].tokens, i * BlockSize))
      BY <1>1, <3>1 DEF ClientInv, Owns, OwnRows, SharesOwn
    <3> QED BY <3>2 DEF Filed, EntryOf
  <2> QED BY <2>1, <2>2 DEF SharedRowsAreOwn
<1> QED BY <1>1, ClientInductive, PTL

(* reclaim, admit and publish never fail half way: what their validation   *)
(* found is still there when they take it.                                 *)
THEOREM OperationsFinish == ClientSpec => []OperationNeverStuck
<1>1. ASSUME ClientInv PROVE OperationNeverStuck
  <2>1. CacheInv(Tenant, Token)
    BY <1>1 DEF ClientInv
  <2>2. call.op \in {"reclaim", "admit"} /\ call.required > Len(free) => Victims(call.protected) # {}
    BY <2>1, ShortHasVictim
  <2>3. call.op = "reserve" =>
          CeilDiv(call.length, BlockSize) - Len(tables[call.sequence]) <= Len(free)
    BY <2>1, AttachedFits
  <2>4. Publishing /\ ~Known =>
          LET b == tables[call.sequence][call.ordinal]
          IN  states[b] = COMPLETE /\ refs[b] = 1
    BY <2>1, NewIsPrivate
  <2> QED BY <2>2, <2>3, <2>4 DEF OperationNeverStuck
<1> QED BY <1>1, ClientInductive, PTL
=============================================================================
