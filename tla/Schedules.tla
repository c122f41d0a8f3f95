------------------------------ MODULE Schedules ------------------------------
(***************************************************************************)
(* The call schedules the numerical evaluations declare, and the census of *)
(* checks each derives from them: an evaluation passes only if the checks  *)
(* it observed are exactly the census.                                     *)
(***************************************************************************)
EXTENDS Integers, Sequences, FiniteSets, SequencesExt, FiniteSetsExt

CONSTANTS
  ExhaustiveThrough, TokenwiseThrough,  \* of tests/fixtures/model_consistency.json,
  LongSuffix, RaggedCycle,              \* "schedules"
  PolicyChunks,   \* the chunk lists of decoder_policies.json, "schedules", by name
  Lengths,        \* the lengths of the cases
  Stages          \* the boundaries compared

ASSUME DeclarationAssumption ==
  /\ {ExhaustiveThrough, TokenwiseThrough} \subseteq Nat /\ Lengths \subseteq Nat \ {0}
  /\ \A chunks \in {LongSuffix, RaggedCycle} \cup {PolicyChunks[name] : name \in DOMAIN PolicyChunks} :
       chunks \in Seq(Nat \ {0}) /\ chunks # <<>>
-----------------------------------------------------------------------------
Rows(chunks)     == FoldSeq(+, 0, chunks)
StartOf(chunks, k) == Rows(SubSeq(chunks, 1, k - 1))
Single(n)        == [k \in 1..n |-> 1]

(* The chunks between consecutive cuts.                                    *)
Between(cuts) ==
  LET at == SetToSortSeq(cuts, <)
  IN  [k \in 1..(Len(at) - 1) |-> at[k + 1] - at[k]]

(* Chunks of the given sizes, clipped at the length; what they leave is    *)
(* one more chunk.                                                         *)
Clipped(sizes, length) ==
  LET before == [k \in DOMAIN sizes |-> StartOf(sizes, k)]
      chunks == [k \in 1..Cardinality({j \in DOMAIN sizes : before[j] < length}) |->
                   Min({sizes[k], length - before[k]})]
      rest   == length - Rows(chunks)
  IN  IF rest > 0 THEN Append(chunks, rest) ELSE chunks

Ragged(length) ==
  Clipped([k \in 1..length |-> RaggedCycle[((k - 1) % Len(RaggedCycle)) + 1]], length)

(* The chunkings that are required of some lengths only.                   *)
If(required, schedules) == IF required THEN schedules ELSE {}

RequiredSchedules(length) ==
  {<<length>>, Ragged(length)}
  \cup If(length <= ExhaustiveThrough,
          {Between(interior \cup {0, length}) : interior \in SUBSET (1..(length - 1))})
  \cup If(ExhaustiveThrough < length /\ length <= TokenwiseThrough, {Single(length)})
  \cup If(length > 17, {<<length - Rows(LongSuffix)>> \o LongSuffix})
  \cup If(length > 2, {<<1, length - 2, 1>>})

(* Mutant: the single rows stop before 17.                                 *)
DecoderChunksStrict(rows) == IF rows < 17 THEN Single(rows) ELSE <<rows - 17, 16, 1>>
DecoderChunks(rows) == IF rows <= 17 THEN Single(rows) ELSE <<rows - 17, 16, 1>>
(* A reserved case's schedules, and those of a policy evaluation.          *)
ReservedSchedules(rows) ==
  {<<"full", <<rows>> >>, <<"chunk", DecoderChunks(rows)>>}
  \cup If(rows = 33, {<<"threshold", <<16, 1, 15, 1>> >>})
  \cup If(rows = 65, {<<"reuse", <<53>> \o Single(12)>>})
PolicySchedules(rows) ==
  {<<"policy_repeat", <<rows>> >>, <<"policy_tokenwise", Single(rows)>>}
  \cup {<<name, Clipped(PolicyChunks[name], rows)>> : name \in DOMAIN PolicyChunks}

MlpChunks(rows)     == IF rows <= 17 THEN Single(rows) ELSE <<rows - 18, 17, 1>>

(* Every call of a schedule is checked at every stage.                     *)
Checks(schedule, chunks) ==
  {[schedule |-> schedule, stage |-> stage, start |-> StartOf(chunks, k), rows |-> chunks[k]] :
     stage \in Stages, k \in DOMAIN chunks}

ConsistencyCensus(length) == UNION {Checks(chunks, chunks) : chunks \in RequiredSchedules(length)}
DecoderCensus(rows) ==
  UNION {Checks(s[1], s[2]) : s \in ReservedSchedules(rows) \cup PolicySchedules(rows)}
MlpCensus(rows)     == Checks("full", <<rows>>) \cup Checks("chunk", MlpChunks(rows))
-----------------------------------------------------------------------------
(* Reference definition: the ways to split a length into calls.            *)
Compositions(length) ==
  {chunks \in UNION {[1..n -> 1..length] : n \in 1..length} : Rows(chunks) = length}

(* Every schedule computes each row exactly once, in calls that have rows. *)
CoversOnce(census, rows) ==
  /\ \A c \in census : c.rows > 0 /\ c.start + c.rows <= rows
  /\ \A schedule \in {c.schedule : c \in census}, stage \in Stages, row \in 0..(rows - 1) :
       Cardinality({c \in census : /\ c.schedule = schedule /\ c.stage = stage
                                   /\ row \in c.start..(c.start + c.rows - 1)}) = 1

(* A short case is split in every possible way.                            *)
ConsistencyCovers ==
  \A length \in Lengths :
    /\ CoversOnce(ConsistencyCensus(length), length)
    /\ length <= ExhaustiveThrough => RequiredSchedules(length) = Compositions(length)
DecoderCovers == \A length \in Lengths : CoversOnce(DecoderCensus(length), length)
(* An MLP case of 18 rows would have an empty first call; none is declared. *)
MlpCovers == \A length \in Lengths \ {18} : CoversOnce(MlpCensus(length), length)
=============================================================================
