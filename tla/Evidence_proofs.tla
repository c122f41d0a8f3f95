--------------------------- MODULE Evidence_proofs ---------------------------
(***************************************************************************)
(* Proofs about the evidence that outlives a run: a passed report is about *)
(* the build and the references it names, and a restoration holds the      *)
(* measurement that was packed.                                            *)
(***************************************************************************)
EXTENDS Evaluation, Retention, SequenceTheorems, TLAPS

-----------------------------------------------------------------------------
(* Evaluations.  What builds, receipts and the evaluations under way are.  *)
Trees    == Clean \cup Dirty
Origins  == [tree : Trees, archive : BOOLEAN]
Binaries == [kind : Kinds, tree : Trees]
Builders == [kind : Kinds, source : Origins, compiled : BOOLEAN]
Receipts == [kind : Kinds, source : Origins, binary : Binaries, created : Nat]
Evaluating ==
  [tool : Tools, at : Nat, output : Outputs, frozen : BOOLEAN, reserved : BOOLEAN,
   build : Receipts \cup {None}, manifest : References \cup {None}, ok : BOOLEAN,
   ran : SUBSET Binaries, read : SUBSET References]

(* A compilation under way has no receipt yet, and if its sources are the  *)
(* checkout's they have been since it began; a receipt names the sources   *)
(* of its binary, and one that is dated is of the last build.              *)
Compiling ==
  builder # None =>
    /\ builder \in Builders /\ receipt = None
    /\ builder.compiled =>
         /\ binary \in Binaries
         /\ (builder.source.archive \/ source = builder.source.tree) => binary.tree = builder.source.tree
Receipted ==
  receipt # None =>
    /\ receipt \in Receipts /\ receipt.binary.tree = receipt.source.tree
    /\ receipt.kind # "model" => receipt.created = builds
BuildInv ==
  /\ source \in Trees /\ builds \in Nat
  /\ binary # None => binary \in Binaries
  /\ Compiling /\ Receipted

(* The decoder's and the MLP's evaluations follow one course; the          *)
(* decoder's write no report that they started.                            *)
Stage(r) == IF r.tool = "mlp" \/ r.at < 6 THEN r.at ELSE r.at + 1
Course(stage) == MlpSuite[stage]

(* What such an evaluation knows when it is past a step.  Its build's date *)
(* tells whether another build was begun since: if not, the binary is the  *)
(* receipt's or gone.  References do not come back to its manifest, nor    *)
(* sources to its build's.                                                 *)
HasBuild(r) ==
  /\ r.build # None /\ r.build \in Receipts /\ r.build.kind # "model"
  /\ r.build.created <= builds /\ r.build.source = Identity(r.build.binary.tree)
  /\ r.build.created = builds =>
       builder = None /\ binary \in {None, r.build.binary} /\ r.ran \subseteq {r.build.binary}
HasArrays(r) == reference.arrays = r.manifest => r.read \subseteq {r.manifest}
HasDeclarations(r) ==
  r.frozen /\ source = r.build.source.tree => source \in Anchored[r.manifest]
Follows(r) ==
  /\ r.at \in 1 .. Len(Steps[r.tool])
  /\ Stage(r) > 1 => HasBuild(r)
  /\ Stage(r) > 2 => HasArrays(r)
  /\ Stage(r) > 3 => HasDeclarations(r)
  /\ Stage(r) > 4 /\ r.frozen => r.build.binary.tree = CandidateTree[r.manifest]
  /\ Stage(r) <= 7 => r.ran = {} /\ r.read = {}
  /\ Stage(r) > 7 => r.ran # {} /\ r.read # {}
  /\ Stage(r) > 8 => /\ r.ran = {r.build.binary}
                     /\ r.frozen => r.build.binary.tree \in Anchored[r.manifest]
  /\ Stage(r) > 10 => r.read = {r.manifest}

RunTypes ==
  /\ run \in [Runs -> Evaluating \cup {None}]
  /\ reference \in [manifest : References, arrays : References]
  /\ DOMAIN outputs = Outputs
OnCourse == \A p \in Runs : Active(p) /\ ReportsFailure(run[p].tool) => Follows(run[p])

EvaluationInv == BuildInv /\ RunTypes /\ OnCourse /\ PassIsWhatRan

(* The steps of the three evaluations, by stage.                           *)
LEMMA Courses ==
  /\ Course(1) = "receipt" /\ Course(2) = "manifest" /\ Course(3) = "arrays" /\ Course(4) = "candidate"
  /\ Course(5) = "reserve" /\ Course(6) = "started" /\ Course(7) = "run" /\ Course(8) = "same build"
  /\ Course(9) = "same manifest" /\ Course(10) = "same arrays" /\ Course(11) = "validate"
  /\ Course(12) = "report"
  BY DEF Course, MlpSuite

(* The decoder's evaluations by position.                                  *)
LEMMA Undated ==
  /\ Len(Holdout) = 11
  /\ Holdout[1] = "receipt" /\ Holdout[2] = "manifest" /\ Holdout[3] = "arrays" /\ Holdout[4] = "candidate"
  /\ Holdout[5] = "reserve" /\ Holdout[6] = "run" /\ Holdout[7] = "same build"
  /\ Holdout[8] = "same manifest" /\ Holdout[9] = "same arrays" /\ Holdout[10] = "validate"
  /\ Holdout[11] = "report"
  BY DEF Holdout

(* Stages and positions.                                                   *)
LEMMA CourseOf ==
  ASSUME NEW r \in Evaluating, ReportsFailure(r.tool), r.at \in 1 .. Len(Steps[r.tool])
  PROVE  /\ Stage(r) \in 1 .. 12
         /\ Steps[r.tool][r.at] = Course(Stage(r))
         /\ Stage(r) < 12 => r.at + 1 \in 1 .. Len(Steps[r.tool])
<1>1. /\ Steps.mlp = MlpSuite /\ Steps.holdout = Holdout /\ Steps.policies = Holdout
  BY DEF Steps, Holdout, Policies
<1>2. CASE r.tool = "mlp"
  <2>1. Steps[r.tool] = MlpSuite
    BY <1>1, <1>2
  <2>2. Len(MlpSuite) = 12
    BY DEF MlpSuite
  <2> QED
    BY <1>2, <2>1, <2>2 DEF Stage, Course
<1>3. CASE r.tool \in {"holdout", "policies"}
  <2>1. Steps[r.tool] = Holdout
    BY <1>1, <1>3
  <2>2. \/ r.at = 1 \/ r.at = 2 \/ r.at = 3 \/ r.at = 4 \/ r.at = 5 \/ r.at = 6 \/ r.at = 7 \/ r.at = 8
        \/ r.at = 9 \/ r.at = 10 \/ r.at = 11
    <3>1. r.at \in 1 .. 11
      BY <2>1, Undated
    <3> QED
      BY <3>1
  <2>3. /\ r.at = 1 => Stage(r) = 1
        /\ r.at = 2 => Stage(r) = 2
        /\ r.at = 3 => Stage(r) = 3
        /\ r.at = 4 => Stage(r) = 4
        /\ r.at = 5 => Stage(r) = 5
    BY DEF Stage
  <2>4. /\ r.at = 6 => Stage(r) = 7
        /\ r.at = 7 => Stage(r) = 8
        /\ r.at = 8 => Stage(r) = 9
        /\ r.at = 9 => Stage(r) = 10
        /\ r.at = 10 => Stage(r) = 11
        /\ r.at = 11 => Stage(r) = 12
    BY <1>3 DEF Stage
  <2> HIDE DEF Stage, Course
  <2>5. Holdout[r.at] = Course(Stage(r))
    <3>1. CASE r.at = 1
      BY <3>1, <2>3, Undated, Courses
    <3>2. CASE r.at = 2
      BY <3>2, <2>3, Undated, Courses
    <3>3. CASE r.at = 3
      BY <3>3, <2>3, Undated, Courses
    <3>4. CASE r.at = 4
      BY <3>4, <2>3, Undated, Courses
    <3>5. CASE r.at = 5
      BY <3>5, <2>3, Undated, Courses
    <3>6. CASE r.at = 6
      BY <3>6, <2>4, Undated, Courses
    <3>7. CASE r.at = 7
      BY <3>7, <2>4, Undated, Courses
    <3>8. CASE r.at = 8
      BY <3>8, <2>4, Undated, Courses
    <3>9. CASE r.at = 9
      BY <3>9, <2>4, Undated, Courses
    <3>10. CASE r.at = 10
      BY <3>10, <2>4, Undated, Courses
    <3>11. CASE r.at = 11
      BY <3>11, <2>4, Undated, Courses
    <3> QED
      BY <2>2, <3>1, <3>2, <3>3, <3>4, <3>5, <3>6, <3>7, <3>8, <3>9, <3>10, <3>11
  <2>6. Stage(r) \in 1 .. 12 /\ (Stage(r) < 12 => r.at + 1 \in 1 .. 11)
    BY <2>2, <2>3, <2>4
  <2> QED
    BY <2>1, <2>5, <2>6, Undated
<1> QED
  BY <1>2, <1>3 DEF ReportsFailure

(* Where such an evaluation is, and that the next step is the next stage's.*)
LEMMA StageOfStep ==
  ASSUME NEW r \in Evaluating, ReportsFailure(r.tool), Follows(r)
  PROVE  LET step == Steps[r.tool][r.at] IN
         /\ step = "receipt" <=> Stage(r) = 1
         /\ step = "manifest" <=> Stage(r) = 2
         /\ step = "arrays" <=> Stage(r) = 3
         /\ step = "candidate" <=> Stage(r) = 4
         /\ step = "reserve" <=> Stage(r) = 5
         /\ step = "started" <=> Stage(r) = 6
         /\ step = "run" <=> Stage(r) = 7
         /\ step = "same build" <=> Stage(r) = 8
         /\ step = "same manifest" <=> Stage(r) = 9
         /\ step = "same arrays" <=> Stage(r) = 10
         /\ step = "validate" <=> Stage(r) = 11
         /\ step = "report" <=> Stage(r) = 12
         /\ step \notin {"manifest again", "arrays again", "reverify", "compare", "new file"}
         /\ Stage(r) \in 1 .. 12
<1>1. Stage(r) \in 1 .. 12 /\ Steps[r.tool][r.at] = Course(Stage(r))
  BY CourseOf DEF Follows
<1>2. \/ Stage(r) = 1 \/ Stage(r) = 2 \/ Stage(r) = 3 \/ Stage(r) = 4 \/ Stage(r) = 5 \/ Stage(r) = 6
      \/ Stage(r) = 7 \/ Stage(r) = 8 \/ Stage(r) = 9 \/ Stage(r) = 10 \/ Stage(r) = 11 \/ Stage(r) = 12
  BY <1>1
<1> HIDE DEF Course, Stage
<1> QED
  BY <1>1, <1>2, Courses

(* What follows a step is the next stage.                                  *)
LEMMA NextStage ==
  ASSUME NEW r \in Evaluating, ReportsFailure(r.tool), Follows(r), Stage(r) < 12,
         NEW s \in Evaluating, s.tool = r.tool, s.at = r.at + 1
  PROVE  /\ s.at \in 1 .. Len(Steps[s.tool])
         /\ Stage(s) = Stage(r) + 1 \/ (Stage(r) = 5 /\ Stage(s) = 7)
<1>1. s.at \in 1 .. Len(Steps[s.tool])
  BY CourseOf DEF Follows
<1>2. r.at \in Nat
  BY DEF Evaluating
<1>3. Stage(s) = Stage(r) + 1 \/ (Stage(r) = 5 /\ Stage(s) = 7)
  BY <1>2 DEF Stage
<1> QED
  BY <1>1, <1>3

(* A step that keeps what an evaluation has recorded, when what the step   *)
(* looked at held.                                                         *)
LEMMA Advancing ==
  ASSUME NEW r \in Evaluating, ReportsFailure(r.tool), Follows(r),
         NEW s \in Evaluating, s.tool = r.tool, s.at = r.at + 1, s.frozen = r.frozen,
         s.build = r.build, s.manifest = r.manifest, s.ran = r.ran, s.read = r.read,
         Stage(r) \notin {1, 2, 7, 12},
         Stage(r) = 3 => HasDeclarations(r),
         Stage(r) = 4 /\ r.frozen => r.build.binary.tree = CandidateTree[r.manifest],
         Stage(r) = 8 => /\ r.ran = {r.build.binary}
                         /\ r.frozen => r.build.binary.tree \in Anchored[r.manifest],
         Stage(r) = 10 => r.read = {r.manifest}
  PROVE  Follows(s)
<1>1. Stage(r) \in 1 .. 12
  BY StageOfStep
<1>2. /\ s.at \in 1 .. Len(Steps[s.tool])
      /\ Stage(s) = Stage(r) + 1 \/ (Stage(r) = 5 /\ Stage(s) = 7)
  BY <1>1, NextStage
<1> HIDE DEF Stage
<1>3. HasBuild(s)
  BY <1>1 DEF Follows, HasBuild
<1>4. HasArrays(s)
  BY <1>1 DEF Follows, HasArrays
<1>5. Stage(s) > 3 => HasDeclarations(s)
  BY <1>1, <1>2 DEF Follows, HasDeclarations
<1> HIDE DEF HasBuild, HasArrays, HasDeclarations
<1>6. /\ Stage(s) > 4 /\ s.frozen => s.build.binary.tree = CandidateTree[s.manifest]
      /\ Stage(s) <= 7 => s.ran = {} /\ s.read = {}
      /\ Stage(s) > 7 => s.ran # {} /\ s.read # {}
  BY <1>1, <1>2 DEF Follows
<1>7. /\ Stage(s) > 8 => /\ s.ran = {s.build.binary}
                         /\ s.frozen => s.build.binary.tree \in Anchored[s.manifest]
      /\ Stage(s) > 10 => s.read = {s.manifest}
  BY <1>1, <1>2 DEF Follows
<1> QED
  BY <1>2, <1>3, <1>4, <1>5, <1>6, <1>7 DEF Follows

(* A step of one evaluation leaves the others on their course.             *)
LEMMA OneMoves ==
  ASSUME EvaluationInv, NEW p \in Runs, NEW next \in Evaluating \cup {None},
         UNCHANGED <<source, binary, receipt, reference, builder, builds>>,
         run' = [run EXCEPT ![p] = next],
         next # None /\ ReportsFailure(next.tool) => Follows(next),
         DOMAIN outputs' = Outputs, PassIsWhatRan'
  PROVE  EvaluationInv'
<1>1. BuildInv'
  BY DEF EvaluationInv, BuildInv, Compiling, Receipted
<1>2. RunTypes'
  BY DEF EvaluationInv, RunTypes
<1>3. run'[p] = next /\ \A q \in Runs : q # p => run'[q] = run[q]
  BY DEF EvaluationInv, RunTypes
<1>4. ASSUME NEW q \in Runs, run'[q] # None, ReportsFailure(run'[q].tool)
      PROVE  Follows(run'[q])
  BY <1>3, <1>4 DEF EvaluationInv, OnCourse, Active
<1>5. ASSUME NEW q \in Runs, run'[q] # None, ReportsFailure(run'[q].tool)
      PROVE  Follows(run[q])'
  BY <1>4, <1>5 DEF Follows, HasBuild, HasArrays, HasDeclarations
<1>6. OnCourse'
  BY <1>5 DEF OnCourse, Active
<1> QED
  BY <1>1, <1>2, <1>6 DEF EvaluationInv

(* An output that is replaced by something that is not a passed report of  *)
(* these evaluations.                                                      *)
LEMMA Replaced ==
  ASSUME EvaluationInv, NEW o, NEW content, outputs' = [outputs EXCEPT ![o] = content],
         content.status = "passed" /\ ReportsFailure(content.tool) =>
           /\ content.ran = {content.build.binary} /\ content.read = {content.manifest}
           /\ content.build.source = Identity(content.build.binary.tree)
           /\ content.frozen => /\ content.build.binary.tree = CandidateTree[content.manifest]
                                /\ content.build.binary.tree \in Anchored[content.manifest]
  PROVE  DOMAIN outputs' = Outputs /\ PassIsWhatRan'
<1>1. DOMAIN outputs = Outputs /\ PassIsWhatRan
  BY DEF EvaluationInv, RunTypes
<1>2. \A q \in Outputs : outputs'[q] = outputs[q] \/ outputs'[q] = content
  BY <1>1
<1> QED
  BY <1>1, <1>2 DEF PassIsWhatRan

(* What an evaluation under way is.                                        *)
LEMMA Under ==
  ASSUME EvaluationInv, NEW p \in Runs, Active(p)
  PROVE  /\ run[p] \in Evaluating
         /\ ReportsFailure(run[p].tool) => Follows(run[p])
         /\ [run[p] EXCEPT !.at = @ + 1] \in Evaluating
<1>1. run[p] \in Evaluating
  BY DEF EvaluationInv, RunTypes, Active
<1>2. [run[p] EXCEPT !.at = @ + 1] \in Evaluating
  BY <1>1 DEF Evaluating
<1> QED
  BY <1>1, <1>2 DEF EvaluationInv, OnCourse

(* An evaluation starts knowing nothing.                                   *)
LEMMA StartOK ==
  ASSUME EvaluationInv, NEW p \in Runs, NEW tool \in Tools, NEW o \in Outputs, NEW frozen \in BOOLEAN,
         Start(p, tool, o, frozen)
  PROVE  EvaluationInv'
<1> DEFINE next == [tool |-> tool, at |-> 1, output |-> o, frozen |-> frozen, reserved |-> FALSE,
                    build |-> None, manifest |-> None, ok |-> TRUE, ran |-> {}, read |-> {}]
<1>1. next \in Evaluating
  BY DEF Evaluating
<1>2. run' = [run EXCEPT ![p] = next]
  BY DEF Start
<1>3. ASSUME ReportsFailure(tool) PROVE Follows(next)
  <2>1. Stage(next) = 1
    BY DEF Stage
  <2>2. Len(Steps[tool]) \in {11, 12}
    <3>1. Steps.mlp = MlpSuite /\ Steps.holdout = Holdout /\ Steps.policies = Holdout
      BY DEF Steps, Holdout, Policies
    <3>2. Len(MlpSuite) = 12 /\ Len(Holdout) = 11
      BY Undated DEF MlpSuite
    <3> QED
      BY <1>3, <3>1, <3>2 DEF ReportsFailure
  <2>3. next.at \in 1 .. Len(Steps[next.tool])
    <3>1. next.tool = tool /\ next.at = 1
      OBVIOUS
    <3>2. 1 \in 1 .. 11 /\ 1 \in 1 .. 12
      OBVIOUS
    <3> HIDE DEF next
    <3> QED
      BY <2>2, <3>1, <3>2
  <2> QED
    BY <2>1, <2>3 DEF Follows
<1>4. DOMAIN outputs' = Outputs /\ PassIsWhatRan'
  BY DEF Start, EvaluationInv, RunTypes, PassIsWhatRan
<1>5. UNCHANGED <<source, binary, receipt, reference, builder, builds>>
  BY DEF Start
<1> HIDE DEF next
<1>6. next.tool = tool
  BY DEF next
<1> QED
  BY <1>1, <1>2, <1>3, <1>4, <1>5, <1>6, OneMoves

(* The steps that check: what is past them is what they saw.               *)
LEMMA CheckOK == ASSUME EvaluationInv, NEW p \in Runs, Check(p) \/ Validate(p) PROVE EvaluationInv'
<1> DEFINE r == run[p]
           next == [r EXCEPT !.at = @ + 1]
<1>1. Active(p) /\ Holds(p) /\ run' = [run EXCEPT ![p] = next]
  BY DEF Check, Validate, At, Advanced
<1>2. Step(p) \in {"reverify", "same build", "same manifest", "arrays", "same arrays", "arrays again",
                   "candidate", "new file", "validate"}
  BY DEF Check, Validate, At
<1>3. UNCHANGED <<source, binary, receipt, reference, builder, builds, outputs>>
  BY DEF Check, Validate, counters
<1>4. r \in Evaluating /\ next \in Evaluating
  BY <1>1, Under
<1>5. ASSUME ReportsFailure(next.tool) PROVE Follows(next)
  <2>1. ReportsFailure(r.tool) /\ Follows(r)
    BY <1>1, <1>4, <1>5, Under DEF Evaluating
  <2>2. /\ next.tool = r.tool /\ next.at = r.at + 1 /\ next.frozen = r.frozen /\ next.build = r.build
        /\ next.manifest = r.manifest /\ next.ran = r.ran /\ next.read = r.read
    BY <1>4 DEF Evaluating
  <2>3. Step(p) = Steps[r.tool][r.at]
    BY DEF Step
  <2> HIDE DEF next
  <2>4. Stage(r) \notin {1, 2, 7, 12} /\ Stage(r) \in 1 .. 12
    BY <1>2, <1>4, <2>1, <2>3, StageOfStep
  <2>5. ASSUME Stage(r) = 3 PROVE HasDeclarations(r)
    <3>1. Step(p) = "arrays"
      BY <1>4, <2>1, <2>3, <2>5, StageOfStep
    <3>2. r.frozen => ChecksDeclarations(r)
      BY DEF ChecksDeclarations
    <3> QED
      BY <1>1, <3>1, <3>2 DEF Holds, InputsIntact, DeclarationsIntact, HasDeclarations
  <2>6. ASSUME Stage(r) = 4, r.frozen PROVE r.build.binary.tree = CandidateTree[r.manifest]
    <3>1. Step(p) = "candidate"
      BY <1>4, <2>1, <2>3, <2>6, StageOfStep
    <3> QED
      BY <1>1, <2>6, <3>1 DEF Holds
  <2>7. ASSUME Stage(r) = 8
        PROVE  /\ r.ran = {r.build.binary}
               /\ r.frozen => r.build.binary.tree \in Anchored[r.manifest]
    <3>1. Step(p) = "same build"
      BY <1>4, <2>1, <2>3, <2>7, StageOfStep
    <3>2. VerifiedBuild(KindOf(r.tool)) /\ receipt = r.build
      BY <1>1, <3>1 DEF Holds
    <3>3. HasBuild(r) /\ HasDeclarations(r) /\ r.ran # {}
      BY <2>1, <2>7 DEF Follows
    <3>4. receipt # None /\ receipt.source = Identity(source)
      BY <3>2 DEF VerifiedBuild
    <3>5. r.build.created = builds
      BY <3>2, <3>3, <3>4 DEF EvaluationInv, BuildInv, Receipted, HasBuild
    <3>6. r.ran \subseteq {r.build.binary}
      BY <3>3, <3>5 DEF HasBuild
    <3>7. r.build.source = Identity(source) /\ r.build.source = Identity(r.build.binary.tree)
      BY <3>2, <3>3, <3>4 DEF HasBuild
    <3>8. r.build.source.tree = source /\ r.build.binary.tree = source
      BY <3>7 DEF Identity
    <3> QED
      BY <3>3, <3>6, <3>8 DEF HasDeclarations
  <2>8. ASSUME Stage(r) = 10 PROVE r.read = {r.manifest}
    <3>1. Step(p) = "same arrays"
      BY <1>4, <2>1, <2>3, <2>8, StageOfStep
    <3>2. reference.arrays = r.manifest
      BY <1>1, <3>1 DEF Holds, InputsIntact, ArraysIntact
    <3>3. HasArrays(r) /\ r.read # {}
      BY <2>1, <2>8 DEF Follows
    <3> QED
      BY <3>2, <3>3 DEF HasArrays
  <2> QED
    BY <1>4, <2>1, <2>2, <2>4, <2>5, <2>6, <2>7, <2>8, Advancing
<1>6. DOMAIN outputs' = Outputs /\ PassIsWhatRan'
  BY <1>3 DEF EvaluationInv, RunTypes, PassIsWhatRan
<1> HIDE DEF next
<1> QED
  BY <1>1, <1>3, <1>4, <1>5, <1>6, OneMoves

(* A receipt that verifies is the last build's, and names its sources.     *)
LEMMA TakeReceiptOK == ASSUME EvaluationInv, NEW p \in Runs, TakeReceipt(p) PROVE EvaluationInv'
<1> DEFINE r == run[p]
           moved == [r EXCEPT !.at = @ + 1]
           next == [moved EXCEPT !.build = receipt]
<1>1. Active(p) /\ Step(p) = "receipt" /\ Holds(p) /\ run' = [run EXCEPT ![p] = next]
  BY DEF TakeReceipt, At, Advanced
<1>2. UNCHANGED <<source, binary, receipt, reference, builder, builds, outputs>>
  BY DEF TakeReceipt, counters
<1>3. VerifiedBuild(KindOf(r.tool))
  BY <1>1 DEF Holds
<1>4. /\ receipt \in Receipts /\ receipt # None /\ receipt.kind = KindOf(r.tool)
      /\ receipt.binary = binary /\ receipt.source = Identity(source)
      /\ receipt.binary.tree = receipt.source.tree
      /\ receipt.kind # "model" => receipt.created = builds
  BY <1>3 DEF VerifiedBuild, EvaluationInv, BuildInv, Receipted
<1>5. builder = None
  BY <1>4 DEF EvaluationInv, BuildInv, Compiling
<1>6. r \in Evaluating /\ moved \in Evaluating
  BY <1>1, Under
<1>7. /\ next \in Evaluating
      /\ next.tool = r.tool /\ next.at = r.at + 1 /\ next.frozen = r.frozen /\ next.build = receipt
      /\ next.manifest = r.manifest /\ next.ran = r.ran /\ next.read = r.read
  BY <1>4, <1>6 DEF Evaluating
<1> HIDE DEF next
<1>8. ASSUME ReportsFailure(next.tool) PROVE Follows(next)
  <2>1. ReportsFailure(r.tool) /\ Follows(r)
    BY <1>1, <1>7, <1>8, Under
  <2>2. Stage(r) = 1
    BY <1>1, <1>6, <2>1, StageOfStep DEF Step
  <2>3. next.at \in 1 .. Len(Steps[next.tool]) /\ Stage(next) = 2
    BY <1>6, <1>7, <2>1, <2>2, NextStage
  <2>4. receipt.kind # "model"
    BY <1>4, <2>1 DEF KindOf, ReportsFailure
  <2>5. r.ran = {} /\ r.read = {}
    BY <2>1, <2>2 DEF Follows
  <2>6. builds \in Nat
    BY DEF EvaluationInv, BuildInv
  <2>7. HasBuild(next)
    <3>1. next.build = receipt /\ receipt.created = builds /\ receipt.created <= builds
      BY <1>4, <1>7, <2>4, <2>6
    <3>2. receipt.source = Identity(receipt.binary.tree)
      BY <1>4 DEF Identity
    <3>3. binary \in {None, receipt.binary} /\ next.ran = {}
      BY <1>4, <1>7, <2>5
    <3> QED
      BY <1>4, <1>5, <2>4, <3>1, <3>2, <3>3 DEF HasBuild
  <2> QED
    BY <1>7, <2>3, <2>5, <2>7 DEF Follows
<1>9. DOMAIN outputs' = Outputs /\ PassIsWhatRan'
  BY <1>2 DEF EvaluationInv, RunTypes, PassIsWhatRan
<1> QED
  BY <1>1, <1>2, <1>7, <1>8, <1>9, OneMoves

(* A manifest is read before any arrays.                                   *)
LEMMA TakeManifestOK == ASSUME EvaluationInv, NEW p \in Runs, TakeManifest(p) PROVE EvaluationInv'
<1> DEFINE r == run[p]
           moved == [r EXCEPT !.at = @ + 1]
           next == [moved EXCEPT !.manifest = reference.manifest]
<1>1. Active(p) /\ Step(p) \in {"manifest", "manifest again"} /\ run' = [run EXCEPT ![p] = next]
  BY DEF TakeManifest, At, Advanced
<1>2. UNCHANGED <<source, binary, receipt, reference, builder, builds, outputs>>
  BY DEF TakeManifest, counters
<1>3. reference.manifest \in References
  BY DEF EvaluationInv, RunTypes
<1>4. r \in Evaluating /\ moved \in Evaluating
  BY <1>1, Under
<1>5. /\ next \in Evaluating
      /\ next.tool = r.tool /\ next.at = r.at + 1 /\ next.frozen = r.frozen /\ next.build = r.build
      /\ next.manifest = reference.manifest /\ next.ran = r.ran /\ next.read = r.read
  BY <1>3, <1>4 DEF Evaluating
<1> HIDE DEF next
<1>6. ASSUME ReportsFailure(next.tool) PROVE Follows(next)
  <2>1. ReportsFailure(r.tool) /\ Follows(r)
    BY <1>1, <1>5, <1>6, Under
  <2>2. Stage(r) = 2
    BY <1>1, <1>4, <2>1, StageOfStep DEF Step
  <2>3. next.at \in 1 .. Len(Steps[next.tool]) /\ Stage(next) = 3
    BY <1>4, <1>5, <2>1, <2>2, NextStage
  <2>4. HasBuild(r) /\ r.ran = {} /\ r.read = {}
    BY <2>1, <2>2 DEF Follows
  <2>5. HasBuild(next)
    BY <1>5, <2>4 DEF HasBuild
  <2>6. HasArrays(next)
    BY <1>5, <2>4 DEF HasArrays
  <2> QED
    BY <1>5, <2>3, <2>4, <2>5, <2>6 DEF Follows
<1>7. DOMAIN outputs' = Outputs /\ PassIsWhatRan'
  BY <1>2 DEF EvaluationInv, RunTypes, PassIsWhatRan
<1> QED
  BY <1>1, <1>2, <1>5, <1>6, <1>7, OneMoves

(* What the driver executes and reads.                                     *)
LEMMA ExecuteOK == ASSUME EvaluationInv, NEW p \in Runs, Execute(p) PROVE EvaluationInv'
<1> DEFINE r == run[p]
           moved == [r EXCEPT !.at = @ + 1]
           reads == IF ReportsFailure(r.tool) \/ r.tool = "operations" THEN r.read \cup {reference.arrays}
                    ELSE r.read
<1>1. PICK complete \in BOOLEAN :
        run' = [run EXCEPT ![p] = [moved EXCEPT !.ran = @ \cup {binary}, !.ok = @ /\ complete, !.read =
                  IF ReportsFailure(r.tool) \/ r.tool = "operations" THEN @ \cup {reference.arrays} ELSE @]]
  BY DEF Execute, Advanced
<1>2. Active(p) /\ Step(p) = "run" /\ Holds(p)
  BY DEF Execute, At
<1>3. UNCHANGED <<source, binary, receipt, reference, builder, builds, outputs>>
  BY DEF Execute, counters
<1>4. r \in Evaluating /\ moved \in Evaluating
  BY <1>2, Under
<1>5. binary # None /\ binary \in Binaries
  BY <1>2 DEF Holds, EvaluationInv, BuildInv
<1>6. reference.arrays \in References
  BY DEF EvaluationInv, RunTypes
<1> DEFINE next == [moved EXCEPT !.ran = r.ran \cup {binary}, !.ok = r.ok /\ complete, !.read = reads]
<1>7. run' = [run EXCEPT ![p] = next]
  BY <1>1, <1>4 DEF Evaluating
<1>8. r.ran \cup {binary} \in SUBSET Binaries /\ reads \in SUBSET References
  BY <1>4, <1>5, <1>6 DEF Evaluating
<1>9. (r.ok /\ complete) \in BOOLEAN
  OBVIOUS
<1> HIDE DEF reads
<1>10. /\ next \in Evaluating
       /\ next.tool = r.tool /\ next.at = r.at + 1 /\ next.frozen = r.frozen /\ next.build = r.build
       /\ next.manifest = r.manifest /\ next.ran = r.ran \cup {binary} /\ next.read = reads
  BY <1>4, <1>8, <1>9 DEF Evaluating
<1> HIDE DEF next
<1>11. ASSUME ReportsFailure(next.tool) PROVE Follows(next)
  <2>1. ReportsFailure(r.tool) /\ Follows(r)
    BY <1>2, <1>10, <1>11, Under
  <2>2. Stage(r) = 7
    BY <1>2, <1>4, <2>1, StageOfStep DEF Step
  <2>3. next.at \in 1 .. Len(Steps[next.tool]) /\ Stage(next) = 8
    BY <1>4, <1>10, <2>1, <2>2, NextStage
  <2>4. /\ HasBuild(r) /\ HasArrays(r) /\ HasDeclarations(r) /\ r.ran = {} /\ r.read = {}
        /\ r.frozen => r.build.binary.tree = CandidateTree[r.manifest]
    BY <2>1, <2>2 DEF Follows
  <2>5. next.ran = {binary} /\ next.read = {reference.arrays}
    BY <1>10, <2>1, <2>4 DEF reads
  <2>6. HasBuild(next)
    BY <1>5, <1>10, <2>4, <2>5 DEF HasBuild
  <2>7. HasArrays(next) /\ HasDeclarations(next)
    BY <1>10, <2>4, <2>5 DEF HasArrays, HasDeclarations
  <2> QED
    BY <1>10, <2>3, <2>4, <2>5, <2>6, <2>7 DEF Follows
<1>12. DOMAIN outputs' = Outputs /\ PassIsWhatRan'
  BY <1>3 DEF EvaluationInv, RunTypes, PassIsWhatRan
<1> QED
  BY <1>3, <1>7, <1>10, <1>11, <1>12, OneMoves

(* The steps that write an output and go on.                               *)
LEMMA WritesOK ==
  ASSUME EvaluationInv, NEW p \in Runs, Reserve(p) \/ WriteStarted(p) PROVE EvaluationInv'
<1> DEFINE r == run[p]
           moved == [r EXCEPT !.at = @ + 1]
<1>1. PICK reserved \in BOOLEAN : run' = [run EXCEPT ![p] = [moved EXCEPT !.reserved = reserved]]
  <2>1. CASE Reserve(p)
    BY <2>1 DEF Reserve, Advanced
  <2>2. CASE WriteStarted(p)
    <3>1. moved \in Evaluating /\ run' = [run EXCEPT ![p] = moved]
      BY <2>2, Under DEF WriteStarted, At, Advanced
    <3>2. moved = [moved EXCEPT !.reserved = moved.reserved] /\ moved.reserved \in BOOLEAN
      BY <3>1 DEF Evaluating
    <3> QED
      BY <3>1, <3>2
  <2> QED
    BY <2>1, <2>2
<1> DEFINE next == [moved EXCEPT !.reserved = reserved]
<1>2. Active(p) /\ Step(p) \in {"reserve", "started"}
  BY DEF Reserve, WriteStarted, At
<1>3. UNCHANGED <<source, binary, receipt, reference, builder, builds>>
  BY DEF Reserve, WriteStarted, counters
<1>4. r \in Evaluating /\ moved \in Evaluating
  BY <1>2, Under
<1>5. /\ next \in Evaluating
      /\ next.tool = r.tool /\ next.at = r.at + 1 /\ next.frozen = r.frozen /\ next.build = r.build
      /\ next.manifest = r.manifest /\ next.ran = r.ran /\ next.read = r.read
  BY <1>4 DEF Evaluating
<1>6. run' = [run EXCEPT ![p] = next]
  BY <1>1
<1> HIDE DEF next
<1>7. ASSUME ReportsFailure(next.tool) PROVE Follows(next)
  <2>1. ReportsFailure(r.tool) /\ Follows(r)
    BY <1>2, <1>5, <1>7, Under
  <2>2. Stage(r) \in {5, 6}
    BY <1>2, <1>4, <2>1, StageOfStep DEF Step
  <2> QED
    BY <1>4, <1>5, <2>1, <2>2, Advancing
<1>8. PICK content : /\ outputs' = [outputs EXCEPT ![run[p].output] = content]
                     /\ content.status \in {"created", "started"}
  <2>1. CASE Reserve(p)
    <3>1. EmptyDirectory.status = "created"
      BY DEF EmptyDirectory
    <3> QED
      BY <2>1, <3>1 DEF Reserve
  <2>2. CASE WriteStarted(p)
    <3>1. Report(p, "started").status = "started"
      BY DEF Report
    <3> QED
      BY <2>2, <3>1 DEF WriteStarted
  <2> QED
    BY <2>1, <2>2
<1>9. DOMAIN outputs' = Outputs /\ PassIsWhatRan'
  BY <1>8, Replaced
<1> QED
  BY <1>3, <1>5, <1>6, <1>7, <1>9, OneMoves

(* The other evaluations compare captures with references.                 *)
LEMMA CompareOK == ASSUME EvaluationInv, NEW p \in Runs, Compare(p) PROVE EvaluationInv'
<1> DEFINE r == run[p]
           moved == [r EXCEPT !.at = @ + 1]
<1>1. PICK passed \in BOOLEAN :
        run' = [run EXCEPT ![p] = [moved EXCEPT !.read = @ \cup {reference.arrays}, !.ok = @ /\ passed]]
  BY DEF Compare, Advanced
<1>2. Active(p) /\ Step(p) = "compare"
  BY DEF Compare, At
<1>3. UNCHANGED <<source, binary, receipt, reference, builder, builds, outputs>>
  BY DEF Compare, counters
<1>4. r \in Evaluating /\ moved \in Evaluating
  BY <1>2, Under
<1>5. reference.arrays \in References
  BY DEF EvaluationInv, RunTypes
<1> DEFINE next == [moved EXCEPT !.read = @ \cup {reference.arrays}, !.ok = @ /\ passed]
<1>6. moved.read \cup {reference.arrays} \in SUBSET References
  BY <1>4, <1>5 DEF Evaluating
<1>7. (moved.ok /\ passed) \in BOOLEAN
  OBVIOUS
<1>8. next \in Evaluating /\ next.tool = r.tool
  BY <1>4, <1>6, <1>7 DEF Evaluating
<1>9. run' = [run EXCEPT ![p] = next]
  BY <1>1
<1> HIDE DEF next
<1>10. ~ReportsFailure(next.tool)
  BY <1>2, <1>4, <1>8, Under, StageOfStep DEF Step
<1>11. DOMAIN outputs' = Outputs /\ PassIsWhatRan'
  BY <1>3 DEF EvaluationInv, RunTypes, PassIsWhatRan
<1> QED
  BY <1>3, <1>8, <1>9, <1>10, <1>11, OneMoves

(* The report: everything before it has held.                              *)
LEMMA WriteReportOK == ASSUME EvaluationInv, NEW p \in Runs, WriteReport(p) PROVE EvaluationInv'
<1> DEFINE r == run[p]
           status == IF run[p].ok THEN "passed" ELSE "failed"
           content == Report(p, status)
<1>1. Active(p) /\ Step(p) = "report"
  BY DEF WriteReport, At
<1>2. UNCHANGED <<source, binary, receipt, reference, builder, builds>>
  BY DEF WriteReport, counters
<1>3. run' = [run EXCEPT ![p] = None] /\ outputs' = [outputs EXCEPT ![run[p].output] = content]
  BY DEF WriteReport
<1>4. r \in Evaluating
  BY <1>1, Under
<1>5. /\ content.tool = r.tool /\ content.build = r.build /\ content.ran = r.ran /\ content.read = r.read
      /\ content.frozen = r.frozen
      /\ ~NamesManifestNow(r.tool) => content.manifest = r.manifest
  BY DEF Report
<1> HIDE DEF content
<1>6. ASSUME ReportsFailure(content.tool)
      PROVE  /\ content.ran = {content.build.binary} /\ content.read = {content.manifest}
             /\ content.build.source = Identity(content.build.binary.tree)
             /\ content.frozen => /\ content.build.binary.tree = CandidateTree[content.manifest]
                                  /\ content.build.binary.tree \in Anchored[content.manifest]
  <2>1. ReportsFailure(r.tool) /\ Follows(r)
    BY <1>1, <1>5, <1>6, Under
  <2>2. Stage(r) = 12
    BY <1>1, <1>4, <2>1, StageOfStep DEF Step
  <2>3. content.manifest = r.manifest
    BY <1>5, <2>1 DEF ReportsFailure, NamesManifestNow
  <2>4. r.build.source = Identity(r.build.binary.tree)
    BY <2>1, <2>2 DEF Follows, HasBuild
  <2> QED
    BY <1>5, <2>1, <2>2, <2>3, <2>4 DEF Follows
<1>7. DOMAIN outputs' = Outputs /\ PassIsWhatRan'
  BY <1>3, <1>6, Replaced
<1> QED
  BY <1>2, <1>3, <1>7, OneMoves

(* An evaluation that raises reports a failure, or nothing; one that is    *)
(* killed reports nothing.                                                 *)
LEMMA EndsOK == ASSUME EvaluationInv, NEW p \in Runs, Raise(p) \/ Crash(p) PROVE EvaluationInv'
<1>1. UNCHANGED <<source, binary, receipt, reference, builder, builds>> /\ run' = [run EXCEPT ![p] = None]
  BY DEF Raise, Crash, counters
<1>2. outputs' = outputs \/ outputs' = [outputs EXCEPT ![run[p].output] = Report(p, "failed")]
  BY DEF Raise, Crash
<1>3. Report(p, "failed").status = "failed"
  BY DEF Report
<1>4. DOMAIN outputs' = Outputs /\ PassIsWhatRan'
  <2>1. CASE outputs' = outputs
    BY <2>1 DEF EvaluationInv, RunTypes, PassIsWhatRan
  <2>2. CASE outputs' = [outputs EXCEPT ![run[p].output] = Report(p, "failed")]
    BY <1>3, <2>2, Replaced
  <2> QED
    BY <1>2, <2>1, <2>2
<1> QED
  BY <1>1, <1>4, OneMoves

(* What surrounds the evaluations keeps their outputs, and each of them    *)
(* knows what it knew when that is still so.                               *)
LEMMA AllStay ==
  ASSUME EvaluationInv, BuildInv', UNCHANGED <<run, outputs>>,
         reference' \in [manifest : References, arrays : References],
         \A p \in Runs : Active(p) /\ ReportsFailure(run[p].tool) =>
           /\ Stage(run[p]) > 1 => HasBuild(run[p])'
           /\ Stage(run[p]) > 2 => HasArrays(run[p])'
           /\ Stage(run[p]) > 3 => HasDeclarations(run[p])'
  PROVE  EvaluationInv'
<1>1. RunTypes' /\ PassIsWhatRan'
  BY DEF EvaluationInv, RunTypes, PassIsWhatRan
<1>2. ASSUME NEW p \in Runs, Active(p), ReportsFailure(run[p].tool) PROVE Follows(run[p])'
  <2>1. Follows(run[p])
    BY <1>2 DEF EvaluationInv, OnCourse
  <2>2. run'[p] = run[p]
    OBVIOUS
  <2> HIDE DEF Stage, HasBuild, HasArrays, HasDeclarations
  <2> QED
    BY <1>2, <2>1, <2>2 DEF Follows
<1>3. OnCourse'
  BY <1>2 DEF OnCourse, Active
<1> QED
  BY <1>1, <1>3 DEF EvaluationInv

(* What evaluations past their receipt, manifest and arrays have.          *)
LEMMA Known ==
  ASSUME EvaluationInv, NEW p \in Runs, Active(p), ReportsFailure(run[p].tool)
  PROVE  /\ Stage(run[p]) > 1 => HasBuild(run[p])
         /\ Stage(run[p]) > 2 => HasArrays(run[p])
         /\ Stage(run[p]) > 3 => HasDeclarations(run[p]) /\ HasBuild(run[p])
         /\ run[p] \in Evaluating /\ Stage(run[p]) \in 1 .. 12
<1>1. Follows(run[p]) /\ run[p] \in Evaluating
  BY Under
<1>2. Stage(run[p]) \in 1 .. 12
  BY <1>1, StageOfStep
<1> HIDE DEF Stage
<1> QED
  BY <1>1, <1>2 DEF Follows

(* A new build has a date after every receipt that was taken.              *)
LEMMA StartBuildOK ==
  ASSUME EvaluationInv, (\E kind \in Kinds : StartBuild(kind)) \/ (\E tree \in Clean : StartArchiveBuild(tree))
  PROVE  EvaluationInv'
<1>1. builder' \in Builders /\ ~builder'.compiled
  <2>1. CASE \E kind \in Kinds : StartBuild(kind)
    BY <2>1 DEF StartBuild, Builders, Origins, Identity, Trees
  <2>2. CASE \E tree \in Clean : StartArchiveBuild(tree)
    BY <2>2 DEF StartArchiveBuild, Builders, Origins, ArchiveIdentity, Trees, Kinds
  <2> QED
    BY <2>1, <2>2
<1>2. /\ receipt = None /\ builds' = builds + 1
      /\ UNCHANGED <<source, binary, receipt, reference, outputs, run>>
  BY DEF StartBuild, StartArchiveBuild
<1>3. builds \in Nat
  BY DEF EvaluationInv, BuildInv
<1>4. BuildInv'
  BY <1>1, <1>2 DEF EvaluationInv, BuildInv, Compiling, Receipted
<1>5. ASSUME NEW p \in Runs, HasBuild(run[p]) PROVE HasBuild(run[p])'
  <2>1. run[p].build.created \in Nat
    BY <1>5 DEF HasBuild, Receipts
  <2> QED
    BY <1>2, <1>3, <1>5, <2>1 DEF HasBuild
<1>6. \A p \in Runs : /\ HasArrays(run[p]) => HasArrays(run[p])'
                      /\ HasDeclarations(run[p]) => HasDeclarations(run[p])'
  BY <1>2 DEF HasArrays, HasDeclarations
<1>7. reference' \in [manifest : References, arrays : References]
  BY <1>2 DEF EvaluationInv, RunTypes
<1> HIDE DEF Stage, HasBuild, HasArrays, HasDeclarations
<1> QED
  BY <1>2, <1>4, <1>5, <1>6, <1>7, Known, AllStay

(* While a build is under way, no evaluation's receipt is of the last one. *)
LEMMA BuildsOn ==
  ASSUME EvaluationInv, builder # None, BuildInv',
         UNCHANGED <<source, reference, outputs, run, builds>>
  PROVE  EvaluationInv'
<1>1. \A p \in Runs : /\ HasBuild(run[p]) => HasBuild(run[p])'
                      /\ HasArrays(run[p]) => HasArrays(run[p])'
                      /\ HasDeclarations(run[p]) => HasDeclarations(run[p])'
  BY DEF HasBuild, HasArrays, HasDeclarations
<1>2. reference' \in [manifest : References, arrays : References]
  BY DEF EvaluationInv, RunTypes
<1> HIDE DEF Stage, HasBuild, HasArrays, HasDeclarations
<1> QED
  BY <1>1, <1>2, Known, AllStay

(* What is compiled is the builder's sources, if those are still there.    *)
LEMMA CompileOK == ASSUME EvaluationInv, Compile PROVE EvaluationInv'
<1>1. builder # None /\ builder \in Builders /\ receipt = None /\ source \in Trees
  BY DEF Compile, EvaluationInv, BuildInv, Compiling
<1> DEFINE tree == IF builder.source.archive THEN builder.source.tree ELSE source
<1>2. binary' = [kind |-> builder.kind, tree |-> tree] /\ builder' = [builder EXCEPT !.compiled = TRUE]
  BY DEF Compile
<1>3. tree \in Trees
  BY <1>1 DEF Builders, Origins
<1>4. binary' \in Binaries /\ binary'.tree = tree
  BY <1>1, <1>2, <1>3 DEF Builders, Binaries
<1>5. builder' \in Builders /\ builder'.source = builder.source
  BY <1>1, <1>2 DEF Builders
<1>6. UNCHANGED <<source, receipt, reference, outputs, run, builds>>
  BY DEF Compile, counters
<1>7. BuildInv'
  BY <1>1, <1>4, <1>5, <1>6 DEF EvaluationInv, BuildInv, Compiling, Receipted
<1> QED
  BY <1>1, <1>6, <1>7, BuildsOn

(* A receipt is dated by its own build.                                    *)
LEMMA WriteReceiptOK == ASSUME EvaluationInv, WriteReceipt PROVE EvaluationInv'
<1>1. /\ builder # None /\ builder \in Builders /\ builder.compiled /\ binary \in Binaries
      /\ builds \in Nat
      /\ (builder.source.archive \/ source = builder.source.tree) => binary.tree = builder.source.tree
  BY DEF WriteReceipt, EvaluationInv, BuildInv, Compiling
<1>2. binary.tree = builder.source.tree
  BY <1>1 DEF WriteReceipt, Unchanged, Identity
<1> DEFINE created == IF builder.kind = "model" THEN 0 ELSE builds
<1>3. receipt' = [kind |-> builder.kind, source |-> builder.source, binary |-> binary, created |-> created]
  BY DEF WriteReceipt
<1>4. created \in Nat /\ (builder.kind # "model" => created = builds)
  BY <1>1
<1>5. receipt' \in Receipts
  BY <1>1, <1>3, <1>4 DEF Builders, Receipts
<1>6. receipt'.binary.tree = receipt'.source.tree /\ (receipt'.kind # "model" => receipt'.created = builds)
  BY <1>2, <1>3, <1>4
<1>7. builder' = None /\ UNCHANGED <<source, binary, reference, outputs, run, builds>>
  BY DEF WriteReceipt, counters
<1>8. BuildInv'
  BY <1>5, <1>6, <1>7 DEF EvaluationInv, BuildInv, Compiling, Receipted
<1> QED
  BY <1>1, <1>7, <1>8, BuildsOn

(* A build that stops leaves no receipt.                                   *)
LEMMA BuildStopsOK == ASSUME EvaluationInv, BuildStops PROVE EvaluationInv'
<1>1. builder # None /\ builder' = None /\ UNCHANGED <<source, binary, receipt, reference, outputs, run, builds>>
  BY DEF BuildStops, counters
<1>2. BuildInv'
  BY <1>1 DEF EvaluationInv, BuildInv, Compiling, Receipted
<1> QED
  BY <1>1, <1>2, BuildsOn

(* Sources do not come back to what a build or an evaluation recorded.     *)
LEMMA ChangeSourceOK ==
  ASSUME EvaluationInv, NEW tree \in Trees, ChangeSource(tree) PROVE EvaluationInv'
<1>1. source' = tree /\ UNCHANGED <<binary, receipt, reference, builder, outputs, run, builds>> /\ ~Recorded(tree)
  BY DEF ChangeSource
<1>2. ASSUME builder # None, ~builder.source.archive PROVE builder.source.tree # tree
  <2>1. builder.source \in Origins
    BY <1>2 DEF EvaluationInv, BuildInv, Compiling, Builders
  <2>2. builder.source = Identity(builder.source.tree)
    BY <1>2, <2>1 DEF Origins, Identity
  <2> QED
    BY <1>1, <1>2, <2>2 DEF Recorded
<1>3. BuildInv'
  BY <1>1, <1>2 DEF EvaluationInv, BuildInv, Compiling, Receipted
<1>4. \A p \in Runs : /\ HasBuild(run[p]) => HasBuild(run[p])'
                      /\ HasArrays(run[p]) => HasArrays(run[p])'
  BY <1>1 DEF HasBuild, HasArrays
<1>5. ASSUME NEW p \in Runs, Active(p), HasBuild(run[p]) PROVE HasDeclarations(run[p])'
  <2>1. run[p].build.source.tree # tree
    BY <1>1, <1>5 DEF Recorded, HasBuild
  <2> QED
    BY <1>1, <2>1 DEF HasDeclarations
<1>6. reference' \in [manifest : References, arrays : References]
  BY <1>1 DEF EvaluationInv, RunTypes
<1> HIDE DEF Stage, HasBuild, HasArrays, HasDeclarations
<1> QED
  BY <1>1, <1>3, <1>4, <1>5, <1>6, Known, AllStay

(* Of a build that is cleared away nothing is left, or less.               *)
LEMMA RemoveBuildOK == ASSUME EvaluationInv, RemoveBuild PROVE EvaluationInv'
<1>1. /\ builder = None /\ UNCHANGED <<source, reference, builder, outputs, run, builds>>
      /\ binary' \in {None, binary} /\ receipt' \in {None, receipt}
  BY DEF RemoveBuild, counters
<1>2. BuildInv'
  BY <1>1 DEF EvaluationInv, BuildInv, Compiling, Receipted
<1>3. \A p \in Runs : /\ HasBuild(run[p]) => HasBuild(run[p])'
                      /\ HasArrays(run[p]) => HasArrays(run[p])'
                      /\ HasDeclarations(run[p]) => HasDeclarations(run[p])'
  BY <1>1 DEF HasBuild, HasArrays, HasDeclarations
<1>4. reference' \in [manifest : References, arrays : References]
  BY <1>1 DEF EvaluationInv, RunTypes
<1> HIDE DEF Stage, HasBuild, HasArrays, HasDeclarations
<1> QED
  BY <1>1, <1>2, <1>3, <1>4, Known, AllStay

(* References do not come back to a manifest that was read.                *)
LEMMA ChangeReferenceOK ==
  ASSUME EvaluationInv, NEW part \in {"manifest", "arrays"}, NEW v \in References, ChangeReference(part, v)
  PROVE  EvaluationInv'
<1>1. /\ reference' = [reference EXCEPT ![part] = v]
      /\ UNCHANGED <<source, binary, receipt, builder, outputs, run, builds>>
      /\ \A p \in Runs : Active(p) => run[p].manifest # v
  BY DEF ChangeReference
<1>2. reference \in [manifest : References, arrays : References]
  BY DEF EvaluationInv, RunTypes
<1>3. reference' \in [manifest : References, arrays : References] /\ reference'.arrays \in {reference.arrays, v}
  <2>1. CASE part = "manifest"
    BY <1>1, <1>2, <2>1
  <2>2. CASE part = "arrays"
    BY <1>1, <1>2, <2>2
  <2> QED
    BY <2>1, <2>2
<1>4. BuildInv'
  BY <1>1 DEF EvaluationInv, BuildInv, Compiling, Receipted
<1>5. \A p \in Runs : /\ HasBuild(run[p]) => HasBuild(run[p])'
                      /\ Active(p) /\ HasArrays(run[p]) => HasArrays(run[p])'
                      /\ HasDeclarations(run[p]) => HasDeclarations(run[p])'
  BY <1>1, <1>3 DEF HasBuild, HasArrays, HasDeclarations
<1> HIDE DEF Stage, HasBuild, HasArrays, HasDeclarations
<1> QED
  BY <1>1, <1>3, <1>4, <1>5, Known, AllStay

(* Nothing is built, recorded or reported at first.                        *)
LEMMA EvaluationStarts == ASSUME Init PROVE EvaluationInv
<1>1. BuildInv
  BY DEF Init, BuildInv, Compiling, Receipted, Trees
<1>2. RunTypes
  BY DEF Init, RunTypes
<1>3. OnCourse
  BY DEF Init, OnCourse, Active
<1>4. PassIsWhatRan
  BY DEF Init, PassIsWhatRan
<1> QED
  BY <1>1, <1>2, <1>3, <1>4 DEF EvaluationInv

(* Every step keeps it.                                                    *)
LEMMA EvaluationKept == ASSUME EvaluationInv, [Next]_vars PROVE EvaluationInv'
<1>1. CASE BuildStep
  BY <1>1, StartBuildOK, CompileOK, WriteReceiptOK, BuildStopsOK DEF BuildStep
<1>2. ASSUME NEW p \in Runs, RunStep(p) PROVE EvaluationInv'
  BY <1>2, StartOK, CheckOK, TakeReceiptOK, TakeManifestOK, WritesOK, ExecuteOK, CompareOK, WriteReportOK,
     EndsOK DEF RunStep
<1>3. CASE Surroundings
  BY <1>3, ChangeSourceOK, RemoveBuildOK, ChangeReferenceOK DEF Surroundings, Trees
<1>4. CASE UNCHANGED vars
  <2>1. UNCHANGED <<source, binary, receipt, reference, builder, outputs, run, builds>>
    BY <1>4 DEF vars
  <2>2. BuildInv' /\ reference' \in [manifest : References, arrays : References]
    BY <2>1 DEF EvaluationInv, BuildInv, Compiling, Receipted, RunTypes
  <2>3. \A p \in Runs : /\ HasBuild(run[p]) => HasBuild(run[p])'
                        /\ HasArrays(run[p]) => HasArrays(run[p])'
                        /\ HasDeclarations(run[p]) => HasDeclarations(run[p])'
    BY <2>1 DEF HasBuild, HasArrays, HasDeclarations
  <2> HIDE DEF Stage, HasBuild, HasArrays, HasDeclarations
  <2> QED
    BY <2>1, <2>2, <2>3, Known, AllStay
<1> QED
  BY <1>1, <1>2, <1>3, <1>4 DEF Next

(* A receipt that lies beside its own binary names the sources the binary  *)
(* was compiled from, whatever was edited while it was compiled (build in  *)
(* model.py, decoder.py and mlp.py).                                       *)
THEOREM ReceiptsAreTrue == Spec => []ReceiptIsTrue
<1>1. Init => EvaluationInv
  BY EvaluationStarts
<1>2. EvaluationInv /\ [Next]_vars => EvaluationInv'
  BY EvaluationKept
<1>3. EvaluationInv => ReceiptIsTrue
  BY DEF EvaluationInv, BuildInv, Receipted, ReceiptIsTrue
<1> QED
  BY <1>1, <1>2, <1>3, PTL DEF Spec

(* A passed report of the holdout, of its policies or of the MLP suite is  *)
(* about the one binary, the references and the candidate it names:        *)
(* whatever was built, removed, edited or generated again during the       *)
(* evaluation, by any number of evaluations at once (evaluate in           *)
(* decoder.py and mlp.py).                                                 *)
THEOREM PassesAreWhatRan == Spec => []PassIsWhatRan
<1>1. Init => EvaluationInv
  BY EvaluationStarts
<1>2. EvaluationInv /\ [Next]_vars => EvaluationInv'
  BY EvaluationKept
<1>3. EvaluationInv => PassIsWhatRan
  BY DEF EvaluationInv
<1> QED
  BY <1>1, <1>2, <1>3, PTL DEF Spec

-----------------------------------------------------------------------------
(* Retention.  A bundle that pack makes is of one complete campaign.       *)
Commits   == {CommitOf[c] : c \in Campaigns}
Documents == {DocumentsOf[c] : c \in Campaigns}
Coherent(bundle) ==
  /\ bundle.record \in Complete /\ bundle.manifest = bundle.record
  /\ bundle.commit = CommitOf[bundle.record] /\ bundle.sources = bundle.commit
  /\ bundle.documents = DocumentsOf[bundle.record]
  /\ bundle.helper = bundle.commit /\ bundle.validated = bundle.commit
Bundles ==
  {bundle \in [commit : Commits, sources : Commits, documents : Documents, record : Campaigns,
               manifest : Campaigns, helper : Commits, validated : Commits] : Coherent(bundle)}

(* What a pack under way puts in its directory, and what is announced; an  *)
(* archive's manifest is a bundle's or damaged.                            *)
FileNames == {"record", "manifest", "archive", "archive manifest"}
Packing ==
  /\ inputs \in [InputFiles -> Campaigns]
  /\ DOMAIN packed = PackStages
  /\ packing # Nothing =>
       packing \in [at : {"write"}, stage : PackStages, bundle : Bundles, left : Seq(FileNames)]
  /\ announced \subseteq Bundles
Manifests ==
  \A s \in PackStages : "archive manifest" \in Holding(packed[s]) =>
    packed[s]["archive manifest"] \in Bundles \cup {Damaged}

(* What a restore has accepted is of the bundle it expects, and what it    *)
(* writes is what it accepted.                                             *)
Restorations ==
  [at : {"manifest", "archive", "record", "original", "fresh", "verify", "replay"},
   expected : Bundles, archive : PackStages, manifest : PackStages, stage : RestoreStages,
   bundle : Bundles \cup {Nothing}, read : Seq(Campaigns)]
Directories ==
  [at : {"written", "replayed", "failed"}, expected : Bundles, record : Campaigns, manifest : Campaigns,
   sources : Commits, helper : Commits, documents : Documents, validated : Commits]
OfItsBundle(dir) ==
  /\ dir \in Directories
  /\ dir.expected \in announced
  /\ dir.record = dir.expected.record /\ dir.manifest = dir.expected.manifest
  /\ dir.sources = dir.expected.sources /\ dir.helper = dir.expected.helper
  /\ dir.documents = dir.expected.documents /\ dir.validated = dir.expected.validated

Restored == \A d \in RestoreStages : restored[d] # Nothing => OfItsBundle(restored[d])
Accepting(r) ==
  /\ r \in Restorations
  /\ r.expected \in announced
  /\ r.at # "manifest" => r.bundle \in Bundles
  /\ r.at \notin {"manifest", "archive"} => r.bundle = r.expected
  /\ r.at \in {"manifest", "archive", "record"} => r.read = << >>
  /\ r.at = "original" => r.read = <<r.expected.record>>
  /\ r.at \in {"fresh", "verify", "replay"} => r.read = <<r.expected.record, r.expected.manifest>>
  /\ r.at \in {"verify", "replay"} =>
       OfItsBundle(restored[r.stage]) /\ restored[r.stage].expected = r.expected
Restoring ==
  /\ DOMAIN restored = RestoreStages
  /\ restoring # Nothing => Accepting(restoring)

RetentionInv == Packing /\ Manifests /\ Restored /\ Restoring

(* The helper records are not bundles.                                     *)
LEMMA Markers ==
  /\ Nothing \notin Bundles /\ Damaged \notin Bundles
  /\ Nothing.at = "nothing" /\ Nothing # Damaged
  /\ Nothing \notin Directories /\ Nothing \notin Restorations
  /\ Nothing \notin [at : {"write"}, stage : PackStages, bundle : Bundles, left : Seq(FileNames)]
<1>1. Nothing.at = "nothing" /\ Damaged.at = "damaged"
  BY DEF Nothing, Damaged
<1>2. DOMAIN Nothing = {"at"} /\ DOMAIN Damaged = {"at"}
  BY DEF Nothing, Damaged
<1>3. \A bundle \in Bundles : "record" \in DOMAIN bundle
  BY DEF Bundles
<1>4. "record" \notin DOMAIN Nothing /\ "record" \notin DOMAIN Damaged
  BY <1>2
<1>5. \A dir \in Directories : dir.at # "nothing"
  BY DEF Directories
<1>6. \A r \in Restorations : r.at # "nothing"
  BY DEF Restorations
<1>7. \A p \in [at : {"write"}, stage : PackStages, bundle : Bundles, left : Seq(FileNames)] : p.at # "nothing"
  OBVIOUS
<1> QED
  BY <1>1, <1>3, <1>4, <1>5, <1>6, <1>7

(* Nothing is packed or restored at first.                                 *)
LEMMA RetentionStarts == ASSUME RetentionInit PROVE RetentionInv
<1>1. Packing
  BY RetentionAssumption DEF RetentionInit, Packing
<1>2. Manifests
  BY DEF RetentionInit, Manifests, Holding, Nothing
<1>3. Restored /\ Restoring
  BY DEF RetentionInit, Restored, Restoring
<1> QED
  BY <1>1, <1>2, <1>3 DEF RetentionInv

(* Pack makes bundles of what it read in one look, and of that alone.      *)
LEMMA PackableIsCoherent ==
  ASSUME Packing, NEW c \in Campaigns, Packable(CommitOf[c])
  PROVE  Bundle(CommitOf[c]) \in Bundles
<1> DEFINE b == Bundle(CommitOf[c])
<1>1. \A file \in InputFiles : inputs[file] \in Campaigns
  BY DEF Packing
<1>2. {"record", "manifest", "documents", "build", "validation", "helper"} = InputFiles
  BY DEF InputFiles
<1>3. b \in [commit : Commits, sources : Commits, documents : Documents, record : Campaigns,
             manifest : Campaigns, helper : Commits, validated : Commits]
  BY <1>1, <1>2 DEF Bundle, Commits, Documents
<1>4. Coherent(b)
  BY <1>2 DEF Bundle, Coherent, Packable, Measurement, SameCommit
<1> QED
  BY <1>3, <1>4 DEF Bundles

(* A step of pack, and a fault, leaves restores as they are.               *)
LEMMA RestoresStay ==
  ASSUME Restored, Restoring, announced \subseteq announced', UNCHANGED restoreVars
  PROVE  Restored' /\ Restoring'
<1>1. \A dir : OfItsBundle(dir) => OfItsBundle(dir)'
  BY DEF OfItsBundle
<1>2. Restored'
  BY <1>1 DEF Restored, restoreVars
<1>3. ASSUME restoring # Nothing PROVE Accepting(restoring)'
  <2>1. Accepting(restoring)
    BY <1>3 DEF Restoring
  <2> QED
    BY <2>1, <1>1 DEF Accepting, restoreVars
<1>4. Restoring'
  BY <1>3 DEF Restoring, restoreVars
<1> QED
  BY <1>2, <1>4

(* A pack starts with a coherent bundle and an empty directory.            *)
LEMMA PackOK ==
  ASSUME RetentionInv, NEW c \in Campaigns, NEW s \in PackStages, Pack(CommitOf[c], s)
  PROVE  RetentionInv'
<1> USE DEF RetentionInv
<1>1. Bundle(CommitOf[c]) \in Bundles
  BY PackableIsCoherent DEF Pack
<1>2. PackFiles \in Seq(FileNames)
  BY DEF PackFiles, FileNames
<1>3. Packing'
  BY <1>1, <1>2 DEF Pack, Packing
<1>4. Manifests'
  <2>1. packed' = [packed EXCEPT ![s] = [at |-> "stage"]]
    BY DEF Pack
  <2>2. Holding([at |-> "stage"]) = {}
    BY DEF Holding
  <2> QED
    BY <2>1, <2>2 DEF Manifests, Packing
<1>5. Restored' /\ Restoring'
  BY RestoresStay DEF Pack
<1> QED
  BY <1>3, <1>4, <1>5

(* Each file of a pack is of its bundle.                                   *)
LEMMA WritePackedOK == ASSUME RetentionInv, WritePacked PROVE RetentionInv'
<1> USE DEF RetentionInv
<1> DEFINE s == packing.stage
           file == Head(packing.left)
           written == [f \in Holding(packed[s]) \cup {file} |->
                         IF f = file THEN FileOf(packing.bundle, file) ELSE packed[s][f]]
<1>1. /\ packing \in [at : {"write"}, stage : PackStages, bundle : Bundles, left : Seq(FileNames)]
      /\ packing.left # <<>>
  BY DEF WritePacked, Packing
<1>2. file \in FileNames /\ Tail(packing.left) \in Seq(FileNames)
  BY <1>1
<1>3. packed' = [packed EXCEPT ![s] = written]
  BY DEF WritePacked
<1>4. packing' = [packing EXCEPT !.left = Tail(@)]
  BY DEF WritePacked
<1>5. packing' \in [at : {"write"}, stage : PackStages, bundle : Bundles, left : Seq(FileNames)]
  BY <1>1, <1>2, <1>4
<1>6. Packing'
  BY <1>3, <1>5 DEF Packing, WritePacked
<1>7. Manifests'
  <2>1. SUFFICES ASSUME NEW t \in PackStages, "archive manifest" \in Holding(packed'[t])
                 PROVE  packed'[t]["archive manifest"] \in Bundles \cup {Damaged}
    BY DEF Manifests
  <2>2. CASE t # s
    BY <1>3, <2>1, <2>2 DEF Packing, Manifests
  <2>3. CASE t = s
    <3>1. packed'[t] = written
      BY <1>1, <1>3, <2>3 DEF Packing
    <3>2. "archive manifest" \in DOMAIN written
      BY <3>1, <2>1 DEF Holding
    <3>3. CASE file = "archive manifest"
      BY <3>1, <3>2, <3>3, <1>1 DEF FileOf
    <3>4. CASE file # "archive manifest"
      <4>1. "archive manifest" \in Holding(packed[s])
        BY <3>2, <3>4
      <4>2. written["archive manifest"] = packed[s]["archive manifest"]
        BY <3>2, <3>4
      <4> QED
        BY <4>1, <4>2, <3>1, <1>1 DEF Manifests
    <3> QED
      BY <3>3, <3>4
  <2> QED
    BY <2>2, <2>3
<1>8. Restored' /\ Restoring'
  BY RestoresStay DEF WritePacked
<1> QED
  BY <1>6, <1>7, <1>8

(* What is announced is a bundle.                                          *)
LEMMA AnnounceOK == ASSUME RetentionInv, Announce PROVE RetentionInv'
<1> USE DEF RetentionInv
<1>1. packing.bundle \in Bundles
  BY DEF Announce, Packing
<1>2. Packing'
  BY <1>1 DEF Announce, Packing
<1>3. Manifests'
  BY DEF Announce, Manifests
<1>4. Restored' /\ Restoring'
  BY RestoresStay DEF Announce
<1> QED
  BY <1>2, <1>3, <1>4

(* A pack that dies leaves its files.                                      *)
LEMMA PackDiesOK == ASSUME RetentionInv, PackDies PROVE RetentionInv'
<1> USE DEF RetentionInv
<1>1. Packing' /\ Manifests'
  BY DEF PackDies, Packing, Manifests
<1>2. Restored' /\ Restoring'
  BY RestoresStay DEF PackDies
<1> QED
  BY <1>1, <1>2

(* Edits are of campaigns' files, and outside packs.                       *)
LEMMA EditsOK ==
  ASSUME RetentionInv,
         (\E c \in Campaigns : Measure(c)) \/ (\E file \in InputFiles, c \in Campaigns : Edit(file, c))
  PROVE  RetentionInv'
<1> USE DEF RetentionInv
<1>1. inputs' \in [InputFiles -> Campaigns]
  <2>1. CASE \E c \in Campaigns : Measure(c)
    BY <2>1 DEF Measure
  <2>2. CASE \E file \in InputFiles, c \in Campaigns : Edit(file, c)
    BY <2>2 DEF Edit, Packing
  <2> QED
    BY <2>1, <2>2
<1>2. UNCHANGED <<packVars, restoreVars>>
  BY DEF Measure, Edit
<1>3. Packing' /\ Manifests'
  BY <1>1, <1>2 DEF Packing, Manifests, packVars
<1>4. Restored' /\ Restoring'
  BY <1>2, RestoresStay DEF packVars
<1> QED
  BY <1>3, <1>4

(* A fault damages an archive's manifest or puts a bundle's there.         *)
LEMMA FaultOK ==
  ASSUME RetentionInv, NEW s \in PackStages, NEW t \in PackStages, NEW file \in Holding(packed[s]),
         Fault(s, file, IF s = t THEN Damaged ELSE File(t, file))
  PROVE  RetentionInv'
<1> USE DEF RetentionInv
<1> DEFINE content == IF s = t THEN Damaged ELSE File(t, file)
<1>1. packed' = [packed EXCEPT ![s] = [packed[s] EXCEPT ![file] = content]]
  BY DEF Fault
<1>2. Packing'
  BY <1>1 DEF Packing, Fault
<1>3. Manifests'
  <2>1. SUFFICES ASSUME NEW u \in PackStages, "archive manifest" \in Holding(packed'[u])
                 PROVE  packed'[u]["archive manifest"] \in Bundles \cup {Damaged}
    BY DEF Manifests
  <2>2. CASE u # s
    BY <1>1, <2>1, <2>2 DEF Packing, Manifests
  <2>3. CASE u = s
    <3>1. packed'[u] = [packed[s] EXCEPT ![file] = content]
      BY <1>1, <2>3 DEF Packing
    <3>2. "archive manifest" \in Holding(packed[s])
      BY <3>1, <2>1 DEF Holding
    <3>3. CASE file = "archive manifest"
      <4>1. packed'[u]["archive manifest"] = content
        BY <3>1, <3>2, <3>3 DEF Holding
      <4>2. content \in Bundles \cup {Damaged}
        BY <3>3 DEF File, Manifests
      <4> QED
        BY <4>1, <4>2
    <3>4. CASE file # "archive manifest"
      <4>1. packed'[u]["archive manifest"] = packed[s]["archive manifest"]
        BY <3>1, <3>2, <3>4 DEF Holding
      <4> QED
        BY <4>1, <3>2 DEF Manifests
    <3> QED
      BY <3>3, <3>4
  <2> QED
    BY <2>2, <2>3
<1>4. Restored' /\ Restoring'
  BY RestoresStay DEF Fault
<1> QED
  BY <1>2, <1>3, <1>4

(* A step of restore leaves packs as they are.                             *)
LEMMA PacksStay ==
  ASSUME Packing, Manifests, UNCHANGED <<inputs, packVars>> PROVE Packing' /\ Manifests'
  BY DEF Packing, Manifests, packVars

(* A restore starts with a digest that was announced.                      *)
LEMMA RestoreOK ==
  ASSUME RetentionInv, NEW expected \in announced, NEW a \in PackStages, NEW m \in PackStages,
         NEW d \in RestoreStages, Restore(expected, a, m, d)
  PROVE  RetentionInv'
<1> USE DEF RetentionInv
<1>1. Packing' /\ Manifests'
  BY PacksStay DEF Restore, packVars
<1>2. Restored'
  BY DEF Restore, Restored, packVars, OfItsBundle
<1>3. expected \in Bundles
  BY DEF Packing
<1>4. Accepting(restoring')
  BY <1>3 DEF Restore, Accepting, Restorations
<1>5. Accepting(restoring)'
  BY <1>4 DEF Restore, Accepting, packVars
<1>6. Restoring'
  BY <1>5 DEF Restoring, Restore
<1> QED
  BY <1>1, <1>2, <1>6

(* One and two files read.                                                 *)
LEMMA FilesRead ==
  ASSUME NEW S, NEW a \in S, NEW b \in S
  PROVE  <<a>> \in Seq(S) /\ <<a, b>> \in Seq(S) /\ Append(<<a>>, b) = <<a, b>> /\ Append(<< >>, a) = <<a>>
<1>1. <<a>> \in Seq(S) /\ <<a, b>> \in Seq(S)
  OBVIOUS
<1>2. Append(<<a>>, b) = <<a, b>>
  <2>1. /\ Append(<<a>>, b) \in Seq(S) /\ Len(Append(<<a>>, b)) = 2
        /\ Append(<<a>>, b)[1] = a /\ Append(<<a>>, b)[2] = b
    BY <1>1
  <2>2. Len(<<a, b>>) = 2 /\ \A n \in 1 .. 2 : Append(<<a>>, b)[n] = <<a, b>>[n]
    BY <2>1
  <2> QED
    BY <2>1, <2>2, <1>1, SeqEqual
<1>3. Append(<< >>, a) = <<a>>
  <2>1. << >> \in Seq(S) /\ Len(<< >>) = 0
    OBVIOUS
  <2>2. Append(<< >>, a) \in Seq(S) /\ Len(Append(<< >>, a)) = 1 /\ Append(<< >>, a)[1] = a
    BY <2>1
  <2> QED
    BY <2>2, <1>1
<1> QED
  BY <1>1, <1>2, <1>3

(* What is accepted as the archive's manifest is a bundle, and what is     *)
(* accepted after it is the bundle's.                                      *)
LEMMA ReadOK == ASSUME RetentionInv, Read PROVE RetentionInv'
<1> USE DEF RetentionInv
<1> DEFINE r == restoring
<1>1. Accepting(r) /\ Accepted(r) /\ r.at \in {"manifest", "archive", "record", "original"}
  BY DEF Read, Restoring, After
<1>2. r \in Restorations /\ r.expected \in Bundles
  BY <1>1 DEF Accepting, Restorations
<1>3. restoring' = [r EXCEPT !.at = After[r.at],
        !.bundle = IF r.at = "manifest" THEN Reads(r) ELSE @,
        !.read = IF r.at \in {"record", "original"} THEN Append(@, Reads(r)) ELSE @]
  BY DEF Read
<1>4. Packing' /\ Manifests'
  BY PacksStay DEF Read, packVars
<1>5. Restored'
  BY DEF Read, Restored, packVars, OfItsBundle
<1>6. r.expected.record \in Campaigns /\ r.expected.manifest \in Campaigns
  BY <1>2 DEF Bundles
<1>7. Accepting(restoring')
  <2>1. CASE r.at = "manifest"
    <3>1. Reads(r) = File(r.manifest, "archive manifest") /\ Reads(r) # Damaged
      BY <1>1, <2>1 DEF Reads, Accepted
    <3>2. Reads(r) \in Bundles
      BY <3>1, <1>2 DEF File, Manifests, Restorations
    <3>3. restoring' = [r EXCEPT !.at = "archive", !.bundle = Reads(r), !.read = @]
      BY <1>3, <2>1 DEF After
    <3>4. restoring' \in Restorations
      BY <3>3, <3>2, <1>2 DEF Restorations
    <3>5. /\ restoring'.at = "archive" /\ restoring'.bundle = Reads(r)
          /\ restoring'.read = r.read /\ restoring'.expected = r.expected
      BY <3>3, <1>2 DEF Restorations
    <3> QED
      BY <3>4, <3>5, <3>2, <1>1, <2>1 DEF Accepting
  <2>2. CASE r.at = "archive"
    <3>1. r.bundle = r.expected
      BY <1>1, <2>2 DEF Accepted
    <3>2. restoring' = [r EXCEPT !.at = "record", !.bundle = @, !.read = @]
      BY <1>3, <2>2 DEF After
    <3>3. restoring' \in Restorations
      BY <3>2, <1>2 DEF Restorations
    <3>4. /\ restoring'.at = "record" /\ restoring'.bundle = r.bundle
          /\ restoring'.read = r.read /\ restoring'.expected = r.expected
      BY <3>2, <1>2 DEF Restorations
    <3> QED
      BY <3>1, <3>3, <3>4, <1>1, <1>2, <2>2 DEF Accepting
  <2>3. CASE r.at = "record"
    <3>1. Reads(r) = r.expected.record /\ r.read = << >> /\ r.bundle = r.expected
      BY <1>1, <2>3 DEF Accepted, Accepting
    <3>2. restoring' = [r EXCEPT !.at = "original", !.bundle = @, !.read = <<r.expected.record>>]
      <4>1. Append(r.read, Reads(r)) = <<r.expected.record>>
        BY <3>1, <1>6, FilesRead
      <4> QED
        BY <1>3, <2>3, <4>1 DEF After
    <3>3. restoring' \in Restorations
      <4>1. <<r.expected.record>> \in Seq(Campaigns)
        BY <1>6, FilesRead
      <4> QED
        BY <3>2, <1>2, <4>1 DEF Restorations
    <3>4. /\ restoring'.at = "original" /\ restoring'.bundle = r.bundle
          /\ restoring'.read = <<r.expected.record>> /\ restoring'.expected = r.expected
      BY <3>2, <1>2 DEF Restorations
    <3> QED
      BY <3>1, <3>3, <3>4, <1>1, <1>2, <2>3 DEF Accepting
  <2>4. CASE r.at = "original"
    <3>1. Reads(r) = r.expected.manifest /\ r.read = <<r.expected.record>> /\ r.bundle = r.expected
      BY <1>1, <2>4 DEF Accepted, Accepting
    <3>2. Append(r.read, Reads(r)) = <<r.expected.record, r.expected.manifest>>
      BY <3>1, <1>6, FilesRead
    <3>3. restoring' = [r EXCEPT !.at = "fresh", !.bundle = @,
                                 !.read = <<r.expected.record, r.expected.manifest>>]
      BY <1>3, <2>4, <3>2 DEF After
    <3>4. restoring' \in Restorations
      <4>1. <<r.expected.record, r.expected.manifest>> \in Seq(Campaigns)
        BY <1>6, FilesRead
      <4> QED
        BY <3>3, <1>2, <4>1 DEF Restorations
    <3>5. /\ restoring'.at = "fresh" /\ restoring'.bundle = r.bundle /\ restoring'.expected = r.expected
          /\ restoring'.read = <<r.expected.record, r.expected.manifest>>
      BY <3>3, <1>2 DEF Restorations
    <3> QED
      BY <3>1, <3>4, <3>5, <1>1, <1>2, <2>4 DEF Accepting
  <2> QED
    BY <1>1, <2>1, <2>2, <2>3, <2>4
<1>8. restoring'.at \notin {"verify", "replay"}
  BY <1>1, <1>2, <1>3 DEF After, Restorations
<1>9. Accepting(restoring)'
  BY <1>7, <1>8 DEF Accepting, Read, packVars
<1>10. Restoring'
  BY <1>9 DEF Restoring, Read
<1> QED
  BY <1>4, <1>5, <1>10

(* What is written is what was accepted.                                   *)
LEMMA WriteRestoredOK == ASSUME RetentionInv, WriteRestored PROVE RetentionInv'
<1> USE DEF RetentionInv
<1> DEFINE r == restoring
           dir == [at |-> "written", expected |-> r.expected, record |-> r.read[1],
                   manifest |-> r.read[2], sources |-> r.bundle.sources, helper |-> r.bundle.helper,
                   documents |-> r.bundle.documents, validated |-> r.bundle.validated]
<1>1. Accepting(r) /\ r.at = "fresh"
  BY DEF WriteRestored, Restoring
<1>2. /\ r \in Restorations /\ r.expected \in Bundles /\ r.expected \in announced
      /\ r.bundle = r.expected /\ r.stage \in RestoreStages
      /\ r.read = <<r.expected.record, r.expected.manifest>>
  BY <1>1 DEF Accepting, Restorations
<1>3. restored' = [restored EXCEPT ![r.stage] = dir] /\ restoring' = [r EXCEPT !.at = "verify"]
  BY DEF WriteRestored
<1>4. r.read[1] = r.expected.record /\ r.read[2] = r.expected.manifest
  BY <1>2
<1>5. dir \in Directories
  BY <1>2, <1>4 DEF Directories, Bundles
<1>6. OfItsBundle(dir)
  BY <1>2, <1>4, <1>5 DEF OfItsBundle
<1>7. announced' = announced
  BY DEF WriteRestored, packVars
<1>9. Packing' /\ Manifests'
  BY PacksStay DEF WriteRestored
<1>10. restored'[r.stage] = dir /\ \A d \in RestoreStages : d # r.stage => restored'[d] = restored[d]
  BY <1>2, <1>3 DEF Restoring
<1>11. \A d \in RestoreStages : restored'[d] # Nothing => OfItsBundle(restored'[d])
  BY <1>6, <1>10 DEF Restored
<1>12. Restored'
  BY <1>7, <1>11 DEF Restored, OfItsBundle
<1>13. /\ restoring' \in Restorations /\ restoring'.at = "verify" /\ restoring'.stage = r.stage
       /\ restoring'.bundle = r.bundle /\ restoring'.expected = r.expected /\ restoring'.read = r.read
  BY <1>2, <1>3 DEF Restorations
<1>14. restored'[restoring'.stage] = dir /\ dir.expected = r.expected
  BY <1>10, <1>13
<1>15. Accepting(restoring)'
  BY <1>2, <1>6, <1>7, <1>13, <1>14 DEF Accepting, OfItsBundle
<1>16. Restoring'
  BY <1>3, <1>15 DEF Restoring
<1> QED
  BY <1>9, <1>12, <1>16

(* Verifying changes nothing that was written.                             *)
LEMMA VerifyOK == ASSUME RetentionInv, Verify PROVE RetentionInv'
<1> USE DEF RetentionInv
<1>1. Packing' /\ Manifests'
  BY PacksStay DEF Verify
<1>2. Restored'
  BY DEF Verify, Restored, packVars, OfItsBundle
<1>3. Accepting(restoring) /\ restoring.at = "verify" /\ restoring \in Restorations
  BY DEF Verify, Restoring, Accepting
<1>4. restoring' = [restoring EXCEPT !.at = "replay"]
  BY DEF Verify
<1>5. /\ restoring' \in Restorations /\ restoring'.at = "replay" /\ restoring'.stage = restoring.stage
      /\ restoring'.bundle = restoring.bundle /\ restoring'.expected = restoring.expected
      /\ restoring'.read = restoring.read
  BY <1>3, <1>4 DEF Restorations
<1>6. Accepting(restoring)'
  BY <1>3, <1>5 DEF Verify, packVars, Accepting, OfItsBundle
<1>7. Restoring'
  BY <1>6 DEF Restoring, Verify
<1> QED
  BY <1>1, <1>2, <1>7

(* A restore that stops leaves what it wrote.                              *)
LEMMA RestoreStopsOK == ASSUME RetentionInv, RestoreStops PROVE RetentionInv'
<1> USE DEF RetentionInv
<1>1. Packing' /\ Manifests'
  BY PacksStay DEF RestoreStops
<1>2. Restored'
  BY DEF RestoreStops, Restored, packVars, OfItsBundle
<1>3. Restoring'
  BY DEF RestoreStops, Restoring
<1> QED
  BY <1>1, <1>2, <1>3

(* The replay's outcome is all that is recorded of it.                     *)
LEMMA ReplayOK == ASSUME RetentionInv, NEW passes \in BOOLEAN, Replay(passes) PROVE RetentionInv'
<1> USE DEF RetentionInv
<1> DEFINE s == restoring.stage
           at == IF passes THEN "replayed" ELSE "failed"
<1>1. Packing' /\ Manifests'
  BY PacksStay DEF Replay
<1>2. Accepting(restoring) /\ restoring.at = "replay"
  BY DEF Replay, Restoring
<1>3. OfItsBundle(restored[s]) /\ s \in RestoreStages
  BY <1>2 DEF Accepting, Restorations
<1>4. restored' = [restored EXCEPT ![s] = [restored[s] EXCEPT !.at = at]]
  BY DEF Replay
<1>5. restored'[s] = [restored[s] EXCEPT !.at = at]
  BY <1>3, <1>4 DEF Restoring
<1>6. OfItsBundle(restored'[s])
  BY <1>3, <1>5 DEF OfItsBundle, Directories
<1>7. announced' = announced
  BY DEF Replay, packVars
<1>8. \A d \in RestoreStages : restored'[d] # Nothing => OfItsBundle(restored'[d])
  BY <1>3, <1>4, <1>6 DEF Restored, Restoring
<1>9. Restored'
  BY <1>7, <1>8 DEF Restored, OfItsBundle
<1>10. Restoring'
  BY <1>4 DEF Replay, Restoring
<1> QED
  BY <1>1, <1>9, <1>10

(* Every step of packs, restores and their surroundings keeps it.          *)
LEMMA RetentionKept == ASSUME RetentionInv, [RetentionNext]_retentionVars PROVE RetentionInv'
<1>1. CASE \E c \in Campaigns, s \in PackStages : Pack(CommitOf[c], s)
  BY <1>1, PackOK
<1>2. CASE WritePacked
  BY <1>2, WritePackedOK
<1>3. CASE Announce
  BY <1>3, AnnounceOK
<1>4. CASE PackDies
  BY <1>4, PackDiesOK
<1>5. CASE \E expected \in announced, a \in PackStages, m \in PackStages, d \in RestoreStages :
             Restore(expected, a, m, d)
  BY <1>5, RestoreOK
<1>6. CASE Read
  BY <1>6, ReadOK
<1>7. CASE WriteRestored
  BY <1>7, WriteRestoredOK
<1>8. CASE Verify
  BY <1>8, VerifyOK
<1>9. CASE RestoreStops
  BY <1>9, RestoreStopsOK
<1>10. CASE \E passes \in BOOLEAN : Replay(passes)
  BY <1>10, ReplayOK
<1>11. CASE \E c \in Campaigns : Measure(c) \/ \E file \in InputFiles : Edit(file, c)
  BY <1>11, EditsOK
<1>12. CASE \E s \in PackStages, t \in PackStages : \E file \in Holding(packed[s]) :
              Fault(s, file, IF s = t THEN Damaged ELSE File(t, file))
  BY <1>12, FaultOK
<1>13. CASE UNCHANGED retentionVars
  <2>1. UNCHANGED <<inputs, packVars, restoreVars>>
    BY <1>13 DEF retentionVars, packVars, restoreVars
  <2>2. Packing' /\ Manifests'
    BY <2>1, PacksStay DEF RetentionInv
  <2>3. Restored' /\ Restoring'
    BY <2>1, RestoresStay DEF RetentionInv, packVars
  <2> QED
    BY <2>2, <2>3 DEF RetentionInv
<1> QED
  BY <1>1, <1>2, <1>3, <1>4, <1>5, <1>6, <1>7, <1>8, <1>9, <1>10, <1>11, <1>12, <1>13 DEF RetentionNext

(* What the invariant says of a restoration that was replayed, and of one  *)
(* whose files nobody touched.                                             *)
LEMMA RetentionMeans == ASSUME RetentionInv PROVE RestoresWhatIsPacked
<1> USE DEF RetentionInv
<1>1. RestoredIsMeasured
  <2>1. SUFFICES ASSUME NEW d \in RestoreStages, restored[d].at = "replayed"
                 PROVE  LET r == restored[d] IN
                        /\ r.record \in Complete /\ r.record = r.manifest
                        /\ r.expected \in announced /\ r.record = r.expected.record
                        /\ r.sources = CommitOf[r.record] /\ r.documents = DocumentsOf[r.record]
                        /\ r.helper = r.sources /\ r.validated = r.sources
    BY DEF RestoredIsMeasured
  <2>2. restored[d] # Nothing
    BY <2>1, Markers
  <2>3. OfItsBundle(restored[d])
    BY <2>2 DEF Restored
  <2>4. Coherent(restored[d].expected)
    BY <2>3 DEF OfItsBundle, Directories, Bundles
  <2> QED
    BY <2>3, <2>4 DEF OfItsBundle, Coherent
<1>2. PackRestores
  <2> DEFINE r == restoring
  <2>1. SUFFICES ASSUME restoring # Nothing, Untouched(restoring)
                 PROVE  /\ r.at \in DOMAIN After => Accepted(r)
                        /\ r.at = "verify" => Verified(restored[r.stage], r.bundle)
                        /\ r.at = "replay" => CpuCheckPasses(restored[r.stage])
    BY DEF PackRestores
  <2>2. Accepting(r)
    BY <2>1 DEF Restoring
  <2>3. r \in Restorations /\ r.expected \in Bundles /\ Coherent(r.expected)
    BY <2>2 DEF Accepting, Restorations, Bundles
  <2>4. /\ r.archive = r.manifest /\ packed[r.archive] = AsPacked(r.expected)
        /\ r.bundle \in {Nothing, r.expected}
    BY <2>1 DEF Untouched
  <2>5. \A file \in FileNames : File(r.archive, file) = FileOf(r.expected, file)
    <3>1. {PackFiles[n] : n \in 1 .. 4} = FileNames
      <4>1. /\ PackFiles[1] = "record" /\ PackFiles[2] = "manifest"
            /\ PackFiles[3] = "archive" /\ PackFiles[4] = "archive manifest"
        BY DEF PackFiles
      <4>2. 1 .. 4 = {1, 2, 3, 4}
        OBVIOUS
      <4> QED
        BY <4>1, <4>2 DEF FileNames
    <3>2. DOMAIN AsPacked(r.expected) = FileNames
      BY <3>1 DEF AsPacked
    <3>3. "at" \notin FileNames
      BY DEF FileNames
    <3>4. \A file \in FileNames : AsPacked(r.expected)[file] = FileOf(r.expected, file)
      BY <3>1 DEF AsPacked
    <3> QED
      BY <2>4, <3>2, <3>3, <3>4 DEF File, Holding
  <2>6. r.at # "manifest" => r.bundle = r.expected
    BY <2>2, <2>4, Markers DEF Accepting
  <2>7. ASSUME r.at \in DOMAIN After PROVE Accepted(r)
    <3>1. r.at \in {"manifest", "archive", "record", "original"}
      BY <2>7 DEF After
    <3>2. CASE r.at = "manifest"
      <4>1. Reads(r) = r.expected
        BY <3>2, <2>4, <2>5 DEF Reads, FileNames, FileOf
      <4> QED
        BY <3>2, <4>1, <2>3, Markers DEF Accepted
    <3>3. CASE r.at = "archive"
      <4>1. Reads(r) = r.expected
        BY <3>3, <2>5 DEF Reads, FileNames, FileOf
      <4> QED
        BY <3>3, <4>1, <2>6 DEF Accepted
    <3>4. CASE r.at = "record"
      <4>1. Reads(r) = r.expected.record
        BY <3>4, <2>5 DEF Reads, FileNames, FileOf
      <4> QED
        BY <3>4, <4>1, <2>6 DEF Accepted
    <3>5. CASE r.at = "original"
      <4>1. Reads(r) = r.expected.manifest
        BY <3>5, <2>5 DEF Reads, FileNames, FileOf
      <4> QED
        BY <3>5, <4>1, <2>6 DEF Accepted
    <3> QED
      BY <3>1, <3>2, <3>3, <3>4, <3>5
  <2>8. ASSUME r.at \in {"verify", "replay"}
        PROVE  Verified(restored[r.stage], r.bundle) /\ CpuCheckPasses(restored[r.stage])
    <3>1. OfItsBundle(restored[r.stage]) /\ restored[r.stage].expected = r.expected /\ r.bundle = r.expected
      BY <2>8, <2>2, <2>6 DEF Accepting
    <3> QED
      BY <3>1, <2>3 DEF OfItsBundle, Coherent, Verified, CpuCheckPasses, Measurement
  <2> QED
    BY <2>7, <2>8
<1> QED
  BY <1>1, <1>2 DEF RestoresWhatIsPacked

(* A restoration that reports success holds the measurement that was       *)
(* packed under the digest it was given, whatever was edited, damaged,     *)
(* exchanged or cut short; and what pack printed restores, from a          *)
(* directory nothing touched (pack and restore in prefix_retention.py).    *)
THEOREM RestorationsAreMeasured ==
  RetentionInit /\ [][RetentionNext]_retentionVars => []RestoresWhatIsPacked
<1>1. RetentionInit => RetentionInv
  BY RetentionStarts
<1>2. RetentionInv /\ [RetentionNext]_retentionVars => RetentionInv'
  BY RetentionKept
<1>3. RetentionInv => RestoresWhatIsPacked
  BY RetentionMeans
<1> QED
  BY <1>1, <1>2, <1>3, PTL
=============================================================================
