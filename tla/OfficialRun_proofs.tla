------------------------ MODULE OfficialRun_proofs ------------------------
(***************************************************************************)
(* Theorems about OfficialRun, for every value of its constants.           *)
(***************************************************************************)
EXTENDS OfficialRun, Evaluation_proofs

----------------------------------------------------------------------------
(* The run around the evaluation is an evaluation                          *)

\* Every step of the official run is a step of the evaluation or leaves its
\* variables alone, so what Evaluation guarantees holds in the official run.
THEOREM OfficialRunIsAnEvaluation == OfficialSpec => EvalSpec
<1>1. OfficialInit => EvalInit
  BY DEF OfficialInit
<1>2. [OfficialNext]_officialVars => [EvalNext]_allVars
  <2> SUFFICES ASSUME [OfficialNext]_officialVars
               PROVE  [EvalNext]_allVars
    OBVIOUS
  <2>1. CASE Staging
    BY <2>1 DEF Staging, QuestionsArrive, RequestFails, NothingDeclared,
       AttachmentArrives, AttachmentIsAbsent, StagingEnds
  <2>2. CASE EvaluatorAsks \/ AgentWorks \/ LimitExpires
    BY <2>2 DEF EvaluatorAsks, AgentWorks, LimitExpires, EvalNext
  <2>3. CASE WriteResults \/ Submit
    BY <2>3 DEF WriteResults, Submit
  <2>4. CASE UNCHANGED officialVars
    BY <2>4 DEF officialVars
  <2>5. QED
    BY <2>1, <2>2, <2>3, <2>4 DEF OfficialNext
<1>3. QED
  BY <1>1, <1>2, PTL DEF OfficialSpec, EvalSpec

\* A recorded answer was proposed for its own question, in the official run too.
COROLLARY OfficialRecordsBelongToQuestions == OfficialSpec => []RecordsAreOwn
BY OfficialRunIsAnEvaluation, RecordsBelongToQuestions, PTL

----------------------------------------------------------------------------
(* The inductive invariant: what the staging leaves behind, and what the   *)
(* end of the evaluation leaves on disk.                                   *)

Phases == {"fetching", "staging", "asking", "written", "submitted", "refused", "failed"}

Path ==
  {NoPath} \cup {Staged(ServerName[q]) : q \in Declared}
           \cup {Packaged(q) : q \in Declared}

StagingTypes ==
  /\ phase \in Phases
  /\ turn \in 1..(Fetched + 1)
  /\ filePath \in [1..Fetched -> Path]
  /\ phase \in {"asking", "written"} => turn = Fetched + 1

\* What the path of a question whose turn has passed is.
PathsAreRight ==
  \A q \in Declared : q < turn =>
    filePath[q] = IF q \in absent THEN LocalCopy(q) ELSE Staged(ServerName[q])

\* The bytes under a name are those of the last question they were staged for.
LastComerWins ==
  \A q \in Declared \ absent : q < turn =>
    /\ ServerName[q] \in DOMAIN directory
    /\ directory[ServerName[q]] \in (Declared \ absent) \cap (q..(turn - 1))
    /\ ServerName[directory[ServerName[q]]] = ServerName[q]

AbsentIsPast == absent \subseteq 1..(turn - 1)

FinishedIsComplete ==
  stage = "finished" => asked = NumQuestions /\ submission = CourseRows(results)

WrittenIsComplete ==
  phase \in {"written", "submitted", "refused"} =>
    stage = "finished" /\ written = results

OfficialInv ==
  /\ StagingTypes
  /\ PathsAreRight
  /\ LastComerWins
  /\ AbsentIsPast
  /\ FinishedIsComplete
  /\ WrittenIsComplete

LEMMA OfficialStart == OfficialInit => OfficialInv
<1> SUFFICES ASSUME OfficialInit PROVE OfficialInv
  OBVIOUS
<1>1. StagingTypes
  BY StagingAssumption DEF OfficialInit, StagingTypes, Phases, Path
<1>2. PathsAreRight /\ LastComerWins /\ AbsentIsPast
  BY StagingAssumption DEF OfficialInit, PathsAreRight, LastComerWins, AbsentIsPast
<1>3. FinishedIsComplete /\ WrittenIsComplete
  BY DEF OfficialInit, EvalInit, FinishedIsComplete, WrittenIsComplete
<1>4. QED
  BY <1>1, <1>2, <1>3 DEF OfficialInv

\* Staging is over when the evaluation runs: its part of the invariant stays.
LEMMA StagingKept ==
  ASSUME OfficialInv, UNCHANGED stagingVars, phase' \in Phases,
         phase' \in {"asking", "written"} => phase \in {"asking", "written"}
  PROVE  StagingTypes' /\ PathsAreRight' /\ LastComerWins' /\ AbsentIsPast'
BY DEF OfficialInv, StagingTypes, PathsAreRight, LastComerWins, AbsentIsPast, stagingVars

LEMMA FinishedKept ==
  ASSUME FinishedIsComplete, [EvalNext]_allVars
  PROVE  FinishedIsComplete'
<1>1. CASE Ask \/ Start \/ Refused \/ Record
  BY <1>1 DEF Ask, Start, Refused, Record, FinishedIsComplete
<1>2. CASE Works \/ Timeout
  <2>1. stage' # "finished"
    BY <1>2 DEF Works, Timeout
  <2>2. QED
    BY <2>1 DEF FinishedIsComplete
<1>3. CASE Finish
  BY <1>3 DEF Finish, FinishedIsComplete, CourseRows
<1>4. CASE UNCHANGED allVars
  BY <1>4 DEF allVars, evalVars, FinishedIsComplete, CourseRows
<1>5. QED
  BY <1>1, <1>2, <1>3, <1>4 DEF EvalNext, EvaluatorStep

LEMMA OfficialStep ==
  ASSUME OfficialInv, [OfficialNext]_officialVars
  PROVE  OfficialInv'
<1> USE DEF OfficialInv
<1>1. FinishedIsComplete'
  <2>1. [EvalNext]_allVars
    BY DEF OfficialNext, officialVars, Staging, QuestionsArrive, RequestFails,
       NothingDeclared, AttachmentArrives, AttachmentIsAbsent, StagingEnds,
       EvaluatorAsks, AgentWorks, LimitExpires, WriteResults, Submit, EvalNext
  <2>2. QED
    BY <2>1, FinishedKept
<1>2. CASE QuestionsArrive \/ RequestFails
  <2>1. UNCHANGED stagingVars /\ phase' \in {"staging", "failed"}
    BY <1>2 DEF QuestionsArrive, RequestFails
  <2>2. QED
    BY <1>1, <2>1, StagingKept DEF WrittenIsComplete, Phases
<1>3. CASE NothingDeclared
  <2>1. /\ phase = "staging" /\ phase' = "staging"
        /\ turn \in (1..Fetched) \ Declared /\ turn' = turn + 1
        /\ UNCHANGED <<directory, filePath, absent>>
    BY <1>3 DEF NothingDeclared
  <2>2. StagingTypes'
    BY <2>1, StagingAssumption DEF StagingTypes, Phases
  <2>3. PathsAreRight' /\ LastComerWins' /\ AbsentIsPast'
    <3>1. \A q \in Declared : q < turn' <=> q < turn
      BY <2>1, StagingAssumption DEF StagingTypes
    <3>2. PathsAreRight'
      BY <2>1, <3>1 DEF PathsAreRight
    <3>3. turn \in Nat /\ absent \subseteq 1..(turn - 1)
      BY <2>1, StagingAssumption DEF AbsentIsPast
    <3>4. LastComerWins'
      <4>1. \A q : q..(turn - 1) \subseteq q..(turn' - 1)
        BY <2>1, <3>3
      <4>2. QED
        BY <2>1, <3>1, <4>1 DEF LastComerWins
    <3>5. AbsentIsPast'
      BY <2>1, <3>3 DEF AbsentIsPast
    <3>6. QED
      BY <3>2, <3>4, <3>5
  <2>4. QED
    BY <1>1, <2>1, <2>2, <2>3 DEF WrittenIsComplete
<1>4. CASE AttachmentArrives
  <2> DEFINE name == ServerName[turn]
  <2>1. /\ phase = "staging" /\ phase' = "staging"
        /\ turn \in Declared /\ turn' = turn + 1
        /\ directory' = [n \in DOMAIN directory \cup {name} |->
                           IF n = name THEN turn ELSE directory[n]]
        /\ filePath' = [filePath EXCEPT ![turn] = Staged(name)]
        /\ absent' = absent
    BY <1>4 DEF AttachmentArrives
  <2>2. /\ turn \in 1..Fetched /\ Fetched \in Nat /\ turn \notin absent
        /\ Declared \subseteq 1..Fetched
    BY <2>1, StagingAssumption DEF AbsentIsPast
  <2>3. StagingTypes'
    <3>1. Staged(name) \in Path
      BY <2>1 DEF Path
    <3>2. QED
      BY <2>1, <2>2, <3>1 DEF StagingTypes, Phases
  <2>4. PathsAreRight'
    <3> SUFFICES ASSUME NEW q \in Declared, q < turn'
                 PROVE  filePath'[q] = IF q \in absent THEN LocalCopy(q)
                                       ELSE Staged(ServerName[q])
      BY <2>1 DEF PathsAreRight
    <3>1. CASE q = turn
      BY <2>1, <2>2, <3>1 DEF StagingTypes
    <3>2. CASE q # turn
      <4>1. q < turn
        BY <2>1, <2>2, <3>2
      <4>2. QED
        BY <2>1, <2>2, <3>2, <4>1 DEF StagingTypes, PathsAreRight
    <3>3. QED
      BY <3>1, <3>2
  <2>5. LastComerWins'
    <3> SUFFICES ASSUME NEW q \in Declared \ absent, q < turn'
                 PROVE  /\ ServerName[q] \in DOMAIN directory'
                        /\ directory'[ServerName[q]]
                             \in (Declared \ absent) \cap (q..(turn' - 1))
                        /\ ServerName[directory'[ServerName[q]]] = ServerName[q]
      BY <2>1 DEF LastComerWins
    <3>1. CASE ServerName[q] = name
      <4>1. directory'[name] = turn /\ name \in DOMAIN directory'
        BY <2>1
      <4>2. turn \in q..(turn' - 1)
        BY <2>1, <2>2
      <4>3. QED
        BY <2>1, <2>2, <3>1, <4>1, <4>2
    <3>2. CASE ServerName[q] # name
      <4>1. q < turn
        <5>1. q # turn
          BY <3>2
        <5>2. q \in 1..Fetched
          BY <2>2
        <5>3. turn' = turn + 1
          BY <2>1
        <5>4. turn \in 1..Fetched /\ Fetched \in Nat
          BY <2>2
        <5>5. QED
          BY <5>1, <5>2, <5>3, <5>4
      <4>2. /\ ServerName[q] \in DOMAIN directory
            /\ directory[ServerName[q]] \in (Declared \ absent) \cap (q..(turn - 1))
            /\ ServerName[directory[ServerName[q]]] = ServerName[q]
        BY <4>1 DEF LastComerWins
      <4>3. /\ ServerName[q] \in DOMAIN directory'
            /\ directory'[ServerName[q]] = directory[ServerName[q]]
        BY <2>1, <3>2, <4>2
      <4>4. q..(turn - 1) \subseteq q..(turn' - 1)
        BY <2>1, <2>2
      <4>5. QED
        BY <4>2, <4>3, <4>4
    <3>3. QED
      BY <3>1, <3>2
  <2>6. AbsentIsPast'
    BY <2>1, <2>2 DEF AbsentIsPast
  <2>7. QED
    BY <1>1, <2>1, <2>3, <2>4, <2>5, <2>6 DEF WrittenIsComplete
<1>5. CASE AttachmentIsAbsent
  <2>1. /\ phase = "staging" /\ phase' = "staging"
        /\ turn \in Declared /\ turn' = turn + 1
        /\ absent' = absent \cup {turn}
        /\ filePath' = [filePath EXCEPT ![turn] = LocalCopy(turn)]
        /\ directory' = directory
    BY <1>5 DEF AttachmentIsAbsent
  <2>2. /\ turn \in 1..Fetched /\ Fetched \in Nat
        /\ Declared \subseteq 1..Fetched
    BY <2>1, StagingAssumption
  <2>3. StagingTypes'
    <3>1. LocalCopy(turn) \in Path
      BY <2>1 DEF Path, LocalCopy
    <3>2. QED
      BY <2>1, <2>2, <3>1 DEF StagingTypes, Phases
  <2>4. PathsAreRight'
    <3> SUFFICES ASSUME NEW q \in Declared, q < turn'
                 PROVE  filePath'[q] = IF q \in absent' THEN LocalCopy(q)
                                       ELSE Staged(ServerName[q])
      BY DEF PathsAreRight, LocalCopy
    <3>1. CASE q = turn
      BY <2>1, <2>2, <3>1 DEF StagingTypes
    <3>2. CASE q # turn
      <4>1. q < turn /\ (q \in absent' <=> q \in absent)
        BY <2>1, <2>2, <3>2
      <4>2. QED
        BY <2>1, <2>2, <3>2, <4>1 DEF StagingTypes, PathsAreRight
    <3>3. QED
      BY <3>1, <3>2
  <2>5. LastComerWins'
    <3> SUFFICES ASSUME NEW q \in Declared \ absent', q < turn'
                 PROVE  /\ ServerName[q] \in DOMAIN directory
                        /\ directory[ServerName[q]]
                             \in (Declared \ absent') \cap (q..(turn' - 1))
                        /\ ServerName[directory[ServerName[q]]] = ServerName[q]
      BY <2>1 DEF LastComerWins
    <3>1. q \in Declared \ absent /\ q < turn
      BY <2>1, <2>2
    <3>2. /\ ServerName[q] \in DOMAIN directory
          /\ directory[ServerName[q]] \in (Declared \ absent) \cap (q..(turn - 1))
          /\ ServerName[directory[ServerName[q]]] = ServerName[q]
      BY <3>1 DEF LastComerWins
    <3>3. (Declared \ absent) \cap (q..(turn - 1))
            \subseteq (Declared \ absent') \cap (q..(turn' - 1))
      BY <2>1, <2>2
    <3>4. QED
      BY <3>2, <3>3
  <2>6. AbsentIsPast'
    BY <2>1, <2>2 DEF AbsentIsPast
  <2>7. QED
    BY <1>1, <2>1, <2>3, <2>4, <2>5, <2>6 DEF WrittenIsComplete
<1>6. CASE StagingEnds
  <2>1. phase' = "asking" /\ turn > Fetched /\ UNCHANGED stagingVars
    BY <1>6 DEF StagingEnds
  <2>2. StagingTypes'
    BY <2>1, StagingAssumption DEF StagingTypes, stagingVars, Phases
  <2>3. PathsAreRight' /\ LastComerWins' /\ AbsentIsPast'
    BY <2>1 DEF PathsAreRight, LastComerWins, AbsentIsPast, stagingVars
  <2>4. QED
    BY <1>1, <2>1, <2>2, <2>3 DEF WrittenIsComplete
<1>7. CASE EvaluatorAsks \/ AgentWorks \/ LimitExpires
  <2>1. UNCHANGED stagingVars /\ phase = "asking" /\ phase' = "asking"
    BY <1>7 DEF EvaluatorAsks, AgentWorks, LimitExpires
  <2>2. QED
    BY <1>1, <2>1, StagingKept DEF WrittenIsComplete, Phases
<1>8. CASE WriteResults
  <2>1. /\ UNCHANGED <<stagingVars, allVars>> /\ phase = "asking" /\ phase' = "written"
        /\ stage = "finished" /\ written' = results
    BY <1>8 DEF WriteResults
  <2>2. WrittenIsComplete'
    BY <2>1 DEF WrittenIsComplete, allVars, evalVars
  <2>3. QED
    BY <1>1, <2>1, <2>2, StagingKept DEF Phases
<1>9. CASE Submit
  <2>1. /\ UNCHANGED <<stagingVars, allVars, written>> /\ phase = "written"
        /\ phase' \in {"submitted", "refused"}
    BY <1>9 DEF Submit, Ready
  <2>2. WrittenIsComplete'
    BY <2>1 DEF WrittenIsComplete, allVars, evalVars
  <2>3. QED
    BY <1>1, <2>1, <2>2, StagingKept DEF Phases
<1>10. CASE UNCHANGED officialVars
  <2>1. UNCHANGED <<stagingVars, allVars, phase, written>>
    BY <1>10 DEF officialVars
  <2>2. WrittenIsComplete'
    BY <2>1 DEF WrittenIsComplete, allVars, evalVars
  <2>3. QED
    BY <1>1, <2>1, <2>2, StagingKept DEF StagingTypes
<1>11. QED
  BY <1>2, <1>3, <1>4, <1>5, <1>6, <1>7, <1>8, <1>9, <1>10 DEF OfficialNext, Staging

LEMMA OfficialInvariant == OfficialSpec => []OfficialInv
BY OfficialStart, OfficialStep, PTL DEF OfficialSpec

----------------------------------------------------------------------------
\* A question is asked without the attachment it declares only if nobody has it,
\* and with another one's only if the server gave both the same name.
THEOREM QuestionsGetAttachments == OfficialSpec => []AskedWithAttachment
<1>1. OfficialInv /\ EvalInv => AskedWithAttachment
  <2> SUFFICES ASSUME OfficialInv, EvalInv, phase = "asking", asked \in Declared
               PROVE  IF filePath[asked] = NoPath
                      THEN asked \in absent \ LocalCopies
                      ELSE \/ BytesAt(filePath[asked]) = asked
                           \/ \E later \in (asked + 1)..Fetched :
                                /\ later \in Declared \ absent
                                /\ ServerName[later] = ServerName[asked]
    BY DEF AskedWithAttachment
  <2>1. asked < turn /\ asked \in 1..Fetched /\ Fetched \in Nat
    BY StagingAssumption DEF OfficialInv, StagingTypes
  <2>2. CASE asked \in absent
    <3>1. filePath[asked] = LocalCopy(asked)
      BY <2>1, <2>2 DEF OfficialInv, PathsAreRight
    <3>2. QED
      BY <2>2, <3>1 DEF LocalCopy, Packaged, NoPath, BytesAt
  <2>3. CASE asked \notin absent
    <3> DEFINE last == directory[ServerName[asked]]
    <3>1. filePath[asked] = Staged(ServerName[asked])
      BY <2>1, <2>3 DEF OfficialInv, PathsAreRight
    <3>2. filePath[asked] # NoPath /\ BytesAt(filePath[asked]) = last
      BY <3>1 DEF Staged, NoPath, BytesAt
    <3>3. /\ last \in (Declared \ absent) \cap (asked..(turn - 1))
          /\ ServerName[last] = ServerName[asked]
      BY <2>1, <2>3 DEF OfficialInv, LastComerWins
    <3>4. last = asked \/ last \in (asked + 1)..Fetched
      BY <2>1, <3>3, StagingAssumption
    <3>5. QED
      BY <3>2, <3>3, <3>4
  <2>4. QED
    BY <2>2, <2>3
<1>2. QED
  BY <1>1, OfficialInvariant, OfficialRunIsAnEvaluation, EvalInvariant, PTL

\* Whatever becomes of the submission, the records of all questions are on disk.
THEOREM SubmissionsAreWritten == OfficialSpec => []SubmittedIsWritten
<1>1. OfficialInv /\ EvalInv => SubmittedIsWritten
  <2> SUFFICES ASSUME OfficialInv, EvalInv, phase \in {"submitted", "refused"}
               PROVE  /\ Len(written) = NumQuestions
                      /\ submission = CourseRows(written)
    BY DEF SubmittedIsWritten
  <2>1. stage = "finished" /\ written = results
    BY DEF OfficialInv, WrittenIsComplete
  <2>2. asked = NumQuestions /\ submission = CourseRows(results)
    BY <2>1 DEF OfficialInv, FinishedIsComplete
  <2>3. Len(results) = asked
    BY <2>1 DEF EvalInv, Bookkeeping, OpenStages
  <2>4. QED
    BY <2>1, <2>2, <2>3
<1>2. QED
  BY <1>1, OfficialInvariant, OfficialRunIsAnEvaluation, EvalInvariant, PTL

----------------------------------------------------------------------------
(* What holds of each question's run, and why an official run ends.        *)

\* Each question of an official run is worked on in plan order and within its
\* budgets, and the loop detector judges it by its own steps.
COROLLARY OfficialQuestionsAreBounded ==
  OfficialSpec =>
    [](PlanProgress /\ BudgetsHold /\ WithinConfiguration /\ DetectorRemembersThisRun)
BY OfficialRunIsAnEvaluation, EveryQuestionIsBounded, DetectorIsOfThisRun, PTL

PhaseSteps ==
  CASE phase = "fetching" -> 4
    [] phase = "staging"  -> 3
    [] phase = "asking"   -> 2
    [] phase = "written"  -> 1
    [] phase \in {"submitted", "refused", "failed"} -> 0

\* The attachments to stage, what is left of the evaluation, and the phases.
OfficialStepsLeft == PhaseSteps + (Fetched + 1 - turn) + EvaluationStepsLeft

LEMMA SumFalls ==
  \A a, b, c, d, m, n \in Int :
    /\ a <= b /\ c <= d /\ m <= n
    /\ a < b \/ c < d \/ m < n
    => a + c + m < b + d + n
OBVIOUS

LEMMA OfficialStepsFall ==
  ASSUME StagingTypes, StagingTypes', EvaluationFacts, EvaluationFacts', OfficialNext,
         EvaluationStepsLeft \in Int, EvaluationStepsLeft' \in Int
  PROVE  OfficialStepsLeft' < OfficialStepsLeft
<1>1. /\ PhaseSteps \in Int /\ PhaseSteps' \in Int
      /\ Fetched + 1 - turn \in Int /\ Fetched + 1 - turn' \in Int
      /\ turn \in Int /\ turn' \in Int /\ Fetched \in Int
  BY StagingAssumption DEF PhaseSteps, StagingTypes, Phases
<1>2. ASSUME UNCHANGED allVars
      PROVE  EvaluationStepsLeft' = EvaluationStepsLeft
  BY <1>2 DEF allVars, evalVars, vars, EvaluationStepsLeft, QuestionSteps, StageSteps, StepsLeft
<1>3. ASSUME EvaluationStepsLeft' <= EvaluationStepsLeft,
             PhaseSteps' <= PhaseSteps,
             Fetched + 1 - turn' <= Fetched + 1 - turn,
             \/ PhaseSteps' < PhaseSteps
             \/ Fetched + 1 - turn' < Fetched + 1 - turn
             \/ EvaluationStepsLeft' < EvaluationStepsLeft
      PROVE  OfficialStepsLeft' < OfficialStepsLeft
  BY <1>1, <1>3, SumFalls DEF OfficialStepsLeft
<1>4. ASSUME UNCHANGED allVars,
             PhaseSteps' <= PhaseSteps,
             Fetched + 1 - turn' <= Fetched + 1 - turn,
             PhaseSteps' < PhaseSteps \/ Fetched + 1 - turn' < Fetched + 1 - turn
      PROVE  OfficialStepsLeft' < OfficialStepsLeft
  <2>1. EvaluationStepsLeft' <= EvaluationStepsLeft
    BY <1>2, <1>4
  <2>2. QED
    BY <1>3, <1>4, <2>1
<1>5. CASE QuestionsArrive \/ RequestFails \/ StagingEnds \/ WriteResults \/ Submit
  <2>1. UNCHANGED allVars /\ turn' = turn /\ PhaseSteps' < PhaseSteps
    BY <1>5 DEF QuestionsArrive, RequestFails, StagingEnds, WriteResults, Submit, Ready,
       stagingVars, PhaseSteps
  <2>2. QED
    BY <1>1, <1>4, <2>1
<1>6. CASE NothingDeclared \/ AttachmentArrives \/ AttachmentIsAbsent
  <2>1. UNCHANGED allVars /\ turn' = turn + 1 /\ phase' = phase
    BY <1>6 DEF NothingDeclared, AttachmentArrives, AttachmentIsAbsent
  <2>2. PhaseSteps' = PhaseSteps
    BY <2>1 DEF PhaseSteps
  <2>3. QED
    BY <1>1, <1>4, <2>1, <2>2
<1>7. CASE EvaluatorAsks \/ AgentWorks \/ LimitExpires
  <2>1. EvalNext /\ UNCHANGED <<phase, turn>>
    BY <1>7 DEF EvaluatorAsks, AgentWorks, LimitExpires, EvalNext, stagingVars
  <2>2. EvaluationStepsLeft' < EvaluationStepsLeft
    BY <2>1, EvaluationStepsFall
  <2>3. PhaseSteps' = PhaseSteps
    BY <2>1 DEF PhaseSteps
  <2>4. EvaluationStepsLeft' <= EvaluationStepsLeft
    BY <2>2, \A a, b \in Int : a < b => a <= b
  <2>5. QED
    BY <1>1, <1>3, <2>1, <2>2, <2>3, <2>4
<1>8. QED
  BY <1>5, <1>6, <1>7 DEF OfficialNext, Staging

\* An official run cannot go on for ever either: each request, each step of the
\* evaluation and each file written uses up some of what is left, which the
\* number of questions and the iterations of a run decide.
THEOREM OfficialRunsUseUpSteps ==
  OfficialSpec => /\ [](OfficialStepsLeft \in Nat)
                  /\ [][OfficialStepsLeft' < OfficialStepsLeft]_officialVars
<1>1. OfficialInv => StagingTypes
  BY DEF OfficialInv
<1>2. EvaluationFacts => EvaluationStepsLeft \in Nat
  BY EvaluationStepsType, EvalTypesHere DEF EvaluationFacts
<1>3. StagingTypes /\ EvaluationStepsLeft \in Nat => OfficialStepsLeft \in Nat
  BY StagingAssumption DEF OfficialStepsLeft, PhaseSteps, StagingTypes, Phases
<1>4. /\ StagingTypes /\ StagingTypes' /\ EvaluationFacts /\ EvaluationFacts'
      /\ EvaluationStepsLeft \in Nat /\ (EvaluationStepsLeft \in Nat)'
      /\ [OfficialNext]_officialVars
      => [OfficialStepsLeft' < OfficialStepsLeft]_officialVars
  BY OfficialStepsFall
<1>5. OfficialSpec => []EvaluationFacts
  BY OfficialRunIsAnEvaluation, EvaluationFactsHold, PTL
<1>6. QED
  BY <1>1, <1>2, <1>3, <1>4, <1>5, OfficialInvariant, PTL DEF OfficialSpec
=============================================================================
