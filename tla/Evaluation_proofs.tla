------------------------- MODULE Evaluation_proofs -------------------------
(***************************************************************************)
(* Theorems about Evaluation, for every value of its constants.            *)
(***************************************************************************)
EXTENDS Evaluation, Progress_proofs

----------------------------------------------------------------------------
(* The inductive invariant.  The agent's own invariants are kept by every  *)
(* step because each one is a step of Orchestration, a stutter of it, or   *)
(* the fresh state of Ask.  What has to be added relates the answer on the *)
(* state to the question that is open, and the records to their questions. *)

OpenStages == {"asked", "running", "ended"}

EvalTypes ==
  /\ stage \in OpenStages \cup {"ready", "finished"}
  /\ asked \in 0..NumQuestions
  /\ error \in {"none", "timeout", "raised"}
  /\ results \in Seq(RecordType)
  /\ submission \in Seq(Answers \cup {NoAnswer})
  /\ verdicts \in [proposed : SUBSET ((1..NumQuestions) \X Answers),
                   approved : SUBSET ((1..NumQuestions) \X Answers)]

\* One record for each question that is no longer open; the agent runs only in
\* the stage "running".
Bookkeeping ==
  /\ stage \in OpenStages => asked >= 1 /\ Len(results) = asked - 1
  /\ stage \notin OpenStages => Len(results) = asked
  /\ stage # "running" => pc = "idle"

\* Verdicts are about questions that were asked.
VerdictsOnAsked ==
  \A q \in 1..NumQuestions, a \in Answers :
    <<q, a>> \in verdicts.proposed \cup verdicts.approved => q <= asked

\* The answer on the state belongs to the open question, and the verifier's
\* approvals are those of that question: at most one, of the completed answer.
OpenQuestion ==
  stage \in OpenStages =>
    /\ state.final_answer # NoAnswer => <<asked, state.final_answer>> \in verdicts.proposed
    /\ \A a \in Answers : a \in approved <=> <<asked, a>> \in verdicts.approved
    /\ \A a \in approved : state.phase = "COMPLETED" /\ state.final_answer = a

EvalInv ==
  /\ PhaseInv
  /\ AnswerInv
  /\ EvalTypes
  /\ Bookkeeping
  /\ VerdictsOnAsked
  /\ OpenQuestion
  /\ RecordsAreOwn
  /\ ApprovedAnswersAreRecorded

LEMMA EvalStart == EvalInit => EvalInv
<1> SUFFICES ASSUME EvalInit PROVE EvalInv
  OBVIOUS
<1>1. PhaseInv /\ AnswerInv
  BY PhaseInit, AnswerInit DEF EvalInit
<1>2. results = <<>> /\ submission = <<>> /\ Len(<<>>) = 0 /\ DOMAIN <<>> = {}
  BY DEF EvalInit
<1>3. <<>> \in Seq(RecordType) /\ <<>> \in Seq(Answers \cup {NoAnswer})
  OBVIOUS
<1>4. EvalTypes
  BY <1>2, <1>3, QuestionsAssumption DEF EvalInit, EvalTypes
<1>5. Bookkeeping /\ VerdictsOnAsked /\ OpenQuestion
  BY <1>2 DEF EvalInit, Init, Bookkeeping, VerdictsOnAsked, OpenQuestion, OpenStages
<1>6. RecordsAreOwn /\ ApprovedAnswersAreRecorded
  BY <1>2 DEF RecordsAreOwn, ApprovedAnswersAreRecorded
<1>7. QED
  BY <1>1, <1>4, <1>5, <1>6 DEF EvalInv

\* A step of the agent keeps the agent's invariants.
LEMMA AgentKept ==
  ASSUME PhaseInv, AnswerInv, [Next]_vars
  PROVE  PhaseInv' /\ AnswerInv' /\ LifecycleStep
BY TypeStep, Lifecycle, AnswerStep DEF PhaseInv

\* So does the state of a new question.
LEMMA FreshKept ==
  ASSUME PhaseInv, Ask, pc = "idle"
  PROVE  PhaseInv' /\ AnswerInv'
<1>1. state' = FreshState /\ state' \in StateType /\ approved' = {} /\ runs' = 0
  BY FreshTypes DEF Ask
<1>2. TypeInv'
  BY <1>1 DEF PhaseInv, TypeInv, TypeOK, Ask, HasCurrent
<1>3. PhaseFitsAwait'
  BY DEF Ask, PhaseFitsAwait, Awaits
<1>4. AnswerInv'
  BY <1>1 DEF AnswerInv, VerifiedAnswerOnly, NoStaleCandidate, FreshState
<1>5. QED
  BY <1>2, <1>3, <1>4 DEF PhaseInv

\* What a step of the agent notes: the candidate it proposes and the answer that
\* is approved, both for the open question.
LEMMA WorksKeeps ==
  ASSUME EvalInv, Works
  PROVE  EvalTypes' /\ VerdictsOnAsked' /\ OpenQuestion'
<1>1. /\ stage = "running" /\ stage' \in {"running", "ended"}
      /\ asked \in 1..NumQuestions /\ asked' = asked
      /\ UNCHANGED <<error, results, submission>>
      /\ verdicts' = Noted
  BY DEF EvalInv, EvalTypes, Bookkeeping, OpenStages, Works
<1>2. PhaseInv' /\ AnswerInv' /\ LifecycleStep
  BY AgentKept DEF EvalInv, Works, Next
<1>3. approved \subseteq Answers /\ approved' \subseteq Answers
  BY <1>2 DEF EvalInv, PhaseInv, TypeInv, TypeOK
<1>4. pc' = "verifying" => state'.final_answer \in Answers
  BY <1>2 DEF PhaseInv, TypeInv
<1> DEFINE new == IF pc = "executing" /\ pc' = "verifying"
                  THEN {<<asked, state'.final_answer>>} ELSE {}
           endorsed == {<<asked, a>> : a \in approved' \ approved}
<1>5. new \subseteq (1..NumQuestions) \X Answers /\ endorsed \subseteq (1..NumQuestions) \X Answers
  BY <1>1, <1>3, <1>4
<1>6. /\ verdicts'.proposed = verdicts.proposed \cup new
      /\ verdicts'.approved = verdicts.approved \cup endorsed
      /\ verdicts' = [proposed |-> verdicts.proposed \cup new,
                      approved |-> verdicts.approved \cup endorsed]
  BY <1>1 DEF Noted
<1>7. EvalTypes'
  <2>1. verdicts.proposed \subseteq (1..NumQuestions) \X Answers
        /\ verdicts.approved \subseteq (1..NumQuestions) \X Answers
    BY DEF EvalInv, EvalTypes
  <2>2. verdicts' \in [proposed : SUBSET ((1..NumQuestions) \X Answers),
                       approved : SUBSET ((1..NumQuestions) \X Answers)]
    BY <1>5, <1>6, <2>1
  <2>3. QED
    BY <1>1, <2>2 DEF EvalInv, EvalTypes, OpenStages
<1>8. VerdictsOnAsked'
  <2> SUFFICES ASSUME NEW q \in 1..NumQuestions, NEW a \in Answers,
                      <<q, a>> \in verdicts'.proposed \cup verdicts'.approved
               PROVE  q <= asked
    BY <1>1 DEF VerdictsOnAsked
  <2>1. CASE <<q, a>> \in verdicts.proposed \cup verdicts.approved
    BY <2>1 DEF EvalInv, VerdictsOnAsked
  <2>2. CASE <<q, a>> \in new \cup endorsed
    BY <1>1, <2>2
  <2>3. QED
    BY <1>6, <2>1, <2>2
<1>9. OpenQuestion'
  <2>1. /\ state.final_answer # NoAnswer => <<asked, state.final_answer>> \in verdicts.proposed
        /\ \A a \in Answers : a \in approved <=> <<asked, a>> \in verdicts.approved
        /\ \A a \in approved : state.phase = "COMPLETED" /\ state.final_answer = a
    BY <1>1 DEF EvalInv, OpenQuestion, OpenStages
  <2>2. approved \subseteq approved'
    BY <1>2 DEF LifecycleStep, Stays, Starts, GetsPlan, Replans, Proposes, Accepts,
       Withdraws, Fails, Stops, SameAnswer
  <2>3. state'.final_answer # NoAnswer => <<asked, state'.final_answer>> \in verdicts'.proposed
    <3>1. CASE Proposes
      BY <1>6, <3>1 DEF Proposes
    <3>2. CASE state'.final_answer \in {state.final_answer, NoAnswer}
      BY <1>6, <2>1, <3>2
    <3>3. QED
      BY <1>2, <3>1, <3>2 DEF LifecycleStep, Stays, Starts, GetsPlan, Replans, Accepts,
         Withdraws, Fails, Stops, SameAnswer
  <2>4. ASSUME NEW a \in Answers
        PROVE  a \in approved' <=> <<asked, a>> \in verdicts'.approved
    <3>1. <<asked, a>> \in endorsed <=> a \in approved' \ approved
      OBVIOUS
    <3>2. QED
      BY <1>6, <2>1, <2>2, <3>1
  <2>5. ASSUME NEW a \in approved'
        PROVE  state'.phase = "COMPLETED" /\ state'.final_answer = a
    <3>1. CASE Accepts
      BY <2>1, <2>5, <3>1 DEF Accepts, Moves
    <3>2. CASE ~Accepts
      <4>1. a \in approved
        BY <1>2, <2>5, <3>2 DEF LifecycleStep, Stays, Starts, GetsPlan, Replans, Proposes,
           Withdraws, Fails, Stops, SameAnswer
      <4>2. state.phase = "COMPLETED" /\ state.final_answer = a
        BY <2>1, <4>1
      <4>3. Stays
        BY <1>2, <3>2, <4>2 DEF LifecycleStep, Starts, GetsPlan, Replans, Proposes,
           Withdraws, Fails, Stops, Moves, ActivePhases
      <4>4. QED
        BY <4>2, <4>3 DEF Stays, SameAnswer
    <3>3. QED
      BY <3>1, <3>2
  <2>6. QED
    BY <1>1, <2>3, <2>4, <2>5 DEF OpenQuestion
<1>10. QED
  BY <1>7, <1>8, <1>9

LEMMA EvalStep == EvalInv /\ [EvalNext]_allVars => EvalInv'
<1> SUFFICES ASSUME EvalInv, [EvalNext]_allVars PROVE EvalInv'
  OBVIOUS
<1>1. /\ PhaseInv /\ AnswerInv /\ EvalTypes /\ Bookkeeping /\ VerdictsOnAsked
      /\ OpenQuestion /\ RecordsAreOwn /\ ApprovedAnswersAreRecorded
  BY DEF EvalInv
<1>2. Len(results) \in Nat /\ DOMAIN results = 1..Len(results) /\ asked \in Nat
  BY <1>1 DEF EvalTypes
<1>3. ASSUME [Next]_vars PROVE PhaseInv' /\ AnswerInv' /\ LifecycleStep
  BY <1>1, <1>3, AgentKept
<1>4. CASE Ask
  <2>1. /\ stage = "ready" /\ stage' = "asked" /\ error' = "none"
        /\ asked < NumQuestions /\ asked' = asked + 1
        /\ pc = "idle" /\ pc' = "idle" /\ approved' = {} /\ state'.final_answer = NoAnswer
        /\ UNCHANGED <<results, submission, verdicts>>
    BY <1>1, <1>4 DEF Ask, Bookkeeping, FreshState
  <2>2. PhaseInv' /\ AnswerInv'
    BY <1>1, <1>4, <2>1, FreshKept
  <2>3. asked' \in 0..NumQuestions
    BY <1>2, <2>1, QuestionsAssumption
  <2>4. EvalTypes'
    BY <1>1, <2>1, <2>3 DEF EvalTypes, OpenStages
  <2>5. Bookkeeping'
    BY <1>1, <1>2, <2>1 DEF Bookkeeping, OpenStages
  <2>6. VerdictsOnAsked'
    BY <1>1, <1>2, <2>1 DEF VerdictsOnAsked
  <2>7. ASSUME NEW a \in Answers PROVE <<asked', a>> \notin verdicts'.approved
    <3>1. asked' \in 1..NumQuestions /\ ~(asked' <= asked)
      BY <1>2, <2>1, <2>3
    <3>2. QED
      BY <1>1, <2>1, <3>1 DEF VerdictsOnAsked
  <2>8. OpenQuestion'
    BY <2>1, <2>7 DEF OpenQuestion
  <2>9. RecordsAreOwn' /\ ApprovedAnswersAreRecorded'
    BY <1>1, <2>1 DEF RecordsAreOwn, ApprovedAnswersAreRecorded
  <2>10. QED
    BY <2>2, <2>4, <2>5, <2>6, <2>8, <2>9 DEF EvalInv
<1>5. CASE Start
  <2>1. /\ stage = "asked" /\ stage' = "running"
        /\ UNCHANGED <<asked, error, results, submission, verdicts>>
    BY <1>5 DEF Start
  <2>2. PhaseInv' /\ AnswerInv'
    BY <1>3, <1>5 DEF Start, Next, CallerStep
  <2>3. EvalTypes' /\ Bookkeeping' /\ VerdictsOnAsked' /\ RecordsAreOwn' /\ ApprovedAnswersAreRecorded'
    BY <1>1, <2>1 DEF EvalTypes, Bookkeeping, OpenStages, VerdictsOnAsked, RecordsAreOwn,
       ApprovedAnswersAreRecorded
  <2>4. SameAnswer /\ (state.phase = "COMPLETED" => state'.phase = "COMPLETED")
    BY <1>1, <1>5 DEF Start, Run, MovedTo, SameAnswer, PhaseInv, TypeInv, TypeOK, StateType
  <2>5. OpenQuestion'
    BY <1>1, <2>1, <2>4 DEF OpenQuestion, OpenStages, SameAnswer
  <2>6. QED
    BY <2>2, <2>3, <2>5 DEF EvalInv
<1>6. CASE Refused
  <2>1. /\ stage = "asked" /\ stage' = "ended" /\ error' = "raised"
        /\ UNCHANGED <<vars, asked, results, submission, verdicts>>
    BY <1>6 DEF Refused
  <2>2. PhaseInv' /\ AnswerInv'
    BY <1>3, <2>1
  <2>3. EvalTypes' /\ VerdictsOnAsked' /\ RecordsAreOwn' /\ ApprovedAnswersAreRecorded'
    BY <1>1, <2>1 DEF EvalTypes, OpenStages, VerdictsOnAsked, RecordsAreOwn,
       ApprovedAnswersAreRecorded
  <2>4. Bookkeeping' /\ OpenQuestion'
    BY <1>1, <2>1 DEF Bookkeeping, OpenQuestion, OpenStages, vars
  <2>5. QED
    BY <2>2, <2>3, <2>4 DEF EvalInv
<1>7. CASE Works
  <2>1. /\ stage = "running" /\ stage' \in {"running", "ended"}
        /\ stage' # "running" => pc' = "idle"
        /\ UNCHANGED <<asked, results>>
    BY <1>7 DEF Works
  <2>2. PhaseInv' /\ AnswerInv'
    BY <1>3, <1>7 DEF Works, Next
  <2>3. EvalTypes' /\ VerdictsOnAsked' /\ OpenQuestion'
    BY <1>7, WorksKeeps
  <2>4. Bookkeeping'
    BY <1>1, <2>1 DEF Bookkeeping, OpenStages
  <2>5. ASSUME NEW i \in DOMAIN results
        PROVE  /\ verdicts.proposed \subseteq verdicts'.proposed
               /\ verdicts.approved \subseteq verdicts'.approved
               /\ \A a \in Answers : <<i, a>> \in verdicts'.approved => <<i, a>> \in verdicts.approved
    <3>1. i # asked
      BY <1>1, <1>2, <2>1 DEF Bookkeeping, OpenStages
    <3>2. QED
      BY <1>7, <3>1 DEF Works, Noted
  <2>6. RecordsAreOwn' /\ ApprovedAnswersAreRecorded'
    BY <1>1, <2>1, <2>5 DEF RecordsAreOwn, ApprovedAnswersAreRecorded
  <2>7. QED
    BY <2>2, <2>3, <2>4, <2>6 DEF EvalInv
<1>8. CASE Timeout
  <2>1. /\ stage = "running" /\ stage' = "ended" /\ error' = "timeout" /\ pc' = "idle"
        /\ UNCHANGED <<state, approved, asked, results, submission, verdicts>>
    BY <1>8 DEF Timeout, Cancel
  <2>2. PhaseInv' /\ AnswerInv'
    BY <1>3, <1>8 DEF Timeout, Next, CallerStep
  <2>3. EvalTypes' /\ VerdictsOnAsked' /\ RecordsAreOwn' /\ ApprovedAnswersAreRecorded'
    BY <1>1, <2>1 DEF EvalTypes, OpenStages, VerdictsOnAsked, RecordsAreOwn,
       ApprovedAnswersAreRecorded
  <2>4. Bookkeeping' /\ OpenQuestion'
    BY <1>1, <2>1 DEF Bookkeeping, OpenQuestion, OpenStages
  <2>5. QED
    BY <2>2, <2>3, <2>4 DEF EvalInv
<1>9. CASE Record
  <2> DEFINE record == [answer |-> state.final_answer,
                        verified |-> state.final_answer_verified, error |-> error]
  <2>1. /\ stage = "ended" /\ stage' = "ready" /\ results' = Append(results, record)
        /\ UNCHANGED <<vars, asked, error, submission, verdicts>>
    BY <1>9 DEF Record
  <2>2. PhaseInv' /\ AnswerInv'
    BY <1>3, <2>1
  <2>3. record \in RecordType /\ results \in Seq(RecordType)
    BY <1>1 DEF PhaseInv, TypeInv, TypeOK, StateType, EvalTypes, RecordType
  <2>4. /\ results' \in Seq(RecordType)
        /\ Len(results') = Len(results) + 1 /\ Len(results') = asked
        /\ DOMAIN results' = 1..asked
        /\ results'[asked] = record
        /\ \A i \in DOMAIN results : results'[i] = results[i]
        /\ \A i \in DOMAIN results' : i = asked \/ i \in DOMAIN results
    <3> HIDE DEF record
    <3>1. Len(results) = asked - 1
      BY <1>1, <2>1 DEF Bookkeeping, OpenStages
    <3>2. QED
      BY <1>2, <2>1, <2>3, <3>1
  <2>5. EvalTypes' /\ Bookkeeping' /\ VerdictsOnAsked' /\ OpenQuestion'
    BY <1>1, <2>1, <2>4 DEF EvalTypes, Bookkeeping, VerdictsOnAsked, OpenQuestion, OpenStages, vars
  <2>6. /\ state.final_answer # NoAnswer => <<asked, state.final_answer>> \in verdicts.proposed
        /\ \A a \in Answers : a \in approved <=> <<asked, a>> \in verdicts.approved
        /\ \A a \in approved : state.phase = "COMPLETED" /\ state.final_answer = a
    BY <1>1, <2>1 DEF OpenQuestion, OpenStages
  <2>7. approved \subseteq Answers
    BY <1>1 DEF PhaseInv, TypeInv, TypeOK
  <2>8. state.final_answer_verified => <<asked, state.final_answer>> \in verdicts.approved
    BY <1>1, <2>6, <2>7 DEF AnswerInv, VerifiedAnswerOnly
  <2>9. ASSUME NEW a \in Answers, <<asked, a>> \in verdicts.approved
        PROVE  state.final_answer = a /\ state.final_answer_verified
    BY <1>1, <2>6, <2>9 DEF AnswerInv, VerifiedAnswerOnly
  <2>10. RecordsAreOwn'
    <3>1. /\ results'[asked].answer = state.final_answer
          /\ results'[asked].verified = state.final_answer_verified
      BY <2>4
    <3>2. ASSUME NEW i \in DOMAIN results'
          PROVE  /\ results'[i].answer # NoAnswer => <<i, results'[i].answer>> \in verdicts.proposed
                 /\ results'[i].verified => <<i, results'[i].answer>> \in verdicts.approved
      <4> HIDE DEF record
      <4>1. CASE i = asked
        BY <2>6, <2>8, <3>1, <4>1
      <4>2. CASE i \in DOMAIN results
        <5>1. results'[i] = results[i]
          BY <2>4, <4>2
        <5>2. QED
          BY <1>1, <4>2, <5>1 DEF RecordsAreOwn
      <4>3. QED
        BY <2>4, <4>1, <4>2
    <3>3. QED
      BY <2>1, <3>2 DEF RecordsAreOwn
  <2>11. ApprovedAnswersAreRecorded'
    BY <1>1, <2>1, <2>4, <2>9 DEF ApprovedAnswersAreRecorded
  <2>12. QED
    BY <2>2, <2>5, <2>10, <2>11 DEF EvalInv
<1>10. CASE Finish
  <2>1. /\ stage = "ready" /\ stage' = "finished" /\ submission' = CourseRows(results)
        /\ UNCHANGED <<vars, asked, error, results, verdicts>>
    BY <1>10 DEF Finish
  <2>2. PhaseInv' /\ AnswerInv'
    BY <1>3, <2>1
  <2>3. submission' \in Seq(Answers \cup {NoAnswer})
    <3>1. ASSUME NEW i \in 1..Len(results)
          PROVE  results[i].answer \in Answers \cup {NoAnswer}
      <4>1. results[i] \in RecordType
        BY <1>1 DEF EvalTypes
      <4>2. QED
        BY <4>1 DEF RecordType
    <3>2. QED
      BY <1>2, <2>1, <3>1 DEF CourseRows
  <2>4. EvalTypes' /\ VerdictsOnAsked' /\ RecordsAreOwn' /\ ApprovedAnswersAreRecorded'
    BY <1>1, <2>1, <2>3 DEF EvalTypes, OpenStages, VerdictsOnAsked, RecordsAreOwn,
       ApprovedAnswersAreRecorded
  <2>5. Bookkeeping' /\ OpenQuestion'
    BY <1>1, <2>1 DEF Bookkeeping, OpenQuestion, OpenStages, vars
  <2>6. QED
    BY <2>2, <2>4, <2>5 DEF EvalInv
<1>11. CASE UNCHANGED allVars
  <2>1. UNCHANGED <<vars, stage, asked, error, results, submission, verdicts>>
    BY <1>11 DEF allVars, evalVars
  <2>2. PhaseInv' /\ AnswerInv'
    BY <1>3, <2>1
  <2>3. QED
    BY <1>1, <2>1, <2>2 DEF EvalInv, EvalTypes, Bookkeeping, VerdictsOnAsked, OpenQuestion,
       RecordsAreOwn, ApprovedAnswersAreRecorded, vars
<1>12. QED
  BY <1>4, <1>5, <1>6, <1>7, <1>8, <1>9, <1>10, <1>11 DEF EvalNext, EvaluatorStep

LEMMA EvalInvariant == EvalSpec => []EvalInv
BY EvalStart, EvalStep, PTL DEF EvalSpec

LEMMA EvalTypesHere == EvalInv => EvalTypeOK
BY DEF EvalInv, PhaseInv, TypeInv, EvalTypes, OpenStages, EvalTypeOK

\* The evaluator's variables, and the agent's under it, keep their types.
THEOREM EvaluationTypeCorrect == EvalSpec => []EvalTypeOK
BY EvalInvariant, EvalTypesHere, PTL

\* Whatever the time limits cut off, an answer recorded for a question was
\* proposed for it, and one recorded as verified was approved for it.
THEOREM RecordsBelongToQuestions == EvalSpec => []RecordsAreOwn
<1>1. EvalInv => RecordsAreOwn
  BY DEF EvalInv
<1>2. QED
  BY EvalInvariant, <1>1, PTL

\* No approved answer is lost between the verifier and the record.
THEOREM ApprovedAnswersReachRecords == EvalSpec => []ApprovedAnswersAreRecorded
<1>1. EvalInv => ApprovedAnswersAreRecorded
  BY DEF EvalInv
<1>2. QED
  BY EvalInvariant, <1>1, PTL

----------------------------------------------------------------------------
(* All questions share one agent and its loop detector; what holds of a run *)
(* of the agent holds of every question's run nevertheless.                *)

LEMMA MemoryInvariantsStart == EvalInit => MemoryInvariants
BY RunInit, WorkInit, MemoryInit DEF EvalInit, MemoryInvariants, NotDetected, Init

LEMMA MemoryInvariantsStep ==
  EvalInv /\ MemoryInvariants /\ [EvalNext]_allVars => MemoryInvariants'
<1> SUFFICES ASSUME EvalInv, MemoryInvariants, [EvalNext]_allVars PROVE MemoryInvariants'
  OBVIOUS
<1>1. CASE [Next]_vars
  BY <1>1, RunStep, WorkStep, MemoryStep, NotDetectedStep DEF MemoryInvariants, RunInv
<1>2. CASE Ask
  <2>1. /\ pc = "idle" /\ pc' = "idle"
        /\ UNCHANGED <<run, history, done>>
    BY <1>2 DEF EvalInv, Bookkeeping, Ask
  <2>2. PhaseInv'
    BY <1>2, <2>1, FreshKept DEF EvalInv
  <2>3. PlanInv' /\ BudgetInv' /\ MirrorInv'
    BY <2>1 DEF MemoryInvariants, RunInv, PlanInv, PlanProgress, VersionCountsReplans, HasCurrent,
       AtFinalStep, BudgetInv, BudgetsHold, MirrorInv, Awaits
  <2>4. WorkInv' /\ MemoryInv' /\ NotDetected'
    BY <2>1 DEF MemoryInvariants, WorkInv, WorkIsBounded, MemoryInv, NotDetected, Awaits
  <2>5. QED
    BY <2>2, <2>3, <2>4 DEF MemoryInvariants, RunInv
<1>3. CASE Start \/ Works \/ Timeout
  BY <1>1, <1>3 DEF Start, Works, Timeout, Next, CallerStep
<1>4. CASE Refused \/ Record \/ Finish \/ UNCHANGED allVars
  BY <1>1, <1>4 DEF Refused, Record, Finish, allVars
<1>5. QED
  BY <1>2, <1>3, <1>4 DEF EvalNext, EvaluatorStep

LEMMA MemoryInvariantHere == EvalSpec => []MemoryInvariants
BY MemoryInvariantsStart, MemoryInvariantsStep, EvalInvariant, PTL DEF EvalSpec

\* The detector that all questions share judges a run by the steps of that run
\* alone, although a run that the time limit cancels does not clear it.
THEOREM DetectorIsOfThisRun == EvalSpec => []DetectorRemembersThisRun
<1>1. MemoryInvariants => DetectorRemembersThisRun
  BY MemoryIsSuffix DEF MemoryInvariants, RunInv, PhaseInv, TypeInv, TypeOK,
     DetectorRemembersThisRun
<1>2. QED
  BY MemoryInvariantHere, <1>1, PTL

\* Whatever happened to the questions before it, the run of each question goes
\* through its plans in order and keeps to its budgets and its configuration.
THEOREM EveryQuestionIsBounded ==
  EvalSpec => [](PlanProgress /\ BudgetsHold /\ WithinConfiguration)
<1>1. MemoryInvariants => PlanProgress /\ BudgetsHold /\ WithinConfiguration
  BY WithinLimits DEF MemoryInvariants, RunInv, PlanInv, BudgetInv
<1>2. QED
  BY MemoryInvariantHere, <1>1, PTL

\* Nor does the run of a question repeat a step like one it has executed, though
\* it may execute what another question's run did.
THEOREM NoQuestionRepeatsSteps ==
  MaxIterations <= MaxHistory => (EvalSpec => []NoRepeatedExecution)
<1> SUFFICES ASSUME MaxIterations <= MaxHistory PROVE EvalSpec => []NoRepeatedExecution
  OBVIOUS
<1>1. MemoryInvariants => NoRepeatedExecution
  BY NothingForgotten
<1>2. QED
  BY MemoryInvariantHere, <1>1, PTL

----------------------------------------------------------------------------
(* Why an evaluation ends: each of its steps uses up some of it.           *)

\* What a question takes at most: its run, the start of it and the record.
QuestionSteps == MaxIterations * 5 + 4

StageSteps ==
  CASE stage = "asked"    -> QuestionSteps
    [] stage = "running"  -> StepsLeft + 2
    [] stage = "ended"    -> 2
    [] stage = "ready"    -> 1
    [] stage = "finished" -> 0

EvaluationStepsLeft == (NumQuestions - asked) * QuestionSteps + StageSteps

LEMMA QuestionTaken ==
  ASSUME NEW n \in Nat, NEW a \in Nat, a < n
  PROVE  (n - a) * QuestionSteps = (n - (a + 1)) * QuestionSteps + QuestionSteps
BY PolicyAssumption DEF QuestionSteps

LEMMA EvaluationStepsType ==
  EvalTypeOK /\ StepsLeft \in 0..(MaxIterations * 5 + 1) =>
    /\ EvaluationStepsLeft \in Nat
    /\ StageSteps \in 0..QuestionSteps
    /\ (NumQuestions - asked) * QuestionSteps \in Nat
<1> SUFFICES ASSUME EvalTypeOK, StepsLeft \in 0..(MaxIterations * 5 + 1)
             PROVE  /\ EvaluationStepsLeft \in Nat
                    /\ StageSteps \in 0..QuestionSteps
                    /\ (NumQuestions - asked) * QuestionSteps \in Nat
  OBVIOUS
<1>1. QuestionSteps \in Nat /\ MaxIterations * 5 \in Nat /\ NumQuestions - asked \in Nat
  BY PolicyAssumption, QuestionsAssumption DEF QuestionSteps, EvalTypeOK
<1>2. StageSteps \in 0..QuestionSteps
  BY <1>1 DEF StageSteps, QuestionSteps, EvalTypeOK
<1>3. (NumQuestions - asked) * QuestionSteps \in Nat
  BY <1>1, ProductSum
<1>4. QED
  BY <1>1, <1>2, <1>3 DEF EvaluationStepsLeft

EvaluationFacts ==
  EvalInv /\ MemoryInvariants /\ StepsLeft \in 0..(MaxIterations * 5 + 1)

LEMMA EvaluationStepsFall ==
  ASSUME EvaluationFacts, EvaluationFacts', EvalNext
  PROVE  EvaluationStepsLeft' < EvaluationStepsLeft
<1>1. /\ EvalTypeOK /\ NumQuestions \in Nat /\ asked \in Nat /\ QuestionSteps \in Nat
      /\ StepsLeft \in 0..(MaxIterations * 5 + 1)
      /\ StepsLeft' \in 0..(MaxIterations * 5 + 1)
  <2>1. EvalTypeOK
    BY EvalTypesHere DEF EvaluationFacts
  <2>2. QED
    BY <2>1, PolicyAssumption, QuestionsAssumption
    DEF EvaluationFacts, EvalTypeOK, QuestionSteps
<1>2. /\ EvaluationStepsLeft = (NumQuestions - asked) * QuestionSteps + StageSteps
      /\ EvaluationStepsLeft' = (NumQuestions - asked') * QuestionSteps + StageSteps'
  BY DEF EvaluationStepsLeft, QuestionSteps
<1>3. (NumQuestions - asked) * QuestionSteps \in Nat /\ StageSteps \in 0..QuestionSteps
  BY <1>1, EvaluationStepsType
<1>4. ASSUME asked' = asked, StageSteps' < StageSteps, StageSteps' \in Nat
      PROVE  EvaluationStepsLeft' < EvaluationStepsLeft
  BY <1>2, <1>3, <1>4
<1>5. CASE Ask
  <2>1. /\ asked < NumQuestions /\ asked' = asked + 1
        /\ StageSteps = 1 /\ StageSteps' = QuestionSteps
    BY <1>5 DEF Ask, StageSteps, QuestionSteps
  <2>2. (NumQuestions - asked) * QuestionSteps
          = (NumQuestions - asked') * QuestionSteps + QuestionSteps
    BY <1>1, <2>1, QuestionTaken
  <2>3. (NumQuestions - asked') * QuestionSteps \in Nat
    BY <1>1, <2>1, ProductSum
  <2>4. QED
    BY <1>1, <1>2, <2>1, <2>2, <2>3
<1>6. CASE Start
  <2>1. asked' = asked /\ StageSteps = QuestionSteps /\ StageSteps' = StepsLeft' + 2
    BY <1>6 DEF Start, StageSteps
  <2>2. StageSteps' < StageSteps /\ StageSteps' \in Nat
    BY <1>1, <2>1, PolicyAssumption DEF QuestionSteps, StepsLeft
  <2>3. QED
    BY <1>4, <2>1, <2>2
<1>7. CASE Works
  <2>1. StepsLeft' < StepsLeft
    BY <1>7, StepsLeftSpent DEF EvaluationFacts, MemoryInvariants, Works, Next
  <2>2. /\ asked' = asked /\ StageSteps = StepsLeft + 2
        /\ StageSteps' = IF pc' = "idle" THEN 2 ELSE StepsLeft' + 2
    BY <1>7 DEF Works, StageSteps
  <2>3. StageSteps' < StageSteps /\ StageSteps' \in Nat
    BY <1>1, <2>1, <2>2, PolicyAssumption DEF StepsLeft
  <2>4. QED
    BY <1>4, <2>2, <2>3
<1>8. CASE Timeout
  <2>1. asked' = asked /\ StageSteps = StepsLeft + 2 /\ StageSteps' = 2
    BY <1>8 DEF Timeout, StageSteps
  <2>2. run.iteration \in Nat /\ run.iteration <= MaxIterations /\ StepsAhead[pc] \in 2..5
    BY <1>8 DEF Timeout, Cancel, Awaits, StepsAhead, EvaluationFacts, MemoryInvariants, RunInv,
       PhaseInv, TypeInv, TypeOK, RunType, WorkInv
  <2>3. 2 <= StepsLeft
    BY <2>2, PolicyAssumption DEF StepsLeft
  <2>4. QED
    BY <1>1, <1>4, <2>1, <2>3
<1>9. CASE Refused \/ Record \/ Finish
  <2>1. asked' = asked /\ StageSteps' < StageSteps /\ StageSteps' \in Nat
    BY <1>9, PolicyAssumption DEF Refused, Record, Finish, StageSteps, QuestionSteps
  <2>2. QED
    BY <1>4, <2>1
<1>10. QED
  BY <1>5, <1>6, <1>7, <1>8, <1>9 DEF EvalNext, EvaluatorStep

LEMMA EvaluationFactsHold == EvalSpec => []EvaluationFacts
<1>1. EvalInv /\ MemoryInvariants => EvaluationFacts
  BY StepsLeftSpent DEF EvaluationFacts, MemoryInvariants
<1>2. QED
  BY <1>1, EvalInvariant, MemoryInvariantHere, PTL

\* An evaluation cannot go on for ever: whatever the agent, the limit and the
\* evaluator do uses up some of what the questions and the iterations allow.
THEOREM EvaluationsUseUpSteps ==
  EvalSpec => /\ [](EvaluationStepsLeft \in Nat)
              /\ [][EvaluationStepsLeft' < EvaluationStepsLeft]_allVars
<1>1. EvaluationFacts => EvaluationStepsLeft \in Nat
  BY EvaluationStepsType, EvalTypesHere DEF EvaluationFacts
<1>2. EvaluationFacts /\ EvaluationFacts' /\ [EvalNext]_allVars
        => [EvaluationStepsLeft' < EvaluationStepsLeft]_allVars
  BY EvaluationStepsFall
<1>3. QED
  BY <1>1, <1>2, EvaluationFactsHold, PTL DEF EvalSpec
=============================================================================
