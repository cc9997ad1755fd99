------------------------ MODULE Orchestration_proofs ------------------------
(***************************************************************************)
(* Theorems about Orchestration, for every value of its constants.         *)
(***************************************************************************)
EXTENDS Orchestration, TLAPS

----------------------------------------------------------------------------
(* The helpers keep the types of the state and of the run.                 *)

LEMMA ErrorTypes ==
  /\ PlannerError \in AgentError
  /\ InternalError \in AgentError
  /\ LoopError \in AgentError
  /\ OutsidePlanningError \in AgentError
  /\ VerificationBudgetError \in AgentError
  /\ AnswerRejectedError \in AgentError
BY DEF PlannerError, InternalError, LoopError, OutsidePlanningError,
       VerificationBudgetError, AnswerRejectedError, AgentError, ErrorCategory,
       RecoverableCategories, FatalCategories, OtherCategories, ErrorSeverity

LEMMA FatalType ==
  ASSUME NEW error \in AgentError
  PROVE  IsFatal(error) \in BOOLEAN
BY DEF IsFatal

LEMMA FailedType ==
  ASSUME NEW s \in StateType, NEW error \in AgentError
  PROVE  Failed(s, error) \in StateType
BY FatalType DEF Failed, StateType, AgentPhase

LEMMA MovedType ==
  ASSUME NEW s \in StateType, NEW phase \in AgentPhase
  PROVE  MovedTo(s, phase) \in StateType
BY DEF MovedTo, StateType

LEMMA WithPlanType ==
  ASSUME NEW r \in RunType, NEW plan \in Plans
  PROVE  /\ WithPlan(r, plan) \in RunType
         /\ WithPlan(r, plan).plan = plan
         /\ WithPlan(r, plan).current_step = 0
         /\ WithPlan(r, plan).replan_count = r.replan_count
<1>1. {} \in SUBSET Nat /\ r.plan_version + 1 \in Nat
  BY DEF RunType
<1>2. WithPlan(r, plan) \in RunType
  BY <1>1 DEF WithPlan, RunType
<1>3. QED
  BY <1>2 DEF WithPlan, RunType

LEMMA PlanMirroredType ==
  ASSUME NEW s \in StateType, NEW r \in RunType
  PROVE  PlanMirrored(s, r) \in StateType
BY DEF PlanMirrored, StateType, RunType, AgentPhase

LEMMA PolicyReasonType ==
  ASSUME NEW s \in StateType, NEW flags \in SUBSET StopFlag
  PROVE  PolicyReason(s, flags) \in TerminationReason \cup {"none"}
BY DEF PolicyReason, TerminationReason, StopFlag

LEMMA RecordedType ==
  ASSUME NEW h \in Seq(Steps), NEW step \in Steps
  PROVE  Recorded(h, step) \in Seq(Steps)
<1>1. Append(h, step) \in Seq(Steps) /\ Len(Append(h, step)) = Len(h) + 1 /\ Len(h) \in Nat
  OBVIOUS
<1>2. ASSUME Append(h, step) = <<>> PROVE FALSE
  <2>1. Len(<<>>) = 0
    OBVIOUS
  <2>2. Len(h) + 1 = 0
    BY <1>1, <1>2, <2>1
  <2>3. QED
    BY <1>1, <2>2
<1>3. Tail(Append(h, step)) \in Seq(Steps)
  BY <1>1, <1>2
<1>4. QED
  BY <1>1, <1>3 DEF Recorded

LEMMA SignatureType ==
  ASSUME run \in RunType, HasCurrent(run), ~AtFinalStep(run)
  PROVE  CurrentSignature(run) \in Steps
<1>1. run.plan \in Seq(Steps) /\ run.current_step + 1 \in 1..Len(run.plan)
  BY PlansAssumption DEF HasCurrent, AtFinalStep, RunType
<1>2. QED
  BY <1>1 DEF CurrentSignature

LEMMA JudgedType ==
  ASSUME NEW r \in RunType, NEW answer \in Answers, NEW verdict \in BOOLEAN
  PROVE  /\ Judged(r, answer, verdict) \in RunType
         /\ Len(Judged(r, answer, verdict).verification_history)
              = Len(r.verification_history) + 1
<1> DEFINE longer == Append(r.verification_history, [answer |-> answer, verified |-> verdict])
<1>1. r.verification_history \in Verdicts
  BY DEF RunType
<1>2. longer \in Verdicts /\ Len(longer) = Len(r.verification_history) + 1
  BY <1>1 DEF Verdicts, Verdict
<1>3. Judged(r, answer, verdict) = [r EXCEPT !.verification_history = longer]
  BY DEF Judged
<1> HIDE DEF longer
<1>4. QED
  BY <1>2, <1>3 DEF RunType

LEMMA JudgedStateType ==
  ASSUME NEW s \in StateType, NEW r \in RunType, NEW verdict \in BOOLEAN
  PROVE  JudgedState(s, r, verdict) \in StateType
<1>1. Len(r.verification_history) \in Nat
  BY DEF RunType, Verdicts
<1>2. QED
  BY <1>1 DEF JudgedState, StateType

LEMMA FreshTypes ==
  FreshState \in StateType /\ FreshRun \in RunType
<1>1. <<>> \in Verdicts
  BY DEF Verdicts
<1>2. {} \in SUBSET Nat
  OBVIOUS
<1>3. QED
  BY <1>1, <1>2 DEF FreshState, StateType, AgentPhase, FreshRun, RunType

LEMMA FailsWithType ==
  ASSUME NEW s \in StateType, NEW error \in AgentError, FailsWith(s, error)
  PROVE  state' \in StateType /\ pc' = "idle" /\ result' = "returned"
BY FailedType DEF FailsWith, Returns

LEMMA ReplanOrFailType ==
  ASSUME NEW s \in StateType, NEW replans, NEW error \in AgentError,
         result \in {"none", "returned", "cancelled"},
         ReplanOrFail(s, replans, error)
  PROVE  /\ state' \in StateType
         /\ pc' \in {"idle", "replanning"}
         /\ result' \in {"none", "returned", "cancelled"}
<1>1. CASE replans >= MaxReplans
  BY <1>1, FailsWithType DEF ReplanOrFail
<1>2. CASE ~(replans >= MaxReplans)
  <2>1. MovedTo(s, "PLANNING") \in StateType
    BY MovedType DEF AgentPhase
  <2>2. QED
    BY <1>2, <2>1 DEF ReplanOrFail, Awaiting
<1>3. QED
  BY <1>1, <1>2

----------------------------------------------------------------------------
(* Type correctness.  A step that executes has a current plan step and a   *)
(* verification has a candidate: without these two facts the handlers of   *)
(* the answers would leave the types.                                      *)

TypeInv ==
  /\ TypeOK
  /\ pc = "executing" => HasCurrent(run)
  /\ pc = "verifying" => state.final_answer \in Answers

LEMMA TypeInit == Init => TypeInv
<1> SUFFICES ASSUME Init PROVE TypeInv
  OBVIOUS
<1>1. /\ history \in Seq(Steps)
      /\ done \in Seq(Steps)
  BY DEF Init
<1>2. QED
  BY <1>1, FreshTypes DEF Init, TypeInv, TypeOK

LEMMA TypeStep == TypeInv /\ [Next]_vars => TypeInv'
<1> SUFFICES ASSUME TypeInv, [Next]_vars PROVE TypeInv'
  OBVIOUS
<1> USE DEF TypeInv, TypeOK, Awaits
<1>1. CASE Run
  <2>1. MovedTo(state, "PLANNING") \in StateType
    BY MovedType DEF AgentPhase
  <2>2. state' \in StateType /\ run' \in RunType
    BY <1>1, <2>1, FreshTypes DEF Run
  <2>3. <<>> \in Seq(Steps)
    OBVIOUS
  <2>4. QED
    BY <1>1, <2>2, <2>3 DEF Run
<1>2. CASE Cancel
  BY <1>2 DEF Cancel
<1>3. ASSUME NEW flag \in StopFlags, RaiseStop(flag) PROVE TypeInv'
  <2>1. stop' \subseteq StopFlag
    BY <1>3, EnvironmentAssumption DEF RaiseStop
  <2>2. QED
    BY <1>3, <2>1 DEF RaiseStop, HasCurrent
<1>4. CASE LoopEnds
  BY <1>4 DEF LoopEnds, Returns
<1>5. CASE PolicyTerminates
  <2>1. PolicyReason(state, stop) \in TerminationReason \cup {"none"}
    BY PolicyReasonType
  <2>2. state' \in StateType
    BY <1>5, <2>1 DEF PolicyTerminates, MovedTo, StateType, AgentPhase
  <2>3. QED
    BY <1>5, <2>2 DEF PolicyTerminates, Returns
<1>6. ASSUME CountIteration
      PROVE  run' \in RunType /\ UNCHANGED <<history, stop, runs, approved, done>>
  <2>1. run.iteration + 1 \in Nat
    BY DEF RunType
  <2>2. QED
    BY <1>6, <2>1 DEF CountIteration, RunType
<1>7. CASE StepRefused
  <2>1. state' \in StateType
    BY <1>6, <1>7 DEF StepRefused, MovedTo, StateType, RunType, AgentPhase
  <2>2. QED
    BY <1>6, <1>7, <2>1 DEF StepRefused, Returns
<1>8. CASE StepBegins
  <2>1. state' \in StateType
    BY <1>6, <1>8 DEF StepBegins, StateType, RunType
  <2>2. QED
    BY <1>6, <1>8, <2>1 DEF StepBegins, Awaiting
<1>9. CASE StepRaises
  BY <1>9, ErrorTypes, FailsWithType DEF StepRaises
<1>10. CASE PlanRequested
  BY <1>10 DEF PlanRequested, Awaiting
<1>11. CASE RepeatedStepFails
  BY <1>11, ErrorTypes, FailsWithType DEF RepeatedStepFails
<1>12. CASE ExecutionStarts
  <2>1. run.current_attempt + 1 \in Nat
    BY DEF RunType
  <2>2. run' \in RunType /\ state' \in StateType
    BY <1>12, <2>1 DEF ExecutionStarts, RunType, StateType
  <2>3. HasCurrent(run)'
    BY <1>12 DEF ExecutionStarts, HasCurrent, RunType
  <2>4. QED
    BY <1>12, <2>2, <2>3 DEF ExecutionStarts, Awaiting
<1>13. CASE PlannerGivesUp
  BY <1>13, ErrorTypes, FailsWithType DEF PlannerGivesUp
<1>14. ASSUME NEW plan \in Plans, PlanInstalled(plan) PROVE TypeInv'
  <2>1. run' \in RunType
    BY <1>14, WithPlanType DEF PlanInstalled
  <2>2. state' \in StateType
    BY <1>14, <2>1, PlanMirroredType DEF PlanInstalled
  <2>3. QED
    BY <1>14, <2>1, <2>2 DEF PlanInstalled, Awaiting
<1>15. ASSUME NEW plan \in Plans, PlanInstalledOutsidePlanning(plan) PROVE TypeInv'
  <2>1. run' \in RunType
    BY <1>15, WithPlanType DEF PlanInstalledOutsidePlanning
  <2>2. QED
    BY <1>15, <2>1, ErrorTypes, FailsWithType DEF PlanInstalledOutsidePlanning
<1>16. ASSUME NEW plan \in Plans, ReplacementInstalled(plan) PROVE TypeInv'
  <2>1. WithPlan(run, plan) \in RunType
    BY WithPlanType
  <2>2. WithPlan(run, plan).replan_count + 1 \in Nat
    BY <2>1 DEF RunType
  <2>3. run' \in RunType
    BY <1>16, <2>2, <2>1 DEF ReplacementInstalled, RunType
  <2>4. PlanMirrored(state, run') \in StateType
    BY <2>3, PlanMirroredType
  <2>5. state' \in StateType
    BY <1>16, <2>3, <2>4 DEF ReplacementInstalled, StateType, RunType
  <2>6. QED
    BY <1>16, <2>3, <2>5 DEF ReplacementInstalled, Awaiting
<1>17. CASE StepCompletes
  <2>1. CurrentSignature(run) \in Steps
    BY <1>17, SignatureType DEF StepCompletes
  <2>2. history' \in Seq(Steps) /\ done' \in Seq(Steps)
    BY <1>17, <2>1, RecordedType DEF StepCompletes
  <2>3. run.current_step \in Nat
    BY <1>17, PlansAssumption DEF StepCompletes, HasCurrent, RunType
  <2>4. /\ run.current_step + 1 \in Nat
        /\ run.completed_steps \cup {run.current_step} \in SUBSET Nat
    BY <2>3 DEF RunType
  <2>5. run' \in RunType
    BY <1>17, <2>4 DEF StepCompletes, RunType
  <2>6. state' \in StateType
    BY <1>17, <2>5 DEF StepCompletes, RunType, StateType
  <2>7. QED
    BY <1>17, <2>2, <2>5, <2>6 DEF StepCompletes, Awaiting
<1>18. ASSUME NEW answer \in Answers, AnswerProposed(answer) PROVE TypeInv'
  <2>1. run.current_step \in Nat
    BY <1>18, PlansAssumption DEF AnswerProposed, HasCurrent, RunType
  <2>2. run' \in RunType
    BY <1>18, <2>1 DEF AnswerProposed, RunType
  <2>3. state' \in StateType /\ state'.final_answer \in Answers
    BY <1>18, <2>2 DEF AnswerProposed, MovedTo, RunType, StateType, AgentPhase
  <2>4. QED
    BY <1>18, <2>2, <2>3 DEF AnswerProposed, Awaiting
<1>19. ASSUME NEW error \in ExecErrors, ExecutionBlocked(error) PROVE TypeInv'
  <2>1. state' \in StateType
    BY <1>19 DEF ExecutionBlocked, StateType
  <2>2. QED
    BY <1>19, <2>1 DEF ExecutionBlocked, Returns
<1>20. ASSUME NEW error \in ExecErrors, ExecutionFails(error) PROVE TypeInv'
  <2>1. error \in AgentError
    BY EnvironmentAssumption
  <2>2. /\ state' \in StateType
        /\ pc' \in {"idle", "replanning", "backoff"}
        /\ result' \in {"none", "returned", "cancelled"}
    <3>1. CASE HandleFailure(error, run.current_attempt) = "RETRY"
      BY <1>20, <3>1 DEF ExecutionFails, Awaiting
    <3>2. CASE HandleFailure(error, run.current_attempt) = "REPLAN"
      <4>1. ReplanOrFail(state, run.replan_count, error)
        BY <1>20, <3>2 DEF ExecutionFails
      <4>2. QED
        BY <2>1, <4>1, ReplanOrFailType
    <3>3. CASE HandleFailure(error, run.current_attempt) \notin {"RETRY", "REPLAN"}
      <4>1. FailsWith(state, error)
        BY <1>20, <3>3 DEF ExecutionFails
      <4>2. QED
        BY <2>1, <4>1, FailsWithType
    <3>4. QED
      BY <3>1, <3>2, <3>3
  <2>3. QED
    BY <1>20, <2>2 DEF ExecutionFails
<1>21. CASE BackoffEnds
  BY <1>21 DEF BackoffEnds, Awaiting
<1>22. CASE AnswerVerified
  <2>1. state.final_answer \in Answers
    BY <1>22 DEF AnswerVerified
  <2>2. Judged(run, state.final_answer, TRUE) \in RunType
    BY <2>1, JudgedType
  <2>3. run' \in RunType
    BY <1>22, <2>1, <2>2 DEF AnswerVerified, RunType
  <2>4. JudgedState(state, run', TRUE) \in StateType
    BY <2>3, JudgedStateType
  <2> DEFINE t == MovedTo(JudgedState(state, run', TRUE), "COMPLETED")
  <2>5. t \in StateType
    BY <2>4, MovedType DEF AgentPhase
  <2>6. state' = [t EXCEPT !.final_answer = run'.final_answer,
                           !.final_answer_ready = TRUE, !.task_completed = TRUE]
    BY <1>22 DEF AnswerVerified
  <2>7. run'.final_answer \in Answers \cup {NoAnswer}
    BY <2>3 DEF RunType
  <2> HIDE DEF t
  <2>8. state' \in StateType
    BY <2>5, <2>6, <2>7 DEF StateType
  <2>9. QED
    BY <1>22, <2>1, <2>3, <2>8 DEF AnswerVerified, Returns
<1>23. CASE AnswerRejected
  <2> DEFINE r == Judged(run, state.final_answer, FALSE)
             s == JudgedState(state, r, FALSE)
  <2>1. state.final_answer \in Answers
    BY <1>23 DEF AnswerRejected
  <2>2. r \in RunType
    BY <2>1, JudgedType
  <2>3. s \in StateType
    BY <2>2, JudgedStateType
  <2>4. CASE Len(r.verification_history) >= MaxVerificationAttempts
    <3>1. run' = r /\ FailsWith(s, VerificationBudgetError)
      BY <1>23, <2>4 DEF AnswerRejected
    <3>2. QED
      BY <1>23, <2>2, <2>3, <3>1, ErrorTypes, FailsWithType DEF AnswerRejected
  <2>5. CASE ~(Len(r.verification_history) >= MaxVerificationAttempts)
    <3> DEFINE t == [s EXCEPT !.final_answer = NoAnswer, !.final_answer_ready = FALSE]
    <3>1. /\ run' = [r EXCEPT !.final_answer = NoAnswer]
          /\ ReplanOrFail(t, r.replan_count, AnswerRejectedError)
      BY <1>23, <2>5 DEF AnswerRejected
    <3>2. t \in StateType
      BY <2>3 DEF StateType
    <3>3. run' \in RunType
      BY <2>2, <3>1 DEF RunType
    <3>4. /\ state' \in StateType
          /\ pc' \in {"idle", "replanning"}
          /\ result' \in {"none", "returned", "cancelled"}
      BY <3>1, <3>2, ErrorTypes, ReplanOrFailType
    <3>5. QED
      BY <1>23, <3>3, <3>4 DEF AnswerRejected
  <2>6. QED
    BY <2>4, <2>5
<1>24. CASE UNCHANGED vars
  BY <1>24 DEF vars, HasCurrent
<1>25. QED
  BY <1>1, <1>2, <1>3, <1>4, <1>5, <1>7, <1>8, <1>9, <1>10, <1>11, <1>12, <1>13,
     <1>14, <1>15, <1>16, <1>17, <1>18, <1>19, <1>20, <1>21, <1>22, <1>23, <1>24
  DEF Next, AgentStep, CallerStep

\* The fields of the state, of the context and of the loop detector keep their
\* types through every run of a state, cancelled, blocked or repeated.
THEOREM TypeCorrect == Spec => []TypeOK
<1>1. Spec => []TypeInv
  BY TypeInit, TypeStep, PTL DEF Spec
<1>2. TypeInv => TypeOK
  BY DEF TypeInv
<1>3. QED
  BY <1>1, <1>2, PTL

----------------------------------------------------------------------------
(* The phase always fits the call the coroutine is suspended at.           *)

PhaseInv == TypeInv /\ PhaseFitsAwait

LEMMA FailsWithEffect ==
  ASSUME NEW s \in StateType, NEW error \in AgentError, FailsWith(s, error),
         s.phase \in {"PLANNING", "EXECUTING", "VERIFYING"}
  PROVE  /\ pc' = "idle"
         /\ state'.phase = "FAILED"
         /\ state'.final_answer = s.final_answer
         /\ state'.final_answer_ready = s.final_answer_ready
         /\ state'.final_answer_verified = s.final_answer_verified
         /\ state'.task_completed = s.task_completed
BY DEF FailsWith, Returns, Failed, StateType

LEMMA ReplanOrFailEffect ==
  ASSUME NEW s \in StateType, NEW replans, NEW error \in AgentError,
         ReplanOrFail(s, replans, error),
         s.phase \in {"PLANNING", "EXECUTING", "VERIFYING"}
  PROVE  /\ \/ pc' = "idle" /\ state'.phase = "FAILED"
            \/ pc' = "replanning" /\ state'.phase = "PLANNING"
         /\ state'.final_answer = s.final_answer
         /\ state'.final_answer_ready = s.final_answer_ready
         /\ state'.final_answer_verified = s.final_answer_verified
         /\ state'.task_completed = s.task_completed
<1>1. CASE replans >= MaxReplans
  BY <1>1, FailsWithEffect DEF ReplanOrFail
<1>2. CASE ~(replans >= MaxReplans)
  BY <1>2 DEF ReplanOrFail, Awaiting, MovedTo, StateType
<1>3. QED
  BY <1>1, <1>2

LEMMA ExecutionFailsEffect ==
  ASSUME TypeInv, PhaseFitsAwait,
         NEW error \in ExecErrors, ExecutionFails(error)
  PROVE  /\ state.phase = "EXECUTING"
         /\ \/ pc' = "backoff" /\ state'.phase = "EXECUTING"
            \/ pc' = "idle" /\ state'.phase = "FAILED"
            \/ pc' = "replanning" /\ state'.phase = "PLANNING"
         /\ state'.final_answer = state.final_answer
         /\ state'.final_answer_ready = state.final_answer_ready
         /\ state'.final_answer_verified = state.final_answer_verified
         /\ state'.task_completed = state.task_completed
         /\ UNCHANGED <<run, approved>>
<1>1. /\ error \in AgentError
      /\ state \in StateType
      /\ state.phase = "EXECUTING"
      /\ UNCHANGED <<run, approved>>
  BY EnvironmentAssumption DEF ExecutionFails, TypeInv, TypeOK, PhaseFitsAwait
<1>2. CASE HandleFailure(error, run.current_attempt) = "RETRY"
  BY <1>1, <1>2 DEF ExecutionFails, Awaiting
<1>3. CASE HandleFailure(error, run.current_attempt) = "REPLAN"
  <2>1. ReplanOrFail(state, run.replan_count, error)
    BY <1>3 DEF ExecutionFails
  <2>2. QED
    BY <1>1, <2>1, ReplanOrFailEffect
<1>4. CASE HandleFailure(error, run.current_attempt) \notin {"RETRY", "REPLAN"}
  <2>1. FailsWith(state, error)
    BY <1>4 DEF ExecutionFails
  <2>2. QED
    BY <1>1, <2>1, FailsWithEffect
<1>5. QED
  BY <1>2, <1>3, <1>4

LEMMA AnswerRejectedEffect ==
  ASSUME TypeInv, PhaseFitsAwait, AnswerRejected
  PROVE  /\ state.phase = "VERIFYING"
         /\ \/ /\ pc' = "idle" /\ state'.phase = "FAILED"
               /\ state'.final_answer = state.final_answer
               /\ state'.final_answer_ready = state.final_answer_ready
            \/ /\ \/ pc' = "idle" /\ state'.phase = "FAILED"
                  \/ pc' = "replanning" /\ state'.phase = "PLANNING"
               /\ state'.final_answer = NoAnswer
               /\ state'.final_answer_ready = FALSE
         /\ state'.final_answer_verified = FALSE
         /\ state'.task_completed = state.task_completed
         /\ UNCHANGED approved
<1> DEFINE r == Judged(run, state.final_answer, FALSE)
           s == JudgedState(state, r, FALSE)
           t == [s EXCEPT !.final_answer = NoAnswer, !.final_answer_ready = FALSE]
<1>1. /\ state.final_answer \in Answers
      /\ state \in StateType
      /\ run \in RunType
      /\ state.phase = "VERIFYING"
      /\ UNCHANGED approved
  BY DEF AnswerRejected, TypeInv, TypeOK, PhaseFitsAwait
<1>2. r \in RunType
  BY <1>1, JudgedType
<1>3. /\ s \in StateType
      /\ s.phase = "VERIFYING"
      /\ s.final_answer = state.final_answer
      /\ s.final_answer_ready = state.final_answer_ready
      /\ s.final_answer_verified = FALSE
      /\ s.task_completed = state.task_completed
  BY <1>1, <1>2, JudgedStateType DEF JudgedState, StateType
<1>4. CASE Len(r.verification_history) >= MaxVerificationAttempts
  <2>1. FailsWith(s, VerificationBudgetError)
    BY <1>4 DEF AnswerRejected
  <2>2. QED
    BY <1>1, <1>3, <2>1, ErrorTypes, FailsWithEffect
<1>5. CASE ~(Len(r.verification_history) >= MaxVerificationAttempts)
  <2>1. ReplanOrFail(t, r.replan_count, AnswerRejectedError)
    BY <1>5 DEF AnswerRejected
  <2>2. /\ t \in StateType
        /\ t.phase = "VERIFYING"
        /\ t.final_answer = NoAnswer
        /\ t.final_answer_ready = FALSE
        /\ t.final_answer_verified = FALSE
        /\ t.task_completed = state.task_completed
    BY <1>3 DEF StateType
  <2> HIDE DEF t
  <2>3. QED
    BY <1>1, <2>1, <2>2, ErrorTypes, ReplanOrFailEffect
<1>6. QED
  BY <1>4, <1>5

----------------------------------------------------------------------------
(* The nine ways a step moves the phase and the answer of a state; every   *)
(* action of Orchestration is one of them.                                 *)

ActivePhases == {"PLANNING", "EXECUTING", "VERIFYING"}

SameAnswer ==
  /\ state'.final_answer = state.final_answer
  /\ state'.final_answer_ready = state.final_answer_ready
  /\ state'.final_answer_verified = state.final_answer_verified
  /\ state'.task_completed = state.task_completed
  /\ approved' = approved

Moves(sources, target) == state.phase \in sources /\ state'.phase = target

Stays == state'.phase = state.phase /\ SameAnswer

Starts == Moves({"IDLE"}, "PLANNING") /\ SameAnswer

GetsPlan == Moves({"PLANNING"}, "EXECUTING") /\ SameAnswer

Replans == Moves({"EXECUTING"}, "PLANNING") /\ SameAnswer

Proposes ==
  /\ Moves({"EXECUTING"}, "VERIFYING")
  /\ pc = "executing" /\ pc' = "verifying"
  /\ state'.final_answer \in Answers
  /\ state'.final_answer_verified = state.final_answer_verified
  /\ state'.task_completed = state.task_completed
  /\ approved' = approved

Accepts ==
  /\ Moves({"VERIFYING"}, "COMPLETED")
  /\ state.final_answer \in Answers
  /\ state'.final_answer = state.final_answer
  /\ state'.final_answer_ready /\ state'.final_answer_verified /\ state'.task_completed
  /\ approved' = approved \cup {state.final_answer}

Withdraws ==
  /\ state.phase = "VERIFYING"
  /\ state'.phase \in {"PLANNING", "FAILED"}
  /\ state.final_answer \in Answers
  /\ state'.final_answer = NoAnswer
  /\ ~state'.final_answer_ready /\ ~state'.final_answer_verified
  /\ state'.task_completed = state.task_completed
  /\ approved' = approved

Fails ==
  /\ Moves(ActivePhases, "FAILED")
  /\ state'.final_answer = state.final_answer
  /\ state'.final_answer_verified \in {FALSE, state.final_answer_verified}
  /\ state'.task_completed = state.task_completed
  /\ approved' = approved

Stops == Moves({"IDLE", "FAILED"} \cup ActivePhases, "TERMINATED") /\ SameAnswer

LifecycleStep ==
  Stays \/ Starts \/ GetsPlan \/ Replans \/ Proposes \/ Accepts \/ Withdraws \/ Fails \/ Stops

LEMMA FailsWithIsFails ==
  ASSUME NEW error \in AgentError, FailsWith(state, error), state \in StateType,
         state.phase \in ActivePhases, UNCHANGED approved
  PROVE  Fails
BY FailsWithEffect DEF Fails, Moves, ActivePhases

LEMMA Lifecycle == PhaseInv /\ [Next]_vars => LifecycleStep /\ PhaseFitsAwait'
<1> SUFFICES ASSUME PhaseInv, [Next]_vars PROVE LifecycleStep /\ PhaseFitsAwait'
  OBVIOUS
<1>0. /\ state \in StateType
      /\ run \in RunType
      /\ pc \in Awaits \cup {"idle", "loop"}
  BY DEF PhaseInv, TypeInv, TypeOK
<1> USE DEF PhaseFitsAwait, Awaits
<1>f. ASSUME NEW error \in AgentError, FailsWith(state, error),
             state.phase \in ActivePhases, UNCHANGED approved
      PROVE  LifecycleStep /\ PhaseFitsAwait'
  BY <1>0, <1>f, FailsWithIsFails, FailsWithEffect DEF LifecycleStep, ActivePhases
<1>1. CASE Run
  <2>1. CASE state.phase = "IDLE"
    BY <1>0, <1>1, <2>1 DEF Run, MovedTo, StateType, FreshRun,
       LifecycleStep, Starts, Moves, SameAnswer
  <2>2. CASE state.phase # "IDLE"
    BY <1>1, <2>2 DEF Run, FreshRun, LifecycleStep, Stays, SameAnswer
  <2>3. QED
    BY <2>1, <2>2
<1>2. CASE Cancel
  BY <1>2 DEF Cancel, LifecycleStep, Stays, SameAnswer
<1>3. ASSUME NEW flag \in StopFlags, RaiseStop(flag) PROVE LifecycleStep /\ PhaseFitsAwait'
  BY <1>3 DEF RaiseStop, LifecycleStep, Stays, SameAnswer, PhaseInv
<1>4. CASE LoopEnds
  BY <1>4 DEF LoopEnds, Returns, LifecycleStep, Stays, SameAnswer
<1>5. CASE PolicyTerminates
  <2>1. state.phase \in {"IDLE", "FAILED"} \cup ActivePhases
    BY <1>0, <1>5 DEF PolicyTerminates, StateType, AgentPhase, TerminalPhases, ActivePhases
  <2>2. Stops
    BY <1>0, <1>5, <2>1 DEF PolicyTerminates, MovedTo, StateType, Stops, Moves, SameAnswer
  <2>3. QED
    BY <1>5, <2>2 DEF PolicyTerminates, Returns, LifecycleStep, Stops, Moves
<1>6. CASE StepRefused
  <2>1. Stops
    BY <1>0, <1>6 DEF StepRefused, CountIteration, MovedTo, StateType, Stops, Moves, SameAnswer
  <2>2. QED
    BY <1>6, <2>1 DEF StepRefused, Returns, LifecycleStep, Stops, Moves
<1>7. CASE StepBegins
  <2>1. state.phase \in ActivePhases
    BY <1>0, <1>7 DEF PhaseInv, StepBegins, CountIteration, StateType, AgentPhase,
       TerminalPhases, ActivePhases
  <2>2. /\ Stays
        /\ run'.plan = run.plan
        /\ pc = "loop" /\ pc' = "context"
    BY <1>0, <1>7 DEF StepBegins, CountIteration, StateType, RunType, Awaiting, Stays, SameAnswer
  <2>3. QED
    BY <2>1, <2>2 DEF PhaseInv, LifecycleStep, Stays, ActivePhases
<1>8. CASE StepRaises
  BY <1>8, <1>f, ErrorTypes DEF StepRaises, PhaseInv, ActivePhases
<1>9. CASE PlanRequested
  BY <1>9 DEF PlanRequested, Awaiting, PhaseInv, LifecycleStep, Stays, SameAnswer
<1>10. CASE RepeatedStepFails
  BY <1>10, <1>f, ErrorTypes DEF RepeatedStepFails, PhaseInv, ActivePhases
<1>11. CASE ExecutionStarts
  <2>1. state.phase = "EXECUTING"
    BY <1>11 DEF ExecutionStarts, HasCurrent, PhaseInv
  <2>2. Stays
    BY <1>0, <1>11 DEF ExecutionStarts, StateType, Stays, SameAnswer
  <2>3. QED
    BY <1>11, <2>1, <2>2 DEF ExecutionStarts, Awaiting, LifecycleStep, Stays
<1>12. CASE PlannerGivesUp
  BY <1>12, <1>f, ErrorTypes DEF PlannerGivesUp, PhaseInv, ActivePhases
<1>13. ASSUME NEW plan \in Plans, PlanInstalled(plan) PROVE LifecycleStep /\ PhaseFitsAwait'
  <2>1. GetsPlan
    BY <1>0, <1>13 DEF PlanInstalled, PlanMirrored, StateType, GetsPlan, Moves, SameAnswer
  <2>2. QED
    BY <1>13, <2>1 DEF PlanInstalled, Awaiting, LifecycleStep, GetsPlan, Moves
<1>14. ASSUME NEW plan \in Plans, PlanInstalledOutsidePlanning(plan)
       PROVE  LifecycleStep /\ PhaseFitsAwait'
  BY <1>14, <1>f, ErrorTypes DEF PlanInstalledOutsidePlanning, PhaseInv, ActivePhases
<1>15. ASSUME NEW plan \in Plans, ReplacementInstalled(plan)
       PROVE  LifecycleStep /\ PhaseFitsAwait'
  <2>1. state.phase = "PLANNING"
    BY <1>15 DEF ReplacementInstalled, PhaseInv
  <2>2. GetsPlan
    BY <1>0, <1>15, <2>1 DEF ReplacementInstalled, PlanMirrored, StateType,
       GetsPlan, Moves, SameAnswer
  <2>3. QED
    BY <1>15, <2>2 DEF ReplacementInstalled, Awaiting, LifecycleStep, GetsPlan, Moves
<1>16. CASE StepCompletes
  <2>1. state.phase = "EXECUTING"
    BY <1>16 DEF StepCompletes, PhaseInv
  <2>2. Stays
    BY <1>0, <1>16 DEF StepCompletes, StateType, Stays, SameAnswer
  <2>3. QED
    BY <1>16, <2>1, <2>2 DEF StepCompletes, Awaiting, LifecycleStep, Stays
<1>17. ASSUME NEW answer \in Answers, AnswerProposed(answer)
       PROVE  LifecycleStep /\ PhaseFitsAwait'
  <2>1. state.phase = "EXECUTING"
    BY <1>17 DEF AnswerProposed, PhaseInv
  <2>2. Proposes
    BY <1>0, <1>17, <2>1 DEF AnswerProposed, Awaiting, MovedTo, StateType, Proposes, Moves
  <2>3. QED
    BY <1>17, <2>2 DEF AnswerProposed, Awaiting, LifecycleStep, Proposes, Moves
<1>18. ASSUME NEW error \in ExecErrors, ExecutionBlocked(error)
       PROVE  LifecycleStep /\ PhaseFitsAwait'
  <2>1. Stays /\ state.phase = "EXECUTING"
    BY <1>0, <1>18 DEF ExecutionBlocked, StateType, Stays, SameAnswer, PhaseInv
  <2>2. QED
    BY <1>18, <2>1 DEF ExecutionBlocked, Returns, LifecycleStep, Stays
<1>19. ASSUME NEW error \in ExecErrors, ExecutionFails(error)
       PROVE  LifecycleStep /\ PhaseFitsAwait'
  BY <1>19, ExecutionFailsEffect DEF PhaseInv, LifecycleStep, Stays, Fails, Replans,
     Moves, SameAnswer, ActivePhases
<1>20. CASE BackoffEnds
  BY <1>20 DEF BackoffEnds, Awaiting, PhaseInv, LifecycleStep, Stays, SameAnswer
<1>21. CASE AnswerVerified
  <2>1. state.phase = "VERIFYING" /\ state.final_answer \in Answers
    BY <1>21 DEF AnswerVerified, PhaseInv, TypeInv
  <2>2. run'.final_answer = state.final_answer
    BY <1>0, <1>21 DEF AnswerVerified, Judged, RunType
  <2> DEFINE t == MovedTo(JudgedState(state, run', TRUE), "COMPLETED")
  <2>3. /\ DOMAIN t = DOMAIN state
        /\ t.phase = "COMPLETED"
        /\ t.final_answer_verified = TRUE
    BY <1>0 DEF MovedTo, JudgedState, StateType
  <2>4. state' = [t EXCEPT !.final_answer = run'.final_answer,
                           !.final_answer_ready = TRUE, !.task_completed = TRUE]
    BY <1>21 DEF AnswerVerified
  <2> HIDE DEF t
  <2>5. Accepts
    BY <1>0, <1>21, <2>1, <2>2, <2>3, <2>4 DEF AnswerVerified, StateType, Accepts, Moves
  <2>6. QED
    BY <1>21, <2>5 DEF AnswerVerified, Returns, LifecycleStep, Accepts, Moves
<1>22. CASE AnswerRejected
  <2>1. state.final_answer \in Answers
    BY <1>22 DEF AnswerRejected, PhaseInv, TypeInv
  <2>2. QED
    BY <1>22, <2>1, AnswerRejectedEffect DEF PhaseInv, LifecycleStep, Fails, Withdraws,
       Moves, ActivePhases
<1>23. CASE UNCHANGED vars
  BY <1>23 DEF vars, PhaseInv, LifecycleStep, Stays, SameAnswer
<1>24. QED
  BY <1>1, <1>2, <1>3, <1>4, <1>5, <1>6, <1>7, <1>8, <1>9, <1>10, <1>11, <1>12, <1>13,
     <1>14, <1>15, <1>16, <1>17, <1>18, <1>19, <1>20, <1>21, <1>22, <1>23
  DEF Next, AgentStep, CallerStep

LEMMA PhaseInit == Init => PhaseInv
BY TypeInit DEF Init, PhaseInv, PhaseFitsAwait, FreshState, Awaits

LEMMA PhaseInvariant == Spec => []PhaseInv
<1>1. PhaseInv /\ [Next]_vars => PhaseInv'
  BY TypeStep, Lifecycle DEF PhaseInv
<1>2. QED
  BY PhaseInit, <1>1, PTL DEF Spec

\* Every guarded phase change of the orchestrator finds the phase it expects:
\* a call answers in the phase it was made in.
THEOREM PhaseAlwaysFits == Spec => []PhaseFitsAwait
<1>1. PhaseInv => PhaseFitsAwait
  BY DEF PhaseInv
<1>2. QED
  BY PhaseInvariant, <1>1, PTL

----------------------------------------------------------------------------
(* What a caller reads off the state: verified answers and no stale ones.  *)

AnswerInv == VerifiedAnswerOnly /\ NoStaleCandidate

LEMMA AnswerInit == Init => AnswerInv
BY DEF Init, AnswerInv, VerifiedAnswerOnly, NoStaleCandidate, FreshState

LEMMA AnswerStep == PhaseInv /\ AnswerInv /\ [Next]_vars => AnswerInv'
<1> SUFFICES ASSUME PhaseInv, AnswerInv, [Next]_vars PROVE AnswerInv'
  OBVIOUS
<1>1. LifecycleStep
  BY Lifecycle
<1>2. state \in StateType
  BY DEF PhaseInv, TypeInv, TypeOK
<1> USE DEF AnswerInv, VerifiedAnswerOnly, NoStaleCandidate
<1>3. CASE Stays
  BY <1>3 DEF Stays, SameAnswer
<1>4. CASE Starts \/ GetsPlan \/ Replans
  BY <1>4 DEF Starts, GetsPlan, Replans, Moves, SameAnswer
<1>5. CASE Proposes
  BY <1>5 DEF Proposes, Moves
<1>6. CASE Accepts
  BY <1>6 DEF Accepts, Moves
<1>7. CASE Withdraws
  BY <1>7 DEF Withdraws
<1>8. CASE Fails
  BY <1>8 DEF Fails, Moves, ActivePhases
<1>9. CASE Stops
  BY <1>9 DEF Stops, Moves, SameAnswer, ActivePhases
<1>10. QED
  BY <1>1, <1>3, <1>4, <1>5, <1>6, <1>7, <1>8, <1>9 DEF LifecycleStep

LEMMA AnswerInvariant == Spec => []AnswerInv
BY PhaseInvariant, AnswerInit, AnswerStep, PTL DEF Spec

\* A completed task, a verified flag or a completed flag always comes with an
\* answer that the verifier verified, whatever runs the state went through.
THEOREM AnswersAreVerified == Spec => []VerifiedAnswerOnly
<1>1. AnswerInv => VerifiedAnswerOnly
  BY DEF AnswerInv
<1>2. QED
  BY AnswerInvariant, <1>1, PTL

\* While the task is planned or executed, no rejected or abandoned answer is on
\* the state.
THEOREM CandidatesAreFresh == Spec => []NoStaleCandidate
<1>1. AnswerInv => NoStaleCandidate
  BY DEF AnswerInv
<1>2. QED
  BY AnswerInvariant, <1>1, PTL

----------------------------------------------------------------------------
(* What no step does.                                                      *)

\* The orchestrator and the loop never ask for a phase change that the table
\* of AgentState refuses.
THEOREM TransitionsAreAllowed == Spec => PhasesFollowTable
<1>1. PhaseInv /\ [Next]_vars =>
        [state'.phase # state.phase => state'.phase \in AllowedTransitions[state.phase]]_vars
  <2> SUFFICES ASSUME PhaseInv, [Next]_vars, state'.phase # state.phase
               PROVE  state'.phase \in AllowedTransitions[state.phase]
    OBVIOUS
  <2>1. LifecycleStep
    BY Lifecycle
  <2>2. QED
    BY <2>1 DEF LifecycleStep, Stays, Starts, GetsPlan, Replans, Proposes, Accepts, Withdraws,
       Fails, Stops, Moves, ActivePhases, AllowedTransitions, AgentPhase
<1>2. QED
  BY <1>1, PhaseInvariant, PTL DEF Spec, PhasesFollowTable

\* A completed task keeps its phase and its answer.
THEOREM CompletionIsFinal == Spec => CompletedIsFinal
<1>1. PhaseInv /\ AnswerInv /\ [Next]_vars =>
        [state.phase = "COMPLETED" =>
           /\ state'.phase = "COMPLETED"
           /\ state'.final_answer = state.final_answer
           /\ state'.final_answer_verified]_vars
  <2> SUFFICES ASSUME PhaseInv, AnswerInv, [Next]_vars, state.phase = "COMPLETED"
               PROVE  /\ state'.phase = "COMPLETED"
                      /\ state'.final_answer = state.final_answer
                      /\ state'.final_answer_verified
    OBVIOUS
  <2>1. LifecycleStep
    BY Lifecycle
  <2>2. Stays
    BY <2>1 DEF LifecycleStep, Stays, Starts, GetsPlan, Replans, Proposes, Accepts, Withdraws,
       Fails, Stops, Moves, ActivePhases
  <2>3. QED
    BY <2>2 DEF Stays, SameAnswer, AnswerInv, VerifiedAnswerOnly
<1>2. QED
  BY <1>1, PhaseInvariant, AnswerInvariant, PTL DEF Spec, CompletedIsFinal

\* A failed run is never revived.
THEOREM FailuresStay == Spec => FailureIsFinal
<1>1. PhaseInv /\ [Next]_vars =>
        [state.phase = "FAILED" => state'.phase \in {"FAILED", "TERMINATED"}]_vars
  <2> SUFFICES ASSUME PhaseInv, [Next]_vars, state.phase = "FAILED"
               PROVE  state'.phase \in {"FAILED", "TERMINATED"}
    OBVIOUS
  <2>1. LifecycleStep
    BY Lifecycle
  <2>2. QED
    BY <2>1 DEF LifecycleStep, Stays, Starts, GetsPlan, Replans, Proposes, Accepts, Withdraws,
       Fails, Stops, Moves, ActivePhases
<1>2. QED
  BY <1>1, PhaseInvariant, PTL DEF Spec, FailureIsFinal

----------------------------------------------------------------------------
(* Refinement                                                              *)

LEMMA ContractInit == Init => Contract!Init
BY DEF Init, FreshState, Contract!Init, TaskStatus

LEMMA ContractStep ==
  PhaseInv /\ AnswerInv /\ [Next]_vars => [Contract!Next]_(Contract!contractVars)
<1> SUFFICES ASSUME PhaseInv, AnswerInv, [Next]_vars
             PROVE  Contract!Next \/ UNCHANGED Contract!contractVars
  BY DEF Contract!contractVars
<1>1. LifecycleStep
  BY Lifecycle
<1>2. NoAnswer \notin Answers
  BY EnvironmentAssumption
<1> USE DEF TaskStatus
<1>3. CASE Stays \/ Starts \/ GetsPlan \/ Replans
  BY <1>3 DEF Stays, Starts, GetsPlan, Replans, Moves, SameAnswer, Contract!contractVars
<1>4. CASE Proposes
  <2>1. state.final_answer = NoAnswer
    BY <1>4 DEF Proposes, Moves, AnswerInv, NoStaleCandidate
  <2>2. Contract!Propose(state'.final_answer)
    BY <1>4, <2>1 DEF Proposes, Moves, Contract!Propose
  <2>3. QED
    BY <1>4, <2>2 DEF Proposes, Contract!Next
<1>5. CASE Accepts
  <2>1. Contract!Accept
    BY <1>2, <1>5 DEF Accepts, Moves, Contract!Accept
  <2>2. QED
    BY <2>1 DEF Contract!Next
<1>6. CASE Withdraws
  <2>1. Contract!Withdraw
    BY <1>2, <1>6 DEF Withdraws, Contract!Withdraw
  <2>2. QED
    BY <2>1 DEF Contract!Next
<1>7. CASE Fails
  <2>1. Contract!Fail
    BY <1>7 DEF Fails, Moves, ActivePhases, Contract!Fail
  <2>2. QED
    BY <2>1 DEF Contract!Next
<1>8. CASE Stops
  <2>1. Contract!Stop
    BY <1>8 DEF Stops, Moves, SameAnswer, ActivePhases, Contract!Stop
  <2>2. QED
    BY <2>1 DEF Contract!Next
<1>9. QED
  BY <1>1, <1>3, <1>4, <1>5, <1>6, <1>7, <1>8 DEF LifecycleStep

\* The agent implements the contract of a task: one candidate at a time, judged
\* as proposed; answered, failed and stopped tasks are not reopened.
THEOREM AgentImplementsContract == Spec => ImplementsContract
<1>1. QED
  BY ContractInit, ContractStep, PhaseInvariant, AnswerInvariant, PTL
  DEF Spec, ImplementsContract, Contract!Spec
=============================================================================
