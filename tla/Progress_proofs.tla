--------------------------- MODULE Progress_proofs ---------------------------
(***************************************************************************)
(* Theorems about how far a run of Orchestration gets, for every value of  *)
(* its constants: the progress through its plans, its budgets, the mirror  *)
(* of the context on the state, the loop detector's memory and the work a  *)
(* run can do.                                                             *)
(***************************************************************************)
EXTENDS Orchestration_proofs, SequenceTheorems

----------------------------------------------------------------------------
(* The fourteen ways a step changes the context of a run; every action of  *)
(* Orchestration is one of them.                                           *)

MemoryKept == history' = history /\ done' = done

RunKept == run' = run /\ MemoryKept

\* The fields of the state that mirror the plan of a context.
Mirrors(s, r) ==
  /\ s.plan = r.plan
  /\ s.current_step = r.current_step
  /\ s.completed_steps = r.completed_steps
  /\ s.replan_count = r.replan_count

\* A step that leaves all of them as they are, and the iteration with them.
MirrorKept == Mirrors(state', state) /\ state'.iteration = state.iteration

Waits == UNCHANGED <<state, pc>> /\ RunKept

Halts == pc' = "idle" /\ RunKept

Resets ==
  /\ pc = "idle" /\ pc' = "loop"
  /\ run' = FreshRun /\ history' = <<>> /\ done' = <<>>

Counts ==
  /\ pc = "loop" /\ pc' \in {"context", "idle"}
  /\ pc' = "idle" => run.plan = NoPlan
  /\ stop = {} /\ state.iteration < MaxIterations
  /\ run' = [run EXCEPT !.iteration = @ + 1]
  /\ Mirrors(state', state) /\ state'.iteration = run'.iteration
  /\ MemoryKept

Asks == pc = "context" /\ pc' = "planning" /\ ~HasCurrent(run) /\ RunKept /\ MirrorKept

Installs(plan) ==
  /\ pc = "planning" /\ pc' \in {"loop", "idle"}
  /\ run' = WithPlan(run, plan)
  /\ pc' = "loop" => Mirrors(state', run') /\ state'.iteration = state.iteration
  /\ MemoryKept

Replaces(plan) ==
  /\ pc = "replanning" /\ pc' = "loop"
  /\ run' = [WithPlan(run, plan) EXCEPT !.replan_count = @ + 1, !.current_attempt = 0]
  /\ Mirrors(state', run') /\ state'.iteration = state.iteration
  /\ MemoryKept

Attempts ==
  /\ pc = "context" /\ pc' = "executing"
  /\ HasCurrent(run) /\ ~CurrentRepeats(run)
  /\ run' = [run EXCEPT !.current_attempt = @ + 1]
  /\ MirrorKept /\ MemoryKept

Retries ==
  /\ pc = "executing" /\ pc' = "backoff"
  /\ run.current_attempt < MaxStepAttempts /\ run.current_attempt < RetryMaxAttempts
  /\ RunKept /\ MirrorKept

Resumes == pc = "backoff" /\ pc' = "loop" /\ RunKept /\ MirrorKept

Abandons ==
  /\ pc = "executing" /\ pc' = "replanning"
  /\ run.replan_count < MaxReplans
  /\ RunKept /\ MirrorKept

Advances ==
  /\ pc = "executing" /\ pc' = "loop"
  /\ ~AtFinalStep(run)
  /\ run' = [run EXCEPT !.completed_steps = @ \cup {run.current_step},
                        !.current_step = @ + 1, !.current_attempt = 0]
  /\ CurrentSignature(run) \in Steps
  /\ history' = Recorded(history, CurrentSignature(run))
  /\ done' = Append(done, CurrentSignature(run))
  /\ state'.plan = state.plan /\ state'.replan_count = state.replan_count
  /\ state'.current_step = run'.current_step
  /\ state'.completed_steps = run'.completed_steps
  /\ state'.iteration = state.iteration

Submits ==
  /\ pc = "executing" /\ pc' = "verifying"
  /\ AtFinalStep(run)
  /\ run' = [run EXCEPT !.completed_steps = @ \cup {run.current_step}]
  /\ state'.plan = state.plan /\ state'.replan_count = state.replan_count
  /\ state'.current_step = state.current_step
  /\ state'.completed_steps = run'.completed_steps
  /\ state'.iteration = state.iteration
  /\ MemoryKept

\* The fields of a context that a verdict leaves alone.
ProgressKept ==
  /\ run'.plan = run.plan /\ run'.plan_version = run.plan_version
  /\ run'.current_step = run.current_step /\ run'.completed_steps = run.completed_steps
  /\ run'.replan_count = run.replan_count /\ run'.iteration = run.iteration
  /\ run'.current_attempt = run.current_attempt

Judges ==
  /\ pc = "verifying" /\ pc' \in {"idle", "replanning"}
  /\ Len(run'.verification_history) = Len(run.verification_history) + 1
  /\ pc' = "replanning" =>
       /\ Len(run'.verification_history) < MaxVerificationAttempts
       /\ run.replan_count < MaxReplans
       /\ state'.iteration = state.iteration
  /\ ProgressKept /\ MemoryKept

ProgressStep ==
  \/ Waits \/ Halts \/ Resets \/ Counts \/ Asks
  \/ \E plan \in Plans : Installs(plan) \/ Replaces(plan)
  \/ Attempts \/ Retries \/ Resumes \/ Abandons \/ Advances \/ Submits \/ Judges

LEMMA FailsWithHalts ==
  ASSUME NEW s, NEW error, FailsWith(s, error)
  PROVE  pc' = "idle" /\ result' = "returned"
BY DEF FailsWith, Returns

LEMMA ReplanOrFailProgress ==
  ASSUME NEW s \in StateType, NEW replans, NEW error, ReplanOrFail(s, replans, error),
         replans \in Nat
  PROVE  \/ pc' = "idle"
         \/ /\ pc' = "replanning"
            /\ replans < MaxReplans
            /\ Mirrors(state', s) /\ state'.iteration = s.iteration
<1>1. CASE replans >= MaxReplans
  BY <1>1 DEF ReplanOrFail, FailsWith, Returns
<1>2. CASE ~(replans >= MaxReplans)
  BY <1>2, BudgetAssumption DEF ReplanOrFail, Awaiting, MovedTo, Mirrors, StateType
<1>3. QED
  BY <1>1, <1>2

LEMMA ExecutionFailsProgress ==
  ASSUME TypeInv, NEW error \in ExecErrors, ExecutionFails(error)
  PROVE  Halts \/ Retries \/ Abandons
<1>1. state \in StateType /\ run \in RunType /\ pc = "executing" /\ RunKept
  BY DEF TypeInv, TypeOK, ExecutionFails, RunKept, MemoryKept
<1>2. CASE HandleFailure(error, run.current_attempt) = "RETRY"
  <2>1. run.current_attempt < MaxStepAttempts /\ run.current_attempt < RetryMaxAttempts
    BY <1>2 DEF HandleFailure, ShouldRetry
  <2>2. QED
    BY <1>1, <1>2, <2>1 DEF ExecutionFails, Awaiting, Retries, MirrorKept, Mirrors
<1>3. CASE HandleFailure(error, run.current_attempt) = "REPLAN"
  <2>1. ReplanOrFail(state, run.replan_count, error) /\ run.replan_count \in Nat
    BY <1>1, <1>3 DEF ExecutionFails, RunType
  <2>2. QED
    BY <1>1, <2>1, ReplanOrFailProgress DEF Halts, Abandons, MirrorKept
<1>4. CASE HandleFailure(error, run.current_attempt) \notin {"RETRY", "REPLAN"}
  <2>1. FailsWith(state, error)
    BY <1>4 DEF ExecutionFails
  <2>2. QED
    BY <1>1, <2>1, FailsWithHalts DEF Halts
<1>5. QED
  BY <1>2, <1>3, <1>4

LEMMA VerdictCount ==
  ASSUME NEW r \in RunType
  PROVE  Len(r.verification_history) \in Nat
<1>1. r.verification_history \in Verdicts
  BY DEF RunType
<1>2. QED
  BY <1>1 DEF Verdicts

LEMMA AnswerVerifiedProgress ==
  ASSUME TypeInv, AnswerVerified
  PROVE  Judges
<1> DEFINE r == Judged(run, state.final_answer, TRUE)
<1>1. state.final_answer \in Answers /\ run \in RunType /\ pc = "verifying" /\ pc' = "idle"
  BY DEF TypeInv, TypeOK, AnswerVerified, Returns
<1>2. r \in RunType /\ Len(r.verification_history) = Len(run.verification_history) + 1
  BY <1>1, JudgedType
<1>3. r = [run EXCEPT !.verification_history = r.verification_history]
  BY <1>1 DEF Judged, RunType
<1>4. run' = [r EXCEPT !.final_answer = state.final_answer] /\ MemoryKept
  BY DEF AnswerVerified, MemoryKept
<1> HIDE DEF r
<1>5. QED
  BY <1>1, <1>2, <1>3, <1>4 DEF Judges, ProgressKept, RunType

LEMMA AnswerRejectedProgress ==
  ASSUME TypeInv, AnswerRejected
  PROVE  Judges
<1> DEFINE r == Judged(run, state.final_answer, FALSE)
           s == JudgedState(state, r, FALSE)
           t == [s EXCEPT !.final_answer = NoAnswer, !.final_answer_ready = FALSE]
<1>1. /\ state.final_answer \in Answers /\ state \in StateType /\ run \in RunType
      /\ pc = "verifying" /\ MemoryKept
  BY DEF TypeInv, TypeOK, AnswerRejected, MemoryKept
<1>2. r \in RunType /\ Len(r.verification_history) = Len(run.verification_history) + 1
  BY <1>1, JudgedType
<1>3. /\ r = [run EXCEPT !.verification_history = r.verification_history]
      /\ r.replan_count = run.replan_count /\ r.replan_count \in Nat
  BY <1>1 DEF Judged, RunType
<1>4. s \in StateType /\ Mirrors(s, state) /\ s.iteration = state.iteration
  BY <1>1, <1>2, JudgedStateType DEF JudgedState, StateType, Mirrors
<1>5. t \in StateType /\ Mirrors(t, state) /\ t.iteration = state.iteration
  BY <1>4 DEF StateType, Mirrors
<1>6. Len(r.verification_history) \in Nat
  <2> HIDE DEF r
  <2>1. QED
    BY <1>2, VerdictCount
<1>7. CASE Len(r.verification_history) >= MaxVerificationAttempts
  <2>1. run' = r /\ pc' = "idle"
    BY <1>7, FailsWithHalts DEF AnswerRejected
  <2> HIDE DEF r
  <2>2. QED
    BY <1>1, <1>2, <1>3, <2>1 DEF Judges, ProgressKept, RunType
<1>8. CASE ~(Len(r.verification_history) >= MaxVerificationAttempts)
  <2>1. run' = [r EXCEPT !.final_answer = NoAnswer]
        /\ ReplanOrFail(t, r.replan_count, AnswerRejectedError)
    BY <1>8 DEF AnswerRejected
  <2> HIDE DEF r, s, t
  <2>2. \/ pc' = "idle"
        \/ /\ pc' = "replanning"
           /\ run.replan_count < MaxReplans
           /\ state'.iteration = state.iteration
    BY <1>3, <1>5, <2>1, ReplanOrFailProgress
  <2>3. run'.verification_history = r.verification_history
    BY <1>2, <2>1 DEF RunType
  <2>4. ProgressKept
    BY <1>1, <1>2, <1>3, <2>1 DEF ProgressKept, RunType
  <2>5. QED
    BY <1>1, <1>2, <1>6, <1>8, <2>2, <2>3, <2>4, BudgetAssumption DEF Judges
<1>9. QED
  BY <1>7, <1>8

LEMMA Progress == PhaseInv /\ [Next]_vars => ProgressStep
<1> SUFFICES ASSUME PhaseInv, [Next]_vars PROVE ProgressStep
  OBVIOUS
<1>0. /\ state \in StateType /\ run \in RunType
      /\ pc = "executing" => HasCurrent(run)
      /\ TypeInv
  BY DEF PhaseInv, TypeInv, TypeOK
<1> USE DEF MemoryKept, RunKept
<1>1. CASE Run
  BY <1>1 DEF Run, Resets, ProgressStep
<1>2. CASE Cancel \/ LoopEnds \/ PolicyTerminates
  BY <1>2 DEF Cancel, LoopEnds, PolicyTerminates, Returns, Halts, ProgressStep
<1>3. ASSUME NEW flag \in StopFlags, RaiseStop(flag) PROVE ProgressStep
  BY <1>3 DEF RaiseStop, Waits, ProgressStep
<1>4. ASSUME CountIteration
      PROVE  stop = {} /\ state.iteration < MaxIterations
  <2>1. ~(state.iteration >= MaxIterations) /\ stop \cap StopFlag = {}
    BY <1>4 DEF CountIteration, PolicyReason, StopFlag
  <2>2. QED
    BY <1>0, <2>1, PolicyAssumption DEF StateType, TypeInv, TypeOK
<1>5. state' \in StateType /\ run' \in RunType
  BY <1>0, TypeStep DEF TypeInv, TypeOK
<1>6. CASE StepRefused
  <2>1. run.plan = NoPlan
    BY <1>6 DEF StepRefused, CountIteration, PhaseInv, PhaseFitsAwait
  <2>2. Counts
    BY <1>0, <1>4, <1>5, <1>6, <2>1 DEF StepRefused, CountIteration, Returns, Counts, MovedTo,
       Mirrors, StateType, RunType
  <2>3. QED
    BY <2>2 DEF ProgressStep
<1>7. CASE StepBegins
  <2>1. Counts
    BY <1>0, <1>4, <1>5, <1>7 DEF StepBegins, CountIteration, Awaiting, Counts,
       Mirrors, StateType, RunType
  <2>2. QED
    BY <2>1 DEF ProgressStep
<1>8. CASE StepRaises \/ RepeatedStepFails \/ PlannerGivesUp
  BY <1>8, FailsWithHalts DEF StepRaises, RepeatedStepFails, PlannerGivesUp, Halts, ProgressStep
<1>9. CASE PlanRequested
  BY <1>9 DEF PlanRequested, Awaiting, Asks, MirrorKept, Mirrors, ProgressStep
<1>10. CASE ExecutionStarts
  <2>1. Attempts
    BY <1>0, <1>10 DEF ExecutionStarts, Awaiting, Attempts, MirrorKept, Mirrors, StateType
  <2>2. QED
    BY <2>1 DEF ProgressStep
<1>11. ASSUME NEW plan \in Plans, PlanInstalled(plan) PROVE ProgressStep
  <2>1. Installs(plan)
    BY <1>0, <1>5, <1>11 DEF PlanInstalled, PlanMirrored, Awaiting, Installs, Mirrors, WithPlan,
       StateType, RunType
  <2>2. QED
    BY <2>1 DEF ProgressStep
<1>12. ASSUME NEW plan \in Plans, PlanInstalledOutsidePlanning(plan) PROVE ProgressStep
  <2>1. Installs(plan)
    BY <1>12, FailsWithHalts DEF PlanInstalledOutsidePlanning, Installs
  <2>2. QED
    BY <2>1 DEF ProgressStep
<1>13. ASSUME NEW plan \in Plans, ReplacementInstalled(plan) PROVE ProgressStep
  <2>1. Replaces(plan)
    BY <1>0, <1>5, <1>13 DEF ReplacementInstalled, PlanMirrored, Awaiting, Replaces, Mirrors,
       WithPlan, StateType, RunType
  <2>2. QED
    BY <2>1 DEF ProgressStep
<1>14. CASE StepCompletes
  <2>1. CurrentSignature(run) \in Steps
    BY <1>0, <1>14, SignatureType DEF StepCompletes
  <2>2. Advances
    BY <1>0, <1>14, <2>1 DEF StepCompletes, Awaiting, Advances, StateType
  <2>3. QED
    BY <2>2 DEF ProgressStep
<1>15. ASSUME NEW answer \in Answers, AnswerProposed(answer) PROVE ProgressStep
  <2>1. Submits
    BY <1>0, <1>15 DEF AnswerProposed, MovedTo, Awaiting, Submits, StateType
  <2>2. QED
    BY <2>1 DEF ProgressStep
<1>16. ASSUME NEW error \in ExecErrors, ExecutionBlocked(error) PROVE ProgressStep
  BY <1>16 DEF ExecutionBlocked, Returns, Halts, ProgressStep
<1>17. ASSUME NEW error \in ExecErrors, ExecutionFails(error) PROVE ProgressStep
  BY <1>0, <1>17, ExecutionFailsProgress DEF ProgressStep
<1>18. CASE BackoffEnds
  BY <1>18 DEF BackoffEnds, Awaiting, Resumes, MirrorKept, Mirrors, ProgressStep
<1>19. CASE AnswerVerified \/ AnswerRejected
  BY <1>0, <1>19, AnswerVerifiedProgress, AnswerRejectedProgress DEF ProgressStep
<1>20. CASE UNCHANGED vars
  BY <1>20 DEF vars, Waits, ProgressStep
<1>21. QED
  BY <1>1, <1>2, <1>3, <1>6, <1>7, <1>8, <1>9, <1>10, <1>11, <1>12, <1>13, <1>14,
     <1>15, <1>16, <1>17, <1>18, <1>19, <1>20
  DEF Next, AgentStep, CallerStep
----------------------------------------------------------------------------
(* Progress through the plans of a run, and its budgets.                   *)

\* The version counts the replans because the first plan is only asked for
\* when there is none, and because a plan never runs out of steps.
PlanInv ==
  /\ PlanProgress
  /\ VersionCountsReplans
  /\ run.plan = NoPlan => run.replan_count = 0
  /\ pc = "planning" => run.plan = NoPlan
  /\ pc \in {"executing", "backoff", "verifying", "replanning"} => run.plan # NoPlan

\* Wherever the run can still spend from a budget, something is left in it.
BudgetInv ==
  /\ BudgetsHold
  /\ pc \in {"loop", "context", "planning", "backoff"} =>
       run.current_attempt < MaxStepAttempts /\ run.current_attempt < RetryMaxAttempts
  /\ pc # "idle" => Len(run.verification_history) < MaxVerificationAttempts
  /\ pc = "replanning" => run.replan_count < MaxReplans

\* The plan is mirrored from the moment it is installed, the iteration from the
\* moment the step begins.
MirrorInv ==
  /\ pc \in {"loop", "context", "executing", "backoff", "verifying"} /\ run.plan # NoPlan =>
       Mirrors(state, run)
  /\ pc \in Awaits \/ (pc = "loop" /\ run.plan # NoPlan) => state.iteration = run.iteration

LEMMA PlanType ==
  ASSUME NEW plan \in Plans
  PROVE  plan # NoPlan /\ Len(plan) \in Nat /\ Len(plan) < MaxPlanSteps /\ MaxPlanSteps \in Nat
BY PlansAssumption

LEMMA PlanInit == Init => PlanInv /\ BudgetInv /\ MirrorInv
<1> SUFFICES ASSUME Init PROVE PlanInv /\ BudgetInv /\ MirrorInv
  OBVIOUS
<1>1. run = FreshRun /\ pc = "idle" /\ run.verification_history = <<>> /\ Len(<<>>) = 0
  BY DEF Init, FreshRun
<1>2. QED
  BY <1>1, AttemptsAssumption, BudgetAssumption
  DEF FreshRun, PlanInv, PlanProgress, VersionCountsReplans, BudgetInv, BudgetsHold, MirrorInv, Awaits

LEMMA PlanStep == PhaseInv /\ PlanInv /\ [Next]_vars => PlanInv'
<1> SUFFICES ASSUME PhaseInv, PlanInv, [Next]_vars PROVE PlanInv'
  OBVIOUS
<1>0. /\ run \in RunType /\ run' \in RunType /\ ProgressStep
      /\ pc \in Awaits \cup {"idle", "loop"}
  BY TypeStep, Progress DEF PhaseInv, TypeInv, TypeOK
<1> USE DEF PlanInv, PlanProgress, VersionCountsReplans
<1>1. CASE Waits \/ Halts \/ Retries \/ Resumes \/ Abandons
  BY <1>1 DEF Waits, Halts, Retries, Resumes, Abandons, RunKept, HasCurrent, AtFinalStep
<1>2. CASE Resets
  BY <1>2 DEF Resets, FreshRun
<1>3. CASE Counts
  BY <1>0, <1>3 DEF Counts, RunType, HasCurrent, AtFinalStep
<1>4. CASE Asks
  BY <1>4 DEF Asks, RunKept, HasCurrent, AtFinalStep
<1>5. ASSUME NEW plan \in Plans, Installs(plan) \/ Replaces(plan) PROVE PlanInv'
  <2>1. /\ run'.plan = plan /\ run'.current_step = 0 /\ run'.completed_steps = {}
        /\ run'.plan_version = run.plan_version + 1
        /\ run'.replan_count = IF pc = "planning" THEN run.replan_count ELSE run.replan_count + 1
    BY <1>0, <1>5 DEF Installs, Replaces, WithPlan, RunType
  <2>2. pc \in {"planning", "replanning"} /\ pc' \in {"loop", "idle"}
    BY <1>5 DEF Installs, Replaces
  <2>3. HasCurrent(run)' /\ 0..(0 - 1) = {}
    BY <2>1, PlanType DEF HasCurrent
  <2>4. QED
    BY <1>0, <2>1, <2>2, <2>3, PlanType DEF RunType
<1>6. CASE Attempts
  BY <1>0, <1>6 DEF Attempts, RunType, HasCurrent, AtFinalStep
<1>7. CASE Advances
  <2>1. /\ run'.plan = run.plan /\ run'.current_step = run.current_step + 1
        /\ run'.completed_steps = run.completed_steps \cup {run.current_step}
        /\ run'.plan_version = run.plan_version /\ run'.replan_count = run.replan_count
    BY <1>0, <1>7 DEF Advances, RunType
  <2>2. /\ run.plan \in Plans /\ run.current_step \in 0..(Len(run.plan) - 1)
        /\ run.completed_steps = 0..(run.current_step - 1)
    BY <1>0, <1>7, PlanType DEF Advances, RunType, HasCurrent, AtFinalStep
  <2>3. run'.completed_steps = 0..(run'.current_step - 1) /\ HasCurrent(run)'
    BY <2>1, <2>2, PlanType DEF HasCurrent
  <2>4. QED
    BY <1>7, <2>1, <2>2, <2>3 DEF Advances
<1>8. CASE Submits
  <2>1. /\ run'.plan = run.plan /\ run'.current_step = run.current_step
        /\ run'.completed_steps = run.completed_steps \cup {run.current_step}
        /\ run'.plan_version = run.plan_version /\ run'.replan_count = run.replan_count
    BY <1>0, <1>8 DEF Submits, RunType
  <2>2. run.plan \in Plans /\ run.current_step = Len(run.plan) /\ HasCurrent(run)
    BY <1>0, <1>8, PlanType DEF Submits, RunType, AtFinalStep
  <2>3. run'.completed_steps = 0..run'.current_step /\ HasCurrent(run)' /\ AtFinalStep(run)'
    BY <2>1, <2>2, PlanType DEF HasCurrent, AtFinalStep
  <2>4. QED
    BY <1>8, <2>1, <2>2, <2>3 DEF Submits
<1>9. CASE Judges
  BY <1>0, <1>9 DEF Judges, ProgressKept, HasCurrent, AtFinalStep
<1>10. QED
  BY <1>0, <1>1, <1>2, <1>3, <1>4, <1>5, <1>6, <1>7, <1>8, <1>9 DEF ProgressStep
LEMMA BudgetStep == PhaseInv /\ PlanInv /\ BudgetInv /\ [Next]_vars => BudgetInv'
<1> SUFFICES ASSUME PhaseInv, PlanInv, BudgetInv, [Next]_vars PROVE BudgetInv'
  OBVIOUS
<1>0. /\ run \in RunType /\ run' \in RunType /\ ProgressStep
      /\ Len(run.verification_history) \in Nat
      /\ pc \in Awaits \cup {"idle", "loop"}
  BY TypeStep, Progress, VerdictCount DEF PhaseInv, TypeInv, TypeOK
<1> USE AttemptsAssumption, BudgetAssumption DEF BudgetInv, BudgetsHold
<1>1. CASE Waits \/ Halts \/ Retries \/ Resumes \/ Abandons \/ Asks
  BY <1>1 DEF Waits, Halts, Retries, Resumes, Abandons, Asks, RunKept
<1>2. CASE Resets
  <2>1. run'.verification_history = <<>> /\ Len(<<>>) = 0
    BY <1>2 DEF Resets, FreshRun
  <2>2. QED
    BY <1>2, <2>1 DEF Resets, FreshRun
<1>3. CASE Counts
  BY <1>0, <1>3 DEF Counts, RunType
<1>4. ASSUME NEW plan \in Plans, Installs(plan) PROVE BudgetInv'
  BY <1>0, <1>4 DEF Installs, WithPlan, RunType
<1>5. ASSUME NEW plan \in Plans, Replaces(plan) PROVE BudgetInv'
  BY <1>0, <1>5 DEF Replaces, WithPlan, RunType
<1>6. CASE Attempts
  BY <1>0, <1>6 DEF Attempts, RunType
<1>7. CASE Advances
  BY <1>0, <1>7 DEF Advances, RunType
<1>8. CASE Submits
  BY <1>0, <1>8 DEF Submits, RunType
<1>9. CASE Judges
  BY <1>0, <1>9 DEF Judges, ProgressKept, RunType
<1>10. QED
  BY <1>0, <1>1, <1>2, <1>3, <1>4, <1>5, <1>6, <1>7, <1>8, <1>9 DEF ProgressStep

LEMMA MirrorStep == PhaseInv /\ PlanInv /\ MirrorInv /\ [Next]_vars => MirrorInv'
<1> SUFFICES ASSUME PhaseInv, PlanInv, MirrorInv, [Next]_vars PROVE MirrorInv'
  OBVIOUS
<1>0. /\ run \in RunType /\ run' \in RunType /\ ProgressStep
      /\ pc \in Awaits \cup {"idle", "loop"}
  BY TypeStep, Progress DEF PhaseInv, TypeInv, TypeOK
<1> USE DEF MirrorInv, Mirrors, Awaits
<1>1. CASE Waits \/ Halts
  BY <1>1 DEF Waits, Halts, RunKept
<1>2. CASE Retries \/ Resumes \/ Abandons \/ Asks
  BY <1>2 DEF Retries, Resumes, Abandons, Asks, RunKept, MirrorKept, PlanInv
<1>3. CASE Resets
  BY <1>3 DEF Resets, FreshRun
<1>4. CASE Counts
  BY <1>0, <1>4 DEF Counts, RunType
<1>5. ASSUME NEW plan \in Plans, Installs(plan) \/ Replaces(plan) PROVE MirrorInv'
  <2>1. run'.iteration = run.iteration
    BY <1>0, <1>5 DEF Installs, Replaces, WithPlan, RunType
  <2>2. QED
    BY <1>5, <2>1 DEF Installs, Replaces
<1>6. CASE Attempts
  BY <1>0, <1>6 DEF Attempts, MirrorKept, HasCurrent, RunType
<1>7. CASE Advances
  BY <1>0, <1>7 DEF Advances, RunType, PlanInv
<1>8. CASE Submits
  BY <1>0, <1>8 DEF Submits, RunType, PlanInv
<1>9. CASE Judges
  BY <1>9 DEF Judges, ProgressKept
<1>10. QED
  BY <1>0, <1>1, <1>2, <1>3, <1>4, <1>5, <1>6, <1>7, <1>8, <1>9 DEF ProgressStep

RunInv == PhaseInv /\ PlanInv /\ BudgetInv /\ MirrorInv

LEMMA RunInit == Init => RunInv
BY PhaseInit, PlanInit DEF RunInv

LEMMA RunStep == RunInv /\ [Next]_vars => RunInv'
BY TypeStep, Lifecycle, PlanStep, BudgetStep, MirrorStep DEF RunInv, PhaseInv

LEMMA RunInvariant == Spec => []RunInv
BY RunInit, RunStep, PTL DEF Spec

\* A plan in hand always has a current step, the steps before it are the ones
\* completed, and the planner is asked anew only where a replan is decided.
THEOREM PlansProgressInOrder == Spec => []PlanProgress
<1>1. RunInv => PlanProgress
  BY DEF RunInv, PlanInv
<1>2. QED
  BY RunInvariant, <1>1, PTL

\* One plan version for the first plan and one for each replan, across retries,
\* rejected answers and cancelled runs.
THEOREM VersionsCountReplans == Spec => []VersionCountsReplans
<1>1. RunInv => VersionCountsReplans
  BY DEF RunInv, PlanInv
<1>2. QED
  BY RunInvariant, <1>1, PTL

\* No run exceeds its attempts for a step, its verifications or its replans,
\* whichever of the two limits on attempts is the smaller.
THEOREM BudgetsAreKept == Spec => []BudgetsHold
<1>1. RunInv => BudgetsHold
  BY DEF RunInv, BudgetInv
<1>2. QED
  BY RunInvariant, <1>1, PTL

\* Whenever a step of the plan is in progress, the state that callers read shows
\* the plan, the step, the replans and the iteration of the context.
THEOREM StateShowsRun == Spec => []StateMirrorsRun
<1>1. RunInv => StateMirrorsRun
  BY DEF RunInv, PlanInv, MirrorInv, Mirrors, StateMirrorsRun, Awaits
<1>2. QED
  BY RunInvariant, <1>1, PTL
----------------------------------------------------------------------------
(* The work of a run.                                                      *)

\* The attempts that the plans of a context account for so far: all of those of
\* the replaced plans and of the completed steps, and the counted ones of the
\* current step.
Spent(r) ==
  r.replan_count * (MaxPlanSteps * MaxStepAttempts)
    + r.current_step * MaxStepAttempts + r.current_attempt

\* Every iteration but the first is an attempt that is accounted for, except the
\* one that has begun and not reached its execution; and every executed step
\* took an iteration of its own.
WorkInv ==
  /\ run.iteration <= MaxIterations
  /\ run.plan = NoPlan => run.iteration <= (IF pc = "loop" THEN 0 ELSE 1)
  /\ run.plan # NoPlan /\ pc \in {"loop", "executing", "backoff", "verifying", "replanning"} =>
       run.iteration <= 1 + Spent(run)
  /\ run.plan # NoPlan /\ pc = "context" => run.iteration <= 2 + Spent(run)
  /\ WorkIsBounded
  /\ Len(done) <= run.iteration
  /\ pc \in Awaits => Len(done) < run.iteration

LEMMA ProductOrder ==
  ASSUME NEW a \in Nat, NEW b \in Nat, NEW c \in Nat, a <= b
  PROVE  a * c \in Nat /\ b * c \in Nat /\ a * c <= b * c
OBVIOUS

LEMMA ProductSum ==
  ASSUME NEW a \in Nat, NEW c \in Nat
  PROVE  (a + 1) * c = a * c + c /\ a * c \in Nat
OBVIOUS

\* What is spent is within what the plans so far allow, with an attempt to spare
\* while the attempts of the current step are not used up.
LEMMA SpentBounds ==
  ASSUME NEW r \in RunType, HasCurrent(r), r.current_attempt <= MaxStepAttempts
  PROVE  /\ Spent(r) \in Nat
         /\ r.current_step \in Nat /\ r.current_attempt \in Nat
         /\ Spent(r) <= (r.replan_count + 1) * MaxPlanSteps * MaxStepAttempts
         /\ r.current_attempt < MaxStepAttempts =>
              Spent(r) + 1 <= (r.replan_count + 1) * MaxPlanSteps * MaxStepAttempts
<1>1. /\ r.plan \in Plans /\ Len(r.plan) \in Nat /\ Len(r.plan) < MaxPlanSteps
      /\ r.current_step \in 0..Len(r.plan) /\ r.current_attempt \in Nat
      /\ r.replan_count \in Nat /\ MaxPlanSteps \in Nat /\ MaxStepAttempts \in Nat
  BY PlanType, AttemptsAssumption DEF HasCurrent, RunType
<1> DEFINE work == MaxPlanSteps * MaxStepAttempts
           steps == r.current_step * MaxStepAttempts
           replans == r.replan_count * work
           limit == (r.replan_count + 1) * MaxPlanSteps * MaxStepAttempts
<1>2. work \in Nat
  BY <1>1, ProductSum
<1>3. (r.current_step + 1) * MaxStepAttempts = steps + MaxStepAttempts /\ steps \in Nat
  BY <1>1, ProductSum
<1>4. steps + MaxStepAttempts <= work
  <2>1. r.current_step + 1 \in Nat /\ r.current_step + 1 <= MaxPlanSteps
    BY <1>1
  <2>2. (r.current_step + 1) * MaxStepAttempts <= work
    BY <1>1, <2>1, ProductOrder
  <2>3. QED
    BY <1>3, <2>2
<1>5. (r.replan_count + 1) * work = replans + work /\ replans \in Nat
  BY <1>1, <1>2, ProductSum
<1>6. limit = (r.replan_count + 1) * work
  BY <1>1
<1>7. Spent(r) = replans + steps + r.current_attempt
  BY DEF Spent
<1>8. limit = replans + work
  BY <1>5, <1>6
<1> HIDE DEF work, steps, replans, limit
<1>9. /\ Spent(r) \in Nat
      /\ Spent(r) <= limit
      /\ r.current_attempt < MaxStepAttempts => Spent(r) + 1 <= limit
  BY <1>1, <1>2, <1>3, <1>4, <1>5, <1>7, <1>8
<1> USE DEF limit
<1>10. QED
  BY <1>1, <1>9

LEMMA WorkInit == Init => WorkInv
<1> SUFFICES ASSUME Init PROVE WorkInv
  OBVIOUS
<1>1. run = FreshRun /\ pc = "idle" /\ done = <<>> /\ Len(<<>>) = 0
  BY DEF Init
<1>2. (0 + 1) * MaxPlanSteps * MaxStepAttempts \in Nat
  BY PlansAssumption, AttemptsAssumption, ProductSum
<1>3. QED
  BY <1>1, <1>2, PolicyAssumption DEF FreshRun, WorkInv, WorkIsBounded, Awaits

LEMMA FreshLimit == (0 + 1) * MaxPlanSteps * MaxStepAttempts \in Nat
BY PlansAssumption, AttemptsAssumption, ProductSum

LEMMA WorkStep == RunInv /\ WorkInv /\ [Next]_vars => WorkInv'
<1> SUFFICES ASSUME RunInv, WorkInv, [Next]_vars PROVE WorkInv'
  OBVIOUS
<1>0. /\ run \in RunType /\ run' \in RunType /\ ProgressStep
      /\ pc \in Awaits \cup {"idle", "loop"}
      /\ done \in Seq(Steps) /\ Len(done) \in Nat
      /\ run.iteration \in Nat /\ MaxIterations \in Nat \ {0}
      /\ run.replan_count \in Nat
  BY TypeStep, Progress, PolicyAssumption DEF RunInv, PhaseInv, TypeInv, TypeOK, RunType
<1>1. run.plan # NoPlan =>
        /\ Spent(run) \in Nat
        /\ run.current_step \in Nat /\ run.current_attempt \in Nat
        /\ Spent(run) <= (run.replan_count + 1) * MaxPlanSteps * MaxStepAttempts
        /\ run.current_attempt < MaxStepAttempts =>
             Spent(run) + 1 <= (run.replan_count + 1) * MaxPlanSteps * MaxStepAttempts
  BY <1>0, SpentBounds DEF RunInv, PlanInv, PlanProgress, BudgetInv, BudgetsHold
<1>2. RunInv'
  BY RunStep
<1>3. run'.plan # NoPlan =>
        Spent(run') \in Nat
        /\ Spent(run') <= (run'.replan_count + 1) * MaxPlanSteps * MaxStepAttempts
  BY <1>0, <1>2, SpentBounds DEF RunInv, PlanInv, PlanProgress, BudgetInv, BudgetsHold
<1>4. ASSUME run'.plan = run.plan, run'.replan_count = run.replan_count,
             run'.current_step = run.current_step, run'.current_attempt = run.current_attempt
      PROVE  Spent(run') = Spent(run)
  BY <1>4 DEF Spent
<1> DEFINE limit == (run.replan_count + 1) * MaxPlanSteps * MaxStepAttempts
           limit2 == (run'.replan_count + 1) * MaxPlanSteps * MaxStepAttempts
<1>5. /\ WorkIsBounded <=> run.iteration <= 1 + limit
      /\ WorkIsBounded' <=> run'.iteration <= 1 + limit2
      /\ run'.replan_count = run.replan_count => limit2 = limit
  BY DEF WorkIsBounded
<1>6. limit \in Nat
  <2>1. MaxPlanSteps \in Nat /\ MaxStepAttempts \in Nat
    BY PlansAssumption, AttemptsAssumption
  <2>2. (run.replan_count + 1) * MaxPlanSteps \in Nat
    BY <1>0, <2>1, ProductSum
  <2>3. QED
    BY <2>1, <2>2, ProductSum
<1> HIDE DEF limit, limit2
<1> USE DEF WorkInv
<1>7. CASE Waits
  BY <1>7 DEF Waits, RunKept, MemoryKept, WorkIsBounded
<1>8. CASE Halts
  BY <1>0, <1>4, <1>5, <1>8 DEF Halts, RunKept, MemoryKept, Awaits
<1>9. CASE Resets
  <2>1. done' = <<>> /\ Len(<<>>) = 0 /\ run' = FreshRun
    BY <1>9 DEF Resets
  <2>2. WorkIsBounded'
    BY <2>1, FreshLimit DEF WorkIsBounded, FreshRun
  <2>3. QED
    BY <1>0, <1>9, <2>1, <2>2 DEF Resets, FreshRun, Awaits
<1>10. CASE Counts
  <2>1. /\ run'.plan = run.plan /\ run'.replan_count = run.replan_count
        /\ run'.current_step = run.current_step /\ run'.current_attempt = run.current_attempt
        /\ run'.iteration = run.iteration + 1
    BY <1>0, <1>10 DEF Counts, RunType
  <2>2. pc = "loop" /\ pc' \in {"context", "idle"} /\ (pc' = "idle" => run.plan = NoPlan)
        /\ done' = done
    BY <1>10 DEF Counts, MemoryKept
  <2>3. run'.iteration <= MaxIterations
    <3>1. CASE run.plan = NoPlan
      BY <1>0, <2>1, <2>2, <3>1
    <3>2. CASE run.plan # NoPlan
      <4>1. run.iteration < MaxIterations
        BY <1>10, <2>2, <3>2 DEF RunInv, MirrorInv, Counts
      <4>2. QED
        BY <1>0, <2>1, <4>1
    <3>3. QED
      BY <3>1, <3>2
  <2>4. run.plan # NoPlan => run.current_attempt < MaxStepAttempts
    BY <2>2 DEF RunInv, BudgetInv
  <2>5. WorkIsBounded'
    BY <1>0, <1>1, <1>5, <1>6, <2>1, <2>2, <2>4 DEF limit
  <2>6. QED
    BY <1>0, <1>1, <1>4, <2>1, <2>2, <2>3, <2>5 DEF Awaits
<1>11. CASE Asks
  <2>1. run.plan = NoPlan
    BY <1>11 DEF Asks, RunInv, PlanInv, PlanProgress
  <2>2. QED
    BY <1>5, <1>11, <2>1 DEF Asks, RunKept, MemoryKept, Awaits
<1>12. ASSUME NEW plan \in Plans, Installs(plan) PROVE WorkInv'
  <2>1. /\ run'.plan = plan /\ plan # NoPlan /\ run'.replan_count = run.replan_count
        /\ run'.iteration = run.iteration
        /\ pc = "planning" /\ pc' \in {"loop", "idle"} /\ done' = done
    BY <1>0, <1>12, PlanType DEF Installs, WithPlan, MemoryKept, RunType
  <2>2. run.iteration <= 1
    BY <1>12, <2>1 DEF RunInv, PlanInv
  <2>3. QED
    BY <1>0, <1>3, <1>5, <2>1, <2>2 DEF Awaits
<1>13. ASSUME NEW plan \in Plans, Replaces(plan) PROVE WorkInv'
  <2>1. /\ run'.plan = plan /\ plan # NoPlan /\ run'.replan_count = run.replan_count + 1
        /\ run'.iteration = run.iteration
        /\ run'.current_step = 0 /\ run'.current_attempt = 0
        /\ pc = "replanning" /\ pc' = "loop" /\ done' = done /\ run.plan # NoPlan
    BY <1>0, <1>13, PlanType DEF Replaces, WithPlan, MemoryKept, RunType, RunInv, PlanInv
  <2>2. Spent(run') = limit
    <3>1. MaxPlanSteps \in Nat /\ MaxStepAttempts \in Nat
      BY PlansAssumption, AttemptsAssumption
    <3>2. QED
      BY <1>0, <2>1, <3>1 DEF Spent, limit
  <2>3. Spent(run) <= limit /\ Spent(run) \in Nat
    BY <1>1, <2>1 DEF limit
  <2>4. run'.iteration <= 1 + Spent(run')
    BY <1>0, <1>6, <2>1, <2>2, <2>3
  <2>5. Spent(run') <= limit2 /\ Spent(run') \in Nat
    BY <1>3, <2>1 DEF limit2
  <2>6. limit2 \in Int
    <3>1. MaxPlanSteps \in Nat /\ MaxStepAttempts \in Nat /\ run'.replan_count \in Nat
      BY <1>0, PlansAssumption, AttemptsAssumption DEF RunType
    <3>2. (run'.replan_count + 1) * MaxPlanSteps \in Nat
      BY <3>1, ProductSum
    <3>3. QED
      BY <3>1, <3>2, ProductSum DEF limit2
  <2>7. WorkIsBounded'
    BY <1>0, <1>5, <2>1, <2>4, <2>5, <2>6
  <2>8. QED
    BY <1>0, <2>1, <2>4, <2>7 DEF Awaits
<1>14. CASE Attempts
  <2>1. /\ run'.plan = run.plan /\ run'.replan_count = run.replan_count
        /\ run'.current_step = run.current_step /\ run'.iteration = run.iteration
        /\ run'.current_attempt = run.current_attempt + 1
        /\ pc = "context" /\ pc' = "executing" /\ done' = done /\ run.plan # NoPlan
    BY <1>0, <1>14 DEF Attempts, HasCurrent, MemoryKept, RunType
  <2>2. Spent(run') = Spent(run) + 1
    <3>1. run.replan_count * (MaxPlanSteps * MaxStepAttempts) \in Nat
          /\ run.current_step * MaxStepAttempts \in Nat
      BY <1>0, <1>1, <2>1, PlansAssumption, AttemptsAssumption, ProductSum
    <3>2. QED
      BY <1>1, <2>1, <3>1 DEF Spent
  <2>3. QED
    BY <1>0, <1>1, <1>5, <2>1, <2>2 DEF Awaits
<1>15. CASE Retries \/ Resumes \/ Abandons
  BY <1>5, <1>15 DEF Retries, Resumes, Abandons, RunKept, MemoryKept, Awaits, RunInv, PlanInv
<1>16. CASE Advances
  <2>1. /\ run'.plan = run.plan /\ run'.replan_count = run.replan_count
        /\ run'.current_step = run.current_step + 1 /\ run'.iteration = run.iteration
        /\ run'.current_attempt = 0
        /\ pc = "executing" /\ pc' = "loop" /\ run.plan # NoPlan
    BY <1>0, <1>16 DEF Advances, RunType, RunInv, PlanInv
  <2>2. Len(done') = Len(done) + 1
    BY <1>0, <1>16 DEF Advances
  <2>3. Spent(run) <= Spent(run')
    <3> DEFINE steps == run.current_step * MaxStepAttempts
               replans == run.replan_count * (MaxPlanSteps * MaxStepAttempts)
    <3>1. MaxStepAttempts \in Nat /\ run.current_attempt <= MaxStepAttempts
      BY AttemptsAssumption DEF RunInv, BudgetInv, BudgetsHold
    <3>2. steps \in Nat /\ (run.current_step + 1) * MaxStepAttempts = steps + MaxStepAttempts
      BY <1>1, <2>1, <3>1, ProductSum
    <3>3. replans \in Nat
      BY <1>0, <3>1, PlansAssumption, ProductSum
    <3>4. Spent(run) = replans + steps + run.current_attempt
          /\ Spent(run') = replans + (run.current_step + 1) * MaxStepAttempts + 0
      BY <2>1 DEF Spent
    <3> HIDE DEF steps, replans
    <3>5. Spent(run') = replans + (steps + MaxStepAttempts) + 0
      BY <3>2, <3>4
    <3>6. QED
      BY <1>1, <2>1, <3>1, <3>2, <3>3, <3>4, <3>5
  <2>4. QED
    BY <1>0, <1>1, <1>3, <1>5, <2>1, <2>2, <2>3 DEF Awaits
<1>17. CASE Submits
  <2>1. /\ run'.plan = run.plan /\ run'.replan_count = run.replan_count
        /\ run'.current_step = run.current_step /\ run'.iteration = run.iteration
        /\ run'.current_attempt = run.current_attempt
        /\ pc = "executing" /\ pc' = "verifying" /\ done' = done
    BY <1>0, <1>17 DEF Submits, MemoryKept, RunType
  <2>2. QED
    BY <1>4, <1>5, <2>1 DEF Awaits, RunInv, PlanInv
<1>18. CASE Judges
  BY <1>4, <1>5, <1>18 DEF Judges, ProgressKept, MemoryKept, Awaits, RunInv, PlanInv
<1>19. QED
  BY <1>0, <1>7, <1>8, <1>9, <1>10, <1>11, <1>12, <1>13, <1>14, <1>15, <1>16, <1>17, <1>18
  DEF ProgressStep

LEMMA WorkInvariant == Spec => [](RunInv /\ WorkInv)
BY RunInit, RunStep, WorkInit, WorkStep, PTL DEF Spec

\* A run ends by its own budgets: what it may iterate is decided by the replans
\* it has made, the longest plan and the attempts a step has.
THEOREM WorkStaysBounded == Spec => []WorkIsBounded
<1>1. RunInv /\ WorkInv => WorkIsBounded
  BY DEF WorkInv
<1>2. QED
  BY WorkInvariant, <1>1, PTL

\* The iterations of any run are bounded by the configuration alone, and by the
\* limit of the termination policy as well; every executed step is one of them.
WithinConfiguration ==
  /\ run.iteration <= 1 + (MaxReplans + 1) * MaxPlanSteps * MaxStepAttempts
  /\ run.iteration <= MaxIterations
  /\ Len(done) <= run.iteration

LEMMA WithinLimits == RunInv /\ WorkInv => WithinConfiguration
<1> SUFFICES ASSUME RunInv, WorkInv PROVE WithinConfiguration
  OBVIOUS
<1>1. /\ run.replan_count \in Nat /\ run.iteration \in Nat /\ run.replan_count <= MaxReplans
      /\ MaxReplans \in Nat /\ MaxPlanSteps \in Nat /\ MaxStepAttempts \in Nat
  BY PlansAssumption, AttemptsAssumption, BudgetAssumption
  DEF RunInv, PhaseInv, TypeInv, TypeOK, RunType, BudgetInv, BudgetsHold
<1> DEFINE spent == (run.replan_count + 1) * MaxPlanSteps
           limit == (MaxReplans + 1) * MaxPlanSteps
<1>2. spent \in Nat /\ limit \in Nat /\ spent <= limit
  BY <1>1, ProductOrder
<1> HIDE DEF spent, limit
<1>3. /\ spent * MaxStepAttempts \in Nat /\ limit * MaxStepAttempts \in Nat
      /\ spent * MaxStepAttempts <= limit * MaxStepAttempts
  BY <1>1, <1>2, ProductOrder
<1>4. run.iteration <= 1 + spent * MaxStepAttempts
  BY DEF WorkInv, WorkIsBounded, spent
<1>5. run.iteration <= 1 + limit * MaxStepAttempts
  BY <1>1, <1>3, <1>4
<1>6. QED
  BY <1>5 DEF WorkInv, WithinConfiguration, limit

\* No run outlasts its configuration, however often plans are replaced, steps
\* retried and answers rejected.
THEOREM RunsStayWithinConfiguration == Spec => []WithinConfiguration
BY WorkInvariant, WithinLimits, PTL

----------------------------------------------------------------------------
(* The loop detector's memory.                                             *)

\* The latest executions, oldest first, as many as the detector can hold.
MemoryInv ==
  /\ Len(history) = IF Len(done) <= MaxHistory THEN Len(done) ELSE MaxHistory
  /\ \A i \in 1..Len(history) : history[i] = done[Len(done) - Len(history) + i]

\* What recording a step does to the memory: it is remembered as the latest, and
\* the oldest is forgotten only when there is no room.
LEMMA RecordedElements ==
  ASSUME NEW h \in Seq(Steps), NEW step \in Steps
  PROVE  IF Len(h) < MaxHistory
         THEN /\ Len(Recorded(h, step)) = Len(h) + 1
              /\ \A i \in 1..Len(h) : Recorded(h, step)[i] = h[i]
              /\ Recorded(h, step)[Len(h) + 1] = step
         ELSE /\ Len(Recorded(h, step)) = Len(h)
              /\ \A i \in 1..(Len(h) - 1) : Recorded(h, step)[i] = h[i + 1]
              /\ Recorded(h, step)[Len(h)] = step
<1> DEFINE longer == Append(h, step)
<1>1. /\ longer \in Seq(Steps) /\ Len(longer) = Len(h) + 1 /\ Len(h) \in Nat
      /\ \A i \in 1..Len(h) : longer[i] = h[i]
      /\ longer[Len(h) + 1] = step
  OBVIOUS
<1>2. MaxHistory \in Nat \ {0}
  BY DetectorAssumption
<1>3. CASE Len(h) < MaxHistory
  <2>1. Recorded(h, step) = longer
    BY <1>1, <1>2, <1>3 DEF Recorded
  <2>2. QED
    BY <1>1, <1>3, <2>1
<1>4. CASE ~(Len(h) < MaxHistory)
  <2>1. Recorded(h, step) = Tail(longer)
    BY <1>1, <1>2, <1>4 DEF Recorded
  <2> HIDE DEF longer
  <2>2. longer # <<>>
    <3>1. Len(<<>>) = 0
      OBVIOUS
    <3>2. QED
      BY <1>1, <3>1
  <2>3. /\ Len(Tail(longer)) = Len(longer) - 1
        /\ \A i \in 1..(Len(longer) - 1) : Tail(longer)[i] = longer[i + 1]
    BY <1>1, <2>2
  <2>4. /\ Len(Tail(longer)) = Len(h)
        /\ \A i \in 1..Len(h) : Tail(longer)[i] = longer[i + 1]
    BY <1>1, <2>3
  <2>5. Len(h) \in 1..Len(h) /\ Tail(longer)[Len(h)] = step
    BY <1>1, <1>2, <1>4, <2>4
  <2>6. ASSUME NEW i \in 1..(Len(h) - 1) PROVE Tail(longer)[i] = h[i + 1]
    BY <1>1, <2>4
  <2>7. QED
    BY <1>4, <2>1, <2>4, <2>5, <2>6
<1>5. QED
  BY <1>3, <1>4

LEMMA MemoryInit == Init => MemoryInv
<1>1. Len(<<>>) = 0 /\ MaxHistory \in Nat \ {0}
  BY DetectorAssumption
<1>2. QED
  BY <1>1 DEF Init, MemoryInv

LEMMA MemoryStep == PhaseInv /\ MemoryInv /\ [Next]_vars => MemoryInv'
<1> SUFFICES ASSUME PhaseInv, MemoryInv, [Next]_vars PROVE MemoryInv'
  OBVIOUS
<1>0. /\ ProgressStep
      /\ history \in Seq(Steps) /\ done \in Seq(Steps)
      /\ Len(history) \in Nat /\ Len(done) \in Nat
      /\ MaxHistory \in Nat \ {0}
  BY Progress, DetectorAssumption DEF PhaseInv, TypeInv, TypeOK
<1>1. CASE MemoryKept
  BY <1>1 DEF MemoryKept, MemoryInv
<1>2. CASE Resets
  <2>1. history' = <<>> /\ done' = <<>> /\ Len(<<>>) = 0
    BY <1>2 DEF Resets
  <2>2. QED
    BY <1>0, <2>1 DEF MemoryInv
<1>3. CASE Advances
  <2> DEFINE step == CurrentSignature(run)
  <2>1. step \in Steps /\ history' = Recorded(history, step) /\ done' = Append(done, step)
    BY <1>3 DEF Advances
  <2> HIDE DEF step
  <2>2. /\ Len(done') = Len(done) + 1
        /\ \A i \in 1..Len(done) : done'[i] = done[i]
        /\ done'[Len(done) + 1] = step
    BY <1>0, <2>1
  <2>3. CASE Len(history) < MaxHistory
    <3>1. /\ Len(history') = Len(history) + 1
          /\ \A i \in 1..Len(history) : history'[i] = history[i]
          /\ history'[Len(history) + 1] = step
      BY <1>0, <2>1, <2>3, RecordedElements
    <3>2. Len(history) = Len(done)
      BY <1>0, <2>3 DEF MemoryInv
    <3>3. ASSUME NEW i \in 1..Len(history')
          PROVE  history'[i] = done'[Len(done') - Len(history') + i]
      <4>1. Len(done') - Len(history') + i = i
        BY <1>0, <2>2, <3>1, <3>2
      <4>2. CASE i = Len(done) + 1
        BY <2>2, <3>1, <3>2, <4>1, <4>2
      <4>3. CASE i # Len(done) + 1
        <5>1. i \in 1..Len(history) /\ i \in 1..Len(done) /\ Len(done) - Len(history) + i = i
          BY <1>0, <3>1, <3>2, <4>3
        <5>2. history[i] = done[Len(done) - Len(history) + i]
          BY <5>1 DEF MemoryInv
        <5>3. QED
          BY <2>2, <3>1, <4>1, <5>1, <5>2
      <4>4. QED
        BY <4>2, <4>3
    <3>4. Len(history') = IF Len(done') <= MaxHistory THEN Len(done') ELSE MaxHistory
      BY <1>0, <2>2, <2>3, <3>1, <3>2
    <3>5. QED
      BY <3>3, <3>4 DEF MemoryInv
  <2>4. CASE ~(Len(history) < MaxHistory)
    <3>1. /\ Len(history') = Len(history)
          /\ \A i \in 1..(Len(history) - 1) : history'[i] = history[i + 1]
          /\ history'[Len(history)] = step
      BY <1>0, <2>1, <2>4, RecordedElements
    <3>2. Len(history) = MaxHistory /\ Len(history) <= Len(done)
      BY <1>0, <2>4 DEF MemoryInv
    <3>3. ASSUME NEW i \in 1..Len(history')
          PROVE  history'[i] = done'[Len(done') - Len(history') + i]
      <4>1. CASE i = Len(history)
        BY <1>0, <2>2, <3>1, <4>1
      <4>2. CASE i # Len(history)
        <5>1. i \in 1..(Len(history) - 1) /\ i + 1 \in 1..Len(history)
          BY <1>0, <3>1, <4>2
        <5>2. history'[i] = done[Len(done) - Len(history) + (i + 1)]
          BY <3>1, <5>1 DEF MemoryInv
        <5>3. Len(done) - Len(history) + (i + 1) \in 1..Len(done)
              /\ Len(done') - Len(history') + i = Len(done) - Len(history) + (i + 1)
          BY <1>0, <2>2, <3>1, <3>2, <5>1
        <5>4. QED
          BY <2>2, <5>2, <5>3
      <4>3. QED
        BY <4>1, <4>2
    <3>4. Len(history') = IF Len(done') <= MaxHistory THEN Len(done') ELSE MaxHistory
      BY <1>0, <2>2, <3>1, <3>2
    <3>5. QED
      BY <3>3, <3>4 DEF MemoryInv
  <2>5. QED
    BY <2>3, <2>4
<1>4. QED
  BY <1>0, <1>1, <1>2, <1>3 DEF ProgressStep, Waits, Halts, Counts, Asks, Installs, Replaces,
     Attempts, Retries, Resumes, Abandons, Submits, Judges, RunKept

\* What the detector remembers is the end of what the run has executed.
LEMMA MemoryIsSuffix ==
  ASSUME MemoryInv, history \in Seq(Steps), done \in Seq(Steps)
  PROVE  /\ Len(history) <= Len(done)
         /\ history = SubSeq(done, Len(done) - Len(history) + 1, Len(done))
<1> DEFINE first == Len(done) - Len(history) + 1
           suffix == SubSeq(done, first, Len(done))
<1>1. Len(history) \in Nat /\ Len(done) \in Nat /\ MaxHistory \in Nat \ {0}
  BY DetectorAssumption
<1>2. Len(history) <= Len(done)
  BY <1>1 DEF MemoryInv
<1>3. first \in 1..(Len(done) + 1) /\ Len(done) - first + 1 = Len(history)
  BY <1>1, <1>2
<1> HIDE DEF first
<1>4. \A i \in first..Len(done) : i \in 1..Len(done)
  BY <1>1, <1>3
<1>5. /\ suffix \in Seq(Steps)
      /\ Len(suffix) = IF first <= Len(done) THEN Len(done) - first + 1 ELSE 0
      /\ \A i \in 1..(Len(done) - first + 1) : suffix[i] = done[first + i - 1]
  BY <1>1, <1>3, <1>4, SubSeqProperties
<1> HIDE DEF suffix
<1>6. Len(suffix) = Len(history)
  BY <1>1, <1>3, <1>5
<1>7. ASSUME NEW i \in 1..Len(history) PROVE history[i] = suffix[i]
  <2>1. suffix[i] = done[first + i - 1]
    BY <1>3, <1>5
  <2>2. first + i - 1 = Len(done) - Len(history) + i
    BY <1>1 DEF first
  <2>3. QED
    BY <2>1, <2>2 DEF MemoryInv
<1>8. history = suffix
  BY <1>5, <1>6, <1>7, SeqEqual
<1>9. QED
  BY <1>2, <1>8 DEF suffix, first

\* The step being executed was compared with everything the detector remembers.
NotDetected ==
  pc = "executing" /\ ~AtFinalStep(run) => ~LoopDetected(CurrentSignature(run), history)

LEMMA NotDetectedStep == PhaseInv /\ NotDetected /\ [Next]_vars => NotDetected'
<1> SUFFICES ASSUME PhaseInv, NotDetected, [Next]_vars PROVE NotDetected'
  OBVIOUS
<1>1. ProgressStep /\ run \in RunType
  BY Progress DEF PhaseInv, TypeInv, TypeOK
<1>2. CASE Waits
  BY <1>2 DEF Waits, RunKept, MemoryKept, NotDetected, AtFinalStep, CurrentSignature
<1>3. CASE Attempts
  BY <1>1, <1>3 DEF Attempts, MemoryKept, NotDetected, CurrentRepeats, AtFinalStep,
     CurrentSignature, RunType
<1>4. CASE pc' # "executing"
  BY <1>4 DEF NotDetected
<1>5. QED
  BY <1>1, <1>2, <1>3, <1>4 DEF ProgressStep, Halts, Resets, Counts, Asks, Installs, Replaces,
     Retries, Resumes, Abandons, Advances, Submits, Judges

MemoryInvariants == RunInv /\ WorkInv /\ MemoryInv /\ NotDetected

LEMMA MemoryInvariant == Spec => []MemoryInvariants
<1>1. Init => NotDetected
  BY DEF Init, NotDetected
<1>2. MemoryInvariants /\ [Next]_vars => MemoryInvariants'
  BY RunStep, WorkStep, MemoryStep, NotDetectedStep DEF MemoryInvariants, RunInv
<1>3. QED
  BY RunInit, WorkInit, MemoryInit, <1>1, <1>2, PTL DEF Spec, MemoryInvariants

\* The step being executed is not like any of the latest executions of this run,
\* as many of them as the detector can hold.
RecentStepsNotRepeated ==
  pc = "executing" /\ ~AtFinalStep(run) =>
    \A i \in 1..Len(done) :
      Len(done) - MaxHistory < i => <<CurrentSignature(run), done[i]>> \notin Alike

LEMMA RecentSteps == MemoryInvariants => RecentStepsNotRepeated
<1> SUFFICES ASSUME MemoryInvariants, pc = "executing", ~AtFinalStep(run),
                    NEW i \in 1..Len(done), Len(done) - MaxHistory < i
             PROVE  <<CurrentSignature(run), done[i]>> \notin Alike
  BY DEF RecentStepsNotRepeated
<1>1. Len(done) \in Nat /\ Len(history) \in Nat /\ MaxHistory \in Nat
  BY DetectorAssumption DEF MemoryInvariants, RunInv, PhaseInv, TypeInv, TypeOK
<1> DEFINE k == i - (Len(done) - Len(history))
<1>2. Len(history) = IF Len(done) <= MaxHistory THEN Len(done) ELSE MaxHistory
  BY DEF MemoryInvariants, MemoryInv
<1>3. k \in 1..Len(history) /\ Len(done) - Len(history) + k = i
  <2>1. i \in Nat /\ 1 <= i /\ i <= Len(done)
    BY <1>1
  <2>2. CASE Len(done) <= MaxHistory
    BY <1>1, <1>2, <2>1, <2>2
  <2>3. CASE ~(Len(done) <= MaxHistory)
    BY <1>1, <1>2, <2>1, <2>3
  <2>4. QED
    BY <2>2, <2>3
<1> HIDE DEF k
<1>4. history[k] = done[i]
  BY <1>3 DEF MemoryInvariants, MemoryInv
<1>5. ~LoopDetected(CurrentSignature(run), history)
  BY DEF MemoryInvariants, NotDetected
<1>6. QED
  BY <1>3, <1>4, <1>5 DEF LoopDetected

\* A replan or a retry never executes a step like one that succeeded before, as
\* far back as the loop detector's history reaches.
THEOREM RecentExecutionsDiffer == Spec => []RecentStepsNotRepeated
BY MemoryInvariant, RecentSteps, PTL

\* A history at least as long as the iteration limit (50 and 20 in the agent that
\* main.py builds) forgets nothing a run did.
LEMMA NothingForgotten ==
  ASSUME MaxIterations <= MaxHistory, MemoryInvariants
  PROVE  NoRepeatedExecution
<1> SUFFICES ASSUME pc = "executing" PROVE NoRepeatedExecution
  BY DEF NoRepeatedExecution
<1>1. /\ Len(done) \in Nat /\ run.iteration \in Nat
      /\ MaxHistory \in Nat /\ MaxIterations \in Nat
  BY DetectorAssumption, PolicyAssumption
  DEF MemoryInvariants, RunInv, PhaseInv, TypeInv, TypeOK, RunType
<1>2. Len(done) < run.iteration /\ run.iteration <= MaxIterations
  BY DEF MemoryInvariants, WorkInv, Awaits
<1>3. \A i \in 1..Len(done) : Len(done) - MaxHistory < i
  BY <1>1, <1>2
<1>4. QED
  BY <1>3, RecentSteps DEF RecentStepsNotRepeated, NoRepeatedExecution

\* No step that succeeded in a run, nor one like it, is executed again in it.
THEOREM NoStepIsRepeated == MaxIterations <= MaxHistory => (Spec => []NoRepeatedExecution)
<1> SUFFICES ASSUME MaxIterations <= MaxHistory PROVE Spec => []NoRepeatedExecution
  OBVIOUS
<1>1. MemoryInvariants => NoRepeatedExecution
  BY NothingForgotten
<1>2. QED
  BY MemoryInvariant, <1>1, PTL

----------------------------------------------------------------------------
(* How a run ends.                                                         *)

\* Once a stop is requested no further iteration begins, in this run or in a
\* later one of the same state.
THEOREM StopsAreHonoured == Spec => StopIsHonoured
<1>1. PhaseInv /\ [Next]_vars => [stop # {} => run'.iteration <= run.iteration]_vars
  <2> SUFFICES ASSUME PhaseInv, [Next]_vars, stop # {}
               PROVE  run'.iteration <= run.iteration
    OBVIOUS
  <2>1. ProgressStep /\ run \in RunType /\ run.iteration \in Nat
    BY Progress DEF PhaseInv, TypeInv, TypeOK, RunType
  <2>2. CASE Resets
    BY <2>1, <2>2 DEF Resets, FreshRun
  <2>3. ASSUME NEW plan \in Plans, Installs(plan) \/ Replaces(plan)
        PROVE  run'.iteration <= run.iteration
    <3>1. run'.iteration = run.iteration
      BY <2>1, <2>3 DEF Installs, Replaces, WithPlan, RunType
    <3>2. QED
      BY <2>1, <3>1
  <2>4. CASE Attempts \/ Advances \/ Submits \/ Judges
    <3>1. run'.iteration = run.iteration
      BY <2>1, <2>4 DEF Attempts, Advances, Submits, Judges, ProgressKept, RunType
    <3>2. QED
      BY <2>1, <3>1
  <2>5. CASE Waits \/ Halts \/ Asks \/ Retries \/ Resumes \/ Abandons
    BY <2>1, <2>5 DEF Waits, Halts, Asks, Retries, Resumes, Abandons, RunKept
  <2>6. CASE Counts
    BY <2>6 DEF Counts
  <2>7. QED
    BY <2>1, <2>2, <2>3, <2>4, <2>5, <2>6 DEF ProgressStep
<1>2. QED
  BY <1>1, PhaseInvariant, PTL DEF Spec, StopIsHonoured

\* Unless the state is past deciding, it has verifications left: the last one
\* that is permitted completes the task or fails it for good.
VerificationsLeft ==
  \/ state.phase \in {"COMPLETED", "TERMINATED"}
  \/ state.phase = "FAILED" /\ state.fatal_error
  \/ state.verification_attempts < MaxVerificationAttempts

\* What the orchestrator permits, the termination policy permits as well: both
\* limits are 2 in the agent that main.py builds.
PolicyAllowsBudget == MaxVerificationAttempts <= PolicyVerificationAttempts

OutcomeInv ==
  /\ VerificationsLeft
  /\ ReturnIsDecided
  /\ PolicyAllowsBudget => PolicyNeverJudgesAnswers

LEMMA FailsWithOutcome ==
  ASSUME NEW s \in StateType, NEW error \in AgentError, FailsWith(s, error),
         s.phase \in ActivePhases
  PROVE  /\ state'.phase = "FAILED"
         /\ state'.fatal_error = IsFatal(error)
         /\ state'.verification_attempts = s.verification_attempts
         /\ state'.termination_reason = s.termination_reason
BY DEF FailsWith, Failed, ActivePhases, StateType

LEMMA ReplanOrFailOutcome ==
  ASSUME NEW s \in StateType, NEW replans, NEW error \in AgentError,
         ReplanOrFail(s, replans, error), s.phase \in ActivePhases
  PROVE  /\ pc' # "idle" \/ state'.phase = "FAILED"
         /\ state'.verification_attempts = s.verification_attempts
         /\ state'.termination_reason = s.termination_reason
<1>1. CASE replans >= MaxReplans
  <2>1. FailsWith(s, error)
    BY <1>1 DEF ReplanOrFail
  <2>2. QED
    BY <2>1, FailsWithOutcome
<1>2. CASE ~(replans >= MaxReplans)
  BY <1>2 DEF ReplanOrFail, Awaiting, MovedTo, StateType
<1>3. QED
  BY <1>1, <1>2

\* The two rules of the policy about answers need an answer that is ready on a
\* state that is not terminal: it is not verified, and has verifications left.
LEMMA PolicyReasonHere ==
  ASSUME TypeInv, AnswerInv, VerificationsLeft, PolicyAllowsBudget,
         state.phase \notin TerminalPhases
  PROVE  PolicyReason(state, stop) \notin {"completed", "answer_unverified_budget"}
<1>1. ~(state.final_answer_ready /\ state.final_answer_verified)
  BY DEF AnswerInv, VerifiedAnswerOnly, TerminalPhases
<1>2. state.fatal_error \/ ~(state.verification_attempts >= PolicyVerificationAttempts)
  BY BudgetAssumption, PolicyAssumption
  DEF VerificationsLeft, TerminalPhases, PolicyAllowsBudget, TypeInv, TypeOK, StateType
<1>3. QED
  BY <1>1, <1>2 DEF PolicyReason

LEMMA OutcomeInit == Init => OutcomeInv
BY BudgetAssumption
DEF Init, FreshState, OutcomeInv, VerificationsLeft, ReturnIsDecided, PolicyNeverJudgesAnswers

LEMMA OutcomeStep == PhaseInv /\ AnswerInv /\ OutcomeInv /\ [Next]_vars => OutcomeInv'
<1> SUFFICES ASSUME PhaseInv, AnswerInv, OutcomeInv, [Next]_vars PROVE OutcomeInv'
  OBVIOUS
<1>0. TypeInv /\ PhaseFitsAwait /\ state \in StateType /\ run \in RunType
  BY DEF PhaseInv, TypeInv, TypeOK
<1>1. /\ VerificationsLeft
      /\ ReturnIsDecided
      /\ PolicyAllowsBudget => PolicyNeverJudgesAnswers
  BY DEF OutcomeInv
\* A step that leaves the verdicts and the reason alone, and decides or goes on.
<1>k. ASSUME state'.verification_attempts = state.verification_attempts,
             state'.termination_reason = state.termination_reason,
             state.phase \notin {"COMPLETED", "TERMINATED", "FAILED"},
             pc' = "idle" /\ result' = "returned" =>
               \/ state'.phase = "FAILED"
               \/ state'.phase = "EXECUTING" /\ state'.blocked
      PROVE  OutcomeInv'
  BY <1>1, <1>k DEF OutcomeInv, VerificationsLeft, ReturnIsDecided, PolicyNeverJudgesAnswers
<1>f. ASSUME NEW error \in AgentError, FailsWith(state, error), state.phase \in ActivePhases
      PROVE  OutcomeInv'
  BY <1>0, <1>f, <1>k, FailsWithOutcome DEF ActivePhases
<1> USE DEF Awaits
<1>2. CASE Run
  <2>1. /\ state'.verification_attempts = state.verification_attempts
        /\ state'.termination_reason = state.termination_reason
        /\ state'.fatal_error = state.fatal_error
        /\ state'.phase = IF state.phase = "IDLE" THEN "PLANNING" ELSE state.phase
        /\ pc' = "loop"
    BY <1>0, <1>2 DEF Run, MovedTo, StateType
  <2>2. QED
    BY <1>1, <2>1 DEF OutcomeInv, VerificationsLeft, ReturnIsDecided, PolicyNeverJudgesAnswers
<1>3. CASE Cancel
  BY <1>1, <1>3
  DEF Cancel, OutcomeInv, VerificationsLeft, ReturnIsDecided, PolicyNeverJudgesAnswers
<1>4. ASSUME NEW flag \in StopFlags, RaiseStop(flag) PROVE OutcomeInv'
  BY <1>1, <1>4
  DEF RaiseStop, OutcomeInv, VerificationsLeft, ReturnIsDecided, PolicyNeverJudgesAnswers
<1>5. CASE LoopEnds
  BY <1>1, <1>5 DEF LoopEnds, Returns, TerminalPhases, OutcomeInv, VerificationsLeft,
     ReturnIsDecided, PolicyNeverJudgesAnswers
<1>6. CASE PolicyTerminates
  <2>1. /\ state'.phase = "TERMINATED"
        /\ state'.termination_reason = PolicyReason(state, stop)
        /\ state.phase \notin TerminalPhases
    BY <1>0, <1>6 DEF PolicyTerminates, MovedTo, StateType
  <2>2. PolicyAllowsBudget =>
          PolicyReason(state, stop) \notin {"completed", "answer_unverified_budget"}
    BY <1>0, <1>1, <2>1, PolicyReasonHere
  <2>3. QED
    BY <2>1, <2>2 DEF OutcomeInv, VerificationsLeft, ReturnIsDecided, PolicyNeverJudgesAnswers,
       PolicyAllowsBudget
<1>7. CASE StepRefused
  <2>1. state'.phase = "TERMINATED" /\ state'.termination_reason = "failed"
    BY <1>0, <1>7 DEF StepRefused, MovedTo, StateType
  <2>2. QED
    BY <2>1 DEF OutcomeInv, VerificationsLeft, ReturnIsDecided, PolicyNeverJudgesAnswers
<1>8. CASE StepBegins
  BY <1>0, <1>k, <1>8 DEF StepBegins, CountIteration, Awaiting, TerminalPhases, StateType
<1>9. CASE StepRaises
  BY <1>0, <1>f, <1>9, ErrorTypes DEF StepRaises, PhaseFitsAwait, ActivePhases
<1>10. CASE RepeatedStepFails
  BY <1>0, <1>f, <1>10, ErrorTypes DEF RepeatedStepFails, PhaseFitsAwait, ActivePhases
<1>11. CASE PlannerGivesUp
  BY <1>0, <1>f, <1>11, ErrorTypes DEF PlannerGivesUp, PhaseFitsAwait, ActivePhases
<1>12. CASE PlanRequested \/ BackoffEnds
  BY <1>0, <1>k, <1>12 DEF PlanRequested, BackoffEnds, Awaiting, PhaseFitsAwait
<1>13. CASE ExecutionStarts
  BY <1>0, <1>k, <1>13 DEF ExecutionStarts, Awaiting, PhaseFitsAwait, StateType
<1>14. ASSUME NEW plan \in Plans, PlanInstalled(plan) \/ ReplacementInstalled(plan)
       PROVE  OutcomeInv'
  BY <1>0, <1>k, <1>14 DEF PlanInstalled, ReplacementInstalled, PlanMirrored, Awaiting,
     PhaseFitsAwait, StateType
<1>15. ASSUME NEW plan \in Plans, PlanInstalledOutsidePlanning(plan) PROVE OutcomeInv'
  BY <1>0, <1>f, <1>15, ErrorTypes
  DEF PlanInstalledOutsidePlanning, PhaseFitsAwait, ActivePhases
<1>16. CASE StepCompletes
  BY <1>0, <1>k, <1>16 DEF StepCompletes, Awaiting, PhaseFitsAwait, StateType
<1>17. ASSUME NEW answer \in Answers, AnswerProposed(answer) PROVE OutcomeInv'
  BY <1>0, <1>k, <1>17 DEF AnswerProposed, MovedTo, Awaiting, PhaseFitsAwait, StateType
<1>18. ASSUME NEW error \in ExecErrors, ExecutionBlocked(error) PROVE OutcomeInv'
  BY <1>0, <1>k, <1>18 DEF ExecutionBlocked, PhaseFitsAwait, StateType
<1>19. ASSUME NEW error \in ExecErrors, ExecutionFails(error) PROVE OutcomeInv'
  <2>1. error \in AgentError /\ state.phase = "EXECUTING" /\ pc = "executing"
    BY <1>0, <1>19, EnvironmentAssumption DEF ExecutionFails, PhaseFitsAwait
  <2>2. CASE HandleFailure(error, run.current_attempt) = "RETRY"
    BY <1>k, <1>19, <2>1, <2>2 DEF ExecutionFails, Awaiting
  <2>3. CASE HandleFailure(error, run.current_attempt) = "REPLAN"
    <3>1. ReplanOrFail(state, run.replan_count, error)
      BY <1>19, <2>3 DEF ExecutionFails
    <3>2. QED
      BY <1>0, <1>k, <2>1, <3>1, ReplanOrFailOutcome DEF ActivePhases
  <2>4. CASE HandleFailure(error, run.current_attempt) \notin {"RETRY", "REPLAN"}
    <3>1. FailsWith(state, error)
      BY <1>19, <2>4 DEF ExecutionFails
    <3>2. QED
      BY <1>f, <2>1, <3>1 DEF ActivePhases
  <2>5. QED
    BY <2>2, <2>3, <2>4
<1>20. CASE AnswerVerified
  <2>1. state'.phase = "COMPLETED" /\ state'.termination_reason = state.termination_reason
    <3> DEFINE t == MovedTo(JudgedState(state, run', TRUE), "COMPLETED")
    <3>1. /\ DOMAIN t = DOMAIN state
          /\ t.phase = "COMPLETED" /\ t.termination_reason = state.termination_reason
      BY <1>0 DEF MovedTo, JudgedState, StateType
    <3>2. state' = [t EXCEPT !.final_answer = run'.final_answer,
                             !.final_answer_ready = TRUE, !.task_completed = TRUE]
      BY <1>20 DEF AnswerVerified
    <3> HIDE DEF t
    <3>3. QED
      BY <1>0, <3>1, <3>2 DEF StateType
  <2>2. QED
    BY <1>1, <2>1 DEF OutcomeInv, VerificationsLeft, ReturnIsDecided, PolicyNeverJudgesAnswers
<1>21. CASE AnswerRejected
  <2> DEFINE r == Judged(run, state.final_answer, FALSE)
             s == JudgedState(state, r, FALSE)
             t == [s EXCEPT !.final_answer = NoAnswer, !.final_answer_ready = FALSE]
  <2>1. state.final_answer \in Answers /\ state.phase = "VERIFYING"
    BY <1>0, <1>21 DEF AnswerRejected, TypeInv, PhaseFitsAwait
  <2>2. r \in RunType
    BY <1>0, <2>1, JudgedType
  <2>3. /\ s \in StateType /\ s.phase \in ActivePhases
        /\ s.verification_attempts = Len(r.verification_history)
        /\ s.termination_reason = state.termination_reason
    BY <1>0, <2>1, <2>2, JudgedStateType DEF JudgedState, StateType, ActivePhases
  <2>4. /\ t \in StateType /\ t.phase \in ActivePhases
        /\ t.verification_attempts = Len(r.verification_history)
        /\ t.termination_reason = state.termination_reason
    BY <2>3 DEF StateType
  <2>5. CASE Len(r.verification_history) >= MaxVerificationAttempts
    <3>1. FailsWith(s, VerificationBudgetError)
      BY <1>21, <2>5 DEF AnswerRejected
    <3>2. IsFatal(VerificationBudgetError)
      BY DEF IsFatal, VerificationBudgetError
    <3> HIDE DEF r, s, t
    <3>3. /\ state'.phase = "FAILED" /\ state'.fatal_error
          /\ state'.termination_reason = state.termination_reason
      BY <2>3, <3>1, <3>2, ErrorTypes, FailsWithOutcome
    <3>4. QED
      BY <1>1, <3>3 DEF OutcomeInv, VerificationsLeft, ReturnIsDecided, PolicyNeverJudgesAnswers
  <2>6. CASE ~(Len(r.verification_history) >= MaxVerificationAttempts)
    <3>1. ReplanOrFail(t, r.replan_count, AnswerRejectedError)
      BY <1>21, <2>6 DEF AnswerRejected
    <3> HIDE DEF r, s, t
    <3>2. Len(r.verification_history) < MaxVerificationAttempts
      BY <2>2, <2>6, VerdictCount, BudgetAssumption
    <3>3. /\ pc' # "idle" \/ state'.phase = "FAILED"
          /\ state'.verification_attempts < MaxVerificationAttempts
          /\ state'.termination_reason = state.termination_reason
      BY <2>4, <3>1, <3>2, ErrorTypes, ReplanOrFailOutcome
    <3>4. QED
      BY <1>1, <3>3 DEF OutcomeInv, VerificationsLeft, ReturnIsDecided, PolicyNeverJudgesAnswers
  <2>7. QED
    BY <2>5, <2>6
<1>22. CASE UNCHANGED vars
  BY <1>1, <1>22
  DEF vars, OutcomeInv, VerificationsLeft, ReturnIsDecided, PolicyNeverJudgesAnswers
<1>23. QED
  BY <1>2, <1>3, <1>4, <1>5, <1>6, <1>7, <1>8, <1>9, <1>10, <1>11, <1>12, <1>13, <1>14,
     <1>15, <1>16, <1>17, <1>18, <1>19, <1>20, <1>21, <1>22
  DEF Next, AgentStep, CallerStep

LEMMA OutcomeInvariant == Spec => []OutcomeInv
BY PhaseInvariant, AnswerInvariant, OutcomeInit, OutcomeStep, PTL DEF Spec

\* A run that returns has decided the task, or waits for an approval in the
\* middle of an execution; it never just stops.
THEOREM ReturnsAreDecided == Spec => []ReturnIsDecided
<1>1. OutcomeInv => ReturnIsDecided
  BY DEF OutcomeInv
<1>2. QED
  BY OutcomeInvariant, <1>1, PTL

\* When the termination policy permits as many verifications as the orchestrator
\* does, its rules about answers never end a run, be the state fresh, resumed or
\* left with a candidate by a cancellation.
THEOREM OrchestratorJudgesAnswers ==
  PolicyAllowsBudget => (Spec => []PolicyNeverJudgesAnswers)
<1> SUFFICES ASSUME PolicyAllowsBudget PROVE Spec => []PolicyNeverJudgesAnswers
  OBVIOUS
<1>1. OutcomeInv => PolicyNeverJudgesAnswers
  BY DEF OutcomeInv
<1>2. QED
  BY OutcomeInvariant, <1>1, PTL

----------------------------------------------------------------------------
(* Why a run ends: what is left of it shrinks with every step of the agent *)

\* The steps that an iteration may still take from where the coroutine is.
StepsAhead ==
  [idle |-> 0, loop |-> 1, planning |-> 2, backoff |-> 2, replanning |-> 2,
   verifying |-> 3, executing |-> 4, context |-> 5]

\* No iteration takes more than five steps.
StepsLeft == (MaxIterations - run.iteration) * 5 + StepsAhead[pc]

LEMMA AgentMoves == AgentStep => pc # "idle" /\ pc' # pc
<1> SUFFICES ASSUME AgentStep PROVE pc # "idle" /\ pc' # pc
  OBVIOUS
<1> USE DEF Awaits, Awaiting, Returns
<1>1. CASE LoopEnds \/ PolicyTerminates \/ StepRefused \/ StepBegins
  BY <1>1 DEF LoopEnds, PolicyTerminates, StepRefused, StepBegins, CountIteration
<1>2. CASE StepRaises \/ RepeatedStepFails \/ PlannerGivesUp
  BY <1>2, FailsWithHalts DEF StepRaises, RepeatedStepFails, PlannerGivesUp
<1>3. CASE PlanRequested \/ ExecutionStarts \/ StepCompletes \/ BackoffEnds
  BY <1>3 DEF PlanRequested, ExecutionStarts, StepCompletes, BackoffEnds
<1>4. ASSUME NEW plan \in Plans,
             \/ PlanInstalled(plan)
             \/ PlanInstalledOutsidePlanning(plan)
             \/ ReplacementInstalled(plan)
      PROVE  pc # "idle" /\ pc' # pc
  BY <1>4, FailsWithHalts DEF PlanInstalled, PlanInstalledOutsidePlanning, ReplacementInstalled
<1>5. ASSUME NEW answer \in Answers, AnswerProposed(answer) PROVE pc # "idle" /\ pc' # pc
  BY <1>5 DEF AnswerProposed
<1>6. ASSUME NEW s, NEW replans, NEW error, ReplanOrFail(s, replans, error)
      PROVE  pc' \in {"idle", "replanning"}
  BY <1>6, FailsWithHalts DEF ReplanOrFail
<1>7. ASSUME NEW error \in ExecErrors, ExecutionBlocked(error) \/ ExecutionFails(error)
      PROVE  pc # "idle" /\ pc' # pc
  BY <1>6, <1>7, FailsWithHalts DEF ExecutionBlocked, ExecutionFails
<1>8. CASE AnswerVerified \/ AnswerRejected
  BY <1>6, <1>8, FailsWithHalts DEF AnswerVerified, AnswerRejected
<1>9. QED
  BY <1>1, <1>2, <1>3, <1>4, <1>5, <1>7, <1>8 DEF AgentStep

LEMMA StepsLeftType == TypeInv /\ run.iteration <= MaxIterations => StepsLeft \in Nat
BY PolicyAssumption DEF StepsLeft, StepsAhead, TypeInv, TypeOK, RunType, Awaits

\* Whatever does not start a run uses up steps or leaves them as they are.
LEMMA StepsLeftFall ==
  ASSUME PhaseInv, WorkInv, ProgressStep, pc # "idle"
  PROVE  /\ StepsLeft' <= StepsLeft
         /\ pc' # pc => StepsLeft' < StepsLeft
<1>1. /\ run.iteration \in Nat /\ run.iteration <= MaxIterations /\ MaxIterations \in Nat
      /\ pc \in Awaits \cup {"idle", "loop"}
  BY PolicyAssumption DEF PhaseInv, TypeInv, TypeOK, RunType, WorkInv
<1> DEFINE left(r, p) == (MaxIterations - r.iteration) * 5 + StepsAhead[p]
<1>2. StepsLeft = left(run, pc) /\ StepsLeft' = left(run', pc')
  BY DEF StepsLeft
\* A step within an iteration.
<1>3. ASSUME run'.iteration = run.iteration, pc' = pc \/ StepsAhead[pc'] < StepsAhead[pc],
             pc' \in Awaits \cup {"idle", "loop"}
      PROVE  /\ StepsLeft' <= StepsLeft
             /\ pc' # pc => StepsLeft' < StepsLeft
  BY <1>1, <1>2, <1>3 DEF StepsAhead, Awaits
<1>4. CASE Waits \/ Halts \/ Asks \/ Retries \/ Resumes \/ Abandons
  <2>1. run' = run
    BY <1>4 DEF Waits, Halts, Asks, Retries, Resumes, Abandons, RunKept
  <2>2. /\ pc' = pc \/ StepsAhead[pc'] < StepsAhead[pc]
        /\ pc' \in Awaits \cup {"idle", "loop"}
    BY <1>1, <1>4 DEF Waits, Halts, Asks, Retries, Resumes, Abandons, StepsAhead, Awaits
  <2>3. QED
    BY <1>3, <2>1, <2>2
<1>5. CASE Attempts \/ Advances \/ Submits \/ Judges
  <2>1. run'.iteration = run.iteration
    BY <1>5 DEF Attempts, Advances, Submits, Judges, ProgressKept, PhaseInv, TypeInv, TypeOK, RunType
  <2>2. StepsAhead[pc'] < StepsAhead[pc] /\ pc' \in Awaits \cup {"idle", "loop"}
    BY <1>5 DEF Attempts, Advances, Submits, Judges, StepsAhead, Awaits
  <2>3. QED
    BY <1>3, <2>1, <2>2
<1>6. ASSUME NEW plan \in Plans, Installs(plan) \/ Replaces(plan)
      PROVE  StepsLeft' <= StepsLeft /\ StepsLeft' < StepsLeft
  <2>1. run'.iteration = run.iteration
    BY <1>6 DEF Installs, Replaces, WithPlan, PhaseInv, TypeInv, TypeOK, RunType
  <2>2. StepsAhead[pc'] < StepsAhead[pc] /\ pc' \in Awaits \cup {"idle", "loop"} /\ pc' # pc
    BY <1>6 DEF Installs, Replaces, StepsAhead, Awaits
  <2>3. QED
    BY <1>3, <2>1, <2>2
\* The next iteration: its five steps are one fewer than what it takes away.
<1>7. CASE Counts
  <2>1. run'.iteration = run.iteration + 1 /\ StepsAhead[pc] = 1 /\ StepsAhead[pc'] \in {0, 5}
    BY <1>7 DEF Counts, StepsAhead, PhaseInv, TypeInv, TypeOK, RunType
  <2>2. QED
    BY <1>1, <1>2, <2>1
<1>8. ~Resets
  BY DEF Resets
<1>9. QED
  BY <1>4, <1>5, <1>6, <1>7, <1>8 DEF ProgressStep

LEMMA StepsLeftSpent ==
  /\ RunInv /\ WorkInv /\ [Next]_vars =>
       /\ AgentStep => StepsLeft' < StepsLeft
       /\ ~Run => StepsLeft' <= StepsLeft
  /\ RunInv /\ WorkInv => StepsLeft \in 0..(MaxIterations * 5 + 1)
<1>1. ASSUME RunInv, WorkInv, [Next]_vars
      PROVE  /\ AgentStep => StepsLeft' < StepsLeft
             /\ ~Run => StepsLeft' <= StepsLeft
  <2>1. PhaseInv /\ ProgressStep
    BY <1>1, Progress DEF RunInv
  <2>2. AgentStep => StepsLeft' < StepsLeft
    BY <1>1, <2>1, AgentMoves, StepsLeftFall
  <2>3. CASE pc # "idle"
    BY <1>1, <2>1, <2>2, <2>3, StepsLeftFall
  <2>4. CASE pc = "idle" /\ ~Run
    <3>1. UNCHANGED <<run, pc>>
      BY <1>1, <2>4, AgentMoves DEF Next, CallerStep, Cancel, Awaits, RaiseStop, vars
    <3>2. StepsLeft' = StepsLeft /\ StepsLeft \in Int
      BY <1>1, <3>1, StepsLeftType DEF StepsLeft, RunInv, PhaseInv, WorkInv
    <3>3. QED
      BY <2>2, <3>2
  <2>5. QED
    BY <2>2, <2>3, <2>4
<1>2. ASSUME RunInv, WorkInv
      PROVE  StepsLeft \in 0..(MaxIterations * 5 + 1)
  <2>1. /\ run.iteration \in Nat /\ run.iteration <= MaxIterations /\ MaxIterations \in Nat
        /\ pc \in Awaits \cup {"idle", "loop"} /\ Len(done) \in Nat
        /\ pc \in Awaits => Len(done) < run.iteration
    BY <1>2, PolicyAssumption DEF RunInv, PhaseInv, TypeInv, TypeOK, RunType, WorkInv
  <2>2. CASE pc \in Awaits
    <3>1. 1 <= run.iteration /\ StepsAhead[pc] \in 0..5
      BY <2>1, <2>2 DEF StepsAhead, Awaits
    <3>2. QED
      BY <2>1, <3>1 DEF StepsLeft
  <2>3. CASE pc \in {"idle", "loop"}
    BY <2>1, <2>3 DEF StepsLeft, StepsAhead
  <2>4. QED
    BY <2>1, <2>2, <2>3
<1>3. QED
  BY <1>1, <1>2

\* Every action of the agent leaves fewer steps to take, and nobody but a caller
\* that runs the state again gives it more: a run is over after at most five
\* steps for each iteration it may make and one more, if its calls answer.
THEOREM RunsUseUpSteps ==
  Spec => /\ [](StepsLeft \in 0..(MaxIterations * 5 + 1))
          /\ [][AgentStep => StepsLeft' < StepsLeft]_vars
          /\ [][~Run => StepsLeft' <= StepsLeft]_vars
<1>1. RunInv /\ WorkInv => StepsLeft \in 0..(MaxIterations * 5 + 1)
  BY StepsLeftSpent
<1>2. RunInv /\ WorkInv /\ [Next]_vars => [AgentStep => StepsLeft' < StepsLeft]_vars
  BY StepsLeftSpent
<1>3. RunInv /\ WorkInv /\ [Next]_vars => [~Run => StepsLeft' <= StepsLeft]_vars
  BY StepsLeftSpent
<1>4. QED
  BY <1>1, <1>2, <1>3, WorkInvariant, PTL DEF Spec
=============================================================================
