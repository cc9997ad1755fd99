--------------------------- MODULE Orchestration ---------------------------
(***************************************************************************)
(* One AgentState driven by AgentLoop.run_agent and Orchestrator.step.     *)
(*                                                                         *)
(* The code is one asyncio coroutine: what it does between two awaits is   *)
(* atomic, and at an await the rest of the program runs.  pc is the await  *)
(* the coroutine is suspended at, "loop" when it is about to take another  *)
(* turn of the agent loop (nothing else can run there), and "idle" when no *)
(* run is in progress.  What an awaited component answers is the           *)
(* environment's choice: any plan the planner accepts, any error an        *)
(* execution can return, any verdict.  At every await the caller may       *)
(* cancel the run (asyncio.wait_for in the evaluator), and afterwards it   *)
(* may run the same state again.                                           *)
(***************************************************************************)
EXTENDS Integers, Reliability, AgentPhases, LoopDetector

CONSTANTS
  Plans,          \* plans the planner returns: their steps before the final one
  NoPlan,         \* run.plan_runtime.plan is None
  Answers,        \* texts the final step produces, the answer marker removed
  NoAnswer,       \* final_answer is None
  ExecErrors,     \* errors an execution returns
  StopFlags,      \* stop requests the embedding program raises
  MaxVerificationAttempts,  \* OrchestratorConfig.max_verification_attempts
  MaxReplans,               \* OrchestratorConfig.max_replans
  MaxPlanSteps,             \* Planner.MAX_PLAN_STEPS, the final step included
  MaxRuns                   \* bound: how often the state is handed to run()

ASSUME PlansAssumption ==
  /\ MaxPlanSteps \in Nat
  /\ \A p \in Plans :
       p \in Seq(Steps) /\ Len(p) < MaxPlanSteps /\ ~PlanRepeats(p)
  /\ NoPlan \notin Plans

ASSUME EnvironmentAssumption ==
  /\ NoAnswer \notin Answers
  /\ ExecErrors \subseteq AgentError
  /\ StopFlags \subseteq StopFlag

ASSUME BudgetAssumption ==
  /\ MaxVerificationAttempts \in Nat \ {0}
  /\ MaxReplans \in Nat
  /\ MaxRuns \in Nat

VARIABLES
  state,     \* AgentState, the fields that decide anything
  run,       \* OrchestrationContext and its PlanRuntime
  history,   \* LoopDetector._history
  pc,        \* where the coroutine is suspended
  result,    \* how the latest run_agent call ended
  stop,      \* stop flags raised on the state so far
  runs,      \* number of run_agent calls accepted so far
  approved,  \* history variable: answers the verifier verified
  done       \* history variable: steps of this run that succeeded, in order

vars == <<state, run, history, pc, result, stop, runs, approved, done>>

Awaits == {"context", "planning", "executing", "backoff", "verifying", "replanning"}

NoStep == -1    \* current_step is None

FreshState ==
  [phase |-> "IDLE", fatal_error |-> FALSE, termination_reason |-> "none",
   plan |-> NoPlan, current_step |-> NoStep, completed_steps |-> {},
   replan_count |-> 0, iteration |-> 0, blocked |-> FALSE,
   final_answer |-> NoAnswer, final_answer_ready |-> FALSE,
   final_answer_verified |-> FALSE, verification_attempts |-> 0,
   task_completed |-> FALSE]

FreshRun ==
  [plan |-> NoPlan, plan_version |-> 0, current_step |-> NoStep,
   completed_steps |-> {}, replan_count |-> 0, iteration |-> 0,
   current_attempt |-> 0, final_answer |-> NoAnswer, verification_history |-> <<>>]

Init ==
  /\ state = FreshState
  /\ run = FreshRun
  /\ history = <<>>
  /\ pc = "idle"
  /\ result = "none"
  /\ stop = {}
  /\ runs = 0
  /\ approved = {}
  /\ done = <<>>

----------------------------------------------------------------------------
(* Helpers                                                                 *)

\* PlanRuntime.current(): step ids count from 0, the final step comes last.
HasCurrent(r) ==
  r.plan # NoPlan /\ r.current_step \in 0..Len(r.plan)

AtFinalStep(r) == r.current_step = Len(r.plan)

CurrentSignature(r) == r.plan[r.current_step + 1]

\* The detector exempts the final step.
CurrentRepeats(r) == ~AtFinalStep(r) /\ LoopDetected(CurrentSignature(r), history)

\* AgentState.transition, for a target the table allows; properties state that
\* no other target is ever asked for.
MovedTo(s, phase) == [s EXCEPT !.phase = phase]

\* Mutant: only a fatal error fails the state.
FailedIfFatal(s, error) ==
  [s EXCEPT !.fatal_error = IsFatal(error),
            !.phase = IF IsFatal(error) THEN "FAILED" ELSE @]

\* Orchestrator._fail
Failed(s, error) ==
  [s EXCEPT
     !.fatal_error = IsFatal(error),
     !.phase = IF @ \in {"COMPLETED", "TERMINATED", "FAILED"} THEN @ ELSE "FAILED"]

\* Mutant: the progress of the replaced plan is kept.
WithPlanKeepingProgress(r, plan) ==
  [r EXCEPT !.plan = plan, !.plan_version = @ + 1, !.current_step = 0]

\* PlanRuntime.set_plan with reset_progress
WithPlan(r, plan) ==
  [r EXCEPT !.plan = plan, !.plan_version = @ + 1,
            !.current_step = 0, !.completed_steps = {}]

\* Mutant: the completed steps on the state are not cleared.
PlanMirroredKeepingSteps(s, r) ==
  [s EXCEPT !.plan = r.plan, !.current_step = r.current_step,
            !.replan_count = r.replan_count, !.phase = "EXECUTING"]

\* The part of Orchestrator._install_planning_result that follows the phase check.
PlanMirrored(s, r) ==
  [s EXCEPT !.plan = r.plan, !.current_step = r.current_step,
            !.completed_steps = {}, !.replan_count = r.replan_count,
            !.phase = "EXECUTING"]

\* run_agent returns: its finally block unbinds the state.
Returns ==
  /\ pc' = "idle"
  /\ result' = "returned"

\* The step ended in FAIL: the loop stops, and finds the state failed already.
FailsWith(s, error) ==
  /\ state' = Failed(s, error)
  /\ Returns

\* Suspend at the next await.
Awaiting(place) ==
  /\ pc' = place
  /\ UNCHANGED result

----------------------------------------------------------------------------
(* The caller                                                              *)

\* Mutant: any state that is not terminated is planned anew.
RunReplansAnyState ==
  /\ pc = "idle"
  /\ runs < MaxRuns
  /\ state.phase # "TERMINATED"
  /\ state' = MovedTo(state, "PLANNING")
  /\ run' = FreshRun
  /\ history' = <<>>
  /\ done' = <<>>
  /\ runs' = runs + 1
  /\ pc' = "loop"
  /\ result' = "none"
  /\ UNCHANGED <<stop, approved>>

\* Mutant: the loop detector is not reset.
RunWithoutReset ==
  /\ pc = "idle"
  /\ runs < MaxRuns
  /\ state.phase # "TERMINATED"
  /\ state' = IF state.phase = "IDLE" THEN MovedTo(state, "PLANNING") ELSE state
  /\ run' = FreshRun
  /\ done' = <<>>
  /\ runs' = runs + 1
  /\ pc' = "loop"
  /\ result' = "none"
  /\ UNCHANGED <<history, stop, approved>>

\* AgentLoop.run and Orchestrator.start.  A terminated state is refused; any
\* other starts a new context and clears the loop detector.
Run ==
  /\ pc = "idle"
  /\ runs < MaxRuns
  /\ state.phase # "TERMINATED"
  /\ state' = IF state.phase = "IDLE" THEN MovedTo(state, "PLANNING") ELSE state
  /\ run' = FreshRun
  /\ history' = <<>>
  /\ done' = <<>>
  /\ runs' = runs + 1
  /\ pc' = "loop"
  /\ result' = "none"
  /\ UNCHANGED <<stop, approved>>

\* CancelledError is raised at the await: no handler of the step catches it,
\* only the finally block of the loop runs.
Cancel ==
  /\ pc \in Awaits
  /\ pc' = "idle"
  /\ result' = "cancelled"
  /\ UNCHANGED <<state, run, history, stop, runs, approved, done>>

\* The embedding program sets human_aborted, explicit_stop or timed_out.
RaiseStop(flag) ==
  /\ pc \in Awaits \cup {"idle"}
  /\ flag \notin stop
  /\ stop' = stop \cup {flag}
  /\ UNCHANGED <<state, run, history, pc, result, runs, approved, done>>

----------------------------------------------------------------------------
(* A turn of the agent loop                                                *)

\* The state is terminal: the loop ends.
LoopEnds ==
  /\ pc = "loop"
  /\ state.phase \in TerminalPhases
  /\ Returns
  /\ UNCHANGED <<state, run, history, stop, runs, approved, done>>

\* The termination policy stops the loop (_terminate_from_policy).
PolicyTerminates ==
  /\ pc = "loop"
  /\ state.phase \notin TerminalPhases
  /\ PolicyReason(state, stop) # "none"
  /\ state' = [MovedTo(state, "TERMINATED")
                 EXCEPT !.termination_reason = PolicyReason(state, stop)]
  /\ Returns
  /\ UNCHANGED <<run, history, stop, runs, approved, done>>

\* The first statements of Orchestrator.step.
CountIteration ==
  /\ pc = "loop"
  /\ state.phase \notin TerminalPhases
  /\ PolicyReason(state, stop) = "none"
  /\ run' = [run EXCEPT !.iteration = @ + 1]
  /\ UNCHANGED <<history, stop, runs, approved, done>>

\* A failed state takes no step: the outcome TERMINATE ends the run.
StepRefused ==
  /\ CountIteration
  /\ state.phase = "FAILED"
  /\ state' = [MovedTo(state, "TERMINATED")
                 EXCEPT !.iteration = run'.iteration, !.termination_reason = "failed"]
  /\ Returns

StepBegins ==
  /\ CountIteration
  /\ state.phase # "FAILED"
  /\ state' = [state EXCEPT !.iteration = run'.iteration]
  /\ Awaiting("context")

----------------------------------------------------------------------------
(* The context is built; the step plans or executes                        *)

\* An exception of the context builder, the planner or the verifier reaches the
\* handler of Orchestrator.step: an internal error, which is fatal.
StepRaises ==
  /\ pc \in {"context", "planning", "replanning", "verifying"}
  /\ FailsWith(state, InternalError)
  /\ UNCHANGED <<run, history, stop, runs, approved, done>>

\* No plan, or no current step left in it: ask the planner.
PlanRequested ==
  /\ pc = "context"
  /\ ~HasCurrent(run)
  /\ Awaiting("planning")
  /\ UNCHANGED <<state, run, history, stop, runs, approved, done>>

\* The head of Orchestrator._execute: a repeated step fails the run ...
RepeatedStepFails ==
  /\ pc = "context"
  /\ HasCurrent(run)
  /\ CurrentRepeats(run)
  /\ FailsWith(state, LoopError)
  /\ UNCHANGED <<run, history, stop, runs, approved, done>>

\* Mutant: the attempt is not counted.
ExecutionStartsUncounted ==
  /\ pc = "context"
  /\ HasCurrent(run)
  /\ ~CurrentRepeats(run)
  /\ state' = [state EXCEPT !.blocked = FALSE]
  /\ Awaiting("executing")
  /\ UNCHANGED <<run, history, stop, runs, approved, done>>

\* ... any other one is handed to AgentExecution.
ExecutionStarts ==
  /\ pc = "context"
  /\ HasCurrent(run)
  /\ ~CurrentRepeats(run)
  /\ run' = [run EXCEPT !.current_attempt = @ + 1]
  /\ state' = [state EXCEPT !.blocked = FALSE]
  /\ Awaiting("executing")
  /\ UNCHANGED <<history, stop, runs, approved, done>>

----------------------------------------------------------------------------
(* The planner answers                                                     *)

\* PlannerRecoveryRequired: the run fails, but not fatally.
PlannerGivesUp ==
  /\ pc \in {"planning", "replanning"}
  /\ FailsWith(state, PlannerError)
  /\ UNCHANGED <<run, history, stop, runs, approved, done>>

PlanInstalled(plan) ==
  /\ pc = "planning"
  /\ state.phase = "PLANNING"
  /\ run' = WithPlan(run, plan)
  /\ state' = PlanMirrored(state, run')
  /\ Awaiting("loop")
  /\ UNCHANGED <<history, stop, runs, approved, done>>

\* The context already holds the plan when the phase is checked: the state of a
\* run that was blocked or cancelled while executing or verifying fails here.
PlanInstalledOutsidePlanning(plan) ==
  /\ pc = "planning"
  /\ state.phase # "PLANNING"
  /\ run' = WithPlan(run, plan)
  /\ FailsWith(state, OutsidePlanningError)
  /\ UNCHANGED <<history, stop, runs, approved, done>>

\* Mutant: the replacement does not count as a replan.
ReplacementUncounted(plan) ==
  /\ pc = "replanning"
  /\ run' = [WithPlan(run, plan) EXCEPT !.current_attempt = 0]
  /\ state' = PlanMirrored(state, run')
  /\ Awaiting("loop")
  /\ UNCHANGED <<history, stop, runs, approved, done>>

\* The end of Orchestrator._replan.
ReplacementInstalled(plan) ==
  /\ pc = "replanning"
  /\ run' = [WithPlan(run, plan) EXCEPT !.replan_count = @ + 1, !.current_attempt = 0]
  /\ state' = [PlanMirrored(state, run') EXCEPT !.replan_count = run'.replan_count]
  /\ Awaiting("loop")
  /\ UNCHANGED <<history, stop, runs, approved, done>>

\* Mutant: one replan too many.
ReplanOnceMore(s, replans, error) ==
  IF replans > MaxReplans
  THEN FailsWith(s, error)
  ELSE /\ state' = MovedTo(s, "PLANNING")
       /\ Awaiting("replanning")

\* Mutant: the phase is left alone.
ReplanInPhase(s, replans, error) ==
  IF replans >= MaxReplans
  THEN FailsWith(s, error)
  ELSE state' = s /\ Awaiting("replanning")

\* The head of Orchestrator._replan, entered with the error that caused it.
ReplanOrFail(s, replans, error) ==
  IF replans >= MaxReplans
  THEN FailsWith(s, error)
  ELSE /\ state' = MovedTo(s, "PLANNING")
       /\ Awaiting("replanning")

----------------------------------------------------------------------------
(* The execution answers                                                   *)

\* A step before the final one succeeded: remember it and advance.
StepCompletes ==
  /\ pc = "executing"
  /\ ~AtFinalStep(run)
  /\ history' = Recorded(history, CurrentSignature(run))
  /\ done' = Append(done, CurrentSignature(run))
  /\ run' = [run EXCEPT !.completed_steps = @ \cup {run.current_step},
                        !.current_step = @ + 1, !.current_attempt = 0]
  /\ state' = [state EXCEPT !.completed_steps = run'.completed_steps,
                            !.current_step = run'.current_step]
  /\ Awaiting("loop")
  /\ UNCHANGED <<stop, runs, approved>>

\* Mutant: verification starts without leaving EXECUTING.
AnswerProposedWhileExecuting(answer) ==
  /\ pc = "executing"
  /\ AtFinalStep(run)
  /\ run' = [run EXCEPT !.completed_steps = @ \cup {run.current_step}]
  /\ state' = [state EXCEPT !.completed_steps = run'.completed_steps,
                            !.final_answer = answer, !.final_answer_ready = TRUE]
  /\ Awaiting("verifying")
  /\ UNCHANGED <<history, stop, runs, approved, done>>

\* The final step succeeded: its answer is a candidate, exposed on the state and
\* marked ready before the verifier is asked.
AnswerProposed(answer) ==
  /\ pc = "executing"
  /\ AtFinalStep(run)
  /\ run' = [run EXCEPT !.completed_steps = @ \cup {run.current_step}]
  /\ state' = [MovedTo(state, "VERIFYING")
                 EXCEPT !.completed_steps = run'.completed_steps,
                        !.final_answer = answer, !.final_answer_ready = TRUE]
  /\ Awaiting("verifying")
  /\ UNCHANGED <<history, stop, runs, approved, done>>

\* Approval is missing: the loop stops and the phase stays EXECUTING.
ExecutionBlocked(error) ==
  /\ pc = "executing"
  /\ error.category = "APPROVAL_BLOCKED"
  /\ state' = [state EXCEPT !.blocked = TRUE]
  /\ Returns
  /\ UNCHANGED <<run, history, stop, runs, approved, done>>

\* Orchestrator._handle_failure on what the reliability engine decides.
ExecutionFails(error) ==
  /\ pc = "executing"
  /\ error.category # "APPROVAL_BLOCKED"
  /\ CASE HandleFailure(error, run.current_attempt) = "RETRY" ->
            Awaiting("backoff") /\ UNCHANGED state
       [] HandleFailure(error, run.current_attempt) = "REPLAN" ->
            ReplanOrFail(state, run.replan_count, error)
       [] OTHER -> FailsWith(state, error)
  /\ UNCHANGED <<run, history, stop, runs, approved, done>>

\* Mutant: the retry is made in place, outside the budgets of the loop.
RetryInPlace ==
  /\ pc = "backoff"
  /\ Awaiting("executing")
  /\ UNCHANGED <<state, run, history, stop, runs, approved, done>>

\* The delay is over: the outcome RETRY goes back to the loop.
BackoffEnds ==
  /\ pc = "backoff"
  /\ Awaiting("loop")
  /\ UNCHANGED <<state, run, history, stop, runs, approved, done>>

----------------------------------------------------------------------------
(* The verifier answers                                                    *)

\* record_verification, and its two mirrors on the state
Judged(r, answer, verdict) ==
  [r EXCEPT !.verification_history = Append(@, [answer |-> answer, verified |-> verdict])]

\* Mutant: the flag says that the answer was judged, not how.
JudgedStateAlways(s, r, verdict) ==
  [s EXCEPT !.verification_attempts = Len(r.verification_history),
            !.final_answer_verified = r.verification_history # <<>>]

JudgedState(s, r, verdict) ==
  [s EXCEPT !.verification_attempts = Len(r.verification_history),
            !.final_answer_verified = verdict]

\* Mutant: the answer judged is the one the context holds, not the candidate.
ContextAnswerVerified ==
  /\ pc = "verifying"
  /\ run' = Judged(run, run.final_answer, TRUE)
  /\ state' = [MovedTo(JudgedState(state, run', TRUE), "COMPLETED")
                 EXCEPT !.final_answer = run'.final_answer,
                        !.final_answer_ready = TRUE, !.task_completed = TRUE]
  /\ approved' = approved \cup {state.final_answer}
  /\ Returns
  /\ UNCHANGED <<history, stop, runs, done>>

\* VERIFIED completes the run; AgentLoop._complete copies the run to the state.
AnswerVerified ==
  /\ pc = "verifying"
  /\ run' = [Judged(run, state.final_answer, TRUE) EXCEPT !.final_answer = state.final_answer]
  /\ state' = [MovedTo(JudgedState(state, run', TRUE), "COMPLETED")
                 EXCEPT !.final_answer = run'.final_answer,
                        !.final_answer_ready = TRUE, !.task_completed = TRUE]
  /\ approved' = approved \cup {state.final_answer}
  /\ Returns
  /\ UNCHANGED <<history, stop, runs, done>>

\* Mutant: a rejected answer is not withdrawn before the replan.
AnswerRejectedAndKept ==
  /\ pc = "verifying"
  /\ LET r == Judged(run, state.final_answer, FALSE)
         s == JudgedState(state, r, FALSE)
     IN  /\ run' = r
         /\ IF Len(r.verification_history) >= MaxVerificationAttempts
            THEN FailsWith(s, VerificationBudgetError)
            ELSE ReplanOrFail(s, r.replan_count, AnswerRejectedError)
  /\ UNCHANGED <<history, stop, runs, approved, done>>

\* Any other status: the last permitted attempt fails the run and leaves the
\* answer on the state, an earlier one withdraws the answer and replans.
AnswerRejected ==
  /\ pc = "verifying"
  /\ LET r == Judged(run, state.final_answer, FALSE)
         s == JudgedState(state, r, FALSE)
     IN  IF Len(r.verification_history) >= MaxVerificationAttempts
         THEN /\ run' = r
              /\ FailsWith(s, VerificationBudgetError)
         ELSE /\ run' = [r EXCEPT !.final_answer = NoAnswer]
              /\ ReplanOrFail([s EXCEPT !.final_answer = NoAnswer,
                                        !.final_answer_ready = FALSE],
                              r.replan_count, AnswerRejectedError)
  /\ UNCHANGED <<history, stop, runs, approved, done>>

----------------------------------------------------------------------------
\* What the agent does by itself, once the call it awaits answers.
AgentStep ==
  \/ LoopEnds
  \/ PolicyTerminates
  \/ StepRefused
  \/ StepBegins
  \/ StepRaises
  \/ PlanRequested
  \/ RepeatedStepFails
  \/ ExecutionStarts
  \/ PlannerGivesUp
  \/ \E plan \in Plans :
       \/ PlanInstalled(plan)
       \/ PlanInstalledOutsidePlanning(plan)
       \/ ReplacementInstalled(plan)
  \/ StepCompletes
  \/ \E answer \in Answers : AnswerProposed(answer)
  \/ \E error \in ExecErrors : ExecutionBlocked(error) \/ ExecutionFails(error)
  \/ BackoffEnds
  \/ AnswerVerified
  \/ AnswerRejected

CallerStep ==
  \/ Run
  \/ Cancel
  \/ \E flag \in StopFlags : RaiseStop(flag)

Next == AgentStep \/ CallerStep

Spec == Init /\ [][Next]_vars

\* Assumed: every awaited call (context, planner, execution, delay, verifier)
\* answers sooner or later.  The LLM client has a timeout, the delay is bounded, and
\* nothing else waits, but the tools set no limit of their own: that they return is
\* taken for granted.  Nothing is assumed of the caller.
Fairness == WF_vars(AgentStep)

FairSpec == Spec /\ Fairness

----------------------------------------------------------------------------
(* Correctness                                                             *)

StateType ==
  [phase : AgentPhase, fatal_error : BOOLEAN,
   termination_reason : TerminationReason \cup {"none", "failed"},
   plan : Plans \cup {NoPlan}, current_step : Nat \cup {NoStep},
   completed_steps : SUBSET Nat, replan_count : Nat, iteration : Nat,
   blocked : BOOLEAN, final_answer : Answers \cup {NoAnswer},
   final_answer_ready : BOOLEAN, final_answer_verified : BOOLEAN,
   verification_attempts : Nat, task_completed : BOOLEAN]

Verdict == [answer : Answers, verified : BOOLEAN]   \* VerificationRecord
Verdicts == Seq(Verdict)

RunType ==
  [plan : Plans \cup {NoPlan}, plan_version : Nat, current_step : Nat \cup {NoStep},
   completed_steps : SUBSET Nat, replan_count : Nat, iteration : Nat,
   current_attempt : Nat, final_answer : Answers \cup {NoAnswer},
   verification_history : Verdicts]

\* The values the fields of the state, of the context and of the model's own
\* variables range over.
TypeOK ==
  /\ state \in StateType
  /\ run \in RunType
  /\ history \in Seq(Steps)
  /\ pc \in Awaits \cup {"idle", "loop"}
  /\ result \in {"none", "returned", "cancelled"}
  /\ stop \subseteq StopFlag
  /\ runs \in Nat
  /\ approved \subseteq Answers
  /\ done \in Seq(Steps)

\* An answer reported as verified, or a task reported as completed, is one the
\* verifier verified: the code writes the answer before the verdict and the
\* verdict, the flags and the phase in different places of _verify and _complete.
VerifiedAnswerOnly ==
  state.phase = "COMPLETED" \/ state.final_answer_verified \/ state.task_completed =>
    /\ state.phase = "COMPLETED"
    /\ state.final_answer_verified /\ state.final_answer_ready /\ state.task_completed
    /\ state.final_answer \in approved

\* A rejected or abandoned answer never survives into a new plan: whenever the
\* task is still being planned or executed, no candidate is on the state
\* (_verify withdraws it before _replan).
NoStaleCandidate ==
  state.phase \in {"IDLE", "PLANNING", "EXECUTING"} =>
    state.final_answer = NoAnswer /\ ~state.final_answer_ready

\* The phase is the one the suspended call belongs to, so every guarded
\* transition after it ("if state.phase is EXECUTING") is taken.  Only the
\* first planning call may find another phase, that of a resumed state.
PhaseFitsAwait ==
  /\ pc # "idle" => state.phase # "IDLE"
  /\ pc \in Awaits => state.phase \in {"PLANNING", "EXECUTING", "VERIFYING"}
  /\ pc \in {"executing", "backoff"} => state.phase = "EXECUTING"
  /\ pc = "verifying" => state.phase = "VERIFYING"
  /\ pc = "replanning" => state.phase = "PLANNING"
  /\ pc \in {"loop", "context"} /\ run.plan # NoPlan => state.phase = "EXECUTING"

\* The state that callers read mirrors the context that the orchestrator works
\* with whenever a step of the plan is in progress, across replans and retries.
StateMirrorsRun ==
  pc \in {"executing", "backoff", "verifying"} =>
    /\ state.plan = run.plan
    /\ state.current_step = run.current_step
    /\ state.completed_steps = run.completed_steps
    /\ state.replan_count = run.replan_count
    /\ state.iteration = run.iteration

\* Steps are completed in plan order, and the current one is the first that is
\* not completed; _plan is never re-entered because a plan ran out of steps.
PlanProgress ==
  run.plan # NoPlan =>
    /\ HasCurrent(run)
    /\ \/ run.completed_steps = 0..(run.current_step - 1)
       \/ AtFinalStep(run) /\ run.completed_steps = 0..run.current_step

\* A plan version is installed for every replan and one for the first plan.
VersionCountsReplans ==
  run.plan_version = (IF run.plan = NoPlan THEN 0 ELSE run.replan_count + 1)

\* The three budgets of a run: attempts per step, verifications, replans.
BudgetsHold ==
  /\ run.current_attempt <= MaxStepAttempts
  /\ run.current_attempt <= RetryMaxAttempts
  /\ Len(run.verification_history) <= MaxVerificationAttempts
  /\ run.replan_count <= MaxReplans

\* A run ends by its own budgets, with no help from the iteration limit: one
\* iteration to plan, and for every plan one per attempt of each of its steps.
WorkIsBounded ==
  run.iteration <= 1 + (run.replan_count + 1) * MaxPlanSteps * MaxStepAttempts

\* The two rules of the termination policy about answers never apply: the
\* orchestrator decides an answer, or withdraws it, before the policy is asked.
PolicyNeverJudgesAnswers ==
  state.termination_reason \notin {"completed", "answer_unverified_budget"}

\* No step that succeeded in this run, nor one like it, is executed again: a
\* replan cannot repeat the side effects of the plan it replaces.
NoRepeatedExecution ==
  pc = "executing" /\ ~AtFinalStep(run) =>
    \A i \in 1..Len(done) : <<CurrentSignature(run), done[i]>> \notin Alike

\* A run that returned has reached a decision: completed, failed, terminated,
\* or blocked for approval in the middle of an execution.
ReturnIsDecided ==
  pc = "idle" /\ result = "returned" =>
    \/ state.phase \in {"COMPLETED", "FAILED", "TERMINATED"}
    \/ state.phase = "EXECUTING" /\ state.blocked

----------------------------------------------------------------------------
\* AgentState.transition never raises InvalidStateTransition: every phase
\* change the orchestrator and the loop ask for is in the table.
PhasesFollowTable ==
  [][state'.phase # state.phase => state'.phase \in AllowedTransitions[state.phase]]_vars

\* A completed task stays completed, with the same answer, however often its
\* state is run again.
CompletedIsFinal ==
  [][state.phase = "COMPLETED" =>
       /\ state'.phase = "COMPLETED"
       /\ state'.final_answer = state.final_answer
       /\ state'.final_answer_verified]_vars

\* A failed run is never revived: the table allows FAILED -> PLANNING and
\* AgentState has recover() and retry(), but no path of the loop takes them.
FailureIsFinal ==
  [][state.phase = "FAILED" => state'.phase \in {"FAILED", "TERMINATED"}]_vars

\* Once a stop is requested the agent begins no further step, neither in this
\* run nor when the same state is run again: only the one in progress ends.
StopIsHonoured ==
  [][stop # {} => run'.iteration <= run.iteration]_vars

\* "A plan may only be installed while the agent is in PLANNING phase"
\* (the error text of _install_planning_result).
PlanInstalledOnlyInPlanning ==
  [][run'.plan_version > run.plan_version => state.phase = "PLANNING"]_vars

\* A run that was started is over sooner or later.
RunEnds == (pc # "idle") ~> (pc = "idle")

----------------------------------------------------------------------------
(* The agent implements the contract of a task.                            *)

TaskStatus ==
  CASE state.phase = "COMPLETED"  -> "answered"
    [] state.phase = "FAILED"     -> "failed"
    [] state.phase = "TERMINATED" -> "stopped"
    [] OTHER                      -> "open"

Contract == INSTANCE TaskContract
              WITH status <- TaskStatus, candidate <- state.final_answer, accepted <- approved

\* Seen through its phase and its answer, the agent behaves as TaskContract.
ImplementsContract == Contract!Spec
=============================================================================
