---------------------------- MODULE Reliability ----------------------------
(***************************************************************************)
(* What the agent does with a failure: the error record an execution       *)
(* returns, its classification, the retry and the recovery policy, and the *)
(* decision of ReliabilityEngine.handle_failure.  These are pure functions *)
(* in the code and operators here.                                         *)
(***************************************************************************)
EXTENDS Naturals

CONSTANTS
  MaxStepAttempts,    \* OrchestratorConfig.max_step_attempts
  RetryMaxAttempts    \* RetryPolicy.max_attempts

ASSUME AttemptsAssumption ==
  /\ MaxStepAttempts \in Nat \ {0}
  /\ RetryMaxAttempts \in Nat \ {0}

TransientCategories == {"TIMEOUT", "NETWORK", "RATE_LIMIT"}

RecoverableCategories ==
  { "AUTHORIZATION", "PLAN_SEMANTIC_ERROR", "PLAN_SCHEMA_ERROR",
    "PLAN_STRATEGY_ERROR", "PLAN_GENERATION_ERROR", "PLAN_RECOVERY_ERROR",
    "TOOL_ARGUMENT_ERROR", "TOOL_CONTRACT_ERROR", "TOOL_NOT_FOUND",
    "PYTHON_SYNTAX_ERROR", "PYTHON_IMPORT_ERROR", "FILE_NOT_FOUND",
    "ARTIFACT_NOT_FOUND", "EMPTY_RESULT", "INVALID_RESULT",
    "LLM_OUTPUT_ERROR", "VALIDATION" }

PermanentCategories == {"AUTHENTICATION", "APPROVAL_BLOCKED", "TRANSITION_FAILURE"}

FatalCategories == {"LOOP_DETECTED", "INTERNAL"}

\* Categories that neither list decides: the flags of the error do.
FlaggedCategories == {"TOOL_EXECUTION_ERROR", "LLM_FAILURE", "EXECUTION"}

\* The rest: flags first, then the severity.
OtherCategories ==
  {"UNKNOWN", "PLANNER", "PLANNER_CONFIGURATION", "TOOL", "LLM", "STATE_TRANSITION_ERROR"}

ErrorCategory ==
  TransientCategories \cup RecoverableCategories \cup PermanentCategories
    \cup FatalCategories \cup FlaggedCategories \cup OtherCategories

ErrorSeverity == {"LOW", "MEDIUM", "HIGH", "CRITICAL"}

AgentError ==
  [category : ErrorCategory, severity : ErrorSeverity,
   retryable : BOOLEAN, recoverable : BOOLEAN]

FailureType == {"TRANSIENT", "RECOVERABLE", "PERMANENT", "FATAL", "UNKNOWN"}

\* The category decides where it can; then retryable, recoverable, severity.
Classify(e) ==
  CASE e.category \in TransientCategories   -> "TRANSIENT"
    [] e.category \in RecoverableCategories -> "RECOVERABLE"
    [] e.category \in PermanentCategories   -> "PERMANENT"
    [] e.category \in FatalCategories       -> "FATAL"
    [] e.category \in FlaggedCategories \cup OtherCategories ->
         IF e.retryable THEN "TRANSIENT"
         ELSE IF e.recoverable THEN "RECOVERABLE"
         ELSE IF e.category \in FlaggedCategories \/ e.severity = "HIGH" THEN "PERMANENT"
         ELSE IF e.severity = "CRITICAL" THEN "FATAL"
         ELSE "UNKNOWN"

\* Only a transient failure is retried, while attempts of the policy are left.
ShouldRetry(type, attempt) == type = "TRANSIENT" /\ attempt < RetryMaxAttempts

\* allow_replanning is TRUE in the agent the factory builds.
RecoveryAction(type) ==
  CASE type = "RECOVERABLE" -> "REPLAN"
    [] type = "TRANSIENT"   -> "NONE"
    [] OTHER                -> "STOP"

\* The orchestrator passes no recovery_operation: what is neither retried nor
\* replanned stops.
HandleFailure(e, attempt) ==
  IF attempt < MaxStepAttempts /\ ShouldRetry(Classify(e), attempt) THEN "RETRY"
  ELSE IF RecoveryAction(Classify(e)) = "REPLAN" THEN "REPLAN"
  ELSE "STOP"

\* Orchestrator._fail: what makes a failed state fatal.
IsFatal(e) == e.severity = "CRITICAL" \/ (~e.retryable /\ ~e.recoverable)

----------------------------------------------------------------------------
\* The errors AgentExecution makes.

ApprovalBlockedError ==
  [category |-> "APPROVAL_BLOCKED", severity |-> "MEDIUM",
   retryable |-> FALSE, recoverable |-> FALSE]

ToolNotFoundError ==
  [category |-> "TOOL_NOT_FOUND", severity |-> "MEDIUM",
   retryable |-> FALSE, recoverable |-> TRUE]

EmptyResultError ==
  [category |-> "EMPTY_RESULT", severity |-> "MEDIUM",
   retryable |-> TRUE, recoverable |-> TRUE]

ToolExecutionError ==
  [category |-> "TOOL_EXECUTION_ERROR", severity |-> "MEDIUM",
   retryable |-> TRUE, recoverable |-> TRUE]

LLMExecutionError ==
  [category |-> "LLM_FAILURE", severity |-> "MEDIUM",
   retryable |-> TRUE, recoverable |-> TRUE]

----------------------------------------------------------------------------
\* The errors the orchestrator itself makes.

PlannerError ==
  [category |-> "PLAN_RECOVERY_ERROR", severity |-> "HIGH",
   retryable |-> FALSE, recoverable |-> TRUE]

InternalError ==
  [category |-> "INTERNAL", severity |-> "HIGH",
   retryable |-> FALSE, recoverable |-> FALSE]

LoopError ==
  [category |-> "LOOP_DETECTED", severity |-> "HIGH",
   retryable |-> FALSE, recoverable |-> FALSE]

OutsidePlanningError ==
  [category |-> "STATE_TRANSITION_ERROR", severity |-> "CRITICAL",
   retryable |-> FALSE, recoverable |-> FALSE]

\* Mutant: the error of the exhausted budget is marked recoverable.
RecoverableBudgetError ==
  [category |-> "INVALID_RESULT", severity |-> "HIGH",
   retryable |-> FALSE, recoverable |-> TRUE]

VerificationBudgetError ==
  [category |-> "INVALID_RESULT", severity |-> "HIGH",
   retryable |-> FALSE, recoverable |-> FALSE]

AnswerRejectedError ==
  [category |-> "INVALID_RESULT", severity |-> "MEDIUM",
   retryable |-> FALSE, recoverable |-> TRUE]
=============================================================================
