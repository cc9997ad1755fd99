---------------------------- MODULE AgentPhases ----------------------------
(***************************************************************************)
(* The lifecycle phases of an AgentState, the transitions its table        *)
(* allows, and the termination policy that the agent loop asks before each *)
(* step.                                                                   *)
(***************************************************************************)
EXTENDS Naturals

CONSTANTS
  MaxIterations,              \* TerminationPolicy.max_iterations
  PolicyVerificationAttempts  \* TerminationPolicy.max_verification_attempts

ASSUME PolicyAssumption ==
  /\ MaxIterations \in Nat \ {0}
  /\ PolicyVerificationAttempts \in Nat \ {0}

AgentPhase ==
  {"IDLE", "PLANNING", "EXECUTING", "VERIFYING", "COMPLETED", "FAILED", "TERMINATED"}

AllowedTransitions ==
  [p \in AgentPhase |->
     CASE p = "IDLE"      -> {"PLANNING", "TERMINATED"}
       [] p = "PLANNING"  -> {"EXECUTING", "FAILED", "TERMINATED"}
       [] p = "EXECUTING" -> {"PLANNING", "VERIFYING", "FAILED", "TERMINATED"}
       [] p = "VERIFYING" -> {"COMPLETED", "PLANNING", "FAILED", "TERMINATED"}
       [] p = "COMPLETED" -> {"TERMINATED"}
       [] p = "FAILED"    -> {"PLANNING", "TERMINATED"}
       [] OTHER           -> {}]

\* AgentState.is_terminal.  FAILED is not terminal.
TerminalPhases == {"COMPLETED", "TERMINATED"}

\* The requests to stop that the embedding program may raise on a state.
StopFlag == {"human_aborted", "explicit_stop", "timed_out"}

TerminationReason ==
  StopFlag \cup {"fatal_error", "completed", "answer_unverified_budget", "max_iterations"}

\* Mutant: only the request of a human stops the agent.
PolicyIgnoresFlags(s, stop) ==
  IF "human_aborted" \in stop THEN "human_aborted"
  ELSE IF s.fatal_error THEN "fatal_error"
  ELSE IF s.iteration >= MaxIterations THEN "max_iterations"
  ELSE "none"

\* TerminationPolicy.evaluate: the first reason that applies, or "none".
PolicyReason(s, stop) ==
  IF "human_aborted" \in stop THEN "human_aborted"
  ELSE IF "explicit_stop" \in stop THEN "explicit_stop"
  ELSE IF "timed_out" \in stop THEN "timed_out"
  ELSE IF s.fatal_error THEN "fatal_error"
  ELSE IF s.final_answer_ready /\ s.final_answer_verified THEN "completed"
  ELSE IF s.final_answer_ready /\ s.verification_attempts >= PolicyVerificationAttempts
       THEN "answer_unverified_budget"
  ELSE IF s.iteration >= MaxIterations THEN "max_iterations"
  ELSE "none"
=============================================================================
