---------------------------- MODULE MCEvaluation ----------------------------
(***************************************************************************)
(* A small instance of Evaluation for TLC: plans of at most one step       *)
(* before the final one, and errors that cover retry, replan and stop.     *)
(***************************************************************************)
EXTENDS Evaluation

CONSTANTS s1, s2

MCAlike == {<<s1, s1>>, <<s2, s2>>, <<s2, s1>>}

MCPlans == {<<>>, <<s1>>, <<s2>>}

MCErrors ==
  { [category |-> "TIMEOUT", severity |-> "MEDIUM", retryable |-> TRUE, recoverable |-> TRUE],
    [category |-> "FILE_NOT_FOUND", severity |-> "MEDIUM", retryable |-> FALSE, recoverable |-> TRUE],
    [category |-> "APPROVAL_BLOCKED", severity |-> "MEDIUM", retryable |-> FALSE, recoverable |-> FALSE] }
=============================================================================
