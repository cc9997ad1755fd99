--------------------------- MODULE MCOrchestration ---------------------------
(***************************************************************************)
(* Small instances of Orchestration for TLC.                               *)
(***************************************************************************)
EXTENDS Orchestration

CONSTANTS s1, s2, s3

\* s2 counts as a repetition of s1 but not the other way round: the textual
\* similarity the detector uses is not symmetric.
MCAlike == {<<s1, s1>>, <<s2, s2>>, <<s3, s3>>, <<s2, s1>>}

MCPlans == {<<>>, <<s1>>, <<s2, s1>>, <<s3>>}

\* At most one step before the final one.
ShortPlans == {<<>>, <<s1>>, <<s2>>}

\* One error for each thing the agent does with a failure: retry, replan, stop
\* and wait for an approval.
MCErrors == {ToolExecutionError, EmptyResultError, InternalError, ApprovalBlockedError}
=============================================================================
