--------------------------- MODULE AgentExecution ---------------------------
(***************************************************************************)
(* AgentExecution.execute: a request passes the execution policy, the risk *)
(* assessment and the approval policy before its tool or the LLM runs.     *)
(*                                                                         *)
(* One AgentExecution serves all calls, which share its counters and its   *)
(* tracer and may interleave at the three awaits: the risk analyzer, the   *)
(* tool, and the LLM.  (The repository makes one call after the other.)    *)
(* A call can be cancelled at an await; the handlers catch Exception and   *)
(* CancelledError is not one, so a cancelled call leaves its spans open    *)
(* and its outcome uncounted.                                              *)
(***************************************************************************)
EXTENDS Integers, Reliability, FiniteSets

CONSTANTS
  Calls,              \* the calls of execute
  Requests,           \* the requests they are made with
  Registered,         \* names in the tool registry
  Capability,         \* the capability each registered tool declares
  NoTool,             \* tool_name is None
  Analyses,           \* verdicts the risk analyzer may reach
  MinimumRiskLevel    \* ApprovalPolicy.minimum_risk_level

\* The risk levels in their order.
LOW == 0
MEDIUM == 1
HIGH == 2
CRITICAL == 3

RiskLevel == LOW..CRITICAL

CriticalFactors == {"FINANCIAL", "SECURITY", "DESTRUCTIVE"}

HighFactors == {"LEGAL", "PRIVACY", "DATA_MODIFICATION"}

\* Mutant: a factor that no level is assigned to.
MediumFactorsWithoutReputation == {"EXTERNAL_SIDE_EFFECT"}

MediumFactors == {"EXTERNAL_SIDE_EFFECT", "REPUTATIONAL"}

RiskFactor ==
  { "FINANCIAL", "SECURITY", "DESTRUCTIVE", "LEGAL", "PRIVACY",
    "DATA_MODIFICATION", "EXTERNAL_SIDE_EFFECT", "REPUTATIONAL" }

MandatoryFactors == {"FINANCIAL", "DESTRUCTIVE", "EXTERNAL_SIDE_EFFECT"}

ToolCapability ==
  {"READ_ONLY", "COMPUTATION", "NETWORK_READ", "EXTERNAL_WRITE", "DESTRUCTIVE"}

HarmlessCapabilities == {"READ_ONLY", "COMPUTATION", "NETWORK_READ"}

Assessment == [level : RiskLevel, factors : SUBSET RiskFactor]

\* What a request is to the gates: its type, its tool, and the factors whose
\* keywords occur in its action, its argument names or its tool's name.
Request(tools) ==
  [type : {"TOOL", "LLM"}, tool : tools, hits : SUBSET RiskFactor]

ASSUME GateAssumption ==
  /\ IsFiniteSet(Calls)
  /\ NoTool \notin Registered
  /\ Capability \in [Registered -> ToolCapability]
  /\ \A r \in Requests : r \in Request({r.tool})
  /\ Analyses \subseteq Assessment
  /\ MinimumRiskLevel \in RiskLevel

----------------------------------------------------------------------------
(* The gates                                                               *)

\* AgentExecution._validate_request
Valid(r) == r.type = "TOOL" <=> r.tool # NoTool

\* RiskRules.capability_for is one of the harmless ones.
Harmless(tool) ==
  tool \in Registered /\ Capability[tool] \in HarmlessCapabilities

\* RiskRules.analyze: a harmless tool has no external side effect, whatever the
\* words of the action are.
RuleFactors(r) ==
  IF Harmless(r.tool) THEN r.hits \ {"EXTERNAL_SIDE_EFFECT"} ELSE r.hits

\* RiskAssessor._level_from_rules, for a set with some factor in it.
LevelFromRules(factors) ==
  CASE factors \cap CriticalFactors # {} -> CRITICAL
    [] factors \cap CriticalFactors = {} /\ factors \cap HighFactors # {} -> HIGH
    [] factors \cap (CriticalFactors \cup HighFactors) = {}
         /\ factors \cap MediumFactors # {} -> MEDIUM
    [] OTHER -> LOW

\* Mutant: a step without a tool goes to the analyzer as well.
AnalyzerAlways(r) == RuleFactors(r) = {} /\ ~Harmless(r.tool)

\* RiskAssessor.assess: the LLM judges what the rules do not decide.
NeedsAnalyzer(r) ==
  RuleFactors(r) = {} /\ r.tool # NoTool /\ ~Harmless(r.tool)

\* What counts as the analysis when there is none.
NoAnalysis == [level |-> LOW, factors |-> {}]

\* The factors of both; the higher level of the two.
Assessed(r, analysis) ==
  LET ruleLevel == LevelFromRules(RuleFactors(r))
  IN  [level |-> IF analysis.level > ruleLevel THEN analysis.level ELSE ruleLevel,
       factors |-> RuleFactors(r) \cup analysis.factors]

\* Mutant: the threshold itself needs no approval.
ApprovalAboveThreshold(a) ==
  a.factors \cap MandatoryFactors # {} \/ a.level > MinimumRiskLevel

\* ApprovalPolicy.evaluate
ApprovalRequired(a) ==
  a.factors \cap MandatoryFactors # {} \/ a.level >= MinimumRiskLevel

----------------------------------------------------------------------------
VARIABLES
  pc,          \* where each call is suspended, or how it ended
  request,     \* its request
  verdict,     \* history variable: what the risk analyzer said of it
  result,      \* its ExecutionResult
  spans,       \* its span and the one of the tool or LLM call inside it
  metrics      \* the counters of Metrics

vars == <<pc, request, verdict, result, spans, metrics>>

Suspended == {"assessing", "TOOL", "LLM"}

Counter == {"execution", "TOOL", "LLM"} \X {"requests", "successes", "failures"}

NoRequest == [type |-> "LLM", tool |-> NoTool, hits |-> {}]

NotConsulted == [level |-> LOW, factors |-> {}, from |-> "nobody"]
Unavailable == [NotConsulted EXCEPT !.from = "failure"]
Said(a) == [level |-> a.level, factors |-> a.factors, from |-> "analyzer"]

NoError == InternalError      \* a placeholder where success is TRUE

Pending == [success |-> FALSE, blocked |-> FALSE, error |-> NoError, cause |-> "none"]

Success == [Pending EXCEPT !.success = TRUE]

\* AgentExecution._failure_result
Failure(error, cause) ==
  [success |-> FALSE, blocked |-> error.category = "APPROVAL_BLOCKED",
   error |-> error, cause |-> cause]

Init ==
  /\ pc = [c \in Calls |-> "new"]
  /\ request = [c \in Calls |-> NoRequest]
  /\ verdict = [c \in Calls |-> NotConsulted]
  /\ result = [c \in Calls |-> Pending]
  /\ spans = [c \in Calls |-> [execution |-> "none", inner |-> "none"]]
  /\ metrics = [k \in Counter |-> 0]

\* The metric names that one atomic step increments.
Count(names) == metrics' = [k \in Counter |-> metrics[k] + IF k \in names THEN 1 ELSE 0]

\* The call ends with a result; inner is the status its inner span ends with.
Ends(c, res, inner) ==
  /\ pc' = [pc EXCEPT ![c] = "finished"]
  /\ result' = [result EXCEPT ![c] = res]
  /\ spans' = [spans EXCEPT ![c] =
       [execution |-> IF res.success THEN "ok" ELSE "error", inner |-> inner]]

\* The call is suspended in the call of its tool or of the LLM.
Works(c, type) ==
  /\ pc' = [pc EXCEPT ![c] = type]
  /\ spans' = [spans EXCEPT ![c] = [execution |-> "started", inner |-> "started"]]
  /\ UNCHANGED result

\* Mutant: a refusal carries the category AUTHORIZATION, which a replan recovers.
RefusedAsUnauthorized(c, assessment, counted) ==
  /\ ApprovalRequired(assessment)
  /\ Ends(c, Failure([ApprovalBlockedError EXCEPT !.category = "AUTHORIZATION"], "none"), "none")
  /\ Count(counted \cup {<<"execution", "failures">>})

\* _check_approval raises ApprovalBlocked.
Refused(c, assessment, counted) ==
  /\ ApprovalRequired(assessment)
  /\ Ends(c, Failure(ApprovalBlockedError, "none"), "none")
  /\ Count(counted \cup {<<"execution", "failures">>})

\* _execute_tool finds no tool of that name.
ToolMissing(c, r, assessment, counted) ==
  /\ ~ApprovalRequired(assessment)
  /\ r.type = "TOOL" /\ r.tool \notin Registered
  /\ Ends(c, Failure(ToolNotFoundError, "none"), "error")
  /\ Count(counted \cup {<<"TOOL", "requests">>, <<"TOOL", "failures">>,
                         <<"execution", "failures">>})

\* Mutant: the tool is called without a look at the decision.
PermittedAnyway(c, r, assessment, counted) ==
  /\ r.type = "TOOL" => r.tool \in Registered
  /\ Works(c, r.type)
  /\ Count(counted \cup {<<r.type, "requests">>})

\* The tool or the LLM is called.
Permitted(c, r, assessment, counted) ==
  /\ ~ApprovalRequired(assessment)
  /\ r.type = "TOOL" => r.tool \in Registered
  /\ Works(c, r.type)
  /\ Count(counted \cup {<<r.type, "requests">>})

\* What follows the assessment, up to the next await.
Decided(c, r, assessment, counted) ==
  \/ Refused(c, assessment, counted)
  \/ ToolMissing(c, r, assessment, counted)
  \/ Permitted(c, r, assessment, counted)

----------------------------------------------------------------------------
(* The steps of a call                                                     *)

\* A malformed request raises before anything is counted.
Reject(c, r) ==
  /\ pc[c] = "new"
  /\ ~Valid(r)
  /\ pc' = [pc EXCEPT ![c] = "raised"]
  /\ request' = [request EXCEPT ![c] = r]
  /\ UNCHANGED <<verdict, result, spans, metrics>>

\* The head of execute, where the rules decide: no await before the tool.  The
\* execution policy allows every valid request.
EnterByRules(c, r) ==
  /\ pc[c] = "new"
  /\ Valid(r)
  /\ ~NeedsAnalyzer(r)
  /\ request' = [request EXCEPT ![c] = r]
  /\ Decided(c, r, Assessed(r, NoAnalysis), {<<"execution", "requests">>})
  /\ UNCHANGED verdict

\* The head of execute, up to the analyzer.
EnterForAnalysis(c, r) ==
  /\ pc[c] = "new"
  /\ Valid(r)
  /\ NeedsAnalyzer(r)
  /\ request' = [request EXCEPT ![c] = r]
  /\ pc' = [pc EXCEPT ![c] = "assessing"]
  /\ spans' = [spans EXCEPT ![c].execution = "started"]
  /\ Count({<<"execution", "requests">>})
  /\ UNCHANGED <<verdict, result>>

AnalyzerAnswers(c) ==
  /\ pc[c] = "assessing"
  /\ \E a \in Analyses :
       /\ verdict' = [verdict EXCEPT ![c] = Said(a)]
       /\ Decided(c, request[c], Assessed(request[c], a), {})
  /\ UNCHANGED request

\* assess swallows the exception: the rules, which found nothing, decide.
AnalyzerFails(c) ==
  /\ pc[c] = "assessing"
  /\ verdict' = [verdict EXCEPT ![c] = Unavailable]
  /\ Decided(c, request[c], Assessed(request[c], NoAnalysis), {})
  /\ UNCHANGED request

\* Mutant: a failing tool leaves the span of its call open.
FailsLeavingSpan(c, error, cause) ==
  /\ Ends(c, Failure(error, cause), "started")
  /\ Count({<<pc[c], "failures">>, <<"execution", "failures">>})
  /\ UNCHANGED <<request, verdict>>

\* The handlers of _execute_tool and _execute_llm, then that of execute.
Fails(c, error, cause) ==
  /\ Ends(c, Failure(error, cause), "error")
  /\ Count({<<pc[c], "failures">>, <<"execution", "failures">>})
  /\ UNCHANGED <<request, verdict>>

\* Mutant: a successful call is not counted for execute.
WorkReturnsUncounted(c) ==
  /\ pc[c] \in {"TOOL", "LLM"}
  /\ Ends(c, Success, "ok")
  /\ Count({<<pc[c], "successes">>})
  /\ UNCHANGED <<request, verdict>>

\* Mutant: a success also clears the record of its failures.
WorkReturnsClearing(c) ==
  /\ pc[c] \in {"TOOL", "LLM"}
  /\ Ends(c, Success, "ok")
  /\ metrics' = [metrics EXCEPT ![<<pc[c], "failures">>] = @ - 1,
                                ![<<"execution", "successes">>] = @ + 1]
  /\ UNCHANGED <<request, verdict>>

\* The tool returns something, or the LLM a text.
WorkReturns(c) ==
  /\ pc[c] \in {"TOOL", "LLM"}
  /\ Ends(c, Success, "ok")
  /\ Count({<<pc[c], "successes">>, <<"execution", "successes">>})
  /\ UNCHANGED <<request, verdict>>

\* The tool returns None or blank text.  The LLM executor raises instead.
ToolReturnsNothing(c) ==
  /\ pc[c] = "TOOL"
  /\ Fails(c, EmptyResultError, "none")

\* Whatever a tool raises, its arguments' contract included, becomes one error.
ToolRaises(c) ==
  /\ pc[c] = "TOOL"
  /\ Fails(c, ToolExecutionError, "other")

\* So does whatever the LLM client raises: its cause is kept as
\* original_exception only.
LLMRaises(c) ==
  /\ pc[c] = "LLM"
  /\ \E cause \in {"authentication", "other"} : Fails(c, LLMExecutionError, cause)

\* CancelledError at an await: no handler catches it.
Cancel(c) ==
  /\ pc[c] \in Suspended
  /\ pc' = [pc EXCEPT ![c] = "cancelled"]
  /\ UNCHANGED <<request, verdict, result, spans, metrics>>

Enter(c) ==
  \E r \in Requests : Reject(c, r) \/ EnterByRules(c, r) \/ EnterForAnalysis(c, r)

Resume(c) ==
  \/ AnalyzerAnswers(c) \/ AnalyzerFails(c)
  \/ WorkReturns(c) \/ ToolReturnsNothing(c) \/ ToolRaises(c) \/ LLMRaises(c)

Next == \E c \in Calls : Enter(c) \/ Resume(c) \/ Cancel(c)

Spec == Init /\ [][Next]_vars

----------------------------------------------------------------------------
(* Correctness                                                             *)

SpanStatus == {"none", "started", "ok", "error"}

\* The values the variables range over.
ExecutionTypeOK ==
  /\ pc \in [Calls -> {"new", "raised", "finished", "cancelled"} \cup Suspended]
  /\ request \in [Calls -> Requests \cup {NoRequest}]
  /\ verdict \in [Calls -> [level : RiskLevel, factors : SUBSET RiskFactor,
                            from : {"nobody", "failure", "analyzer"}]]
  /\ result \in [Calls -> [success : BOOLEAN, blocked : BOOLEAN, error : AgentError,
                           cause : {"none", "authentication", "other"}]]
  /\ spans \in [Calls -> [execution : SpanStatus, inner : SpanStatus]]
  /\ metrics \in [Counter -> Nat]

\* The gates: a tool or the LLM is called only for a request that the rules flag
\* in no way and, where the analyzer was asked, that it found below the
\* threshold and free of the mandatory factors, or could not judge.  With a
\* threshold above MEDIUM some flagged requests are let through on purpose.
FlaggedWorkNeverRuns ==
  \A c \in Calls :
    (MinimumRiskLevel <= MEDIUM /\ spans[c].inner # "none") =>
      /\ RuleFactors(request[c]) = {}
      /\ NeedsAnalyzer(request[c]) => verdict[c].from # "nobody"
      /\ verdict[c].from = "analyzer" =>
           verdict[c].level < MinimumRiskLevel /\ verdict[c].factors \cap MandatoryFactors = {}

\* A refusal is final: nothing has run, and the orchestrator neither retries the
\* step nor plans around it.  Every other failure comes from work that was let
\* through.
RefusalsAreFinal ==
  \A c \in Calls : pc[c] = "finished" /\ ~result[c].success =>
    /\ result[c].blocked <=> spans[c].inner = "none"
    /\ result[c].blocked =>
         \A attempt \in 1..MaxStepAttempts : HandleFailure(result[c].error, attempt) = "STOP"

\* The analyzer is asked about tools only, and only where the rules are silent:
\* a finding of the rules and one of the LLM are never merged, and a step
\* without a tool never waits for the LLM's opinion.
AnalyzerOnlyWhereRulesAreSilent ==
  \A c \in Calls : pc[c] = "assessing" \/ verdict[c].from # "nobody" =>
    /\ request[c].type = "TOOL"
    /\ RuleFactors(request[c]) = {}
    /\ ~Harmless(request[c].tool)

\* The counters add up over all interleaved calls: what was requested has
\* succeeded, failed, is in progress or was cancelled.
MetricsBalance ==
  \A kind \in {"execution", "TOOL", "LLM"} :
    LET open(c) == /\ pc[c] \in Suspended \cup {"cancelled"}
                   /\ kind \in {"TOOL", "LLM"} =>
                        spans[c].inner = "started" /\ request[c].type = kind
    IN  metrics[<<kind, "requests">>] =
          metrics[<<kind, "successes">>] + metrics[<<kind, "failures">>]
            + Cardinality({c \in Calls : open(c)})

\* A call that returned has closed its spans, with the status of its result; the
\* span inside ended well only if the call did.  Only a cancelled call leaves
\* spans open.
SpansTellOutcome ==
  \A c \in Calls :
    /\ pc[c] = "finished" =>
         /\ spans[c].execution = (IF result[c].success THEN "ok" ELSE "error")
         /\ spans[c].inner \in {"none", spans[c].execution}
    /\ spans[c].execution = "started" <=> pc[c] \in Suspended \cup {"cancelled"}

----------------------------------------------------------------------------
(* Statements of the tests that the code does not keep                     *)

\* "a step with no tool is assessed deterministically and needs no approval"
\* (tests/reliability/test_llm_step_risk_approval_regression.py).
ToollessStepsNeedNoApproval ==
  \A c \in Calls : pc[c] = "finished" /\ request[c].tool = NoTool => ~result[c].blocked

\* "A missing/invalid credential should not produce: retry -> retry -> retry"
\* (tests/reliability/test_failure_classifier.py).
AuthenticationIsNotRetried ==
  \A c \in Calls : pc[c] = "finished" /\ result[c].cause = "authentication" =>
    HandleFailure(result[c].error, 1) # "RETRY"
=============================================================================
