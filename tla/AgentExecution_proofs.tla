----------------------- MODULE AgentExecution_proofs -----------------------
(***************************************************************************)
(* Theorems about AgentExecution, for every set of calls, requests, tools  *)
(* and analyses.                                                           *)
(***************************************************************************)
EXTENDS AgentExecution, FiniteSetTheorems, TLAPS

----------------------------------------------------------------------------
(* The inductive invariant.  A step changes the values of one call only,   *)
(* so it is stated of those values: p its place, r its request, v what the *)
(* analyzer said, res its result, s its spans.                             *)

Place == {"new", "raised", "finished", "cancelled"} \cup Suspended
Verdict == [level : RiskLevel, factors : SUBSET RiskFactor,
            from : {"nobody", "failure", "analyzer"}]
ResultType == [success : BOOLEAN, blocked : BOOLEAN, error : AgentError,
               cause : {"none", "authentication", "other"}]
Spans == [execution : SpanStatus, inner : SpanStatus]

Typed(p, r, v, res, s) ==
  /\ p \in Place
  /\ r \in Requests \cup {NoRequest}
  /\ v \in Verdict
  /\ res \in ResultType
  /\ s \in Spans

\* What is known of a call at each of its awaits.
Placed(p, r, v, s) ==
  /\ p = "new" => v = NotConsulted /\ s = [execution |-> "none", inner |-> "none"]
  /\ p = "assessing" => /\ Valid(r)
                        /\ NeedsAnalyzer(r)
                        /\ v = NotConsulted
                        /\ s = [execution |-> "started", inner |-> "none"]
  /\ p \in {"TOOL", "LLM"} => p = r.type /\ s = [execution |-> "started", inner |-> "started"]

\* FlaggedWorkNeverRuns, of one call.
Cleared(r, v, s) ==
  (MinimumRiskLevel <= MEDIUM /\ s.inner # "none") =>
    /\ RuleFactors(r) = {}
    /\ NeedsAnalyzer(r) => v.from # "nobody"
    /\ v.from = "analyzer" => v.level < MinimumRiskLevel /\ v.factors \cap MandatoryFactors = {}

\* AnalyzerOnlyWhereRulesAreSilent, of one call.
RulesSilent(p, r, v) ==
  p = "assessing" \/ v.from # "nobody" =>
    r.type = "TOOL" /\ RuleFactors(r) = {} /\ ~Harmless(r.tool)

\* RefusalsAreFinal, of one call: only the approval policy refuses.
RefusedByApproval(p, res, s) ==
  p = "finished" /\ ~res.success =>
    /\ res.blocked <=> s.inner = "none"
    /\ res.blocked => res.error = ApprovalBlockedError

\* SpansTellOutcome, of one call.
SpansFit(p, res, s) ==
  /\ p = "finished" =>
       /\ s.execution = (IF res.success THEN "ok" ELSE "error")
       /\ s.inner \in {"none", s.execution}
  /\ s.execution = "started" <=> p \in Suspended \cup {"cancelled"}

Sound(p, r, v, res, s) ==
  /\ Placed(p, r, v, s)
  /\ Cleared(r, v, s)
  /\ RulesSilent(p, r, v)
  /\ RefusedByApproval(p, res, s)
  /\ SpansFit(p, res, s)

ExecInv ==
  /\ ExecutionTypeOK
  /\ MetricsBalance
  /\ \A c \in Calls : Sound(pc[c], request[c], verdict[c], result[c], spans[c])

----------------------------------------------------------------------------
(* The counters: for each kind of work, a call is open or it is not, and a *)
(* step increments some of the kind's three counters by one.               *)

Kinds == {"execution", "TOOL", "LLM"}

IsOpen(kind, p, r, s) ==
  /\ p \in Suspended \cup {"cancelled"}
  /\ kind \in {"TOOL", "LLM"} => s.inner = "started" /\ r.type = kind

Opens(kind, p, r, s) == IF IsOpen(kind, p, r, s) THEN 1 ELSE 0

Adds(names, key) == IF key \in names THEN 1 ELSE 0

\* A step of c that increments names accounts for how it leaves the call.
Accounts(c, names, p, r, s) ==
  \A kind \in Kinds :
    Adds(names, <<kind, "requests">>) - Adds(names, <<kind, "successes">>)
        - Adds(names, <<kind, "failures">>)
      = Opens(kind, p, r, s) - Opens(kind, pc[c], request[c], spans[c])

OpenCalls(kind) == {c \in Calls : IsOpen(kind, pc[c], request[c], spans[c])}

LEMMA BalanceOfKinds ==
  MetricsBalance <=>
    \A kind \in Kinds :
      metrics[<<kind, "requests">>] =
        metrics[<<kind, "successes">>] + metrics[<<kind, "failures">>]
          + Cardinality(OpenCalls(kind))
BY DEF MetricsBalance, Kinds, OpenCalls, IsOpen

\* The number of elements when at most one of them comes or goes.
LEMMA OneMoreOrLess ==
  ASSUME NEW S, IsFiniteSet(S), NEW T, NEW x,
         \A y : y # x => (y \in S <=> y \in T)
  PROVE  /\ Cardinality(S) \in Nat /\ Cardinality(T) \in Nat
         /\ Cardinality(T) - Cardinality(S)
              = (IF x \in T THEN 1 ELSE 0) - (IF x \in S THEN 1 ELSE 0)
<1>1. Cardinality(S) \in Nat
  BY FS_CardinalityType
<1>2. CASE x \in S <=> x \in T
  <2>1. S = T
    BY <1>2
  <2>2. QED
    BY <1>1, <1>2, <2>1
<1>3. CASE x \in T /\ x \notin S
  <2>1. T = S \cup {x}
    BY <1>3
  <2>2. Cardinality(T) = Cardinality(S) + 1
    BY <1>3, <2>1, FS_AddElement
  <2>3. QED
    BY <1>1, <1>3, <2>2
<1>4. CASE x \in S /\ x \notin T
  <2>1. T = S \ {x}
    BY <1>4
  <2>2. IsFiniteSet(T) /\ Cardinality(T) = Cardinality(S) - 1
    BY <1>4, <2>1, FS_RemoveElement
  <2>3. Cardinality(T) \in Nat
    BY <2>2, FS_CardinalityType
  <2>4. QED
    BY <1>1, <1>4, <2>2, <2>3
<1>5. QED
  BY <1>2, <1>3, <1>4

----------------------------------------------------------------------------
(* What a step does to the values of its call                              *)

Becomes(c, p, r, v, res, s) ==
  /\ pc' = [pc EXCEPT ![c] = p]
  /\ request' = [request EXCEPT ![c] = r]
  /\ verdict' = [verdict EXCEPT ![c] = v]
  /\ result' = [result EXCEPT ![c] = res]
  /\ spans' = [spans EXCEPT ![c] = s]

LEMMA CountersStay ==
  ASSUME metrics \in [Counter -> Nat], NEW names, Count(names)
  PROVE  metrics' \in [Counter -> Nat]
BY DEF Count

\* The balance is kept by a step that accounts for what it does.
LEMMA BalanceMoves ==
  ASSUME ExecInv, NEW names, Count(names),
         NEW c \in Calls, NEW p, NEW r, NEW v, NEW res, NEW s,
         Becomes(c, p, r, v, res, s), Accounts(c, names, p, r, s)
  PROVE  MetricsBalance'
<1>1. ASSUME NEW kind \in Kinds
      PROVE  metrics'[<<kind, "requests">>] =
               metrics'[<<kind, "successes">>] + metrics'[<<kind, "failures">>]
                 + Cardinality(OpenCalls(kind)')
  <2>1. /\ metrics[<<kind, "requests">>] \in Nat
        /\ metrics[<<kind, "successes">>] \in Nat
        /\ metrics[<<kind, "failures">>] \in Nat
    BY DEF ExecInv, ExecutionTypeOK, Counter, Kinds
  <2>2. \A what \in {"requests", "successes", "failures"} :
          metrics'[<<kind, what>>] = metrics[<<kind, what>>] + Adds(names, <<kind, what>>)
    BY DEF Count, Counter, Kinds, Adds
  <2>3. metrics[<<kind, "requests">>] =
          metrics[<<kind, "successes">>] + metrics[<<kind, "failures">>]
            + Cardinality(OpenCalls(kind))
    BY BalanceOfKinds DEF ExecInv
  <2>4. \A d : d # c => (d \in OpenCalls(kind) <=> d \in OpenCalls(kind)')
    BY DEF OpenCalls, ExecInv, ExecutionTypeOK, Becomes
  <2>5. /\ c \in OpenCalls(kind) <=> IsOpen(kind, pc[c], request[c], spans[c])
        /\ c \in OpenCalls(kind)' <=> IsOpen(kind, p, r, s)
    BY DEF OpenCalls, ExecInv, ExecutionTypeOK, Becomes
  <2>6. IsFiniteSet(OpenCalls(kind))
    BY GateAssumption, FS_Subset DEF OpenCalls
  <2>7. /\ Cardinality(OpenCalls(kind)) \in Nat /\ Cardinality(OpenCalls(kind)') \in Nat
        /\ Cardinality(OpenCalls(kind)') - Cardinality(OpenCalls(kind))
             = Opens(kind, p, r, s) - Opens(kind, pc[c], request[c], spans[c])
    BY <2>4, <2>5, <2>6, OneMoreOrLess DEF Opens
  <2>8. Adds(names, <<kind, "requests">>) - Adds(names, <<kind, "successes">>)
          - Adds(names, <<kind, "failures">>)
            = Cardinality(OpenCalls(kind)') - Cardinality(OpenCalls(kind))
    BY <2>7 DEF Accounts
  <2>9. \A what : Adds(names, <<kind, what>>) \in Int
    BY DEF Adds
  <2>10. QED
    BY <2>1, <2>2, <2>3, <2>7, <2>8, <2>9
<1>2. QED
  BY <1>1 DEF MetricsBalance, Kinds, OpenCalls, IsOpen

\* One call's values are replaced by sound ones, and the step accounts for it:
\* the invariant is kept.
LEMMA OneCallMoves ==
  ASSUME ExecInv, NEW names, Count(names),
         NEW c \in Calls, NEW p, NEW r, NEW v, NEW res, NEW s,
         Becomes(c, p, r, v, res, s), Typed(p, r, v, res, s), Sound(p, r, v, res, s),
         Accounts(c, names, p, r, s)
  PROVE  ExecInv'
<1>1. ExecutionTypeOK' /\ MetricsBalance'
  BY CountersStay, BalanceMoves DEF ExecInv, ExecutionTypeOK, Becomes, Typed, Place, Verdict, ResultType, Spans
<1>2. ASSUME NEW d \in Calls
      PROVE  Sound(pc'[d], request'[d], verdict'[d], result'[d], spans'[d])
  <2>1. CASE d = c
    <3>1. /\ pc'[d] = p /\ request'[d] = r /\ verdict'[d] = v
          /\ result'[d] = res /\ spans'[d] = s
      BY <2>1 DEF ExecInv, ExecutionTypeOK, Becomes
    <3>2. QED
      BY <3>1
  <2>2. CASE d # c
    <3>1. /\ pc'[d] = pc[d] /\ request'[d] = request[d] /\ verdict'[d] = verdict[d]
          /\ result'[d] = result[d] /\ spans'[d] = spans[d]
      BY <2>2 DEF ExecInv, ExecutionTypeOK, Becomes
    <3>2. QED
      BY <3>1 DEF ExecInv
  <2>3. QED
    BY <2>1, <2>2
<1>3. QED
  BY <1>1, <1>2 DEF ExecInv

\* The values of a call before its step.
LEMMA CallValues ==
  ASSUME ExecInv, NEW c \in Calls
  PROVE  /\ Typed(pc[c], request[c], verdict[c], result[c], spans[c])
         /\ Sound(pc[c], request[c], verdict[c], result[c], spans[c])
BY DEF ExecInv, ExecutionTypeOK, Typed, Place, Verdict, ResultType, Spans

\* A request as the gates see it.
LEMMA RequestValues ==
  ASSUME NEW r \in Requests \cup {NoRequest}
  PROVE  /\ r.type \in {"TOOL", "LLM"}
         /\ r.hits \in SUBSET RiskFactor
         /\ RuleFactors(r) \in SUBSET RiskFactor
BY GateAssumption DEF NoRequest, Request, RuleFactors

----------------------------------------------------------------------------
(* The gates                                                               *)

\* The rules give every factor a level, so the lowest one means no factor.
LEMMA LevelOfRules ==
  ASSUME NEW factors \in SUBSET RiskFactor
  PROVE  /\ LevelFromRules(factors) \in RiskLevel
         /\ LevelFromRules(factors) = LOW => factors = {}
<1>1. factors \subseteq CriticalFactors \cup HighFactors \cup MediumFactors
  BY DEF RiskFactor, CriticalFactors, HighFactors, MediumFactors
<1>2. CASE factors \cap CriticalFactors # {}
  BY <1>2 DEF LevelFromRules, RiskLevel, LOW, MEDIUM, HIGH, CRITICAL
<1>3. CASE factors \cap CriticalFactors = {} /\ factors \cap HighFactors # {}
  BY <1>3 DEF LevelFromRules, RiskLevel, LOW, MEDIUM, HIGH, CRITICAL
<1>4. CASE factors \cap (CriticalFactors \cup HighFactors) = {} /\ factors \cap MediumFactors # {}
  BY <1>4 DEF LevelFromRules, RiskLevel, LOW, MEDIUM, HIGH, CRITICAL
<1>5. CASE factors = {}
  BY <1>5 DEF LevelFromRules, RiskLevel, LOW, MEDIUM, HIGH, CRITICAL
<1>6. QED
  BY <1>1, <1>2, <1>3, <1>4, <1>5

\* What needs no approval has no factor and a level below the threshold.
LEMMA NothingToApprove ==
  ASSUME MinimumRiskLevel <= MEDIUM, NEW r \in Requests, NEW a \in Assessment,
         ~ApprovalRequired(Assessed(r, a))
  PROVE  /\ RuleFactors(r) = {}
         /\ a.level < MinimumRiskLevel
         /\ a.factors \cap MandatoryFactors = {}
<1> DEFINE lvl == LevelFromRules(RuleFactors(r))
<1>1. lvl \in RiskLevel /\ (lvl = LOW => RuleFactors(r) = {})
  BY LevelOfRules, RequestValues
<1>2. /\ a.level \in 0..3 /\ lvl \in 0..3 /\ MinimumRiskLevel \in 0..3
      /\ MinimumRiskLevel <= 1
  BY <1>1, GateAssumption DEF Assessment, RiskLevel, LOW, CRITICAL, MEDIUM
<1>3. ~(Assessed(r, a).level >= MinimumRiskLevel)
  BY DEF ApprovalRequired
<1>4. Assessed(r, a).level = IF a.level > lvl THEN a.level ELSE lvl
  BY DEF Assessed
<1> HIDE DEF lvl
<1>5. a.level < MinimumRiskLevel /\ lvl = 0
  BY <1>2, <1>3, <1>4
<1>6. a.factors \cap MandatoryFactors = {}
  BY DEF ApprovalRequired, Assessed
<1>7. QED
  BY <1>1, <1>5, <1>6 DEF LOW

----------------------------------------------------------------------------
(* Types                                                                   *)

LEMMA Errors ==
  /\ ApprovalBlockedError \in AgentError /\ ApprovalBlockedError.category = "APPROVAL_BLOCKED"
  /\ ToolNotFoundError \in AgentError /\ ToolNotFoundError.category # "APPROVAL_BLOCKED"
  /\ EmptyResultError \in AgentError /\ EmptyResultError.category # "APPROVAL_BLOCKED"
  /\ ToolExecutionError \in AgentError /\ ToolExecutionError.category # "APPROVAL_BLOCKED"
  /\ LLMExecutionError \in AgentError /\ LLMExecutionError.category # "APPROVAL_BLOCKED"
  /\ InternalError \in AgentError
BY DEF ApprovalBlockedError, ToolNotFoundError, EmptyResultError, ToolExecutionError,
       LLMExecutionError, InternalError, AgentError, ErrorCategory, ErrorSeverity,
       TransientCategories, RecoverableCategories, PermanentCategories, FatalCategories,
       FlaggedCategories

\* A result of _failure_result.
LEMMA FailureValues ==
  ASSUME NEW e \in AgentError, NEW cause \in {"none", "authentication", "other"}
  PROVE  /\ Failure(e, cause) \in ResultType
         /\ ~Failure(e, cause).success
         /\ Failure(e, cause).error = e
         /\ Failure(e, cause).blocked <=> e.category = "APPROVAL_BLOCKED"
BY DEF Failure, ResultType

LEMMA SuccessValues == Success \in ResultType /\ Success.success
BY Errors DEF Success, Pending, NoError, ResultType

LEMMA ExecStart == Init => ExecInv
<1> SUFFICES ASSUME Init PROVE ExecInv
  OBVIOUS
<1>1. NotConsulted \in Verdict /\ NotConsulted.from = "nobody"
  BY DEF NotConsulted, Verdict, RiskLevel, LOW, CRITICAL
<1>2. Pending \in ResultType
  BY Errors DEF Pending, NoError, ResultType
<1>3. ExecutionTypeOK
  BY <1>1, <1>2 DEF Init, ExecutionTypeOK, SpanStatus, Verdict, ResultType
<1>4. ASSUME NEW c \in Calls
      PROVE  Sound(pc[c], request[c], verdict[c], result[c], spans[c])
  BY <1>1 DEF Init, Sound, Placed, Cleared, RulesSilent, RefusedByApproval, SpansFit, Suspended
<1>5. ASSUME NEW kind \in Kinds
      PROVE  metrics[<<kind, "requests">>] =
               metrics[<<kind, "successes">>] + metrics[<<kind, "failures">>]
                 + Cardinality(OpenCalls(kind))
  <2>1. OpenCalls(kind) = {}
    BY DEF Init, OpenCalls, IsOpen, Suspended
  <2>2. \A what \in {"requests", "successes", "failures"} : metrics[<<kind, what>>] = 0
    BY DEF Init, Counter, Kinds
  <2>3. QED
    BY <2>1, <2>2, FS_EmptySet
<1>6. QED
  BY <1>3, <1>4, <1>5, BalanceOfKinds DEF ExecInv

----------------------------------------------------------------------------
(* The steps                                                               *)

\* Two spellings of what an action leaves alone.
LEMMA Unchanged ==
  ASSUME ExecInv, NEW c \in Calls
  PROVE  /\ request = [request EXCEPT ![c] = request[c]]
         /\ verdict = [verdict EXCEPT ![c] = verdict[c]]
         /\ result = [result EXCEPT ![c] = result[c]]
         /\ spans = [spans EXCEPT ![c] = spans[c]]
         /\ metrics' = metrics => Count({})
<1>1. metrics = [k \in Counter |-> metrics[k] + 0] /\ \A k : k \notin {}
  BY DEF ExecInv, ExecutionTypeOK
<1>2. QED
  BY <1>1 DEF ExecInv, ExecutionTypeOK, Count

\* What the head of execute has counted when the gates have decided.
Counted(c) == IF pc[c] = "new" THEN {<<"execution", "requests">>} ELSE {}

LEMMA AccountOfGates ==
  ASSUME NEW c \in Calls, pc[c] \in {"new", "assessing"}, spans[c].inner = "none",
         NEW r, NEW s, s.inner = "none" => s.execution = "error"
  PROVE  /\ Accounts(c, Counted(c) \cup {<<"execution", "failures">>}, "finished", r, s)
         /\ Accounts(c, Counted(c) \cup {<<"TOOL", "requests">>, <<"TOOL", "failures">>,
                                         <<"execution", "failures">>}, "finished", r, s)
         /\ r.type \in {"TOOL", "LLM"} /\ s.inner = "started" =>
              Accounts(c, Counted(c) \cup {<<r.type, "requests">>}, r.type, r, s)
BY DEF Accounts, Counted, Kinds, Adds, Opens, IsOpen, Suspended

\* What follows the assessment keeps the invariant: a is what was assessed with
\* the rules, v what the call remembers of it.
LEMMA DecidedKeeps ==
  ASSUME ExecInv, NEW c \in Calls, NEW r \in Requests, NEW a \in Assessment,
         NEW v \in Verdict, pc[c] \in {"new", "assessing"},
         Valid(r), NeedsAnalyzer(r) <=> v.from # "nobody",
         v.from = "analyzer" => v.level = a.level /\ v.factors = a.factors,
         Decided(c, r, Assessed(r, a), Counted(c)),
         request' = [request EXCEPT ![c] = r], verdict' = [verdict EXCEPT ![c] = v]
  PROVE  ExecInv'
<1>1. RulesSilent("finished", r, v) /\ RulesSilent(r.type, r, v)
  BY RequestValues DEF RulesSilent, NeedsAnalyzer, Valid
<1> spans[c].inner = "none"
  BY CallValues DEF Sound, Placed
<1>2. CASE Refused(c, Assessed(r, a), Counted(c))
  <2> DEFINE res == Failure(ApprovalBlockedError, "none")
             s == [execution |-> "error", inner |-> "none"]
  <2>1. /\ res \in ResultType /\ ~res.success /\ res.blocked
        /\ res.error = ApprovalBlockedError
    BY FailureValues, Errors
  <2> DEFINE names == Counted(c) \cup {<<"execution", "failures">>}
  <2>2. Becomes(c, "finished", r, v, res, s) /\ Count(names)
    BY <1>2, <2>1 DEF Refused, Ends, Becomes
  <2>3. Typed("finished", r, v, res, s)
    BY <2>1 DEF Typed, Place, Spans, SpanStatus
  <2> HIDE DEF res
  <2>4. Sound("finished", r, v, res, s)
    BY <1>1, <2>1 DEF Sound, Placed, Cleared, RefusedByApproval, SpansFit, Suspended
  <2>5. Accounts(c, names, "finished", r, s)
    BY AccountOfGates
  <2>6. QED
    BY <2>2, <2>3, <2>4, <2>5, OneCallMoves
<1>3. CASE ToolMissing(c, r, Assessed(r, a), Counted(c))
  <2> DEFINE res == Failure(ToolNotFoundError, "none")
             s == [execution |-> "error", inner |-> "error"]
  <2>1. /\ res \in ResultType /\ ~res.success /\ ~res.blocked
    BY FailureValues, Errors
  <2> DEFINE names == Counted(c) \cup {<<"TOOL", "requests">>, <<"TOOL", "failures">>,
                                       <<"execution", "failures">>}
  <2>2. Becomes(c, "finished", r, v, res, s) /\ Count(names)
    BY <1>3, <2>1 DEF ToolMissing, Ends, Becomes
  <2>3. Typed("finished", r, v, res, s)
    BY <2>1 DEF Typed, Place, Spans, SpanStatus
  <2> HIDE DEF res
  <2>4. Cleared(r, v, s)
    BY <1>3, NothingToApprove DEF ToolMissing, Cleared
  <2>5. Sound("finished", r, v, res, s)
    BY <1>1, <2>1, <2>4 DEF Sound, Placed, RefusedByApproval, SpansFit, Suspended
  <2>6. Accounts(c, names, "finished", r, s)
    BY AccountOfGates
  <2>7. QED
    BY <2>2, <2>3, <2>5, <2>6, OneCallMoves
<1>4. CASE Permitted(c, r, Assessed(r, a), Counted(c))
  <2> DEFINE s == [execution |-> "started", inner |-> "started"]
  <2> DEFINE names == Counted(c) \cup {<<r.type, "requests">>}
  <2>1. Becomes(c, r.type, r, v, result[c], s) /\ Count(names)
    BY <1>4, Unchanged DEF Permitted, Works, Becomes
  <2>2. Typed(r.type, r, v, result[c], s)
    BY RequestValues, CallValues DEF Typed, Place, Spans, SpanStatus, Suspended
  <2>3. Cleared(r, v, s)
    BY <1>4, NothingToApprove DEF Permitted, Cleared
  <2>4. Sound(r.type, r, v, result[c], s)
    BY <1>1, <2>3, RequestValues DEF Sound, Placed, RefusedByApproval, SpansFit, Suspended
  <2>5. Accounts(c, names, r.type, r, s)
    BY AccountOfGates, RequestValues
  <2>6. QED
    BY <2>1, <2>2, <2>4, <2>5, OneCallMoves
<1>5. QED
  BY <1>2, <1>3, <1>4 DEF Decided

LEMMA NoAnalysisTyped == NoAnalysis \in Assessment
BY DEF NoAnalysis, Assessment, RiskLevel, LOW, CRITICAL

LEMMA EnterKeeps ==
  ASSUME ExecInv, NEW c \in Calls, NEW r \in Requests,
         Reject(c, r) \/ EnterByRules(c, r) \/ EnterForAnalysis(c, r)
  PROVE  ExecInv'
<1>1. pc[c] = "new"
  BY DEF Reject, EnterByRules, EnterForAnalysis
<1>2. /\ Typed(pc[c], request[c], verdict[c], result[c], spans[c])
      /\ verdict[c] = NotConsulted /\ NotConsulted.from = "nobody"
      /\ spans[c] = [execution |-> "none", inner |-> "none"]
  BY <1>1, CallValues DEF Sound, Placed, NotConsulted
<1>3. verdict[c] \in Verdict /\ result[c] \in ResultType
  BY <1>2 DEF Typed
<1>4. CASE Reject(c, r)
  <2>1. Becomes(c, "raised", r, verdict[c], result[c], spans[c])
    BY <1>4, Unchanged DEF Reject, Becomes
  <2>2. Typed("raised", r, verdict[c], result[c], spans[c])
    BY <1>2 DEF Typed, Place
  <2>3. Sound("raised", r, verdict[c], result[c], spans[c])
    BY <1>2 DEF Sound, Placed, Cleared, RulesSilent, RefusedByApproval, SpansFit, Suspended
  <2>4. Count({}) /\ Accounts(c, {}, "raised", r, spans[c])
    BY <1>1, <1>4, Unchanged DEF Reject, Accounts, Adds, Opens, IsOpen, Suspended
  <2>5. QED
    BY <2>1, <2>2, <2>3, <2>4, OneCallMoves
<1>5. CASE EnterByRules(c, r)
  <2>1. /\ Valid(r) /\ ~NeedsAnalyzer(r)
        /\ request' = [request EXCEPT ![c] = r]
        /\ verdict' = [verdict EXCEPT ![c] = verdict[c]]
        /\ Decided(c, r, Assessed(r, NoAnalysis), Counted(c))
    BY <1>1, <1>5, Unchanged DEF EnterByRules, Counted
  <2>2. verdict[c].from = "nobody"
    BY <1>2
  <2>3. QED
    BY <1>1, <1>3, <2>1, <2>2, NoAnalysisTyped, DecidedKeeps
<1>6. CASE EnterForAnalysis(c, r)
  <2> DEFINE s == [execution |-> "started", inner |-> "none"]
  <2>1. /\ Becomes(c, "assessing", r, verdict[c], result[c], s)
        /\ Count({<<"execution", "requests">>})
    <3>1. spans' = [spans EXCEPT ![c] = [spans[c] EXCEPT !.execution = "started"]]
      BY <1>6 DEF EnterForAnalysis, ExecInv, ExecutionTypeOK
    <3>2. [spans[c] EXCEPT !.execution = "started"] = s
      BY <1>2
    <3>3. QED
      BY <1>6, <3>1, <3>2, Unchanged DEF EnterForAnalysis, Becomes
  <2>2. Typed("assessing", r, verdict[c], result[c], s)
    BY <1>3 DEF Typed, Place, Spans, SpanStatus, Suspended
  <2>3. Sound("assessing", r, verdict[c], result[c], s)
    BY <1>2, <1>6, RequestValues
       DEF EnterForAnalysis, Sound, Placed, Cleared, RulesSilent, RefusedByApproval, SpansFit,
           Suspended, NeedsAnalyzer, Valid
  <2>4. Accounts(c, {<<"execution", "requests">>}, "assessing", r, s)
    BY <1>1 DEF Accounts, Kinds, Adds, Opens, IsOpen, Suspended
  <2>5. QED
    BY <2>1, <2>2, <2>3, <2>4, OneCallMoves
<1>7. QED
  BY <1>4, <1>5, <1>6

\* The analyzer's answer, or its failure.
LEMMA AnalyzerKeeps ==
  ASSUME ExecInv, NEW c \in Calls, AnalyzerAnswers(c) \/ AnalyzerFails(c)
  PROVE  ExecInv'
<1>1. pc[c] = "assessing"
  BY DEF AnalyzerAnswers, AnalyzerFails
<1>2. Valid(request[c]) /\ NeedsAnalyzer(request[c])
  BY <1>1, CallValues DEF Sound, Placed
<1>3. request[c] \in Requests
  BY <1>2, CallValues DEF Typed, NoRequest, NeedsAnalyzer
<1>4. request' = [request EXCEPT ![c] = request[c]]
  BY Unchanged DEF AnalyzerAnswers, AnalyzerFails
<1>5. CASE AnalyzerAnswers(c)
  <2>1. PICK a \in Analyses :
          /\ verdict' = [verdict EXCEPT ![c] = Said(a)]
          /\ Decided(c, request[c], Assessed(request[c], a), Counted(c))
    BY <1>1, <1>5 DEF AnalyzerAnswers, Counted
  <2>2. a \in Assessment
    BY GateAssumption
  <2>3. /\ Said(a) \in Verdict /\ Said(a).from = "analyzer"
        /\ Said(a).level = a.level /\ Said(a).factors = a.factors
    BY <2>2 DEF Said, Verdict, Assessment
  <2>4. QED
    BY <1>1, <1>2, <1>3, <1>4, <2>1, <2>2, <2>3, DecidedKeeps
<1>6. CASE AnalyzerFails(c)
  <2>1. /\ verdict' = [verdict EXCEPT ![c] = Unavailable]
        /\ Decided(c, request[c], Assessed(request[c], NoAnalysis), Counted(c))
    BY <1>1, <1>6 DEF AnalyzerFails, Counted
  <2>2. Unavailable \in Verdict /\ Unavailable.from = "failure"
    BY DEF Unavailable, NotConsulted, Verdict, RiskLevel, LOW, CRITICAL
  <2>3. QED
    BY <1>1, <1>2, <1>3, <1>4, <2>1, <2>2, NoAnalysisTyped, DecidedKeeps
<1>7. QED
  BY <1>5, <1>6

\* The tool or the LLM is through: the result and the status of its span agree.
LEMMA WorkKeeps ==
  ASSUME ExecInv, NEW c \in Calls, pc[c] \in {"TOOL", "LLM"},
         NEW res \in ResultType, ~res.blocked \/ res.success,
         NEW outcome \in {"successes", "failures"},
         Count({<<pc[c], outcome>>, <<"execution", outcome>>}),
         Ends(c, res, IF res.success THEN "ok" ELSE "error"),
         UNCHANGED <<request, verdict>>
  PROVE  ExecInv'
<1> DEFINE status == IF res.success THEN "ok" ELSE "error"
           s == [execution |-> status, inner |-> status]
<1>1. /\ Typed(pc[c], request[c], verdict[c], result[c], spans[c])
      /\ Sound(pc[c], request[c], verdict[c], result[c], spans[c])
      /\ spans[c] = [execution |-> "started", inner |-> "started"]
  BY CallValues DEF Sound, Placed
<1>2. Becomes(c, "finished", request[c], verdict[c], res, s)
  BY Unchanged DEF Ends, Becomes
<1>3. status \in {"ok", "error"}
  OBVIOUS
<1>4. Typed("finished", request[c], verdict[c], res, s)
  BY <1>1, <1>3 DEF Typed, Place, Spans, SpanStatus
<1>5. Cleared(request[c], verdict[c], s) /\ RulesSilent("finished", request[c], verdict[c])
  BY <1>1 DEF Sound, Cleared, RulesSilent
<1>6. RefusedByApproval("finished", res, s) /\ SpansFit("finished", res, s)
  BY DEF RefusedByApproval, SpansFit, Suspended
<1>7. Placed("finished", request[c], verdict[c], s)
  BY DEF Placed
<1>8. Accounts(c, {<<pc[c], outcome>>, <<"execution", outcome>>}, "finished", request[c], s)
  <2>1. pc[c] = request[c].type
    BY <1>1 DEF Sound, Placed
  <2>2. QED
    BY <1>1, <2>1 DEF Accounts, Kinds, Adds, Opens, IsOpen, Suspended
<1> HIDE DEF s
<1>9. QED
  BY <1>2, <1>4, <1>5, <1>6, <1>7, <1>8, OneCallMoves DEF Sound

LEMMA FailsKeeps ==
  ASSUME ExecInv, NEW c \in Calls, pc[c] \in {"TOOL", "LLM"},
         NEW e \in AgentError, e.category # "APPROVAL_BLOCKED",
         NEW cause \in {"none", "authentication", "other"}, Fails(c, e, cause)
  PROVE  ExecInv'
<1>1. /\ Failure(e, cause) \in ResultType
      /\ ~Failure(e, cause).success /\ ~Failure(e, cause).blocked
  BY FailureValues
<1>2. QED
  BY <1>1, WorkKeeps DEF Fails

LEMMA ExecStep == ExecInv /\ [Next]_vars => ExecInv'
<1> SUFFICES ASSUME ExecInv, [Next]_vars PROVE ExecInv'
  OBVIOUS
<1>1. ASSUME NEW c \in Calls, Enter(c) PROVE ExecInv'
  BY <1>1, EnterKeeps DEF Enter
<1>2. ASSUME NEW c \in Calls, AnalyzerAnswers(c) \/ AnalyzerFails(c) PROVE ExecInv'
  BY <1>2, AnalyzerKeeps
<1>3. ASSUME NEW c \in Calls, WorkReturns(c) PROVE ExecInv'
  BY <1>3, WorkKeeps, SuccessValues DEF WorkReturns
<1>4. ASSUME NEW c \in Calls, ToolReturnsNothing(c) PROVE ExecInv'
  BY <1>4, FailsKeeps, Errors DEF ToolReturnsNothing
<1>5. ASSUME NEW c \in Calls, ToolRaises(c) PROVE ExecInv'
  BY <1>5, FailsKeeps, Errors DEF ToolRaises
<1>6. ASSUME NEW c \in Calls, LLMRaises(c) PROVE ExecInv'
  BY <1>6, FailsKeeps, Errors DEF LLMRaises
<1>7. ASSUME NEW c \in Calls, Cancel(c) PROVE ExecInv'
  <2>1. /\ Becomes(c, "cancelled", request[c], verdict[c], result[c], spans[c])
        /\ Count({}) /\ Accounts(c, {}, "cancelled", request[c], spans[c])
    BY <1>7, Unchanged DEF Cancel, Becomes, Accounts, Adds, Opens, IsOpen
  <2>2. Typed("cancelled", request[c], verdict[c], result[c], spans[c])
    BY CallValues DEF Typed, Place
  <2>3. Sound("cancelled", request[c], verdict[c], result[c], spans[c])
    BY <1>7, CallValues
       DEF Cancel, Sound, Placed, Cleared, RulesSilent, RefusedByApproval, SpansFit
  <2>4. QED
    BY <2>1, <2>2, <2>3, OneCallMoves
<1>8. CASE UNCHANGED vars
  BY <1>8 DEF vars, ExecInv, ExecutionTypeOK, MetricsBalance
<1>9. QED
  BY <1>1, <1>2, <1>3, <1>4, <1>5, <1>6, <1>7, <1>8 DEF Next, Resume

LEMMA ExecInvHolds == Spec => []ExecInv
<1>1. QED
  BY ExecStart, ExecStep, PTL DEF Spec

----------------------------------------------------------------------------
(* The theorems                                                            *)

\* Every call, result, span and counter keeps its type.
THEOREM ExecutionTypeCorrect == Spec => []ExecutionTypeOK
<1>1. ExecInv => ExecutionTypeOK
  BY DEF ExecInv
<1>2. QED
  BY <1>1, ExecInvHolds, PTL

\* No tool and no LLM is called for a request that the rules or the analyzer
\* object to, however many calls are interleaved (_check_approval).
THEOREM GatesHold == Spec => []FlaggedWorkNeverRuns
<1>1. ExecInv => FlaggedWorkNeverRuns
  BY DEF ExecInv, Sound, Cleared, FlaggedWorkNeverRuns
<1>2. QED
  BY <1>1, ExecInvHolds, PTL

\* A refused step ran nothing, and the reliability engine stops the run for it.
THEOREM RefusalsStop == Spec => []RefusalsAreFinal
<1>1. ASSUME NEW attempt \in 1..MaxStepAttempts
      PROVE  HandleFailure(ApprovalBlockedError, attempt) = "STOP"
  <2>1. Classify(ApprovalBlockedError) = "PERMANENT"
    BY DEF Classify, ApprovalBlockedError, TransientCategories, RecoverableCategories,
           PermanentCategories, FatalCategories, FlaggedCategories, OtherCategories
  <2>2. ~ShouldRetry("PERMANENT", attempt) /\ RecoveryAction("PERMANENT") = "STOP"
    BY DEF ShouldRetry, RecoveryAction
  <2>3. QED
    BY <2>1, <2>2 DEF HandleFailure
<1>2. ExecInv => RefusalsAreFinal
  BY <1>1 DEF ExecInv, Sound, RefusedByApproval, RefusalsAreFinal
<1>3. QED
  BY <1>2, ExecInvHolds, PTL

\* The risk analyzer is consulted about tools the rules are silent about only.
THEOREM AnalyzerIsLastResort == Spec => []AnalyzerOnlyWhereRulesAreSilent
<1>1. ExecInv => AnalyzerOnlyWhereRulesAreSilent
  BY DEF ExecInv, Sound, RulesSilent, AnalyzerOnlyWhereRulesAreSilent
<1>2. QED
  BY <1>1, ExecInvHolds, PTL

\* Spans are closed with the status of the result; only a cancelled call leaves
\* some open.
THEOREM SpansAreTrue == Spec => []SpansTellOutcome
<1>1. ExecInv => SpansTellOutcome
  BY DEF ExecInv, Sound, SpansFit, SpansTellOutcome
<1>2. QED
  BY <1>1, ExecInvHolds, PTL

\* The counters of Metrics add up however the calls are interleaved: requests are
\* successes, failures, calls in progress and calls that were cancelled.
THEOREM CountersBalance == Spec => []MetricsBalance
<1>1. ExecInv => MetricsBalance
  BY DEF ExecInv
<1>2. QED
  BY <1>1, ExecInvHolds, PTL

----------------------------------------------------------------------------
(* What the orchestrator gets from an execution: Orchestration assumes of  *)
(* its ExecErrors that they are error records, and tells a blocked         *)
(* execution by the category of the error.                                 *)

ExecutionErrors ==
  { ApprovalBlockedError, ToolNotFoundError, EmptyResultError, ToolExecutionError,
    LLMExecutionError }

FailuresAreKnown ==
  \A c \in Calls : pc[c] = "finished" /\ ~result[c].success =>
    /\ result[c].error \in ExecutionErrors
    /\ result[c].blocked <=> result[c].error.category = "APPROVAL_BLOCKED"

\* A result that a call may end with.
Known(res) ==
  ~res.success =>
    /\ res.error \in ExecutionErrors
    /\ res.blocked <=> res.error.category = "APPROVAL_BLOCKED"

LEMMA EndsKnown ==
  ASSUME ExecutionTypeOK, FailuresAreKnown, NEW c \in Calls, NEW res, NEW inner,
         Ends(c, res, inner), Known(res)
  PROVE  FailuresAreKnown'
BY DEF ExecutionTypeOK, FailuresAreKnown, Ends, Known

LEMMA SuspendsKnown ==
  ASSUME ExecutionTypeOK, FailuresAreKnown, NEW c \in Calls, NEW place,
         pc' = [pc EXCEPT ![c] = place], place # "finished", UNCHANGED result
  PROVE  FailuresAreKnown'
BY DEF ExecutionTypeOK, FailuresAreKnown

LEMMA FailureKnown ==
  ASSUME NEW error \in ExecutionErrors, NEW cause
  PROVE  Known(Failure(error, cause))
BY DEF Known, Failure

LEMMA DecidedKnown ==
  ASSUME ExecutionTypeOK, FailuresAreKnown, NEW c \in Calls, NEW r, NEW assessment,
         NEW counted, Decided(c, r, assessment, counted), r.type \in {"TOOL", "LLM"}
  PROVE  FailuresAreKnown'
<1>1. ApprovalBlockedError \in ExecutionErrors /\ ToolNotFoundError \in ExecutionErrors
  BY DEF ExecutionErrors
<1>2. CASE Refused(c, assessment, counted)
  BY <1>1, <1>2, EndsKnown, FailureKnown DEF Refused
<1>3. CASE ToolMissing(c, r, assessment, counted)
  BY <1>1, <1>3, EndsKnown, FailureKnown DEF ToolMissing
<1>4. CASE Permitted(c, r, assessment, counted)
  BY <1>4, SuspendsKnown DEF Permitted, Works
<1>5. QED
  BY <1>2, <1>3, <1>4 DEF Decided

LEMMA KnownStep == ExecutionTypeOK /\ FailuresAreKnown /\ [Next]_vars => FailuresAreKnown'
<1> SUFFICES ASSUME ExecutionTypeOK, FailuresAreKnown, [Next]_vars PROVE FailuresAreKnown'
  OBVIOUS
<1>1. ASSUME NEW c \in Calls, Enter(c) PROVE FailuresAreKnown'
  <2>1. PICK r \in Requests : Reject(c, r) \/ EnterByRules(c, r) \/ EnterForAnalysis(c, r)
    BY <1>1 DEF Enter
  <2>2. r.type \in {"TOOL", "LLM"}
    BY GateAssumption DEF Request
  <2>3. CASE EnterByRules(c, r)
    BY <2>2, <2>3, DecidedKnown DEF EnterByRules
  <2>4. CASE Reject(c, r) \/ EnterForAnalysis(c, r)
    BY <2>4, SuspendsKnown DEF Reject, EnterForAnalysis
  <2>5. QED
    BY <2>1, <2>3, <2>4
<1>2. ASSUME NEW c \in Calls, AnalyzerAnswers(c) \/ AnalyzerFails(c) PROVE FailuresAreKnown'
  <2>1. request[c].type \in {"TOOL", "LLM"}
    BY GateAssumption DEF Request, ExecutionTypeOK, NoRequest
  <2>2. PICK a : Decided(c, request[c], Assessed(request[c], a), {})
    BY <1>2 DEF AnalyzerAnswers, AnalyzerFails
  <2>3. QED
    BY <2>1, <2>2, DecidedKnown
<1>3. ASSUME NEW c \in Calls, WorkReturns(c) PROVE FailuresAreKnown'
  <2>1. Ends(c, Success, "ok") /\ Known(Success)
    BY <1>3, SuccessValues DEF WorkReturns, Known
  <2>2. QED
    BY <2>1, EndsKnown
<1>4. ASSUME NEW c \in Calls, ToolReturnsNothing(c) \/ ToolRaises(c) \/ LLMRaises(c)
      PROVE  FailuresAreKnown'
  <2>1. PICK error \in ExecutionErrors, cause \in {"none", "authentication", "other"} :
               Fails(c, error, cause)
    BY <1>4 DEF ToolReturnsNothing, ToolRaises, LLMRaises, ExecutionErrors
  <2>2. Ends(c, Failure(error, cause), "error")
    BY <2>1 DEF Fails
  <2>3. QED
    BY <2>2, EndsKnown, FailureKnown
<1>5. ASSUME NEW c \in Calls, Cancel(c) PROVE FailuresAreKnown'
  BY <1>5, SuspendsKnown DEF Cancel
<1>6. CASE UNCHANGED vars
  BY <1>6 DEF vars, FailuresAreKnown
<1>7. QED
  BY <1>1, <1>2, <1>3, <1>4, <1>5, <1>6 DEF Next, Resume

\* An execution that fails returns one of five errors, however its call was
\* interleaved with others, and is blocked if and only if the error says so.
THEOREM FailuresFitOrchestration ==
  ExecutionErrors \subseteq AgentError /\ (Spec => []FailuresAreKnown)
<1>1. ExecutionErrors \subseteq AgentError
  BY Errors DEF ExecutionErrors
<1>2. Init => FailuresAreKnown
  BY DEF Init, FailuresAreKnown
<1>3. QED
  BY <1>1, <1>2, KnownStep, ExecutionTypeCorrect, PTL DEF Spec

\* What the reliability engine makes of a failed execution.
DecidedAs(error, attempt) ==
  CASE error \in {ToolExecutionError, LLMExecutionError} ->
         IF attempt < MaxStepAttempts /\ attempt < RetryMaxAttempts THEN "RETRY" ELSE "STOP"
    [] error \in {ToolNotFoundError, EmptyResultError} -> "REPLAN"
    [] error = ApprovalBlockedError -> "STOP"

LEMMA DecisionsOnErrors ==
  ASSUME NEW error \in ExecutionErrors, NEW attempt \in Nat
  PROVE  HandleFailure(error, attempt) = DecidedAs(error, attempt)
<1> USE DEF ApprovalBlockedError, ToolNotFoundError, EmptyResultError, ToolExecutionError,
            LLMExecutionError
<1>1. /\ Classify(ToolExecutionError) = "TRANSIENT" /\ Classify(LLMExecutionError) = "TRANSIENT"
      /\ Classify(ToolNotFoundError) = "RECOVERABLE"
      /\ Classify(EmptyResultError) = "RECOVERABLE"
      /\ Classify(ApprovalBlockedError) = "PERMANENT"
  BY DEF Classify, TransientCategories, RecoverableCategories, PermanentCategories,
         FatalCategories, FlaggedCategories, OtherCategories
<1>2. QED
  BY <1>1 DEF ExecutionErrors, HandleFailure, ShouldRetry, RecoveryAction, DecidedAs

\* A tool or an LLM that fails is retried while attempts are left and then stops
\* the run: it is never planned around, unlike a missing tool or an empty result,
\* which are never retried; a refusal is neither.
THEOREM FailuresAreDecided ==
  Spec => [](\A c \in Calls : pc[c] = "finished" /\ ~result[c].success =>
               \A attempt \in Nat :
                 HandleFailure(result[c].error, attempt) = DecidedAs(result[c].error, attempt))
<1>1. FailuresAreKnown =>
        \A c \in Calls : pc[c] = "finished" /\ ~result[c].success =>
          \A attempt \in Nat :
            HandleFailure(result[c].error, attempt) = DecidedAs(result[c].error, attempt)
  BY DecisionsOnErrors DEF FailuresAreKnown
<1>2. QED
  BY <1>1, FailuresFitOrchestration, PTL
=============================================================================
