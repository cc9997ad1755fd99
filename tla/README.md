# Verification of the GAIA agent

TLA+ models of the agent in `src/src/gaia_agent`, model-checked with TLC and, for the
properties that matter most, proved with TLAPS for every value of the constants.
Paths below are relative to `src/src/gaia_agent` in the repository.

## The system

`main.create_agent` assembles one `AgentLoop` from an `Orchestrator` and a
`TerminationPolicy`. A caller (the evaluation runner, `main`, a test) builds an
`AgentState` with a request and awaits `AgentLoop.run(state)`. The loop asks the policy
whether to stop and otherwise lets the orchestrator take one step, until a step's outcome
ends the run. Everything is one asyncio coroutine.

| component | state it keeps | operations | interacts through |
|---|---|---|---|
| agent loop (`core/agent_loop.py`) | the bound state and run | `run_agent`, outcomes, cleanup | awaits `Orchestrator.start/step`, writes `AgentState` |
| agent state (`core/agent_state.py`) | phase, plan mirror, answer, flags | `transition` by a table | read by callers and policies, written by loop and orchestrator |
| termination policy (`core/policies/termination.py`) | limits | `evaluate` | pure, called at the head of each turn |
| orchestrator (`core/orchestration/`) | `OrchestrationContext`, `PlanRuntime` | `step`: plan, execute, handle failure, replan, verify | awaits context builder, planner, execution, retry delay, verifier |
| reliability (`reliability/`) | limits | classify, retry, recover | called with the error of an execution |
| loop detector (`reliability/loop_detector.py`) | signatures of executed steps | check, record, reset, check_plan | shared by orchestrator and planner, by all runs of an agent |
| agent execution (`core/agent_execution.py`, `core/policies`, `core/risk`) | counters, spans | policy, risk, approval, tool or LLM | called by the orchestrator, calls tools and LLM |
| planner (`planner/`) | last analysis, files | `create_plan`, `replan`, validation, fallbacks | called by the orchestrator, calls the LLM |
| verifier (`agents/`) | none | filter evidence, deterministic and semantic verification | called with the run's evidence |
| tools, registry, artifacts (`tools/`, `core/evidence.py`) | registered tools, artifacts | dispatch, contracts | called by agent execution |
| context (`context/`) | none | build, compress, validate against a budget | called at the head of each step |
| conversation, memory, database | stored messages and memories | append, list, search | sources of the context, mostly switched off |
| LLM client, observability | spans, usage | generate; emit, start/end span | called by all of the above |
| evaluation runner (`evaluation/`) | records of questions | stage, ask, time out, record, submit | owns the agent and one state per question |

What is hard here, and therefore what the properties are about:

* **The answer is exposed before it is judged.** `_verify` writes the candidate to the state,
  then awaits the verifier. Cancellation, exceptions and stops happen at that await.
* **State is kept twice** (`AgentState` and `OrchestrationContext`), and outcomes are applied
  twice (`_verify` and `_complete`, `Orchestrator._fail` and `AgentLoop._fail`).
* **Three budgets interlock**: attempts per step, verifications, replans; each sends the loop
  around again, and the loop must still end.
* **A state can be run again** after it was blocked, cancelled, completed or failed; the policy
  then reads what the previous run left.
* **A failure changes its shape on the way**: gates, tool and LLM failures are wrapped twice and
  classified once, and what the classifier does not see decides nothing.
* **The agent is shared** by all questions of an evaluation, each with a time limit that may
  expire at any await.
* **What counts as evidence is inferred** from stamps on the results: attempts that start over
  with each step, plan versions that go up with each replan.
* **The planner contradicts itself**: plans by rule, fallbacks and alternatives go through the same
  validators as the LLM's plans, and what is turned down at the end leaves no plan.

`PROJECT.json` lists the hazards one by one, at the lines where they bite.

## The modules

| module | models | form |
|---|---|---|
| `Reliability` | error records, classification, retry and recovery decisions, the errors the orchestrator makes | operators |
| `AgentPhases` | phases, the transition table, the termination policy | operators |
| `LoopDetector` | check, record and check_plan over a relation of alike signatures | operators |
| `Orchestration` | one state driven by the loop and the orchestrator; the core | state machine |
| `TaskContract` | abstract: what a caller may rely on | state machine |
| `Evaluation` | the questions of an evaluation around `Orchestration` | state machine |
| `OfficialRun` | an official run around `Evaluation`: fetching, staging, writing, submitting | state machine |
| `AgentExecution` | the gates before a tool or the LLM, and the calls behind them | state machine |
| `Strategy` | the classifier's rules, forbidden tools, the strategy selector, file selection | operators |
| `Planner` | the planner's validators, plans by rule, `create_plan` and `replan` | state machine |
| `Verifier` | the evidence filter, the rules, what is made of the LLM's judgement | operators |
| `Verification` | the evidence of a run and the answers judged on it | state machine |
| `MCOrchestration`, `MCEvaluation`, `MCOfficialRun`, `MCAgentExecution`, `MCPlanner`, `MCVerification` | small instances for TLC | |
| `Orchestration_proofs`, `Progress_proofs`, `Evaluation_proofs`, `OfficialRun_proofs`, `AgentExecution_proofs`, `Planner_proofs`, `Verification_proofs` | theorems | |

`Orchestration`, `Evaluation` and `AgentExecution` use `Reliability` for the errors that travel
between them. `Orchestration` allows any error of its constant `Errors` as the result of an
execution; the instance takes them from the errors `AgentExecution` makes.
`OfficialRun` extends `Evaluation`, which extends `Orchestration`: the three form one system.
`Planner` and `Verification` model what `Orchestration` leaves open, the answers of the planner
and the verifier, each with as much of the orchestrator around it as it depends on.

### Orchestration

The variable `pc` is where the coroutine is: at one of six awaits (`context`, `planning`,
`executing`, `backoff`, `verifying`, `replanning`), about to take another turn of the loop
(`loop`), or not running (`idle`). What the code does between two awaits is one action, because
nothing else can run then; from `loop` only the agent moves. `state` is the part of `AgentState`
that decides anything, `run` is `OrchestrationContext` with its `PlanRuntime`, `history` the loop
detector's list. `approved` and `done` are history variables: answers the verifier verified, and
steps of the run that succeeded. `stop` holds the flags `human_aborted`, `explicit_stop` and
`timed_out`; `result` says how the latest `run_agent` ended.

| action | code |
|---|---|
| `Run`, `Cancel`, `RaiseStop` | the caller: `run_agent` with `Orchestrator.start`; `CancelledError` at an await; a flag set on the state |
| `LoopEnds`, `PolicyTerminates`, `StepRefused`, `StepBegins` | a turn of the loop and the head of `step` |
| `PlanRequested`, `PlanInstalled`, `PlanInstalledOutsidePlanning`, `PlannerGivesUp` | `_plan` |
| `ExecutionStarts`, `RepeatedStepFails`, `StepCompletes`, `ExecutionBlocked` | `_execute` |
| `ExecutionFails`, `BackoffEnds` | `_handle_failure`, with the decision of the reliability engine |
| `ReplanOrFail` (operator), `ReplacementInstalled` | `_replan` |
| `AnswerProposed`, `AnswerVerified`, `AnswerRejected` | `_verify`, with what the loop does with the outcome |
| `StepRaises` | the `except Exception` of `step` |

Abstractions:

* A plan is the sequence of the signatures of its steps before the final one; the final step,
  which every valid plan has, is implicit. The planner may answer with any plan that does not
  repeat itself, the only rule of its validation that the orchestrator's behaviour depends on.
  This allows more replacement plans than the planner's own comparison with the failed step does.
* Two signatures are alike if a relation says so. The code compares normalised JSON exactly,
  then by similarity; similarity is neither symmetric nor transitive, so the relation is only
  assumed to be reflexive.
* `blocked` stands for `blocked` and `waiting_for_approval`, which are always set together.
* An invalid plan (`InvalidPlan`, `InvalidReplannedPlan`) has the same effect on the state as an
  exception of the planner: a fatal failure with nothing installed. `StepRaises` covers it.
* Branches that no reachable state takes are left out: an execution that fails without an error,
  an empty final answer (the execution rejects it first), the outcome `plan_complete`,
  `InvalidReplanLifecycle`, `MissingTaskAnalysis`, the `RuntimeError`s of `_complete`, the
  `recovery_operation` of the engine, `allow_replanning=False`. `PlanProgress` and
  `PhaseFitsAwait` are why the third and the fourth are unreachable.
* `run` and `history` keep their values when no run is in progress; nothing reads them then.

### TaskContract

A task is open, answered, failed or stopped. One candidate at a time is on the table; it becomes
the answer as it stands, by acceptance, or it is withdrawn before the next one is proposed; a
failed task is never reopened. `Orchestration` implements it with status read from the phase,
candidate from `final_answer` and `accepted` from `approved`.

### Evaluation

`evaluate_questions` takes the questions in order; `evaluate_single_question` builds a fresh
`AgentState`, runs the agent under `asyncio.wait_for` and records what the state holds; at the
end the rows to submit are built. `Evaluation` extends `Orchestration`: `Works` is a step of
the agent, `Timeout` is `Cancel` with the error noted, `Refused` is the `ValueError` for a blank
request. `verdicts` is a history variable: which answers were proposed and approved for which
question. Python delivers the cancellation at the await the agent is suspended at; no handler in
the repository catches `CancelledError`.

### OfficialRun

`run_official_evaluation` and the client it uses (`evaluation/gaia.py`), around `Evaluation`, whose
steps are its steps of the phase `asking`.

| action | code |
|---|---|
| `QuestionsArrive`, `RequestFails` | `fetch_questions`; any error of `_request` that is not a 404 for a file |
| `NothingDeclared`, `AttachmentArrives`, `AttachmentIsAbsent`, `StagingEnds` | `stage_attachments`, `fetch_question_file`, `_find_local_attachment` |
| `EvaluatorAsks`, `AgentWorks`, `LimitExpires` | `evaluate_questions`, the agent, `wait_for` |
| `WriteResults`, `Submit` | the result files; `submit`, if the user asks for it |

`directory` is the staging directory: under each name the bytes of the question they came with.
Attachments of all questions are staged before the first is asked, also of those the limit then
cuts off (`Fetched` and `NumQuestions`). The packaged directory, in contrast, has a subdirectory
for each task.

### Strategy and Planner

A question is the record of what the classifier's patterns and keyword lists find in it, together
with what the planner looks for in its text: a URL, code it can synthesise, files it names, a word
such as "attached". From it `Strategy` derives the intent by the first rule that fits, the
forbidden tools and the strategy. A plan is the sequence of its steps before the final one; a step
is its tool, what it says of a file (its path or its base name) and what its other arguments are
like.

| action | code |
|---|---|
| `CreateByRule`, `CreateAsks` | `create_plan` up to the LLM call: `_sync_available_files`, `_classify`, `select`, `_deterministic_plan` |
| `DraftAccepted`, `DraftReplaced` | the LLM's plan, or its repair, if valid; the emergency fallback otherwise |
| `StepFails` | the orchestrator's `_replan` within its budget, up to the LLM call of `replan` |
| `RedraftAccepted`, `RedraftByRule`, `RedraftFromEvidence`, `RedraftGivesUp` | the LLM's plan, the alternative strategy, an answer from evidence, `PlannerRecoveryRequired` |

`Valid` is the conjunction of the planner's and the semantic validator's rules. The order of the
checks does not matter, since each of them only raises, except that the steps are repaired first:
what a step of a file tool says of its file is checked as written (`FileResolves`), then the listed
file it leads to takes its place (`Resolved`, `Repaired`), and everything else is about the repaired
plan, which is also the one installed. The path put in place is not judged again, so a listed file
whose path looks like a placeholder is turned down if the plan names it by its path, as the plans by
rule do, and accepted if an LLM names it by its base name. The tool then turns it down
(`tools/files.py:101`), a failure like any other. Files named to other tools (`transcribe_audio`) are
checked by nobody but the tool.

Abstractions:

* Whether the LLM call fails, returns malformed text that the repair turns into a plan, or returns
  a plan, is one choice: a reply that is valid, or none. `_has_successful_evidence` searches the
  context's text, so both of its answers are possible.
* `rejected` stands for any exception that leaves the planner; the orchestrator turns all but
  `PlannerRecoveryRequired` into a fatal failure (`Orchestration.StepRaises`).
* `_normalize_arguments` renames arguments by aliases it looks up at the top level of a JSON schema,
  where no tool has them, so it changes nothing and is left out.
* `semantic_validator.py` as stored does not parse: the class `SemanticPlanError` in line 11 has no
  body. The model takes it for an empty class, as the imports and tests of the repository do.
* The loop detector that validation asks (`check_plan`) is `LoopDetector` with a relation of
  alike steps, as in `Orchestration`.

### Verifier and Verification

A result of a tool is what the rules look for in it: an answer field, numbers labelled as final or
as incidental, all its numbers, a word for intermediate values, and the number or text it is as a
whole. `Verifier` holds the passes of the filter that can drop anything (attempt, plan version),
the rules for fields, computations, labels and texts in their order, and the checks on the LLM's
judgement. `Verification` is the life of a run: steps succeed and append results, steps are retried,
plans replaced, an answer is judged, rejected and proposed again.

| action | code |
|---|---|
| `StepSucceeds`, `StepFails` | `_execute`, `_handle_failure`, the stamps of `_build_tool_result` |
| `Answer`, `RejectEmpty` | the final step; `_verify` for an empty answer |
| `RejectUnsupported`, `ApplyRules` | `VerifierAgent.verify` up to the LLM |
| `Judge`, `JudgeFails` | `_semantic_verify` with `_validate_llm_result`; an exception of the LLM |
| `Replan` | `_replan` within its budget |

Numbers are equal up to formatting and tolerance (`Numbers`), texts up to case and white space.
The final step may also be blocked or fail like any other; which failures lead where is
`Orchestration`'s business, so `StepFails` leaves it open.

### AgentExecution

One `AgentExecution` serves all calls of `execute`, and they may interleave at three awaits: the risk
analyzer, the tool and the LLM. For each call `pc` says at which of them it is suspended
(`assessing`, `TOOL`, `LLM`), or that it is `new`, or how it ended (`finished`, `raised`,
`cancelled`). The calls share the counters and the tracer. The repository starts no call before the
last one ended; the module allows it, as the interface does.

| action | code |
|---|---|
| `Reject` | `_validate_request` raises |
| `EnterByRules` | `execute` with the execution policy, the rules and the approval policy, up to the tool or the LLM: no await in between |
| `EnterForAnalysis` | the same up to the analyzer, which `RiskAssessor.assess` asks about a tool the rules are silent about |
| `AnalyzerAnswers`, `AnalyzerFails` | the rest of `assess`, then `_check_approval` and the call |
| `WorkReturns`, `ToolReturnsNothing`, `ToolRaises`, `LLMRaises` | the ends of `_execute_tool` and `_execute_llm`, with what `execute` makes of them |
| `Cancel` | `CancelledError` at an await; the handlers catch `Exception` only |

Abstractions:

* A request is its type, its tool and the set of risk factors whose keywords occur in it. Tool
  names are taken in lower case: the rules lower them before they ask the registry, which does not,
  and every tool of the repository has a lower-case name.
* Left out because the assembled agent cannot take them: gates that raise (the rules and the
  policies do not), the policy's denial and `UnsupportedStepType` (validation rejects such requests
  first), `InvalidLLMOutput` and an empty LLM text (`LLMExecutor` raises before), an `AgentError`
  raised by a tool (no tool raises one).
* `Cancel` at `TOOL` allows more than the code: a synchronous tool is not suspended anywhere.
* The result is its success, its error and whether it is blocked; the shape of tool results, their
  evidence and the events are left out.

## What the runs check

| run | configuration | checks |
|---|---|---|
| `agent_safety` | `MCOrchestration.cfg` | the safety properties of `Orchestration` and the contract |
| `agent_progress` | `MCProgress.cfg` | every run ends, within its budgets |
| `resumed_state` | `MCResume.cfg` | finds the plan installed outside the planning phase |
| `evaluation` | `MCEvaluation.cfg` (`MCOfficialRun`) | attachments, records, submission; the official run ends unless a tool hangs |
| `salvaged_answers` | `MCSalvage.cfg` | finds the unverified answer that is submitted after a timeout |
| `execution_gates` | `MCExecution.cfg` | nothing the gates object to runs; counters and spans tell what happened |
| `toolless_steps` | `MCToolless.cfg` | finds the step without a tool that is held up for approval |
| `refused_credential` | `MCCredential.cfg` | finds the refused credential that is retried |
| `verification` | `MCVerification.cfg` | what an accepted answer rests on |
| `retried_step` | `MCRetriedStep.cfg` | finds the contradiction that goes unheard after a retry |
| `planner` | `MCPlanner.cfg` | what an installed plan promises |
| `unplanned` | `MCUnplanned.cfg` | finds the local question that gets no plan |

Bounds, and why they are enough:

* `agent_safety`: three steps, of which `s2` counts as a repetition of `s1` but not conversely;
  plans of zero, one and two steps before the final one; two answers; four errors, one for each
  decision (retry, replan, stop, blocked), with budgets of 3 attempts, 2 verifications and 2
  replans. The state is run twice, so each way a run can end is followed by a second run. The
  iteration limit of 10 is reached. 410,476 states.
* `agent_progress`: plans of at most two steps with the final one, 2 attempts, 1 replan,
  iteration limit 14 while the budgets allow 9: `WorkIsBounded` holds because the budgets end the
  run, not the limit. 10,318 states. With the deployed constants (20 steps, 3 attempts, 3
  replans, `main.py`) the same bound is 241, far above `max_iterations=20`; there the limit ends
  long runs.
* `evaluation`: a real question, a blank one and another real one, so that a question follows
  every way its predecessor can end. The two real ones declare attachments that the server gives
  the same name, and only the third is packaged, so each outcome of staging occurs. The detector remembers
  one step (the deployed one 50), so that it forgets within a run. 884,665 states.
* `verification`: two numbers that can contradict each other, one text, and one result for each
  thing the rules look for; up to two steps per plan, three results per run, two attempts, one
  replan, two verifications, so that a result can be of another attempt, of another plan, or both.
  1,031,496 states. `retried_step` uses the same instance.
* `planner`: the tools the repository registers; two spreadsheets of the same base name, an image, and
  a recording whose path looks like a placeholder; one question for each way of planning; replies of
  up to two steps, valid and invalid in each way, with files named by path and by base name; plans of
  at most three steps, two replans, and any set of files in each context. 223,622 states. `unplanned` uses the same instance.
* `execution_gates`: three calls (two that interleave and one that finds what they left), a
  harmless tool, a writing tool and an unknown one, each with no keyword, a mandatory factor and
  one of medium level; LLM steps with and without a keyword; both malformed requests; analyses
  below the threshold, at it, and below it with a mandatory factor. The threshold is MEDIUM, the
  default of `ApprovalPolicy`, which `main.py` takes. The calls are symmetric, and the run checks invariants only. 15,180 states.
* `toolless_steps`, `refused_credential`: one call suffices.

`CHECK_DEADLOCK FALSE` everywhere: the caller may stop calling, the number of runs is bounded
(`MaxRuns`), a terminated state cannot be run, and the evaluation comes to its end.

`PlanProgress` and `StateMirrorsRun` relate the two copies of the plan's progress;
`NoRepeatedExecution` and `DetectorRemembersThisRun` are about the shared detector;
`BudgetsHold`, `VersionCountsReplans` and `WorkIsBounded` about the budgets;
`VerifiedAnswerOnly`, `NoStaleCandidate`, `RecordsAreOwn` and `ApprovedAnswersAreRecorded` about
answers; `StopIsHonoured`, `PolicyNeverJudgesAnswers`, `CompletedIsFinal` and `FailureIsFinal`
about states that are run again. `FlaggedWorkNeverRuns` and `RefusalsAreFinal` relate
the gates to what ran and to what the orchestrator will do next, `MetricsBalance` and
`SpansTellOutcome` what happened to what was reported of it, over interleaved and cancelled calls.
`AskedWithAttachment` says when a question can be asked without its file or with another one,
`SubmittedIsWritten` that a submission that is refused loses nothing. `AnswersRestOnTools`,
`EvidenceIsCurrent`, `ConflictNeedsResolution` and `CoincidenceNeedsJudge` relate a verdict to the
evidence, whose stamps were made many steps earlier. `PlansAreRunnable`, `GroundedInTask` and
`RecoveryChangesCourse` say of all ways to a plan together what each validator says of one aspect.
`PolicyNeverJudgesAnswers` also shows that two rules of the
termination policy (`completed`, `answer_unverified_budget`) are dead code in the assembled agent.

### Fairness

`FairSpec` (`agent_progress`) assumes weak fairness of the agent's steps: each awaited call
answers sooner or later. The LLM client has an HTTP timeout and the delay of a retry is bounded. The
tools set no limit of their own, and what `python_interpreter` executes (`tools/python.py:189`) may
run forever: that tools return is an assumption that the code does not enforce. Nothing is
assumed of the caller, who need not cancel or raise a flag.

`OfficialSpec` (`evaluation`) assumes less: the code between two awaits runs, the client's requests
are answered or time out (its HTTP client has a timeout), and the timer of `wait_for` fires if the
agent stays suspended where no tool may be running. A call that the agent awaits may hang forever, a
tool may hang forever, and nobody need submit. Tools are synchronous functions called on the event
loop (`tools/registry.py:86`), so until one returns the timer cannot fire; `ToolMayRun` is the
execution of any step before the final one, since the model does not tell the steps' types
apart. `OfficialRunEnds` then says that a run which gets past its requests leaves a row for each
question on disk, unless such a step is executed and never comes back (`<>[]ToolMayRun`). The
exception is needed: without it TLC finds the run in which a tool hangs. The safety properties are
checked with the limit expiring at every await, `executing` included, where the risk analyzer and the
LLM are awaited.

### Findings

1. `_install_planning_result` installs the plan in the run context before it checks the phase, so
   a state that was blocked for approval or cancelled in the middle of a step cannot be
   continued: running it again installs a plan and then fails fatally (`resumed_state`).
2. A question that times out while its answer is being verified is submitted with that answer,
   while the module's docstring says that failures are recorded as an empty answer
   (`salvaged_answers`).
3. The rules of the risk assessment look at the words of steps without a tool too: a final step
   "Write the answer" needs an approval nobody can give, while the regression test for such steps
   says that a step with no tool needs no approval (`toolless_steps`).
4. Every exception of the LLM client, a refused credential included, becomes a retryable
   `LLM_FAILURE`, while the test of the classifier says that a refused credential should not lead
   to retries (`refused_credential`).
5. The evidence filter takes the attempt number of the newest result for the attempt of the run,
   but attempts are counted per step. After a retry the results of the plan's other steps are not
   heard, and a number that one of them contradicts is accepted without the judge, while the
   verifier's test asserts that such results conflict (`retried_step`).
6. For a computation or a text question about an attachment that no code can be synthesised for,
   the emergency fallback reads the file and the semantic validator turns that down: `create_plan`
   raises, while its regression test says that it always returns a plan for these tasks
   (`unplanned`).

## What is proved

By TLAPS, for all values of the constants that satisfy their assumptions.

**`Orchestration_proofs`.** `TypeOK` is not inductive alone: a step is executed by its index into
the plan, and a verdict copies the candidate into the finished state. `TypeInv` adds that an
executing agent has a current step and that a verifying agent holds an answer. `PhaseInv` adds
`PhaseFitsAwait`, what the agent waits for fits the phase of its state: every guard on the phase
after an await is then decided. From `PhaseInv` the lemma `Lifecycle` reduces the next-state
relation to nine kinds of step (`Stays`, `Starts`, `GetsPlan`, `Replans`, `Proposes`, `Accepts`,
`Withdraws`, `Fails`, `Stops`), each by what it does to the phase, the answer and the verifier's
approvals. The rest follows from those nine:

| theorem | states |
|---|---|
| `TypeCorrect` | `[]TypeOK` |
| `PhaseAlwaysFits` | `[]PhaseFitsAwait` |
| `AnswersAreVerified` | `[]VerifiedAnswerOnly` |
| `CandidatesAreFresh` | `[]NoStaleCandidate` |
| `TransitionsAreAllowed` | `PhasesFollowTable`: `transition` never raises |
| `CompletionIsFinal` | `CompletedIsFinal` |
| `FailuresStay` | `FailureIsFinal` |
| `AgentImplementsContract` | the agent implements `TaskContract` |

**`Progress_proofs`** follows a run through its plans. The lemma `Progress` reduces the next-state
relation to the fourteen ways a step changes the context of a run (`ProgressStep`), each by what it
does to the plan, the three counters, the mirror on the state and the detector's list. On these
shapes rest:

* `RunInv`, that is `PhaseInv` with `PlanInv`, `BudgetInv` and `MirrorInv`. `BudgetsHold` is not
  inductive: what has to be added is that wherever a budget can still be spent, something is left
  in it. `VersionCountsReplans` needs that the first plan is asked for only without one, and
  `StateMirrorsRun` that the mirror is right from the installation of the plan on, the iteration
  only from the head of the step on.
* `WorkInv`. `Spent` counts the attempts that the plans so far account for: all of those of a
  replaced plan and of a completed step, the counted ones of the current step. An iteration is
  one of these, except the first and the one that has not reached its execution. `SpentBounds`
  compares that with the configuration.
* `MemoryInv`: the detector's list is the end of the list of executed steps, as long as it can be.
  `NotDetected` carries the check of a step to its execution and its retries.
* `OutcomeInv`: a state that is not past deciding has verifications left (`VerificationsLeft`), so
  the last verdict it may get completes the task or fails it for good.
* `StepsLeft`: five for each iteration left and what is left of the current one. Each action of the
  agent takes some of it away (`StepsLeftSpent`). This is the safety part of `RunEnds`.

| theorem | states |
|---|---|
| `PlansProgressInOrder` | `[]PlanProgress` |
| `VersionsCountReplans` | `[]VersionCountsReplans` |
| `BudgetsAreKept` | `[]BudgetsHold` |
| `StateShowsRun` | `[]StateMirrorsRun` |
| `WorkStaysBounded` | `[]WorkIsBounded` |
| `RunsStayWithinConfiguration` | a run iterates at most `1 + (MaxReplans + 1) * MaxPlanSteps * MaxStepAttempts` times, and at most `MaxIterations` times |
| `RecentExecutionsDiffer` | no step is like one of the `MaxHistory` latest that succeeded in the run |
| `NoStepIsRepeated` | `[]NoRepeatedExecution`, if `MaxIterations <= MaxHistory` |
| `StopsAreHonoured` | `StopIsHonoured` |
| `ReturnsAreDecided` | `[]ReturnIsDecided` |
| `OrchestratorJudgesAnswers` | `[]PolicyNeverJudgesAnswers`, if `MaxVerificationAttempts <= PolicyVerificationAttempts` |
| `RunsUseUpSteps` | an action of the agent leaves fewer of at most `5 * MaxIterations + 1` steps, and only `Run` gives more |

Two of them have a hypothesis on the configuration, and need it. `main.py` sets `max_iterations=20`
(line 175) and `max_history=50` (line 217): with a shorter history a step could be executed again
once it is forgotten. It sets `max_verification_attempts=2` twice (lines 176 and 303): if the policy
permitted fewer than the orchestrator, its rule would end runs that have verifications left.

**`Evaluation_proofs`.** Each step of the evaluation is a step of `Orchestration`, a stutter of
it, or the fresh state of `Ask`, so `PhaseInv` and the answers' invariant are kept. `EvalInv` adds
what relates them to the questions: the bookkeeping (one record for each question that is no
longer open, and the agent runs in the stage `running` only), verdicts are about questions already
asked (so a fresh state starts without any), and, while a question is open, its state's answer was
proposed for it and the approvals are exactly the verdicts on it. Without the last part
`RecordsAreOwn` is not inductive: `Record` copies whatever the state holds.

| theorem | states |
|---|---|
| `EvaluationTypeCorrect` | `[]EvalTypeOK` |
| `RecordsBelongToQuestions` | `[]RecordsAreOwn` |
| `ApprovedAnswersReachRecords` | `[]ApprovedAnswersAreRecorded` |
| `DetectorIsOfThisRun` | `[]DetectorRemembersThisRun` |
| `EveryQuestionIsBounded` | `[](PlanProgress /\ BudgetsHold /\ WithinConfiguration)` |
| `NoQuestionRepeatsSteps` | `[]NoRepeatedExecution`, if `MaxIterations <= MaxHistory` |
| `EvaluationsUseUpSteps` | each step of an evaluation leaves fewer to take |

The last four hold because what `Progress_proofs` says of a run survives `Ask`, which replaces the
state and leaves the context, the detector and the list of the previous question behind: while no
run is in progress they are only bounded, and `Run` clears them. `EvaluationStepsLeft` adds the
steps of the open question, by its stage, to those of the questions not yet asked.

**`OfficialRun_proofs`.** Every step of an official run is a step of the evaluation or leaves its
variables alone, so `OfficialSpec` implies `EvalSpec` and its theorems carry over. `OfficialInv` is
what staging and writing add: the path of a question whose turn has passed is decided
(`PathsAreRight`), the bytes under a name are those of a question staged under it, no earlier than
any other that has passed (`LastComerWins`), and what is written are the results of the finished evaluation.
`AskedWithAttachment` needs `LastComerWins` since a later question may have taken the name.

| theorem | states |
|---|---|
| `OfficialRunIsAnEvaluation` | `OfficialSpec => EvalSpec` |
| `OfficialRecordsBelongToQuestions` | `[]RecordsAreOwn` in official runs |
| `QuestionsGetAttachments` | `[]AskedWithAttachment` |
| `SubmissionsAreWritten` | `[]SubmittedIsWritten` |
| `OfficialQuestionsAreBounded` | what is proved of each question's run, in official runs |
| `OfficialRunsUseUpSteps` | each step of an official run leaves fewer to take |

**`Planner_proofs`.** The four ways to a plan meet in `PlanIsValid`: the plan that runs is what the
repair made of one that was `Valid` for the question, for the files of the context it was made from
and for the failure it answers to. It speaks of the plan as written, because the repaired plan need
not be valid again. It is inductive because a call replaces the list of files as a whole. The
properties follow from what `RepairedStepsRun` and `RunningPlan` carry over to the repaired plan:
`ResolvedIsListed` is why its files are listed. `PlannerTypeCorrect` needs that every rule proposes
a step, which is a lemma for each list of rules.

| theorem | states |
|---|---|
| `PlannerTypeCorrect` | `[]TypeOK` |
| `RunningPlansAreValid` | `[]PlanIsValid` |
| `InstalledPlansAreRunnable` | `[]PlansAreRunnable` |
| `PlansStayGrounded` | `[]GroundedInTask` |
| `RecoveriesChangeCourse` | `[]RecoveryChangesCourse` |
| `PlansFitOrchestration` | an installed plan is as `Orchestration` assumes its `Plans` to be |

**`Verification_proofs`.** A verdict and the evidence it was given on are written in different
steps. `VerdictIsJust` says that an accepted answer ended the run on evidence that is still there,
by the rules or by a judgement that held against what the rules find; it is inductive together with
`JudgeHearsFindings`, which says the same of the await of the judge. The lemmas
`SeveralFinalsConflict` and `AcceptedIsStated` say what the rules do with any evidence. For
`EvidenceIsCurrent` the versions along the evidence never go down (`InOrder`), which is what
entitles the filter to take the highest version for the plan in force; `Budgets` bounds the stamps.

| theorem | states |
|---|---|
| `VerificationTypeCorrect` | `[]TypeOK` |
| `VerdictsAreJust` | `[]VerdictIsJust` |
| `AcceptedAnswersRestOnTools` | `[]AnswersRestOnTools` |
| `ConflictsAreResolved` | `[]ConflictNeedsResolution` |
| `CoincidencesAreJudged` | `[]CoincidenceNeedsJudge` |
| `FilterFollowsThePlan` | `[]EvidenceIsCurrent` |

**`AgentExecution_proofs`.** A step changes the values of one call, so the invariant `ExecInv`
says of each call's values what is known of them where the call is (`Sound`), and the lemma
`OneCallMoves` reduces every action to replacing one call's values by sound ones.
`FlaggedWorkNeverRuns` needs that a suspended call's spans are what its place says (`Placed`): the
status of the inner span changes after the gates were passed. The gates themselves are the lemmas
`LevelOfRules` (every factor has a level, so a level of LOW means no factor) and
`NothingToApprove`. For the counters, `Accounts` says that what a step increments equals the
change in which calls are open, and `OneMoreOrLess` turns that into cardinalities.

| theorem | states |
|---|---|
| `ExecutionTypeCorrect` | `[]ExecutionTypeOK` |
| `GatesHold` | `[]FlaggedWorkNeverRuns` |
| `RefusalsStop` | `[]RefusalsAreFinal` |
| `AnalyzerIsLastResort` | `[]AnalyzerOnlyWhereRulesAreSilent` |
| `SpansAreTrue` | `[]SpansTellOutcome` |
| `CountersBalance` | `[]MetricsBalance` |
| `FailuresFitOrchestration` | failures are among five error records, blocked exactly by the category |
| `FailuresAreDecided` | which failure is retried, planned around, or stops the run |

`FailuresFitOrchestration` and `PlansFitOrchestration` are the seams of the system: what the executor
and the planner return is what `Orchestration` assumes of its constants `ExecErrors` and `Plans`,
and telling a blocked execution by its category, as `Orchestration` does, is the same as telling it
by the flag of the result, as the code does. `FailuresAreDecided` says what comes of it: a tool or
an LLM that keeps failing stops the run when its attempts are used up, since a transient failure is
never planned around, while a missing tool or an empty result is planned around at once.

Assumptions on the constants are named in the modules that declare them: plans are sequences of
steps shorter than `MaxPlanSteps` that do not repeat themselves, errors are error records,
budgets are naturals, `NoPlan` and `NoAnswer` are not plans and answers, calls are finitely many,
registered tools have a capability, analyses and the threshold are in their ranges, at least as
many questions are fetched as asked, a step is alike itself, files of one base name are of one kind
and named together or not at all by a question, results and candidates are built from
the numbers and texts. TLC evaluates them in each run.

Only model-checked: liveness (`RunEnds`, `OfficialRunEnds`), which is out of the prover's reach
together with `ENABLED` and induction over data. `RunsUseUpSteps`, `EvaluationsUseUpSteps` and
`OfficialRunsUseUpSteps` prove the half of it that is safety, that no execution takes infinitely many
steps; that the agent is never stuck in between, under the fairness stated above, is what the runs add.
Every invariant and every action property that a passing run checks is a theorem. The findings are
counterexamples of TLC.

## Not modelled

* The texts: prompts, the classifier's patterns, the extraction of numbers and labels from results,
  the synthesis of Python code, normalisation of signatures. The models say what is done with what
  these find, for every finding.
* What the tools do, and the registry's dispatch: they are I/O, and any result is allowed.
* Context building: the context either comes with some files or an exception is raised; budget and
  compression decide which, and any choice is allowed.
* Conversation store, memory and retrieval: `create_agent` leaves them empty or switches them off.
  LLM client, observability, assembly, database: their failures reach the modelled parts as
  exceptions; they decide nothing else.
* A crash of the process before the results are written loses everything by construction.
* The human approval handler is not wired into the agent; `agents/answer_sanitizer.py` and
  `ArtifactRegistry` are used by nothing; `core/orchestration/tempCodeRunnerFile.py` is a stale
  copy of the orchestrator that nothing imports. Two runs on one `AgentLoop` at a time, which its
  attribute for the running state would not survive, are started by no caller.

## Plan

1. Proofs: the seams as one composition, in which `Orchestration` runs on the errors of
   `AgentExecution` and the plans of `Planner`, so that findings 3 and 4 can be followed to the
   answer.
2. `FailureHandling`: the mapping of foreign exceptions (`ErrorHandler`), if a caller appears.
3. Context budget and compression, the conversation store under concurrent appends.
