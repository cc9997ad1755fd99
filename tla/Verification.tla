---------------------------- MODULE Verification ----------------------------
(***************************************************************************)
(* The evidence of a run over its life: steps that are retried, plans that *)
(* are replaced, an answer that is judged, rejected and proposed again.    *)
(*                                                                         *)
(* The orchestrator appends every execution to the history of the run and  *)
(* stamps its result with the attempt of the step, which starts over with  *)
(* each step, and with the version of the plan.  All results of the run go *)
(* to the verifier; what it takes for current it has to infer from these   *)
(* stamps.  When the rules leave a candidate open the verifier awaits an   *)
(* LLM's judgement.                                                        *)
(***************************************************************************)
EXTENDS Verifier

CONSTANTS
  Tasks,                   \* intents of the task, in upper case
  Results,                 \* results a tool may return
  Candidates,              \* answers the final step may give, or Nothing
  MaxSteps,                \* bound on the steps before the final one
  MaxResults,              \* bound on the results of the whole run
  MaxStepAttempts,
  MaxReplans,
  MaxVerificationAttempts

ASSUME VerificationAssumption ==
  /\ Results \subseteq Result(StrongTools \cup {"web_search", "llm"})
  /\ Candidates \subseteq Numbers \cup Texts \cup {Nothing}
  /\ {MaxSteps, MaxResults, MaxReplans} \subseteq Nat
  /\ MaxSteps <= MaxResults
  /\ {MaxStepAttempts, MaxVerificationAttempts} \subseteq Nat \ {0}

VARIABLES
  task,       \* the intent the planner's classification found
  version,    \* plan_runtime.plan_version
  pending,    \* steps left before the final one
  attempt,    \* attempts of the current step that failed
  evidence,   \* run.verification_evidence()
  candidate,  \* the answer that is judged, or was judged last
  found,      \* what the rules found
  verdict,    \* the verifier's result: its status, who decided, and why
  rejected,   \* run.verification_attempts, without the successful one
  pc          \* "execute", "verify", "judge", "replan", "done", "failed"

vars == << task, version, pending, attempt, evidence, candidate, found,
           verdict, rejected, pc >>

NoVerdict == [status |-> "none", by |-> "none", reason |-> "blank"]

Verdict ==
  [ status : Status \cup {"none"},
    by : {"none", "empty", "filter", "rules", "llm"},
    reason : {"blank", "plain", "resolving"} ]

\* The ToolResultRecord of an attempt.
Record(result, a, v) ==
  [ tool |-> result.tool, declares |-> result.declares,
    content |-> result.content, attempt |-> a, version |-> v ]

Item ==
  { Record(r, a, v) :
      r \in Results, a \in 1..MaxStepAttempts, v \in 1..(MaxReplans + 1) }

TypeOK ==
  /\ task \in Tasks
  /\ version \in 1..(MaxReplans + 1)
  /\ pending \in 0..MaxSteps
  /\ attempt \in 0..MaxStepAttempts
  /\ evidence \in Seq(Item)
  /\ Len(evidence) <= MaxResults
  /\ candidate \in Candidates \cup {Nothing}
  /\ found \in Status
  /\ verdict \in Verdict
  /\ rejected \in 0..MaxVerificationAttempts
  /\ pc \in {"execute", "verify", "judge", "replan", "done", "failed"}

Init ==
  /\ task \in Tasks
  /\ version = 1
  /\ pending \in 0..MaxSteps
  /\ attempt = 0
  /\ evidence = <<>>
  /\ candidate = Nothing
  /\ found = "insufficient"
  /\ verdict = NoVerdict
  /\ rejected = 0
  /\ pc = "execute"

-----------------------------------------------------------------------------
\* Mutant: the attempt is counted after it was stamped.
StampedEarly(result) == Record(result, attempt, version)

\* Stamped by _execute with the attempt under way and the plan's version.
Stamped(result) == Record(result, attempt + 1, version)

\* A step before the final one succeeds and the plan advances.
StepSucceeds(result) ==
  /\ pc = "execute"
  /\ pending > 0
  /\ evidence' = Append(evidence, Stamped(result))
  /\ pending' = pending - 1
  /\ attempt' = 0
  /\ UNCHANGED <<task, version, candidate, found, verdict, rejected, pc>>

\* An attempt of a step fails: it is retried, the plan has to go, or the
\* run fails.
StepFails ==
  /\ pc = "execute"
  /\ attempt' = attempt + 1
  /\ pc' \in {"execute", "replan", "failed"}
  /\ attempt' = MaxStepAttempts => pc' # "execute"
  /\ UNCHANGED <<task, version, pending, evidence, candidate, found, verdict,
                 rejected>>

\* The final LLM step gives an answer.
Answer(answer) ==
  /\ pc = "execute"
  /\ pending = 0
  /\ candidate' = answer
  /\ pc' = "verify"
  /\ UNCHANGED <<task, version, pending, attempt, evidence, found, verdict,
                 rejected>>

\* Orchestrator._verify once a result is there: accept the answer, give up,
\* or replan.
Conclude(result) ==
  /\ verdict' = result
  /\ IF result.status = "verified"
     THEN /\ pc' = "done"
          /\ UNCHANGED rejected
     ELSE /\ rejected' = rejected + 1
          /\ pc' = IF rejected + 1 >= MaxVerificationAttempts
                   THEN "failed" ELSE "replan"

\* An empty answer never reaches the verifier.
RejectEmpty ==
  /\ pc = "verify"
  /\ candidate = Nothing
  /\ Conclude([status |-> "invalid", by |-> "empty", reason |-> "plain"])
  /\ UNCHANGED <<task, version, pending, attempt, evidence, candidate, found>>

\* Nothing current, or nothing of the task's modality.
RejectUnsupported ==
  /\ pc = "verify"
  /\ candidate # Nothing
  /\ \/ Current(evidence) = {}
     \/ ~Supported(task, evidence)
  /\ LET status == IF Current(evidence) = {}
                   THEN "insufficient" ELSE "unsupported"
     IN  Conclude([status |-> status, by |-> "filter", reason |-> "plain"])
  /\ UNCHANGED <<task, version, pending, attempt, evidence, candidate, found>>

\* The rules verify or reject the candidate, or leave it to the LLM.
ApplyRules ==
  /\ pc = "verify"
  /\ candidate # Nothing
  /\ Current(evidence) # {}
  /\ Supported(task, evidence)
  /\ found' = ByRules(candidate, evidence)
  /\ IF found' \in {"verified", "invalid"}
     THEN Conclude([status |-> found', by |-> "rules", reason |-> "plain"])
     ELSE /\ pc' = "judge"
          /\ UNCHANGED <<verdict, rejected>>
  /\ UNCHANGED <<task, version, pending, attempt, evidence, candidate>>

\* The LLM answers the verifier's prompt.
Judge(judgement) ==
  /\ pc = "judge"
  /\ Conclude([ status |-> Judged(judgement, found), by |-> "llm",
                reason |-> judgement.reason ])
  /\ UNCHANGED <<task, version, pending, attempt, evidence, candidate, found>>

\* The LLM call fails: the exception ends the run.
JudgeFails ==
  /\ pc = "judge"
  /\ pc' = "failed"
  /\ UNCHANGED <<task, version, pending, attempt, evidence, candidate, found,
                 verdict, rejected>>

\* A new plan, within the budget, starts over with its own steps.  Nothing
\* looks at the rejected answer again.
Replan ==
  /\ pc = "replan"
  /\ IF version <= MaxReplans
     THEN /\ version' = version + 1
          /\ pending' \in 0..MaxSteps
          /\ Len(evidence) + pending' <= MaxResults
          /\ pc' = "execute"
     ELSE /\ pc' = "failed"
          /\ UNCHANGED <<version, pending>>
  /\ attempt' = 0
  /\ candidate' = Nothing
  /\ found' = "insufficient"
  /\ verdict' = NoVerdict
  /\ UNCHANGED <<task, evidence, rejected>>

Next ==
  \/ \E result \in Results : StepSucceeds(result)
  \/ StepFails
  \/ \E answer \in Candidates : Answer(answer)
  \/ RejectEmpty
  \/ RejectUnsupported
  \/ ApplyRules
  \/ \E judgement \in Judgement : Judge(judgement)
  \/ JudgeFails
  \/ Replan

Spec == Init /\ [][Next]_vars

-----------------------------------------------------------------------------
(* Properties                                                              *)

FromTools == {i \in DOMAIN evidence : evidence[i].tool # "llm"
                                      /\ evidence[i].content # Nothing}

\* An accepted answer rests on something a tool returned in this run, and the
\* answer about an image on something the vision tool returned.  Neither the
\* text of an LLM step nor the judge's own claim can stand in for it.
AnswersRestOnTools ==
  verdict.status = "verified" =>
    /\ FromTools # {}
    /\ task = "IMAGE" =>
         \E i \in FromTools : evidence[i].tool = "analyze_image"

\* The verifier never hears a plan that was given up once the plan in force
\* has returned something, and always hears the newest result: neither a
\* retried step nor a replan hides what was found last.
EvidenceIsCurrent ==
  LET last(items) == {i \in items : \A j \in items : j <= i}
  IN  /\ last(FromTools) \subseteq Current(evidence)
      /\ (\E i \in FromTools : evidence[i].version = version) =>
           \A i \in Current(evidence) : evidence[i].version = version

\* Two current results that name different values as the final one: an answer
\* is then accepted only on a judgement that says how the conflict resolves,
\* unless an answer field decides.
ConflictNeedsResolution ==
  LET contents == Contents(evidence, Strong(evidence))
  IN  /\ verdict.status = "verified"
      /\ candidate \in Numbers
      /\ Several(UNION {c.finals : c \in contents})
      /\ \A c \in contents : c.field = Nothing
      => verdict.by = "llm" /\ verdict.reason = "resolving"

\* A number is accepted without the judge only when a current result of a
\* strong tool states it as its answer; that it occurs somewhere is not enough.
CoincidenceNeedsJudge ==
  verdict.status = "verified" /\ verdict.by = "rules" /\ candidate \in Numbers =>
    \E c \in Contents(evidence, Strong(evidence)) :
      \/ candidate = c.field
      \/ candidate \in c.finals /\ ~c.marker
      \/ candidate = c.whole

\* "Conflicting tools do not auto verify second value": when two strong tools
\* of the plan in force have labelled different numbers as final, the rules
\* alone never accept either.  Steps of one plan carry different attempt
\* numbers once one of them was retried, and the filter then drops all but
\* those with the newest step's number, so the conflict goes unseen.
StepsOfThePlanAreHeard ==
  LET inForce == { i \in FromTools : /\ evidence[i].version = version
                                     /\ evidence[i].tool \in StrongTools }
      contents == Contents(evidence, inForce)
  IN  /\ Several(UNION {c.finals : c \in contents})
      /\ \A c \in contents : c.field = Nothing
      => ~(verdict.status = "verified" /\ verdict.by = "rules")
=============================================================================
