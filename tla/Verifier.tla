------------------------------ MODULE Verifier ------------------------------
(***************************************************************************)
(* How the verifier judges a candidate answer against what the tools of    *)
(* the run returned: the filter that decides which results are current,    *)
(* the rules that verify or reject a candidate without an LLM, and the     *)
(* rules an LLM's judgement has to pass.                                   *)
(*                                                                         *)
(* A result is abstracted to what the rules look for in it.  run_id is the *)
(* same for all results of a run, and nothing sets execution_id,           *)
(* step_status or relevant, so those passes of the filter keep everything. *)
(***************************************************************************)
EXTENDS Naturals, Sequences, FiniteSets

CONSTANTS
  Numbers,     \* numbers, up to numeric equality
  Texts,       \* texts that are not a single number
  Nothing      \* None

ASSUME VerifierAssumption ==
  /\ Numbers \cap Texts = {}
  /\ Nothing \notin Numbers \cup Texts
  /\ IsFiniteSet(Numbers) /\ IsFiniteSet(Texts)

Status ==
  {"verified", "invalid", "insufficient", "conflicting", "unsupported"}

StrongTools ==
  { "python_interpreter", "analyze_excel", "file_reader", "analyze_image",
    "audio_reader", "transcribe_audio", "video_reader", "analyze_video",
    "youtube_transcript" }

\* What a result says.  finals are the numbers labelled as the final result,
\* incidental those labelled as an input, a year, an id and the like; a marker
\* is a word for an intermediate or partial value.
Content ==
  [ field : Numbers \cup Texts \cup {Nothing},   \* its answer field
    finals : SUBSET Numbers,
    incidental : SUBSET Numbers,
    numbers : SUBSET Numbers,                    \* all numbers in it
    marker : BOOLEAN,
    whole : Numbers \cup Texts \cup {Nothing} ]  \* it is this and no more

\* A result of a tool: declares holds of Python code that assigns "result".
Result(tools) ==
  [tool : tools, declares : BOOLEAN, content : Content \cup {Nothing}]

-----------------------------------------------------------------------------
(* Which results are current.  An item is a result with the attempt of its *)
(* step and the version of its plan.                                       *)

\* Mutant: what an LLM said is evidence like any other.
UsableWithLLM(evidence) ==
  {i \in DOMAIN evidence : evidence[i].content # Nothing}

\* _iter_successful_evidence
Usable(evidence) ==
  { i \in DOMAIN evidence :
      evidence[i].tool # "llm" /\ evidence[i].content # Nothing }

\* The attempt_id pass: only the attempt number of the newest result.
OfNewestAttempt(evidence, items) ==
  { i \in items :
      \E last \in items :
        /\ \A j \in items : j <= last
        /\ evidence[i].attempt = evidence[last].attempt }

\* Mutant: results of earlier plan versions are kept.
OfAnyPlan(evidence, items) == items

\* The plan_version pass.
OfNewestPlan(evidence, items) ==
  { i \in items :
      \A j \in items : evidence[j].version <= evidence[i].version }

\* _filter_current_evidence
Current(evidence) ==
  OfNewestPlan(evidence, OfNewestAttempt(evidence, Usable(evidence)))

\* _iter_strong_evidence
Strong(evidence) ==
  {i \in Current(evidence) : evidence[i].tool \in StrongTools}

Contents(evidence, items) == {evidence[i].content : i \in items}

-----------------------------------------------------------------------------
(* deterministic_verification                                              *)

Several(values) == \E v, w \in values : v # w

\* Answer fields decide before anything else is looked at.
ByField(candidate, fields) ==
  IF candidate \in Numbers /\ ~(fields \subseteq Numbers) THEN "invalid"
  ELSE IF Several(fields) THEN "conflicting"
  ELSE IF candidate \in fields THEN "verified" ELSE "invalid"

\* _is_authoritative_computation, and its whole output is one number.
Computed(evidence) ==
  { evidence[i].content.whole :
      i \in { j \in Strong(evidence) :
                /\ evidence[j].tool = "python_interpreter"
                /\ evidence[j].declares
                /\ evidence[j].content.whole \in Numbers } }

\* A number when nothing is labelled as the final result.
ByComputation(candidate, computed, contents) ==
  IF computed # {}
  THEN IF Several(computed) THEN "conflicting"
       ELSE IF candidate \in computed THEN "verified" ELSE "invalid"
  ELSE IF \/ \E c \in contents : c.marker \/ candidate \in c.numbers
          \/ \A c \in contents : c.incidental = {}
       THEN "insufficient"
       ELSE "invalid"

\* A number when one or several results are labelled as final.
ByLabel(candidate, finals, contents) ==
  IF Several(finals) \/ \E c \in contents : c.marker THEN "conflicting"
  ELSE IF candidate \in finals THEN "verified"
  ELSE IF \E c \in contents : candidate \in c.incidental \cup c.numbers
       THEN "conflicting"
       ELSE "invalid"

\* A text is established only by a result that is that text and no more.
ByText(candidate, contents) ==
  IF \E c \in contents : c.whole = candidate
  THEN "verified" ELSE "insufficient"

\* Mutant: a number is verified wherever it occurs.
ByRulesOnOccurrence(candidate, evidence) ==
  IF \E i \in Strong(evidence) : candidate \in evidence[i].content.numbers
  THEN "verified" ELSE "insufficient"

ByRules(candidate, evidence) ==
  LET contents == Contents(evidence, Strong(evidence))
      fields == {c.field : c \in contents} \ {Nothing}
      finals == UNION {c.finals : c \in contents}
  IN  IF contents = {} THEN "insufficient"
      ELSE IF fields # {} THEN ByField(candidate, fields)
      ELSE IF candidate \in Texts THEN ByText(candidate, contents)
      ELSE IF finals = {}
           THEN ByComputation(candidate, Computed(evidence), contents)
           ELSE ByLabel(candidate, finals, contents)

-----------------------------------------------------------------------------
\* _check_source_support, on the name of the task's intent in upper case.
Supported(task, evidence) ==
  LET required ==
        CASE task \in {"IMAGE", "VISION"} -> {"analyze_image"}
          [] task = "AUDIO" -> {"audio_reader", "transcribe_audio"}
          [] task = "VIDEO" ->
               {"video_reader", "analyze_video", "youtube_transcript"}
          [] OTHER -> {}
  IN  \/ required = {}
      \/ \E i \in Current(evidence) : evidence[i].tool \in required

\* What the LLM may return: a status with a reason that is blank, names how a
\* conflict was resolved, or does neither; or nothing the schema accepts.
Judgement ==
  [status : Status, reason : {"blank", "plain", "resolving"}]
    \cup {[status |-> "none", reason |-> "plain"]}

\* Mutant: any reason resolves a conflict.
JudgedUnlessBlank(judgement, found) ==
  CASE judgement.status = "none" -> "insufficient"
    [] judgement.status = "verified" /\ judgement.reason = "blank" ->
         "insufficient"
    [] OTHER -> judgement.status

\* _validate_llm_result, after the rules found the given status.
Judged(judgement, found) ==
  CASE judgement.status = "none" -> "insufficient"
    [] judgement.status = "verified" /\ judgement.reason = "blank" ->
         "insufficient"
    [] /\ judgement.status = "verified"
       /\ found = "conflicting"
       /\ judgement.reason = "plain" -> "conflicting"
    [] OTHER -> judgement.status
=============================================================================
