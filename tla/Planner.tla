------------------------------ MODULE Planner ------------------------------
(***************************************************************************)
(* The planner: the first plan of a run and its replacements.              *)
(*                                                                         *)
(* A plan is put together by rule where the question allows it, otherwise  *)
(* by an LLM; one that does not pass the validators is replaced by a       *)
(* fallback, which has to pass them too.  A replacement is proposed by the *)
(* LLM, then by rule.  In the model a plan is the sequence of its steps    *)
(* before the final one: the schema of a plan leaves room for nothing else *)
(* than one LLM step at its end.                                           *)
(***************************************************************************)
EXTENDS Strategy

CONSTANTS
  Configured,     \* files the planner was configured with
  NameOf,         \* the base name of a file
  Placeholders,   \* paths and names that look like a placeholder
  Questions,      \* questions of the run
  Replies,        \* plans the LLM may write
  NoPlan,         \* there is no plan
  NoFailure,      \* nothing failed yet
  Alike,          \* the loop detector takes two steps for the same
  MaxPlanSteps,   \* Planner.MAX_PLAN_STEPS
  MaxReplans      \* OrchestratorConfig.max_replans

\* Tools the planner plans with by itself, registered or not.
OwnTools ==
  { "web_search", "visit_webpage", "analyze_image", "analyze_excel",
    "file_reader", "python_interpreter", "youtube_transcript" }

\* What an argument may say of a file: its path, or its base name.
Reference == Files \cup {NameOf[f] : f \in Files}

\* The arguments of a step are what they say of a file, and the rest of them: as
\* the task gives it, something else, or what the contract of the tool rejects.
Step ==
  [ tool : Tools \cup OwnTools \cup {"llm", "unknown"},
    file : Reference \cup {NoFile},
    rest : {"task", "other", "bad"} ]

StepOn(tool, file) == [tool |-> tool, file |-> file, rest |-> "task"]

ToolStep(tool) == StepOn(tool, NoFile)

LLMStep == ToolStep("llm")

Failure ==
  [step : Step, type : {"timeout", "argument", "contract", "other"}]

ASSUME PlannerAssumption ==
  /\ Configured \subseteq Files
  /\ DOMAIN NameOf = Files
  /\ NoFile \notin Reference
  /\ Placeholders \subseteq Reference
  /\ Questions \subseteq Question
  /\ \A f, g \in Files : NameOf[f] = NameOf[g] =>
       /\ Kind[f] = Kind[g]
       /\ \A q \in Questions : f \in q.named => g \in q.named
  /\ Replies \subseteq Seq(Step)
  /\ NoPlan \notin Seq(Step)
  /\ NoFailure \notin Failure
  /\ "llm" \notin Tools
  /\ "unknown" \notin Tools
  /\ None \notin Tools
  /\ Alike \subseteq Step \X Step
  /\ \A step \in Step : <<step, step>> \in Alike
  /\ MaxPlanSteps \in Nat \ {0, 1}
  /\ MaxReplans \in Nat

Detector == INSTANCE LoopDetector
              WITH Steps <- Step, Alike <- Alike, MaxHistory <- 1

StepsOf(plan) == {plan[i] : i \in 1..Len(plan)}

ToolSteps(plan) == StepsOf(plan) \ {LLMStep}

\* Planner.strategy_family; the media tools are one family.
Family(tool) ==
  IF \E i \in 1..Len(MediaTools) : MediaTools[i] = tool
  THEN "AUDIO_VIDEO" ELSE tool

-----------------------------------------------------------------------------
(* Validation                                                              *)

FileTools == {"file_reader", "analyze_excel", "analyze_image"}

\* Planner._resolve_listed_file: the listed file with that path, otherwise the only
\* one with that base name, in whichever directory the plan believes it to be.
Resolved(text, files) ==
  LET name == IF text \in Files THEN NameOf[text] ELSE text
      namesakes == {f \in files : NameOf[f] = name}
  IN  IF text \in files THEN text
      ELSE IF Cardinality(namesakes) = 1 THEN CHOOSE f \in namesakes : TRUE
      ELSE NoFile

\* Planner._repair_file_arguments: what the plan says of a file must not look like
\* a placeholder and has to lead to a listed one, which is not judged again.  An
\* argument left out is not repaired, but no contract of these tools takes that.
FileResolves(step, files) ==
  step.tool \in FileTools =>
    /\ step.file \notin Placeholders
    /\ Resolved(step.file, files) # NoFile

\* The file found takes the place of what the plan said of it.
Repaired(plan, files) ==
  [i \in 1..Len(plan) |->
     IF plan[i].tool \in FileTools
     THEN [plan[i] EXCEPT !.file = Resolved(@, files)]
     ELSE plan[i]]

\* ToolContractValidator.validate_step_contract
ContractHolds(step) == step.rest # "bad"

\* Planner._validate_step
StepValid(step, files) ==
  \/ step = LLMStep
  \/ /\ step.tool \in Tools
     /\ FileResolves(step, files)
     /\ ContractHolds(step)

\* SemanticPlanValidator._validate_tool_step
FitsTask(step, question, files) ==
  LET intent == IntentOf(question)
      strategy == Strategy(question, files)
  IN  /\ step.tool \notin Forbidden(question)
      /\ step.tool = "web_search" =>
           /\ intent \notin Local \cup {"URL_PAGE"}
           /\ ~(intent = "IMAGE" /\ HasImage(files))
           /\ ~(intent = "LOCAL_FILE" /\ HasSpreadsheet(files))
      /\ /\ strategy.deterministic
         /\ strategy.tool # None
         /\ intent \in Local \cup {"URL_PAGE", "IMAGE"}
         => step.tool = strategy.tool

\* SemanticPlanValidator._require_media_grounding
MediaGrounded(plan, question, files) ==
  LET strategy == Strategy(question, files)
  IN  /\ IntentOf(question) = "AUDIO_VIDEO"
      /\ strategy.deterministic
      => \E step \in ToolSteps(plan) : step.tool = strategy.tool

\* Both validators of a recovery forbid a plan whose tools are of the family
\* that failed; a failure either of them does not excuse counts.
SameFamily(plan, failed) ==
  {Family(step.tool) : step \in ToolSteps(plan)} = {Family(failed.tool)}

ChangesCourse(plan, failure) ==
  failure # NoFailure =>
    /\ failure.step \notin StepsOf(plan)
    /\ failure.type \notin {"argument", "contract"} =>
         ~SameFamily(plan, failure.step)
    /\ failure.type \notin {"argument", "timeout"} =>
         ~SameFamily(plan, failure.step)

\* Mutant: a replacement is validated like a first plan.
ValidForTask(written, question, files, failure) ==
  LET plan == Repaired(written, files)
  IN  /\ Len(plan) + 1 <= MaxPlanSteps
      /\ \A step \in StepsOf(written) : StepValid(step, files)
      /\ \A step \in ToolSteps(plan) : FitsTask(step, question, files)
      /\ MediaGrounded(plan, question, files)
      /\ ~Detector!PlanRepeats(plan)

\* Planner._validate_generated_plan: the steps are repaired one by one, and the
\* repaired plan is compared with itself and with the step that failed.
Valid(written, question, files, failure) ==
  LET plan == Repaired(written, files)
  IN  /\ Len(plan) + 1 <= MaxPlanSteps
      /\ \A step \in StepsOf(written) : StepValid(step, files)
      /\ \A step \in ToolSteps(plan) : FitsTask(step, question, files)
      /\ MediaGrounded(plan, question, files)
      /\ \A i, j \in 1..Len(plan) : plan[i] = plan[j] => i = j
      /\ ~Detector!PlanRepeats(plan)
      /\ ChangesCourse(plan, failure)

-----------------------------------------------------------------------------
(* Plans by rule.  A rule gives a step, or none; the first that gives one  *)
(* counts.                                                                 *)

FirstOf(rules) ==
  LET met == {i \in 1..Len(rules) : rules[i][1]}
  IN  IF met = {} THEN NoPlan
      ELSE <<rules[CHOOSE i \in met : \A j \in met : i <= j][2]>>

\* Planner._deterministic_fallback_code finds the code in the question itself.
CanCompute(question) ==
  /\ IntentOf(question) \in Local
  /\ "python_interpreter" \in Tools
  /\ question.code

\* Computation, the transcript of a video, the page itself: the rules that the
\* deterministic plan and the emergency fallback have in common.
ByQuestion(question) ==
  LET intent == IntentOf(question)
  IN  << <<CanCompute(question), ToolStep("python_interpreter")>>,
         << /\ intent = "AUDIO_VIDEO"
            /\ question.url = "youtube"
            /\ "youtube_transcript" \in Tools,
            ToolStep("youtube_transcript") >>,
         << /\ intent = "URL_PAGE"
            /\ question.url # "none"
            /\ "visit_webpage" \in Tools,
            ToolStep("visit_webpage") >> >>

\* Planner._deterministic_plan
Deterministic(question, files) ==
  LET images == {f \in files : Kind[f] = "image"}
      image == Selected(question, images)
  IN  FirstOf(ByQuestion(question) \o
        << << /\ IntentOf(question) = "IMAGE"
              /\ "analyze_image" \in Tools
              /\ image # NoFile,
              StepOn("analyze_image", image) >> >>)

\* Planner._file_fallback_step, where `failed' is the tool that failed, if any.
ByFile(question, files, failed) ==
  LET file == Selected(question, files)
  IN  << << /\ file # NoFile
            /\ Kind[file] = "sheet"
            /\ "analyze_excel" \in Tools \ {failed},
            StepOn("analyze_excel", file) >>,
         << /\ file # NoFile
            /\ "file_reader" \in Tools \ {failed},
            StepOn("file_reader", file) >> >>

SearchStep(question) ==
  [ tool |-> "web_search", file |-> NoFile,
    rest |-> IF question.query = "code" THEN "bad" ELSE "task" ]

MaySearch(question) ==
  /\ "web_search" \in Tools \ Forbidden(question)
  /\ question.query # "none"

\* Planner._emergency_fallback_plan: at worst the LLM answers by itself.
Fallback(question, files) ==
  LET plan == FirstOf(ByQuestion(question) \o ByFile(question, files, None)
                \o << <<MaySearch(question), SearchStep(question)>> >>)
  IN  IF plan = NoPlan THEN <<>> ELSE plan

\* Planner.get_alternative_strategy: the first candidate of another family.
\* Only the first of the two steps on a file is a candidate.
Alternative(question, files, failed) ==
  LET byFile == FirstOf(ByFile(question, files, failed.tool))
      candidates ==
        << << /\ failed.tool = "web_search"
              /\ question.url # "none"
              /\ "visit_webpage" \in Tools,
              ToolStep("visit_webpage") >>,
           <<failed.tool = "visit_webpage" /\ MaySearch(question),
             SearchStep(question)>>,
           <<byFile # NoPlan, IF byFile = NoPlan THEN LLMStep ELSE byFile[1]>>,
           << CanCompute(question) /\ failed.tool # "python_interpreter",
              ToolStep("python_interpreter") >> >>
      Differs(step) ==
        step # failed /\ Family(step.tool) # Family(failed.tool)
  IN  FirstOf([i \in 1..Len(candidates) |->
                 <<candidates[i][1] /\ Differs(candidates[i][2]),
                   candidates[i][2]>>])

-----------------------------------------------------------------------------
VARIABLES
  question,   \* the user's request
  paths,      \* files the items of the final context carry
  listed,     \* Planner.available_files
  plan,       \* the plan installed last
  failure,    \* the failure a replacement answers to, or NoFailure
  replans,    \* plan_runtime.replan_count
  pc          \* "create", "draft", "run", "redraft", "rejected", "gave_up"

vars == <<question, paths, listed, plan, failure, replans, pc>>

TypeOK ==
  /\ question \in Questions
  /\ paths \in SUBSET Files
  /\ listed \in SUBSET Files
  /\ plan \in Seq(Step) \cup {NoPlan}
  /\ failure \in Failure \cup {NoFailure}
  /\ replans \in 0..MaxReplans
  /\ pc \in {"create", "draft", "run", "redraft", "rejected", "gave_up"}

Init ==
  /\ question \in Questions
  /\ paths = {}
  /\ listed = Configured
  /\ plan = NoPlan
  /\ failure = NoFailure
  /\ replans = 0
  /\ pc = "create"

\* Mutant: the files of earlier contexts stay listed.
ListedEver(now) == listed \cup Configured \cup now

\* Planner._sync_available_files
ListedNow(now) == Configured \cup now

\* A context that carries the files `now' comes with the call.
Called(now) ==
  /\ paths' = now
  /\ listed' = ListedNow(now)
  /\ UNCHANGED question

\* Installed is what validation has made of the plan.
Installed(written, files) ==
  /\ plan' = Repaired(written, files)
  /\ pc' = "run"

\* Mutant: what the planner wrote itself is not validated.
Trusted(new, files, why) == Installed(new, files)

\* A plan by rule passes the validators as well, or their exception leaves the
\* planner and no plan is installed.
IfValid(new, files, why) ==
  IF Valid(new, question, files, why)
  THEN Installed(new, files)
  ELSE /\ pc' = "rejected"
       /\ UNCHANGED plan

\* Planner.create_plan up to the LLM's answer.
CreateByRule ==
  /\ pc = "create"
  /\ \E now \in SUBSET Files :
       /\ Called(now)
       /\ Deterministic(question, listed') # NoPlan
       /\ IfValid(Deterministic(question, listed'), listed', NoFailure)
  /\ UNCHANGED <<failure, replans>>

CreateAsks ==
  /\ pc = "create"
  /\ \E now \in SUBSET Files :
       /\ Called(now)
       /\ Deterministic(question, listed') = NoPlan
  /\ pc' = "draft"
  /\ UNCHANGED <<plan, failure, replans>>

\* The LLM's plan, or what the repair made of its malformed text.
DraftAccepted ==
  /\ pc = "draft"
  /\ \E reply \in Replies :
       /\ Valid(reply, question, listed, NoFailure)
       /\ Installed(reply, listed)
  /\ UNCHANGED <<question, paths, listed, failure, replans>>

\* The call failed, or neither its plan nor its repair is valid.
DraftReplaced ==
  /\ pc = "draft"
  /\ IfValid(Fallback(question, listed), listed, NoFailure)
  /\ UNCHANGED <<question, paths, listed, failure, replans>>

-----------------------------------------------------------------------------
(* A step of the plan fails                                                *)

\* Mutant: one replan too many.
OneMoreReplan == replans <= MaxReplans

ReplansLeft == replans < MaxReplans

\* The executions before the failure may have added to the context, and its
\* compression may have dropped from it.  The final step may fail as well.
StepFails ==
  /\ pc = "run"
  /\ ReplansLeft
  /\ \E step \in StepsOf(plan) \cup {LLMStep}, now \in SUBSET Files,
        type \in {"timeout", "argument", "contract", "other"} :
       /\ failure' = [step |-> step, type |-> type]
       /\ Called(now)
  /\ replans' = replans + 1
  /\ pc' = "redraft"
  /\ UNCHANGED plan

\* The rest of Planner.replan: the LLM's plan, ...
RedraftAccepted ==
  /\ pc = "redraft"
  /\ \E reply \in Replies :
       /\ Valid(reply, question, listed, failure)
       /\ Installed(reply, listed)
  /\ UNCHANGED <<question, paths, listed, failure, replans>>

\* ... or the alternative by rule, ...
RedraftByRule ==
  /\ pc = "redraft"
  /\ LET alternative == Alternative(question, listed, failure.step)
     IN  /\ alternative # NoPlan
         /\ IfValid(alternative, listed, failure)
  /\ UNCHANGED <<question, paths, listed, failure, replans>>

\* ... or an answer from the evidence, if the context seems to hold any, ...
RedraftFromEvidence ==
  /\ pc = "redraft"
  /\ Alternative(question, listed, failure.step) = NoPlan
  /\ IfValid(<<>>, listed, failure)
  /\ UNCHANGED <<question, paths, listed, failure, replans>>

\* ... or nothing.
RedraftGivesUp ==
  /\ pc = "redraft"
  /\ Alternative(question, listed, failure.step) = NoPlan
  /\ pc' = "gave_up"
  /\ UNCHANGED <<question, paths, listed, plan, failure, replans>>

Next ==
  \/ CreateByRule \/ CreateAsks \/ DraftAccepted \/ DraftReplaced
  \/ StepFails
  \/ RedraftAccepted \/ RedraftByRule \/ RedraftFromEvidence \/ RedraftGivesUp

Spec == Init /\ [][Next]_vars

-----------------------------------------------------------------------------
(* What a plan that is installed promises, on whichever way it came about  *)

\* A plan can be executed: its tools are registered and given arguments they
\* accept, a tool that reads files is given the path of one that is configured or
\* carried by the context the plan was made from (not by an earlier one), however
\* the plan named it, and no step repeats another.
PlansAreRunnable ==
  pc = "run" =>
    /\ Len(plan) < MaxPlanSteps
    /\ \A step \in ToolSteps(plan) :
         /\ step.tool \in Tools
         /\ step.rest # "bad"
         /\ step.tool \in FileTools => step.file \in Configured \cup paths
    /\ ~Detector!PlanRepeats(plan)

\* No plan, the LLM's, a fallback or a replacement, leaves the ground of the
\* task: a question about a recording looks at the recording if a media tool is
\* registered, one that can be settled at hand never goes to the web, and one
\* about an image or a spreadsheet at hand is not searched for.
GroundedInTask ==
  pc = "run" =>
    LET intent == IntentOf(question)
        used == {step.tool : step \in ToolSteps(plan)}
    IN  /\ intent = "AUDIO_VIDEO" /\ MediaTool # None => MediaTool \in used
        /\ intent \in Local => used \cap {"web_search", "visit_webpage"} = {}
        /\ \/ intent \in {"SELF_CONTAINED", "URL_PAGE"}
           \/ intent = "IMAGE" /\ HasImage(listed)
           \/ intent = "LOCAL_FILE" /\ HasSpreadsheet(listed)
           => "web_search" \notin used

\* A replacement changes something: it does not contain the step that failed,
\* and unless the arguments were at fault it does not stay within the family of
\* tools that failed.
RecoveryChangesCourse ==
  pc = "run" /\ failure # NoFailure =>
    /\ failure.step \notin StepsOf(plan)
    /\ failure.type # "argument" =>
         \/ ToolSteps(plan) = {}
         \/ \E step \in ToolSteps(plan) :
              Family(step.tool) # Family(failure.step.tool)

\* What the planner's regression tests promise of tasks settled at hand
\* (test_planner_strategy_fallback_contract.py: "create_plan always returns an
\* installable PlanSchema for these tasks").
LocalTasksGetAPlan ==
  pc = "rejected" /\ failure = NoFailure => IntentOf(question) \notin Local
=============================================================================
