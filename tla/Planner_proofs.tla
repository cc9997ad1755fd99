--------------------------- MODULE Planner_proofs ---------------------------
(***************************************************************************)
(* Theorems about Planner, for every registry of tools, all files,         *)
(* questions, replies of the LLM and budgets.                              *)
(*                                                                         *)
(* The four ways to a plan (by rule, by the LLM, by fallback and by        *)
(* alternative) meet in one fact: a plan that is installed is what the     *)
(* repair made of one that was valid for the question, the listed files    *)
(* and the failure of the moment, and these do not change while it runs.   *)
(***************************************************************************)
EXTENDS Planner, FiniteSetTheorems, SequenceTheorems, TLAPS

----------------------------------------------------------------------------
(* What a plan by rule looks like                                          *)

\* The rules give no plan or a single step.
LEMMA FirstOfLength ==
  ASSUME NEW rules, FirstOf(rules) # NoPlan
  PROVE  Len(FirstOf(rules)) = 1
BY DEF FirstOf

----------------------------------------------------------------------------
(* Types                                                                   *)

\* Some rule comes first; the planner has no more than six.
LEMMA LeastOfSix ==
  ASSUME NEW met \in SUBSET (1..6), met # {}
  PROVE  \E i \in met : \A j \in met : i <= j
<1>1. CASE 1 \in met
  BY <1>1
<1>2. CASE 1 \notin met /\ 2 \in met
  BY <1>2
<1>3. CASE 1 \notin met /\ 2 \notin met
  <2>1. met \in SUBSET (3..6)
    BY <1>3
  <2>2. CASE 3 \in met
    BY <2>1, <2>2
  <2>3. CASE 3 \notin met /\ 4 \in met
    BY <2>1, <2>3
  <2>4. CASE 3 \notin met /\ 4 \notin met
    <3>1. met \in SUBSET (5..6)
      BY <2>1, <2>4
    <3>2. CASE 5 \in met
      BY <3>1, <3>2
    <3>3. CASE 5 \notin met
      <4>1. \A j \in met : j = 6
        BY <3>1, <3>3
      <4>2. PICK i \in met : TRUE
        OBVIOUS
      <4>3. \A j \in met : i <= j
        BY <4>1, <4>2
      <4>4. QED
        BY <4>2, <4>3
    <3>4. QED
      BY <3>2, <3>3
  <2>5. QED
    BY <2>2, <2>3, <2>4
<1>4. QED
  BY <1>1, <1>2, <1>3

\* A guarded step.
Rule == BOOLEAN \X Step

LEMMA FirstOfType ==
  ASSUME NEW rules \in Seq(Rule), Len(rules) \in 0..6
  PROVE  FirstOf(rules) \in Seq(Step) \cup {NoPlan}
<1> DEFINE met == {i \in 1..Len(rules) : rules[i][1]}
           first == CHOOSE i \in met : \A j \in met : i <= j
<1>1. CASE met = {}
  BY <1>1 DEF FirstOf
<1>2. CASE met # {}
  <2>1. met \in SUBSET (1..6)
    OBVIOUS
  <2>2. \E i \in met : \A j \in met : i <= j
    <3> HIDE DEF met
    <3> QED  BY <1>2, <2>1, LeastOfSix
  <2>3. first \in met
    <3> HIDE DEF met
    <3> QED  BY <2>2
  <2>4. rules[first] \in Rule
    <3> HIDE DEF first
    <3> QED  BY <2>3
  <2>5. rules[first][2] \in Step
    <3> HIDE DEF first
    <3> QED  BY <2>4 DEF Rule
  <2>6. FirstOf(rules) = <<rules[first][2]>>
    BY <1>2 DEF FirstOf
  <2>7. QED
    <3> HIDE DEF first
    <3> QED  BY <2>5, <2>6
<1>3. QED
  BY <1>1, <1>2

\* A selected file is one of the files to select from.
LEMMA SelectedType ==
  ASSUME NEW q, NEW files \in SUBSET Files
  PROVE  Selected(q, files) \in Files \cup {NoFile}
<1> DEFINE named == files \cap q.named
<1>1. CASE Cardinality(named) = 1
  <2>1. named # {}
    BY <1>1, FS_EmptySet
  <2>2. (CHOOSE f \in named : TRUE) \in named
    BY <2>1
  <2>3. QED
    BY <1>1, <2>2 DEF Selected
<1>2. CASE Cardinality(named) # 1 /\ Cardinality(files) = 1 /\ q.marker
  <2>1. files # {}
    BY <1>2, FS_EmptySet
  <2>2. (CHOOSE f \in files : TRUE) \in files
    BY <2>1
  <2>3. QED
    BY <1>2, <2>2 DEF Selected
<1>3. QED
  BY <1>1, <1>2 DEF Selected

LEMMA StepOnType ==
  ASSUME NEW tool \in OwnTools \cup {"llm"}, NEW file \in Files \cup {NoFile}
  PROVE  StepOn(tool, file) \in Step
BY DEF StepOn, Step, Reference

LEMMA ToolStepType ==
  ASSUME NEW tool \in OwnTools \cup {"llm"}
  PROVE  ToolStep(tool) \in Step
BY StepOnType DEF ToolStep

LEMMA SearchStepType ==
  ASSUME NEW q
  PROVE  SearchStep(q) \in Step
BY DEF SearchStep, Step, OwnTools

\* A sequence that is written out is one of rules if its entries are.
LEMMA ByQuestionType ==
  ASSUME NEW q \in Question
  PROVE  ByQuestion(q) \in Seq(Rule) /\ Len(ByQuestion(q)) = 3
<1>1. /\ ToolStep("python_interpreter") \in Step
      /\ ToolStep("youtube_transcript") \in Step
      /\ ToolStep("visit_webpage") \in Step
  BY ToolStepType DEF OwnTools
<1>2. q.code \in BOOLEAN
  BY DEF Question
<1> DEFINE a == CanCompute(q)
           b == /\ IntentOf(q) = "AUDIO_VIDEO"
                /\ q.url = "youtube"
                /\ "youtube_transcript" \in Tools
           c == /\ IntentOf(q) = "URL_PAGE"
                /\ q.url # "none"
                /\ "visit_webpage" \in Tools
<1>3. a \in BOOLEAN /\ b \in BOOLEAN /\ c \in BOOLEAN
  BY <1>2 DEF CanCompute
<1>4. ByQuestion(q) = << <<a, ToolStep("python_interpreter")>>,
                         <<b, ToolStep("youtube_transcript")>>,
                         <<c, ToolStep("visit_webpage")>> >>
  BY DEF ByQuestion
<1> HIDE DEF a, b, c
<1>5. /\ <<a, ToolStep("python_interpreter")>> \in Rule
      /\ <<b, ToolStep("youtube_transcript")>> \in Rule
      /\ <<c, ToolStep("visit_webpage")>> \in Rule
  BY <1>1, <1>3 DEF Rule
<1> HIDE DEF Rule
<1>6. QED
  BY <1>4, <1>5

LEMMA ByFileType ==
  ASSUME NEW q, NEW files \in SUBSET Files, NEW failed
  PROVE  ByFile(q, files, failed) \in Seq(Rule) /\ Len(ByFile(q, files, failed)) = 2
<1> DEFINE file == Selected(q, files)
           a == /\ file # NoFile
                /\ Kind[file] = "sheet"
                /\ "analyze_excel" \in Tools \ {failed}
           b == /\ file # NoFile
                /\ "file_reader" \in Tools \ {failed}
<1>1. file \in Files \cup {NoFile}
  BY SelectedType
<1>2. /\ StepOn("analyze_excel", file) \in Step
      /\ StepOn("file_reader", file) \in Step
  BY <1>1, StepOnType DEF OwnTools
<1>3. a \in BOOLEAN /\ b \in BOOLEAN
  OBVIOUS
<1>4. ByFile(q, files, failed) =
        << <<a, StepOn("analyze_excel", file)>>, <<b, StepOn("file_reader", file)>> >>
  BY DEF ByFile
<1> HIDE DEF a, b, file
<1>5. /\ <<a, StepOn("analyze_excel", file)>> \in Rule
      /\ <<b, StepOn("file_reader", file)>> \in Rule
  BY <1>2, <1>3 DEF Rule
<1> HIDE DEF Rule
<1>6. QED
  BY <1>4, <1>5

LEMMA ConcatRules ==
  ASSUME NEW first \in Seq(Rule), NEW more \in Seq(Rule)
  PROVE  /\ first \o more \in Seq(Rule)
         /\ Len(first \o more) = Len(first) + Len(more)
BY ConcatProperties

\* More rules after those by question.
LEMMA MoreRules ==
  ASSUME NEW q \in Question, NEW more \in Seq(Rule), Len(more) \in 0..3
  PROVE  FirstOf(ByQuestion(q) \o more) \in Seq(Step) \cup {NoPlan}
<1> DEFINE rules == ByQuestion(q) \o more
<1>1. ByQuestion(q) \in Seq(Rule) /\ Len(ByQuestion(q)) = 3
  BY ByQuestionType
<1>2. rules \in Seq(Rule) /\ Len(rules) = 3 + Len(more)
  BY <1>1, ConcatRules
<1> HIDE DEF rules
<1>3. Len(rules) \in 0..6
  <2>1. \A n \in 0..3 : 3 + n \in 0..6
    OBVIOUS
  <2>2. QED
    BY <1>2, <2>1, Zenon
<1>4. FirstOf(rules) \in Seq(Step) \cup {NoPlan}
  BY <1>2, <1>3, FirstOfType
<1>5. QED
  BY <1>4 DEF rules

LEMMA DeterministicType ==
  ASSUME NEW q \in Question, NEW files \in SUBSET Files
  PROVE  Deterministic(q, files) \in Seq(Step) \cup {NoPlan}
<1> DEFINE images == {f \in files : Kind[f] = "image"}
           image == Selected(q, images)
           c == /\ IntentOf(q) = "IMAGE"
                /\ "analyze_image" \in Tools
                /\ image # NoFile
           more == << <<c, StepOn("analyze_image", image)>> >>
<1>1. image \in Files \cup {NoFile}
  BY SelectedType
<1>2. StepOn("analyze_image", image) \in Step
  BY <1>1, StepOnType DEF OwnTools
<1>3. c \in BOOLEAN
  OBVIOUS
<1>4. Deterministic(q, files) = FirstOf(ByQuestion(q) \o more)
  BY DEF Deterministic
<1>5. more \in Seq(Rule) /\ Len(more) \in 0..3
  <2> HIDE DEF c, image
  <2>1. <<c, StepOn("analyze_image", image)>> \in Rule
    BY <1>2, <1>3 DEF Rule
  <2>2. QED
    BY <2>1
<1> HIDE DEF more
<1>6. QED
  BY <1>4, <1>5, MoreRules

LEMMA FallbackType ==
  ASSUME NEW q \in Question, NEW files \in SUBSET Files
  PROVE  Fallback(q, files) \in Seq(Step)
<1> DEFINE search == << <<MaySearch(q), SearchStep(q)>> >>
           more == ByFile(q, files, None) \o search
           plan_ == FirstOf(ByQuestion(q) \o ByFile(q, files, None) \o search)
<1>1. MaySearch(q) \in BOOLEAN
  BY DEF MaySearch
<1>2. <<MaySearch(q), SearchStep(q)>> \in Rule
  BY <1>1, SearchStepType DEF Rule
<1>3. search \in Seq(Rule) /\ Len(search) = 1
  BY <1>2
<1>4. ByFile(q, files, None) \in Seq(Rule) /\ Len(ByFile(q, files, None)) = 2
  BY ByFileType
<1> HIDE DEF search
<1>5. more \in Seq(Rule) /\ Len(more) \in 0..3
  <2>1. more \in Seq(Rule) /\ Len(more) = 2 + 1
    BY <1>3, <1>4, ConcatRules, Zenon
  <2>2. QED
    BY <2>1
<1>6. ByQuestion(q) \o ByFile(q, files, None) \o search = ByQuestion(q) \o more
  BY <1>3, <1>4, ByQuestionType, ConcatAssociative
<1> HIDE DEF more
<1>7. plan_ \in Seq(Step) \cup {NoPlan}
  BY <1>5, <1>6, MoreRules
<1>8. Fallback(q, files) = IF plan_ = NoPlan THEN <<>> ELSE plan_
  BY DEF Fallback, search
<1> HIDE DEF plan_
<1>9. QED
  BY <1>7, <1>8

LEMMA AlternativeType ==
  ASSUME NEW q \in Question, NEW files \in SUBSET Files, NEW failed
  PROVE  Alternative(q, files, failed) \in Seq(Step) \cup {NoPlan}
<1> DEFINE byFile == FirstOf(ByFile(q, files, failed.tool))
           step == IF byFile = NoPlan THEN LLMStep ELSE byFile[1]
           a == /\ failed.tool = "web_search"
                /\ q.url # "none"
                /\ "visit_webpage" \in Tools
           b == failed.tool = "visit_webpage" /\ MaySearch(q)
           c == byFile # NoPlan
           d == CanCompute(q) /\ failed.tool # "python_interpreter"
           candidates ==
             << <<a, ToolStep("visit_webpage")>>,
                <<b, SearchStep(q)>>,
                <<c, step>>,
                <<d, ToolStep("python_interpreter")>> >>
           Differs(s) == s # failed /\ Family(s.tool) # Family(failed.tool)
           rules == [i \in 1..Len(candidates) |->
                       <<candidates[i][1] /\ Differs(candidates[i][2]),
                         candidates[i][2]>>]
<1>1. Alternative(q, files, failed) = FirstOf(rules)
  BY DEF Alternative
<1>2. /\ ToolStep("visit_webpage") \in Step
      /\ ToolStep("python_interpreter") \in Step
      /\ LLMStep \in Step
  BY ToolStepType DEF OwnTools, LLMStep
<1>3. byFile # NoPlan => byFile[1] \in Step
  <2>1. byFile \in Seq(Step) \cup {NoPlan}
    BY ByFileType, FirstOfType
  <2>2. byFile # NoPlan => Len(byFile) = 1
    BY FirstOfLength
  <2> HIDE DEF byFile
  <2>3. QED
    BY <2>1, <2>2
<1>4. step \in Step
  <2> HIDE DEF byFile
  <2> QED  BY <1>2, <1>3
<1>5. Len(candidates) = 4
  OBVIOUS
<1>6. \A i \in 1..4 : candidates[i][2] \in Step
  <2> HIDE DEF a, b, c, d, step
  <2> QED  BY <1>2, <1>4, SearchStepType
<1>7. rules \in [1..4 -> Rule]
  <2> HIDE DEF candidates
  <2>1. \A i \in 1..4 :
          (candidates[i][1] /\ Differs(candidates[i][2])) \in BOOLEAN
    OBVIOUS
  <2> HIDE DEF Differs
  <2>2. QED
    BY <1>5, <1>6, <2>1 DEF Rule
<1>8. rules \in Seq(Rule) /\ Len(rules) \in 0..6
  <2> HIDE DEF rules, Rule
  <2>1. rules \in Seq(Rule)
    BY <1>7, SeqDef
  <2>2. Len(rules) = 4
    BY <1>7, <2>1, LenProperties
  <2>3. QED
    BY <2>1, <2>2
<1> HIDE DEF rules
<1>9. QED
  BY <1>1, <1>8, FirstOfType

\* A file that is found is a listed one.
LEMMA ResolvedIsListed ==
  ASSUME NEW text, NEW files, Resolved(text, files) # NoFile
  PROVE  Resolved(text, files) \in files
<1> DEFINE name == IF text \in Files THEN NameOf[text] ELSE text
           namesakes == {f \in files : NameOf[f] = name}
<1>1. CASE text \in files
  BY <1>1 DEF Resolved
<1>2. CASE text \notin files
  <2>1. /\ Cardinality(namesakes) = 1
        /\ Resolved(text, files) = CHOOSE f \in namesakes : TRUE
    BY <1>2 DEF Resolved
  <2>2. namesakes # {}
    BY <2>1, FS_EmptySet
  <2>3. (CHOOSE f \in namesakes : TRUE) \in namesakes
    BY <2>2
  <2>4. QED
    BY <2>1, <2>3
<1>3. QED
  BY <1>1, <1>2

\* The repair changes what steps say of files, and nothing else.
LEMMA RepairedType ==
  ASSUME NEW written \in Seq(Step), NEW files \in SUBSET Files
  PROVE  /\ Repaired(written, files) \in Seq(Step)
         /\ Len(Repaired(written, files)) = Len(written)
<1> DEFINE Repair(step) ==
             IF step.tool \in FileTools
             THEN [step EXCEPT !.file = Resolved(@, files)] ELSE step
<1>1. ASSUME NEW step \in Step
      PROVE  Repair(step) \in Step
  <2>1. Resolved(step.file, files) \in Reference \cup {NoFile}
    BY ResolvedIsListed DEF Reference
  <2>2. QED
    BY <2>1 DEF Step
<1>2. Repaired(written, files) = [i \in 1..Len(written) |-> Repair(written[i])]
  BY DEF Repaired
<1> HIDE DEF Repair
<1>3. Repaired(written, files) \in [1..Len(written) -> Step]
  BY <1>1, <1>2
<1>4. Len(written) \in Nat
  OBVIOUS
<1>5. QED
  BY <1>3, <1>4, SeqDef, LenProperties

\* What keeps the types: a plan that runs is there.
Typed ==
  /\ TypeOK
  /\ pc = "run" => plan \in Seq(Step)

LEMMA TypedAtFirst == Init => Typed
BY PlannerAssumption DEF Init, TypeOK, Typed

LEMMA TypedStays ==
  ASSUME Typed, [Next]_vars
  PROVE  Typed'
<1> USE DEF TypeOK, Typed
<1>1. question \in Question
  BY PlannerAssumption
<1>2. ASSUME NEW now \in SUBSET Files, Called(now)
      PROVE  /\ question' \in Questions
             /\ paths' \in SUBSET Files
             /\ listed' \in SUBSET Files
  BY <1>2, PlannerAssumption DEF Called, ListedNow
<1>3. ASSUME NEW new \in Seq(Step), NEW files \in SUBSET Files, NEW why,
             IfValid(new, files, why)
      PROVE  \/ plan' = plan /\ pc' = "rejected"
             \/ plan' \in Seq(Step) /\ pc' = "run"
  BY <1>3, RepairedType DEF IfValid, Installed
<1>4. CASE CreateByRule
  <2>1. PICK now \in SUBSET Files :
          /\ Called(now)
          /\ Deterministic(question, listed') # NoPlan
          /\ IfValid(Deterministic(question, listed'), listed', NoFailure)
    BY <1>4 DEF CreateByRule
  <2>2. listed' \in SUBSET Files
    BY <1>2, <2>1
  <2>3. Deterministic(question, listed') \in Seq(Step)
    BY <1>1, <2>1, <2>2, DeterministicType
  <2>4. UNCHANGED <<failure, replans>>
    BY <1>4 DEF CreateByRule
  <2>5. QED
    BY <1>2, <1>3, <2>1, <2>2, <2>3, <2>4
<1>5. CASE CreateAsks
  <2>1. PICK now \in SUBSET Files : Called(now)
    BY <1>5 DEF CreateAsks
  <2>2. UNCHANGED <<plan, failure, replans>> /\ pc' = "draft"
    BY <1>5 DEF CreateAsks
  <2>3. QED
    BY <1>2, <2>1, <2>2
<1>6. CASE DraftAccepted
  BY <1>6, RepairedType, PlannerAssumption DEF DraftAccepted, Installed
<1>7. CASE DraftReplaced
  <2>1. Fallback(question, listed) \in Seq(Step)
    BY <1>1, FallbackType
  <2>2. /\ IfValid(Fallback(question, listed), listed, NoFailure)
        /\ UNCHANGED <<question, paths, listed, failure, replans>>
    BY <1>7 DEF DraftReplaced
  <2>3. QED
    BY <1>3, <2>1, <2>2
<1>8. CASE StepFails
  <2>1. PICK step \in StepsOf(plan) \cup {LLMStep}, now \in SUBSET Files,
             type \in {"timeout", "argument", "contract", "other"} :
          /\ failure' = [step |-> step, type |-> type]
          /\ Called(now)
    BY <1>8 DEF StepFails
  <2>2. step \in Step
    <3>1. LLMStep \in Step
      BY ToolStepType DEF LLMStep
    <3>2. StepsOf(plan) \subseteq Step
      BY <1>8 DEF StepsOf, StepFails
    <3>3. QED
      BY <2>1, <3>1, <3>2
  <2>3. failure' \in Failure
    BY <2>1, <2>2 DEF Failure
  <2>4. /\ replans' = replans + 1
        /\ replans < MaxReplans
        /\ pc' = "redraft"
        /\ plan' = plan
    BY <1>8 DEF StepFails, ReplansLeft
  <2>5. replans' \in 0..MaxReplans
    BY <2>4, PlannerAssumption
  <2>6. QED
    BY <1>2, <2>1, <2>3, <2>4, <2>5
<1>9. CASE RedraftAccepted
  BY <1>9, RepairedType, PlannerAssumption DEF RedraftAccepted, Installed
<1>10. CASE RedraftByRule
  <2> DEFINE new == Alternative(question, listed, failure.step)
  <2>1. /\ new # NoPlan
        /\ IfValid(new, listed, failure)
        /\ UNCHANGED <<question, paths, listed, failure, replans>>
    BY <1>10 DEF RedraftByRule
  <2>2. new \in Seq(Step)
    BY <1>1, <2>1, AlternativeType
  <2> HIDE DEF new
  <2>3. QED
    BY <1>3, <2>1, <2>2
<1>11. CASE RedraftFromEvidence
  <2>1. /\ IfValid(<<>>, listed, failure)
        /\ UNCHANGED <<question, paths, listed, failure, replans>>
    BY <1>11 DEF RedraftFromEvidence
  <2>2. <<>> \in Seq(Step)
    OBVIOUS
  <2>3. QED
    BY <1>3, <2>1, <2>2
<1>12. CASE RedraftGivesUp
  BY <1>12 DEF RedraftGivesUp
<1>13. CASE UNCHANGED vars
  BY <1>13 DEF vars
<1>14. QED
  BY <1>4, <1>5, <1>6, <1>7, <1>8, <1>9, <1>10, <1>11, <1>12, <1>13 DEF Next

\* Every rule, fallback and alternative gives a sequence of steps on listed
\* files, and the replans stay within their budget.
THEOREM PlannerTypeCorrect == Spec => []TypeOK
<1>1. Typed => TypeOK
  BY DEF Typed
<1>2. QED
  BY <1>1, TypedAtFirst, TypedStays, PTL DEF Spec

----------------------------------------------------------------------------
(* The inductive invariant                                                 *)

\* The list of files is that of the last context; a first plan answers to no
\* failure; and the plan that runs is what the repair makes of one that is valid
\* here and now.
PlanIsValid ==
  /\ listed = Configured \cup paths
  /\ pc \in {"create", "draft"} => failure = NoFailure
  /\ pc = "run" =>
       \E written \in Seq(Step) :
         /\ Valid(written, question, listed, failure)
         /\ plan = Repaired(written, listed)

LEMMA ValidAtFirst == Init => PlanIsValid
BY DEF Init, PlanIsValid

\* A call leaves the listed files those of its context.
LEMMA CalledLists ==
  ASSUME NEW now, Called(now)
  PROVE  listed' = Configured \cup paths'
BY DEF Called, ListedNow

\* What IfValid installs comes of a valid plan.
LEMMA InstalledIsValid ==
  ASSUME NEW new, NEW files, NEW why, IfValid(new, files, why)
  PROVE  \/ pc' = "rejected"
         \/ /\ pc' = "run"
            /\ plan' = Repaired(new, files)
            /\ Valid(new, question, files, why)
BY DEF IfValid, Installed

LEMMA ValidStays ==
  ASSUME Typed, PlanIsValid, [Next]_vars
  PROVE  PlanIsValid'
<1> USE DEF PlanIsValid
<1>1. question \in Question /\ listed \in SUBSET Files
  BY PlannerAssumption DEF Typed, TypeOK
<1>2. CASE CreateByRule
  <2>1. PICK now \in SUBSET Files :
          /\ Called(now)
          /\ Deterministic(question, listed') # NoPlan
          /\ IfValid(Deterministic(question, listed'), listed', NoFailure)
    BY <1>2 DEF CreateByRule
  <2>2. listed' = Configured \cup paths' /\ listed' \in SUBSET Files
    BY <2>1, CalledLists, PlannerAssumption DEF Called, ListedNow
  <2>3. Deterministic(question, listed') \in Seq(Step)
    BY <1>1, <2>1, <2>2, DeterministicType
  <2>4. question' = question /\ failure = NoFailure /\ failure' = failure
    BY <1>2, <2>1 DEF CreateByRule, Called
  <2>5. QED
    BY <2>1, <2>2, <2>3, <2>4, InstalledIsValid
<1>3. CASE CreateAsks
  <2>1. listed' = Configured \cup paths'
    BY <1>3, CalledLists DEF CreateAsks
  <2>2. failure' = NoFailure /\ pc' = "draft"
    BY <1>3 DEF CreateAsks
  <2>3. QED
    BY <2>1, <2>2
<1>4. CASE DraftAccepted
  <2>1. PICK reply \in Replies :
          /\ Valid(reply, question, listed, NoFailure)
          /\ Installed(reply, listed)
    BY <1>4 DEF DraftAccepted
  <2>2. reply \in Seq(Step)
    BY PlannerAssumption
  <2>3. UNCHANGED <<question, paths, listed, failure>> /\ failure = NoFailure
    BY <1>4 DEF DraftAccepted
  <2>4. QED
    BY <2>1, <2>2, <2>3 DEF Installed
<1>5. CASE DraftReplaced
  <2>1. IfValid(Fallback(question, listed), listed, NoFailure)
    BY <1>5 DEF DraftReplaced
  <2>2. UNCHANGED <<question, paths, listed, failure>> /\ failure = NoFailure
    BY <1>5 DEF DraftReplaced
  <2>3. Fallback(question, listed) \in Seq(Step)
    BY <1>1, FallbackType
  <2>4. QED
    BY <2>1, <2>2, <2>3, InstalledIsValid
<1>6. CASE StepFails
  <2>1. listed' = Configured \cup paths'
    BY <1>6, CalledLists DEF StepFails
  <2>2. pc' = "redraft"
    BY <1>6 DEF StepFails
  <2>3. QED
    BY <2>1, <2>2
<1>7. CASE RedraftAccepted
  <2>1. PICK reply \in Replies :
          /\ Valid(reply, question, listed, failure)
          /\ Installed(reply, listed)
    BY <1>7 DEF RedraftAccepted
  <2>2. reply \in Seq(Step)
    BY PlannerAssumption
  <2>3. UNCHANGED <<question, paths, listed, failure>>
    BY <1>7 DEF RedraftAccepted
  <2>4. QED
    BY <2>1, <2>2, <2>3 DEF Installed
<1>8. CASE RedraftByRule
  <2> DEFINE new == Alternative(question, listed, failure.step)
  <2>1. new # NoPlan /\ IfValid(new, listed, failure)
    BY <1>8 DEF RedraftByRule
  <2>2. new \in Seq(Step)
    BY <1>1, <2>1, AlternativeType
  <2>3. UNCHANGED <<question, paths, listed, failure>>
    BY <1>8 DEF RedraftByRule
  <2> HIDE DEF new
  <2>4. QED
    BY <2>1, <2>2, <2>3, InstalledIsValid
<1>9. CASE RedraftFromEvidence
  <2>1. IfValid(<<>>, listed, failure)
    BY <1>9 DEF RedraftFromEvidence
  <2>2. UNCHANGED <<question, paths, listed, failure>>
    BY <1>9 DEF RedraftFromEvidence
  <2>3. <<>> \in Seq(Step)
    OBVIOUS
  <2>4. QED
    BY <2>1, <2>2, <2>3, InstalledIsValid
<1>10. CASE RedraftGivesUp
  BY <1>10 DEF RedraftGivesUp
<1>11. CASE UNCHANGED vars
  BY <1>11 DEF vars
<1>12. QED
  BY <1>2, <1>3, <1>4, <1>5, <1>6, <1>7, <1>8, <1>9, <1>10, <1>11 DEF Next

\* Whichever way it came about, the plan that runs was validated, as it was
\* written, for the question, the files listed now and the failure it answers
\* to, and runs with the files that its steps were found to mean.
THEOREM RunningPlansAreValid == Spec => []PlanIsValid
BY ValidAtFirst, ValidStays, TypedAtFirst, TypedStays, PTL DEF Spec

----------------------------------------------------------------------------
(* What a valid plan promises                                              *)

\* A tool step of the repaired plan is registered, has its arguments accepted and
\* names a listed file, because the step it was made from passed.
LEMMA RepairedStepsRun ==
  ASSUME NEW written \in Seq(Step), NEW files \in SUBSET Files,
         \A step \in StepsOf(written) : StepValid(step, files),
         NEW step \in ToolSteps(Repaired(written, files))
  PROVE  /\ step.tool \in Tools
         /\ step.rest # "bad"
         /\ step.tool \in FileTools => step.file \in files
<1>1. Len(Repaired(written, files)) = Len(written)
  BY RepairedType
<1>2. PICK i \in 1..Len(written) : step = Repaired(written, files)[i]
  BY <1>1 DEF ToolSteps, StepsOf
<1> DEFINE before == written[i]
<1>3. before \in Step /\ before \in StepsOf(written)
  BY <1>2 DEF StepsOf
<1>4. step = IF before.tool \in FileTools
             THEN [before EXCEPT !.file = Resolved(@, files)] ELSE before
  BY <1>2 DEF Repaired
<1>5. StepValid(before, files)
  BY <1>3
<1> HIDE DEF before
<1>6. step.tool = before.tool /\ step.rest = before.rest
  BY <1>3, <1>4 DEF Step
<1>7. before # LLMStep
  <2>1. "llm" \notin FileTools /\ LLMStep.tool = "llm"
    BY DEF FileTools, LLMStep, ToolStep, StepOn
  <2>2. before = LLMStep => step = LLMStep
    BY <1>4, <2>1
  <2>3. QED
    BY <2>2 DEF ToolSteps
<1>8. /\ before.tool \in Tools
      /\ FileResolves(before, files)
      /\ before.rest # "bad"
  BY <1>5, <1>7 DEF StepValid, ContractHolds
<1>9. ASSUME step.tool \in FileTools
      PROVE  step.file \in files
  <2>1. step.file = Resolved(before.file, files)
    BY <1>3, <1>4, <1>6, <1>9 DEF Step
  <2>2. Resolved(before.file, files) # NoFile
    BY <1>6, <1>8, <1>9 DEF FileResolves
  <2>3. QED
    BY <2>1, <2>2, ResolvedIsListed
<1>10. QED
  BY <1>6, <1>8, <1>9

\* What validation says of the plan that runs, as it runs.
LEMMA RunningPlan ==
  ASSUME Typed, PlanIsValid, pc = "run"
  PROVE  /\ Len(plan) < MaxPlanSteps
         /\ \A step \in ToolSteps(plan) :
              /\ step.tool \in Tools
              /\ step.rest # "bad"
              /\ step.tool \in FileTools => step.file \in Configured \cup paths
              /\ FitsTask(step, question, listed)
         /\ MediaGrounded(plan, question, listed)
         /\ ~Detector!PlanRepeats(plan)
         /\ ChangesCourse(plan, failure)
<1>1. PICK written \in Seq(Step) :
        /\ Valid(written, question, listed, failure)
        /\ plan = Repaired(written, listed)
  BY DEF PlanIsValid
<1>2. listed \in SUBSET Files /\ listed = Configured \cup paths
  BY DEF Typed, TypeOK, PlanIsValid
<1>3. /\ Len(plan) + 1 <= MaxPlanSteps
      /\ \A step \in StepsOf(written) : StepValid(step, listed)
      /\ \A step \in ToolSteps(plan) : FitsTask(step, question, listed)
      /\ MediaGrounded(plan, question, listed)
      /\ ~Detector!PlanRepeats(plan)
      /\ ChangesCourse(plan, failure)
  BY <1>1 DEF Valid
<1>4. Len(plan) \in Nat
  BY <1>1, <1>2, RepairedType
<1>5. Len(plan) < MaxPlanSteps
  BY <1>3, <1>4, PlannerAssumption
<1>6. \A step \in ToolSteps(plan) :
        /\ step.tool \in Tools
        /\ step.rest # "bad"
        /\ step.tool \in FileTools => step.file \in listed
  BY <1>1, <1>2, <1>3, RepairedStepsRun
<1>7. QED
  BY <1>2, <1>3, <1>5, <1>6

\* The steps of a plan that runs are registered and take the arguments they get,
\* those that read files are given files of the last context, and no step repeats
\* another.
THEOREM InstalledPlansAreRunnable == Spec => []PlansAreRunnable
<1>1. Typed /\ PlanIsValid => PlansAreRunnable
  BY RunningPlan DEF PlansAreRunnable
<1>2. QED
  BY <1>1, TypedAtFirst, TypedStays, RunningPlansAreValid, PTL DEF Spec

\* The tools a plan uses fit what the question is about.
THEOREM PlansStayGrounded == Spec => []GroundedInTask
<1>1. Typed /\ PlanIsValid => GroundedInTask
  <2> DEFINE intent == IntentOf(question)
             used == {step.tool : step \in ToolSteps(plan)}
  <2> SUFFICES ASSUME Typed, PlanIsValid, pc = "run"
               PROVE  /\ intent = "AUDIO_VIDEO" /\ MediaTool # None
                           => MediaTool \in used
                      /\ intent \in Local =>
                           used \cap {"web_search", "visit_webpage"} = {}
                      /\ \/ intent \in {"SELF_CONTAINED", "URL_PAGE"}
                         \/ intent = "IMAGE" /\ HasImage(listed)
                         \/ intent = "LOCAL_FILE" /\ HasSpreadsheet(listed)
                         => "web_search" \notin used
    BY DEF GroundedInTask
  <2>1. \A step \in ToolSteps(plan) : FitsTask(step, question, listed)
    BY RunningPlan
  <2>2. MediaGrounded(plan, question, listed)
    BY RunningPlan
  <2> HIDE DEF intent
  <2>3. ASSUME intent = "AUDIO_VIDEO", MediaTool # None
        PROVE  MediaTool \in used
    <3>1. (MediaTool # None) = TRUE
      BY <2>3
    <3>2. Strategy(question, listed) = Decision(MediaTool, TRUE)
      BY <2>3, <3>1 DEF Strategy, intent, Local
    <3>3. /\ Strategy(question, listed).tool = MediaTool
          /\ Strategy(question, listed).deterministic
      BY <2>3, <3>2 DEF Decision
    <3>4. \E step \in ToolSteps(plan) : step.tool = MediaTool
      BY <2>2, <2>3, <3>3 DEF MediaGrounded, intent
    <3>5. QED
      BY <3>4
  <2>4. ASSUME intent \in Local
        PROVE  used \cap {"web_search", "visit_webpage"} = {}
    <3>1. Forbidden(question) = {"web_search", "visit_webpage"}
      BY <2>4 DEF Forbidden, intent, Local
    <3>2. QED
      BY <2>1, <3>1 DEF FitsTask
  <2>5. ASSUME \/ intent \in {"SELF_CONTAINED", "URL_PAGE"}
               \/ intent = "IMAGE" /\ HasImage(listed)
               \/ intent = "LOCAL_FILE" /\ HasSpreadsheet(listed)
        PROVE  "web_search" \notin used
    <3>1. intent = "SELF_CONTAINED" => "web_search" \in Forbidden(question)
      BY DEF Forbidden, intent, Local
    <3>2. QED
      BY <2>1, <2>5, <3>1 DEF FitsTask, intent
  <2>6. QED
    BY <2>3, <2>4, <2>5
<1>2. QED
  BY <1>1, TypedAtFirst, TypedStays, RunningPlansAreValid, PTL DEF Spec

\* A replacement never contains the step that failed, and its tools are not all
\* of the family that failed unless the arguments were at fault.
THEOREM RecoveriesChangeCourse == Spec => []RecoveryChangesCourse
<1>1. Typed /\ PlanIsValid => RecoveryChangesCourse
  <2> SUFFICES ASSUME Typed, PlanIsValid, pc = "run", failure # NoFailure
               PROVE  /\ failure.step \notin StepsOf(plan)
                      /\ failure.type # "argument" =>
                           \/ ToolSteps(plan) = {}
                           \/ \E step \in ToolSteps(plan) :
                                Family(step.tool) # Family(failure.step.tool)
    BY DEF RecoveryChangesCourse
  <2>1. ChangesCourse(plan, failure)
    BY RunningPlan
  <2>2. failure.step \notin StepsOf(plan)
    BY <2>1 DEF ChangesCourse
  <2>3. failure.type # "argument" => ~SameFamily(plan, failure.step)
    BY <2>1 DEF ChangesCourse
  <2>4. ASSUME ~SameFamily(plan, failure.step), ToolSteps(plan) # {}
        PROVE  \E step \in ToolSteps(plan) :
                 Family(step.tool) # Family(failure.step.tool)
    BY <2>4 DEF SameFamily
  <2>5. QED
    BY <2>2, <2>3, <2>4
<1>2. QED
  BY <1>1, TypedAtFirst, TypedStays, RunningPlansAreValid, PTL DEF Spec

----------------------------------------------------------------------------
(* What Orchestration assumes of the plans it is given.                    *)

\* The steps before the final one, fewer than the planner's limit, in which the
\* loop detector finds no repetition.
OrchestratedPlans ==
  {p \in Seq(Step) : Len(p) < MaxPlanSteps /\ ~Detector!PlanRepeats(p)}

\* Whatever plan the planner gives the orchestrator, by rule, from the LLM or as
\* a replacement, is one that Orchestration's PlansAssumption speaks of.
THEOREM PlansFitOrchestration == Spec => [](pc = "run" => plan \in OrchestratedPlans)
<1>1. Typed /\ PlansAreRunnable => (pc = "run" => plan \in OrchestratedPlans)
  BY DEF Typed, PlansAreRunnable, OrchestratedPlans
<1>2. QED
  BY <1>1, TypedAtFirst, TypedStays, InstalledPlansAreRunnable, PTL DEF Spec
=============================================================================
