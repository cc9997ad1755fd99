---------------------------- MODULE OfficialRun ----------------------------
(***************************************************************************)
(* run_official_evaluation around Evaluation: the questions are fetched,   *)
(* their attachments staged, the questions asked, the results written and  *)
(* then submitted.  All files of the server land in one directory, under   *)
(* the names the server gives them.                                        *)
(***************************************************************************)
EXTENDS Evaluation

CONSTANTS
  Fetched,       \* number of questions fetched; the first NumQuestions are asked
  Declared,      \* the questions, by number, that name an attachment
  ServerName,    \* the name the server gives the attachment of a question
  LocalCopies    \* the questions with an attachment in the packaged directory

ASSUME StagingAssumption ==
  /\ Fetched \in Nat
  /\ NumQuestions <= Fetched
  /\ Declared \subseteq 1..Fetched
  /\ DOMAIN ServerName = Declared
  /\ LocalCopies \subseteq Declared

VARIABLES
  phase,       \* where run_official_evaluation is, or how it ended
  turn,        \* the question whose attachment is staged next
  directory,   \* the staging directory: the question a name has its bytes from
  filePath,    \* file_path of the questions
  absent,      \* questions for which the server answered 404
  written      \* the results on disk, in order

stagingVars == <<turn, directory, filePath, absent>>
officialVars == <<allVars, stagingVars, phase, written>>

NoPath == [at |-> "nowhere"]
Staged(name) == [at |-> "staging", name |-> name]
Packaged(q) == [at |-> "packaged", task |-> q]

OfficialInit ==
  /\ EvalInit
  /\ phase = "fetching"
  /\ turn = 1
  /\ directory = [name \in {} |-> 0]
  /\ filePath = [q \in 1..Fetched |-> NoPath]
  /\ absent = {}
  /\ written = <<>>

-----------------------------------------------------------------------------
\* GaiaEvaluationClient.fetch_questions
QuestionsArrive ==
  /\ phase = "fetching"
  /\ phase' = "staging"
  /\ UNCHANGED <<allVars, stagingVars, written>>

\* Any error of the request, for the list or for one attachment, ends the run.
RequestFails ==
  /\ \/ phase = "fetching"
     \/ phase = "staging" /\ turn \in Declared
  /\ phase' = "failed"
  /\ UNCHANGED <<allVars, stagingVars, written>>

NothingDeclared ==
  /\ phase = "staging"
  /\ turn \in (1..Fetched) \ Declared
  /\ turn' = turn + 1
  /\ UNCHANGED <<allVars, phase, directory, filePath, absent, written>>

\* GaiaEvaluationClient.fetch_question_file: a file of that name is overwritten.
AttachmentArrives ==
  /\ phase = "staging"
  /\ turn \in Declared
  /\ LET name == ServerName[turn]
     IN  /\ directory' = [n \in DOMAIN directory \cup {name} |->
                            IF n = name THEN turn ELSE directory[n]]
         /\ filePath' = [filePath EXCEPT ![turn] = Staged(name)]
  /\ turn' = turn + 1
  /\ UNCHANGED <<allVars, phase, absent, written>>

\* Mutant: what the server does not have is not looked for at hand.
NoCopy(q) == NoPath

\* _find_local_attachment
LocalCopy(q) == IF q \in LocalCopies THEN Packaged(q) ELSE NoPath

AttachmentIsAbsent ==
  /\ phase = "staging"
  /\ turn \in Declared
  /\ absent' = absent \cup {turn}
  /\ filePath' = [filePath EXCEPT ![turn] = LocalCopy(turn)]
  /\ turn' = turn + 1
  /\ UNCHANGED <<allVars, phase, directory, written>>

StagingEnds ==
  /\ phase = "staging"
  /\ turn > Fetched
  /\ phase' = "asking"
  /\ UNCHANGED <<allVars, stagingVars, written>>

-----------------------------------------------------------------------------
(* The questions are asked as in Evaluation                                *)

EvaluatorAsks ==
  /\ phase = "asking"
  /\ EvaluatorStep
  /\ UNCHANGED <<stagingVars, phase, written>>

AgentWorks ==
  /\ phase = "asking"
  /\ Works
  /\ UNCHANGED <<stagingVars, phase, written>>

LimitExpires ==
  /\ phase = "asking"
  /\ Timeout
  /\ UNCHANGED <<stagingVars, phase, written>>

\* evaluation_results.json, course_submission.json and submission.jsonl
WriteResults ==
  /\ phase = "asking"
  /\ stage = "finished"
  /\ written' = results
  /\ phase' = "written"
  /\ UNCHANGED <<allVars, stagingVars>>

\* Mutant: the results are submitted as soon as they are there.
ReadyAtOnce == phase \in {"asking", "written"} /\ stage = "finished"

Ready == phase = "written"

\* With --submit; the server may refuse the rows or not answer.  Without rows
\* the client refuses itself.
Submit ==
  /\ Ready
  /\ phase' \in {"refused"} \cup
       (IF submission = <<>> THEN {} ELSE {"submitted"})
  /\ UNCHANGED <<allVars, stagingVars, written>>

Staging ==
  \/ QuestionsArrive \/ RequestFails \/ NothingDeclared \/ AttachmentArrives
  \/ AttachmentIsAbsent \/ StagingEnds

OfficialNext ==
  \/ Staging \/ EvaluatorAsks \/ AgentWorks \/ LimitExpires
  \/ WriteResults \/ Submit

\* A step before the final one may call a tool.  Tools are synchronous functions
\* called on the event loop: until one of them returns no timer can fire.
ToolMayRun == pc = "executing" /\ ~AtFinalStep(run)

\* Nothing is assumed of the calls the agent awaits: they may never answer, and a
\* tool may never return.  The code between awaits runs, the timer of wait_for
\* fires where no tool may be running, and the client's requests have a timeout.
\* Whether to submit is the user's choice.
OfficialFairness ==
  /\ WF_officialVars(Staging)
  /\ WF_officialVars(EvaluatorAsks)
  /\ WF_officialVars(pc = "loop" /\ AgentWorks)
  /\ WF_officialVars(~ToolMayRun /\ LimitExpires)
  /\ WF_officialVars(WriteResults)

OfficialSpec == OfficialInit /\ [][OfficialNext]_officialVars /\ OfficialFairness

-----------------------------------------------------------------------------
(* Correctness                                                             *)

\* The question whose bytes are at a path.
BytesAt(path) ==
  IF path.at = "packaged" THEN path.task ELSE directory[path.name]

\* A question that declares an attachment is asked with it.  Only a 404 for a
\* file that is not packaged either leaves it without one, and only a later
\* attachment that the server gave the same name takes the place of its own.
AskedWithAttachment ==
  phase = "asking" /\ asked \in Declared =>
    IF filePath[asked] = NoPath
    THEN asked \in absent \ LocalCopies
    ELSE \/ BytesAt(filePath[asked]) = asked
         \/ \E later \in (asked + 1)..Fetched :
              /\ later \in Declared \ absent
              /\ ServerName[later] = ServerName[asked]

\* Nothing is lost when the submission is refused or does not get through: what
\* was submitted is on disk, one record for each question that was asked.
SubmittedIsWritten ==
  phase \in {"submitted", "refused"} =>
    /\ Len(written) = NumQuestions
    /\ submission = CourseRows(written)

\* A run that gets past its requests ends with a row for every question on disk,
\* even when the context, the planner, the verifier or the LLM never answers.
\* Only one thing keeps it from its end, time limit or not: a step on the way to
\* the answer that is executed and never comes back.
OfficialRunEnds ==
  \/ <>( \/ phase = "failed"
         \/ Len(written) = NumQuestions /\ Len(submission) = NumQuestions)
  \/ <>[]ToolMayRun
=============================================================================
