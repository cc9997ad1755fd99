----------------------------- MODULE Evaluation -----------------------------
(***************************************************************************)
(* The evaluation runner: one agent, built once, is given the questions    *)
(* one after the other, each with an AgentState of its own and a time      *)
(* limit.  When the limit expires, asyncio.wait_for cancels the coroutine  *)
(* at the await it is suspended at, and whatever answer the state holds is *)
(* recorded ("state salvaged").  What the agent keeps between questions is *)
(* the loop detector's history; the other variables of Orchestration       *)
(* belong to the state and the context of the question being run.          *)
(***************************************************************************)
EXTENDS Orchestration

CONSTANTS
  NumQuestions,     \* length of the list of questions
  BlankQuestions    \* the questions, by number, whose text is blank

ASSUME QuestionsAssumption ==
  /\ NumQuestions \in Nat
  /\ BlankQuestions \subseteq 1..NumQuestions
  /\ MaxRuns >= 1

VARIABLES
  stage,        \* where evaluate_questions is
  asked,        \* number of questions taken from the list
  error,        \* how evaluate_single_question's try block ended
  results,      \* the records, in order
  submission,   \* the rows written and submitted at the end
  verdicts      \* history variable: what was proposed and approved for which question

evalVars == <<stage, asked, error, results, submission, verdicts>>
allVars == <<vars, evalVars>>

EvalInit ==
  /\ Init
  /\ stage = "ready"
  /\ asked = 0
  /\ error = "none"
  /\ results = <<>>
  /\ submission = <<>>
  /\ verdicts = [proposed |-> {}, approved |-> {}]

----------------------------------------------------------------------------
\* Mutant: the state of the previous question is used again.
AskWithOldState ==
  /\ stage = "ready"
  /\ asked < NumQuestions
  /\ asked' = asked + 1
  /\ error' = "none"
  /\ stage' = "asked"
  /\ runs' = 0
  /\ approved' = {}
  /\ UNCHANGED <<state, run, history, pc, result, stop, done, results, submission, verdicts>>

\* The head of evaluate_single_question: a state for the next question.
Ask ==
  /\ stage = "ready"
  /\ asked < NumQuestions
  /\ asked' = asked + 1
  /\ error' = "none"
  /\ stage' = "asked"
  /\ state' = FreshState
  /\ runs' = 0
  /\ approved' = {}
  /\ UNCHANGED <<run, history, pc, result, stop, done, results, submission, verdicts>>

Start ==
  /\ stage = "asked"
  /\ asked \notin BlankQuestions
  /\ Run
  /\ stage' = "running"
  /\ UNCHANGED <<asked, error, results, submission, verdicts>>

\* AgentLoop._validate_state raises ValueError on a request without text.
Refused ==
  /\ stage = "asked"
  /\ asked \in BlankQuestions
  /\ error' = "raised"
  /\ stage' = "ended"
  /\ UNCHANGED <<vars, asked, results, submission, verdicts>>

Noted ==
  [proposed |-> verdicts.proposed \cup
     (IF pc = "executing" /\ pc' = "verifying"
      THEN {<<asked, state'.final_answer>>} ELSE {}),
   approved |-> verdicts.approved \cup {<<asked, a>> : a \in approved' \ approved}]

\* The agent takes a step; run_agent may return.
Works ==
  /\ stage = "running"
  /\ AgentStep
  /\ stage' = IF pc' = "idle" THEN "ended" ELSE stage
  /\ verdicts' = Noted
  /\ UNCHANGED <<asked, error, results, submission>>

\* asyncio.wait_for gives up and cancels the agent.
Timeout ==
  /\ stage = "running"
  /\ Cancel
  /\ error' = "timeout"
  /\ stage' = "ended"
  /\ UNCHANGED <<asked, results, submission, verdicts>>

\* Mutant: a cancelled run leaves no record.
RecordIfReturned ==
  /\ stage = "ended"
  /\ result = "returned"
  /\ results' = Append(results, [answer |-> state.final_answer,
                                 verified |-> state.final_answer_verified,
                                 error |-> error])
  /\ stage' = "ready"
  /\ UNCHANGED <<vars, asked, error, submission, verdicts>>

\* The record of the question, made from whatever the state holds.
Record ==
  /\ stage = "ended"
  /\ results' = Append(results, [answer |-> state.final_answer,
                                 verified |-> state.final_answer_verified,
                                 error |-> error])
  /\ stage' = "ready"
  /\ UNCHANGED <<vars, asked, error, submission, verdicts>>

\* build_course_rows: one row for each record; NoAnswer stands for the empty answer.
CourseRows(records) == [i \in DOMAIN records |-> records[i].answer]

\* Once all questions are done the rows to submit are made.
Finish ==
  /\ stage = "ready"
  /\ asked = NumQuestions
  /\ submission' = CourseRows(results)
  /\ stage' = "finished"
  /\ UNCHANGED <<vars, asked, error, results, verdicts>>

EvaluatorStep == Ask \/ Start \/ Refused \/ Record \/ Finish

EvalNext == EvaluatorStep \/ Works \/ Timeout

EvalSpec == EvalInit /\ [][EvalNext]_allVars

----------------------------------------------------------------------------
(* Correctness                                                             *)

RecordType ==
  [answer : Answers \cup {NoAnswer}, verified : BOOLEAN,
   error : {"none", "timeout", "raised"}]

\* The values the evaluator's variables range over, and the agent's.
EvalTypeOK ==
  /\ TypeOK
  /\ stage \in {"ready", "asked", "running", "ended", "finished"}
  /\ asked \in 0..NumQuestions
  /\ error \in {"none", "timeout", "raised"}
  /\ results \in Seq(RecordType)
  /\ submission \in Seq(Answers \cup {NoAnswer})
  /\ \A kind \in {"proposed", "approved"} :
       verdicts[kind] \subseteq (1..NumQuestions) \X Answers

\* An answer recorded for a question was proposed for that question, and one
\* recorded as verified was approved for it: neither a timeout nor the agent
\* that all questions share carries an answer or a verdict over.
RecordsAreOwn ==
  \A i \in DOMAIN results :
    /\ results[i].answer # NoAnswer => <<i, results[i].answer>> \in verdicts.proposed
    /\ results[i].verified => <<i, results[i].answer>> \in verdicts.approved

\* An approved answer is never lost: it is the one recorded for its question, and
\* recorded as verified, whether the run returned or was cancelled.
ApprovedAnswersAreRecorded ==
  \A i \in DOMAIN results : \A a \in Answers :
    <<i, a>> \in verdicts.approved => results[i].answer = a /\ results[i].verified

\* The detector judges a run by the steps of that run alone, although all
\* questions share it and a cancelled run does not clear it.
DetectorRemembersThisRun ==
  pc # "idle" =>
    /\ Len(history) <= Len(done)
    /\ history = SubSeq(done, Len(done) - Len(history) + 1, Len(done))

\* "failures are recorded per question as an empty submitted_answer"
\* (the docstring of evaluator.py).
FailuresSubmitNothing ==
  stage = "finished" =>
    \A i \in DOMAIN results : results[i].error # "none" => submission[i] = NoAnswer
=============================================================================
