------------------------ MODULE Verification_proofs ------------------------
(***************************************************************************)
(* Theorems about Verification, for all results, candidates and budgets.   *)
(*                                                                         *)
(* A verdict is given in one step and used in later ones, so the proofs    *)
(* rest on one fact: an accepted answer is accepted on the evidence that   *)
(* is still there, by the rules or by a judgement on what the rules found. *)
(***************************************************************************)
EXTENDS Verification, SequenceTheorems, TLAPS

----------------------------------------------------------------------------
(* The rules                                                               *)

\* The rules always come to a status.
LEMMA RulesDecide ==
  ASSUME NEW answer, NEW items
  PROVE  ByRules(answer, items) \in Status
<1>1. \A values : ByField(answer, values) \in Status
  BY DEF ByField, Status
<1>2. \A computed, contents : ByComputation(answer, computed, contents) \in Status
  BY DEF ByComputation, Status
<1>3. \A finals, contents : ByLabel(answer, finals, contents) \in Status
  BY DEF ByLabel, Status
<1>4. \A contents : ByText(answer, contents) \in Status
  BY DEF ByText, Status
<1>5. "insufficient" \in Status
  BY DEF Status
<1>6. QED
  BY <1>1, <1>2, <1>3, <1>4, <1>5 DEF ByRules

\* What is made of a judgement is a status.
LEMMA JudgedIsStatus ==
  ASSUME NEW judgement \in Judgement, NEW status \in Status
  PROVE  Judged(judgement, status) \in Status
BY DEF Judged, Judgement, Status

\* Without an answer field, several final results make a number a conflict.
LEMMA SeveralFinalsConflict ==
  ASSUME NEW answer \in Numbers, NEW items,
         Several(UNION {c.finals : c \in Contents(items, Strong(items))}),
         \A c \in Contents(items, Strong(items)) : c.field = Nothing
  PROVE  ByRules(answer, items) = "conflicting"
<1> DEFINE contents == Contents(items, Strong(items))
<1> DEFINE finals == UNION {c.finals : c \in contents}
<1>1. finals # {} /\ contents # {}
  BY DEF Several
<1>2. {c.field : c \in contents} \ {Nothing} = {}
  OBVIOUS
<1>3. answer \notin Texts
  BY VerifierAssumption
<1>4. ByLabel(answer, finals, contents) = "conflicting"
  BY DEF ByLabel
<1>5. ByRules(answer, items) = ByLabel(answer, finals, contents)
  BY <1>1, <1>2, <1>3 DEF ByRules
<1>6. QED
  BY <1>4, <1>5

\* A number the rules accept is stated as an answer by a current result.
LEMMA AcceptedIsStated ==
  ASSUME NEW answer \in Numbers, NEW items, ByRules(answer, items) = "verified"
  PROVE  \E c \in Contents(items, Strong(items)) :
           \/ answer = c.field
           \/ answer \in c.finals /\ ~c.marker
           \/ answer = c.whole
<1> DEFINE contents == Contents(items, Strong(items))
<1> DEFINE fields == {c.field : c \in contents} \ {Nothing}
<1> DEFINE finals == UNION {c.finals : c \in contents}
<1>1. contents # {}
  BY DEF ByRules
<1>2. answer \notin Texts
  BY VerifierAssumption
<1>3. CASE fields # {}
  <2>1. ByField(answer, fields) = "verified"
    BY <1>1, <1>3 DEF ByRules
  <2>2. answer \in fields
    BY <2>1 DEF ByField
  <2>3. QED
    BY <2>2
<1>4. CASE fields = {} /\ finals = {}
  <2>1. ByComputation(answer, Computed(items), contents) = "verified"
    BY <1>1, <1>2, <1>4 DEF ByRules
  <2>2. answer \in Computed(items)
    BY <2>1 DEF ByComputation
  <2>3. PICK i \in Strong(items) : answer = items[i].content.whole
    BY <2>2 DEF Computed
  <2>4. QED
    BY <2>3 DEF Contents
<1>5. CASE fields = {} /\ finals # {}
  <2>1. ByLabel(answer, finals, contents) = "verified"
    BY <1>1, <1>2, <1>5 DEF ByRules
  <2>2. answer \in finals /\ \A c \in contents : ~c.marker
    BY <2>1 DEF ByLabel
  <2>3. QED
    BY <2>2
<1>6. QED
  BY <1>3, <1>4, <1>5

----------------------------------------------------------------------------
(* The inductive invariants                                                *)

\* What the judge is asked about: a candidate the rules left open, on evidence
\* that is still the current one.
JudgeHearsFindings ==
  pc = "judge" =>
    /\ candidate # Nothing
    /\ Current(evidence) # {}
    /\ Supported(task, evidence)
    /\ found = ByRules(candidate, evidence)

\* An accepted answer ended the run, on evidence that is still there, by the
\* rules or by a judgement that held against what the rules found.
VerdictIsJust ==
  verdict.status = "verified" =>
    /\ pc = "done"
    /\ Current(evidence) # {}
    /\ Supported(task, evidence)
    /\ \/ ByRules(candidate, evidence) = "verified"
       \/ /\ verdict.by = "llm"
          /\ \E judgement \in Judgement :
               /\ verdict.reason = judgement.reason
               /\ Judged(judgement, ByRules(candidate, evidence)) = "verified"

Just == JudgeHearsFindings /\ VerdictIsJust

LEMMA JustAtFirst == Init => Just
BY DEF Init, Just, JudgeHearsFindings, VerdictIsJust, NoVerdict

LEMMA JustStays == Just /\ [Next]_vars => Just'
<1> SUFFICES ASSUME Just, [Next]_vars
             PROVE  Just'
  OBVIOUS
<1> USE DEF Just
<1>1. ASSUME NEW result \in Results, StepSucceeds(result)
      PROVE  Just'
  BY <1>1 DEF StepSucceeds, JudgeHearsFindings, VerdictIsJust
<1>2. CASE StepFails
  BY <1>2 DEF StepFails, JudgeHearsFindings, VerdictIsJust
<1>3. ASSUME NEW answer \in Candidates, Answer(answer)
      PROVE  Just'
  BY <1>3 DEF Answer, JudgeHearsFindings, VerdictIsJust
<1>4. CASE RejectEmpty
  BY <1>4 DEF RejectEmpty, Conclude, JudgeHearsFindings, VerdictIsJust
<1>5. CASE RejectUnsupported
  <2>1. verdict'.status # "verified" /\ pc' # "judge"
    BY <1>5 DEF RejectUnsupported, Conclude
  <2>2. QED
    BY <2>1 DEF JudgeHearsFindings, VerdictIsJust
<1>6. CASE ApplyRules
  <2> USE <1>6 DEF ApplyRules
  <2>1. found' = ByRules(candidate', evidence')
    OBVIOUS
  <2>2. CASE found' \in {"verified", "invalid"}
    <3>1. /\ verdict' = [status |-> found', by |-> "rules", reason |-> "plain"]
          /\ verdict'.status = "verified" => pc' = "done"
          /\ pc' # "judge"
      BY <2>2 DEF Conclude
    <3>2. verdict'.status = found'
      BY <3>1
    <3>3. QED
      BY <2>1, <3>1, <3>2 DEF JudgeHearsFindings, VerdictIsJust
  <2>3. CASE found' \notin {"verified", "invalid"}
    <3>1. pc' = "judge" /\ verdict' = verdict
      BY <2>3
    <3>2. verdict.status # "verified"
      BY DEF VerdictIsJust
    <3>3. QED
      BY <2>1, <3>1, <3>2 DEF JudgeHearsFindings, VerdictIsJust
  <2>4. QED
    BY <2>2, <2>3
<1>7. ASSUME NEW judgement \in Judgement, Judge(judgement)
      PROVE  Just'
  <2> USE <1>7 DEF Judge
  <2> DEFINE status == Judged(judgement, found)
  <2>1. /\ verdict' = [status |-> status, by |-> "llm", reason |-> judgement.reason]
        /\ status = "verified" => pc' = "done"
        /\ pc' # "judge"
    BY DEF Conclude
  <2>2. /\ found = ByRules(candidate, evidence)
        /\ Current(evidence) # {}
        /\ Supported(task, evidence)
    BY DEF JudgeHearsFindings
  <2> HIDE DEF status
  <2>3. /\ verdict'.status = status
        /\ verdict'.by = "llm"
        /\ verdict'.reason = judgement.reason
    BY <2>1
  <2>4. status = Judged(judgement, ByRules(candidate', evidence'))
    BY <2>2 DEF status
  <2>5. QED
    BY <2>1, <2>2, <2>3, <2>4 DEF JudgeHearsFindings, VerdictIsJust
<1>8. CASE JudgeFails
  BY <1>8 DEF JudgeFails, JudgeHearsFindings, VerdictIsJust
<1>9. CASE Replan
  <2>1. verdict' = NoVerdict /\ pc' # "judge"
    BY <1>9 DEF Replan
  <2>2. QED
    BY <2>1 DEF JudgeHearsFindings, VerdictIsJust, NoVerdict
<1>10. CASE UNCHANGED vars
  BY <1>10 DEF vars, JudgeHearsFindings, VerdictIsJust
<1>11. QED
  BY <1>1, <1>2, <1>3, <1>4, <1>5, <1>6, <1>7, <1>8, <1>9, <1>10 DEF Next

\* An accepted answer was accepted on the evidence that is still there: the
\* properties of the verifier's verdicts follow from this one.
THEOREM VerdictsAreJust == Spec => []VerdictIsJust
<1>1. Spec => []Just
  BY JustAtFirst, JustStays, PTL DEF Spec
<1>2. Just => VerdictIsJust
  BY DEF Just
<1>3. QED
  BY <1>1, <1>2, PTL

\* AnswersRestOnTools: no accepted answer without a tool's result, and none
\* about an image without the vision tool's.
THEOREM AcceptedAnswersRestOnTools == Spec => []AnswersRestOnTools
<1>1. VerdictIsJust => AnswersRestOnTools
  <2> SUFFICES ASSUME VerdictIsJust, verdict.status = "verified"
               PROVE  /\ FromTools # {}
                      /\ task = "IMAGE" =>
                           \E i \in FromTools : evidence[i].tool = "analyze_image"
    BY DEF AnswersRestOnTools
  <2>1. Current(evidence) # {} /\ Supported(task, evidence)
    BY DEF VerdictIsJust
  <2>2. Current(evidence) \subseteq FromTools
    BY DEF Current, OfNewestPlan, OfNewestAttempt, Usable, FromTools
  <2>3. ASSUME task = "IMAGE"
        PROVE  \E i \in Current(evidence) : evidence[i].tool = "analyze_image"
    BY <2>1, <2>3 DEF Supported
  <2>4. QED
    BY <2>1, <2>2, <2>3
<1>2. QED
  BY <1>1, VerdictsAreJust, PTL

\* ConflictNeedsResolution: a contradicted number is accepted only on a reason
\* that says how the contradiction resolves.
THEOREM ConflictsAreResolved == Spec => []ConflictNeedsResolution
<1>1. VerdictIsJust => ConflictNeedsResolution
  <2> SUFFICES ASSUME VerdictIsJust, verdict.status = "verified",
                      candidate \in Numbers,
                      Several(UNION {c.finals :
                        c \in Contents(evidence, Strong(evidence))}),
                      \A c \in Contents(evidence, Strong(evidence)) :
                        c.field = Nothing
               PROVE  verdict.by = "llm" /\ verdict.reason = "resolving"
    BY DEF ConflictNeedsResolution
  <2>1. ByRules(candidate, evidence) = "conflicting"
    BY SeveralFinalsConflict
  <2>2. PICK judgement \in Judgement :
          /\ verdict.by = "llm"
          /\ verdict.reason = judgement.reason
          /\ Judged(judgement, "conflicting") = "verified"
    BY <2>1 DEF VerdictIsJust
  <2>3. judgement.reason = "resolving"
    BY <2>2 DEF Judged, Judgement
  <2>4. QED
    BY <2>2, <2>3
<1>2. QED
  BY <1>1, VerdictsAreJust, PTL

\* CoincidenceNeedsJudge: a number the rules accept is stated as an answer.
THEOREM CoincidencesAreJudged == Spec => []CoincidenceNeedsJudge
<1>1. VerdictIsJust => CoincidenceNeedsJudge
  <2> SUFFICES ASSUME VerdictIsJust, verdict.status = "verified",
                      verdict.by = "rules", candidate \in Numbers
               PROVE  \E c \in Contents(evidence, Strong(evidence)) :
                        \/ candidate = c.field
                        \/ candidate \in c.finals /\ ~c.marker
                        \/ candidate = c.whole
    BY DEF CoincidenceNeedsJudge
  <2>1. ByRules(candidate, evidence) = "verified"
    BY DEF VerdictIsJust
  <2>2. QED
    BY <2>1, AcceptedIsStated
<1>2. QED
  BY <1>1, VerdictsAreJust, PTL

----------------------------------------------------------------------------
(* Types and budgets                                                       *)

\* Attempts and rejections stop in time, and the results to come fit: without
\* these the types of the next step cannot be told.
Budgets ==
  /\ pc = "execute" => attempt < MaxStepAttempts
  /\ pc = "execute" => Len(evidence) + pending <= MaxResults
  /\ pc \in {"execute", "verify", "judge", "replan"} =>
       rejected < MaxVerificationAttempts

\* Plan versions never go down along the evidence, nor beyond the one in force.
InOrder ==
  /\ \A i, j \in DOMAIN evidence :
       i <= j => evidence[i].version <= evidence[j].version
  /\ \A i \in DOMAIN evidence : evidence[i].version <= version

Typed == TypeOK /\ Budgets /\ InOrder

LEMMA TypedAtFirst == Init => Typed
<1> SUFFICES ASSUME Init
             PROVE  Typed
  OBVIOUS
<1>1. /\ MaxVerificationAttempts \in Nat \ {0}
      /\ MaxStepAttempts \in Nat \ {0}
      /\ MaxReplans \in Nat
      /\ MaxSteps \in Nat /\ MaxResults \in Nat /\ MaxSteps <= MaxResults
  BY VerificationAssumption
<1>2. evidence \in Seq(Item) /\ Len(evidence) = 0 /\ DOMAIN evidence = {}
  BY DEF Init
<1>3. NoVerdict \in Verdict
  BY DEF NoVerdict, Verdict
<1>4. QED
  BY <1>1, <1>2, <1>3 DEF Init, Typed, TypeOK, Budgets, InOrder, Status

\* A verdict is typed, and its count of rejections stays within the budget.
LEMMA ConcludeTyped ==
  ASSUME TypeOK, rejected < MaxVerificationAttempts,
         NEW result \in [ status : Status, by : {"empty", "filter", "rules", "llm"},
                          reason : {"blank", "plain", "resolving"} ],
         Conclude(result)
  PROVE  /\ verdict' \in Verdict
         /\ rejected' \in 0..MaxVerificationAttempts
         /\ pc' \in {"done", "replan", "failed"}
         /\ pc' = "replan" => rejected' < MaxVerificationAttempts
<1>1. MaxVerificationAttempts \in Nat /\ rejected \in Nat
  BY VerificationAssumption DEF TypeOK
<1>2. result \in Verdict
  BY DEF Verdict
<1>3. QED
  BY <1>1, <1>2 DEF Conclude, TypeOK

LEMMA CandidateType ==
  ASSUME TypeOK, candidate # Nothing
  PROVE  candidate \in Numbers \cup Texts
BY VerificationAssumption DEF TypeOK

LEMMA TypedStays == Typed /\ [Next]_vars => Typed'
<1> SUFFICES ASSUME Typed, [Next]_vars
             PROVE  Typed'
  OBVIOUS
<1>1. /\ MaxVerificationAttempts \in Nat \ {0}
      /\ MaxStepAttempts \in Nat \ {0}
      /\ MaxReplans \in Nat
      /\ MaxSteps \in Nat /\ MaxResults \in Nat
  BY VerificationAssumption
<1>2. TypeOK /\ Budgets /\ InOrder
  BY DEF Typed
<1>3. ASSUME NEW result \in Results, StepSucceeds(result)
      PROVE  Typed'
  <2> USE <1>3 DEF StepSucceeds
  <2>1. /\ attempt + 1 \in 1..MaxStepAttempts
        /\ version \in 1..(MaxReplans + 1)
        /\ pending - 1 \in 0..MaxSteps
        /\ evidence \in Seq(Item)
    BY <1>1, <1>2 DEF TypeOK, Budgets
  <2>2. Stamped(result) \in Item /\ Stamped(result).version = version
    BY <2>1 DEF Stamped, Item, Record
  <2>3. /\ evidence' \in Seq(Item)
        /\ Len(evidence') = Len(evidence) + 1
        /\ DOMAIN evidence' = 1..(Len(evidence) + 1)
        /\ DOMAIN evidence = 1..Len(evidence)
        /\ Len(evidence) \in Nat
        /\ \A i \in 1..Len(evidence) : evidence'[i] = evidence[i]
        /\ evidence'[Len(evidence) + 1] = Stamped(result)
    BY <2>1, <2>2
  <2>4. Len(evidence') + pending' <= MaxResults /\ Len(evidence') <= MaxResults
    BY <1>1, <1>2, <2>1, <2>3 DEF Budgets, TypeOK
  <2>5. TypeOK'
    BY <1>1, <1>2, <2>1, <2>3, <2>4 DEF TypeOK
  <2>6. Budgets'
    BY <1>1, <1>2, <2>4 DEF Budgets
  <2>7. ASSUME NEW i \in DOMAIN evidence'
        PROVE  evidence'[i].version <= version
    BY <1>2, <2>1, <2>2, <2>3 DEF InOrder
  <2>8. ASSUME NEW i \in DOMAIN evidence', NEW j \in DOMAIN evidence', i <= j
        PROVE  evidence'[i].version <= evidence'[j].version
    <3>1. CASE j = Len(evidence) + 1
      BY <2>2, <2>3, <2>7, <3>1
    <3>2. CASE j # Len(evidence) + 1
      <4>1. i \in DOMAIN evidence /\ j \in DOMAIN evidence
        BY <2>3, <2>8, <3>2
      <4>2. QED
        BY <1>2, <2>3, <2>8, <4>1 DEF InOrder
    <3>3. QED
      BY <3>1, <3>2
  <2>9. InOrder'
    BY <2>7, <2>8 DEF InOrder
  <2>10. QED
    BY <2>5, <2>6, <2>9 DEF Typed
<1>4. CASE StepFails
  <2>1. TypeOK' /\ Budgets'
    BY <1>1, <1>2, <1>4 DEF StepFails, TypeOK, Budgets
  <2>2. InOrder'
    BY <1>2, <1>4 DEF StepFails, InOrder
  <2>3. QED
    BY <2>1, <2>2 DEF Typed
<1>5. ASSUME NEW answer \in Candidates, Answer(answer)
      PROVE  Typed'
  <2>1. TypeOK' /\ Budgets'
    BY <1>1, <1>2, <1>5 DEF Answer, TypeOK, Budgets
  <2>2. InOrder'
    BY <1>2, <1>5 DEF Answer, InOrder
  <2>3. QED
    BY <2>1, <2>2 DEF Typed
<1>6. ASSUME NEW result \in [ status : Status,
                              by : {"empty", "filter", "rules", "llm"},
                              reason : {"blank", "plain", "resolving"} ],
             Conclude(result), pc \in {"verify", "judge"},
             UNCHANGED <<task, version, pending, attempt, evidence, candidate>>,
             found' \in Status
      PROVE  Typed'
  <2>1. rejected < MaxVerificationAttempts
    BY <1>2, <1>6 DEF Budgets
  <2>2. /\ verdict' \in Verdict
        /\ rejected' \in 0..MaxVerificationAttempts
        /\ pc' \in {"done", "replan", "failed"}
        /\ pc' = "replan" => rejected' < MaxVerificationAttempts
    BY <1>2, <1>6, <2>1, ConcludeTyped
  <2>3. TypeOK' /\ Budgets'
    BY <1>2, <1>6, <2>2 DEF TypeOK, Budgets
  <2>4. InOrder'
    BY <1>2, <1>6 DEF InOrder
  <2>5. QED
    BY <2>3, <2>4 DEF Typed
<1>7. CASE RejectEmpty
  <2>1. [status |-> "invalid", by |-> "empty", reason |-> "plain"]
          \in [ status : Status, by : {"empty", "filter", "rules", "llm"},
                reason : {"blank", "plain", "resolving"} ]
    BY DEF Status
  <2>2. QED
    BY <1>2, <1>6, <1>7, <2>1 DEF RejectEmpty, TypeOK
<1>8. CASE RejectUnsupported
  <2> DEFINE status == IF Current(evidence) = {}
                       THEN "insufficient" ELSE "unsupported"
  <2>1. [status |-> status, by |-> "filter", reason |-> "plain"]
          \in [ status : Status, by : {"empty", "filter", "rules", "llm"},
                reason : {"blank", "plain", "resolving"} ]
    BY DEF Status
  <2>2. Conclude([status |-> status, by |-> "filter", reason |-> "plain"])
    BY <1>8 DEF RejectUnsupported
  <2> HIDE DEF status
  <2>3. QED
    BY <1>2, <1>6, <1>8, <2>1, <2>2 DEF RejectUnsupported, TypeOK
<1>9. CASE ApplyRules
  <2> USE <1>9 DEF ApplyRules
  <2>1. found' \in Status
    BY RulesDecide
  <2>2. CASE found' \in {"verified", "invalid"}
    <3>1. [status |-> found', by |-> "rules", reason |-> "plain"]
            \in [ status : Status, by : {"empty", "filter", "rules", "llm"},
                  reason : {"blank", "plain", "resolving"} ]
      BY <2>1
    <3>2. Conclude([status |-> found', by |-> "rules", reason |-> "plain"])
      BY <2>2
    <3>3. QED
      BY <1>6, <2>1, <3>1, <3>2
  <2>3. CASE found' \notin {"verified", "invalid"}
    <3>1. pc' = "judge" /\ UNCHANGED <<verdict, rejected>>
      BY <2>3
    <3>2. TypeOK' /\ Budgets'
      BY <1>2, <2>1, <3>1 DEF TypeOK, Budgets
    <3>3. InOrder'
      BY <1>2 DEF InOrder
    <3>4. QED
      BY <3>2, <3>3 DEF Typed
  <2>4. QED
    BY <2>2, <2>3
<1>10. ASSUME NEW judgement \in Judgement, Judge(judgement)
       PROVE  Typed'
  <2>1. Judged(judgement, found) \in Status
    BY <1>2, JudgedIsStatus DEF TypeOK
  <2>2. judgement.reason \in {"blank", "plain", "resolving"}
    BY DEF Judgement
  <2>3. [ status |-> Judged(judgement, found), by |-> "llm",
          reason |-> judgement.reason ]
          \in [ status : Status, by : {"empty", "filter", "rules", "llm"},
                reason : {"blank", "plain", "resolving"} ]
    BY <2>1, <2>2
  <2>4. QED
    BY <1>2, <1>6, <1>10, <2>3 DEF Judge, TypeOK
<1>11. CASE JudgeFails
  <2>1. TypeOK' /\ Budgets'
    BY <1>2, <1>11 DEF JudgeFails, TypeOK, Budgets
  <2>2. InOrder'
    BY <1>2, <1>11 DEF JudgeFails, InOrder
  <2>3. QED
    BY <2>1, <2>2 DEF Typed
<1>12. CASE Replan
  <2> USE <1>12 DEF Replan
  <2>1. /\ version \in Nat /\ version <= version'
        /\ version' \in 1..(MaxReplans + 1)
        /\ pending' \in 0..MaxSteps
        /\ pc' \in {"execute", "failed"}
        /\ pc' = "execute" => Len(evidence') + pending' <= MaxResults
    BY <1>1, <1>2 DEF TypeOK
  <2>2. TypeOK'
    <3>1. NoVerdict \in Verdict /\ "insufficient" \in Status
      BY DEF NoVerdict, Verdict, Status
    <3>2. QED
      BY <1>1, <1>2, <2>1, <3>1 DEF TypeOK
  <2>3. Budgets'
    BY <1>1, <1>2, <2>1 DEF Budgets
  <2>4. InOrder'
    <3>1. \A i \in DOMAIN evidence : evidence[i].version \in Nat
      BY <1>1, <1>2 DEF TypeOK, Item, Record
    <3>2. QED
      BY <1>2, <2>1, <3>1 DEF InOrder
  <2>5. QED
    BY <2>2, <2>3, <2>4 DEF Typed
<1>13. CASE UNCHANGED vars
  BY <1>2, <1>13 DEF vars, Typed, TypeOK, Budgets, InOrder
<1>14. QED
  BY <1>3, <1>4, <1>5, <1>7, <1>8, <1>9, <1>10, <1>11, <1>12, <1>13 DEF Next

LEMMA TypesHold == Spec => []Typed
BY TypedAtFirst, TypedStays, PTL DEF Spec

\* The evidence, its stamps, the counts of attempts and rejections and the
\* verdicts keep their types, for all results, candidates and budgets.
THEOREM VerificationTypeCorrect == Spec => []TypeOK
<1>1. Typed => TypeOK
  BY DEF Typed
<1>2. QED
  BY <1>1, TypesHold, PTL

----------------------------------------------------------------------------
(* Evidence                                                                *)

\* EvidenceIsCurrent: the newest result is always heard, and no result of a
\* plan given up once the plan in force has one.  The filter infers the plan
\* in force from the results; that is right because versions only go up.
THEOREM FilterFollowsThePlan == Spec => []EvidenceIsCurrent
<1>1. Typed => EvidenceIsCurrent
  <2> SUFFICES ASSUME Typed
               PROVE  EvidenceIsCurrent
    OBVIOUS
  <2> DEFINE items == OfNewestAttempt(evidence, FromTools)
  <2>1. /\ DOMAIN evidence \subseteq Nat
        /\ \A i \in DOMAIN evidence : evidence[i].version \in Nat
        /\ version \in Nat
    <3>1. /\ evidence \in Seq(Item) /\ MaxReplans \in Nat
          /\ version \in 1..(MaxReplans + 1)
      BY VerificationAssumption DEF Typed, TypeOK
    <3>2. \A item \in Item : item.version \in Nat
      BY <3>1 DEF Item, Record
    <3>3. DOMAIN evidence = 1..Len(evidence) /\ Len(evidence) \in Nat
      BY <3>1
    <3>4. QED
      BY <3>1, <3>2, <3>3
  <2>2. Usable(evidence) = FromTools
    BY DEF Usable, FromTools
  <2>3. Current(evidence) = OfNewestPlan(evidence, items)
    BY <2>2 DEF Current
  <2>4. items \subseteq FromTools /\ FromTools \subseteq DOMAIN evidence
    BY DEF OfNewestAttempt, FromTools
  <2>5. InOrder
    BY DEF Typed
  <2>6. ASSUME NEW last \in FromTools, \A j \in FromTools : j <= last
        PROVE  /\ last \in items
               /\ \A j \in FromTools : evidence[j].version <= evidence[last].version
    <3>1. last \in items
      BY <2>6 DEF OfNewestAttempt
    <3>2. QED
      BY <2>4, <2>5, <2>6, <3>1 DEF InOrder
  <2>7. ASSUME NEW last \in FromTools, \A j \in FromTools : j <= last
        PROVE  last \in Current(evidence)
    BY <2>3, <2>4, <2>6, <2>7 DEF OfNewestPlan
  <2>8. ASSUME NEW i \in FromTools, evidence[i].version = version,
               NEW k \in Current(evidence)
        PROVE  evidence[k].version = version
    <3>1. k \in items /\ \A j \in items : evidence[j].version <= evidence[k].version
      BY <2>3 DEF OfNewestPlan
    <3>2. PICK last \in FromTools : \A j \in FromTools : j <= last
      BY <3>1 DEF OfNewestAttempt
    <3>3. /\ evidence[i].version <= evidence[last].version
          /\ evidence[last].version <= evidence[k].version
      BY <2>6, <3>1, <3>2
    <3>4. evidence[k].version <= version
      BY <2>4, <2>5, <3>1 DEF InOrder
    <3>5. QED
      BY <2>1, <2>4, <2>8, <3>1, <3>2, <3>3, <3>4
  <2> HIDE DEF items
  <2>9. {l \in FromTools : \A j \in FromTools : j <= l} \subseteq Current(evidence)
    BY <2>7
  <2>10. QED
    BY <2>8, <2>9 DEF EvidenceIsCurrent
<1>2. QED
  BY <1>1, TypesHold, PTL
=============================================================================
