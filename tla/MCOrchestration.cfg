SPECIFICATION Spec
CONSTANTS
  s1 = s1
  s2 = s2
  s3 = s3
  Steps = {s1, s2, s3}
  Alike <- MCAlike
  Plans <- MCPlans
  NoPlan = NoPlan
  Answers = {a1, a2}
  NoAnswer = NoAnswer
  ExecErrors <- MCErrors
  StopFlags = {"human_aborted", "timed_out"}
  MaxHistory = 20
  MaxStepAttempts = 3
  RetryMaxAttempts = 3
  MaxVerificationAttempts = 2
  PolicyVerificationAttempts = 2
  MaxReplans = 2
  MaxPlanSteps = 3
  MaxIterations = 10
  MaxRuns = 2
CHECK_DEADLOCK FALSE
INVARIANTS
  TypeOK
  VerifiedAnswerOnly
  NoStaleCandidate
  PhaseFitsAwait
  StateMirrorsRun
  PlanProgress
  VersionCountsReplans
  BudgetsHold
  PolicyNeverJudgesAnswers
  NoRepeatedExecution
  ReturnIsDecided
PROPERTIES
  PhasesFollowTable
  CompletedIsFinal
  FailureIsFinal
  StopIsHonoured
  ImplementsContract
