SPECIFICATION FairSpec
CONSTANTS
  s1 = s1
  s2 = s2
  s3 = s3
  Steps = {s1, s2, s3}
  Alike <- MCAlike
  Plans <- ShortPlans
  NoPlan = NoPlan
  Answers = {a1}
  NoAnswer = NoAnswer
  ExecErrors <- MCErrors
  StopFlags = {"explicit_stop"}
  MaxHistory = 20
  MaxStepAttempts = 2
  RetryMaxAttempts = 3
  MaxVerificationAttempts = 2
  PolicyVerificationAttempts = 2
  MaxReplans = 1
  MaxPlanSteps = 2
  MaxIterations = 14
  MaxRuns = 2
CHECK_DEADLOCK FALSE
INVARIANTS
  WorkIsBounded
PROPERTIES
  RunEnds
