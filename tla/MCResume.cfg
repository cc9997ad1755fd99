SPECIFICATION Spec
CONSTANTS
  s1 = s1
  s2 = s2
  s3 = s3
  Steps = {s1, s2, s3}
  Alike <- MCAlike
  Plans <- ShortPlans
  NoPlan = NoPlan
  Answers = {a1}
  NoAnswer = NoAnswer
  ExecErrors <- MCErrors
  StopFlags = {}
  MaxHistory = 20
  MaxStepAttempts = 3
  RetryMaxAttempts = 3
  MaxVerificationAttempts = 2
  PolicyVerificationAttempts = 2
  MaxReplans = 2
  MaxPlanSteps = 3
  MaxIterations = 6
  MaxRuns = 2
CHECK_DEADLOCK FALSE
PROPERTIES
  PlanInstalledOnlyInPlanning
