SPECIFICATION OfficialSpec
CONSTANTS
  s1 = s1
  s2 = s2
  Steps = {s1, s2}
  Alike <- MCAlike
  Plans <- MCPlans
  NoPlan = NoPlan
  Answers = {a1, a2}
  NoAnswer = NoAnswer
  ExecErrors <- MCErrors
  StopFlags = {}
  MaxHistory = 1
  MaxStepAttempts = 2
  RetryMaxAttempts = 3
  MaxVerificationAttempts = 2
  PolicyVerificationAttempts = 2
  MaxReplans = 1
  MaxPlanSteps = 2
  MaxIterations = 8
  MaxRuns = 1
  NumQuestions = 3
  BlankQuestions = {2}
  Fetched = 3
  Declared = {1, 3}
  ServerName <- MCServerName
  LocalCopies = {3}
CHECK_DEADLOCK FALSE
INVARIANTS
  EvalTypeOK
  RecordsAreOwn
  ApprovedAnswersAreRecorded
  DetectorRemembersThisRun
  AskedWithAttachment
  SubmittedIsWritten
PROPERTIES
  OfficialRunEnds
