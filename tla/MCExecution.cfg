\* Three interleaved calls, each with any request.
SPECIFICATION Spec
CONSTANTS
  Calls = {c1, c2, c3}
  search = search
  editor = editor
  unknown = unknown
  NoTool = NoTool
  Registered <- MCRegistered
  Capability <- MCCapability
  Requests <- MCRequests
  Analyses <- MCAnalyses
  MinimumRiskLevel = 1
  MaxStepAttempts = 3
  RetryMaxAttempts = 3
SYMMETRY CallSymmetry
CHECK_DEADLOCK FALSE
INVARIANTS
  ExecutionTypeOK
  FlaggedWorkNeverRuns
  RefusalsAreFinal
  AnalyzerOnlyWhereRulesAreSilent
  MetricsBalance
  SpansTellOutcome
