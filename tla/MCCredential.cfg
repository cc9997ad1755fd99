\* An LLM step whose credential is refused.
SPECIFICATION Spec
CONSTANTS
  Calls = {c1}
  search = search
  editor = editor
  unknown = unknown
  NoTool = NoTool
  Registered <- MCRegistered
  Capability <- MCCapability
  Requests <- MCRequests
  Analyses <- MCAnalyses
  MinimumRiskLevel = 1
  MaxStepAttempts = 3
  RetryMaxAttempts = 3
CHECK_DEADLOCK FALSE
INVARIANT AuthenticationIsNotRetried
