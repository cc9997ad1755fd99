SPECIFICATION Spec
CONSTANTS
  sheet = sheet
  copy = copy
  picture = picture
  recording = recording
  NoFile = NoFile
  NoPlan = NoPlan
  NoFailure = NoFailure
  Tools <- MCTools
  Files <- MCFiles
  Kind <- MCKind
  NameOf <- MCNameOf
  Configured = {}
  Placeholders = {recording}
  Questions <- MCQuestions
  Replies <- MCReplies
  Alike <- MCAlike
  MaxPlanSteps = 3
  MaxReplans = 2
INVARIANT LocalTasksGetAPlan
CHECK_DEADLOCK FALSE
