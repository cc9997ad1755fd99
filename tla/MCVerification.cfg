CONSTANTS
  n1 = n1
  n2 = n2
  t1 = t1
  Nothing = Nothing
  Numbers <- MCNumbers
  Texts <- MCTexts
  Tasks = {"IMAGE", "LOCAL_FILE"}
  Results <- MCResults
  Candidates <- MCCandidates
  MaxSteps = 2
  MaxResults = 3
  MaxStepAttempts = 2
  MaxReplans = 1
  MaxVerificationAttempts = 2
SPECIFICATION Spec
CHECK_DEADLOCK FALSE
INVARIANTS
  TypeOK
  AnswersRestOnTools
  EvidenceIsCurrent
  ConflictNeedsResolution
  CoincidenceNeedsJudge
