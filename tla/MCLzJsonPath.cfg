CONSTANTS
  Nodes <- TheNodes
  NULL = "NULL"
  Members <- TheMembers
  Items <- TheItems
  Chars <- PathChars
  Paths <- ThePaths
  StepSeqs <- TheSteps
  Width = 4
SPECIFICATION Spec
CHECK_DEADLOCK FALSE
INVARIANT BufFits
INVARIANT FollowsPath
INVARIANT OnlySteps
