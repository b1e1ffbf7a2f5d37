SPECIFICATION Spec
CONSTANTS
  MaxLines = 4
INVARIANTS
  TypeOK
  EndedMeansEnded
  CodeOfLastLine
  RestartTypesAtPrompt
CHECK_DEADLOCK FALSE
