SPECIFICATION Spec
CONSTANTS
  MaxCommand = 3
  Inputs <- MCInputs
  Templates <- MCTemplates
  MaxAnswers = 2
  NoAnswer = NoAnswer
INVARIANT ProgramIsChecked
CHECK_DEADLOCK FALSE
