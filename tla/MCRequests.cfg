SPECIFICATION Spec
CONSTANTS
  MaxCommand = 5
  Inputs <- MCInputs
  Templates <- MCTemplates
  MaxAnswers = 2
  NoAnswer = NoAnswer
INVARIANTS TypeOK ArgvChecked ListsTheCrate VerdictFollows
CHECK_DEADLOCK FALSE
