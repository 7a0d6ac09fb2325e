SPECIFICATION Spec
CONSTANTS
  Forms <- MCForms
  Answers <- MCAnswers
  Ballots <- MCBallots
INVARIANTS
  TypeOK
  EnoughToChoose
PROPERTIES
  MostCompromise
  FairSettlement
CHECK_DEADLOCK FALSE
