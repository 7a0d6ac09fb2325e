SPECIFICATION Spec
CONSTANTS
  Forms <- CloseForms
  Answers <- NoAnswers
  Ballots <- PlainBallots
INVARIANT
  SecondRoundCloser
CHECK_DEADLOCK FALSE
