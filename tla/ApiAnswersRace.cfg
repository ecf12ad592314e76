SPECIFICATION Spec
SYMMETRY Symmetry
CONSTANTS
  Requests = {r1, r2, r3}
  NoAnswers = NoAnswers
  MaxRounds = 2
  MaxTotalQuestions = 3
  MaxQuestionsPerRound = 2
  InFlight = {3}
  DiskFaults = FALSE
PROPERTY AnswersWrittenOnce
CHECK_DEADLOCK FALSE
