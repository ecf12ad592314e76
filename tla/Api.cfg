SPECIFICATION Spec
SYMMETRY Symmetry
CONSTANTS
  Requests = {r1, r2, r3}
  NoAnswers = NoAnswers
  MaxRounds = 2
  MaxTotalQuestions = 3
  MaxQuestionsPerRound = 2
  InFlight = {1, 3}
  DiskFaults = TRUE
INVARIANTS
  TypeOK
  ReportedIsStored
  AnswersFollowInput
  CompletedStreamIsClosed
  RoundsWithinBudget
PROPERTIES
  NoInputAfterClose
  LogOnlyGrows
  AnswersWrittenOnceInTurn
CHECK_DEADLOCK FALSE
