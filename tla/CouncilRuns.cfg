SPECIFICATION LiveSpec
CONSTANTS
  m1 = m1
  m2 = m2
  m3 = m3
  Models = {m1, m2, m3}
  Unknown = Unknown
  Configs <- MCConfigs
  Histories <- MCHistories
  MaxProposed = 4
  Shuffles <- MCShuffles
  ReviewReplies <- MCReviewReplies
  ArbiterReplies <- MCArbiterReplies
  Totals <- MCTotals
  Answers = {1, 2, 3}
  NoAnswer = NoAnswer
  Criteria = {clarity, completeness}
  Top = 1
  Threshold = 5
  Unscored = Unscored
INVARIANTS
  TypeOK
  RegistryIsWhole
  QuestionsFitTheLimits
  
  EventsInOrder
  LabelsMapBack
  ChairmanHearsAQuorum
  PromptsAreCurrent
  DropoutsTellTheTruth
  ConvergedAtFirstAgreement
  EveryAnswerIsReviewed
  ConsensusIsSound
  OnlyTheBestAdvance
PROPERTY RunEnds
CHECK_DEADLOCK FALSE
