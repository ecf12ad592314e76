SPECIFICATION Spec
CONSTANTS
  m1 = m1
  m2 = m2
  m3 = m3
  Models = {m1, m2, m3}
  Unknown = Unknown
  Configs <- MCShipped
  Histories <- MCHistories
  MaxProposed = 4
  Shuffles <- MCShuffles
  ReviewReplies <- MCReviewReplies
  ArbiterReplies <- MCArbiterReplies
  Totals <- MCTotals
  Answers = {1, 2, 3}
  NoAnswer = NoAnswer
  Criteria = {clarity, completeness}
  Top = 1
  Threshold = 5
  Unscored = Unscored
INVARIANT Stage0ServesEveryType
CHECK_DEADLOCK FALSE
