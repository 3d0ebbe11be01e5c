SPECIFICATION Spec
CONSTANTS
  Channels <- MCChannels
  Messages <- MixedMessages
  Transactions <- NoTransactions
  MaxSent = 3
  MaxLink = 1
INVARIANT
  MeaningSurvives
