SPECIFICATION Spec
CONSTANTS
  Channels <- MCChannels
  Messages <- MCMessages
  Transactions <- MCTransactions
  MaxSent = 3
  MaxLink = 1
INVARIANTS
  TypeOK
  NothingRefused
  MeaningSurvives
  FarEndAgrees
PROPERTY
  Delivered
