SPECIFICATION Spec
CONSTANTS
  c1 = c1
  c2 = c2
  Chats <- OneChat
  InputKinds <- Updates
  MAX_ATTEMPTS = 3
  BATCH = 2
  MaxRow = 2
  MaxMessages = 1
  MaxCopies = 1
  MaxFaults = 1
  MaxMishaps = 1
  MaxForced = 1
INVARIANT TypeOK
INVARIANT DeliveredWasShown
INVARIANT FailedWasJustified
INVARIANT UpdateIsReplacedUnlessFault
PROPERTY ImplementsDelivery
