SPECIFICATION FairSpec
CONSTANTS
  call1 = call1
  call2 = call2
  call3 = call3
  call4 = call4
  NoCall = NoCall
  Calls = {call1, call2, call3, call4}
  Workloads <- Loads
  WRITER_BUFFER = 1
  INBOUND_BUFFER = 1
  PIPE = 1
  MaxDrops = 1
  MaxHangs = 1
CHECK_DEADLOCK FALSE
INVARIANT TypeOK
INVARIANT SlotsReleased
INVARIANT ResultsAreReal
PROPERTY SentCallsEnd
PROPERTY EventsAreTaken
PROPERTY ShutdownCompletes
