SPECIFICATION FairSpec
CONSTANTS
  m1 = m1
  m2 = m2
  m3 = m3
  m4 = m4
  c1 = c1
  u1 = u1
  Msgs = {m1, m2, m3, m4}
  Keys = {u1}
  Chats = {c1}
  KeyOf <- OneUser
  ChatOf <- OneChat
  KindOf <- FourKinds
  CAP = 1
  MaxWorkers = 3
  MaxDeliveries = 3
  MaxLapses = 1
  MaxDeaths = 1
CHECK_DEADLOCK FALSE
INVARIANT TypeOK
INVARIANT RunsOnce
INVARIANT SerialPerChat
INVARIANT KeyFifo
INVARIANT Accounted
PROPERTY EveryMessageSettles
