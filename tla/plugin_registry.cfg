SPECIFICATION FairSpec
CONSTANTS
  alice = alice
  bob = bob
  Operators = {alice, bob}
  MaxDeaths = 2
  MaxPanics = 1
  MaxFailures = 1
CHECK_DEADLOCK FALSE
INVARIANT TypeOK
INVARIANT OneProcessUntilStopped
PROPERTY CrashIsRepaired
