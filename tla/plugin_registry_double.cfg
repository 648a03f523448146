SPECIFICATION Spec
CONSTANTS
  alice = alice
  bob = bob
  Operators = {alice, bob}
  MaxDeaths = 2
  MaxPanics = 0
  MaxFailures = 1
CHECK_DEADLOCK FALSE
INVARIANT OneProcess
