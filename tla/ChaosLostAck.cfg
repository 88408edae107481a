SPECIFICATION LiveSpec
CONSTANTS
  r1 = r1
  r2 = r2
  n1 = n1
  alice = alice
  bob = bob
  None = None
  Runs = {r1}
  Workers = {w1}
  Principals = {alice, bob}
  Names = {n1}
  ResourceOf <- OneName
  MaxAttempts = 2
  ApprovalTTL = 1
  InjectionWindow = 1
  Duration = 1
  CleanupGrace = 1
  RecoveryWindow = 1
  Modes = {TRUE}
  LostAcks = TRUE
  FreeTicks = 1
  MaxVersion = 0
PROPERTIES
  ObjectsDeleted
