SPECIFICATION RequestedSpec
CONSTANTS
  r1 = r1
  r2 = r2
  n1 = n1
  alice = alice
  bob = bob
  None = None
  Runs = {r1}
  Workers = {w1, w2}
  Principals = {alice, bob}
  Names = {n1}
  ResourceOf <- OneName
  MaxAttempts = 1
  ApprovalTTL = 0
  InjectionWindow = 0
  Duration = 1
  CleanupGrace = 0
  RecoveryWindow = 0
  Modes = {TRUE, FALSE}
  LostAcks = TRUE
  FreeTicks = 1
  MaxVersion = 0
INVARIANTS
  TypeOK
PROPERTIES
  ExecutionTerminates
