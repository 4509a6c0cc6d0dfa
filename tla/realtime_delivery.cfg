\* Realtime deliveries, any two failures.
SPECIFICATION Spec
CONSTANTS
  Procs = {p1, p2}
  Queues = {"realtime"}
  Events = {1}
  Poison = {}
  Broken = {}
  Slots = {1}
  Tries = 1
  DeliveryLimit = 1
  Nobody = Nobody
  MaxFaults = 2
  MaxCopies = 2
  MaxAttempts = 2
  BatchSize = 1
SYMMETRY Workers
INVARIANTS
  TypeOK
  ProcessedMeansDone
  OneAtATime
PROPERTIES
  PublishedIsFinal
  ImplementsPromise
CHECK_DEADLOCK FALSE
