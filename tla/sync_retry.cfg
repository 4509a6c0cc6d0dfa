\* Sync deliveries of which one is interrupted by a crash, and the broker's own limit.
SPECIFICATION FairSpec
CONSTANTS
  Procs = {p1}
  Queues = {"sync"}
  Events = {1}
  Poison = {}
  Broken = {}
  Slots = {1}
  Tries = 1
  DeliveryLimit = 20
  Nobody = Nobody
  MaxFaults = 1
  MaxCopies = 1
  MaxAttempts = 1
  BatchSize = 1
PROPERTIES
  DeliveriesSettle
CHECK_DEADLOCK FALSE
