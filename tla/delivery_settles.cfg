\* Realtime deliveries that fail every time.
SPECIFICATION FairSpec
CONSTANTS
  Procs = {p1, p2}
  Queues = {"realtime"}
  Events = {1}
  Poison = {}
  Broken = {"realtime"}
  Slots = {1}
  Tries = 1
  DeliveryLimit = 1
  Nobody = Nobody
  MaxFaults = 1
  MaxCopies = 2
  MaxAttempts = 2
  BatchSize = 1
PROPERTIES
  RowsSettle
  DeliveriesSettle
CHECK_DEADLOCK FALSE
