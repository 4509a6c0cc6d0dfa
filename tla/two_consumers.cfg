\* Both consumers, the work of one of which always fails, with one failure more of one
\* event's delivery, or two events of which one is malformed.
SPECIFICATION Spec
CONSTANTS
  Procs = {p1}
  Queues = {"realtime", "sync"}
  Events = {1, 2}
  Poison = {2}
  Broken = {"realtime"}
  Slots = {1}
  Tries = 1
  DeliveryLimit = 1
  Nobody = Nobody
  MaxFaults = 1
  MaxCopies = 1
  MaxAttempts = 1
  BatchSize = 2
CONSTRAINTS
  SecondRowOrFault
  FewCopies
INVARIANT
  PublishedIsNotLost
CHECK_DEADLOCK FALSE
