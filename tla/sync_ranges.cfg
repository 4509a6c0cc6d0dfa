\* One user, two conversations, three messages; every order of projection.
SPECIFICATION Spec
CONSTANTS
  Chats = {g, h}
  EventLimit = 2
  RangeLimit = 1
  MaxPosted = 3
INVARIANTS
  RangesTypeOK
  AnswersLeaveNoGap
PROPERTY
  RowsReachMembers
CHECK_DEADLOCK FALSE
