\* The services around a conversation, one at a time.
SPECIFICATION Spec
CONSTANTS
  Txs = {x1, x2, x3}
  Persons = {n1, n2}
  AnyOne = AnyOne
  Members = {m1, m2}
  Sender = m1
  m1 = m1
  Tasks = {t1, t2}
  NoMember = NoMember
  Pair = {a, b}
  Handlers = {h1, h2}
  MaxRequests = 1
  Devices = {d1, d2}
  MaxDevices = 1
  Logins = {c1, c2}
  Unset = Unset
  MaxSessions = 2
  MaxResets = 1
  NoToken = NoToken
  MaxOpened = 2
  MaxTokens = 4
  Claimants = {q1, q2}
  NoCode = NoCode
  MaxAttempts = 2
  MaxSends = 1
  MaxCodes = 2
  Guessers = {g1, g2, g3}
  LoginLimit = 2
  MaxLosses = 2
  Syncs = {y1}
  PageLimit = 2
  MaxId = 3
  Calls = {k1, k2}
  Workers = {w1, w2}
  JobAttempts = 2
  MaxStalls = 1
  MaxRow = 3
  PageSize = 1
  Precision = 2
  MaxTime = 2
  MaxMoved = 1
SYMMETRY Alike
INVARIANTS
  ServicesTypeOK
  DeadlocksShareTheRow
  ActionsAreTold
  RelationsEnd
  OneSessionPerDevice
  RevocationsHold
  OneLiveToken
  RefreshesAreSafe
  CodesWorkOnce
  LoginsAreLimited
  NothingSkipped
  UploadsAreWhole
  OutcomesAreTold
  ListsAreWhole
PROPERTIES
  DecisionsAreFinal
  OpenedOnceUnblocked
  NewDevicesRespectLimit
CHECK_DEADLOCK FALSE
