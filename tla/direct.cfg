\* Two parties whose requests race, are retried with other contents, read and clear.
SPECIFICATION Spec
CONSTANTS
  alice = alice
  bob = bob
  carol = carol
  hello = hello
  hey = hey
  Users = {alice, bob}
  Requests = {r1, r2}
  ClientIds = {c1}
  Bodies = {hello, hey}
  Mention <- NoMention
  MentionAll = {}
  ConvType = "DIRECT"
  Creator = alice
  Founders = {alice, bob}
  Profiles <- DirectProfiles
  RoleInputs = {"KEEP"}
  MuteInputs = {"KEEP"}
  SystemId = SystemId
  SystemBody = SystemBody
  NoOne = NoOne
  MaxSeq = 2
SYMMETRY DirectSymmetry
INVARIANTS
  CursorsInOrder
  MessagesHappenOnce
  AnswersAreTrue
PROPERTIES
  ImplementsLog
CHECK_DEADLOCK FALSE
