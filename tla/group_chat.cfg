\* Everything at once: two users, one handler.
SPECIFICATION Spec
CONSTANTS
  alice = alice
  bob = bob
  carol = carol
  hello = hello
  hey = hey
  Users = {alice, bob}
  Requests = {r1}
  ClientIds = {c1}
  Bodies = {hello}
  Mention <- NoMention
  MentionAll = {}
  ConvType = "GROUP"
  Creator = alice
  Founders = {alice}
  Profiles <- OpenProfiles
  RoleInputs = {"KEEP", "ADMIN"}
  MuteInputs = {"KEEP"}
  SystemId = SystemId
  SystemBody = SystemBody
  NoOne = NoOne
  MaxSeq = 3
INVARIANTS
  TypeOK
  UnreadCoversUnseen
  SeqsAreDense
PROPERTIES
  CursorsOnlyAdvance
  DeletedIsFinal
CHECK_DEADLOCK FALSE
