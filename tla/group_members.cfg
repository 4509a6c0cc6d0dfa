\* Roles and membership of a group of up to three.
SPECIFICATION GroupSpec
CONSTANTS
  alice = alice
  bob = bob
  carol = carol
  hello = hello
  hey = hey
  Users = {alice, bob, carol}
  Requests = {}
  ClientIds = {c1}
  Bodies = {hello}
  Mention <- NoMention
  MentionAll = {}
  ConvType = "GROUP"
  Creator = alice
  Founders = {alice}
  Profiles <- GroupProfiles
  RoleInputs = {"KEEP", "ADMIN", "MEMBER"}
  MuteInputs = {"KEEP", "MUTE", "UNMUTE"}
  SystemId = SystemId
  SystemBody = SystemBody
  NoOne = NoOne
  MaxSeq = 5
SYMMETRY GroupSymmetry
INVARIANTS
  MembersAreSound
  CountCoversMembers
PROPERTIES
  JoinsRespectLimit
CHECK_DEADLOCK FALSE
