------------------------------- MODULE Sessions -------------------------------
(***************************************************************************)
(* The devices and sessions of one account: AuthCommandService (login,     *)
(* logout, password), DeviceService, UserService.deleteCurrent, and the    *)
(* socket handshake of PlatformGateway. RefreshTokens has the tokens.      *)
(*                                                                         *)
(* A transaction is one step where its locks make it one. A login takes    *)
(* its advisory lock and reads the device in one step and writes in        *)
(* another; the commands that revoke several sessions list them first. The *)
(* sockets of a revoked session are told after the commit, from memory.    *)
(***************************************************************************)
EXTENDS Integers, Sequences, FiniteSets

CONSTANTS
  Devices, MaxDevices,   \* client device ids of the account; the limit
  Logins,                \* requests that can be in flight at once
  Unset,
  MaxSessions, MaxResets \* bounds of the model

ASSUME SessionsAssumption ==
  /\ IsFiniteSet(Devices) /\ {MaxDevices, MaxSessions, MaxResets} \subseteq Nat
  /\ Unset \notin Nat \cup Devices

VARIABLES
  user,     \* users.status
  device,   \* devices.status, by client device id
  session,  \* auth_sessions, in the order of creation
  login,    \* requests under way
  socket,   \* by session: a socket that joins or has joined its rooms; missed (history):
            \* it was passed over when it should have been told, and is not followed further
  pending,  \* sessions whose sockets are still to be told
  resets    \* password resets committed

sessionsVars == <<user, device, session, login, socket, pending, resets>>

Statuses == {"NONE", "ACTIVE", "REVOKED"}

\* born counts the resets listed before the session was inserted; crossed: the
\* device or the account was removed since this login checked the password.
SessionRow ==
  [status : Statuses, device : Devices, crossed : BOOLEAN, born : Nat]

Request ==
  [pc : {"idle", "verified", "issuing", "listed"}, device : Devices \cup {Unset},
   saw : Statuses, crossed : BOOLEAN, list : SUBSET Nat, reset : BOOLEAN]

SessionsTypeOK ==
  /\ user \in {"ACTIVE", "DELETED"} /\ device \in [Devices -> Statuses]
  /\ session \in Seq(SessionRow) /\ login \in [Logins -> Request]
  /\ socket \in Seq({"none", "joining", "joined", "missed"}) /\ Len(socket) = Len(session)
  /\ pending \subseteq DOMAIN session
  /\ resets \in Nat

Idle == [pc |-> "idle", device |-> Unset, saw |-> "NONE",
         crossed |-> FALSE, list |-> {}, reset |-> FALSE]

SessionsInit ==
  /\ user = "ACTIVE" /\ device = [d \in Devices |-> "NONE"]
  /\ session = <<>> /\ socket = <<>> /\ login = [c \in Logins |-> Idle]
  /\ pending = {} /\ resets = 0

Live == {s \in DOMAIN session : session[s].status = "ACTIVE"}
LiveOn(d) == {s \in Live : session[s].device = d}
LiveDevices == {d \in Devices : device[d] = "ACTIVE"}

\* AuthSessionService.validate.
Usable(s) == s \in Live /\ device[session[s].device] = "ACTIVE" /\ user = "ACTIVE"

\* AuthSessionService.revokeSession, for the sessions of a set.
Revoked(S) ==
  [s \in DOMAIN session |->
    IF s \in S THEN [session[s] EXCEPT !.status = "REVOKED"] ELSE session[s]]

\* The sockets of a session are passed over.
PassOver(s) == socket' = [socket EXCEPT ![s] = IF @ = "none" THEN "none" ELSE "missed"]

RevokeAndTell(S) == session' = Revoked(S) /\ pending' = pending \cup S

Crossing(D) ==
  [c \in Logins |->
    IF login[c].pc \in {"verified", "issuing"} /\ login[c].device \in D
      THEN [login[c] EXCEPT !.crossed = TRUE] ELSE login[c]]

-----------------------------------------------------------------------------
(* Login: the password is verified, then the session is issued. *)

LoginVerify(c, d) ==
  /\ login[c].pc = "idle" /\ user = "ACTIVE"
  /\ login' = [login EXCEPT ![c] = [Idle EXCEPT !.pc = "verified", !.device = d]]
  /\ UNCHANGED <<user, device, session, socket, pending, resets>>

\* Mutant: no advisory lock.
NoLock(c) == TRUE

\* pg_advisory_xact_lock: one login of the account issues at a time.
HoldsLock(c) == \A other \in Logins \ {c} : login[other].pc # "issuing"

\* The device row, and for a new device the limit.
IssueRead(c) ==
  LET d == login[c].device
      full == device[d] = "NONE" /\ Cardinality(LiveDevices) >= MaxDevices
  IN /\ login[c].pc = "verified" /\ HoldsLock(c)
     /\ login' = [login EXCEPT ![c] =
          IF full THEN Idle ELSE [@ EXCEPT !.pc = "issuing", !.saw = device[d]]]
     /\ UNCHANGED <<user, device, session, socket, pending, resets>>

ResetsListed == resets + Cardinality({c \in Logins : login[c].pc = "listed" /\ login[c].reset})

\* Mutant: other sessions of the device stay.
ReplacedNone(d) == {}

\* The sessions that a new login on the device replaces.
Replaced(d) == LiveOn(d)

\* save writes the columns that differ from the row it has just read: a device
\* seen ACTIVE and removed since keeps its REVOKED.
IssueCommit(c) ==
  LET d == login[c].device
      new == [status |-> "ACTIVE", device |-> d,
              crossed |-> login[c].crossed, born |-> ResetsListed]
  IN /\ login[c].pc = "issuing"
     /\ Len(session) < MaxSessions
     /\ device' = [device EXCEPT ![d] = IF login[c].saw = "ACTIVE" THEN @ ELSE "ACTIVE"]
     /\ session' = Append(Revoked(Replaced(d)), new)
     /\ socket' = Append(socket, "none")
     /\ pending' = pending \cup Replaced(d)
     /\ login' = [login EXCEPT ![c] = Idle]
     /\ UNCHANGED <<user, resets>>

\* A transaction that fails (a deadlock, a lost connection), or its process stops.
Abort(c) ==
  /\ login[c].pc # "idle"
  /\ login' = [login EXCEPT ![c] = Idle]
  /\ UNCHANGED <<user, device, session, socket, pending, resets>>

-----------------------------------------------------------------------------
(* Commands that revoke the account's sessions. *)

\* The session that asked is kept by changePassword only.
KeepOf(reset) == {Unset} \cup (IF reset THEN {} ELSE Live)

\* revokeUserSessionsInManager lists the ACTIVE sessions. A reset has updated the
\* credential before, so a second one waits; logoutAll and changePassword are the rest.
RevokeList(c, reset) ==
  /\ login[c].pc = "idle" /\ user = "ACTIVE"
  /\ reset => resets < MaxResets /\ \A other \in Logins : ~login[other].reset
  /\ \E keep \in KeepOf(reset) :
       login' = [login EXCEPT ![c] =
         [Idle EXCEPT !.pc = "listed", !.list = Live \ {keep}, !.reset = reset]]
  /\ UNCHANGED <<user, device, session, socket, pending, resets>>

RevokeCommit(c) ==
  /\ login[c].pc = "listed"
  /\ RevokeAndTell(login[c].list)
  /\ resets' = resets + IF login[c].reset THEN 1 ELSE 0
  /\ login' = [login EXCEPT ![c] = Idle]
  /\ UNCHANGED <<user, device, socket>>

Logout(s) ==
  /\ RevokeAndTell({s})
  /\ UNCHANGED <<user, device, login, socket, resets>>

RemoveSession(s) ==
  /\ RevokeAndTell({s})
  /\ UNCHANGED <<user, device, login, socket, resets>>

\* refresh with a token that was used before.
RefreshReused(s) ==
  /\ RevokeAndTell({s})
  /\ UNCHANGED <<user, device, login, socket, resets>>

\* refresh of a live session whose device or user is not ACTIVE: nobody is told.
RefreshUnavailable(s) ==
  /\ s \in Live /\ ~Usable(s)
  /\ session' = Revoked({s}) /\ PassOver(s)
  /\ UNCHANGED <<user, device, login, pending, resets>>

\* Mutant: the device's sessions stay.
RemoveDeviceOnly(d) ==
  /\ device[d] # "NONE"
  /\ device' = [device EXCEPT ![d] = "REVOKED"]
  /\ login' = Crossing({d})
  /\ UNCHANGED <<user, session, socket, pending, resets>>

\* One step, although the device is read before it is written. What that leaves out: a
\* device that was read as REVOKED, and that a login makes ACTIVE before the write, stays
\* ACTIVE (save writes what differs) while its sessions end here all the same.
RemoveDevice(d) ==
  /\ device[d] # "NONE"
  /\ device' = [device EXCEPT ![d] = "REVOKED"]
  /\ RevokeAndTell(LiveOn(d))
  /\ login' = Crossing({d})
  /\ UNCHANGED <<user, socket, resets>>

\* The user row is locked, so that no session is inserted meanwhile.
DeleteAccount ==
  /\ user = "ACTIVE" /\ user' = "DELETED"
  /\ RevokeAndTell(Live)
  /\ device' = [d \in Devices |-> IF device[d] = "ACTIVE" THEN "REVOKED" ELSE device[d]]
  /\ login' = Crossing(Devices)
  /\ UNCHANGED <<socket, resets>>

-----------------------------------------------------------------------------
(* Sockets, and telling them. *)

\* handleConnection up to validate; the rooms are joined later.
Handshake(s) ==
  /\ socket[s] = "none" /\ Usable(s)
  /\ socket' = [socket EXCEPT ![s] = "joining"]
  /\ UNCHANGED <<user, device, session, login, pending, resets>>

Join(s) ==
  /\ socket[s] = "joining" /\ socket' = [socket EXCEPT ![s] = "joined"]
  /\ UNCHANGED <<user, device, session, login, pending, resets>>

\* disconnectSockets of the session's room.
Tell(s) ==
  /\ pending' = pending \ {s}
  /\ socket' = [socket EXCEPT ![s] =
       CASE @ = "joined" -> "none" [] @ = "joining" -> "missed" [] OTHER -> @]
  /\ UNCHANGED <<user, device, session, login, resets>>

\* The process stops, or Redis does, before the sockets are told.
TellNobody(s) ==
  /\ pending' = pending \ {s} /\ PassOver(s)
  /\ UNCHANGED <<user, device, session, login, resets>>

SessionsNext ==
  \/ \E c \in Logins : \/ \E d \in Devices : LoginVerify(c, d)
                       \/ \E reset \in BOOLEAN : RevokeList(c, reset)
                       \/ IssueRead(c) \/ IssueCommit(c) \/ RevokeCommit(c) \/ Abort(c)
  \/ \E d \in Devices : RemoveDevice(d)
  \/ \E s \in DOMAIN session : \/ Logout(s) \/ RemoveSession(s) \/ RefreshReused(s)
                               \/ RefreshUnavailable(s) \/ Handshake(s) \/ Join(s)
  \/ \E s \in pending : Tell(s) \/ TellNobody(s)
  \/ DeleteAccount

SessionsSpec == SessionsInit /\ [][SessionsNext]_sessionsVars

-----------------------------------------------------------------------------
(* Properties *)

\* A device has at most one live session: each login replaces what the others left.
OneSessionPerDevice == \A d \in Devices : Cardinality(LiveOn(d)) <= 1

\* A device that is new to the account never takes it over the limit, however
\* many logins run at once. (A known device may: it is not counted.)
NewDevicesRespectLimit ==
  [][\A d \in Devices : device[d] = "NONE" /\ device'[d] = "ACTIVE" =>
       Cardinality({e \in Devices : device'[e] = "ACTIVE"}) <= MaxDevices]_sessionsVars

\* Removing a device or the account leaves no live session behind but of a login
\* that was under way: its session is live, can no longer be used, and stays.
RemovalEndsSessions == \A s \in Live : Usable(s) \/ session[s].crossed

\* A committed reset has ended every session inserted before it listed them; only
\* a login that got past the password check before can have one since.
ResetEndsEarlierSessions == \A s \in Live : session[s].born >= resets

\* A socket in the rooms of a session that can no longer be used is about to be
\* told. (Those that join late, or whose process stops first, are missed.)
SocketsAreTold ==
  \A s \in DOMAIN session :
    socket[s] = "joined" /\ ~Usable(s) => s \in pending

\* A revocation holds, of devices, accounts and passwords: logins that cross it and
\* sockets that join late are the only ones that it misses, and each is known.
RevocationsHold == RemovalEndsSessions /\ ResetEndsEarlierSessions /\ SocketsAreTold
=============================================================================
