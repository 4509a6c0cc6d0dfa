-------------------------------- MODULE RowLocks --------------------------------
(***************************************************************************)
(* The row locks of one group conversation: in which order the commands of *)
(* ConversationCommandService, MessageCommandService, GroupCommandService  *)
(* and clearHistory take them, and who can wait for whom. What they write  *)
(* is the matter of Conversation, Messaging and Group.                     *)
(*                                                                         *)
(* PostgreSQL keeps a row lock until the end of the transaction; a cycle   *)
(* of waiting transactions is broken by aborting one of them.              *)
(***************************************************************************)
EXTENDS Integers, Sequences, FiniteSets

CONSTANTS
  Txs,      \* transactions at one time
  Persons,  \* the group's users
  AnyOne    \* stands for the user where the locks are the same for all

ASSUME RowLocksAssumption == AnyOne \notin Persons

TheRow == <<"conversation">>

Locks == {TheRow} \cup ({"state", "member"} \X Persons)

Commands ==
  ({"send", "transfer", "profile", "disband"} \X {AnyOne})
    \cup ({"receipt", "clear", "join", "member"} \X Persons)

NoCommand == <<"none", AnyOne>>

VARIABLES
  tx,    \* what each transaction runs, and its next stage
  held   \* the locks it has: shared, exclusive or none

locksVars == <<tx, held>>

LocksTypeOK ==
  /\ tx \in [Txs -> [command : Commands \cup {NoCommand}, stage : 1..5]]
  /\ held \in [Txs -> [Locks -> {"none", "shared", "exclusive"}]]

NoLocks == [l \in Locks |-> "none"]

LocksInit ==
  /\ tx = [t \in Txs |-> [command |-> NoCommand, stage |-> 1]]
  /\ held = [t \in Txs |-> NoLocks]

-----------------------------------------------------------------------------
(* What is locked, stage by stage; the rows of a stage in any order. *)

Stage(mode, S) == [mode |-> mode, rows |-> S]
Shared == Stage("shared", {TheRow})
Exclusive == Stage("exclusive", {TheRow})
OwnState(u) == Stage("exclusive", {<<"state", u>>})
OwnMember(u) == Stage("exclusive", {<<"member", u>>})

\* Mutant: the conversation is locked FOR SHARE before its seq is allocated.
SendShared == <<Shared, Exclusive, Stage("exclusive", {"state"} \X Persons)>>

\* UPDATE conversations, then the state rows of all.
Send == <<Exclusive, Stage("exclusive", {"state"} \X Persons)>>

\* Mutant: the state row is locked first.
ReceiptStateFirst(u) == <<OwnState(u), Shared>>

\* lockMembership: read, delivered, updateSettings and hide.
Receipt(u) == <<Shared, OwnState(u)>>

Clear(u) == <<OwnState(u)>>

\* lockGroup, addMember, and the system message.
JoinGroup(u) == <<Shared, OwnMember(u), OwnState(u), Exclusive>>

\* remove, leave and updateMember.
MemberCommand(u) == <<Shared, OwnMember(u), Exclusive>>

Transfer == <<Shared, Stage("exclusive", {"member"} \X Persons), Exclusive>>

Profile == <<Shared, Exclusive>>

Disband == <<Shared, Exclusive, Stage("exclusive", {"member"} \X Persons)>>

Script(kind, u) ==
  CASE kind = "send" -> Send
    [] kind = "receipt" -> Receipt(u)
    [] kind = "clear" -> Clear(u)
    [] kind = "join" -> JoinGroup(u)
    [] kind = "member" -> MemberCommand(u)
    [] kind = "transfer" -> Transfer
    [] kind = "profile" -> Profile
    [] kind = "disband" -> Disband
    [] OTHER -> <<>>

-----------------------------------------------------------------------------
Kind(t) == tx[t].command[1]
Person(t) == tx[t].command[2]

MyScript(t) == Script(Kind(t), Person(t))

Running(t) == tx[t].stage <= Len(MyScript(t))

\* A shared lock conflicts with the exclusive ones of others, an exclusive one with all.
Blocks(other, l, mode) ==
  IF mode = "shared" THEN held[other][l] = "exclusive" ELSE held[other][l] # "none"

Wants(t) ==
  LET stage == MyScript(t)[tx[t].stage]
  IN {l \in stage.rows : held[t][l] \notin {stage.mode, "exclusive"}}

BeginTx(t, command) ==
  /\ tx[t].command = NoCommand
  /\ tx' = [tx EXCEPT ![t].command = command]
  /\ UNCHANGED held

Lock(t, l) ==
  LET mode == MyScript(t)[tx[t].stage].mode
  IN /\ \A other \in Txs \ {t} : ~Blocks(other, l, mode)
     /\ held' = [held EXCEPT ![t][l] = mode]
     /\ tx' = [tx EXCEPT ![t].stage = IF Wants(t) = {l} THEN @ + 1 ELSE @]

\* COMMIT, or a rollback at any point: a check that fails, a victim of a deadlock.
EndOfTransaction(t) ==
  /\ tx[t].command # NoCommand
  /\ tx' = [tx EXCEPT ![t] = [command |-> NoCommand, stage |-> 1]]
  /\ held' = [held EXCEPT ![t] = NoLocks]

LocksNext ==
  \E t \in Txs :
    \/ \E command \in Commands : BeginTx(t, command)
    \/ Running(t) /\ \E l \in Wants(t) : Lock(t, l)
    \/ EndOfTransaction(t)

LocksSpec == LocksInit /\ [][LocksNext]_locksVars

-----------------------------------------------------------------------------
(* Properties *)

\* A lock of its stage that t may be waiting for is kept by the other.
WaitsFor(t, other) ==
  Running(t) /\ t # other /\ \E l \in Wants(t) : Blocks(other, l, MyScript(t)[tx[t].stage].mode)

\* Transactions of which each waits for another and keeps another waiting: every cycle.
Entangled(T) ==
  \A t \in T : (\E other \in T : WaitsFor(t, other)) /\ (\E other \in T : WaitsFor(other, t))

\* A deadlock is of transactions that share the conversation's row and then want more:
\* never of messages or clears, so that no message fails over another's group command,
\* and of a receipt only with a command by which the same user joins again.
DeadlocksShareTheRow ==
  \A T \in SUBSET Txs : Entangled(T) =>
    \A t \in T :
      /\ held[t][TheRow] = "shared" /\ Kind(t) \notin {"send", "clear"}
      /\ Kind(t) = "receipt" =>
           \E other \in T : Kind(other) = "join" /\ Person(other) = Person(t)
=============================================================================
