----------------------------- MODULE MessageActions -----------------------------
(***************************************************************************)
(* What members do with one text message of a group: recall, reactions and *)
(* hiding of AdvancedMessageCommandService, called over HTTP or by         *)
(* RealtimeCommandHandler, and the reads of MessageQueryService that show  *)
(* its text.                                                               *)
(*                                                                         *)
(* A recall locks the message row; reactions are kept apart by the unique  *)
(* key. Members come, go and change roles meanwhile. The reaction is one   *)
(* that every member may give.                                             *)
(***************************************************************************)
EXTENDS Integers, FiniteSets

CONSTANTS
  Members, Sender,  \* users of the group, and who wrote the message
  Tasks,            \* requests that can be in flight at once
  NoMember

ASSUME MessageActionsAssumption == Sender \in Members /\ NoMember \notin Members

VARIABLES
  role,       \* of the ACTIVE members; "OUT" of the others
  fresh,      \* the recall window is open
  recalled,   \* recalled_at is set
  reacted,    \* message_reactions rows, by user
  hidden,     \* message_user_hides rows, by user
  task,       \* requests under way
  recalls,    \* message.recalled events
  informed,   \* their audience
  announced,  \* the reactions there are by message.reaction.updated
  repeated,   \* history: one of these said what the one before had said
  shown,      \* history: users whose client was shown the text
  moved       \* history: users who left, or joined during a recall or their own read

actionsVars == <<role, fresh, recalled, reacted, hidden, task, recalls, informed,
                 announced, repeated, shown, moved>>

TaskSteps ==
  {"none", "locked", "audience", "inserted", "ignored", "deleted", "read", "listed"}

ActionsTypeOK ==
  /\ role \in [Members -> {"OUT", "MEMBER", "ADMIN"}]
  /\ fresh \in BOOLEAN /\ recalled \in BOOLEAN /\ repeated \in BOOLEAN /\ recalls \in Nat
  /\ reacted \subseteq Members /\ hidden \subseteq Members /\ announced \subseteq Members
  /\ informed \subseteq Members /\ shown \subseteq Members /\ moved \subseteq Members
  /\ task \in [Tasks -> [pc : TaskSteps, user : Members \cup {NoMember},
                         audience : SUBSET Members, text : BOOLEAN]]

NoTask == [pc |-> "none", user |-> NoMember, audience |-> {}, text |-> FALSE]

ActionsInit ==
  /\ role = [u \in Members |-> IF u = Sender THEN "MEMBER" ELSE "OUT"]
  /\ fresh = TRUE /\ recalled = FALSE /\ recalls = 0 /\ informed = {}
  /\ reacted = {} /\ hidden = {} /\ announced = {} /\ repeated = FALSE
  /\ shown = {Sender} /\ moved = {} /\ task = [t \in Tasks |-> NoTask]

Joined == {u \in Members : role[u] # "OUT"}

Takes(t, u, pc) ==
  task[t] = NoTask /\ task' = [task EXCEPT ![t] = [NoTask EXCEPT !.pc = pc, !.user = u]]

Ends(t) == task' = [task EXCEPT ![t] = NoTask]

facts == <<role, fresh, recalled, reacted, hidden>>
events == <<recalls, informed, announced, repeated>>

-----------------------------------------------------------------------------
(* The group *)

ReadingNow(u) ==
  \E t \in Tasks : task[t].pc = "audience" \/ (task[t].pc = "read" /\ task[t].user = u)

\* Any group command that gives a user another role.
ChangeRole(u, r) ==
  /\ role[u] # r /\ role' = [role EXCEPT ![u] = r]
  /\ moved' = IF r = "OUT" \/ (role[u] = "OUT" /\ ReadingNow(u))
                  THEN moved \cup {u} ELSE moved
  /\ UNCHANGED <<fresh, recalled, reacted, hidden, task, events, shown>>

WindowCloses ==
  /\ fresh /\ fresh' = FALSE
  /\ UNCHANGED <<role, recalled, reacted, hidden, task, events, shown, moved>>

\* A failed statement, a deadlock, or a process that stops.
TaskFails(t) ==
  /\ task[t] # NoTask /\ Ends(t)
  /\ UNCHANGED <<facts, events, shown, moved>>

-----------------------------------------------------------------------------
(* recall *)

MayRecall(u) ==
  \/ u = Sender /\ fresh
  \/ u # Sender /\ role[u] = "ADMIN"

\* Mutant: the message is read without FOR UPDATE.
MessageUnlocked == TRUE

MessageFree == \A t \in Tasks : task[t].pc \notin {"locked", "audience"}

\* The row is locked; member, role and window are looked at once.
RecallLock(t, u) ==
  /\ MessageFree /\ u \in Joined /\ ~recalled /\ MayRecall(u)
  /\ Takes(t, u, "locked")
  /\ UNCHANGED <<facts, events, shown, moved>>

Audience == Joined

RecallAudience(t) ==
  /\ task[t].pc = "locked"
  /\ task' = [task EXCEPT ![t].pc = "audience", ![t].audience = Audience]
  /\ UNCHANGED <<facts, events, shown, moved>>

RecallCommit(t) ==
  /\ task[t].pc = "audience" /\ Ends(t)
  /\ recalled' = TRUE /\ recalls' = recalls + 1 /\ informed' = informed \cup task[t].audience
  /\ UNCHANGED <<role, fresh, reacted, hidden, announced, repeated, shown, moved>>

-----------------------------------------------------------------------------
(* Reactions *)

\* Mutant: the insert does not wait for a transaction that has the same key.
KeyUnlocked(u) == TRUE

\* A row that is inserted or deleted and not committed is waited for.
KeyFree(u) == \A t \in Tasks : ~(task[t].pc \in {"inserted", "deleted"} /\ task[t].user = u)

\* addReaction inserts, or finds the key in use.
AddInsert(t, u) ==
  /\ u \in Joined /\ KeyFree(u)
  /\ Takes(t, u, IF u \in reacted THEN "ignored" ELSE "inserted")
  /\ UNCHANGED <<facts, events, shown, moved>>

Announce(u, there) ==
  /\ announced' = IF there THEN announced \cup {u} ELSE announced \ {u}
  /\ repeated' = (repeated \/ (u \in announced) = there)
  /\ UNCHANGED <<recalls, informed>>

AddCommit(t) ==
  LET u == task[t].user
  IN /\ task[t].pc = "inserted" /\ Ends(t)
     /\ reacted' = reacted \cup {u} /\ Announce(u, TRUE)
     /\ UNCHANGED <<role, fresh, recalled, hidden, shown, moved>>

\* The row that was there is read and returned; if it is gone by now, an error is. An
\* insert that was ignored returns no identifier, which is what the code relies on, so
\* there is no event.
AddIgnored(t) ==
  /\ task[t].pc = "ignored" /\ Ends(t)
  /\ UNCHANGED <<facts, events, shown, moved>>

\* removeReaction; nothing deleted is an error.
RemoveDelete(t, u) ==
  /\ u \in Joined /\ KeyFree(u) /\ u \in reacted
  /\ Takes(t, u, "deleted")
  /\ UNCHANGED <<facts, events, shown, moved>>

RemoveCommit(t) ==
  LET u == task[t].user
  IN /\ task[t].pc = "deleted" /\ Ends(t)
     /\ reacted' = reacted \ {u} /\ Announce(u, FALSE)
     /\ UNCHANGED <<role, fresh, recalled, hidden, shown, moved>>

-----------------------------------------------------------------------------
(* Hiding and reading *)

\* hideMessage is idempotent; only the user's own devices are told. (The next-state
\* relation leaves out the sender, who was shown the text from the start.)
Hide(u) ==
  /\ u \in Joined \ hidden /\ hidden' = hidden \cup {u}
  /\ UNCHANGED <<role, fresh, recalled, reacted, task, events, shown, moved>>

\* get reads the message, and then whether the user may see it.
GetMessage(t, u) ==
  /\ task[t] = NoTask /\ u \notin shown
  /\ task' = [task EXCEPT ![t] = [NoTask EXCEPT !.pc = "read", !.user = u, !.text = ~recalled]]
  /\ UNCHANGED <<facts, events, shown, moved>>

Shows(t, text) ==
  /\ shown' = IF text /\ task[t].user \notin hidden THEN shown \cup {task[t].user} ELSE shown
  /\ Ends(t)
  /\ UNCHANGED <<facts, events, moved>>

GetAnswer(t) == task[t].pc = "read" /\ task[t].user \in Joined /\ Shows(t, task[t].text)

\* history asks for the membership first.
HistoryCheck(t, u) ==
  /\ u \in Joined \ shown /\ Takes(t, u, "listed")
  /\ UNCHANGED <<facts, events, shown, moved>>

HistoryAnswer(t) == task[t].pc = "listed" /\ Shows(t, ~recalled)

ActionsNext ==
  \/ WindowCloses
  \/ \E u \in Members \ {Sender} : Hide(u)
  \/ \E u \in Members, r \in {"OUT", "MEMBER", "ADMIN"} : ChangeRole(u, r)
  \/ \E t \in Tasks :
       \/ \E u \in Members : \/ RecallLock(t, u) \/ AddInsert(t, u) \/ RemoveDelete(t, u)
                             \/ GetMessage(t, u) \/ HistoryCheck(t, u)
       \/ RecallAudience(t) \/ RecallCommit(t)
       \/ AddCommit(t) \/ AddIgnored(t) \/ RemoveCommit(t)
       \/ GetAnswer(t) \/ HistoryAnswer(t) \/ TaskFails(t)

ActionsSpec == ActionsInit /\ [][ActionsNext]_actionsVars

-----------------------------------------------------------------------------
(* Properties *)

\* A message is recalled once, and whoever was shown its text is told, unless they
\* left, or joined after the audience was read or during their own read.
RecallReachesReaders ==
  /\ recalls <= 1
  /\ recalled => shown \subseteq informed \cup moved

\* The reactions a client adds up from the events are those in the table, and no
\* event repeats another, however requests of two devices overlap.
ReactionsAreTold == announced = reacted /\ ~repeated

\* A client that follows the events shows what the tables have: recalled texts are
\* withdrawn from those who read them, and reactions add up.
ActionsAreTold == RecallReachesReaders /\ ReactionsAreTold
=============================================================================
