------------------------------ MODULE ActionProofs ------------------------------
(***************************************************************************)
(* Proofs about the commands on one group for any number of members and of *)
(* requests at once: a recall reaches whoever was shown the text           *)
(* (MessageActions), and who can wait for whom in a deadlock (RowLocks).   *)
(***************************************************************************)
EXTENDS MessageActions, RowLocks, TLAPS

-----------------------------------------------------------------------------
(* MessageActions                                                          *)

Recalling(t) == task[t].pc \in {"locked", "audience"}

Changing(t) == task[t].pc \in {"inserted", "deleted"}

\* One recall at a time, and no other after it.
RecallsAlone ==
  /\ recalls = IF recalled THEN 1 ELSE 0
  /\ \A t \in Tasks : Recalling(t) => ~recalled
  /\ \A t1, t2 \in Tasks : Recalling(t1) /\ Recalling(t2) => t1 = t2

\* Whoever was shown the text, or is about to be, is a member still or has moved; the
\* audience that was read has every member that has not moved since; and after the recall
\* nobody reads the text but those it told.
ReadersFound ==
  /\ shown \subseteq Joined \cup moved
  /\ \A t \in Tasks :
       /\ task[t].pc = "listed" => task[t].user \in Joined \cup moved
       /\ task[t].pc = "audience" => Joined \subseteq task[t].audience \cup moved
       /\ task[t].pc = "read" /\ task[t].text /\ recalled /\ task[t].user \in Joined
            => task[t].user \in informed \cup moved
  /\ recalled => shown \subseteq informed \cup moved

\* A row that is inserted or deleted is so by one request, and the table and the events
\* still have what was there before.
ChangesAlone ==
  /\ \A t \in Tasks : /\ task[t].pc = "inserted" => task[t].user \in Members \ reacted
                      /\ task[t].pc = "deleted" => task[t].user \in reacted
  /\ \A t1, t2 \in Tasks :
       Changing(t1) /\ Changing(t2) /\ task[t1].user = task[t2].user => t1 = t2
  /\ ReactionsAreTold

ActionsInv == ActionsTypeOK /\ RecallsAlone /\ ReadersFound /\ ChangesAlone

-----------------------------------------------------------------------------
TaskRow == [pc : TaskSteps, user : Members \cup {NoMember}, audience : SUBSET Members,
            text : BOOLEAN]

LEMMA NoTaskType == NoTask \in TaskRow /\ NoTask.pc = "none"
  BY DEF NoTask, TaskRow, TaskSteps

\* A step that gives one request another record.
LEMMA OneTask ==
  ASSUME ActionsTypeOK, NEW t \in Tasks, NEW q \in TaskRow, task' = [task EXCEPT ![t] = q]
  PROVE  /\ task' \in [Tasks -> TaskRow]
         /\ \A s \in Tasks : task'[s] = IF s = t THEN q ELSE task[s]
  BY DEF ActionsTypeOK, TaskRow

\* A request that holds no lock, wrote nothing and read nothing leaves the invariants alone.
Rests(q) == q.pc \in {"none", "ignored"}

LEMMA QuietTask ==
  ASSUME ActionsInv, NEW t \in Tasks, NEW q \in TaskRow, Rests(q),
         task' = [task EXCEPT ![t] = q], UNCHANGED <<facts, events, shown, moved>>
  PROVE  ActionsInv'
<1>1. \A s \in Tasks : task'[s] = IF s = t THEN q ELSE task[s]
  BY OneTask DEF ActionsInv
<1>2. ActionsTypeOK'
  BY OneTask DEF ActionsInv, ActionsTypeOK, TaskRow, facts, events
<1>3. RecallsAlone'
  BY <1>1 DEF ActionsInv, RecallsAlone, Recalling, Rests, facts, events
<1>4. ReadersFound'
  BY <1>1 DEF ActionsInv, ReadersFound, Rests, facts, events, Joined
<1>5. ChangesAlone'
  BY <1>1 DEF ActionsInv, ChangesAlone, Changing, Rests, facts, events, ReactionsAreTold
<1>6. QED
  BY <1>2, <1>3, <1>4, <1>5 DEF ActionsInv

\* Members and the clock.
LEMMA GroupKeeps ==
  ASSUME ActionsInv,
         \/ WindowCloses \/ \E u \in Members : Hide(u)
         \/ \E u \in Members, r \in {"OUT", "MEMBER", "ADMIN"} : ChangeRole(u, r)
  PROVE  ActionsInv'
<1>1. UNCHANGED <<recalled, reacted, task, recalls, informed, announced, repeated, shown>>
  BY DEF WindowCloses, Hide, ChangeRole, events
<1>2. RecallsAlone' /\ ChangesAlone'
  BY <1>1 DEF ActionsInv, RecallsAlone, Recalling, ChangesAlone, Changing, ReactionsAreTold
<1>3. CASE WindowCloses \/ \E u \in Members : Hide(u)
  <2>1. ActionsTypeOK' /\ role' = role /\ moved' = moved
    BY <1>3 DEF ActionsInv, ActionsTypeOK, WindowCloses, Hide, events
  <2>2. ReadersFound'
    BY <1>1, <2>1 DEF ActionsInv, ReadersFound, Joined
  <2>3. QED
    BY <1>2, <2>1, <2>2 DEF ActionsInv
<1>4. ASSUME NEW u \in Members, NEW r \in {"OUT", "MEMBER", "ADMIN"}, ChangeRole(u, r)
      PROVE  ActionsInv'
  <2>1. role' = [role EXCEPT ![u] = r] /\ role \in [Members -> {"OUT", "MEMBER", "ADMIN"}]
    BY <1>4 DEF ChangeRole, ActionsInv, ActionsTypeOK
  <2>2. moved \subseteq moved' /\ moved' \subseteq Members
    BY <1>4 DEF ChangeRole, ActionsInv, ActionsTypeOK
  <2>3. ActionsTypeOK'
    BY <1>1, <1>4, <2>1, <2>2 DEF ActionsInv, ActionsTypeOK, ChangeRole
  <2>4. Joined \subseteq Joined' \cup moved'
    BY <1>4, <2>1 DEF ChangeRole, Joined
  <2>5. \A v \in Joined' \ Joined : v = u /\ (ReadingNow(v) => v \in moved')
    BY <1>4, <2>1 DEF ChangeRole, Joined
  <2>6. shown' \subseteq Joined' \cup moved'
    BY <1>1, <2>2, <2>4 DEF ActionsInv, ReadersFound
  <2>7. ASSUME NEW t \in Tasks
        PROVE  /\ task'[t].pc = "listed" => task'[t].user \in Joined' \cup moved'
               /\ task'[t].pc = "audience" => Joined' \subseteq task'[t].audience \cup moved'
               /\ task'[t].pc = "read" /\ task'[t].text /\ recalled' /\ task'[t].user \in Joined'
                    => task'[t].user \in informed' \cup moved'
    <3>1. task'[t].pc = "listed" => task'[t].user \in Joined' \cup moved'
      BY <1>1, <2>2, <2>4 DEF ActionsInv, ReadersFound
    <3>2. task'[t].pc = "audience" => Joined' \subseteq task'[t].audience \cup moved'
      <4>1. task[t].pc = "audience" => \A v \in Members : ReadingNow(v)
        BY DEF ReadingNow
      <4>2. Joined' \subseteq Members
        BY DEF Joined
      <4>3. QED
        BY <1>1, <2>2, <2>5, <4>1, <4>2 DEF ActionsInv, ReadersFound
    <3>3. ASSUME task[t].pc = "read", task[t].text, recalled, task[t].user \in Joined'
          PROVE  task[t].user \in informed \cup moved'
      <4>1. ReadingNow(task[t].user)
        BY <3>3 DEF ReadingNow
      <4>2. CASE task[t].user \in Joined
        BY <2>2, <3>3, <4>2 DEF ActionsInv, ReadersFound
      <4>3. CASE task[t].user \notin Joined
        BY <2>5, <3>3, <4>1, <4>3
      <4>4. QED
        BY <4>2, <4>3
    <3>4. QED
      BY <1>1, <3>1, <3>2, <3>3
  <2>8. recalled' => shown' \subseteq informed' \cup moved'
    BY <1>1, <2>2 DEF ActionsInv, ReadersFound
  <2>9. ReadersFound'
    BY <2>6, <2>7, <2>8 DEF ReadersFound
  <2>10. QED
    BY <1>2, <2>3, <2>9 DEF ActionsInv
<1>5. QED
  BY <1>3, <1>4

\* What the invariant says of a request that starts.
LEMMA StartKeeps ==
  ASSUME ActionsInv, NEW t \in Tasks, NEW q \in TaskRow, task[t] = NoTask,
         task' = [task EXCEPT ![t] = q], UNCHANGED <<facts, events, shown, moved>>,
         q.pc \in {"locked", "inserted", "deleted", "ignored", "read", "listed"},
         q.pc = "locked" => MessageFree /\ ~recalled,
         q.pc \in {"inserted", "deleted"} => KeyFree(q.user),
         q.pc = "inserted" => q.user \in Members \ reacted,
         q.pc = "deleted" => q.user \in reacted,
         q.pc = "listed" => q.user \in Joined,
         q.pc = "read" => q.text = ~recalled
  PROVE  ActionsInv'
<1>1. \A s \in Tasks : task'[s] = IF s = t THEN q ELSE task[s]
  BY OneTask DEF ActionsInv
<1>2. ActionsTypeOK'
  BY OneTask DEF ActionsInv, ActionsTypeOK, TaskRow, facts, events
<1>3. RecallsAlone'
  BY <1>1 DEF ActionsInv, RecallsAlone, Recalling, MessageFree, facts, events
<1>4. ReadersFound'
  BY <1>1 DEF ActionsInv, ReadersFound, facts, events, Joined
<1>5. ChangesAlone'
  BY <1>1 DEF ActionsInv, ChangesAlone, Changing, KeyFree, facts, events, ReactionsAreTold
<1>6. QED
  BY <1>2, <1>3, <1>4, <1>5 DEF ActionsInv

LEMMA TakeKeeps ==
  ASSUME ActionsInv, NEW t \in Tasks, NEW u \in Members,
         \/ RecallLock(t, u) \/ AddInsert(t, u) \/ RemoveDelete(t, u)
         \/ GetMessage(t, u) \/ HistoryCheck(t, u)
  PROVE  ActionsInv'
<1>a. NoTask.text = FALSE /\ recalled \in BOOLEAN
  BY DEF NoTask, ActionsInv, ActionsTypeOK
<1>b. ASSUME NEW pc \in TaskSteps, Takes(t, u, pc)
      PROVE  \E q \in TaskRow : /\ task[t] = NoTask /\ task' = [task EXCEPT ![t] = q]
                                /\ q.pc = pc /\ q.user = u
  <2> DEFINE q == [NoTask EXCEPT !.pc = pc, !.user = u]
  <2>1. q \in TaskRow /\ q.pc = pc /\ q.user = u
    BY DEF NoTask, TaskRow
  <2>2. task[t] = NoTask /\ task' = [task EXCEPT ![t] = q]
    BY <1>b DEF Takes
  <2> HIDE DEF q
  <2>3. QED
    BY <2>1, <2>2
<1>c. {"locked", "inserted", "deleted", "ignored", "read", "listed"} \subseteq TaskSteps
  BY DEF TaskSteps
<1>1. CASE RecallLock(t, u)
  <2>1. PICK q \in TaskRow : /\ task[t] = NoTask /\ task' = [task EXCEPT ![t] = q]
                             /\ q.pc = "locked" /\ q.user = u
    BY <1>1, <1>b, <1>c DEF RecallLock
  <2>2. QED
    BY <1>1, <2>1, StartKeeps DEF RecallLock
<1>2. CASE AddInsert(t, u) /\ u \in reacted
  <2>1. PICK q \in TaskRow : /\ task[t] = NoTask /\ task' = [task EXCEPT ![t] = q]
                             /\ q.pc = "ignored" /\ q.user = u
    BY <1>2, <1>b, <1>c DEF AddInsert
  <2>2. QED
    BY <1>2, <2>1, StartKeeps DEF AddInsert
<1>3. CASE AddInsert(t, u) /\ u \notin reacted
  <2>1. PICK q \in TaskRow : /\ task[t] = NoTask /\ task' = [task EXCEPT ![t] = q]
                             /\ q.pc = "inserted" /\ q.user = u
    BY <1>3, <1>b, <1>c DEF AddInsert
  <2>2. QED
    BY <1>3, <2>1, StartKeeps DEF AddInsert
<1>4. CASE RemoveDelete(t, u)
  <2>1. PICK q \in TaskRow : /\ task[t] = NoTask /\ task' = [task EXCEPT ![t] = q]
                             /\ q.pc = "deleted" /\ q.user = u
    BY <1>4, <1>b, <1>c DEF RemoveDelete
  <2>2. QED
    BY <1>4, <2>1, StartKeeps DEF RemoveDelete
<1>5. CASE GetMessage(t, u)
  <2>1. PICK b \in BOOLEAN : b = ~recalled
    OBVIOUS
  <2> DEFINE q == [NoTask EXCEPT !.pc = "read", !.user = u, !.text = b]
  <2>2. q \in TaskRow /\ q.pc = "read" /\ q.user = u /\ q.text = b
    BY DEF NoTask, TaskRow, TaskSteps
  <2>3. task[t] = NoTask /\ task' = [task EXCEPT ![t] = q]
    BY <1>5, <2>1 DEF GetMessage
  <2> HIDE DEF q
  <2>4. QED
    BY <1>5, <2>1, <2>2, <2>3, StartKeeps DEF GetMessage
<1>6. CASE HistoryCheck(t, u)
  <2>1. PICK q \in TaskRow : /\ task[t] = NoTask /\ task' = [task EXCEPT ![t] = q]
                             /\ q.pc = "listed" /\ q.user = u
    BY <1>6, <1>b, <1>c DEF HistoryCheck
  <2>2. QED
    BY <1>6, <2>1, StartKeeps DEF HistoryCheck
<1>7. QED
  BY <1>1, <1>2, <1>3, <1>4, <1>5, <1>6

\* What a request leaves behind when it ends.
LEMMA EndsTask ==
  ASSUME ActionsTypeOK, NEW t \in Tasks, Ends(t)
  PROVE  /\ task' \in [Tasks -> TaskRow]
         /\ \A s \in Tasks : task'[s] = IF s = t THEN NoTask ELSE task[s]
         /\ NoTask.pc = "none"
  BY OneTask, NoTaskType DEF Ends

LEMMA AudienceKeeps ==
  ASSUME ActionsInv, NEW t \in Tasks, RecallAudience(t)
  PROVE  ActionsInv'
<1> DEFINE q == [task[t] EXCEPT !.pc = "audience", !.audience = Audience]
<1>1. task[t] \in TaskRow /\ task[t].pc = "locked"
  BY DEF ActionsInv, ActionsTypeOK, TaskRow, RecallAudience
<1>2. q \in TaskRow /\ q.pc = "audience" /\ q.audience = Joined
  BY <1>1 DEF TaskRow, TaskSteps, Audience, Joined
<1>3. task' = [task EXCEPT ![t] = q] /\ UNCHANGED <<facts, events, shown, moved>>
  BY <1>1 DEF RecallAudience, TaskRow
<1> HIDE DEF q
<1>4. \A s \in Tasks : task'[s] = IF s = t THEN q ELSE task[s]
  BY <1>2, <1>3, OneTask DEF ActionsInv
<1>5. ActionsTypeOK'
  BY <1>2, <1>3, OneTask DEF ActionsInv, ActionsTypeOK, TaskRow, facts, events
<1>6. RecallsAlone'
  BY <1>1, <1>2, <1>3, <1>4 DEF ActionsInv, RecallsAlone, Recalling, facts, events
<1>7. ReadersFound'
  BY <1>2, <1>3, <1>4 DEF ActionsInv, ReadersFound, facts, events, Joined
<1>8. ChangesAlone'
  BY <1>2, <1>3, <1>4 DEF ActionsInv, ChangesAlone, Changing, facts, events, ReactionsAreTold
<1>9. QED
  BY <1>5, <1>6, <1>7, <1>8 DEF ActionsInv

LEMMA RecallKeeps ==
  ASSUME ActionsInv, NEW t \in Tasks, RecallCommit(t)
  PROVE  ActionsInv'
<1>1. /\ task' \in [Tasks -> TaskRow]
      /\ \A s \in Tasks : task'[s] = IF s = t THEN NoTask ELSE task[s]
      /\ NoTask.pc = "none"
  BY EndsTask DEF ActionsInv, RecallCommit
<1>2. /\ recalled' = TRUE /\ recalls' = recalls + 1
      /\ informed' = informed \cup task[t].audience
      /\ UNCHANGED <<role, fresh, reacted, hidden, announced, repeated, shown, moved>>
      /\ task[t].pc = "audience"
  BY DEF RecallCommit
<1>3. task[t].audience \subseteq Members /\ recalls \in Nat
  BY DEF ActionsInv, ActionsTypeOK
<1>4. ActionsTypeOK'
  BY <1>1, <1>2, <1>3 DEF ActionsInv, ActionsTypeOK, TaskRow
<1>5. ~recalled
  BY <1>2 DEF ActionsInv, RecallsAlone, Recalling
<1>6. recalls = 0
  BY <1>5 DEF ActionsInv, RecallsAlone
<1>7. RecallsAlone'
  <2>1. \A s \in Tasks : ~Recalling(s)'
    BY <1>1, <1>2 DEF ActionsInv, RecallsAlone, Recalling
  <2>2. QED
    BY <1>2, <1>6, <2>1 DEF RecallsAlone
<1>8. Joined \subseteq informed' \cup moved /\ Joined' = Joined
  BY <1>2 DEF ActionsInv, ReadersFound, Joined
<1>9. ReadersFound'
  BY <1>1, <1>2, <1>8 DEF ActionsInv, ReadersFound
<1>10. ChangesAlone'
  BY <1>1, <1>2 DEF ActionsInv, ChangesAlone, Changing, ReactionsAreTold
<1>11. QED
  BY <1>4, <1>7, <1>9, <1>10 DEF ActionsInv

\* An insert or a delete that commits, with its event.
LEMMA ReactionKeeps ==
  ASSUME ActionsInv, NEW t \in Tasks, AddCommit(t) \/ RemoveCommit(t)
  PROVE  ActionsInv'
<1> DEFINE u == task[t].user
<1>1. /\ task' \in [Tasks -> TaskRow]
      /\ \A s \in Tasks : task'[s] = IF s = t THEN NoTask ELSE task[s]
      /\ NoTask.pc = "none"
  BY EndsTask DEF ActionsInv, AddCommit, RemoveCommit
<1>2. /\ UNCHANGED <<role, fresh, recalled, hidden, shown, moved, recalls, informed>>
      /\ Changing(t)
  BY DEF AddCommit, RemoveCommit, Announce, Changing
<1>3. RecallsAlone' /\ ReadersFound'
  BY <1>1, <1>2 DEF ActionsInv, RecallsAlone, Recalling, ReadersFound, Joined
<1>4. announced = reacted /\ repeated = FALSE
  BY DEF ActionsInv, ActionsTypeOK, ChangesAlone, ReactionsAreTold
<1>5. \/ u \notin reacted /\ reacted' = reacted \cup {u} /\ announced' = announced \cup {u}
         /\ repeated' = FALSE
      \/ u \in reacted /\ reacted' = reacted \ {u} /\ announced' = announced \ {u}
         /\ repeated' = FALSE
  <2>1. CASE AddCommit(t)
    <3>1. u \notin reacted
      BY <2>1 DEF AddCommit, ActionsInv, ChangesAlone
    <3>2. reacted' = reacted \cup {u} /\ announced' = announced \cup {u}
      BY <2>1 DEF AddCommit, Announce
    <3>3. repeated' = FALSE
      BY <2>1, <1>4, <3>1 DEF AddCommit, Announce
    <3>4. QED
      BY <3>1, <3>2, <3>3
  <2>2. CASE RemoveCommit(t)
    <3>1. u \in reacted
      BY <2>2 DEF RemoveCommit, ActionsInv, ChangesAlone
    <3>2. reacted' = reacted \ {u} /\ announced' = announced \ {u}
      BY <2>2 DEF RemoveCommit, Announce
    <3>3. repeated' = FALSE
      BY <2>2, <1>4, <3>1 DEF RemoveCommit, Announce
    <3>4. QED
      BY <3>1, <3>2, <3>3
  <2>3. QED
    BY <2>1, <2>2
<1>6. \A s \in Tasks \ {t} : Changing(s) => task[s].user # u
  BY <1>2 DEF ActionsInv, ChangesAlone
<1>7. u \in Members
  BY <1>2 DEF Changing, ActionsInv, ActionsTypeOK, ChangesAlone
<1>8. ActionsTypeOK'
  BY <1>1, <1>2, <1>5, <1>7 DEF ActionsInv, ActionsTypeOK, TaskRow
<1>9. ChangesAlone'
  <2>1. announced' = reacted' /\ ~repeated'
    BY <1>4, <1>5
  <2>2. \A s \in Tasks : /\ task'[s].pc = "inserted" => task'[s].user \in Members \ reacted'
                         /\ task'[s].pc = "deleted" => task'[s].user \in reacted'
    BY <1>1, <1>5, <1>6 DEF ActionsInv, ChangesAlone, Changing
  <2>3. \A s1, s2 \in Tasks :
          Changing(s1)' /\ Changing(s2)' /\ task'[s1].user = task'[s2].user => s1 = s2
    BY <1>1 DEF ActionsInv, ChangesAlone, Changing
  <2>4. QED
    BY <2>1, <2>2, <2>3 DEF ChangesAlone, ReactionsAreTold
<1>10. QED
  BY <1>3, <1>8, <1>9 DEF ActionsInv

LEMMA ReadKeeps ==
  ASSUME ActionsInv, NEW t \in Tasks, GetAnswer(t) \/ HistoryAnswer(t)
  PROVE  ActionsInv'
<1> DEFINE u == task[t].user
<1>1. /\ task' \in [Tasks -> TaskRow]
      /\ \A s \in Tasks : task'[s] = IF s = t THEN NoTask ELSE task[s]
      /\ NoTask.pc = "none"
  BY EndsTask DEF ActionsInv, GetAnswer, HistoryAnswer, Shows
<1>2. UNCHANGED <<role, fresh, recalled, reacted, hidden, recalls, informed, announced,
                  repeated, moved>>
  BY DEF GetAnswer, HistoryAnswer, Shows, facts, events
<1>3. RecallsAlone' /\ ChangesAlone'
  BY <1>1, <1>2 DEF ActionsInv, RecallsAlone, Recalling, ChangesAlone, Changing,
                    ReactionsAreTold
<1>4. shown' = shown \/ shown' = shown \cup {u}
  BY DEF GetAnswer, HistoryAnswer, Shows
<1>5. shown' # shown => /\ u \in Joined \cup moved /\ (recalled => u \in informed \cup moved)
                        /\ u \in Members
  <2>1. CASE GetAnswer(t)
    <3>1. shown' # shown => task[t].text
      BY <2>1 DEF GetAnswer, Shows
    <3>2. task[t].pc = "read" /\ u \in Joined
      BY <2>1 DEF GetAnswer
    <3>3. QED
      BY <3>1, <3>2 DEF ActionsInv, ReadersFound, Joined
  <2>2. CASE HistoryAnswer(t)
    <3>1. shown' # shown => ~recalled
      BY <2>2 DEF HistoryAnswer, Shows
    <3>2. u \in Joined \cup moved
      BY <2>2 DEF HistoryAnswer, ActionsInv, ReadersFound
    <3>3. u \in Members
      BY <3>2 DEF Joined, ActionsInv, ActionsTypeOK
    <3>4. QED
      BY <3>1, <3>2, <3>3
  <2>3. QED
    BY <2>1, <2>2
<1>6. ActionsTypeOK'
  BY <1>1, <1>2, <1>4, <1>5 DEF ActionsInv, ActionsTypeOK, TaskRow
<1>7. ReadersFound'
  <2>1. Joined' = Joined
    BY <1>2 DEF Joined
  <2>2. shown' \subseteq Joined' \cup moved' /\ (recalled' => shown' \subseteq informed' \cup moved')
    BY <1>2, <1>4, <1>5, <2>1 DEF ActionsInv, ReadersFound
  <2>3. QED
    BY <1>1, <1>2, <2>1, <2>2 DEF ActionsInv, ReadersFound
<1>8. QED
  BY <1>3, <1>6, <1>7 DEF ActionsInv

LEMMA ActionsStep == ActionsInv /\ [ActionsNext]_actionsVars => ActionsInv'
<1> SUFFICES ASSUME ActionsInv, [ActionsNext]_actionsVars PROVE ActionsInv'
  OBVIOUS
<1>1. ASSUME NEW t \in Tasks, TaskFails(t) \/ AddIgnored(t) PROVE ActionsInv'
  <2>1. /\ task' = [task EXCEPT ![t] = NoTask]
        /\ UNCHANGED <<facts, events, shown, moved>>
    BY <1>1 DEF TaskFails, AddIgnored, Ends
  <2>2. NoTask \in TaskRow /\ Rests(NoTask)
    BY NoTaskType DEF Rests
  <2>3. QED
    BY <2>1, <2>2, QuietTask
<1>2. ASSUME UNCHANGED actionsVars PROVE ActionsInv'
  BY <1>2 DEF actionsVars, ActionsInv, ActionsTypeOK, RecallsAlone, Recalling, ReadersFound,
              Joined, ChangesAlone, Changing, ReactionsAreTold
<1>3. QED
  BY <1>1, <1>2, GroupKeeps, TakeKeeps, AudienceKeeps, RecallKeeps, ReactionKeeps, ReadKeeps,
     Zenon DEF ActionsNext

LEMMA ActionsStart == ActionsInit => ActionsInv
<1> SUFFICES ASSUME ActionsInit PROVE ActionsInv
  OBVIOUS
<1>1. \A t \in Tasks : task[t] = NoTask
  BY DEF ActionsInit
<1>2. ActionsTypeOK
  BY MessageActionsAssumption, NoTaskType DEF ActionsInit, ActionsTypeOK, TaskRow
<1>3. Sender \in Joined
  BY MessageActionsAssumption DEF ActionsInit, Joined
<1>4. RecallsAlone /\ ReadersFound /\ ChangesAlone
  BY <1>1, <1>3, NoTaskType DEF ActionsInit, RecallsAlone, Recalling, ReadersFound, ChangesAlone,
                        Changing, ReactionsAreTold
<1>5. QED
  BY <1>2, <1>4 DEF ActionsInv

\* A message is recalled at most once, and its event goes to every member that was shown the
\* text by a read before, during or after the recall; the reactions the events add up to are
\* those in the table (recall, addReaction, removeReaction, get, history).
THEOREM ActionsTold == ActionsSpec => []ActionsAreTold
<1>1. ActionsInv => ActionsAreTold
  BY DEF ActionsInv, RecallsAlone, ReadersFound, ChangesAlone, ActionsAreTold,
         RecallReachesReaders
<1>2. QED
  BY <1>1, ActionsStart, ActionsStep, PTL DEF ActionsSpec

-----------------------------------------------------------------------------
(* RowLocks                                                                *)

Modes == {"shared", "exclusive"}

\* A script locks a row twice only to make a shared lock exclusive.
WellMade(s) ==
  /\ Len(s) \in 0..4
  /\ \A i \in 1..Len(s) : s[i].mode \in Modes /\ s[i].rows \subseteq Locks
  /\ \A i, j \in 1..Len(s) : i < j =>
       \A l \in s[i].rows \cap s[j].rows : s[i].mode = "shared" /\ s[j].mode = "exclusive"

LEMMA LockSets ==
  /\ TheRow \in Locks
  /\ \A u \in Persons : <<"state", u>> \in Locks /\ <<"member", u>> \in Locks
  /\ {"state"} \X Persons \subseteq Locks /\ {"member"} \X Persons \subseteq Locks
  /\ \A x \in {"state", "member"} \X Persons : x # TheRow
  /\ \A u \in Persons : <<"state", u>> # TheRow /\ <<"member", u>> # TheRow
                        /\ <<"state", u>> # <<"member", u>>
  BY DEF Locks, TheRow

LEMMA ScriptsOf ==
  ASSUME NEW command \in Commands \cup {NoCommand}
  PROVE  LET k == command[1]
             u == command[2]
             s == Script(k, u)
         IN  \/ k = "none" /\ s = <<>>
             \/ k = "send" /\ s = Send
             \/ k = "transfer" /\ s = Transfer
             \/ k = "profile" /\ s = Profile
             \/ k = "disband" /\ s = Disband
             \/ k = "receipt" /\ u \in Persons /\ s = Receipt(u)
             \/ k = "clear" /\ u \in Persons /\ s = Clear(u)
             \/ k = "join" /\ u \in Persons /\ s = JoinGroup(u)
             \/ k = "member" /\ u \in Persons /\ s = MemberCommand(u)
  BY DEF Commands, NoCommand, Script

LEMMA ScriptsMade ==
  ASSUME NEW command \in Commands \cup {NoCommand}
  PROVE  WellMade(Script(command[1], command[2]))
<1> USE LockSets
<1>1. WellMade(<<>>) /\ WellMade(Send) /\ WellMade(Transfer) /\ WellMade(Profile)
  BY DEF WellMade, Send, Transfer, Profile, Shared, Exclusive, Stage, Modes
<1>2. WellMade(Disband)
  BY DEF WellMade, Disband, Shared, Exclusive, Stage, Modes
<1>3. ASSUME NEW u \in Persons
      PROVE  WellMade(Receipt(u)) /\ WellMade(Clear(u)) /\ WellMade(MemberCommand(u))
  BY DEF WellMade, Receipt, Clear, MemberCommand, Shared, Exclusive, OwnState, OwnMember,
         Stage, Modes
<1>4. ASSUME NEW u \in Persons PROVE WellMade(JoinGroup(u))
  BY DEF WellMade, JoinGroup, Shared, Exclusive, OwnState, OwnMember, Stage, Modes
<1>5. QED
  BY <1>1, <1>2, <1>3, <1>4, ScriptsOf

\* What a transaction has is what its stages so far lock: all of those that are over, and
\* a stage of one row is over when the row is locked.
ByScript(s, stage, has) ==
  /\ stage \in 1..Len(s) + 1
  /\ \A l \in Locks :
       /\ has[l] # "none" =>
            \E i \in 1..Len(s) : i <= stage /\ l \in s[i].rows /\ s[i].mode = has[l]
       /\ \A i \in 1..Len(s) :
            /\ i < stage /\ l \in s[i].rows => has[l] \in {s[i].mode, "exclusive"}
            /\ s[i].rows = {l} /\ has[l] \in {s[i].mode, "exclusive"} => i < stage

Exclusively ==
  \A t1, t2 \in Txs, l \in Locks :
    t1 # t2 /\ held[t1][l] = "exclusive" => held[t2][l] = "none"

LocksInv ==
  /\ LocksTypeOK /\ Exclusively
  /\ \A t \in Txs : ByScript(MyScript(t), tx[t].stage, held[t])

LEMMA MyScriptMade ==
  ASSUME LocksTypeOK, NEW t \in Txs
  PROVE  WellMade(MyScript(t)) /\ tx[t].command \in Commands \cup {NoCommand}
  BY ScriptsMade DEF MyScript, Kind, Person, LocksTypeOK

\* One more row of a stage.
LEMMA ScriptGoesOn ==
  ASSUME NEW s, WellMade(s), NEW stage \in 1..Len(s),
         NEW has \in [Locks -> {"none", "shared", "exclusive"}], ByScript(s, stage, has),
         NEW l \in s[stage].rows, has[l] \notin {s[stage].mode, "exclusive"},
         NEW next \in {stage, stage + 1},
         next = stage + 1 <=>
           {k \in s[stage].rows : has[k] \notin {s[stage].mode, "exclusive"}} = {l}
  PROVE  ByScript(s, next, [has EXCEPT ![l] = s[stage].mode])
<1> DEFINE new == [has EXCEPT ![l] = s[stage].mode]
<1>1. Len(s) \in Nat /\ l \in Locks /\ s[stage].mode \in Modes
  BY DEF WellMade
<1>2. \A k \in Locks : new[k] = IF k = l THEN s[stage].mode ELSE has[k]
  BY <1>1
<1> HIDE DEF new
<1>3. next \in 1..Len(s) + 1 /\ stage <= next
  BY <1>1
<1>4. ASSUME NEW k \in Locks, new[k] # "none"
      PROVE  \E i \in 1..Len(s) : i <= next /\ k \in s[i].rows /\ s[i].mode = new[k]
  <2>1. CASE k = l
    BY <1>2, <1>3, <2>1
  <2>2. CASE k # l
    <3>1. new[k] = has[k]
      BY <1>2, <2>2
    <3>2. \A i \in 1..Len(s) : i <= stage => i <= next
      BY <1>1, <1>3
    <3>3. QED
      BY <1>4, <3>1, <3>2 DEF ByScript
  <2>3. QED
    BY <2>1, <2>2
<1>5. ASSUME NEW k \in Locks, NEW i \in 1..Len(s), i < next, k \in s[i].rows
      PROVE  new[k] \in {s[i].mode, "exclusive"}
  <2>1. CASE i < stage /\ k # l
    BY <1>2, <1>5, <2>1 DEF ByScript
  <2>2. CASE i < stage /\ k = l
    <3>1. has[l] \in {s[i].mode, "exclusive"}
      BY <1>5, <2>2 DEF ByScript
    <3>2. s[i].mode # s[stage].mode
      BY <3>1
    <3>3. s[stage].mode = "exclusive"
      BY <1>5, <2>2 DEF WellMade
    <3>4. QED
      BY <1>2, <2>2, <3>3
  <2>3. CASE i = stage
    <3>1. next = stage + 1
      BY <1>1, <1>5, <2>3
    <3>2. {x \in s[stage].rows : has[x] \notin {s[stage].mode, "exclusive"}} = {l}
      BY <3>1
    <3>3. k = l \/ has[k] \in {s[stage].mode, "exclusive"}
      BY <1>5, <2>3, <3>2
    <3>4. QED
      BY <1>2, <2>3, <3>3
  <2>4. QED
    BY <1>1, <1>5, <2>1, <2>2, <2>3
<1>6. ASSUME NEW k \in Locks, NEW i \in 1..Len(s), s[i].rows = {k},
             new[k] \in {s[i].mode, "exclusive"}
      PROVE  i < next
  <2>1. CASE k # l
    <3>1. i < stage
      BY <1>2, <1>6, <2>1 DEF ByScript
    <3>2. QED
      BY <1>1, <1>3, <3>1
  <2>2. CASE k = l /\ i = stage
    <3>1. {x \in s[stage].rows : has[x] \notin {s[stage].mode, "exclusive"}} = {l}
      BY <1>6, <2>2
    <3>2. QED
      BY <1>1, <2>2, <3>1
  <2>3. CASE k = l /\ i < stage
    BY <1>1, <1>3, <2>3
  <2>4. CASE k = l /\ stage < i
    <3>1. s[stage].mode = "shared" /\ s[i].mode = "exclusive"
      BY <1>6, <2>4 DEF WellMade
    <3>2. QED
      BY <1>2, <1>6, <2>4, <3>1
  <2>5. QED
    BY <1>1, <2>1, <2>2, <2>3, <2>4
<1>7. QED
  BY <1>3, <1>4, <1>5, <1>6 DEF ByScript, new

LEMMA LockKeeps ==
  ASSUME LocksInv, NEW t \in Txs, Running(t), NEW l \in Wants(t), Lock(t, l)
  PROVE  LocksInv'
<1> DEFINE s == MyScript(t)
           stage == tx[t].stage
           mode == s[stage].mode
           next == IF Wants(t) = {l} THEN stage + 1 ELSE stage
           new == [held[t] EXCEPT ![l] = mode]
<1>1. WellMade(s) /\ ByScript(s, stage, held[t]) /\ stage \in Nat
  BY MyScriptMade DEF LocksInv, LocksTypeOK
<1>2. Len(s) \in 0..4 /\ stage \in 1..Len(s)
  BY <1>1 DEF ByScript, WellMade, Running
<1>3. /\ l \in s[stage].rows /\ held[t][l] \notin {mode, "exclusive"}
      /\ Wants(t) = {x \in s[stage].rows : held[t][x] \notin {mode, "exclusive"}}
  BY DEF Wants
<1>4. l \in Locks /\ mode \in Modes
  BY <1>1, <1>2, <1>3 DEF WellMade
<1>5. held[t] \in [Locks -> {"none", "shared", "exclusive"}]
  BY DEF LocksInv, LocksTypeOK
<1>6. held' = [held EXCEPT ![t] = new] /\ tx' = [tx EXCEPT ![t].stage = next]
  BY DEF Lock
<1>7. next \in {stage, stage + 1} /\ (next = stage + 1 <=> Wants(t) = {l})
  BY <1>1
<1>8. new \in [Locks -> {"none", "shared", "exclusive"}]
  BY <1>4, <1>5 DEF Modes
<1>9. \A o \in Txs \ {t} : ~Blocks(o, l, mode)
  BY DEF Lock
<1>10. \A k \in Locks : new[k] = IF k = l THEN mode ELSE held[t][k]
  BY <1>4, <1>5
<1>11. ByScript(s, next, new)
  BY <1>1, <1>2, <1>3, <1>5, <1>7, ScriptGoesOn
<1> HIDE DEF next, new, s, stage, mode
<1>12. next \in 1..5
  <2> PICK n \in 0..4 : n = Len(s)
    BY <1>2
  <2>1. stage \in 1..n
    BY <1>2
  <2>2. QED
    BY <1>7, <2>1
<1>13. LocksTypeOK'
  BY <1>6, <1>8, <1>12 DEF LocksInv, LocksTypeOK
<1>14. \A o \in Txs : held'[o] = IF o = t THEN new ELSE held[o]
  BY <1>6 DEF LocksInv, LocksTypeOK
<1>15. \A o \in Txs : /\ MyScript(o)' = MyScript(o)
                      /\ tx'[o].stage = IF o = t THEN next ELSE tx[o].stage
  BY <1>6 DEF LocksInv, LocksTypeOK, MyScript, Kind, Person
<1>16. Exclusively'
  <2>1. ASSUME NEW t1 \in Txs, NEW t2 \in Txs, NEW k \in Locks, t1 # t2,
               held'[t1][k] = "exclusive"
        PROVE  held'[t2][k] = "none"
    <3>1. CASE t1 = t /\ k = l
      BY <1>9, <1>10, <1>14, <2>1, <3>1 DEF Blocks
    <3>2. CASE t1 = t /\ k # l
      BY <1>10, <1>14, <2>1, <3>2 DEF LocksInv, Exclusively
    <3>3. CASE t2 = t /\ k = l
      <4>1. held[t1][l] = "exclusive"
        BY <1>14, <2>1, <3>3
      <4>2. Blocks(t1, l, mode)
        BY <4>1 DEF Blocks
      <4>3. QED
        BY <1>9, <2>1, <3>3, <4>2
    <3>4. CASE t2 = t /\ k # l
      BY <1>10, <1>14, <2>1, <3>4 DEF LocksInv, Exclusively
    <3>5. CASE t1 # t /\ t2 # t
      BY <1>14, <2>1, <3>5 DEF LocksInv, Exclusively
    <3>6. QED
      BY <3>1, <3>2, <3>3, <3>4, <3>5
  <2>2. QED
    BY <2>1 DEF Exclusively
<1>17. \A o \in Txs : ByScript(MyScript(o)', tx'[o].stage, held'[o])
  BY <1>11, <1>14, <1>15 DEF LocksInv, s
<1>18. \A o \in Txs : ByScript(MyScript(o), tx[o].stage, held[o])'
  BY <1>17 DEF ByScript
<1>19. QED
  BY <1>13, <1>16, <1>18 DEF LocksInv

LEMMA NothingHeld ==
  ASSUME NEW s, WellMade(s)
  PROVE  ByScript(s, 1, NoLocks)
<1>1. \A l \in Locks : NoLocks[l] = "none"
  BY DEF NoLocks
<1>2. \A i \in 1..Len(s) : ~(i < 1)
  OBVIOUS
<1>3. Len(s) \in 0..4 /\ \A i \in 1..Len(s) : s[i].mode \in {"shared", "exclusive"}
  BY DEF WellMade, Modes
<1>4. QED
  BY <1>1, <1>2, <1>3 DEF ByScript

\* A transaction that starts has nothing, and one that ends keeps nothing.
LEMMA TxKeeps ==
  ASSUME LocksInv, NEW t \in Txs,
         (\E command \in Commands : BeginTx(t, command)) \/ EndOfTransaction(t)
  PROVE  LocksInv'
<1>1. LocksTypeOK
  BY DEF LocksInv
<1>2. NoLocks \in [Locks -> {"none", "shared", "exclusive"}]
  BY DEF NoLocks
<1>3. /\ \E command \in Commands \cup {NoCommand} :
           tx' = [tx EXCEPT ![t] = [command |-> command, stage |-> 1]]
      /\ held' = [held EXCEPT ![t] = NoLocks]
  <2>1. CASE EndOfTransaction(t)
    BY <2>1 DEF EndOfTransaction
  <2>2. ASSUME NEW command \in Commands, BeginTx(t, command)
        PROVE  /\ tx' = [tx EXCEPT ![t] = [command |-> command, stage |-> 1]]
               /\ held' = [held EXCEPT ![t] = NoLocks]
    <3>1. MyScript(t) = <<>>
      BY <2>2 DEF BeginTx, MyScript, Kind, Person, NoCommand, Script
    <3>2. ByScript(<<>>, tx[t].stage, held[t])
      BY <3>1 DEF LocksInv
    <3>3. tx[t].stage = 1 /\ \A l \in Locks : held[t][l] = "none"
      BY <3>2 DEF ByScript
    <3>4. held[t] = NoLocks
      BY <1>1, <3>3 DEF NoLocks, LocksTypeOK
    <3>5. [tx[t] EXCEPT !.command = command] = [command |-> command, stage |-> 1]
      BY <1>1, <3>3 DEF LocksTypeOK
    <3>6. QED
      BY <1>1, <2>2, <3>4, <3>5 DEF BeginTx, LocksTypeOK
  <2>3. QED
    BY <2>1, <2>2
<1>4. PICK command \in Commands \cup {NoCommand} :
        tx' = [tx EXCEPT ![t] = [command |-> command, stage |-> 1]]
  BY <1>3
<1>5. \A o \in Txs : /\ held'[o] = IF o = t THEN NoLocks ELSE held[o]
                     /\ tx'[o] = IF o = t THEN [command |-> command, stage |-> 1] ELSE tx[o]
  BY <1>1, <1>3, <1>4 DEF LocksTypeOK
<1>6. LocksTypeOK'
  BY <1>1, <1>2, <1>3, <1>4 DEF LocksTypeOK
<1>7. Exclusively'
  BY <1>5 DEF LocksInv, Exclusively, NoLocks
<1>8. ASSUME NEW o \in Txs PROVE ByScript(MyScript(o)', tx'[o].stage, held'[o])
  <2>1. CASE o = t
    <3>1. MyScript(o)' = Script(command[1], command[2])
      BY <1>5, <2>1 DEF MyScript, Kind, Person
    <3>2. ByScript(Script(command[1], command[2]), 1, NoLocks)
      BY NothingHeld, ScriptsMade
    <3>3. QED
      BY <1>5, <2>1, <3>1, <3>2
  <2>2. CASE o # t
    <3>1. MyScript(o)' = MyScript(o) /\ tx'[o] = tx[o] /\ held'[o] = held[o]
      BY <1>5, <2>2 DEF MyScript, Kind, Person
    <3>2. QED
      BY <3>1 DEF LocksInv
  <2>3. QED
    BY <2>1, <2>2
<1>9. \A o \in Txs : ByScript(MyScript(o), tx[o].stage, held[o])'
  BY <1>8 DEF ByScript
<1>10. QED
  BY <1>6, <1>7, <1>9 DEF LocksInv

LEMMA LocksStep == LocksInv /\ [LocksNext]_locksVars => LocksInv'
<1>1. ASSUME LocksInv, UNCHANGED locksVars PROVE LocksInv'
  <2>1. tx' = tx /\ held' = held
    BY <1>1 DEF locksVars
  <2>2. LocksTypeOK' /\ Exclusively'
    BY <1>1, <2>1 DEF LocksInv, LocksTypeOK, Exclusively
  <2>3. \A t \in Txs : MyScript(t)' = MyScript(t)
    BY <2>1 DEF MyScript, Kind, Person
  <2>4. \A t \in Txs : ByScript(MyScript(t)', tx'[t].stage, held'[t])
    BY <1>1, <2>1, <2>3 DEF LocksInv
  <2>5. QED
    BY <2>2, <2>4 DEF LocksInv
<1>2. QED
  BY <1>1, LockKeeps, TxKeeps, Zenon DEF LocksNext

LEMMA LocksStart == LocksInit => LocksInv
<1> SUFFICES ASSUME LocksInit PROVE LocksInv
  OBVIOUS
<1>1. \A t \in Txs : tx[t].stage = 1 /\ MyScript(t) = <<>> /\ held[t] = NoLocks
  BY DEF LocksInit, MyScript, Kind, Person, NoCommand, Script
<1>2. LocksTypeOK
  BY DEF LocksInit, LocksTypeOK, NoLocks
<1>3. Exclusively
  BY <1>1 DEF Exclusively, NoLocks
<1>4. WellMade(<<>>)
  BY DEF WellMade
<1>5. QED
  BY <1>1, <1>2, <1>3, <1>4, NothingHeld DEF LocksInv

\* What the invariant says of each kind of transaction.
Has(t) == \E l \in Locks : held[t][l] # "none"

LEMMA SendLocks ==
  ASSUME LocksInv, NEW t \in Txs, Kind(t) = "send", Has(t)
  PROVE  held[t][TheRow] = "exclusive"
<1>1. ByScript(Send, tx[t].stage, held[t])
  BY DEF MyScript, Script, LocksInv
<1>2. Len(Send) = 2 /\ Send[1].rows = {TheRow} /\ Send[1].mode = "exclusive"
  BY DEF Send, Exclusive, Stage
<1>3. PICK l \in Locks, i \in {1, 2} : i <= tx[t].stage /\ l \in Send[i].rows
                                       /\ Send[i].mode = held[t][l]
  BY <1>1, <1>2 DEF ByScript, Has
<1>4. CASE i = 1
  BY <1>2, <1>3, <1>4
<1>5. CASE i = 2
  <2>1. 1 < tx[t].stage
    BY <1>1, <1>2, <1>3, <1>5 DEF ByScript
  <2>2. QED
    BY <1>1, <1>2, <2>1, LockSets DEF ByScript
<1>6. QED
  BY <1>3, <1>4, <1>5

LEMMA ClearLocks ==
  ASSUME LocksInv, NEW t \in Txs, Kind(t) = "clear", Has(t)
  PROVE  ~Running(t) /\ \A l \in Locks : held[t][l] # "none" => l = <<"state", Person(t)>>
<1>1. MyScript(t) = Clear(Person(t)) /\ Person(t) \in Persons
  <2>1. tx[t].command \in Commands \cup {NoCommand}
    BY MyScriptMade DEF LocksInv
  <2>2. QED
    BY <2>1, ScriptsOf DEF MyScript, Script, Kind, Person
<1> DEFINE s == Clear(Person(t))
<1>2. ByScript(s, tx[t].stage, held[t])
  BY <1>1 DEF LocksInv
<1>3. Len(s) = 1 /\ s[1].rows = {<<"state", Person(t)>>}
  BY DEF Clear, OwnState, Stage
<1>4. tx[t].stage \in {1, 2}
  BY <1>2, <1>3 DEF ByScript
<1>5. \A l \in Locks : held[t][l] # "none" => l \in s[1].rows /\ s[1].mode = held[t][l]
  BY <1>2, <1>3 DEF ByScript
<1>6. tx[t].stage = 2
  BY <1>2, <1>3, <1>4, <1>5 DEF ByScript, Has
<1>7. QED
  BY <1>1, <1>3, <1>5, <1>6 DEF Running
\* The commands other than a message and a clear lock the row FOR SHARE before all else.
SharedFirst(s) == Len(s) \in 2..4 /\ s[1].rows = {TheRow} /\ s[1].mode = "shared"

LEMMA ScriptsShareFirst ==
  ASSUME LocksInv, NEW t \in Txs, Kind(t) \notin {"none", "send", "clear"}
  PROVE  /\ SharedFirst(MyScript(t))
         /\ \A u \in Persons, i \in 1..Len(MyScript(t)) : <<"state", u>> \in MyScript(t)[i].rows =>
              Kind(t) \in {"receipt", "join"} /\ u = Person(t)
         /\ Kind(t) = "receipt" => MyScript(t) = Receipt(Person(t)) /\ Person(t) \in Persons
<1> DEFINE k == Kind(t)
           u == Person(t)
           s == MyScript(t)
<1> USE LockSets
<1>1. \/ k = "transfer" /\ s = Transfer
      \/ k = "profile" /\ s = Profile
      \/ k = "disband" /\ s = Disband
      \/ k = "receipt" /\ u \in Persons /\ s = Receipt(u)
      \/ k = "join" /\ u \in Persons /\ s = JoinGroup(u)
      \/ k = "member" /\ u \in Persons /\ s = MemberCommand(u)
  BY MyScriptMade, ScriptsOf DEF LocksInv, MyScript, Kind, Person
<1> HIDE DEF k, u, s
<1>2. SharedFirst(s)
  <2>1. SharedFirst(Transfer) /\ SharedFirst(Profile) /\ SharedFirst(Disband)
    BY DEF SharedFirst, Transfer, Profile, Disband, Shared, Exclusive, Stage
  <2>2. ASSUME NEW p \in Persons PROVE SharedFirst(Receipt(p)) /\ SharedFirst(MemberCommand(p))
    BY DEF SharedFirst, Receipt, MemberCommand, Shared, Exclusive, OwnState, OwnMember, Stage
  <2>3. ASSUME NEW p \in Persons PROVE SharedFirst(JoinGroup(p))
    BY DEF SharedFirst, JoinGroup, Shared, Exclusive, OwnState, OwnMember, Stage
  <2>4. QED
    BY <1>1, <2>1, <2>2, <2>3
<1>3. ASSUME NEW p \in Persons, NEW i \in 1..Len(s), <<"state", p>> \in s[i].rows
      PROVE  k \in {"receipt", "join"} /\ p = u
  <2>1. CASE s = Transfer
    BY <1>3, <2>1 DEF Transfer, Shared, Exclusive, Stage
  <2>2. CASE s = Profile \/ s = Disband
    BY <1>3, <2>2 DEF Profile, Disband, Shared, Exclusive, Stage
  <2>3. CASE u \in Persons /\ s = MemberCommand(u)
    <3>1. \A j \in 1..Len(s) : s[j].rows \subseteq {TheRow, <<"member", u>>}
      BY <2>3 DEF MemberCommand, Shared, Exclusive, OwnMember, Stage
    <3>2. <<"state", p>> # TheRow /\ <<"state", p>> # <<"member", u>>
      BY DEF TheRow
    <3>3. QED
      BY <1>3, <3>1, <3>2
  <2>4. CASE k = "receipt" /\ s = Receipt(u)
    BY <1>3, <2>4 DEF Receipt, Shared, OwnState, Stage
  <2>5. CASE k = "join" /\ u \in Persons /\ s = JoinGroup(u)
    BY <1>3, <2>5 DEF JoinGroup, Shared, Exclusive, OwnState, OwnMember, Stage
  <2>6. QED
    BY <1>1, <2>1, <2>2, <2>3, <2>4, <2>5
<1>4. QED
  BY <1>1, <1>2, <1>3 DEF k, u, s

LEMMA OtherLocks ==
  ASSUME LocksInv, NEW t \in Txs, Kind(t) \notin {"none", "send", "clear"}, Has(t)
  PROVE  /\ held[t][TheRow] # "none"
         /\ \A u \in Persons : held[t][<<"state", u>>] # "none" =>
              Kind(t) \in {"receipt", "join"} /\ u = Person(t)
         /\ Kind(t) = "receipt" /\ Running(t) =>
              /\ Wants(t) \subseteq {<<"state", Person(t)>>}
              /\ held[t][<<"state", Person(t)>>] = "none"
<1> DEFINE s == MyScript(t)
           stage == tx[t].stage
           has == held[t]
<1>1. ByScript(s, stage, has) /\ SharedFirst(s)
  BY ScriptsShareFirst DEF LocksInv
<1>2. PICK n \in {2, 3, 4} : n = Len(s)
  BY <1>1 DEF SharedFirst
<1>3. PICK now \in 1..n + 1 : now = stage
  BY <1>1, <1>2 DEF ByScript
<1>4. TheRow \in Locks /\ \A u \in Persons : <<"state", u>> \in Locks
  BY LockSets
<1>5. Running(t) <=> now <= n
  BY <1>2, <1>3 DEF Running
<1>6. Wants(t) = {l \in s[now].rows : has[l] \notin {s[now].mode, "exclusive"}}
  BY <1>3 DEF Wants
<1>7. Has(t) <=> \E l \in Locks : has[l] # "none"
  BY DEF Has
<1> HIDE DEF s, stage, has
<1>8. /\ \A l \in Locks : has[l] # "none" =>
           \E i \in 1..n : i <= now /\ l \in s[i].rows /\ s[i].mode = has[l]
      /\ \A l \in Locks, i \in 1..n :
           /\ i < now /\ l \in s[i].rows => has[l] \in {s[i].mode, "exclusive"}
           /\ s[i].rows = {l} /\ has[l] \in {s[i].mode, "exclusive"} => i < now
  BY <1>1, <1>2, <1>3 DEF ByScript
<1>9. s[1].rows = {TheRow} /\ s[1].mode = "shared"
  BY <1>1 DEF SharedFirst
<1>10. has[TheRow] # "none"
  <2>1. CASE now = 1
    <3>1. PICK l \in Locks, i \in 1..n : has[l] # "none" /\ i <= now /\ l \in s[i].rows
      BY <1>7, <1>8
    <3>2. i = 1
      BY <1>2, <2>1, <3>1
    <3>3. QED
      BY <1>9, <3>1, <3>2
  <2>2. CASE 1 < now
    BY <1>2, <1>4, <1>8, <1>9, <2>2
  <2>3. QED
    BY <1>2, <1>3, <2>1, <2>2
<1>11. ASSUME NEW u \in Persons, has[<<"state", u>>] # "none"
       PROVE  Kind(t) \in {"receipt", "join"} /\ u = Person(t)
  <2>1. PICK i \in 1..n : <<"state", u>> \in s[i].rows
    BY <1>4, <1>8, <1>11
  <2>2. QED
    BY <1>2, <2>1, ScriptsShareFirst DEF s
<1>12. ASSUME Kind(t) = "receipt", now <= n
       PROVE  Wants(t) \subseteq {<<"state", Person(t)>>} /\ has[<<"state", Person(t)>>] = "none"
  <2>1. s = Receipt(Person(t)) /\ Person(t) \in Persons
    BY <1>12, ScriptsShareFirst DEF s
  <2>2. Len(s) = 2 /\ s[2].rows = {<<"state", Person(t)>>} /\ s[2].mode = "exclusive"
    BY <2>1 DEF Receipt, OwnState, Shared, Stage
  <2>3. 1 < now
    <3>1. PICK i \in 1..n : i <= now /\ TheRow \in s[i].rows /\ s[i].mode = has[TheRow]
      BY <1>4, <1>8, <1>10
    <3>2. i = 1
      BY <1>2, <2>1, <2>2, <3>1, LockSets
    <3>3. QED
      BY <1>2, <1>4, <1>8, <1>9, <3>1, <3>2
  <2>4. now = 2
    BY <1>2, <1>3, <1>12, <2>2, <2>3
  <2>5. has[<<"state", Person(t)>>] = "none"
    <3>1. SUFFICES ASSUME has[<<"state", Person(t)>>] # "none" PROVE FALSE
      OBVIOUS
    <3>2. PICK i \in 1..n : <<"state", Person(t)>> \in s[i].rows
                            /\ s[i].mode = has[<<"state", Person(t)>>]
      BY <1>4, <1>8, <2>1, <3>1
    <3>3. i = 2
      BY <1>2, <1>9, <2>1, <2>2, <3>2, LockSets
    <3>4. i < now
      BY <1>4, <1>8, <2>1, <2>2, <3>2, <3>3
    <3>5. QED
      BY <2>4, <3>3, <3>4
  <2>6. QED
    BY <1>6, <2>2, <2>4, <2>5
<1>13. QED
  BY <1>5, <1>6, <1>10, <1>11, <1>12 DEF has
\* A transaction that others wait for has a lock, and it runs one of the commands.
LEMMA WaitedFor ==
  ASSUME LocksInv, NEW t \in Txs, NEW other \in Txs, WaitsFor(other, t)
  PROVE  \E l \in Wants(other) : l \in Locks /\ held[t][l] # "none" /\ Has(t)
<1>1. PICK l \in Wants(other) : held[t][l] # "none"
  BY DEF WaitsFor, Blocks
<1>2. l \in Locks
  <2>1. WellMade(MyScript(other)) /\ tx[other].stage \in 1..Len(MyScript(other))
    BY MyScriptMade DEF LocksInv, ByScript, WaitsFor, Running, WellMade
  <2>2. QED
    BY <2>1 DEF Wants, WellMade
<1>3. QED
  BY <1>1, <1>2 DEF Has

LEMMA HasIsBusy ==
  ASSUME LocksInv, NEW t \in Txs, Has(t)
  PROVE  Kind(t) # "none"
<1>1. SUFFICES ASSUME Kind(t) = "none" PROVE FALSE
  OBVIOUS
<1>2. Len(MyScript(t)) = 0
  BY <1>1 DEF MyScript, Script
<1>3. QED
  BY <1>2 DEF LocksInv, ByScript, Has

LEMMA OnlySharing ==
  ASSUME LocksInv, NEW T \in SUBSET Txs, Entangled(T), NEW t \in T
  PROVE  /\ held[t][TheRow] = "shared" /\ Kind(t) \notin {"send", "clear"}
         /\ Kind(t) = "receipt" =>
              \E other \in T : Kind(other) = "join" /\ Person(other) = Person(t)
<1>1. \A o \in T : /\ o \in Txs /\ Running(o) /\ Has(o) /\ Kind(o) \notin {"none", "clear"}
                   /\ \E other \in T : other # o /\
                        \E l \in Wants(o) : l \in Locks /\ held[other][l] # "none"
  <2>1. TAKE o \in T
  <2>2. PICK other \in T : WaitsFor(o, other)
    BY DEF Entangled
  <2>3. PICK waiting \in T : WaitsFor(waiting, o)
    BY DEF Entangled
  <2>4. Running(o) /\ other # o
    BY <2>2 DEF WaitsFor
  <2>5. Has(o)
    BY <2>3, WaitedFor
  <2>6. \E l \in Wants(o) : l \in Locks /\ held[other][l] # "none"
    BY <2>2, WaitedFor
  <2>7. Kind(o) \notin {"none", "clear"}
    BY <2>4, <2>5, HasIsBusy, ClearLocks
  <2>8. QED
    BY <2>4, <2>5, <2>6, <2>7
<1>2. \A o \in T : held[o][TheRow] # "none"
  BY <1>1, SendLocks, OtherLocks
<1>3. \A o \in T, other \in T : o # other => held[other][TheRow] # "exclusive"
  BY <1>1, <1>2, LockSets DEF LocksInv, Exclusively
<1>4. \A o \in T : held[o][TheRow] = "shared"
  <2>1. TAKE o \in T
  <2>2. PICK other \in T : other # o
    BY <1>1
  <2>3. held[o][TheRow] \in {"none", "shared", "exclusive"}
    BY <1>1, LockSets DEF LocksInv, LocksTypeOK
  <2>4. QED
    BY <1>2, <1>3, <2>2, <2>3
<1>5. \A o \in T : Kind(o) # "send"
  BY <1>1, <1>4, SendLocks
<1>6. ASSUME Kind(t) = "receipt"
      PROVE  \E other \in T : Kind(other) = "join" /\ Person(other) = Person(t)
  <2>1. PICK other \in T, l \in Wants(t) : other # t /\ l \in Locks /\ held[other][l] # "none"
    BY <1>1
  <2>2. l = <<"state", Person(t)>>
    BY <1>1, <1>6, <2>1, OtherLocks
  <2>3. Person(t) \in Persons
    BY <1>1, <1>6, ScriptsShareFirst
  <2>4. Kind(other) \in {"receipt", "join"} /\ Person(other) = Person(t)
    BY <1>1, <1>5, <2>1, <2>2, <2>3, OtherLocks
  <2>5. Kind(other) # "receipt"
    BY <1>1, <2>1, <2>2, <2>3, <2>4, OtherLocks
  <2>6. QED
    BY <2>4, <2>5
<1>7. QED
  BY <1>1, <1>4, <1>5, <1>6

\* However many transactions wait in a circle, each has the conversation's row FOR SHARE and
\* wants more: none is a message or a clear, and one that marks messages read or delivered is
\* there only with a command by which the same user joins again (prisma-conversation,
\* prisma-message and prisma-group repositories).
THEOREM DeadlocksShare == LocksSpec => []DeadlocksShareTheRow
<1>1. LocksInv => DeadlocksShareTheRow
  BY OnlySharing DEF DeadlocksShareTheRow
<1>2. QED
  BY <1>1, LocksStart, LocksStep, PTL DEF LocksSpec
=============================================================================
