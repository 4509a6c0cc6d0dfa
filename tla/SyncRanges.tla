------------------------------- MODULE SyncRanges -------------------------------
(***************************************************************************)
(* POST /sync of one user over the messages of several conversations:      *)
(* SyncQueryService.sync, findMissingRanges and messageRange, which give   *)
(* a client the rows of its feed and the messages in between that it lacks. *)
(*                                                                         *)
(* The events of messages are projected in any order and at any time after *)
(* their commit. The page, and each range, are read by statements of their *)
(* own, between which memberships, clears and hides change.                *)
(***************************************************************************)
EXTENDS Integers, Sequences, FiniteSets, FiniteSetsExt

CONSTANTS
  Chats,                   \* the conversations of the user
  EventLimit, RangeLimit,  \* rows of a page, messages of a range
  MaxPosted                \* bound of the model: messages ever posted

ASSUME RangesAssumption ==
  /\ IsFiniteSet(Chats)
  /\ EventLimit \in Nat \ {0} /\ RangeLimit \in Nat \ {0} /\ MaxPosted \in Nat

VARIABLES
  last,    \* conversations.last_seq
  member,  \* whether the user is an active member
  clear,   \* the user's clear_before_seq
  hides,   \* message_user_hides of the user
  due,     \* messages whose event is still to be projected to the user's feed
  rows,    \* the message.created rows of the feed, in the order of their ids
  userSyncCursor,  \* the client's cursor, as a position in rows
  syncing  \* the client's request under way

chatVars == <<last, member, clear, hides>>
rangesVars == <<chatVars, due, rows, userSyncCursor, syncing>>

Messages == Chats \X (1..MaxPosted)

Posted == {m \in Messages : m[2] <= last[m[1]]}

\* given is lastSeq, todo the conversations whose range is still to be read, more
\* those whose range has more; back (history) those that the user joined again.
Syncing ==
  [pc : {"idle", "listed"}, upto : Nat, given : [Chats -> Nat], before : [Chats -> Nat],
   todo : SUBSET Chats, ranges : SUBSET Messages, more : SUBSET Chats, back : SUBSET Chats]

NotSyncing ==
  [pc |-> "idle", upto |-> 0, given |-> [c \in Chats |-> 0], before |-> [c \in Chats |-> 0],
   todo |-> {}, ranges |-> {}, more |-> {}, back |-> {}]

RangesTypeOK ==
  /\ last \in [Chats -> 0..MaxPosted] /\ member \in [Chats -> BOOLEAN]
  /\ clear \in [Chats -> 0..MaxPosted] /\ hides \subseteq Messages
  /\ due \subseteq Messages /\ rows \in Seq(Messages \ due) /\ userSyncCursor \in 0..Len(rows)
  /\ syncing \in Syncing
  /\ syncing.ranges \subseteq {m \in Messages : m[2] < syncing.before[m[1]]}

RangesInit ==
  /\ last = [c \in Chats |-> 0] /\ member = [c \in Chats |-> TRUE]
  /\ clear = [c \in Chats |-> 0] /\ hides = {}
  /\ due = {} /\ rows = <<>> /\ userSyncCursor = 0 /\ syncing = NotSyncing

-----------------------------------------------------------------------------
(* Conversations *)

\* A message takes the next seq; told: the user is in its audience.
PostedIn(c, told) ==
  /\ Cardinality(Posted) < MaxPosted
  /\ last' = [last EXCEPT ![c] = @ + 1]
  /\ due' = due \cup (IF told THEN {<<c, last'[c]>>} ELSE {})

Post(c) ==
  /\ PostedIn(c, member[c])
  /\ UNCHANGED <<member, clear, hides, rows, userSyncCursor, syncing>>

\* remove tells the removed user.
RemoveMember(c) ==
  /\ member[c] /\ member' = [member EXCEPT ![c] = FALSE] /\ PostedIn(c, TRUE)
  /\ UNCHANGED <<clear, hides, rows, userSyncCursor, syncing>>

Leave(c) ==
  /\ member[c] /\ member' = [member EXCEPT ![c] = FALSE] /\ PostedIn(c, FALSE)
  /\ UNCHANGED <<clear, hides, rows, userSyncCursor, syncing>>

\* addMember: the view of the conversation is new.
JoinAgain(c) ==
  /\ ~member[c] /\ member' = [member EXCEPT ![c] = TRUE] /\ PostedIn(c, TRUE)
  /\ clear' = [clear EXCEPT ![c] = 0]
  /\ syncing' = [syncing EXCEPT !.back = IF syncing.pc = "idle" THEN {} ELSE @ \cup {c}]
  /\ UNCHANGED <<hides, rows, userSyncCursor>>

\* clearHistory, by the last_seq that it read.
ClearHistory(c) ==
  /\ member[c]
  /\ \E n \in (clear[c] + 1)..last[c] : clear' = [clear EXCEPT ![c] = n]
  /\ UNCHANGED <<last, member, hides, due, rows, userSyncCursor, syncing>>

HideMessage(c, n) ==
  /\ member[c] /\ n <= last[c] /\ hides' = hides \cup {<<c, n>>}
  /\ UNCHANGED <<last, member, clear, due, rows, userSyncCursor, syncing>>

\* Mutant: no unique key on the user and the event.
ProjectAgain(m) ==
  /\ rows' = Append(rows, m)
  /\ UNCHANGED <<chatVars, due, userSyncCursor, syncing>>

ProjectRow(m) ==
  /\ due' = due \ {m} /\ rows' = Append(rows, m)
  /\ UNCHANGED <<chatVars, userSyncCursor, syncing>>

-----------------------------------------------------------------------------
(* SyncQueryService *)

\* listEvents: the rows after the cursor, up to the limit.
PageEnd == Min({userSyncCursor + EventLimit, Len(rows)})
Events(first, end) == {rows[i] : i \in first..end}

\* The seqs of a page that do not follow the client's last one.
Gaps(c, events, after) == {n \in (after + 2)..MaxPosted : <<c, n>> \in events}

\* findMissingRanges: where the range of a conversation ends; 0 if it needs none.
GapEnd(c, events, after) == Max({0} \cup Gaps(c, events, after))

\* sync, up to the ranges that it has to read. A client may send none of its last seqs.
ListEvents(given) ==
  LET before == [c \in Chats |-> GapEnd(c, Events(userSyncCursor + 1, PageEnd), given[c])]
  IN /\ syncing.pc = "idle" /\ \A c \in Chats : given[c] <= last[c]
     /\ syncing' = [NotSyncing EXCEPT !.pc = "listed", !.upto = PageEnd, !.given = given,
                                      !.before = before, !.todo = {c \in Chats : before[c] > 0}]
     /\ UNCHANGED <<chatVars, due, rows, userSyncCursor>>

\* The messages that the user may see, in a range.
InRange(c, after, before) ==
  {m \in ({c} \X ((after + 1)..(before - 1))) :
     m[2] <= last[c] /\ m[2] > clear[c] /\ m \notin hides}

\* Mutant: the latest messages of the range, as history gives them.
Latest(found) == {m \in found : Cardinality({o \in found : o[2] > m[2]}) < RangeLimit}

First(found) == {m \in found : Cardinality({o \in found : o[2] < m[2]}) < RangeLimit}

\* messageRange.
ReadRange(c) ==
  LET found == InRange(c, syncing.given[c], syncing.before[c])
      taken == First(found)
  IN /\ c \in syncing.todo /\ member[c]
     /\ syncing' = [syncing EXCEPT !.todo = @ \ {c}, !.ranges = @ \cup taken,
                                   !.more = IF taken # found THEN @ \cup {c} ELSE @]
     /\ UNCHANGED <<chatVars, due, rows, userSyncCursor>>

\* CONVERSATION_NOT_FOUND: the whole request fails.
RefuseRange(c) ==
  /\ c \in syncing.todo /\ ~member[c]
  /\ syncing' = NotSyncing
  /\ UNCHANGED <<chatVars, due, rows, userSyncCursor>>

\* Mutant: an answer with ranges does not move the cursor.
AnswerInPart ==
  /\ syncing.pc = "listed" /\ syncing.todo = {}
  /\ userSyncCursor' = IF syncing.ranges = {} THEN syncing.upto ELSE userSyncCursor
  /\ syncing' = NotSyncing
  /\ UNCHANGED <<chatVars, due, rows>>

\* The client applies the answer and goes on from its cursor.
AnswerSync ==
  /\ syncing.pc = "listed" /\ syncing.todo = {}
  /\ userSyncCursor' = syncing.upto /\ syncing' = NotSyncing
  /\ UNCHANGED <<chatVars, due, rows>>

RangesNext ==
  \/ \E c \in Chats :
       \/ Post(c) \/ RemoveMember(c) \/ Leave(c) \/ JoinAgain(c) \/ ClearHistory(c)
       \/ \E n \in 1..last[c] : HideMessage(c, n)
       \/ ReadRange(c) \/ RefuseRange(c)
  \/ \E m \in due : ProjectRow(m)
  \/ \E given \in [Chats -> 0..MaxPosted] : ListEvents(given)
  \/ AnswerSync

\* The client syncs again and again, and every statement of a request ends.
RangesFairness ==
  /\ WF_rangesVars(\E given \in [Chats -> 0..MaxPosted] : ListEvents(given))
  /\ WF_rangesVars(\E c \in Chats : ReadRange(c) \/ RefuseRange(c))
  /\ WF_rangesVars(AnswerSync)

RangesSpec == RangesInit /\ [][RangesNext]_rangesVars /\ RangesFairness

-----------------------------------------------------------------------------
(* Properties *)

Listed == Events(userSyncCursor + 1, syncing.upto)

\* An answer leaves no gap below the events it has: whatever the user may see between
\* the client's last seq and an event is in the page, in a range, or beyond the end
\* of a range that says it has more - whichever events are projected first, and
\* whatever is cleared or hidden meanwhile. (A user who joins again is shown more.)
AnswersLeaveNoGap ==
  syncing.pc = "listed" /\ syncing.todo = {} =>
    \A e \in Listed : e[1] \notin syncing.back =>
      \A m \in InRange(e[1], syncing.given[e[1]], e[2]) \ (Listed \cup syncing.ranges) :
        /\ m[1] \in syncing.more
        /\ \A r \in syncing.ranges : r[1] = m[1] => r[2] < m[2]

\* A client that syncs again and again gets every row of its feed, provided that its
\* user ends up a member of every conversation.
RowsReachMembers ==
  <>[](\A c \in Chats : member[c]) =>
    \A n \in 1..MaxPosted : (Len(rows) >= n) ~> (userSyncCursor >= n)
=============================================================================
