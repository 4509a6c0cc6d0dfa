--------------------------------- MODULE Pages ---------------------------------
(***************************************************************************)
(* Lists read page by page with an opaque cursor: the conversations of a   *)
(* user, the search for messages, and the lists of contacts, requests,     *)
(* blocks and members. Rows come, go and move between two pages.           *)
(*                                                                         *)
(* The database has its times in microseconds, JavaScript in milliseconds: *)
(* a cursor has the millisecond of the last row of its page.               *)
(***************************************************************************)
EXTENDS Integers, Sequences, FiniteSets, FiniteSetsExt

CONSTANTS
  MaxRow,     \* rows are named by their ids, 1..MaxRow
  PageSize,
  Precision,  \* microseconds of a millisecond
  MaxTime, MaxMoved  \* bounds of the model: the clock, rows changed during a walk

ASSUME PagesAssumption ==
  {MaxRow, MaxTime, MaxMoved} \subseteq Nat /\ {PageSize, Precision} \subseteq Nat \ {0}

VARIABLES
  list,  \* which list the client reads
  now,   \* the clock of the database
  row,   \* what the list is made from
  walk   \* the client that reads it

pagesVars == <<list, now, row, walk>>

Rows == 1..MaxRow
Lists == {"conversations", "search", "contacts", "members"}
Unpinned == -1

\* made: the row exists; shown: the list has it; pinned: pinned_rank, -1 without;
\* at: created_at, or last_message_at of a conversation that has one.
Row == [made : BOOLEAN, shown : BOOLEAN, pinned : {Unpinned} \cup Nat, at : Nat]

Keys == ({Unpinned} \cup Nat) \X Nat \X Rows

\* ends: the cursors so far; moved (history): rows changed since the walk began.
Walk ==
  [pc : {"idle", "paging", "done"}, ends : Seq(Keys), got : Seq(Rows), moved : SUBSET Rows]

PagesTypeOK ==
  /\ list \in Lists /\ now \in 0..MaxTime
  /\ row \in [Rows -> Row] /\ walk \in Walk
  /\ \A r \in Rows : row[r].at <= now /\ row[r].pinned <= now
  /\ Len(walk.ends) * PageSize <= Len(walk.got)

NoRow == [made |-> FALSE, shown |-> FALSE, pinned |-> Unpinned, at |-> 0]
NoWalk == [pc |-> "idle", ends |-> <<>>, got |-> <<>>, moved |-> {}]

PagesInit ==
  /\ list \in Lists /\ now = 0
  /\ row = [r \in Rows |-> NoRow] /\ walk = NoWalk

Milli(t) == t - (t % Precision)

\* A change of a row, before or during a walk.
Change(r, new) ==
  /\ walk.pc # "done" /\ r \notin walk.moved /\ Cardinality(walk.moved) < MaxMoved
  /\ row' = [row EXCEPT ![r] = new]
  /\ walk' = [walk EXCEPT !.moved = IF walk.pc = "idle" THEN {} ELSE @ \cup {r}]
  /\ UNCHANGED <<list, now>>

\* created_at, and last_message_at, is the start of the transaction.
Starts == {now} \cup {Max({0, now - 1})}

-----------------------------------------------------------------------------
(* Rows *)

Tick == now < MaxTime /\ now' = now + 1 /\ UNCHANGED <<list, row, walk>>

\* A conversation is opened, a message sent, a contact made; joined_at is a Date.
Create(r) ==
  /\ \/ ~row[r].made
     \/ list \in {"contacts", "members"} /\ ~row[r].shown
  /\ \E t \in Starts :
       Change(r, [made |-> TRUE, shown |-> TRUE, pinned |-> Unpinned,
                  at |-> IF list = "members" THEN Milli(t) ELSE t])

\* hide of a conversation or a message, clearHistory, deleteContact, unblock, leave.
Disappear(r) == row[r].shown /\ Change(r, [row[r] EXCEPT !.shown = FALSE])

\* sendText: the conversation is no longer hidden.
MessageArrives(r) ==
  /\ list = "conversations" /\ row[r].made
  /\ \E t \in Starts : Change(r, [row[r] EXCEPT !.at = Milli(t), !.shown = TRUE])

\* A system message leaves it hidden.
SystemMessage(r) ==
  /\ list = "conversations" /\ row[r].made
  /\ \E t \in Starts : Change(r, [row[r] EXCEPT !.at = Milli(t)])

\* updateSettings: the rank is the clock of the process.
Pin(r) ==
  /\ list = "conversations" /\ row[r].made
  /\ Change(r, [row[r] EXCEPT !.pinned = Milli(now)])

Unpin(r) ==
  /\ list = "conversations" /\ row[r].pinned # Unpinned
  /\ Change(r, [row[r] EXCEPT !.pinned = Unpinned])

-----------------------------------------------------------------------------
(* Pages *)

ConversationKeys == [r \in Rows |-> <<row[r].pinned, row[r].at, r>>]
CreationKeys == [r \in Rows |-> <<Unpinned, row[r].at, r>>]

\* Comparison of rows in SQL; no rank is below every rank.
Below(k, l) ==
  \/ k[1] < l[1]
  \/ k[1] = l[1] /\ k[2] < l[2]
  \/ k[1] = l[1] /\ k[2] = l[2] /\ k[3] < l[3]

\* The rows of a set, the highest key first.
Descending(S, key) ==
  CHOOSE s \in [1..Cardinality(S) -> S] :
    \A i, j \in DOMAIN s : i < j => Below(key[s[j]], key[s[i]])

\* The row that the cursor is of.
LastOf(found) == found[PageSize]

\* Mutant: no rank is rank 0 in a cursor.
CutUnranked(key) == <<Max({0, key[1]}), Milli(key[2]), key[3]>>

\* toISOString.
Cut(key) == <<key[1], Milli(key[2]), key[3]>>

\* A page of the rows below the cursor, and a cursor if there are more.
ReadPage(key) ==
  LET ends == walk.ends
      rest == {r \in Rows : row[r].shown /\ (ends # <<>> => Below(key[r], ends[Len(ends)]))}
      found == Descending(rest, key)
      more == Len(found) > PageSize
  IN /\ walk.pc # "done"
     /\ walk' = [walk EXCEPT
          !.pc = IF more THEN "paging" ELSE "done",
          !.ends = IF more THEN Append(@, Cut(key[LastOf(found)])) ELSE @,
          !.got = @ \o SubSeq(found, 1, IF more THEN PageSize ELSE Len(found))]
     /\ UNCHANGED <<list, now, row>>

ListConversations == list = "conversations" /\ ReadPage(ConversationKeys)

Search == list = "search" /\ ReadPage(CreationKeys)

\* Contacts; blocks, friend and join requests and users are read alike.
ListContacts == list = "contacts" /\ ReadPage(CreationKeys)

ListMembers == list = "members" /\ ReadPage(CreationKeys)

PagesNext ==
  \/ Tick \/ ListConversations \/ Search \/ ListContacts \/ ListMembers
  \/ \E r \in Rows : \/ Create(r) \/ Disappear(r) \/ MessageArrives(r)
                     \/ SystemMessage(r) \/ Pin(r) \/ Unpin(r)

PagesSpec == PagesInit /\ [][PagesNext]_pagesVars

-----------------------------------------------------------------------------
(* Properties *)

Untouched == {r \in Rows : row[r].shown} \ walk.moved
Got == {walk.got[i] : i \in DOMAIN walk.got}

\* No page repeats a row that nothing changed since the walk began, whatever comes,
\* goes and moves around it.
UntouchedListedOnce ==
  \A i, j \in DOMAIN walk.got : i < j /\ walk.got[i] = walk.got[j] => walk.got[i] \in walk.moved

\* A walk misses no row that nothing changed, but one of the same rank and of the
\* same millisecond as another that a page ended with; of members it misses none.
OnlyMillisecondsAreMissed ==
  walk.pc = "done" =>
    \A r \in Untouched \ Got :
      /\ list # "members"
      /\ \E i \in DOMAIN walk.ends :
           /\ walk.ends[i][1] = row[r].pinned
           /\ walk.ends[i][2] = Milli(row[r].at)
           /\ walk.ends[i][3] # r

\* A walk through a list is whole, within the limits above: the two together, as a
\* user would find them - nothing twice, and nothing that stood still left out.
ListsAreWhole == UntouchedListedOnce /\ OnlyMillisecondsAreMissed
=============================================================================
