------------------------------- MODULE SyncFeed -------------------------------
(***************************************************************************)
(* The sync feed of one user: the rows that SyncProjectionService inserts, *)
(* the pages and snapshots that SyncQueryService reads, and the SDK's      *)
(* SyncCoordinator, which applies a page and moves its cursor.             *)
(*                                                                         *)
(* Row ids come from one sequence for all users. An id is taken at the     *)
(* insert and the row is seen at the commit, which can be later than that  *)
(* of a higher id; an insert that conflicts or rolls back burns its id.    *)
(***************************************************************************)
EXTENDS Integers, FiniteSets, FiniteSetsExt

CONSTANTS
  Syncs,      \* calls of sync that can run at once in a client
  PageLimit,  \* rows a page can have
  MaxId       \* bound of the model: ids ever taken

ASSUME FeedAssumption == IsFiniteSet(Syncs) /\ PageLimit \in Nat \ {0} /\ MaxId \in Nat

VARIABLES
  taken,     \* the sequence
  inserted,  \* this user's rows whose transactions have not committed
  feed,      \* this user's rows in user_sync_events
  expired,   \* those whose expires_at has passed
  cursor,    \* the SDK's stored cursor
  seen,      \* the SDK's stored event ids
  applied,   \* rows whose event the client has applied, or got in a snapshot
  sync,      \* the calls of sync
  snapshot,  \* the data of a snapshot whose cursor is not read yet, or none
  passed     \* history: rows that no page could show the client any more

feedVars == <<taken, inserted, feed, expired, cursor, seen, applied, sync, snapshot, passed>>

Ids == 1..MaxId

SyncCall ==
  [pc : {"idle", "fetched", "applying", "seen"}, events : SUBSET Ids, upto : 0..MaxId,
   current : 0..MaxId, seen : SUBSET Ids]

FeedTypeOK ==
  /\ taken \in 0..MaxId /\ inserted \subseteq 1..taken /\ feed \subseteq 1..taken
  /\ expired \subseteq feed /\ cursor \in 0..taken
  /\ seen \subseteq feed /\ applied \subseteq feed /\ passed \subseteq feed
  /\ sync \in [Syncs -> SyncCall]
  /\ snapshot \in [open : BOOLEAN, data : SUBSET Ids]

NoSync == [pc |-> "idle", events |-> {}, upto |-> 0, current |-> 0, seen |-> {}]

NoSnapshot == [open |-> FALSE, data |-> {}]

FeedInit ==
  /\ taken = 0 /\ inserted = {} /\ feed = {} /\ expired = {}
  /\ cursor = 0 /\ seen = {} /\ applied = {} /\ passed = {}
  /\ sync = [c \in Syncs |-> NoSync] /\ snapshot = NoSnapshot

clientVars == <<cursor, seen, applied, sync, snapshot>>

-----------------------------------------------------------------------------
(* The projection *)

InsertRow ==
  /\ taken < MaxId /\ taken' = taken + 1
  /\ inserted' = inserted \cup {taken'}
  /\ UNCHANGED <<feed, expired, passed, clientVars>>

\* A row of another user, or an insert that finds its event projected.
BurnId ==
  /\ taken < MaxId /\ taken' = taken + 1
  /\ UNCHANGED <<inserted, feed, expired, passed, clientVars>>

\* The highest cursor that a page or snapshot under way or the client has.
HandedOut == Max({cursor} \cup {sync[c].upto : c \in Syncs} \cup {sync[c].current : c \in Syncs})

CommitRow(i) ==
  /\ i \in inserted /\ inserted' = inserted \ {i} /\ feed' = feed \cup {i}
  /\ passed' = IF i <= HandedOut THEN passed \cup {i} ELSE passed
  /\ UNCHANGED <<taken, expired, clientVars>>

RollBack(i) ==
  /\ i \in inserted /\ inserted' = inserted \ {i}
  /\ UNCHANGED <<taken, feed, expired, passed, clientVars>>

Retained == feed \ expired

\* Rows are given 90 days, the older ones first; no transaction lasts as long.
RowExpires ==
  /\ Retained # {} /\ \A i \in inserted : Min(Retained) < i
  /\ expired' = expired \cup {Min(Retained)}
  /\ UNCHANGED <<taken, inserted, feed, passed, clientVars>>

-----------------------------------------------------------------------------
(* SyncQueryService *)

\* SYNC_CURSOR_EXPIRED: a full sync is required.
TooOld(after) == after > 0 /\ Retained # {} /\ Min(Retained) > after + 1

PageAfter(after) ==
  LET rows == {i \in Retained : i > after}
  IN {i \in rows : Cardinality({j \in rows : j < i}) < PageLimit}

\* sync, listEvents. A client without a cursor is not told of rows that are gone.
Fetch(c) ==
  LET page == PageAfter(cursor)
      upto == Max(page \cup {cursor})
  IN /\ sync[c].pc = "idle" /\ ~TooOld(cursor)
     /\ sync' = [sync EXCEPT ![c] = [NoSync EXCEPT !.pc = "fetched", !.events = page,
                                                   !.upto = upto]]
     /\ passed' = IF cursor = 0 THEN passed \cup expired ELSE passed
     /\ UNCHANGED <<taken, inserted, feed, expired, cursor, seen, applied, snapshot>>

\* snapshot reads its data, and then the cursor. (The code returns the first 100 of each
\* list; the data here are those of an account that has no more.)
SnapshotData ==
  /\ ~snapshot.open /\ snapshot' = [open |-> TRUE, data |-> feed]
  /\ UNCHANGED <<taken, inserted, feed, expired, cursor, seen, applied, sync, passed>>

\* The client stores what it got and goes on from the cursor.
SnapshotCursor ==
  /\ snapshot.open /\ snapshot' = NoSnapshot
  /\ cursor' = Max(feed \cup {0})
  /\ applied' = applied \cup snapshot.data
  /\ passed' = passed \cup (feed \ snapshot.data)
  /\ UNCHANGED <<taken, inserted, feed, expired, seen, sync>>

-----------------------------------------------------------------------------
(* SyncCoordinator.applyResponse *)

Begin(c) ==
  /\ sync[c].pc = "fetched"
  /\ sync' = [sync EXCEPT ![c].pc = "applying", ![c].current = cursor, ![c].seen = seen]
  /\ UNCHANGED <<taken, inserted, feed, expired, cursor, seen, applied, snapshot, passed>>

\* The event is compared with the cursor the page began with.
Gap(c, i) == i > sync[c].current + 1 /\ sync[c].current # 0

Skip(c) ==
  LET i == Min(sync[c].events)
  IN /\ sync[c].pc = "applying" /\ sync[c].events # {} /\ i \in sync[c].seen
     /\ sync' = [sync EXCEPT ![c].events = @ \ {i}]
     /\ UNCHANGED <<taken, inserted, feed, expired, cursor, seen, applied, snapshot, passed>>

Apply(c) ==
  LET i == Min(sync[c].events)
  IN /\ sync[c].pc = "applying" /\ sync[c].events # {} /\ i \notin sync[c].seen /\ ~Gap(c, i)
     /\ applied' = applied \cup {i}
     /\ sync' = [sync EXCEPT ![c].events = @ \ {i}, ![c].seen = @ \cup {i}]
     /\ UNCHANGED <<taken, inserted, feed, expired, cursor, seen, snapshot, passed>>

\* SYNC_GAP_DETECTED: what was applied of the page is not remembered.
ThrowGap(c) ==
  LET i == Min(sync[c].events)
  IN /\ sync[c].pc = "applying" /\ sync[c].events # {} /\ i \notin sync[c].seen /\ Gap(c, i)
     /\ sync' = [sync EXCEPT ![c] = NoSync]
     /\ UNCHANGED <<taken, inserted, feed, expired, cursor, seen, applied, snapshot, passed>>

StoreSeen(c) ==
  /\ sync[c].pc = "applying" /\ sync[c].events = {}
  /\ seen' = sync[c].seen /\ sync' = [sync EXCEPT ![c].pc = "seen"]
  /\ UNCHANGED <<taken, inserted, feed, expired, cursor, applied, snapshot, passed>>

\* Mutant: the cursor is stored before the events are applied.
StoreCursorFirst(c) ==
  /\ sync[c].pc = "applying"
  /\ cursor' = Max({sync[c].current, sync[c].upto})
  /\ sync' = [sync EXCEPT ![c].pc = IF sync[c].events = {} THEN "seen" ELSE "applying"]
  /\ UNCHANGED <<taken, inserted, feed, expired, seen, applied, snapshot, passed>>

\* Mutant: the cursor moves by the page's limit.
StoreCursorAhead(c) ==
  /\ sync[c].pc = "seen"
  /\ cursor' = sync[c].current + PageLimit
  /\ sync' = [sync EXCEPT ![c] = NoSync]
  /\ UNCHANGED <<taken, inserted, feed, expired, seen, applied, snapshot, passed>>

StoreCursor(c) ==
  /\ sync[c].pc = "seen"
  /\ cursor' = Max({sync[c].current, sync[c].upto})
  /\ sync' = [sync EXCEPT ![c] = NoSync]
  /\ UNCHANGED <<taken, inserted, feed, expired, seen, applied, snapshot, passed>>

\* The application is closed, or its request or applier fails.
SyncFails(c) ==
  /\ sync[c].pc # "idle" /\ sync' = [sync EXCEPT ![c] = NoSync]
  /\ UNCHANGED <<taken, inserted, feed, expired, cursor, seen, applied, snapshot, passed>>

SyncStep(c) ==
  Fetch(c) \/ Begin(c) \/ Skip(c) \/ Apply(c) \/ ThrowGap(c) \/ StoreSeen(c) \/ StoreCursor(c)

FeedNext ==
  \/ InsertRow \/ BurnId \/ RowExpires \/ SnapshotData \/ SnapshotCursor
  \/ \E i \in inserted : CommitRow(i) \/ RollBack(i)
  \/ \E c \in Syncs : SyncStep(c) \/ SyncFails(c)

FeedSpec == FeedInit /\ [][FeedNext]_feedVars

\* A client that syncs again and again, and takes a snapshot when it is told to; its
\* requests and its storage do not fail every time.
FairFeedSpec ==
  /\ FeedSpec
  /\ WF_feedVars(TooOld(cursor) /\ SnapshotData) /\ WF_feedVars(SnapshotCursor)
  /\ \A c \in Syncs : /\ WF_feedVars(Fetch(c)) /\ SF_feedVars(Begin(c)) /\ SF_feedVars(Skip(c))
                        /\ SF_feedVars(Apply(c)) /\ SF_feedVars(ThrowGap(c))
                        /\ SF_feedVars(StoreSeen(c)) /\ SF_feedVars(StoreCursor(c))

-----------------------------------------------------------------------------
(* Properties *)

\* A row below the client's cursor has been applied, unless no page could show it:
\* it committed after a higher id was handed out, or between the two reads of a
\* snapshot, or it was gone before the client first came. Closing the client,
\* failing pages and calls that run at once lose nothing.
NothingSkipped == \A i \in feed : i <= cursor => i \in applied \cup passed

\* Every row is applied in the end, unless it is gone or was passed over.
CatchesUp == \A i \in Ids : i \in feed ~> i \in applied \cup expired \cup passed
=============================================================================
