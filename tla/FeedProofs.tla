------------------------------- MODULE FeedProofs -------------------------------
(***************************************************************************)
(* What a client reads in parts, for any number of rows, calls, pages and  *)
(* conversations: below the cursor of the feed everything was applied or   *)
(* passed over, POST /sync leaves no gap, and a list read page by page     *)
(* holds what stayed in it once.                                           *)
(***************************************************************************)
EXTENDS SyncFeed, SyncRanges, Pages, FiniteSetTheorems, SequenceTheorems, TLAPS

-----------------------------------------------------------------------------
(* The least and the greatest of a set of naturals.                        *)

LEMMA HasMin ==
  ASSUME NEW S \in SUBSET Nat, S # {}
  PROVE  Min(S) \in S /\ \A y \in S : Min(S) <= y
<1>1. \E x \in S : \A y \in S : ~(<<y, x>> \in OpToRel(<, Nat))
  BY NatLessThanWellFounded, WFMin, Zenon
<1>2. PICK x \in S : \A y \in S : ~(<<y, x>> \in OpToRel(<, Nat))
  BY <1>1, Zenon
<1>3. \A y \in S : ~(y < x)
  <2> SUFFICES ASSUME NEW y \in S, y < x PROVE FALSE
    OBVIOUS
  <2>1. <<y, x>> \in OpToRel(<, Nat)
    BY Zenon DEF OpToRel
  <2>2. QED
    BY <1>2, <2>1, Zenon
<1>4. \A y \in S : x <= y
  BY <1>3
<1>5. QED
  BY <1>4, Zenon DEF Min

LEMMA HasMax ==
  ASSUME NEW S \in SUBSET Nat, S # {}, NEW n \in Nat, \A y \in S : y <= n
  PROVE  Max(S) \in S /\ \A y \in S : y <= Max(S)
<1> DEFINE T == {n - x : x \in S}
<1>1. T \in SUBSET Nat
  <2>1. \A x \in S : n - x \in Nat
    OBVIOUS
  <2>2. QED
    BY <2>1
<1>2. T # {}
  OBVIOUS
<1>3. PICK m \in T : \A y \in T : m <= y
  BY <1>1, <1>2, HasMin
<1>4. PICK x \in S : m = n - x
  BY <1>3
<1>5. \A y \in S : x >= y
  <2> TAKE y \in S
  <2>1. n - x <= n - y
    BY <1>3, <1>4
  <2>2. QED
    BY <2>1
<1>6. \E z \in S : \A y \in S : z >= y
  BY <1>5
<1>7. Max(S) \in S /\ \A y \in S : Max(S) >= y
  BY <1>6, Zenon DEF Max
<1>8. QED
  BY <1>7

-----------------------------------------------------------------------------
(* What holds in every state.                                              *)

\* A call knows of its page what has to be applied before the cursor may move.
CallSound(c) ==
  /\ sync[c] \in SyncCall
  /\ sync[c].upto <= taken /\ sync[c].current <= taken
  /\ sync[c].events \subseteq feed /\ sync[c].seen \subseteq applied
  /\ sync[c].pc = "seen" => sync[c].events = {}
  /\ \A i \in feed : i <= sync[c].upto => i \in applied \cup passed \cup sync[c].events
  /\ \A i \in feed : i <= sync[c].current => i \in applied \cup passed

\* Rows expire from the oldest on.
OldestFirst == \A j \in expired : \A i \in inserted \cup Retained : j < i

FeedSound ==
  /\ FeedTypeOK /\ NothingSkipped /\ OldestFirst
  /\ seen \subseteq applied /\ snapshot.data \subseteq feed /\ inserted \cap feed = {}
  /\ \A c \in Syncs : CallSound(c)

LEMMA FeedNumbers ==
  ASSUME FeedTypeOK
  PROVE  /\ MaxId \in Nat /\ PageLimit \in Nat \ {0} /\ taken \in Nat /\ taken <= MaxId
         /\ cursor \in Nat /\ cursor <= taken
         /\ feed \in SUBSET Nat /\ \A i \in feed \cup inserted : i \in Nat /\ 0 < i /\ i <= taken
         /\ Retained \in SUBSET Nat /\ Retained \subseteq feed
  BY FeedAssumption DEF FeedTypeOK, Retained

LEMMA CallNumbers ==
  ASSUME NEW c, sync[c] \in SyncCall
  PROVE  /\ sync[c].upto \in Nat /\ sync[c].current \in Nat
         /\ sync[c].events \in SUBSET Nat
  BY FeedAssumption DEF SyncCall, Ids

LEMMA IdleSound ==
  ASSUME FeedTypeOK', NEW c, sync'[c] = NoSync
  PROVE  CallSound(c)'
<1>1. NoSync \in SyncCall
  BY FeedAssumption DEF NoSync, SyncCall
<1>2. QED
  BY <1>1, FeedAssumption DEF FeedTypeOK, CallSound, NoSync

\* A call that does not move stays sound while the tables grow, if a new row is beyond
\* what it has in hand.
LEMMA CallStays ==
  ASSUME FeedSound, NEW c \in Syncs, sync'[c] = sync[c],
         taken \in Nat, taken' \in Nat, taken <= taken',
         feed' \in SUBSET Nat, feed \subseteq feed', applied \subseteq applied',
         passed \subseteq passed',
         \A i \in feed' \ feed :
           i \in passed' \/ (i > sync[c].upto /\ i > sync[c].current)
  PROVE  CallSound(c)'
<1>1. CallSound(c)
  BY DEF FeedSound
<1>2. sync[c].upto \in Nat /\ sync[c].current \in Nat
  BY <1>1, CallNumbers DEF CallSound
<1>3. ASSUME NEW i \in feed', i \notin feed, i <= sync[c].upto \/ i <= sync[c].current
      PROVE  i \in passed'
  <2>1. i \in Nat /\ (i \in passed' \/ (i > sync[c].upto /\ i > sync[c].current))
    BY <1>3
  <2>2. CASE i > sync[c].upto /\ i > sync[c].current
    BY <1>2, <1>3, <2>1, <2>2
  <2>3. QED
    BY <2>1, <2>2
<1>4. ASSUME NEW i \in feed', i <= sync[c].upto
      PROVE  i \in applied' \cup passed' \cup sync[c].events
  BY <1>1, <1>3, <1>4 DEF CallSound
<1>5. ASSUME NEW i \in feed', i <= sync[c].current PROVE i \in applied' \cup passed'
  BY <1>1, <1>3, <1>5 DEF CallSound
<1>6. sync[c].upto <= taken' /\ sync[c].current <= taken'
  BY <1>1, <1>2 DEF CallSound
<1>7. QED
  BY <1>1, <1>4, <1>5, <1>6, Zenon DEF CallSound

\* The same for a step that leaves every call alone.
LEMMA CallsStay ==
  ASSUME FeedSound, sync' = sync, FeedTypeOK', taken <= taken',
         feed \subseteq feed', applied \subseteq applied', passed \subseteq passed',
         \A i \in feed' \ feed : \A c \in Syncs :
           i \in passed' \/ (i > sync[c].upto /\ i > sync[c].current)
  PROVE  \A c \in Syncs : CallSound(c)'
<1>1. taken \in Nat /\ taken' \in Nat /\ feed' \in SUBSET Nat
  BY FeedNumbers, FeedAssumption DEF FeedSound, FeedTypeOK
<1>2. QED
  BY <1>1, CallStays

-----------------------------------------------------------------------------
(* The projection's steps.                                                 *)

LEMMA HandedOutBounds ==
  ASSUME FeedSound
  PROVE  /\ HandedOut \in Nat /\ cursor <= HandedOut
         /\ \A c \in Syncs : sync[c].upto <= HandedOut /\ sync[c].current <= HandedOut
<1> DEFINE S == {cursor} \cup {sync[c].upto : c \in Syncs} \cup {sync[c].current : c \in Syncs}
<1>1. taken \in Nat /\ cursor \in Nat /\ cursor <= taken
  BY FeedNumbers DEF FeedSound
<1>2. \A c \in Syncs : /\ sync[c].upto \in Nat /\ sync[c].upto <= taken
                       /\ sync[c].current \in Nat /\ sync[c].current <= taken
  BY CallNumbers DEF FeedSound, CallSound
<1>3. S \in SUBSET Nat /\ S # {} /\ \A y \in S : y <= taken
  BY <1>1, <1>2
<1>4. HandedOut = Max(S)
  BY DEF HandedOut
<1> HIDE DEF S
<1>5. HandedOut \in S /\ \A y \in S : y <= HandedOut
  BY <1>1, <1>3, <1>4, HasMax
<1>6. QED
  BY <1>3, <1>5 DEF S

LEMMA CommitSound ==
  ASSUME FeedSound, NEW i \in inserted, CommitRow(i)
  PROVE  FeedSound'
<1>1. /\ inserted' = inserted \ {i} /\ feed' = feed \cup {i}
      /\ passed' = IF i <= HandedOut THEN passed \cup {i} ELSE passed
      /\ UNCHANGED <<taken, expired, cursor, seen, applied, sync, snapshot>>
  BY DEF CommitRow, clientVars
<1>2. FeedTypeOK'
  BY <1>1 DEF FeedSound, FeedTypeOK
<1>3. i \in Nat /\ i \notin feed
  BY FeedNumbers DEF FeedSound
<1>4. i \in passed' \/ (i > cursor /\ \A c \in Syncs : i > sync[c].upto /\ i > sync[c].current)
  BY <1>1, <1>3, HandedOutBounds, FeedNumbers, CallNumbers DEF FeedSound, CallSound
<1>5. \A c \in Syncs : CallSound(c)'
  BY <1>1, <1>2, <1>4, CallsStay, FeedNumbers DEF FeedSound
<1>6. NothingSkipped'
  BY <1>1, <1>3, <1>4, FeedNumbers DEF FeedSound, NothingSkipped
<1>7. OldestFirst'
  BY <1>1, <1>3 DEF FeedSound, FeedTypeOK, OldestFirst, Retained
<1>8. QED
  BY <1>1, <1>2, <1>5, <1>6, <1>7 DEF FeedSound

LEMMA ProjectionSound ==
  ASSUME FeedSound,
         InsertRow \/ BurnId \/ RowExpires \/ \E i \in inserted : RollBack(i)
  PROVE  FeedSound'
<1> /\ feed' = feed /\ cursor' = cursor /\ seen' = seen /\ applied' = applied
    /\ sync' = sync /\ snapshot' = snapshot /\ passed' = passed
  BY DEF InsertRow, BurnId, RowExpires, RollBack, clientVars
<1> taken \in Nat /\ MaxId \in Nat
  BY FeedNumbers DEF FeedSound
<1>1. taken <= taken' /\ FeedTypeOK'
  <2>1. taken <= taken' /\ taken' <= MaxId /\ taken' \in Nat
    BY DEF InsertRow, BurnId, RowExpires, RollBack, FeedSound, FeedTypeOK
  <2>2. 1..taken \subseteq 1..taken'
    BY <2>1
  <2>3. inserted' \subseteq 1..taken'
    <3>1. inserted' \subseteq inserted \/ (inserted' = inserted \cup {taken'} /\ 0 < taken')
      BY DEF InsertRow, BurnId, RowExpires, RollBack
    <3>2. inserted \subseteq 1..taken
      BY DEF FeedSound, FeedTypeOK
    <3>3. 0 < taken' => taken' \in 1..taken'
      BY <2>1
    <3>4. QED
      BY <2>2, <3>1, <3>2, <3>3
  <2>4. expired' \subseteq feed
    <3>1. \/ expired' = expired
          \/ Retained # {} /\ expired' = expired \cup {Min(Retained)}
      BY DEF InsertRow, BurnId, RowExpires, RollBack
    <3>2. Retained # {} => Min(Retained) \in feed
      BY FeedNumbers, HasMin DEF FeedSound
    <3>3. expired \subseteq feed
      BY DEF FeedSound, FeedTypeOK
    <3>4. QED
      BY <3>1, <3>2, <3>3
  <2>5. QED
    BY <2>1, <2>2, <2>3, <2>4 DEF FeedSound, FeedTypeOK
<1>2. \A c \in Syncs : CallSound(c)'
  BY <1>1, CallsStay
<1>3. OldestFirst' /\ inserted' \cap feed = {}
  <2>1. CASE InsertRow
    <3>1. /\ inserted' = inserted \cup {taken + 1} /\ expired' = expired
      BY <2>1 DEF InsertRow
    <3>2. \A j \in feed : j \in Nat /\ j <= taken
      BY FeedNumbers DEF FeedSound
    <3>3. expired \subseteq feed
      BY DEF FeedSound, FeedTypeOK
    <3>4. \A j \in expired : j \in Nat /\ j < taken + 1
      BY <3>2, <3>3
    <3>5. Retained' = Retained
      BY <3>1 DEF Retained
    <3>6. QED
      BY <3>1, <3>2, <3>4, <3>5 DEF FeedSound, OldestFirst
  <2>2. CASE RowExpires
    <3> DEFINE m == Min(Retained)
    <3>1. m \in Retained /\ \A y \in Retained : m <= y
      BY <2>2, FeedNumbers, HasMin DEF RowExpires, FeedSound
    <3>2. expired' = expired \cup {m} /\ inserted' = inserted /\ \A i \in inserted : m < i
      BY <2>2 DEF RowExpires
    <3>3. Retained \in SUBSET Nat
      BY FeedNumbers DEF FeedSound
    <3>4. Retained' = Retained \ {m}
      BY <3>2 DEF Retained
    <3> HIDE DEF m
    <3>5. \A y \in Retained' : m < y
      BY <3>1, <3>3, <3>4
    <3>6. QED
      BY <3>2, <3>4, <3>5 DEF FeedSound, OldestFirst
  <2>3. CASE BurnId \/ \E i \in inserted : RollBack(i)
    BY <2>3 DEF BurnId, RollBack, FeedSound, OldestFirst, Retained
  <2>4. QED
    BY <2>1, <2>2, <2>3
<1>4. NothingSkipped'
  BY DEF FeedSound, NothingSkipped
<1>5. QED
  BY <1>1, <1>2, <1>3, <1>4 DEF FeedSound

-----------------------------------------------------------------------------
(* Pages and snapshots.                                                    *)

\* Without a row gone in between, a page has what lies between its two cursors.
LEMMA PageHasAll ==
  ASSUME FeedSound, ~TooOld(cursor), NEW upto, upto = Max(PageAfter(cursor) \cup {cursor})
  PROVE  /\ PageAfter(cursor) \subseteq Retained /\ upto \in Nat /\ upto <= taken
         /\ \A i \in feed : cursor < i /\ i <= upto =>
              i \in PageAfter(cursor) \/ (cursor = 0 /\ i \in expired)
<1> DEFINE page == PageAfter(cursor)
           visible == {i \in Retained : i > cursor}
<1>1. /\ taken \in Nat /\ cursor \in Nat /\ cursor <= taken /\ PageLimit \in Nat
      /\ Retained \in SUBSET Nat /\ feed \in SUBSET Nat /\ \A i \in feed : i <= taken
      /\ Retained \subseteq feed
  BY FeedNumbers DEF FeedSound
<1>2. page = {i \in visible : Cardinality({j \in visible : j < i}) < PageLimit}
  BY DEF PageAfter
<1>3. page \subseteq visible /\ visible \subseteq Retained
  BY <1>2
<1> visible \subseteq Nat
  BY <1>1
<1> HIDE DEF page, visible
<1>4. page \cup {cursor} \in SUBSET Nat /\ \A i \in page \cup {cursor} : i <= taken
  BY <1>1, <1>3
<1>5. upto \in page \cup {cursor} /\ upto \in Nat /\ upto <= taken
  BY <1>1, <1>4, HasMax DEF page
<1>6. ASSUME NEW i \in Retained, cursor < i, i <= upto PROVE i \in page
  <2>1. upto \in page /\ i \in visible /\ i \in Nat /\ upto \in visible
    <3>1. i \in Nat /\ i > cursor /\ upto # cursor
      BY <1>1, <1>5, <1>6
    <3>2. i \in visible
      BY <1>6, <3>1 DEF visible
    <3>3. QED
      BY <1>3, <1>5, <3>1, <3>2
  <2>2. IsFiniteSet({j \in visible : j < upto})
    <3>1. \A j \in visible : j < upto => j \in Nat /\ j <= upto
      BY <1>5
    <3>2. {j \in visible : j < upto} \in SUBSET Nat
      BY <3>1
    <3>3. QED
      BY <1>5, <3>1, <3>2, FS_BoundedSetOfNaturals
  <2>3. {j \in visible : j < i} \in SUBSET {j \in visible : j < upto}
    <3>1. \A j \in visible : j < i => j < upto
      BY <1>5, <1>6, <2>1
    <3>2. QED
      BY <3>1
  <2>4. /\ IsFiniteSet({j \in visible : j < i})
        /\ Cardinality({j \in visible : j < i}) <= Cardinality({j \in visible : j < upto})
    BY <2>2, <2>3, FS_Subset
  <2>5. /\ Cardinality({j \in visible : j < i}) \in Nat
        /\ Cardinality({j \in visible : j < upto}) \in Nat
    BY <2>2, <2>4, FS_CardinalityType
  <2>6. Cardinality({j \in visible : j < upto}) < PageLimit
    BY <1>2, <2>1
  <2>7. Cardinality({j \in visible : j < i}) < PageLimit
    BY <1>1, <2>4, <2>5, <2>6
  <2>8. QED
    BY <1>2, <2>1, <2>7
<1>7. ASSUME NEW i \in expired, cursor < i, i <= upto PROVE cursor = 0
  <2>1. SUFFICES ASSUME cursor # 0 PROVE FALSE
    OBVIOUS
  <2>2. upto \in page /\ i \in Nat
    BY <1>1, <1>5, <1>7 DEF FeedSound, FeedTypeOK
  <2>3. Retained # {}
    BY <1>3, <2>2
  <2>4. Min(Retained) \in Retained /\ Min(Retained) <= cursor + 1
    <3>1. Min(Retained) \in Retained
      BY <1>1, <2>3, HasMin
    <3>2. ~(Min(Retained) > cursor + 1)
      BY <1>1, <2>1, <2>3 DEF TooOld
    <3>3. Min(Retained) \in Nat
      BY <1>1, <3>1
    <3>4. QED
      BY <1>1, <3>1, <3>2, <3>3
  <2>5. i < Min(Retained) /\ Min(Retained) \in Nat
    BY <1>1, <1>7, <2>4 DEF FeedSound, OldestFirst
  <2>6. QED
    BY <1>1, <1>7, <2>2, <2>4, <2>5
<1>8. \A i \in feed : i \in Retained \/ i \in expired
  BY DEF Retained
<1>9. QED
  BY <1>3, <1>5, <1>6, <1>7, <1>8 DEF page

LEMMA FetchSound ==
  ASSUME FeedSound, NEW c \in Syncs, Fetch(c)
  PROVE  FeedSound'
<1> DEFINE page == PageAfter(cursor)
           upto == Max(page \cup {cursor})
           call == [NoSync EXCEPT !.pc = "fetched", !.events = page, !.upto = upto]
<1>1. /\ ~TooOld(cursor) /\ sync' = [sync EXCEPT ![c] = call]
      /\ passed' = IF cursor = 0 THEN passed \cup expired ELSE passed
      /\ taken' = taken /\ inserted' = inserted /\ feed' = feed /\ expired' = expired
      /\ cursor' = cursor /\ seen' = seen /\ applied' = applied /\ snapshot' = snapshot
  BY DEF Fetch
<1>2. /\ page \subseteq Retained /\ upto \in Nat /\ upto <= taken
      /\ \A i \in feed : cursor < i /\ i <= upto =>
           i \in page \/ (cursor = 0 /\ i \in expired)
  BY <1>1, PageHasAll
<1>3. /\ taken \in Nat /\ taken <= MaxId /\ MaxId \in Nat /\ feed \in SUBSET Nat
      /\ feed \subseteq Ids /\ Retained \subseteq feed /\ cursor \in Nat
  BY FeedNumbers DEF FeedSound, Ids
<1> HIDE DEF page, upto
<1>4. /\ call \in SyncCall /\ call.pc = "fetched" /\ call.events = page
      /\ call.upto = upto /\ call.current = 0 /\ call.seen = {}
  <2>1. page \subseteq Ids
    BY <1>2, <1>3
  <2>2. upto \in 0..MaxId /\ 0 \in 0..MaxId
    BY <1>2, <1>3
  <2>3. QED
    BY <2>1, <2>2 DEF NoSync, SyncCall
<1>5. /\ sync'[c] = call /\ sync' \in [Syncs -> SyncCall]
      /\ \A e \in Syncs : e # c => sync'[e] = sync[e]
  BY <1>1, <1>4 DEF FeedSound, FeedTypeOK
<1> HIDE DEF call
<1>6. FeedTypeOK'
  BY <1>1, <1>5 DEF FeedSound, FeedTypeOK
<1>7. passed \subseteq passed' /\ (cursor = 0 => expired \subseteq passed')
  BY <1>1
<1>8. ASSUME NEW i \in feed, i <= upto PROVE i \in applied \cup passed' \cup page
  <2>1. CASE i <= cursor
    BY <1>7, <2>1 DEF FeedSound, NothingSkipped
  <2>2. CASE ~(i <= cursor)
    <3>1. cursor < i
      BY <1>3, <2>2
    <3>2. QED
      BY <1>2, <1>7, <1>8, <3>1
  <2>3. QED
    BY <2>1, <2>2
<1>9. \A i \in feed : ~(i <= 0)
  BY FeedNumbers DEF FeedSound
<1>10. CallSound(c)'
  <2>1. /\ sync'[c] \in SyncCall /\ sync'[c].pc = "fetched" /\ sync'[c].events = page
        /\ sync'[c].upto = upto /\ sync'[c].current = 0 /\ sync'[c].seen = {}
    BY <1>4, <1>5
  <2>2. upto <= taken' /\ 0 <= taken' /\ page \subseteq feed'
    BY <1>1, <1>2, <1>3
  <2>3. /\ \A i \in feed' : i <= upto => i \in applied' \cup passed' \cup page
        /\ \A i \in feed' : i <= 0 => i \in applied' \cup passed'
    BY <1>1, <1>8, <1>9
  <2>4. QED
    BY <2>1, <2>2, <2>3 DEF CallSound
<1>11. \A e \in Syncs : CallSound(e)'
  BY <1>1, <1>3, <1>5, <1>7, <1>10, CallStays
<1>12. NothingSkipped'
  BY <1>1, <1>7 DEF FeedSound, NothingSkipped
<1>13. OldestFirst'
  BY <1>1 DEF FeedSound, OldestFirst, Retained
<1>14. QED
  BY <1>1, <1>6, <1>11, <1>12, <1>13 DEF FeedSound

LEMMA SnapshotSound ==
  ASSUME FeedSound, SnapshotData \/ SnapshotCursor
  PROVE  FeedSound'
<1>1. /\ taken' = taken /\ inserted' = inserted /\ feed' = feed /\ expired' = expired
      /\ seen' = seen /\ sync' = sync
  BY DEF SnapshotData, SnapshotCursor
<1>2. /\ taken \in Nat /\ taken <= MaxId /\ MaxId \in Nat /\ feed \in SUBSET Nat
      /\ feed \subseteq Ids /\ \A i \in feed : i <= taken
  BY FeedNumbers DEF FeedSound, Ids
<1>3. CASE SnapshotData
  <2>1. /\ snapshot' = [open |-> TRUE, data |-> feed] /\ cursor' = cursor
        /\ applied' = applied /\ passed' = passed
    BY <1>3 DEF SnapshotData
  <2>2. FeedTypeOK'
    BY <1>1, <1>2, <2>1 DEF FeedSound, FeedTypeOK
  <2>3. \A c \in Syncs : CallSound(c)'
    BY <1>1, <1>2, <2>1, <2>2, CallsStay
  <2>4. QED
    BY <1>1, <2>1, <2>2, <2>3 DEF FeedSound, NothingSkipped, OldestFirst, Retained
<1>4. CASE SnapshotCursor
  <2>1. /\ snapshot' = [open |-> FALSE, data |-> {}] /\ cursor' = Max(feed \cup {0})
        /\ applied' = applied \cup snapshot.data
        /\ passed' = passed \cup (feed \ snapshot.data)
    BY <1>4 DEF SnapshotCursor, NoSnapshot
  <2>2. feed \cup {0} \in SUBSET Nat /\ \A i \in feed \cup {0} : i <= taken
    BY <1>2
  <2>3. cursor' \in feed \cup {0} /\ cursor' \in Nat /\ cursor' <= taken
    BY <1>2, <2>1, <2>2, HasMax
  <2>4. FeedTypeOK'
    <3>1. /\ cursor' \in 0..taken /\ applied' \subseteq feed /\ passed' \subseteq feed
      <4>1. applied' \subseteq feed /\ passed' \subseteq feed
        BY <2>1 DEF FeedSound, FeedTypeOK
      <4>2. cursor' \in 0..taken
        BY <1>2, <2>3
      <4>3. QED
        BY <4>1, <4>2
    <3>2. snapshot' \in [open : BOOLEAN, data : SUBSET Ids]
      BY <2>1
    <3>3. QED
      BY <1>1, <3>1, <3>2 DEF FeedSound, FeedTypeOK
  <2>5. \A c \in Syncs : CallSound(c)'
    BY <1>1, <1>2, <2>1, <2>4, CallsStay
  <2>6. NothingSkipped'
    BY <1>1, <2>1 DEF NothingSkipped
  <2>7. QED
    BY <1>1, <2>1, <2>4, <2>5, <2>6 DEF FeedSound, OldestFirst, Retained
<1>5. QED
  BY <1>3, <1>4

-----------------------------------------------------------------------------
(* The client's steps.                                                     *)

\* A step of one call of sync: the others stay, and it is sound after.
LEMMA ClientStep ==
  ASSUME FeedSound, NEW c \in Syncs, NEW call \in SyncCall, sync' = [sync EXCEPT ![c] = call],
         taken' = taken, inserted' = inserted, feed' = feed, expired' = expired,
         snapshot' = snapshot, passed' = passed, cursor' \in 0..taken,
         applied \subseteq applied', applied' \subseteq feed, seen' \subseteq applied',
         NothingSkipped', call = NoSync \/ CallSound(c)'
  PROVE  FeedSound'
<1>1. sync'[c] = call /\ \A e \in Syncs : e # c => sync'[e] = sync[e]
  BY DEF FeedSound, FeedTypeOK
<1>2. FeedTypeOK'
  <2>1. sync' \in [Syncs -> SyncCall]
    BY DEF FeedSound, FeedTypeOK
  <2>2. QED
    BY <2>1 DEF FeedSound, FeedTypeOK
<1>3. taken \in Nat /\ feed' \in SUBSET Nat
  BY FeedNumbers DEF FeedSound
<1>4. CallSound(c)'
  BY <1>1, <1>2, IdleSound
<1>5. \A e \in Syncs : CallSound(e)'
  BY <1>1, <1>3, <1>4, CallStays
<1>6. QED
  BY <1>2, <1>5 DEF FeedSound, OldestFirst, Retained

LEMMA IdleStep ==
  ASSUME FeedSound, NEW c \in Syncs, ThrowGap(c) \/ SyncFails(c)
  PROVE  FeedSound'
<1>1. /\ sync' = [sync EXCEPT ![c] = NoSync]
      /\ taken' = taken /\ inserted' = inserted /\ feed' = feed /\ expired' = expired
      /\ cursor' = cursor /\ seen' = seen /\ applied' = applied /\ snapshot' = snapshot
      /\ passed' = passed
  BY DEF ThrowGap, SyncFails
<1>2. NoSync \in SyncCall
  BY FeedAssumption DEF NoSync, SyncCall
<1>3. cursor' \in 0..taken /\ applied' \subseteq feed /\ seen' \subseteq applied'
  BY <1>1 DEF FeedSound, FeedTypeOK
<1>4. NothingSkipped'
  BY <1>1 DEF FeedSound, NothingSkipped
<1>5. QED
  BY <1>1, <1>2, <1>3, <1>4, ClientStep

LEMMA BeginSound ==
  ASSUME FeedSound, NEW c \in Syncs, Begin(c)
  PROVE  FeedSound'
<1> DEFINE call == [sync[c] EXCEPT !.pc = "applying", !.current = cursor, !.seen = seen]
<1>1. /\ sync' = [sync EXCEPT ![c] = call]
      /\ taken' = taken /\ inserted' = inserted /\ feed' = feed /\ expired' = expired
      /\ cursor' = cursor /\ seen' = seen /\ applied' = applied /\ snapshot' = snapshot
      /\ passed' = passed
  BY DEF Begin, FeedSound, FeedTypeOK
<1>2. CallSound(c) /\ sync[c] \in SyncCall
  BY DEF FeedSound, FeedTypeOK
<1>3. cursor \in Nat /\ cursor <= taken /\ cursor \in 0..MaxId /\ seen \subseteq Ids
  BY FeedNumbers DEF FeedSound, FeedTypeOK, Ids
<1>4. /\ call \in SyncCall /\ call.pc = "applying" /\ call.events = sync[c].events
      /\ call.upto = sync[c].upto /\ call.current = cursor /\ call.seen = seen
  BY <1>2, <1>3 DEF SyncCall
<1> HIDE DEF call
<1>5. sync'[c] = call
  BY <1>1 DEF FeedSound, FeedTypeOK
<1>6. CallSound(c)'
  BY <1>1, <1>2, <1>3, <1>4, <1>5 DEF CallSound, FeedSound, NothingSkipped
<1>7. cursor' \in 0..taken /\ applied' \subseteq feed /\ seen' \subseteq applied'
  BY <1>1 DEF FeedSound, FeedTypeOK
<1>8. NothingSkipped'
  BY <1>1 DEF FeedSound, NothingSkipped
<1>9. QED
  BY <1>1, <1>4, <1>6, <1>7, <1>8, ClientStep

\* An event leaves the page when it has been applied, now or before.
LEMMA EventSound ==
  ASSUME FeedSound, NEW c \in Syncs, Skip(c) \/ Apply(c)
  PROVE  FeedSound'
<1> DEFINE i == Min(sync[c].events)
           call == [sync[c] EXCEPT !.events = sync[c].events \ {i}, !.seen = sync[c].seen \cup {i}]
<1>1. CallSound(c) /\ sync[c] \in SyncCall
  BY DEF FeedSound, FeedTypeOK
<1>2. /\ taken' = taken /\ inserted' = inserted /\ feed' = feed /\ expired' = expired
      /\ cursor' = cursor /\ seen' = seen /\ snapshot' = snapshot /\ passed' = passed
      /\ sync[c].events # {} /\ sync[c].pc = "applying"
      /\ applied' = applied \cup {i}
      /\ sync' = [sync EXCEPT ![c] = call]
  <2>1. CASE Apply(c)
    BY <2>1 DEF Apply, FeedSound, FeedTypeOK
  <2>2. CASE Skip(c)
    <3>1. i \in sync[c].seen /\ sync[c].seen \subseteq applied
      BY <1>1, <2>2 DEF Skip, CallSound
    <3>2. sync[c].seen \cup {i} = sync[c].seen /\ applied \cup {i} = applied
      BY <3>1
    <3>3. call = [sync[c] EXCEPT !.events = sync[c].events \ {i}]
      BY <1>1, <3>2 DEF SyncCall
    <3>4. QED
      BY <2>2, <3>2, <3>3 DEF Skip, FeedSound, FeedTypeOK
  <2>3. QED
    BY <2>1, <2>2
<1>3. i \in sync[c].events /\ sync[c].events \subseteq feed
  BY <1>1, <1>2, CallNumbers, HasMin DEF CallSound
<1> HIDE DEF i
<1>4. feed \subseteq Ids
  BY FeedNumbers DEF FeedSound, Ids
<1>5. /\ call \in SyncCall /\ call.pc = "applying" /\ call.events = sync[c].events \ {i}
      /\ call.upto = sync[c].upto /\ call.current = sync[c].current
      /\ call.seen = sync[c].seen \cup {i}
  BY <1>1, <1>2, <1>3, <1>4 DEF SyncCall
<1> HIDE DEF call
<1>6. sync'[c] = call
  BY <1>2 DEF FeedSound, FeedTypeOK
<1>7. CallSound(c)'
  BY <1>1, <1>2, <1>3, <1>5, <1>6 DEF CallSound
<1>8. cursor' \in 0..taken /\ applied' \subseteq feed /\ seen' \subseteq applied'
  BY <1>2, <1>3 DEF FeedSound, FeedTypeOK
<1>9. NothingSkipped'
  BY <1>2 DEF FeedSound, NothingSkipped
<1>10. QED
  BY <1>2, <1>5, <1>7, <1>8, <1>9, ClientStep

LEMMA StoreSeenSound ==
  ASSUME FeedSound, NEW c \in Syncs, StoreSeen(c)
  PROVE  FeedSound'
<1> DEFINE call == [sync[c] EXCEPT !.pc = "seen"]
<1>1. /\ sync' = [sync EXCEPT ![c] = call] /\ seen' = sync[c].seen /\ sync[c].events = {}
      /\ taken' = taken /\ inserted' = inserted /\ feed' = feed /\ expired' = expired
      /\ cursor' = cursor /\ applied' = applied /\ snapshot' = snapshot /\ passed' = passed
  BY DEF StoreSeen, FeedSound, FeedTypeOK
<1>2. CallSound(c) /\ sync[c] \in SyncCall
  BY DEF FeedSound, FeedTypeOK
<1>3. /\ call \in SyncCall /\ call.events = sync[c].events /\ call.upto = sync[c].upto
      /\ call.current = sync[c].current /\ call.seen = sync[c].seen
  BY <1>2 DEF SyncCall
<1> HIDE DEF call
<1>4. sync'[c] = call
  BY <1>1 DEF FeedSound, FeedTypeOK
<1>5. CallSound(c)'
  BY <1>1, <1>2, <1>3, <1>4 DEF CallSound
<1>6. cursor' \in 0..taken /\ applied' \subseteq feed /\ seen' \subseteq applied'
  BY <1>1, <1>2 DEF FeedSound, FeedTypeOK, CallSound
<1>7. NothingSkipped'
  BY <1>1 DEF FeedSound, NothingSkipped
<1>8. QED
  BY <1>1, <1>3, <1>5, <1>6, <1>7, ClientStep

\* The cursor moves when nothing of the page is left to apply.
LEMMA StoreCursorSound ==
  ASSUME FeedSound, NEW c \in Syncs, StoreCursor(c)
  PROVE  FeedSound'
<1>1. /\ sync' = [sync EXCEPT ![c] = NoSync] /\ cursor' = Max({sync[c].current, sync[c].upto})
      /\ taken' = taken /\ inserted' = inserted /\ feed' = feed /\ expired' = expired
      /\ seen' = seen /\ applied' = applied /\ snapshot' = snapshot /\ passed' = passed
      /\ sync[c].pc = "seen"
  BY DEF StoreCursor
<1>2. CallSound(c) /\ sync[c].events = {}
  BY <1>1 DEF FeedSound, CallSound
<1>3. /\ sync[c].current \in Nat /\ sync[c].current <= taken
      /\ sync[c].upto \in Nat /\ sync[c].upto <= taken /\ taken \in Nat
  BY <1>2, CallNumbers, FeedNumbers DEF CallSound, FeedSound
<1>4. cursor' \in {sync[c].current, sync[c].upto}
  <2>1. /\ {sync[c].current, sync[c].upto} \in SUBSET Nat
        /\ \A y \in {sync[c].current, sync[c].upto} : y <= taken
    BY <1>3
  <2>2. QED
    BY <1>1, <1>3, <2>1, HasMax
<1>5. NothingSkipped'
  BY <1>1, <1>2, <1>4 DEF CallSound, NothingSkipped
<1>6. cursor' \in 0..taken /\ applied' \subseteq feed /\ seen' \subseteq applied'
  BY <1>1, <1>3, <1>4 DEF FeedSound, FeedTypeOK
<1>7. NoSync \in SyncCall
  BY FeedAssumption DEF NoSync, SyncCall
<1>8. QED
  BY <1>1, <1>5, <1>6, <1>7, ClientStep

-----------------------------------------------------------------------------

LEMMA FeedSoundInit == FeedInit => FeedSound
<1> SUFFICES ASSUME FeedInit PROVE FeedSound
  OBVIOUS
<1>1. NoSync \in SyncCall
  BY FeedAssumption DEF NoSync, SyncCall
<1>2. FeedTypeOK
  BY <1>1, FeedAssumption DEF FeedInit, FeedTypeOK, NoSnapshot
<1>3. \A c \in Syncs : CallSound(c)
  BY <1>1 DEF FeedInit, CallSound, NoSync
<1>4. QED
  BY <1>2, <1>3 DEF FeedInit, FeedSound, NothingSkipped, OldestFirst, NoSnapshot

LEMMA FeedSoundNext == FeedSound /\ [FeedNext]_feedVars => FeedSound'
<1>1. ASSUME FeedSound, FeedNext PROVE FeedSound'
  BY <1>1, CommitSound, ProjectionSound, FetchSound, SnapshotSound, IdleStep, BeginSound,
     EventSound, StoreSeenSound, StoreCursorSound DEF FeedNext, SyncStep
<1>2. ASSUME FeedSound, UNCHANGED feedVars PROVE FeedSound'
  BY <1>2 DEF FeedSound, FeedTypeOK, NothingSkipped, OldestFirst, Retained, CallSound, feedVars
<1>3. QED
  BY <1>1, <1>2

\* No cursor runs ahead of the sequence, and no client knows an event that is no row.
THEOREM FeedTyped == FeedSpec => []FeedTypeOK
<1>1. FeedSound => FeedTypeOK
  BY DEF FeedSound
<1>2. QED
  BY <1>1, FeedSoundInit, FeedSoundNext, PTL DEF FeedSpec

\* A row below the client's cursor has been applied, or could not be shown any more.
THEOREM FeedSkipsNothing == FeedSpec => []NothingSkipped
<1>1. FeedSound => NothingSkipped
  BY DEF FeedSound
<1>2. QED
  BY <1>1, FeedSoundInit, FeedSoundNext, PTL DEF FeedSpec
-----------------------------------------------------------------------------
(* SyncRanges                                                              *)

\* The rows are of messages that were posted, and none of them is still due.
RowsArePosted ==
  due \subseteq Posted /\ rows \in Seq(Posted \ due) /\ userSyncCursor \in 0..Len(rows)

\* What the page of a request is from, and what it makes the request read.
PageIsKept ==
  syncing.pc = "listed" =>
    /\ syncing.upto \in 0..Len(rows)
    /\ \A c \in Chats : syncing.before[c] = GapEnd(c, Listed, syncing.given[c])

Missed(c) == InRange(c, syncing.given[c], syncing.before[c]) \ syncing.ranges

\* A range that was read has what the user may see, or the first of it and says so.
RangesAreFirst ==
  syncing.pc = "listed" =>
    /\ \A c \in Chats : c \in syncing.todo => \A r \in syncing.ranges : r[1] # c
    /\ \A c \in Chats : syncing.before[c] > 0 /\ c \notin syncing.todo \cup syncing.back =>
         \A m \in Missed(c) : /\ c \in syncing.more
                              /\ \A r \in syncing.ranges : r[1] = c => r[2] < m[2]

RangesInv == RangesTypeOK /\ RowsArePosted /\ PageIsKept /\ RangesAreFirst

LEMMA NotSyncingType == NotSyncing \in Syncing /\ NotSyncing.pc = "idle" /\ NotSyncing.ranges = {}
  BY DEF NotSyncing, Syncing

\* There is room for another message in every conversation as long as there is any room.
LEMMA PostedBound ==
  ASSUME RangesTypeOK, NEW c \in Chats, Cardinality(Posted) < MaxPosted
  PROVE  last[c] + 1 \in 1..MaxPosted
<1>1. last[c] \in 0..MaxPosted /\ MaxPosted \in Nat
  BY RangesAssumption DEF RangesTypeOK
<1>2. SUFFICES ASSUME last[c] = MaxPosted PROVE FALSE
  BY <1>1
<1> DEFINE own == {c} \X (1..MaxPosted)
<1>3. own \subseteq Posted
  BY <1>1, <1>2 DEF Posted, Messages
<1>4. IsFiniteSet(Posted)
  <2>1. IsFiniteSet(1..MaxPosted)
    BY <1>1, FS_Interval
  <2>2. IsFiniteSet(Messages)
    BY <2>1, FS_Product, RangesAssumption DEF Messages
  <2>3. QED
    BY <2>2, FS_Subset DEF Posted
<1>5. IsFiniteSet(1..MaxPosted) /\ Cardinality(1..MaxPosted) = MaxPosted
  BY <1>1, FS_Interval
<1>6. IsFiniteSet({c}) /\ Cardinality({c}) = 1
  BY FS_Singleton
<1>7. Cardinality(own) = MaxPosted
  <2>1. Cardinality(own) = Cardinality({c}) * Cardinality(1..MaxPosted)
    <3> HIDE <1>1
    <3>1. QED
      BY <1>5, <1>6, FS_Product, Zenon
  <2>2. \A n \in Nat : 1 * n = n
    OBVIOUS
  <2>3. QED
    BY <1>1, <1>5, <1>6, <2>1, <2>2
<1>8. Cardinality(own) <= Cardinality(Posted)
  BY <1>3, <1>4, FS_Subset
<1>9. Cardinality(Posted) \in Nat
  BY <1>4, FS_CardinalityType
<1>10. QED
  BY <1>1, <1>7, <1>8, <1>9

\* A range ends below a message that was posted.
LEMMA GapEndType ==
  ASSUME MaxPosted \in Nat, NEW c, NEW events \in SUBSET Posted, NEW after \in Nat
  PROVE  /\ GapEnd(c, events, after) \in Nat
         /\ \A n \in Gaps(c, events, after) : n <= GapEnd(c, events, after)
         /\ GapEnd(c, events, after) > 0 => <<c, GapEnd(c, events, after)>> \in events
<1> DEFINE S == {0} \cup Gaps(c, events, after)
<1>1. S \in SUBSET Nat /\ S # {} /\ \A n \in S : n <= MaxPosted
  BY DEF Gaps
<1>2. Max(S) \in S /\ \A n \in S : n <= Max(S)
  BY <1>1, HasMax
<1>3. QED
  BY <1>1, <1>2 DEF GapEnd, Gaps

\* The page of a request is of messages that were posted.
LEMMA ListedPosted ==
  ASSUME RangesInv, syncing.pc = "listed"
  PROVE  Listed \in SUBSET Posted
<1>1. rows \in Seq(Posted \ due) /\ syncing.upto \in 0..Len(rows) /\ userSyncCursor \in 0..Len(rows)
  BY DEF RangesInv, RowsArePosted, PageIsKept
<1>2. Len(rows) \in Nat /\ \A i \in 1..Len(rows) : rows[i] \in Posted
  BY <1>1, ElementOfSeq, LenProperties
<1>3. \A i \in (userSyncCursor + 1)..syncing.upto : i \in 1..Len(rows)
  BY <1>1, <1>2
<1>4. QED
  BY <1>2, <1>3 DEF Listed, Events

\* A request under way is not disturbed by what is posted, projected, cleared or hidden.
SameRequest ==
  /\ syncing'.pc = syncing.pc /\ syncing'.upto = syncing.upto /\ syncing'.given = syncing.given
  /\ syncing'.before = syncing.before /\ syncing'.todo = syncing.todo
  /\ syncing'.ranges = syncing.ranges
  /\ syncing'.more = syncing.more

LEMMA CallWaits ==
  ASSUME RangesInv, SameRequest,
         syncing.pc = "listed" =>
           /\ syncing.back \subseteq syncing'.back /\ Listed' = Listed
           /\ Len(rows) <= Len(rows') /\ Len(rows') \in Nat
           /\ hides \subseteq hides' /\ clear' \in [Chats -> Nat]
           /\ \A c \in Chats \ syncing'.back : clear[c] <= clear'[c]
  PROVE  PageIsKept' /\ RangesAreFirst'
<1>1. CASE syncing.pc # "listed"
  BY <1>1 DEF SameRequest, PageIsKept, RangesAreFirst
<1>2. CASE syncing.pc = "listed"
  <2>1. PageIsKept /\ RangesAreFirst /\ rows \in Seq(Posted \ due)
    BY DEF RangesInv, RowsArePosted
  <2>2. PageIsKept'
    <3>1. syncing.upto \in 0..Len(rows')
      BY <1>2, <2>1, LenProperties DEF PageIsKept
    <3>2. \A c \in Chats : GapEnd(c, Listed, syncing.given[c])' = GapEnd(c, Listed, syncing.given[c])
      BY <1>2 DEF SameRequest, GapEnd, Gaps
    <3>3. QED
      BY <1>2, <2>1, <3>1, <3>2 DEF SameRequest, PageIsKept
  <2>3. ASSUME NEW c \in Chats, syncing.before[c] > 0, c \notin syncing.todo \cup syncing'.back
        PROVE  Missed(c)' \subseteq Missed(c)
    <3>1. <<c, syncing.before[c]>> \in Posted
      <4>1. syncing.given[c] \in Nat /\ MaxPosted \in Nat
        BY RangesAssumption DEF RangesInv, RangesTypeOK, Syncing
      <4>2. syncing.before[c] = GapEnd(c, Listed, syncing.given[c])
        BY <1>2, <2>1 DEF PageIsKept
      <4>3. <<c, syncing.before[c]>> \in Listed
        BY <1>2, <2>3, <4>1, <4>2, ListedPosted, GapEndType
      <4>4. QED
        BY <1>2, <4>3, ListedPosted
    <3>2. syncing.before[c] \in Nat /\ syncing.before[c] <= last[c] /\ syncing.given[c] \in Nat
          /\ last[c] \in Nat /\ clear[c] \in Nat
      BY <3>1, RangesAssumption DEF Posted, RangesInv, RangesTypeOK, Syncing
    <3>3. clear[c] <= clear'[c] /\ clear'[c] \in Nat
      BY <1>2, <2>3
    <3>4. ASSUME NEW m \in InRange(c, syncing.given[c], syncing.before[c])' PROVE
            m \in InRange(c, syncing.given[c], syncing.before[c])
      <4>1. m \in {c} \X ((syncing.given[c] + 1)..(syncing.before[c] - 1)) /\ m[2] > clear'[c]
            /\ m \notin hides'
        BY <3>4 DEF InRange, SameRequest
      <4>2. m[2] \in Int /\ m[2] <= last[c] /\ m[2] > clear[c]
        BY <3>2, <3>3, <4>1
      <4>3. QED
        BY <1>2, <4>1, <4>2 DEF InRange
    <3>5. QED
      BY <3>4 DEF Missed, SameRequest
  <2>4. RangesAreFirst'
    BY <1>2, <2>1, <2>3 DEF SameRequest, RangesAreFirst
  <2>5. QED
    BY <2>2, <2>4
<1>3. QED
  BY <1>1, <1>2

LEMMA PostKeeps ==
  ASSUME RangesInv, NEW c \in Chats, Post(c) \/ RemoveMember(c) \/ Leave(c) \/ JoinAgain(c)
  PROVE  RangesInv'
<1>1. PICK told \in BOOLEAN : PostedIn(c, told)
  BY DEF RangesInv, RangesTypeOK, Post, RemoveMember, Leave, JoinAgain
<1>2. /\ UNCHANGED <<hides, rows, userSyncCursor>>
      /\ member' \in [Chats -> BOOLEAN]
  BY DEF RangesInv, RangesTypeOK, Post, RemoveMember, Leave, JoinAgain
<1>3. /\ SameRequest /\ syncing' \in Syncing
      /\ syncing.pc = "listed" => syncing.back \subseteq syncing'.back
      /\ clear' \in [Chats -> 0..MaxPosted]
      /\ \A d \in Chats : d \notin syncing'.back /\ syncing.pc = "listed" => clear'[d] = clear[d]
  <2>1. CASE Post(c) \/ RemoveMember(c) \/ Leave(c)
    BY <2>1 DEF RangesInv, RangesTypeOK, Post, RemoveMember, Leave, SameRequest
  <2>2. CASE JoinAgain(c)
    <3>1. PICK back \in SUBSET Chats : /\ syncing' = [syncing EXCEPT !.back = back]
                                       /\ syncing.pc = "listed" => back = syncing.back \cup {c}
      <4>1. syncing.back \in SUBSET Chats /\ syncing.pc \in {"idle", "listed"}
        BY DEF RangesInv, RangesTypeOK, Syncing
      <4>2. CASE syncing.pc = "idle"
        <5>1. syncing' = [syncing EXCEPT !.back = {}] /\ {} \in SUBSET Chats
          BY <2>2, <4>2 DEF JoinAgain
        <5>2. QED
          BY <4>2, <5>1
      <4>3. CASE syncing.pc = "listed"
        <5>1. syncing' = [syncing EXCEPT !.back = syncing.back \cup {c}]
          BY <2>2, <4>3 DEF JoinAgain, RangesInv, RangesTypeOK, Syncing
        <5>2. QED
          BY <4>1, <4>3, <5>1
      <4>4. QED
        BY <4>1, <4>2, <4>3
    <3>2. clear' = [clear EXCEPT ![c] = 0] /\ 0 \in 0..MaxPosted
      BY <2>2, RangesAssumption DEF JoinAgain
    <3>3. SameRequest /\ syncing' \in Syncing /\ syncing'.back = back
      BY <3>1 DEF SameRequest, RangesInv, RangesTypeOK, Syncing
    <3>4. QED
      BY <3>1, <3>2, <3>3 DEF RangesInv, RangesTypeOK
  <2>3. QED
    BY <2>1, <2>2
<1>4. last[c] + 1 \in 1..MaxPosted /\ last[c] \in Nat /\ MaxPosted \in Nat
  BY <1>1, PostedBound, RangesAssumption DEF PostedIn, RangesInv, RangesTypeOK
<1>5. last' = [last EXCEPT ![c] = last[c] + 1]
  BY <1>1 DEF PostedIn, RangesInv, RangesTypeOK
<1>6. /\ last' \in [Chats -> 0..MaxPosted] /\ last'[c] = last[c] + 1
      /\ \A d \in Chats : last[d] <= last'[d]
  BY <1>4, <1>5, RangesAssumption DEF RangesInv, RangesTypeOK
<1>7. Posted \subseteq Posted' /\ Posted' \subseteq Messages
  <2>1. \A m \in Messages : m[1] \in Chats /\ m[2] \in Nat
    BY DEF Messages
  <2>2. \A d \in Chats : last[d] \in Nat /\ last'[d] \in Nat
    BY <1>6 DEF RangesInv, RangesTypeOK
  <2>3. \A m \in Messages : m[2] <= last[m[1]] => m[2] <= last'[m[1]]
    BY <1>6, <2>1, <2>2
  <2>4. QED
    BY <2>3 DEF Posted
<1>8. <<c, last'[c]>> \in Posted' \ Posted
  BY <1>4, <1>6 DEF Posted, Messages
<1>9. due' \subseteq due \cup {<<c, last'[c]>>}
  BY <1>1 DEF PostedIn
<1>10. RowsArePosted'
  <2>1. due \subseteq Posted /\ rows \in Seq(Posted \ due)
    BY DEF RangesInv, RowsArePosted
  <2>2. Posted \ due \subseteq Posted' \ due'
    BY <1>7, <1>8, <1>9
  <2>3. due' \subseteq Posted'
    BY <1>7, <1>8, <1>9, <2>1
  <2>4. rows \in Seq(Posted' \ due')
    BY <2>1, <2>2, SeqMonotonic
  <2>5. QED
    BY <1>2, <2>3, <2>4 DEF RangesInv, RowsArePosted
<1>11. RangesTypeOK'
  <2>1. due' \subseteq Messages /\ rows' \in Seq(Messages \ due')
    <3>1. Posted' \ due' \subseteq Messages \ due'
      BY <1>7
    <3>2. QED
      BY <1>7, <1>10, <3>1, SeqMonotonic DEF RowsArePosted
  <2>2. syncing'.ranges \subseteq {m \in Messages : m[2] < syncing'.before[m[1]]}
    BY <1>3 DEF SameRequest, RangesInv, RangesTypeOK
  <2>3. QED
    BY <1>2, <1>3, <1>6, <2>1, <2>2 DEF RangesInv, RangesTypeOK
<1>12. PageIsKept' /\ RangesAreFirst'
  <2>1. Listed' = Listed
    BY <1>2, <1>3 DEF Listed, Events, SameRequest
  <2>2. Len(rows) \in Nat /\ \A d \in Chats : clear[d] \in Nat /\ clear'[d] \in Nat
    BY <1>3, LenProperties DEF RangesInv, RangesTypeOK
  <2>3. clear' \in [Chats -> Nat]
    BY <1>3
  <2>4. \A d \in Chats \ syncing'.back : syncing.pc = "listed" => clear[d] <= clear'[d]
    BY <1>3, <2>2
  <2>5. QED
    BY <1>2, <1>3, <2>1, <2>2, <2>3, <2>4, CallWaits
<1>13. QED
  BY <1>10, <1>11, <1>12 DEF RangesInv

LEMMA HideKeeps ==
  ASSUME RangesInv, NEW c \in Chats,
         ClearHistory(c) \/ \E n \in 1..last[c] : HideMessage(c, n)
  PROVE  RangesInv'
<1>1. UNCHANGED <<last, member, due, rows, userSyncCursor, syncing>>
  BY DEF ClearHistory, HideMessage
<1>2. last[c] \in 0..MaxPosted /\ MaxPosted \in Nat /\ clear[c] \in 0..MaxPosted
  BY RangesAssumption DEF RangesInv, RangesTypeOK
<1>3. /\ clear' \in [Chats -> 0..MaxPosted] /\ hides' \subseteq Messages
      /\ hides \subseteq hides' /\ \A d \in Chats : clear[d] <= clear'[d]
  <2>1. CASE ClearHistory(c)
    <3>1. PICK n \in (clear[c] + 1)..last[c] : clear' = [clear EXCEPT ![c] = n]
      BY <2>1 DEF ClearHistory
    <3>2. n \in 0..MaxPosted /\ clear[c] <= n
      BY <1>2, <3>1
    <3>3. \A d \in Chats : clear[d] \in Nat
      BY DEF RangesInv, RangesTypeOK
    <3>4. QED
      BY <2>1, <3>1, <3>2, <3>3 DEF RangesInv, RangesTypeOK, ClearHistory
  <2>2. CASE \E n \in 1..last[c] : HideMessage(c, n)
    <3>1. PICK n \in 1..last[c] : HideMessage(c, n)
      BY <2>2
    <3>2. <<c, n>> \in Messages
      BY <1>2, <3>1 DEF Messages
    <3>3. \A d \in Chats : clear[d] \in Nat
      BY DEF RangesInv, RangesTypeOK
    <3>4. clear' = clear /\ hides' = hides \cup {<<c, n>>}
      BY <3>1 DEF HideMessage
    <3>5. clear \in [Chats -> 0..MaxPosted] /\ hides \subseteq Messages
      BY DEF RangesInv, RangesTypeOK
    <3>6. QED
      BY <3>2, <3>3, <3>4, <3>5
  <2>3. QED
    BY <2>1, <2>2
<1>4. RangesTypeOK'
  BY <1>1, <1>3 DEF RangesInv, RangesTypeOK
<1>5. RowsArePosted'
  BY <1>1 DEF RangesInv, RowsArePosted, Posted
<1>6. PageIsKept' /\ RangesAreFirst'
  <2>1. SameRequest /\ Listed' = Listed
    BY <1>1 DEF SameRequest, Listed, Events
  <2>2. Len(rows) \in Nat /\ Len(rows) <= Len(rows')
    BY <1>1, LenProperties DEF RangesInv, RangesTypeOK
  <2>3. clear' \in [Chats -> Nat]
    BY <1>3
  <2>4. QED
    BY <1>1, <1>3, <2>1, <2>2, <2>3, CallWaits
<1>7. QED
  BY <1>4, <1>5, <1>6 DEF RangesInv

LEMMA ProjectKeeps ==
  ASSUME RangesInv, NEW m \in due, ProjectRow(m)
  PROVE  RangesInv'
<1>1. due' = due \ {m} /\ rows' = Append(rows, m) /\ UNCHANGED <<chatVars, userSyncCursor, syncing>>
  BY DEF ProjectRow
<1>2. due \subseteq Posted /\ rows \in Seq(Posted \ due) /\ Posted \subseteq Messages
      /\ userSyncCursor \in 0..Len(rows)
  BY DEF RangesInv, RowsArePosted, Posted
<1>3. rows \in Seq(Posted \ due') /\ m \in Posted \ due'
  <2>1. Posted \ due \subseteq Posted \ due'
    BY <1>1
  <2>2. QED
    BY <1>1, <1>2, <2>1, SeqMonotonic
<1>4. rows' \in Seq(Posted \ due') /\ Len(rows') = Len(rows) + 1 /\ Len(rows) \in Nat
  BY <1>1, <1>3, AppendProperties, LenProperties
<1>5. RowsArePosted'
  <2>1. Posted' = Posted
    BY <1>1 DEF Posted, chatVars
  <2>2. due' \subseteq Posted /\ userSyncCursor \in 0..Len(rows')
    BY <1>1, <1>2, <1>4
  <2>3. QED
    BY <1>1, <1>4, <2>1, <2>2 DEF RowsArePosted
<1>6. RangesTypeOK'
  <2>1. Posted \ due' \subseteq Messages \ due'
    BY <1>2
  <2>2. due' \subseteq Messages /\ rows' \in Seq(Messages \ due') /\ userSyncCursor \in 0..Len(rows')
    BY <1>1, <1>2, <1>4, <2>1, SeqMonotonic
  <2>3. QED
    BY <1>1, <2>2 DEF RangesInv, RangesTypeOK, chatVars
<1>7. PageIsKept' /\ RangesAreFirst'
  <2>1. SameRequest
    BY <1>1 DEF SameRequest
  <2>2. syncing.pc = "listed" => Listed' = Listed
    <3>1. SUFFICES ASSUME syncing.pc = "listed" PROVE Listed' = Listed
      OBVIOUS
    <3>2. syncing.upto \in 0..Len(rows)
      BY <3>1 DEF RangesInv, PageIsKept
    <3>3. userSyncCursor + 1 \in Nat \ {0}
      BY <1>2
    <3>4. Events(userSyncCursor + 1, syncing.upto)' = Events(userSyncCursor + 1, syncing.upto)
      <4>1. \A i \in (userSyncCursor + 1)..syncing.upto : i \in 1..Len(rows)
        BY <1>2, <1>4, <3>2
      <4>2. \A i \in 1..Len(rows) : rows'[i] = rows[i]
        BY <1>1, <1>3, AppendProperties
      <4>3. QED
        BY <1>1, <4>1, <4>2 DEF Events
    <3>5. QED
      BY <3>4 DEF Listed
  <2>3. clear' = clear /\ hides' = hides /\ clear \in [Chats -> 0..MaxPosted]
    BY <1>1 DEF chatVars, RangesInv, RangesTypeOK
  <2>4. clear' \in [Chats -> Nat] /\ \A d \in Chats : clear[d] <= clear'[d]
    BY <2>3
  <2>5. QED
    BY <1>1, <1>4, <2>1, <2>2, <2>3, <2>4, CallWaits
<1>8. QED
  BY <1>5, <1>6, <1>7 DEF RangesInv

\* A request that ends leaves nothing behind.
LEMMA EndKeeps ==
  ASSUME RangesInv, AnswerSync \/ \E c \in Chats : RefuseRange(c)
  PROVE  RangesInv'
<1>1. /\ UNCHANGED <<chatVars, due, rows>> /\ syncing' = NotSyncing
      /\ userSyncCursor' = userSyncCursor \/ (syncing.pc = "listed" /\ userSyncCursor' = syncing.upto)
  BY DEF AnswerSync, RefuseRange
<1>2. userSyncCursor' \in 0..Len(rows')
  BY <1>1 DEF RangesInv, RowsArePosted, PageIsKept
<1>3. RangesTypeOK' /\ RowsArePosted'
  BY <1>1, <1>2, NotSyncingType DEF chatVars, RangesInv, RangesTypeOK, RowsArePosted, Posted
<1>4. PageIsKept' /\ RangesAreFirst'
  BY <1>1, NotSyncingType DEF PageIsKept, RangesAreFirst
<1>5. QED
  BY <1>3, <1>4 DEF RangesInv

LEMMA ListEventsKeeps ==
  ASSUME RangesInv, NEW given \in [Chats -> 0..MaxPosted], ListEvents(given)
  PROVE  RangesInv'
<1> DEFINE events == Events(userSyncCursor + 1, PageEnd)
           before == [c \in Chats |-> GapEnd(c, events, given[c])]
<1>1. /\ UNCHANGED <<chatVars, due, rows, userSyncCursor>>
      /\ syncing' = [NotSyncing EXCEPT !.pc = "listed", !.upto = PageEnd, !.given = given,
                                !.before = before, !.todo = {c \in Chats : before[c] > 0}]
  BY DEF ListEvents
<1>2. MaxPosted \in Nat /\ \A c \in Chats : given[c] \in Nat
  BY RangesAssumption
<1>3. PageEnd \in 0..Len(rows)
  <2>1. Len(rows) \in Nat /\ userSyncCursor \in 0..Len(rows) /\ EventLimit \in Nat
    BY RangesAssumption, LenProperties DEF RangesInv, RangesTypeOK
  <2>2. {userSyncCursor + EventLimit, Len(rows)} \in SUBSET Nat
    BY <2>1
  <2>3. PageEnd \in {userSyncCursor + EventLimit, Len(rows)} /\ PageEnd <= Len(rows)
    BY <2>2, HasMin DEF PageEnd
  <2>4. QED
    BY <2>1, <2>2, <2>3
<1>4. events \in SUBSET Posted
  <2>1. rows \in Seq(Posted \ due) /\ userSyncCursor \in 0..Len(rows)
    BY DEF RangesInv, RowsArePosted
  <2>2. Len(rows) \in Nat /\ \A i \in 1..Len(rows) : rows[i] \in Posted
    BY <2>1, ElementOfSeq, LenProperties
  <2>3. \A i \in (userSyncCursor + 1)..PageEnd : i \in 1..Len(rows)
    BY <1>3, <2>1, <2>2
  <2>4. QED
    BY <2>2, <2>3 DEF Events
<1>5. before \in [Chats -> Nat]
  BY <1>2, <1>4, GapEndType
<1> HIDE DEF before, events
<1>6. /\ syncing' \in Syncing /\ syncing'.pc = "listed"
      /\ syncing'.upto = PageEnd /\ syncing'.given = given
      /\ syncing'.before = before /\ syncing'.todo = {c \in Chats : before[c] > 0}
      /\ syncing'.ranges = {}
  <2>1. given \in [Chats -> Nat] /\ PageEnd \in Nat
    BY <1>2, <1>3
  <2>2. QED
    BY <1>1, <1>5, <2>1 DEF NotSyncing, Syncing
<1>7. Posted' = Posted
  BY <1>1 DEF Posted, chatVars
<1>8. RangesTypeOK' /\ RowsArePosted'
  BY <1>1, <1>6, <1>7 DEF chatVars, RangesInv, RangesTypeOK, RowsArePosted
<1>9. PageIsKept'
  <2>1. Listed' = events
    BY <1>1, <1>6 DEF Listed, Events, events
  <2>2. QED
    BY <1>1, <1>3, <1>6, <2>1 DEF PageIsKept, GapEnd, Gaps, before
<1>10. RangesAreFirst'
  BY <1>6 DEF RangesAreFirst
<1>11. QED
  BY <1>8, <1>9, <1>10 DEF RangesInv

\* The first messages of a range are below the others.
LEMMA FirstAreLow ==
  ASSUME NEW c, NEW found, NEW n \in Nat, found \subseteq {c} \X (1..n),
         NEW r \in First(found), NEW m \in found \ First(found)
  PROVE  r[2] < m[2]
<1> DEFINE low(x) == {o \in found : o[2] < x[2]}
<1>1. RangeLimit \in Nat
  BY RangesAssumption
<1>2. r[2] \in 1..n /\ m[2] \in 1..n /\ \A o \in found : o[2] \in 1..n
  BY DEF First
<1>3. SUFFICES ASSUME m[2] <= r[2] PROVE FALSE
  BY <1>2
<1>4. low(m) \subseteq low(r)
  BY <1>2, <1>3
<1>5. IsFiniteSet(low(r)) /\ IsFiniteSet(low(m))
  <2>1. IsFiniteSet(1..n)
    BY FS_Interval
  <2>2. IsFiniteSet({c} \X (1..n))
    BY <2>1, FS_Singleton, FS_Product
  <2>3. low(r) \in SUBSET ({c} \X (1..n)) /\ low(m) \in SUBSET ({c} \X (1..n))
    OBVIOUS
  <2>4. QED
    BY <2>2, <2>3, FS_Subset
<1>6. Cardinality(low(m)) <= Cardinality(low(r))
  BY <1>4, <1>5, FS_Subset
<1>7. Cardinality(low(m)) \in Nat /\ Cardinality(low(r)) \in Nat
  BY <1>5, FS_CardinalityType
<1>8. Cardinality(low(r)) < RangeLimit /\ ~(Cardinality(low(m)) < RangeLimit)
  BY DEF First
<1>9. QED
  BY <1>1, <1>6, <1>7, <1>8

LEMMA ReadRangeKeeps ==
  ASSUME RangesInv, NEW c \in Chats, ReadRange(c)
  PROVE  RangesInv'
<1> DEFINE found == InRange(c, syncing.given[c], syncing.before[c])
           part == First(found)
           more == IF part # found THEN syncing.more \cup {c} ELSE syncing.more
<1>1. /\ UNCHANGED <<chatVars, due, rows, userSyncCursor>> /\ c \in syncing.todo
      /\ syncing' = [syncing EXCEPT !.todo = @ \ {c}, !.ranges = @ \cup part,
                              !.more = IF part # found THEN @ \cup {c} ELSE @]
  BY DEF ReadRange
<1>2. syncing \in Syncing /\ MaxPosted \in Nat /\ last[c] \in 0..MaxPosted
  BY RangesAssumption DEF RangesInv, RangesTypeOK
<1>3. syncing.pc \in {"idle", "listed"} /\ syncing.given[c] \in Nat /\ syncing.before[c] \in Nat
  BY <1>2 DEF Syncing
<1>4. /\ found \subseteq {c} \X (1..MaxPosted)
      /\ \A m \in found : m \in Messages /\ m[1] = c /\ m[2] < syncing.before[c]
  <2>1. \A m \in found : /\ m[1] = c /\ m[2] \in (syncing.given[c] + 1)..(syncing.before[c] - 1)
                         /\ m = <<m[1], m[2]>> /\ m[2] <= last[c]
    BY DEF InRange
  <2>2. \A m \in found : m[2] \in 1..MaxPosted /\ m[2] < syncing.before[c]
    BY <1>2, <1>3, <2>1
  <2>3. QED
    BY <2>1, <2>2 DEF Messages
<1>5. part \subseteq found
  BY DEF First
<1> HIDE DEF found, part
<1>6. /\ syncing'.pc = syncing.pc /\ syncing'.upto = syncing.upto /\ syncing'.given = syncing.given
      /\ syncing'.before = syncing.before /\ syncing'.back = syncing.back
      /\ syncing'.todo = syncing.todo \ {c}
      /\ syncing'.ranges = syncing.ranges \cup part /\ syncing'.more = more
  BY <1>1, <1>2 DEF Syncing
<1>7. syncing.ranges \subseteq {m \in Messages : m[2] < syncing.before[m[1]]}
  BY DEF RangesInv, RangesTypeOK
<1>8. syncing.ranges \cup part \subseteq {m \in Messages : m[2] < syncing.before[m[1]]}
  BY <1>4, <1>5, <1>7
<1>9. syncing' \in Syncing
  <2>1. syncing.ranges \cup part \in SUBSET Messages /\ more \in SUBSET Chats
    BY <1>2, <1>8 DEF Syncing
  <2>2. syncing' = [syncing EXCEPT !.todo = syncing.todo \ {c}, !.ranges = syncing.ranges \cup part,
                             !.more = more]
    BY <1>1, <1>2 DEF Syncing
  <2>3. QED
    BY <1>2, <2>1, <2>2 DEF Syncing
<1>10. RangesTypeOK' /\ RowsArePosted'
  BY <1>1, <1>6, <1>8, <1>9 DEF chatVars, RangesInv, RangesTypeOK, RowsArePosted, Posted
<1>11. PageIsKept'
  <2>1. Listed' = Listed
    BY <1>1, <1>6 DEF Listed, Events
  <2>2. QED
    BY <1>1, <1>6, <2>1 DEF RangesInv, PageIsKept, GapEnd, Gaps
<1>12. ASSUME syncing.pc = "listed" PROVE RangesAreFirst'
  <2>1. \A d \in Chats : Missed(d)' = InRange(d, syncing.given[d], syncing.before[d])
                                         \ (syncing.ranges \cup part)
    BY <1>1, <1>6 DEF Missed, InRange, chatVars
  <2>2. \A r \in part : r[1] = c
    BY <1>4, <1>5
  <2>3. \A r \in syncing.ranges : r[1] # c
    BY <1>1, <1>12 DEF RangesInv, RangesAreFirst
  <2>4. ASSUME NEW d \in Chats, d \in syncing'.todo PROVE \A r \in syncing'.ranges : r[1] # d
    BY <1>6, <1>12, <2>2, <2>4 DEF RangesInv, RangesAreFirst
  <2>5. ASSUME NEW d \in Chats, syncing.before[d] > 0, d \notin syncing'.todo \cup syncing.back,
               NEW m \in Missed(d)'
        PROVE  d \in more /\ \A r \in syncing'.ranges : r[1] = d => r[2] < m[2]
    <3>1. m \in InRange(d, syncing.given[d], syncing.before[d]) \ (syncing.ranges \cup part)
      BY <2>1, <2>5
    <3>2. CASE d = c
      <4>1. m \in found \ part
        BY <3>1, <3>2 DEF found
      <4>2. \A r \in part : r[2] < m[2]
        BY <1>2, <1>4, <4>1, FirstAreLow DEF part
      <4>3. QED
        BY <1>6, <2>3, <3>2, <4>1, <4>2
    <3>3. CASE d # c
      <4>1. m \in Missed(d) /\ d \notin syncing.todo \cup syncing.back
        BY <1>6, <2>5, <3>1, <3>3 DEF Missed
      <4>2. d \in syncing.more /\ \A r \in syncing.ranges : r[1] = d => r[2] < m[2]
        BY <1>12, <2>5, <4>1 DEF RangesInv, RangesAreFirst
      <4>3. QED
        BY <1>6, <2>2, <3>3, <4>2
    <3>4. QED
      BY <3>2, <3>3
  <2>6. QED
    BY <1>6, <2>4, <2>5 DEF RangesAreFirst
<1>13. RangesAreFirst'
  BY <1>6, <1>12 DEF RangesAreFirst
<1>14. QED
  BY <1>10, <1>11, <1>13 DEF RangesInv

LEMMA RangesStep == RangesInv /\ [RangesNext]_rangesVars => RangesInv'
<1> SUFFICES ASSUME RangesInv, [RangesNext]_rangesVars PROVE RangesInv'
  OBVIOUS
<1>1. CASE UNCHANGED rangesVars
  <2>1. UNCHANGED <<last, member, clear, hides, due, rows, userSyncCursor, syncing>>
    BY <1>1 DEF rangesVars, chatVars
  <2>2. RangesTypeOK'
    BY <2>1 DEF RangesInv, RangesTypeOK
  <2>3. RowsArePosted'
    BY <2>1 DEF RangesInv, RowsArePosted, Posted
  <2>4. PageIsKept'
    <3>1. Listed' = Listed
      BY <2>1 DEF Listed, Events
    <3>2. \A c \in Chats : GapEnd(c, Listed, syncing.given[c])'
                              = GapEnd(c, Listed, syncing.given[c])
      BY <2>1, <3>1 DEF GapEnd, Gaps
    <3>3. QED
      BY <2>1, <3>1, <3>2 DEF RangesInv, PageIsKept
  <2>5. RangesAreFirst'
    BY <2>1 DEF RangesInv, RangesAreFirst, Missed, InRange
  <2>6. QED
    BY <2>2, <2>3, <2>4, <2>5 DEF RangesInv
<1>2. QED
  BY <1>1, PostKeeps, HideKeeps, ProjectKeeps, EndKeeps, ListEventsKeeps, ReadRangeKeeps, Zenon
     DEF RangesNext

LEMMA RangesStart == RangesInit => RangesInv
<1> SUFFICES ASSUME RangesInit PROVE RangesInv
  OBVIOUS
<1>1. MaxPosted \in Nat /\ 0 \in 0..MaxPosted
  BY RangesAssumption
<1>2. rows = <<>> /\ due = {} /\ userSyncCursor = 0 /\ syncing = NotSyncing
  BY DEF RangesInit
<1>3. rows \in Seq(Messages \ due) /\ rows \in Seq(Posted \ due) /\ Len(rows) = 0
  BY <1>2, EmptySeq
<1>4. RangesTypeOK
  BY <1>1, <1>2, <1>3, NotSyncingType DEF RangesInit, RangesTypeOK
<1>5. RowsArePosted
  BY <1>2, <1>3 DEF RowsArePosted
<1>6. PageIsKept /\ RangesAreFirst
  BY <1>2, NotSyncingType DEF PageIsKept, RangesAreFirst
<1>7. QED
  BY <1>4, <1>5, <1>6 DEF RangesInv

\* A row of the feed is one of a message that was posted and is no longer due, the cursor is at
\* one of them, and what a range returns is below the event it leads to (sync, messageRange).
THEOREM RangesTyped == RangesSpec => []RangesTypeOK
<1>1. RangesInv => RangesTypeOK
  BY DEF RangesInv
<1>2. QED
  BY <1>1, RangesStart, RangesStep, PTL DEF RangesSpec

\* An answer to POST /sync leaves no gap below its events for any number of conversations and
\* any limits of a page and a range, in whichever order the events were projected and whatever
\* was posted, cleared or hidden between its statements (sync, findMissingRanges, messageRange).
THEOREM NoGapIsLeft == RangesSpec => []AnswersLeaveNoGap
<1>1. RangesInv => AnswersLeaveNoGap
  <2> SUFFICES ASSUME RangesInv, syncing.pc = "listed", syncing.todo = {},
                      NEW e \in Listed, e[1] \notin syncing.back,
                      NEW m \in InRange(e[1], syncing.given[e[1]], e[2]) \ (Listed \cup syncing.ranges)
               PROVE  /\ m[1] \in syncing.more
                      /\ \A r \in syncing.ranges : r[1] = m[1] => r[2] < m[2]
    BY DEF AnswersLeaveNoGap
  <2> DEFINE c == e[1]
  <2>1. e \in Messages /\ MaxPosted \in Nat
    BY ListedPosted, RangesAssumption DEF Posted
  <2>2. c \in Chats /\ e[2] \in 1..MaxPosted /\ e = <<c, e[2]>>
    BY <2>1 DEF Messages
  <2>3. syncing.given[c] \in Nat /\ syncing.before[c] \in Nat
    BY <2>2 DEF RangesInv, RangesTypeOK, Syncing
  <2>4. m \in {c} \X ((syncing.given[c] + 1)..(e[2] - 1))
    BY DEF InRange
  <2>5. m[1] = c /\ m[2] \in (syncing.given[c] + 1)..(e[2] - 1) /\ m = <<m[1], m[2]>>
    BY <2>4
  <2>6. e[2] \in Gaps(c, Listed, syncing.given[c])
    BY <2>1, <2>2, <2>3, <2>5 DEF Gaps
  <2>7. syncing.before[c] = GapEnd(c, Listed, syncing.given[c])
    BY <2>2 DEF RangesInv, PageIsKept
  <2>8. e[2] <= syncing.before[c]
    <3>1. Listed \in SUBSET Posted
      BY ListedPosted
    <3>2. \A n \in Gaps(c, Listed, syncing.given[c]) : n <= GapEnd(c, Listed, syncing.given[c])
      BY <2>1, <2>3, <3>1, GapEndType
    <3>3. QED
      BY <2>6, <2>7, <3>2
  <2>9. m \in Missed(c)
    <3>1. m[2] \in (syncing.given[c] + 1)..(syncing.before[c] - 1)
      BY <2>2, <2>3, <2>5, <2>8
    <3>2. QED
      BY <2>5, <3>1 DEF Missed, InRange
  <2>10. syncing.before[c] > 0
    BY <2>2, <2>3, <2>8
  <2>11. QED
    BY <2>2, <2>5, <2>9, <2>10 DEF RangesInv, RangesAreFirst
<1>2. QED
  BY <1>1, RangesStart, RangesStep, PTL DEF RangesSpec

-----------------------------------------------------------------------------
(* Pages                                                                  *)

\* The millisecond of a time.
LEMMA MilliDown ==
  ASSUME NEW t \in Nat
  PROVE  Milli(t) \in Nat /\ Milli(t) <= t
<1>1. Precision \in Nat /\ Precision > 0
  BY PagesAssumption
<1>2. t % Precision \in 0..(Precision - 1)
  BY <1>1
<1>3. t % Precision <= t
  BY <1>1
<1>4. QED
  BY <1>2, <1>3 DEF Milli

LEMMA MilliSame ==
  ASSUME NEW t \in Nat, NEW b \in Nat, Milli(t) <= b, b <= t
  PROVE  Milli(b) = Milli(t)
<1>1. Precision \in Nat /\ Precision > 0
  BY PagesAssumption
<1>2. QED
  BY <1>1 DEF Milli

LEMMA KeyParts ==
  ASSUME NEW k \in Keys
  PROVE  /\ k[1] \in {Unpinned} \cup Nat /\ k[1] \in Int
         /\ k[2] \in Nat /\ k[3] \in Rows /\ k[3] \in Int
<1>1. k[1] \in {Unpinned} \cup Nat /\ k[2] \in Nat /\ k[3] \in Rows
  BY DEF Keys
<1>2. QED
  BY <1>1 DEF Unpinned, Rows

\* Keys are ordered, strictly and totally.
LEMMA BelowOrder ==
  ASSUME NEW k \in Keys, NEW l \in Keys, NEW m \in Keys
  PROVE  /\ ~Below(k, k)
         /\ Below(k, l) /\ Below(l, m) => Below(k, m)
         /\ ~(Below(k, l) /\ Below(l, k))
         /\ k[3] # l[3] => Below(k, l) \/ Below(l, k)
         /\ ~Below(k, l) => k = l \/ Below(l, k)
<1>1. /\ k[1] \in Int /\ k[2] \in Int /\ k[3] \in Int /\ k = <<k[1], k[2], k[3]>>
      /\ l[1] \in Int /\ l[2] \in Int /\ l[3] \in Int /\ l = <<l[1], l[2], l[3]>>
      /\ m[1] \in Int /\ m[2] \in Int /\ m[3] \in Int
  BY DEF Keys, Unpinned, Rows
<1>2. QED
  BY <1>1 DEF Below

LEMMA RowsFinite == Rows \in SUBSET Nat /\ IsFiniteSet(Rows)
<1>1. MaxRow \in Nat
  BY PagesAssumption
<1>2. QED
  BY <1>1, FS_Interval DEF Rows

\* A set of rows has one with the lowest key.
LEMMA LowestKey ==
  ASSUME NEW S \in SUBSET Rows, S # {}, NEW key \in [Rows -> Keys], \A r \in Rows : key[r][3] = r
  PROVE  \E x \in S : \A y \in S \ {x} : Below(key[x], key[y])
<1>1. \A y \in S : key[y][1] \in {Unpinned} \cup Nat /\ key[y][2] \in Nat /\ key[y] \in Keys
  BY DEF Keys
<1> DEFINE A == {key[y][1] + 1 : y \in S}
<1>2. A \in SUBSET Nat /\ A # {}
  BY <1>1 DEF Unpinned
<1>3. PICK a \in S : \A y \in S : key[a][1] + 1 <= key[y][1] + 1
  <2>1. PICK least \in A : \A v \in A : least <= v
    BY <1>2, HasMin
  <2>2. QED
    BY <2>1
<1> DEFINE B == {key[y][2] : y \in {z \in S : key[z][1] = key[a][1]}}
<1>4. B \in SUBSET Nat /\ B # {}
  BY <1>1
<1>5. PICK b \in S : /\ key[b][1] = key[a][1]
                      /\ \A y \in S : key[y][1] = key[a][1] => key[b][2] <= key[y][2]
  <2>1. PICK least \in B : \A v \in B : least <= v
    BY <1>4, HasMin
  <2>2. QED
    BY <2>1
<1> DEFINE C == {z \in S : key[z][1] = key[a][1] /\ key[z][2] = key[b][2]}
<1>6. C \in SUBSET Nat /\ C # {}
  <2>1. b \in C
    BY <1>5
  <2>2. QED
    BY <2>1, RowsFinite
<1>7. PICK x \in C : \A y \in C : x <= y
  BY <1>6, HasMin
<1>8. ASSUME NEW y \in S \ {x} PROVE Below(key[x], key[y])
  <2>1. key[a][1] <= key[y][1] /\ key[x][1] = key[a][1] /\ key[a][1] \in Int /\ key[y][1] \in Int
    BY <1>1, <1>3, <1>7 DEF Unpinned
  <2>2. key[y][1] = key[a][1] => key[x][2] <= key[y][2]
    BY <1>5, <1>7
  <2>3. key[y][1] = key[a][1] /\ key[y][2] = key[x][2] => x < y
    BY <1>7 DEF Rows
  <2>4. key[x][3] = x /\ key[y][3] = y /\ key[x][2] \in Nat /\ key[y][2] \in Nat
    BY <1>1, <1>7
  <2>5. QED
    BY <2>1, <2>2, <2>3, <2>4 DEF Below
<1>9. QED
  BY <1>7, <1>8

InOrder(s, key) == \A i, j \in DOMAIN s : i < j => Below(key[s[j]], key[s[i]])

\* Rows of different keys can be put in order.
LEMMA CanOrder ==
  ASSUME NEW S \in SUBSET Rows, NEW key \in [Rows -> Keys], \A r \in Rows : key[r][3] = r
  PROVE  \E s \in [1..Cardinality(S) -> S] : InOrder(s, key)
<1> DEFINE Bad(n) == \E T \in SUBSET Rows : /\ Cardinality(T) = n
                                             /\ \A s \in [1..n -> T] : ~InOrder(s, key)
           bad == {n \in Nat : Bad(n)}
<1>1. \A T \in SUBSET Rows : IsFiniteSet(T) /\ Cardinality(T) \in Nat
  BY RowsFinite, FS_Subset, FS_CardinalityType
<1>2. SUFFICES ASSUME bad # {} PROVE FALSE
  BY <1>1
<1>3. PICK n \in bad : \A k \in bad : n <= k
  BY <1>2, HasMin
<1>4. PICK T \in SUBSET Rows : Cardinality(T) = n /\ \A s \in [1..n -> T] : ~InOrder(s, key)
  BY <1>3
<1>5. CASE n = 0
  <2> DEFINE s == [i \in 1..n |-> CHOOSE r \in T : TRUE]
  <2>1. s \in [1..n -> T] /\ InOrder(s, key)
    BY <1>5 DEF InOrder
  <2>2. QED
    BY <1>4, <2>1
<1>6. CASE n # 0
  <2>1. T # {}
    BY <1>4, <1>6, FS_EmptySet
  <2>2. PICK x \in T : \A y \in T \ {x} : Below(key[x], key[y])
    BY <2>1, LowestKey
  <2>3. T \ {x} \in SUBSET Rows /\ Cardinality(T \ {x}) = n - 1
    BY <1>1, <1>4, FS_RemoveElement
  <2>4. n - 1 \in Nat /\ n - 1 \notin bad
    BY <1>3, <1>6
  <2>5. PICK s \in [1..(n - 1) -> T \ {x}] : InOrder(s, key)
    BY <2>3, <2>4
  <2> DEFINE t == [i \in 1..n |-> IF i = n THEN x ELSE s[i]]
  <2>6. t \in [1..n -> T]
    <3>1. \A i \in 1..n : i # n => i \in 1..(n - 1)
      BY <2>4
    <3>2. QED
      BY <2>5, <3>1
  <2>7. ASSUME NEW i \in 1..n, NEW j \in 1..n, i < j PROVE Below(key[t[j]], key[t[i]])
    <3>1. i \in 1..(n - 1) /\ t[i] = s[i] /\ s[i] \in T \ {x}
      BY <2>4, <2>5, <2>7
    <3>2. CASE j = n
      BY <2>2, <3>1, <3>2
    <3>3. CASE j # n
      <4>1. j \in 1..(n - 1) /\ t[j] = s[j]
        BY <2>4, <3>3
      <4>2. QED
        BY <2>5, <2>7, <3>1, <4>1 DEF InOrder
    <3>4. QED
      BY <3>2, <3>3
  <2>8. InOrder(t, key)
    BY <2>7 DEF InOrder
  <2>9. QED
    BY <1>4, <2>6, <2>8
<1>7. QED
  BY <1>5, <1>6

\* What the database answers: every row of the set, once, in order.
LEMMA Ordered ==
  ASSUME NEW S \in SUBSET Rows, NEW key \in [Rows -> Keys], \A r \in Rows : key[r][3] = r
  PROVE  LET s == Descending(S, key)
         IN  /\ s \in Seq(S) /\ DOMAIN s = 1..Len(s) /\ Len(s) \in Nat
             /\ \A i, j \in 1..Len(s) : i < j => Below(key[s[j]], key[s[i]])
             /\ \A i, j \in 1..Len(s) : i < j => s[i] # s[j]
             /\ \A r \in S : \E i \in 1..Len(s) : s[i] = r
<1> DEFINE s == Descending(S, key)
           n == Cardinality(S)
<1>1. IsFiniteSet(S) /\ n \in Nat
  BY RowsFinite, FS_Subset, FS_CardinalityType
<1>2. s \in [1..n -> S] /\ InOrder(s, key)
  BY CanOrder DEF Descending, InOrder
<1> HIDE DEF s
<1>3. s \in Seq(S) /\ Len(s) = n /\ DOMAIN s = 1..n
  BY <1>1, <1>2, IsASeq, LenProperties
<1>4. ASSUME NEW i \in 1..n, NEW j \in 1..n, i < j
      PROVE  Below(key[s[j]], key[s[i]]) /\ s[i] # s[j]
  <2>1. Below(key[s[j]], key[s[i]])
    BY <1>2, <1>4 DEF InOrder
  <2>2. key[s[i]] \in Keys /\ key[s[j]] \in Keys
    BY <1>2
  <2>3. QED
    BY <2>1, <2>2, BelowOrder
<1>5. ASSUME NEW r \in S, \A i \in 1..n : s[i] # r PROVE FALSE
  <2>1. s \in [1..n -> S \ {r}]
    BY <1>2, <1>5
  <2>2. IsFiniteSet(1..n) /\ Cardinality(1..n) = n
    BY <1>1, FS_Interval
  <2>3. IsFiniteSet(S \ {r}) /\ Cardinality(S \ {r}) = n - 1
    BY <1>1, FS_RemoveElement
  <2>4. \E i, j \in 1..n : i # j /\ s[i] = s[j]
    BY <1>1, <2>1, <2>2, <2>3, FS_PigeonHole
  <2>5. \A i, j \in 1..n : i # j => i < j \/ j < i
    BY <1>1
  <2>6. QED
    BY <1>4, <2>4, <2>5
<1>6. QED
  BY <1>1, <1>3, <1>4, <1>5 DEF s

-----------------------------------------------------------------------------
(* What holds of a walk in every state.                                    *)

\* What the current list is ordered by.
KeyOf == IF list = "conversations" THEN ConversationKeys ELSE CreationKeys

WalkTypeOK ==
  /\ list \in Lists /\ now \in Nat /\ row \in [Rows -> Row] /\ walk \in Walk
  /\ (walk.pc = "idle" => walk = NoWalk) /\ (walk.pc = "paging" => walk.ends # <<>>)

\* joined_at has no microseconds; only conversations are pinned.
RowsOfList ==
  \A r \in Rows : /\ list = "members" => row[r].at = Milli(row[r].at)
                  /\ list # "conversations" => row[r].pinned = Unpinned

LastEnd == walk.ends[Len(walk.ends)]

\* What was listed is above the cursor, as long as nothing changes it.
ListedAbove ==
  walk.pc = "paging" =>
    \A i \in DOMAIN walk.got : walk.got[i] \notin walk.moved => ~Below(KeyOf[walk.got[i]], LastEnd)

MayMiss(r) ==
  /\ list # "members"
  /\ \E i \in DOMAIN walk.ends : /\ walk.ends[i][1] = row[r].pinned
                                 /\ walk.ends[i][2] = Milli(row[r].at)
                                 /\ walk.ends[i][3] # r

\* What was not listed is below the cursor, or lost to the milliseconds.
RestBelow ==
  walk.pc # "idle" =>
    \A r \in Untouched \ Got : (walk.pc = "paging" /\ Below(KeyOf[r], LastEnd)) \/ MayMiss(r)

WalkInv ==
  PagesTypeOK /\ WalkTypeOK /\ RowsOfList /\ UntouchedListedOnce /\ ListedAbove /\ RestBelow

LEMMA KeyTypes ==
  ASSUME WalkTypeOK
  PROVE  KeyOf \in [Rows -> Keys] /\ \A r \in Rows : KeyOf[r][3] = r /\ KeyOf[r][2] = row[r].at
  BY DEF WalkTypeOK, Row, KeyOf, ConversationKeys, CreationKeys, Keys, Unpinned

\* A cursor is not above its row, and at most the millisecond separates them.
LEMMA CutDown ==
  ASSUME NEW key \in Keys
  PROVE  /\ Cut(key) \in Keys /\ ~Below(key, Cut(key))
         /\ \A k \in Keys : Below(k, key) /\ ~Below(k, Cut(key)) =>
              /\ Cut(key) # key /\ k[1] = key[1] /\ Milli(k[2]) = Milli(key[2])
<1>1. /\ key[1] \in {Unpinned} \cup Nat /\ key[2] \in Nat /\ key[3] \in Rows
      /\ key[1] \in Int /\ key[3] \in Int
  BY KeyParts
<1>2. Milli(key[2]) \in Nat /\ Milli(key[2]) <= key[2]
  BY <1>1, MilliDown
<1> DEFINE e == Cut(key)
<1>3. e \in Keys /\ e[1] = key[1] /\ e[2] = Milli(key[2]) /\ e[3] = key[3]
  BY <1>1, <1>2 DEF Cut, Keys
<1> HIDE DEF e
<1>4. ~Below(key, e)
  BY <1>1, <1>2, <1>3 DEF Below
<1>5. ASSUME NEW k \in Keys, Below(k, key), ~Below(k, e)
      PROVE  e # key /\ k[1] = key[1] /\ Milli(k[2]) = Milli(key[2])
  <2>1. k[1] \in Int /\ k[2] \in Nat /\ k[3] \in Int
    BY KeyParts
  <2>2. k[1] = key[1] /\ Milli(key[2]) <= k[2] /\ k[2] <= key[2]
    BY <1>1, <1>2, <1>3, <1>5, <2>1 DEF Below
  <2>3. QED
    BY <1>1, <1>5, <2>1, <2>2, MilliSame
<1>6. QED
  BY <1>3, <1>4, <1>5 DEF e

\* What is found of the rest, the first of it as the page: each row once and in order, all of
\* it if the page has room, and else the rows that are not below the page's last.
IsPage(rest, found, size, page) ==
  /\ page \in Seq(Rows) /\ Len(page) = size /\ size \in Nat
  /\ \A i \in 1..size : page[i] \in rest
  /\ \A i, j \in 1..size : i < j => page[i] # page[j]
  /\ ~(Len(found) > PageSize) => \A r \in rest : \E i \in 1..size : page[i] = r
  /\ Len(found) > PageSize =>
       /\ LastOf(found) \in rest
       /\ \A i \in 1..size : ~Below(KeyOf[page[i]], KeyOf[LastOf(found)])
       /\ \A r \in rest :
            (\E i \in 1..size : page[i] = r) \/ Below(KeyOf[r], KeyOf[LastOf(found)])

LEMMA PageIs ==
  ASSUME WalkTypeOK, NEW rest \in SUBSET Rows, NEW found, found = Descending(rest, KeyOf),
         NEW size, size = (IF Len(found) > PageSize THEN PageSize ELSE Len(found)),
         NEW page, page = SubSeq(found, 1, size)
  PROVE  IsPage(rest, found, size, page)
<1>1. /\ found \in Seq(rest) /\ Len(found) \in Nat
      /\ \A i, j \in 1..Len(found) : i < j => Below(KeyOf[found[j]], KeyOf[found[i]])
      /\ \A i, j \in 1..Len(found) : i < j => found[i] # found[j]
      /\ \A r \in rest : \E i \in 1..Len(found) : found[i] = r
  <2>1. KeyOf \in [Rows -> Keys] /\ \A r \in Rows : KeyOf[r][3] = r
    BY KeyTypes
  <2> DEFINE s == Descending(rest, KeyOf)
  <2>2. /\ s \in Seq(rest) /\ Len(s) \in Nat
        /\ \A i, j \in 1..Len(s) : i < j => Below(KeyOf[s[j]], KeyOf[s[i]])
        /\ \A i, j \in 1..Len(s) : i < j => s[i] # s[j]
        /\ \A r \in rest : \E i \in 1..Len(s) : s[i] = r
    BY <2>1, Ordered
  <2>3. found = s
    OBVIOUS
  <2> HIDE DEF s
  <2>4. QED
    BY <2>2, <2>3
<1>2. PageSize \in Nat /\ PageSize # 0
  BY PagesAssumption
<1>3. size \in Nat /\ size <= Len(found)
  BY <1>1, <1>2
<1>4. /\ page \in Seq(rest) /\ Len(page) = size
      /\ \A i \in 1..size : page[i] = found[i]
  BY <1>1, <1>3, SubSeqProperties
<1>5. page \in Seq(Rows)
  BY <1>4, SeqMonotonic
<1>6. \A i \in 1..size : i \in 1..Len(found) /\ found[i] \in rest
  <2>1. \A i \in 1..Len(found) : found[i] \in rest
    BY <1>1, ElementOfSeq
  <2>2. QED
    BY <1>1, <1>3, <2>1
<1>7. \A i, j \in 1..size : i < j => page[i] # page[j]
  <2>1. TAKE i, j \in 1..size
  <2>2. HAVE i < j
  <2>3. i \in 1..Len(found) /\ j \in 1..Len(found)
    BY <1>6
  <2>4. found[i] # found[j]
    BY <1>1, <2>2, <2>3
  <2>5. QED
    BY <1>4, <2>4
<1>8. ASSUME Len(found) > PageSize
      PROVE  /\ LastOf(found) \in rest
             /\ \A i \in 1..size : ~Below(KeyOf[page[i]], KeyOf[LastOf(found)])
             /\ \A r \in rest : (\E i \in 1..size : page[i] = r)
                                 \/ Below(KeyOf[r], KeyOf[LastOf(found)])
  <2>1. size = PageSize /\ size \in 1..Len(found) /\ LastOf(found) = found[size]
    BY <1>2, <1>3, <1>8 DEF LastOf
  <2>2. \A r \in rest : KeyOf[r] \in Keys
    BY KeyTypes
  <2>3. ASSUME NEW i \in 1..size PROVE ~Below(KeyOf[page[i]], KeyOf[found[size]])
    <3>1. page[i] = found[i] /\ found[i] \in rest /\ found[size] \in rest /\ i \in 1..Len(found)
      BY <1>4, <1>6, <2>1
    <3>2. i = size \/ Below(KeyOf[found[size]], KeyOf[found[i]])
      <4>1. i # size => i < size
        BY <1>3, <2>1
      <4>2. QED
        BY <1>1, <2>1, <3>1, <4>1
    <3>3. KeyOf[found[i]] \in Keys /\ KeyOf[found[size]] \in Keys
      BY <2>2, <3>1
    <3>4. CASE i = size
      BY <3>1, <3>3, <3>4, BelowOrder
    <3>5. CASE Below(KeyOf[found[size]], KeyOf[found[i]])
      BY <3>1, <3>3, <3>5, BelowOrder
    <3>6. QED
      BY <3>2, <3>4, <3>5
  <2>4. ASSUME NEW r \in rest
        PROVE  (\E i \in 1..size : page[i] = r) \/ Below(KeyOf[r], KeyOf[found[size]])
    <3>1. PICK i \in 1..Len(found) : found[i] = r
      BY <1>1
    <3>2. i \in 1..size \/ size < i
      BY <1>1, <1>3
    <3>3. QED
      BY <1>1, <1>4, <2>1, <3>1, <3>2
  <2>5. QED
    BY <1>6, <2>1, <2>3, <2>4
<1>9. ~(Len(found) > PageSize) => \A r \in rest : \E i \in 1..size : page[i] = r
  BY <1>1, <1>4
<1>10. QED
  BY <1>3, <1>4, <1>5, <1>6, <1>7, <1>8, <1>9 DEF IsPage

LEMMA NoWalkType ==
  /\ NoWalk \in Walk /\ NoWalk.pc = "idle" /\ NoWalk.got = <<>> /\ NoWalk.ends = <<>>
  /\ NoWalk.moved = {} /\ DOMAIN NoWalk.got = {}
  BY EmptySeq DEF NoWalk, Walk

\* A row is written: what was listed of it, or was to be, no longer counts.
LEMMA ChangeKeeps ==
  ASSUME WalkInv, NEW r \in Rows, NEW new \in Row, Change(r, new),
         list = "members" => new.at = Milli(new.at),
         list # "conversations" => new.pinned = Unpinned,
         new.at <= now, new.pinned <= now
  PROVE  WalkInv'
<1>1. /\ row' = [row EXCEPT ![r] = new] /\ list' = list /\ now' = now
      /\ walk' = [walk EXCEPT !.moved = IF walk.pc = "idle" THEN {} ELSE @ \cup {r}]
      /\ walk.pc # "done"
  BY DEF Change
<1>2. WalkTypeOK /\ walk \in Walk
  BY DEF WalkInv, WalkTypeOK
<1>3. /\ row' \in [Rows -> Row] /\ row'[r] = new
      /\ \A x \in Rows \ {r} : row'[x] = row[x]
  BY <1>1, <1>2 DEF WalkTypeOK
<1>4. RowsOfList'
  BY <1>1, <1>3 DEF WalkInv, RowsOfList
<1> DEFINE InTime == \A x \in Rows : row[x].at <= now /\ row[x].pinned <= now
<1>8. InTime' /\ list' \in Lists /\ now' \in 0..MaxTime
  BY <1>1, <1>3 DEF WalkInv, PagesTypeOK
<1>5. CASE walk.pc = "idle"
  <2>1. walk' = NoWalk
    <3>1. walk = NoWalk /\ walk.moved = {}
      BY <1>2, <1>5, NoWalkType, Zenon DEF WalkTypeOK
    <3>2. walk' = [walk EXCEPT !.moved = walk.moved]
      BY <1>1, <1>5, <3>1
    <3>3. QED
      BY <1>2, <3>1, <3>2 DEF Walk
  <2>2. WalkTypeOK'
    BY <1>1, <1>2, <1>3, <2>1, NoWalkType DEF WalkTypeOK
  <2>5. PagesTypeOK'
    <3>1. walk' = walk
      BY <1>2, <1>5, <2>1, Zenon DEF WalkTypeOK
    <3>2. QED
      BY <1>3, <1>8, <3>1 DEF WalkInv, PagesTypeOK
  <2>3. UntouchedListedOnce' /\ ListedAbove' /\ RestBelow'
    BY <2>1, NoWalkType DEF UntouchedListedOnce, ListedAbove, RestBelow
  <2>4. QED
    BY <1>4, <2>2, <2>3, <2>5 DEF WalkInv
<1>6. CASE walk.pc # "idle"
  <2>1. /\ walk'.pc = walk.pc /\ walk'.ends = walk.ends /\ walk'.got = walk.got
        /\ walk'.moved = walk.moved \cup {r} /\ walk' \in Walk
    BY <1>1, <1>2, <1>6 DEF Walk
  <2>2. WalkTypeOK'
    BY <1>1, <1>2, <1>3, <1>6, <2>1 DEF WalkTypeOK
  <2>12. PagesTypeOK'
    BY <1>3, <1>8, <2>1 DEF WalkInv, PagesTypeOK
  <2>3. UntouchedListedOnce'
    BY <2>1 DEF WalkInv, UntouchedListedOnce
  <2>4. \A x \in Rows \ {r} : KeyOf'[x] = KeyOf[x]
    BY <1>1, <1>3 DEF KeyOf, ConversationKeys, CreationKeys
  <2>5. \A i \in DOMAIN walk.got : walk.got[i] \in Rows
    BY <1>2, ElementOfSeq, LenProperties DEF Walk
  <2>6. ListedAbove'
    BY <2>1, <2>4, <2>5 DEF WalkInv, ListedAbove, LastEnd
  <2>7. Got' = Got
    BY <2>1 DEF Got
  <2>8. \A x \in Untouched' : x \in Untouched /\ x \in Rows \ {r}
    BY <1>3, <2>1 DEF Untouched
  <2>9. \A x \in Rows \ {r} : MayMiss(x)' <=> MayMiss(x)
    BY <1>1, <1>3, <2>1 DEF MayMiss
  <2>10. RestBelow'
    <3>1. SUFFICES ASSUME NEW x \in Untouched' \ Got'
                   PROVE  (walk.pc = "paging" /\ Below(KeyOf'[x], LastEnd)) \/ MayMiss(x)'
      BY <2>1 DEF RestBelow, LastEnd
    <3>2. x \in Untouched \ Got /\ x \in Rows \ {r}
      BY <2>7, <2>8
    <3>3. (walk.pc = "paging" /\ Below(KeyOf[x], LastEnd)) \/ MayMiss(x)
      BY <1>6, <3>2 DEF WalkInv, RestBelow
    <3>4. QED
      BY <2>4, <2>9, <3>2, <3>3
  <2>11. QED
    BY <1>4, <2>2, <2>3, <2>6, <2>10, <2>12 DEF WalkInv
<1>7. QED
  BY <1>5, <1>6

LEMMA StartsType ==
  ASSUME now \in Nat, NEW t \in Starts
  PROVE  t \in Nat /\ Milli(t) \in Nat /\ Milli(Milli(t)) = Milli(t) /\ t <= now /\ Milli(t) <= now
<1>1. Max({0, now - 1}) \in Nat /\ Max({0, now - 1}) <= now
  <2>1. \E x \in {0, now - 1} : \A y \in {0, now - 1} : x >= y
    <3>1. CASE now = 0
      BY <3>1
    <3>2. CASE now # 0
      <4>1. now - 1 >= 0 /\ now - 1 >= now - 1
        BY <3>2
      <4>2. QED
        BY <4>1
    <3>3. QED
      BY <3>1, <3>2
  <2>2. Max({0, now - 1}) \in {0, now - 1} /\ \A y \in {0, now - 1} : Max({0, now - 1}) >= y
    BY <2>1, Zenon DEF Max
  <2>3. QED
    BY <2>2
<1>2. t \in Nat /\ t <= now
  BY <1>1 DEF Starts
<1>3. QED
  BY <1>2, MilliDown, MilliSame

LEMMA RowsKeep ==
  ASSUME WalkInv, NEW r \in Rows,
         Create(r) \/ Disappear(r) \/ MessageArrives(r) \/ SystemMessage(r) \/ Pin(r) \/ Unpin(r)
  PROVE  WalkInv'
<1>1. row[r] \in Row /\ now \in Nat /\ row[r].at <= now /\ row[r].pinned <= now /\ Unpinned <= now
  BY DEF WalkInv, WalkTypeOK, PagesTypeOK, Unpinned
<1>2. /\ list = "members" => row[r].at = Milli(row[r].at)
      /\ list # "conversations" => row[r].pinned = Unpinned
  BY DEF WalkInv, RowsOfList
<1>3. CASE Create(r)
  <2>1. PICK t \in Starts :
          Change(r, [made |-> TRUE, shown |-> TRUE, pinned |-> Unpinned,
                     at |-> IF list = "members" THEN Milli(t) ELSE t])
    BY <1>3 DEF Create
  <2> DEFINE at == IF list = "members" THEN Milli(t) ELSE t
             new == [made |-> TRUE, shown |-> TRUE, pinned |-> Unpinned, at |-> at]
  <2>2. at \in Nat /\ at <= now /\ (list = "members" => at = Milli(at))
    BY <1>1, StartsType
  <2>3. new \in Row /\ new.at = at /\ new.pinned = Unpinned
    BY <2>2 DEF Row
  <2>4. Change(r, new)
    BY <2>1
  <2> HIDE DEF new, at
  <2>5. QED
    BY <1>1, <2>2, <2>3, <2>4, ChangeKeeps
<1>4. CASE Disappear(r)
  <2> DEFINE new == [row[r] EXCEPT !.shown = FALSE]
  <2>1. new \in Row /\ new.at = row[r].at /\ new.pinned = row[r].pinned
    BY <1>1 DEF Row
  <2>2. Change(r, new)
    BY <1>4 DEF Disappear
  <2> HIDE DEF new
  <2>3. QED
    BY <1>1, <1>2, <2>1, <2>2, ChangeKeeps
<1>5. CASE MessageArrives(r) \/ SystemMessage(r)
  <2>1. PICK t \in Starts :
          \E v \in {[row[r] EXCEPT !.at = Milli(t), !.shown = TRUE], [row[r] EXCEPT !.at = Milli(t)]} :
            Change(r, v)
    BY <1>5 DEF MessageArrives, SystemMessage
  <2>2. Milli(t) \in Nat /\ Milli(t) <= now
    BY <1>1, StartsType
  <2>3. PICK new \in Row : Change(r, new) /\ new.at <= now /\ new.pinned <= now
    <3>1. PICK v \in {[row[r] EXCEPT !.at = Milli(t), !.shown = TRUE],
                      [row[r] EXCEPT !.at = Milli(t)]} : Change(r, v)
      BY <2>1
    <3>2. v \in Row /\ v.at = Milli(t) /\ v.pinned = row[r].pinned
      BY <1>1, <2>2 DEF Row
    <3>3. QED
      BY <1>1, <2>2, <3>1, <3>2
  <2>4. list = "conversations"
    BY <1>5 DEF MessageArrives, SystemMessage
  <2>5. QED
    BY <2>3, <2>4, ChangeKeeps
<1>6. CASE Pin(r) \/ Unpin(r)
  <2>1. PICK new \in {[row[r] EXCEPT !.pinned = Milli(now)], [row[r] EXCEPT !.pinned = Unpinned]} :
          Change(r, new)
    BY <1>6 DEF Pin, Unpin
  <2>2. Milli(now) \in Nat /\ Milli(now) <= now
    BY <1>1, MilliDown
  <2>3. new \in Row /\ new.at <= now /\ new.pinned <= now
    BY <1>1, <2>1, <2>2 DEF Row
  <2>4. list = "conversations"
    BY <1>6 DEF Pin, Unpin
  <2>5. QED
    BY <2>1, <2>3, <2>4, ChangeKeeps
<1>7. QED
  BY <1>3, <1>4, <1>5, <1>6

\* A cursor for a row misses at most rows of its millisecond.
LEMMA CursorMisses ==
  ASSUME WalkTypeOK, RowsOfList, NEW z \in Rows, NEW r \in Rows, Below(KeyOf[r], KeyOf[z])
  PROVE  \/ Below(KeyOf[r], Cut(KeyOf[z]))
         \/ /\ list # "members" /\ Cut(KeyOf[z])[1] = row[r].pinned
            /\ Cut(KeyOf[z])[2] = Milli(row[r].at) /\ Cut(KeyOf[z])[3] # r
<1>1. /\ KeyOf[r] \in Keys /\ KeyOf[z] \in Keys /\ KeyOf[r][3] = r /\ KeyOf[z][3] = z
      /\ KeyOf[r][2] = row[r].at /\ KeyOf[z][2] = row[z].at
  BY KeyTypes
<1>2. SUFFICES ASSUME ~Below(KeyOf[r], Cut(KeyOf[z]))
               PROVE  /\ list # "members" /\ Cut(KeyOf[z])[1] = row[r].pinned
                      /\ Cut(KeyOf[z])[2] = Milli(row[r].at) /\ Cut(KeyOf[z])[3] # r
  OBVIOUS
<1>3. /\ Cut(KeyOf[z]) # KeyOf[z] /\ KeyOf[r][1] = KeyOf[z][1]
      /\ Milli(KeyOf[r][2]) = Milli(KeyOf[z][2])
  BY <1>1, <1>2, CutDown
<1>4. Cut(KeyOf[z]) = <<KeyOf[z][1], Milli(KeyOf[z][2]), KeyOf[z][3]>>
  BY DEF Cut
<1>5. r # z
  BY <1>1, BelowOrder
<1>6. KeyOf[r][1] = row[r].pinned
  BY DEF KeyOf, ConversationKeys, CreationKeys, RowsOfList
<1>7. list # "members"
  <2>1. KeyOf[z] = <<KeyOf[z][1], KeyOf[z][2], KeyOf[z][3]>>
    BY <1>1 DEF Keys
  <2>2. KeyOf[z][2] # Milli(KeyOf[z][2])
    BY <1>3, <1>4, <2>1
  <2>3. QED
    BY <1>1, <2>2 DEF RowsOfList
<1>8. QED
  BY <1>1, <1>3, <1>4, <1>5, <1>6, <1>7

LEMMA ReadPageKeeps ==
  ASSUME WalkInv, ReadPage(KeyOf)
  PROVE  WalkInv'
<1> DEFINE ends == walk.ends
           rest == {r \in Rows : row[r].shown /\ (ends # <<>> => Below(KeyOf[r], ends[Len(ends)]))}
           found == Descending(rest, KeyOf)
           size == IF Len(found) > PageSize THEN PageSize ELSE Len(found)
           page == SubSeq(found, 1, size)
           z == LastOf(found)
           e == Cut(KeyOf[z])
           got == walk.got \o page
<1>1. /\ walk.pc # "done" /\ UNCHANGED <<list, now, row>>
      /\ walk' = [walk EXCEPT
           !.pc = IF Len(found) > PageSize THEN "paging" ELSE "done",
           !.ends = IF Len(found) > PageSize THEN Append(ends, e) ELSE ends,
           !.got = got]
  BY DEF ReadPage, WalkInv, WalkTypeOK, Walk
<1>2. WalkTypeOK /\ RowsOfList /\ walk \in Walk /\ rest \in SUBSET Rows
      /\ \A r \in Rows : r \in rest <=>
           row[r].shown /\ (ends # <<>> => Below(KeyOf[r], ends[Len(ends)]))
  BY DEF WalkInv, WalkTypeOK
<1> HIDE DEF rest
<1>a. found = Descending(rest, KeyOf)
  OBVIOUS
<1> HIDE DEF found
<1>b. size = (IF Len(found) > PageSize THEN PageSize ELSE Len(found))
  OBVIOUS
<1> HIDE DEF size
<1>c. page = SubSeq(found, 1, size) /\ z = LastOf(found)
  OBVIOUS
<1> HIDE DEF page, z
<1>3. /\ page \in Seq(Rows) /\ Len(page) = size /\ size \in Nat
      /\ \A i \in 1..size : page[i] \in rest
      /\ \A i, j \in 1..size : i < j => page[i] # page[j]
      /\ ~(Len(found) > PageSize) => \A r \in rest : \E i \in 1..size : page[i] = r
      /\ Len(found) > PageSize =>
           /\ z \in rest
           /\ \A i \in 1..size : ~Below(KeyOf[page[i]], KeyOf[z])
           /\ \A r \in rest : (\E i \in 1..size : page[i] = r) \/ Below(KeyOf[r], KeyOf[z])
  <2>1. WalkTypeOK /\ rest \in SUBSET Rows /\ page = SubSeq(found, 1, size)
    BY <1>2, <1>c
  <2>2. IsPage(rest, found, size, page)
    BY <1>a, <1>b, <2>1, PageIs
  <2>3. z = LastOf(found)
    BY <1>c
  <2>4. QED
    BY <2>2, <2>3 DEF IsPage
<1>4. /\ walk.pc \in {"idle", "paging"} /\ ends \in Seq(Keys) /\ Len(ends) \in Nat
      /\ walk.got \in Seq(Rows) /\ Len(walk.got) \in Nat /\ DOMAIN walk.got = 1..Len(walk.got)
      /\ DOMAIN ends = 1..Len(ends)
  BY <1>1, <1>2, LenProperties DEF Walk
<1>5. walk.pc = "idle" => walk.got = <<>> /\ ends = <<>>
  BY <1>2, NoWalkType, Zenon DEF WalkTypeOK
<1>6. walk.pc = "paging" => ends # <<>> /\ LastEnd \in Keys /\ LastEnd = ends[Len(ends)]
  BY <1>2, <1>4, ElementOfSeq, EmptySeq DEF WalkTypeOK, LastEnd
<1>7. \A r \in Rows : r \in rest <=>
        row[r].shown /\ (walk.pc = "paging" => Below(KeyOf[r], LastEnd))
  BY <1>2, <1>4, <1>5, <1>6
<1>8. /\ got \in Seq(Rows) /\ DOMAIN got = 1..Len(got) /\ Len(got) = Len(walk.got) + size
      /\ \A i \in 1..Len(walk.got) : got[i] = walk.got[i]
      /\ \A i \in 1..size : got[Len(walk.got) + i] = page[i]
      /\ \A i \in 1..Len(got) : i \in 1..Len(walk.got)
                                \/ \E j \in 1..size : i = Len(walk.got) + j
  <2>1. /\ got \in Seq(Rows) /\ Len(got) = Len(walk.got) + Len(page)
        /\ \A i \in 1..(Len(walk.got) + Len(page)) :
             got[i] = IF i <= Len(walk.got) THEN walk.got[i] ELSE page[i - Len(walk.got)]
    <3>1. walk.got \in Seq(Rows) /\ page \in Seq(Rows)
      BY <1>3, <1>4
    <3>2. QED
      BY <3>1, ConcatProperties, Zenon
  <2>2. DOMAIN got = 1..Len(got)
    BY <2>1, LenProperties
  <2> HIDE DEF got
  <2>3. \A i \in 1..Len(walk.got) : got[i] = walk.got[i]
    BY <1>3, <1>4, <2>1
  <2>4. \A i \in 1..size : got[Len(walk.got) + i] = page[i]
    <3>1. TAKE i \in 1..size
    <3>2. /\ Len(walk.got) + i \in 1..(Len(walk.got) + Len(page))
          /\ ~(Len(walk.got) + i <= Len(walk.got)) /\ (Len(walk.got) + i) - Len(walk.got) = i
      BY <1>3, <1>4
    <3>3. QED
      BY <2>1, <3>2
  <2>5. \A i \in 1..Len(got) : i \in 1..Len(walk.got) \/ \E j \in 1..size : i = Len(walk.got) + j
    <3>1. TAKE i \in 1..Len(got)
    <3>2. CASE i <= Len(walk.got)
      BY <1>4, <3>2
    <3>3. CASE ~(i <= Len(walk.got))
      <4>1. i - Len(walk.got) \in 1..size /\ i = Len(walk.got) + (i - Len(walk.got))
        BY <1>3, <1>4, <2>1, <3>3
      <4>2. QED
        BY <4>1
    <3>4. QED
      BY <3>2, <3>3
  <2>6. QED
    BY <1>3, <2>1, <2>2, <2>3, <2>4, <2>5
<1>9. Len(found) > PageSize => z \in Rows /\ KeyOf[z] \in Keys /\ e \in Keys
  BY <1>2, <1>3, KeyTypes, CutDown
<1> HIDE DEF e, got
<1>10. /\ walk'.pc = (IF Len(found) > PageSize THEN "paging" ELSE "done")
       /\ walk'.ends = (IF Len(found) > PageSize THEN Append(ends, e) ELSE ends)
       /\ walk'.got = got /\ walk'.moved = walk.moved
  BY <1>1, <1>2 DEF Walk
<1>11. /\ \A i \in 1..Len(ends) : i \in DOMAIN walk'.ends /\ walk'.ends[i] = ends[i]
       /\ walk'.ends \in Seq(Keys)
       /\ Len(found) > PageSize =>
            /\ walk'.ends # <<>> /\ LastEnd' = e
            /\ Len(ends) + 1 \in DOMAIN walk'.ends /\ walk'.ends[Len(ends) + 1] = e
  <2>1. CASE Len(found) > PageSize
    <3>1. walk'.ends = Append(ends, e) /\ e \in Keys
      BY <1>9, <1>10, <2>1
    <3>2. /\ walk'.ends \in Seq(Keys) /\ walk'.ends # <<>> /\ Len(walk'.ends) = Len(ends) + 1
          /\ \A i \in 1..Len(ends) : walk'.ends[i] = ends[i]
          /\ walk'.ends[Len(ends) + 1] = e
      BY <1>4, <3>1, AppendProperties
    <3>3. DOMAIN walk'.ends = 1..(Len(ends) + 1)
      BY <3>2, LenProperties
    <3>4. LastEnd' = e
      BY <3>2 DEF LastEnd
    <3>5. QED
      BY <1>4, <3>2, <3>3, <3>4
  <2>2. CASE ~(Len(found) > PageSize)
    BY <1>4, <1>10, <2>2
  <2>3. QED
    BY <2>1, <2>2
<1>12. WalkTypeOK' /\ RowsOfList' /\ PagesTypeOK'
  <2>1. walk' \in Walk
    BY <1>1, <1>2, <1>8, <1>10, <1>11 DEF Walk
  <2>2. RowsOfList'
    BY <1>1, <1>2 DEF RowsOfList
  <2>3. Len(walk'.ends) * PageSize <= Len(walk'.got)
    <3>1. Len(ends) * PageSize <= Len(walk.got) /\ PageSize \in Nat
      BY PagesAssumption DEF WalkInv, PagesTypeOK
    <3>2. CASE Len(found) > PageSize
      <4>1. Len(walk'.ends) = Len(ends) + 1 /\ Len(walk'.got) = Len(walk.got) + PageSize
        BY <1>4, <1>8, <1>9, <1>10, <1>b, <3>2, AppendProperties
      <4>2. (Len(ends) + 1) * PageSize = Len(ends) * PageSize + PageSize
        BY <1>4, <3>1
      <4>3. QED
        BY <1>4, <3>1, <4>1, <4>2
    <3>3. CASE ~(Len(found) > PageSize)
      BY <1>3, <1>4, <1>8, <1>10, <3>1, <3>3
    <3>4. QED
      BY <3>2, <3>3
  <2>4. PagesTypeOK'
    BY <1>1, <2>1, <2>3 DEF WalkInv, PagesTypeOK
  <2>5. QED
    BY <1>1, <1>2, <1>10, <1>11, <2>1, <2>2, <2>4 DEF WalkTypeOK
<1>13. UntouchedListedOnce'
  <2>1. SUFFICES ASSUME NEW i \in 1..Len(got), NEW j \in 1..Len(got), i < j, got[i] = got[j],
                        got[i] \notin walk.moved
                 PROVE  FALSE
    BY <1>8, <1>10 DEF UntouchedListedOnce
  <2>2. CASE i \in 1..Len(walk.got) /\ j \in 1..Len(walk.got)
    BY <1>4, <1>8, <2>1, <2>2 DEF WalkInv, UntouchedListedOnce
  <2>3. CASE i \in 1..Len(walk.got) /\ \E k \in 1..size : j = Len(walk.got) + k
    <3>1. PICK k \in 1..size : got[j] = page[k]
      BY <1>8, <2>3
    <3>2. page[k] \in rest /\ walk.got[i] = page[k]
      BY <1>3, <1>8, <2>1, <2>3, <3>1
    <3>3. walk.pc = "paging"
      BY <1>4, <1>5, <2>3
    <3>4. Below(KeyOf[walk.got[i]], LastEnd)
      BY <1>2, <1>7, <3>2, <3>3
    <3>5. QED
      BY <1>4, <1>8, <2>1, <2>3, <3>3, <3>4 DEF WalkInv, ListedAbove
  <2>4. CASE \E k \in 1..size : i = Len(walk.got) + k
    <3>1. PICK k \in 1..size : i = Len(walk.got) + k
      BY <2>4
    <3>2. PICK l \in 1..size : j = Len(walk.got) + l
      <4>1. j \in 1..Len(walk.got) \/ \E l \in 1..size : j = Len(walk.got) + l
        BY <1>8, <2>1
      <4>2. Len(walk.got) \in Nat /\ k \in Nat /\ i > Len(walk.got) /\ j \in Nat
        BY <1>4, <2>1, <3>1
      <4>3. j \notin 1..Len(walk.got)
        BY <2>1, <4>2
      <4>4. QED
        BY <4>1, <4>3
    <3>3. k < l
      BY <1>3, <1>4, <2>1, <3>1, <3>2
    <3>4. got[i] = page[k] /\ got[j] = page[l] /\ page[k] # page[l]
      BY <1>3, <1>8, <3>1, <3>2, <3>3
    <3>5. QED
      BY <2>1, <3>4
  <2>5. QED
    BY <1>8, <2>2, <2>3, <2>4
<1>14. KeyOf' = KeyOf
  BY <1>1 DEF KeyOf, ConversationKeys, CreationKeys
<1>15. ListedAbove'
  <2>1. SUFFICES ASSUME Len(found) > PageSize, NEW i \in 1..Len(got), got[i] \notin walk.moved
                 PROVE  ~Below(KeyOf[got[i]], e)
    BY <1>8, <1>10, <1>11, <1>14 DEF ListedAbove
  <2>2. /\ z \in rest /\ z \in Rows /\ KeyOf[z] \in Keys /\ e \in Keys /\ ~Below(KeyOf[z], e)
        /\ (e = KeyOf[z] \/ Below(e, KeyOf[z]))
    <3>1. z \in rest /\ KeyOf[z] \in Keys /\ e \in Keys /\ z \in Rows
      BY <1>3, <1>9, <2>1
    <3>2. ~Below(KeyOf[z], e)
      BY <3>1, CutDown DEF e
    <3>3. QED
      BY <3>1, <3>2, BelowOrder
  <2>3. got[i] \in Rows /\ KeyOf[got[i]] \in Keys
    BY <1>2, <1>8, ElementOfSeq, KeyTypes
  <2>4. CASE i \in 1..Len(walk.got)
    <3>1. walk.pc = "paging"
      BY <1>4, <1>5, <2>4
    <3>2. ~Below(KeyOf[got[i]], LastEnd)
      BY <1>4, <1>8, <2>1, <2>4, <3>1 DEF WalkInv, ListedAbove
    <3>3. Below(KeyOf[z], LastEnd) /\ LastEnd \in Keys
      BY <1>6, <1>7, <2>2, <3>1
    <3>4. Below(e, LastEnd)
      BY <2>2, <3>3, BelowOrder
    <3>5. QED
      BY <2>2, <2>3, <3>2, <3>3, <3>4, BelowOrder
  <2>5. CASE \E k \in 1..size : i = Len(walk.got) + k
    <3>1. PICK k \in 1..size : got[i] = page[k]
      BY <1>8, <2>5
    <3>2. ~Below(KeyOf[got[i]], KeyOf[z])
      BY <1>3, <2>1, <3>1
    <3>3. QED
      BY <2>2, <2>3, <3>2, BelowOrder
  <2>6. QED
    BY <1>8, <2>4, <2>5
<1>16. \A i \in 1..size : page[i] \in Got'
  <2>1. TAKE i \in 1..size
  <2>2. Len(walk.got) + i \in 1..Len(got)
    BY <1>3, <1>4, <1>8
  <2>3. QED
    BY <1>8, <1>10, <2>2 DEF Got
<1>17. Got \subseteq Got'
  <2>1. \A i \in DOMAIN walk.got : i \in DOMAIN got /\ got[i] = walk.got[i]
    BY <1>3, <1>4, <1>8
  <2>2. QED
    BY <1>10, <2>1 DEF Got
<1>18. RestBelow'
  <2>1. SUFFICES ASSUME NEW r \in Untouched' \ Got'
                 PROVE  (Len(found) > PageSize /\ Below(KeyOf[r], e)) \/ MayMiss(r)'
    BY <1>10, <1>11, <1>14 DEF RestBelow
  <2>2. r \in Untouched \ Got /\ r \in Rows /\ row[r].shown
    BY <1>1, <1>10, <1>17 DEF Untouched
  <2>3. \A i \in 1..size : page[i] # r
    BY <1>16
  <2>4. CASE r \in rest
    <3>1. Len(found) > PageSize /\ Below(KeyOf[r], KeyOf[z])
      BY <1>3, <2>3, <2>4
    <3>2. \/ Below(KeyOf[r], e)
          \/ list # "members" /\ e[1] = row[r].pinned /\ e[2] = Milli(row[r].at) /\ e[3] # r
      BY <1>2, <1>9, <2>2, <3>1, CursorMisses DEF e
    <3>3. QED
      BY <1>1, <1>11, <3>1, <3>2 DEF MayMiss
  <2>5. CASE r \notin rest
    <3>1. walk.pc = "paging" /\ ~Below(KeyOf[r], LastEnd)
      BY <1>4, <1>7, <2>2, <2>5
    <3>2. MayMiss(r)
      BY <2>2, <3>1 DEF WalkInv, RestBelow
    <3>3. QED
      BY <1>1, <1>4, <1>11, <3>2 DEF MayMiss
  <2>6. QED
    BY <2>4, <2>5
<1>19. QED
  BY <1>12, <1>13, <1>15, <1>18 DEF WalkInv

LEMMA PagesStep == WalkInv /\ [PagesNext]_pagesVars => WalkInv'
<1> SUFFICES ASSUME WalkInv, [PagesNext]_pagesVars PROVE WalkInv'
  OBVIOUS
<1>1. ASSUME Tick \/ UNCHANGED pagesVars PROVE WalkInv'
  <2>1. UNCHANGED <<list, row, walk>> /\ now' \in Nat /\ now' \in 0..MaxTime /\ now <= now'
    BY <1>1, PagesAssumption DEF Tick, pagesVars, WalkInv, PagesTypeOK
  <2>7. PagesTypeOK'
    <3>1. \A r \in Rows : /\ row[r].at \in Int /\ row[r].pinned \in Int
                          /\ row[r].at <= now /\ row[r].pinned <= now
      BY DEF WalkInv, PagesTypeOK, Row, Unpinned
    <3>2. \A r \in Rows : row[r].at <= now' /\ row[r].pinned <= now'
      BY <2>1, <3>1 DEF WalkInv, PagesTypeOK
    <3>3. QED
      BY <2>1, <3>2 DEF WalkInv, PagesTypeOK
  <2>2. WalkTypeOK' /\ RowsOfList' /\ UntouchedListedOnce'
    BY <2>1 DEF WalkInv, WalkTypeOK, RowsOfList, UntouchedListedOnce
  <2>3. KeyOf' = KeyOf /\ LastEnd' = LastEnd /\ Untouched' = Untouched /\ Got' = Got
        /\ \A r \in Rows : MayMiss(r)' <=> MayMiss(r)
    BY <2>1 DEF KeyOf, ConversationKeys, CreationKeys, LastEnd, Untouched, Got, MayMiss
  <2>4. ListedAbove'
    BY <2>1, <2>3 DEF WalkInv, ListedAbove
  <2>5. RestBelow'
    <3>1. Untouched \subseteq Rows
      BY DEF Untouched
    <3>2. QED
      BY <2>1, <2>3, <3>1 DEF WalkInv, RestBelow
  <2>6. QED
    BY <2>2, <2>4, <2>5, <2>7 DEF WalkInv
<1>2. ASSUME ListConversations \/ Search \/ ListContacts \/ ListMembers PROVE WalkInv'
  <2>1. ReadPage(KeyOf)
    BY <1>2 DEF ListConversations, Search, ListContacts, ListMembers, KeyOf
  <2>2. QED
    BY <2>1, ReadPageKeeps
<1>3. QED
  BY <1>1, <1>2, RowsKeep, Zenon DEF PagesNext

LEMMA PagesStart == PagesInit => WalkInv
<1> SUFFICES ASSUME PagesInit PROVE WalkInv
  OBVIOUS
<1>1. NoRow \in Row /\ NoRow.at = 0 /\ NoRow.pinned = Unpinned
  BY DEF NoRow, Row
<1>2. Milli(0) = 0
  BY MilliDown
<1>3. WalkTypeOK /\ RowsOfList
  BY <1>1, <1>2, NoWalkType DEF PagesInit, WalkTypeOK, RowsOfList
<1>6. PagesTypeOK
  <2>1. MaxTime \in Nat /\ PageSize \in Nat
    BY PagesAssumption
  <2>2. walk = NoWalk /\ Len(walk.ends) = 0 /\ Len(walk.got) = 0 /\ now = 0
    BY NoWalkType DEF PagesInit
  <2>3. QED
    BY <1>1, <2>1, <2>2, NoWalkType DEF PagesInit, PagesTypeOK, Unpinned
<1>4. UntouchedListedOnce /\ ListedAbove /\ RestBelow
  BY NoWalkType DEF PagesInit, UntouchedListedOnce, ListedAbove, RestBelow
<1>5. QED
  BY <1>3, <1>4, <1>6 DEF WalkInv

\* A walk through a list, for any number of rows and any size of a page: no page repeats what
\* nothing changed, and the walk leaves out at most rows of the rank and the millisecond that
\* a page ended with, whatever is created, deleted, moved or pinned between two pages (the
\* lists of conversations, contacts and members, and the search).
THEOREM ListsWhole == PagesSpec => []ListsAreWhole
<1>1. WalkInv => ListsAreWhole
  <2> SUFFICES ASSUME WalkInv PROVE ListsAreWhole
    OBVIOUS
  <2>1. walk.pc = "done" => \A r \in Untouched \ Got : MayMiss(r)
    BY DEF WalkInv, RestBelow
  <2>2. OnlyMillisecondsAreMissed
    BY <2>1 DEF OnlyMillisecondsAreMissed, MayMiss
  <2>3. QED
    BY <2>2 DEF WalkInv, ListsAreWhole
<1>2. QED
  BY <1>1, PagesStart, PagesStep, PTL DEF PagesSpec

=============================================================================
