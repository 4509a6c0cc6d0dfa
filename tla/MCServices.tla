------------------------------- MODULE MCServices -------------------------------
(***************************************************************************)
(* The services around a conversation for TLC: row locks, message actions, *)
(* contacts, sessions, refresh tokens, challenges, the login limit, sync   *)
(* feeds, media and lists read by page. No two of these modules share      *)
(* state, so a property of one is violated in the product of all exactly   *)
(* if it is when the others stand still: focus says which of them moves.   *)
(***************************************************************************)
EXTENDS RowLocks, MessageActions, Contacts, Sessions, RefreshTokens, Challenges,
        LoginLimiter, SyncFeed, Media, Pages, TLC

VARIABLE focus

\* The swap of two.
Swap(S) == CHOOSE p \in Permutations(S) : \A x \in S : p[x] # x

\* Only one module moves, so one swap does for all requests and one for devices and workers.
\* TLC wants the identity among them: the one permutation of the empty set.
Alike ==
  {Swap(Logins) @@ Swap(Tasks) @@ Swap(Handlers) @@ Swap(Claimants) @@ Swap(Calls),
   Swap(Devices) @@ Swap(Workers)} \cup Permutations({})

Init ==
  /\ LocksInit /\ ActionsInit /\ ContactsInit /\ SessionsInit /\ RefreshInit
  /\ ChallengesInit /\ LimiterInit /\ FeedInit /\ MediaInit /\ PagesInit
  /\ focus \in {"locks", "actions", "contacts", "sessions", "refresh", "challenges",
                "limiter", "feed", "media", "pages"}
  /\ focus = "pages" \/ list = "conversations"

Next ==
  /\ UNCHANGED focus
  /\ IF focus = "locks" THEN LocksNext ELSE UNCHANGED locksVars
  /\ IF focus = "actions" THEN ActionsNext ELSE UNCHANGED actionsVars
  /\ IF focus = "contacts" THEN ContactsNext ELSE UNCHANGED contactsVars
  /\ IF focus = "sessions" THEN SessionsNext ELSE UNCHANGED sessionsVars
  /\ IF focus = "refresh" THEN RefreshNext ELSE UNCHANGED refreshVars
  /\ IF focus = "challenges" THEN ChallengesNext ELSE UNCHANGED challengesVars
  /\ IF focus = "limiter" THEN LimiterNext ELSE UNCHANGED limiterVars
  /\ IF focus = "feed" THEN FeedNext ELSE UNCHANGED feedVars
  /\ IF focus = "media" THEN MediaNext ELSE UNCHANGED mediaVars
  /\ IF focus = "pages" THEN PagesNext ELSE UNCHANGED pagesVars

Spec ==
  Init /\ [][Next]_<<focus, locksVars, actionsVars, contactsVars, sessionsVars, refreshVars,
                     challengesVars, limiterVars, feedVars, mediaVars, pagesVars>>

\* Every table, store and job of the services keeps its type: no cursor beyond the
\* sequence, no token or socket without its session, one state to each request.
ServicesTypeOK ==
  /\ LocksTypeOK /\ ActionsTypeOK /\ ContactsTypeOK /\ SessionsTypeOK /\ RefreshTypeOK
  /\ ChallengesTypeOK /\ LimiterTypeOK /\ FeedTypeOK /\ MediaTypeOK
  /\ PagesTypeOK
=============================================================================
