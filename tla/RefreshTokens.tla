----------------------------- MODULE RefreshTokens -----------------------------
(***************************************************************************)
(* The refresh tokens of one device: AuthCommandService.refresh, what      *)
(* logins and revocations do to tokens, and the SDK's TokenManager with    *)
(* its stored token. A login on the device opens a session of its own      *)
(* token family; sessions end for the reasons that Sessions has.           *)
(***************************************************************************)
EXTENDS Integers, Sequences, FiniteSets, SequencesExt

CONSTANTS
  NoToken,
  MaxOpened, MaxTokens  \* bounds of the model: sessions and tokens ever made

ASSUME RefreshAssumption == {MaxOpened, MaxTokens} \subseteq Nat /\ NoToken \notin Nat

VARIABLES
  open,       \* auth_sessions.status of the device's sessions, in order
  subject,    \* the device and its user are both ACTIVE
  token,      \* auth_refresh_tokens, in the order of creation
  stored,     \* the token in the client's storage
  call,       \* the client's refreshPromise
  orphans,    \* requests under way whose client is gone
  restarted,  \* history: the client was closed, or not answered, during a refresh
  reused      \* history: sessions revoked because a token was used twice

refreshVars == <<open, subject, token, stored, call, orphans, restarted, reused>>

TokenRow == [status : {"ACTIVE", "USED", "REVOKED"}, session : Nat \ {0}]
MaybeToken == Nat \cup {NoToken}

RefreshTypeOK ==
  /\ open \in Seq({"ACTIVE", "REVOKED"}) /\ subject \in BOOLEAN
  /\ token \in Seq(TokenRow) /\ stored \in DOMAIN token \cup {NoToken}
  /\ call \in [at : {"rest", "sent", "answered"}, asked : MaybeToken, answer : MaybeToken]
  /\ orphans \subseteq DOMAIN token
  /\ restarted \in BOOLEAN /\ reused \subseteq DOMAIN open

NoCall == [at |-> "rest", asked |-> NoToken, answer |-> NoToken]

RefreshInit ==
  /\ open = <<>> /\ subject = TRUE /\ token = <<>> /\ stored = NoToken
  /\ call = NoCall /\ orphans = {} /\ restarted = FALSE /\ reused = {}

OpenSessions == {s \in DOMAIN open : open[s] = "ACTIVE"}

RevokedTokens(S) ==
  [t \in DOMAIN token |->
    IF token[t].session \in S THEN [token[t] EXCEPT !.status = "REVOKED"] ELSE token[t]]

\* AuthSessionService.revokeSession.
Close(S) ==
  /\ open' = [s \in DOMAIN open |-> IF s \in S THEN "REVOKED" ELSE open[s]]
  /\ token' = RevokedTokens(S)

-----------------------------------------------------------------------------
(* Sessions *)

\* issueSession: the answer is saved, or gets lost.
Login ==
  LET new == Len(open) + 1
  IN /\ Len(open) < MaxOpened /\ Len(token) < MaxTokens
     /\ open' = Append([s \in DOMAIN open |-> "REVOKED"], "ACTIVE")
     /\ token' = Append(RevokedTokens(OpenSessions), [status |-> "ACTIVE", session |-> new])
     /\ subject' = TRUE
     /\ stored' \in {stored, Len(token) + 1}
     /\ UNCHANGED <<call, orphans, restarted, reused>>

\* Any of the commands that revoke a session.
End(s) ==
  /\ Close({s})
  /\ UNCHANGED <<subject, stored, call, orphans, restarted, reused>>

\* The device goes, or the user, and a session of a login under way stays.
SubjectGone ==
  /\ subject /\ subject' = FALSE
  /\ UNCHANGED <<open, token, stored, call, orphans, restarted, reused>>

-----------------------------------------------------------------------------
(* refresh: token t is locked, then its session; the answer is n. *)

SessionOf(t) == token[t].session

\* A token that was used before ends its whole family.
Reuse(t) ==
  /\ token[t].status = "USED"
  /\ Close({SessionOf(t)})
  /\ reused' = reused \cup {SessionOf(t)}

Refuse(t) ==
  /\ \/ token[t].status = "REVOKED"
     \/ token[t].status = "ACTIVE" /\ SessionOf(t) \notin OpenSessions
  /\ UNCHANGED <<open, token, reused>>

RefuseSubject(t) ==
  /\ token[t].status = "ACTIVE" /\ SessionOf(t) \in OpenSessions /\ ~subject
  /\ Close({SessionOf(t)})
  /\ UNCHANGED reused

\* Mutant: the old token stays good.
RotateAgain(t) ==
  /\ token[t].status = "ACTIVE" /\ SessionOf(t) \in OpenSessions /\ subject
  /\ Len(token) < MaxTokens
  /\ token' = Append(token, [status |-> "ACTIVE", session |-> SessionOf(t)])
  /\ UNCHANGED <<open, reused>>

Rotate(t) ==
  /\ token[t].status = "ACTIVE" /\ SessionOf(t) \in OpenSessions /\ subject
  /\ Len(token) < MaxTokens
  /\ token' = Append([token EXCEPT ![t].status = "USED"],
                     [status |-> "ACTIVE", session |-> SessionOf(t)])
  /\ UNCHANGED <<open, reused>>

Refresh(t, n) ==
  \/ n = NoToken /\ (Reuse(t) \/ Refuse(t) \/ RefuseSubject(t))
  \/ n = Len(token) + 1 /\ Rotate(t)

-----------------------------------------------------------------------------
(* The client *)

\* TokenManager.refresh: a call under way is shared.
Ask ==
  /\ call.at = "rest" /\ stored # NoToken
  /\ call' = [NoCall EXCEPT !.at = "sent", !.asked = stored]
  /\ UNCHANGED <<open, subject, token, stored, orphans, restarted, reused>>

Answer ==
  /\ call.at = "sent"
  /\ \E n \in {NoToken, Len(token) + 1} :
       Refresh(call.asked, n) /\ call' = [call EXCEPT !.at = "answered", !.answer = n]
  /\ UNCHANGED <<subject, stored, orphans, restarted>>

AnswerNobody(t) ==
  /\ \E n \in {NoToken, Len(token) + 1} : Refresh(t, n)
  /\ orphans' = orphans \ {t}
  /\ UNCHANGED <<subject, stored, call, restarted>>

\* Mutant: the new pair is returned but not saved.
StoreNothing ==
  /\ call.at = "answered"
  /\ call' = NoCall
  /\ UNCHANGED <<open, subject, token, stored, orphans, restarted, reused>>

\* The answer is saved; an error clears the storage.
Store ==
  /\ call.at = "answered"
  /\ stored' = call.answer /\ call' = NoCall
  /\ UNCHANGED <<open, subject, token, orphans, restarted, reused>>

Orphaned == orphans' = orphans \cup (IF call.at = "sent" THEN {call.asked} ELSE {})

\* No answer is an error as well.
GiveUp ==
  /\ call.at # "rest" /\ Orphaned
  /\ stored' = NoToken /\ call' = NoCall
  /\ UNCHANGED <<open, subject, token, restarted, reused>>

\* The application is closed during a refresh: the storage keeps the old token.
Restart ==
  /\ call.at # "rest" /\ Orphaned
  /\ call' = NoCall /\ restarted' = TRUE
  /\ UNCHANGED <<open, subject, token, stored, reused>>

RefreshNext ==
  \/ Login \/ SubjectGone \/ Ask \/ Answer \/ Store \/ GiveUp \/ Restart
  \/ \E s \in DOMAIN open : End(s)
  \/ \E t \in orphans : AnswerNobody(t)

RefreshSpec == RefreshInit /\ [][RefreshNext]_refreshVars

-----------------------------------------------------------------------------
(* Properties *)

\* A live session has exactly one token that can still be refreshed, and an ended
\* one none: rotation, reuse, logins and revocations leave no second way in.
OneLiveToken ==
  \A s \in DOMAIN open :
    Cardinality({t \in DOMAIN token : token[t].session = s /\ token[t].status = "ACTIVE"})
      = IF open[s] = "ACTIVE" THEN 1 ELSE 0

\* A family is revoked for reuse only if the application was closed during a
\* refresh: 401 answers that come together share one refresh, and a lost answer
\* makes the client forget its token.
ReuseMeansRestart == reused # {} => restarted

\* While it does not refresh, a client that was never closed in the middle of a
\* refresh holds no used token: the next refresh cannot cost it its session.
StoredIsUnused ==
  call.at = "rest" /\ stored # NoToken /\ ~restarted => token[stored].status # "USED"

\* Whoever keeps to current, save and refresh is not taken for a thief: retries, 401
\* answers that come together and lost answers leave the family alone.
RefreshesAreSafe == ReuseMeansRestart /\ StoredIsUnused
=============================================================================
