------------------------------ MODULE TokenProofs ------------------------------
(***************************************************************************)
(* The credentials of an account that are used once: the refresh tokens of *)
(* a device, the codes sent to an identity, and the logins that are        *)
(* counted, for any number of requests at once.                            *)
(***************************************************************************)
EXTENDS RefreshTokens, Challenges, LoginLimiter, FiniteSetTheorems, SequenceTheorems, TLAPS

-----------------------------------------------------------------------------
(* What a step does to the sessions and tokens of a device.                *)

LEMMA TokenRows ==
  ASSUME RefreshTypeOK
  PROVE  /\ Len(open) \in Nat /\ DOMAIN open = 1..Len(open)
         /\ Len(token) \in Nat /\ DOMAIN token = 1..Len(token)
         /\ \A s \in DOMAIN open : open[s] \in {"ACTIVE", "REVOKED"}
         /\ \A t \in DOMAIN token : token[t] \in TokenRow
         /\ NoToken \notin DOMAIN token
  BY LenProperties, ElementOfSeq, RefreshAssumption DEF RefreshTypeOK

\* Revoking keeps every token but for its status.
LEMMA RevokedTokensRows ==
  ASSUME RefreshTypeOK, NEW S
  PROVE  /\ RevokedTokens(S) \in Seq(TokenRow) /\ Len(RevokedTokens(S)) = Len(token)
         /\ DOMAIN RevokedTokens(S) = DOMAIN token
         /\ \A t \in DOMAIN token :
              /\ RevokedTokens(S)[t].session = token[t].session
              /\ RevokedTokens(S)[t].status
                   = IF token[t].session \in S THEN "REVOKED" ELSE token[t].status
<1>1. \A t \in DOMAIN token :
        /\ RevokedTokens(S)[t] \in TokenRow
        /\ RevokedTokens(S)[t].session = token[t].session
        /\ RevokedTokens(S)[t].status
             = IF token[t].session \in S THEN "REVOKED" ELSE token[t].status
  BY TokenRows DEF RevokedTokens, TokenRow
<1>2. RevokedTokens(S) \in [1..Len(token) -> TokenRow]
  BY <1>1, TokenRows DEF RevokedTokens
<1>3. RevokedTokens(S) \in Seq(TokenRow)
  BY <1>2, TokenRows, SeqDef
<1>4. DOMAIN RevokedTokens(S) = 1..Len(token)
  BY <1>2
<1>5. Len(RevokedTokens(S)) = Len(token)
  BY <1>3, <1>4, TokenRows, LenProperties
<1>6. QED
  BY <1>1, <1>3, <1>4, <1>5, TokenRows

LEMMA EndedSessions ==
  ASSUME RefreshTypeOK, NEW f, f \in [DOMAIN open -> {"ACTIVE", "REVOKED"}]
  PROVE  f \in Seq({"ACTIVE", "REVOKED"}) /\ Len(f) = Len(open) /\ DOMAIN f = DOMAIN open
<1>1. f \in Seq({"ACTIVE", "REVOKED"})
  BY TokenRows, SeqDef
<1>2. QED
  BY <1>1, TokenRows, LenProperties

\* A token belongs to a session there is, a live one to a live session; a live session
\* has a live token, and two live tokens of a session are one.
Families ==
  /\ \A t \in DOMAIN token : token[t].session \in DOMAIN open
  /\ \A t \in DOMAIN token : token[t].status = "ACTIVE" => open[token[t].session] = "ACTIVE"
  /\ \A t, u \in DOMAIN token :
       token[t].status = "ACTIVE" /\ token[u].status = "ACTIVE"
         /\ token[t].session = token[u].session => t = u
  /\ \A s \in DOMAIN open : open[s] = "ACTIVE" =>
       \E t \in DOMAIN token : token[t].session = s /\ token[t].status = "ACTIVE"

\* What no step does: a row goes, or a token other than those of T is used.
RowsGrow(T) ==
  /\ open' \in Seq({"ACTIVE", "REVOKED"}) /\ token' \in Seq(TokenRow)
  /\ DOMAIN open \subseteq DOMAIN open' /\ DOMAIN token \subseteq DOMAIN token'
  /\ \A t \in DOMAIN token : token'[t].status = "USED" => token[t].status = "USED" \/ t \in T

LEMMA LoginRows ==
  ASSUME RefreshTypeOK, Families, Login
  PROVE  /\ RowsGrow({}) /\ Families'
         /\ Len(token) + 1 \in DOMAIN token' /\ token'[Len(token) + 1].status = "ACTIVE"
<1> DEFINE new == Len(open) + 1
           row == [status |-> "ACTIVE", session |-> new]
           old == RevokedTokens(OpenSessions)
           ended == [s \in DOMAIN open |-> "REVOKED"]
<1>1. /\ ended \in Seq({"ACTIVE", "REVOKED"}) /\ Len(ended) = Len(open)
      /\ \A s \in DOMAIN open : ended[s] = "REVOKED"
  BY EndedSessions
<1>2. /\ old \in Seq(TokenRow) /\ Len(old) = Len(token)
      /\ \A t \in DOMAIN token :
           /\ old[t].session = token[t].session
           /\ old[t].status = IF token[t].session \in OpenSessions
                                THEN "REVOKED" ELSE token[t].status
  BY RevokedTokensRows
<1>3. row \in TokenRow
  BY TokenRows DEF TokenRow
<1>4. open' = Append(ended, "ACTIVE") /\ token' = Append(old, row)
  BY DEF Login
<1> HIDE DEF ended, old, row
<1>5. /\ open' \in Seq({"ACTIVE", "REVOKED"}) /\ DOMAIN open' = 1..new
      /\ open'[new] = "ACTIVE" /\ \A s \in DOMAIN open : open'[s] = "REVOKED"
  BY <1>1, <1>4, TokenRows, AppendProperties, LenProperties
<1>6. /\ token' \in Seq(TokenRow) /\ DOMAIN token' = 1..(Len(token) + 1)
      /\ token'[Len(token) + 1] = row /\ \A t \in DOMAIN token : token'[t] = old[t]
  BY <1>2, <1>3, <1>4, TokenRows, AppendProperties, LenProperties
<1>7. \A t \in DOMAIN token : old[t].status # "ACTIVE"
  BY <1>2 DEF Families, OpenSessions
<1>8. row.status = "ACTIVE" /\ row.session = new
  BY DEF row
<1>9. RowsGrow({})
  BY <1>2, <1>5, <1>6, TokenRows DEF RowsGrow
<1>10. Families'
  <2>1. \A t \in DOMAIN token' : t \in DOMAIN token \/ t = Len(token) + 1
    BY <1>6, TokenRows
  <2>2. \A s \in DOMAIN open' : s \in DOMAIN open \/ s = new
    BY <1>5, TokenRows
  <2>3. \A t \in DOMAIN token' : token'[t].session \in DOMAIN open'
    BY <2>1, <1>2, <1>5, <1>6, <1>8, TokenRows DEF Families
  <2>4. \A t \in DOMAIN token' : token'[t].status = "ACTIVE" => t = Len(token) + 1
    BY <2>1, <1>6, <1>7
  <2>5. QED
    BY <2>2, <2>3, <2>4, <1>5, <1>6, <1>8, TokenRows DEF Families
<1>11. QED
  BY <1>6, <1>8, <1>9, <1>10, TokenRows

LEMMA CloseRows ==
  ASSUME RefreshTypeOK, Families, NEW S, Close(S)
  PROVE  RowsGrow({}) /\ Families' /\ DOMAIN token' = DOMAIN token
<1>1. /\ open' \in Seq({"ACTIVE", "REVOKED"}) /\ DOMAIN open' = DOMAIN open
      /\ \A s \in DOMAIN open : open'[s] = IF s \in S THEN "REVOKED" ELSE open[s]
  <2>1. open' \in [DOMAIN open -> {"ACTIVE", "REVOKED"}]
    BY TokenRows DEF Close
  <2>2. open' \in Seq({"ACTIVE", "REVOKED"}) /\ DOMAIN open' = DOMAIN open
    BY <2>1, EndedSessions
  <2>3. QED
    BY <2>2 DEF Close
<1>2. /\ token' \in Seq(TokenRow) /\ DOMAIN token' = DOMAIN token
      /\ \A t \in DOMAIN token :
           /\ token'[t].session = token[t].session
           /\ token'[t].status = IF token[t].session \in S THEN "REVOKED" ELSE token[t].status
  BY RevokedTokensRows DEF Close
<1>3. RowsGrow({})
  BY <1>1, <1>2 DEF RowsGrow
<1>4. Families'
  <2>1. \A t \in DOMAIN token' : token'[t].session \in DOMAIN open'
    BY <1>1, <1>2 DEF Families
  <2>2. \A t \in DOMAIN token' :
          token'[t].status = "ACTIVE" => token[t].status = "ACTIVE" /\ token[t].session \notin S
    BY <1>2
  <2>3. \A t \in DOMAIN token' : token'[t].status = "ACTIVE" => open'[token'[t].session] = "ACTIVE"
    BY <2>2, <1>1, <1>2 DEF Families
  <2>4. \A t, u \in DOMAIN token' :
          token'[t].status = "ACTIVE" /\ token'[u].status = "ACTIVE"
            /\ token'[t].session = token'[u].session => t = u
    BY <2>2, <1>2 DEF Families
  <2>5. \A s \in DOMAIN open' : open'[s] = "ACTIVE" =>
          \E t \in DOMAIN token' : token'[t].session = s /\ token'[t].status = "ACTIVE"
    <3> SUFFICES ASSUME NEW s \in DOMAIN open, open'[s] = "ACTIVE"
                 PROVE  \E t \in DOMAIN token' :
                          token'[t].session = s /\ token'[t].status = "ACTIVE"
      BY <1>1
    <3>1. s \notin S /\ open[s] = "ACTIVE"
      BY <1>1
    <3>2. PICK t \in DOMAIN token : token[t].session = s /\ token[t].status = "ACTIVE"
      BY <3>1 DEF Families
    <3>3. QED
      BY <3>1, <3>2, <1>2
  <2>6. QED
    BY <2>1, <2>3, <2>4, <2>5 DEF Families
<1>5. QED
  BY <1>2, <1>3, <1>4

LEMMA RotateRows ==
  ASSUME RefreshTypeOK, Families, NEW t \in DOMAIN token, Rotate(t)
  PROVE  /\ RowsGrow({t}) /\ Families' /\ reused' = reused
         /\ Len(token) + 1 \in DOMAIN token' /\ token'[Len(token) + 1].status = "ACTIVE"
<1> DEFINE old == [token EXCEPT ![t].status = "USED"]
           row == [status |-> "ACTIVE", session |-> token[t].session]
<1>1. token[t] \in TokenRow /\ t \in 1..Len(token)
  BY TokenRows
<1>2. [token[t] EXCEPT !.status = "USED"] \in TokenRow /\ row \in TokenRow
  BY <1>1 DEF TokenRow
<1>3. /\ old \in Seq(TokenRow) /\ Len(old) = Len(token)
      /\ \A u \in DOMAIN token :
           /\ old[u].session = token[u].session
           /\ old[u].status = IF u = t THEN "USED" ELSE token[u].status
  <2>1. old = [token EXCEPT ![t] = [token[t] EXCEPT !.status = "USED"]]
    BY TokenRows
  <2>2. /\ old \in Seq(TokenRow) /\ Len(old) = Len(token)
        /\ \A u \in 1..Len(token) :
             old[u] = IF u = t THEN [token[t] EXCEPT !.status = "USED"] ELSE token[u]
    BY <1>1, <1>2, <2>1, ExceptSeq DEF RefreshTypeOK
  <2>3. QED
    BY <1>1, <2>2, TokenRows DEF TokenRow
<1>4. token' = Append(old, row) /\ open' = open /\ reused' = reused
  BY DEF Rotate, SessionOf
<1>5. row.status = "ACTIVE" /\ row.session = token[t].session
  OBVIOUS
<1> HIDE DEF old, row
<1>6. /\ token' \in Seq(TokenRow) /\ DOMAIN token' = 1..(Len(token) + 1)
      /\ token'[Len(token) + 1] = row /\ \A u \in DOMAIN token : token'[u] = old[u]
  BY <1>2, <1>3, <1>4, TokenRows, AppendProperties, LenProperties
<1>7. RowsGrow({t})
  BY <1>3, <1>4, <1>6, TokenRows DEF RowsGrow, RefreshTypeOK
<1>8. Families'
  <2>1. \A u \in DOMAIN token' : u \in DOMAIN token \/ u = Len(token) + 1
    BY <1>6, TokenRows
  <2>2. token[t].status = "ACTIVE" /\ open[token[t].session] = "ACTIVE"
    BY DEF Rotate, SessionOf, OpenSessions
  <2>3. \A u \in DOMAIN token : token[u].status = "ACTIVE" /\ u # t
                                  => token[u].session # token[t].session
    BY <2>2 DEF Families
  <2>4. \A u \in DOMAIN token' : token'[u].session \in DOMAIN open'
    BY <2>1, <1>3, <1>4, <1>5, <1>6 DEF Families
  <2>5. \A u \in DOMAIN token' : token'[u].status = "ACTIVE" => open'[token'[u].session] = "ACTIVE"
    BY <2>1, <2>2, <1>3, <1>4, <1>5, <1>6 DEF Families
  <2>6. \A u, v \in DOMAIN token' :
          token'[u].status = "ACTIVE" /\ token'[v].status = "ACTIVE"
            /\ token'[u].session = token'[v].session => u = v
    BY <2>1, <2>3, <1>3, <1>5, <1>6 DEF Families
  <2>7. \A s \in DOMAIN open' : open'[s] = "ACTIVE" =>
          \E u \in DOMAIN token' : token'[u].session = s /\ token'[u].status = "ACTIVE"
    <3> SUFFICES ASSUME NEW s \in DOMAIN open, open[s] = "ACTIVE"
                 PROVE  \E u \in DOMAIN token' :
                          token'[u].session = s /\ token'[u].status = "ACTIVE"
      BY <1>4
    <3>1. CASE s = token[t].session
      BY <3>1, <1>5, <1>6, TokenRows
    <3>2. CASE s # token[t].session
      <4>1. PICK u \in DOMAIN token : token[u].session = s /\ token[u].status = "ACTIVE"
        BY DEF Families
      <4>2. QED
        BY <4>1, <3>2, <1>3, <1>6, TokenRows
    <3>3. QED
      BY <3>1, <3>2
  <2>8. QED
    BY <2>4, <2>5, <2>6, <2>7 DEF Families
<1>9. QED
  BY <1>4, <1>5, <1>6, <1>7, <1>8, TokenRows

-----------------------------------------------------------------------------
(* The client, its calls, and requests whose client is gone.               *)

CallKnown ==
  /\ call.at = "sent" => call.asked \in DOMAIN token
  /\ call.at = "answered" => call.answer \in DOMAIN token \cup {NoToken}

Unused(t) == t = NoToken \/ token[t].status # "USED"

\* Until a client is closed during a refresh, no token that somebody may still ask with
\* was used, and nobody asks twice with one.
Harmless ==
  ~restarted =>
    /\ reused = {}
    /\ \A t \in orphans : Unused(t) /\ t # stored
    /\ call.at # "answered" => Unused(stored)
    /\ call.at = "sent" => Unused(call.asked) /\ call.asked \notin orphans
    /\ call.at = "answered" => Unused(call.answer) /\ call.answer \notin orphans

RefreshInv == RefreshTypeOK /\ CallKnown /\ Families /\ Harmless

\* What a refresh does: it ends the session of a used token, refuses, or rotates.
LEMMA RefreshRows ==
  ASSUME RefreshInv, NEW t \in DOMAIN token, NEW n, Refresh(t, n)
  PROVE  /\ RowsGrow({t}) /\ Families' /\ reused' \subseteq DOMAIN open
         /\ n \in DOMAIN token' \cup {NoToken}
         /\ n # NoToken => n \notin DOMAIN token /\ token'[n].status = "ACTIVE"
         /\ token[t].status # "USED" => reused' = reused
         /\ n = NoToken => RowsGrow({})
<1> USE DEF RefreshInv
<1>1. token[t].session \in DOMAIN open
  BY DEF Families
<1>2. CASE n = NoToken /\ (Reuse(t) \/ RefuseSubject(t))
  <2>1. Close({token[t].session})
    BY <1>2 DEF Reuse, RefuseSubject, SessionOf
  <2>2. RowsGrow({}) /\ Families' /\ DOMAIN token' = DOMAIN token
    BY <2>1, CloseRows
  <2>3. reused' \subseteq DOMAIN open /\ (token[t].status # "USED" => reused' = reused)
    BY <1>1, <1>2 DEF Reuse, RefuseSubject, SessionOf, RefreshTypeOK
  <2>4. QED
    BY <1>2, <2>2, <2>3 DEF RowsGrow
<1>3. CASE n = NoToken /\ Refuse(t)
  <2>1. open' = open /\ token' = token /\ reused' = reused
    BY <1>3 DEF Refuse
  <2>2. RowsGrow({}) /\ Families'
    BY <2>1 DEF RowsGrow, Families, RefreshTypeOK
  <2>3. QED
    BY <1>3, <2>1, <2>2 DEF RowsGrow, RefreshTypeOK
<1>4. CASE n = Len(token) + 1 /\ Rotate(t)
  <2>1. /\ RowsGrow({t}) /\ Families' /\ reused' = reused
        /\ Len(token) + 1 \in DOMAIN token' /\ token'[Len(token) + 1].status = "ACTIVE"
    BY <1>4, RotateRows
  <2>2. n # NoToken /\ n \notin DOMAIN token
    BY <1>4, TokenRows, RefreshAssumption
  <2>3. QED
    BY <1>4, <2>1, <2>2 DEF RefreshTypeOK
<1>5. QED
  BY <1>2, <1>3, <1>4 DEF Refresh

\* A token that was not used stays so unless it is the one that was asked with.
LEMMA UnusedStays ==
  ASSUME RefreshTypeOK, NEW T, RowsGrow(T), NEW t \in DOMAIN token \cup {NoToken}, Unused(t),
         t \notin T
  PROVE  Unused(t)'
  BY DEF Unused, RowsGrow

LEMMA InitRefresh == RefreshInit => RefreshInv
<1> SUFFICES ASSUME RefreshInit PROVE RefreshInv
  OBVIOUS
<1>1. open = <<>> /\ token = <<>> /\ DOMAIN open = {} /\ DOMAIN token = {}
  BY DEF RefreshInit
<1>2. open \in Seq({"ACTIVE", "REVOKED"}) /\ token \in Seq(TokenRow)
  BY <1>1, EmptySeq
<1>3. RefreshTypeOK
  BY <1>1, <1>2, RefreshAssumption DEF RefreshInit, RefreshTypeOK, NoCall, MaybeToken
<1>4. CallKnown /\ Families
  BY <1>1 DEF RefreshInit, CallKnown, Families, NoCall
<1>5. Harmless
  BY <1>1 DEF RefreshInit, Harmless, NoCall, Unused
<1>6. QED
  BY <1>3, <1>4, <1>5 DEF RefreshInv

\* A step that lets the rows grow and leaves the client alone.
LEMMA RowsOnly ==
  ASSUME RefreshInv, RowsGrow({}), Families', UNCHANGED <<call, orphans, restarted, reused>>,
         subject' \in BOOLEAN, stored' \in {stored} \cup (DOMAIN token' \ DOMAIN token),
         stored' # stored => token'[stored'].status = "ACTIVE"
  PROVE  RefreshInv'
<1> USE DEF RefreshInv
<1>1. NoToken \notin DOMAIN token /\ DOMAIN token \subseteq Nat
  BY TokenRows
<1>2. DOMAIN token \subseteq DOMAIN token' /\ DOMAIN open \subseteq DOMAIN open'
      /\ open' \in Seq({"ACTIVE", "REVOKED"}) /\ token' \in Seq(TokenRow)
  BY DEF RowsGrow
<1>3. stored' \in DOMAIN token' \cup {NoToken}
  BY <1>2 DEF RefreshTypeOK
<1>4. RefreshTypeOK'
  BY <1>2, <1>3 DEF RefreshTypeOK, TokenRow, MaybeToken
<1>5. CallKnown'
  BY <1>2 DEF CallKnown
<1>6. Harmless'
  <2> SUFFICES ASSUME ~restarted
               PROVE  /\ reused' = {}
                      /\ \A t \in orphans : Unused(t)' /\ t # stored'
                      /\ call.at # "answered" => Unused(stored)'
                      /\ call.at = "sent" => Unused(call.asked)' /\ call.asked \notin orphans
                      /\ call.at = "answered" => Unused(call.answer)' /\ call.answer \notin orphans
    BY DEF Harmless, Unused
  <2>1. \A t \in DOMAIN token \cup {NoToken} : Unused(t) => Unused(t)'
    BY UnusedStays
  <2>2. \A t \in orphans : Unused(t)' /\ t # stored'
    BY <2>1 DEF Harmless, RefreshTypeOK
  <2>3. call.at # "answered" => Unused(stored)'
    BY <2>1 DEF Harmless, RefreshTypeOK, Unused
  <2>4. QED
    BY <2>1, <2>2, <2>3 DEF Harmless, CallKnown
<1>7. QED
  BY <1>4, <1>5, <1>6

\* A step of the client that leaves the rows alone.
LEMMA ClientOnly ==
  ASSUME RefreshInv, UNCHANGED <<open, subject, token, reused>>, Harmless', CallKnown',
         stored' \in DOMAIN token \cup {NoToken}, orphans' \subseteq DOMAIN token,
         restarted' \in BOOLEAN,
         call' \in [at : {"rest", "sent", "answered"}, asked : MaybeToken, answer : MaybeToken]
  PROVE  RefreshInv'
<1>1. RefreshTypeOK'
  BY DEF RefreshInv, RefreshTypeOK, TokenRow
<1>2. Families'
  BY DEF RefreshInv, Families
<1>3. QED
  BY <1>1, <1>2 DEF RefreshInv

LEMMA AnswerKeeps == RefreshInv /\ Answer => RefreshInv'
<1> SUFFICES ASSUME RefreshInv, Answer PROVE RefreshInv'
  OBVIOUS
<1> USE DEF RefreshInv
<1>1. call.at = "sent" /\ call.asked \in DOMAIN token
  BY DEF Answer, CallKnown
<1>2. PICK n \in {NoToken, Len(token) + 1} :
        Refresh(call.asked, n) /\ call' = [call EXCEPT !.at = "answered", !.answer = n]
  BY DEF Answer
<1>3. /\ RowsGrow({call.asked}) /\ Families' /\ reused' \subseteq DOMAIN open
      /\ n \in DOMAIN token' \cup {NoToken}
      /\ n # NoToken => n \notin DOMAIN token /\ token'[n].status = "ACTIVE"
      /\ token[call.asked].status # "USED" => reused' = reused
  BY <1>1, <1>2, RefreshRows
<1>4. UNCHANGED <<subject, stored, orphans, restarted>>
  BY DEF Answer
<1>5. /\ DOMAIN token \subseteq DOMAIN token' /\ DOMAIN open \subseteq DOMAIN open'
      /\ open' \in Seq({"ACTIVE", "REVOKED"}) /\ token' \in Seq(TokenRow)
  BY <1>3 DEF RowsGrow
<1>6. /\ call' \in [at : {"rest", "sent", "answered"}, asked : MaybeToken, answer : MaybeToken]
      /\ call'.at = "answered" /\ call'.answer = n
  <2>1. n \in MaybeToken
    BY TokenRows DEF MaybeToken
  <2>2. call \in [at : {"rest", "sent", "answered"}, asked : MaybeToken, answer : MaybeToken]
    BY DEF RefreshTypeOK
  <2>3. QED
    BY <1>2, <2>1, <2>2
<1>7. RefreshTypeOK'
  BY <1>3, <1>4, <1>5, <1>6 DEF RefreshTypeOK, TokenRow
<1>8. CallKnown'
  BY <1>3, <1>6 DEF CallKnown
<1>9. Harmless'
  <2> SUFFICES ASSUME ~restarted
               PROVE  /\ reused' = {}
                      /\ \A t \in orphans : Unused(t)' /\ t # stored
                      /\ Unused(n)' /\ n \notin orphans
    BY <1>4, <1>6 DEF Harmless, Unused
  <2>1. Unused(call.asked) /\ call.asked \notin orphans
    BY <1>1 DEF Harmless
  <2>2. reused' = {}
    BY <2>1, <1>1, <1>3, TokenRows DEF Harmless, Unused
  <2>3. \A t \in orphans : Unused(t)' /\ t # stored
    BY <2>1, <1>3, UnusedStays DEF Harmless, RefreshTypeOK
  <2>4. Unused(n)' /\ n \notin orphans
    BY <1>3, TokenRows DEF Unused, RefreshTypeOK
  <2>5. QED
    BY <2>2, <2>3, <2>4
<1>10. QED
  BY <1>3, <1>7, <1>8, <1>9

LEMMA AnswerNobodyKeeps ==
  ASSUME RefreshInv, NEW t \in orphans, AnswerNobody(t)
  PROVE  RefreshInv'
<1> USE DEF RefreshInv
<1>1. PICK n \in {NoToken, Len(token) + 1} : Refresh(t, n)
  BY DEF AnswerNobody
<1>2. t \in DOMAIN token
  BY DEF RefreshTypeOK
<1>3. /\ RowsGrow({t}) /\ Families' /\ reused' \subseteq DOMAIN open
      /\ token[t].status # "USED" => reused' = reused
  BY <1>1, <1>2, RefreshRows
<1>4. orphans' = orphans \ {t} /\ UNCHANGED <<subject, stored, call, restarted>>
  BY DEF AnswerNobody
<1>5. /\ DOMAIN token \subseteq DOMAIN token' /\ DOMAIN open \subseteq DOMAIN open'
      /\ open' \in Seq({"ACTIVE", "REVOKED"}) /\ token' \in Seq(TokenRow)
  BY <1>3 DEF RowsGrow
<1>6. RefreshTypeOK' /\ CallKnown'
  BY <1>3, <1>4, <1>5 DEF RefreshTypeOK, TokenRow, CallKnown
<1>7. Harmless'
  <2> SUFFICES ASSUME ~restarted
               PROVE  /\ reused' = {}
                      /\ \A u \in orphans \ {t} : Unused(u)' /\ u # stored
                      /\ call.at # "answered" => Unused(stored)'
                      /\ call.at = "sent" => Unused(call.asked)' /\ call.asked \notin orphans
                      /\ call.at = "answered" => Unused(call.answer)' /\ call.answer \notin orphans
    BY <1>4 DEF Harmless, Unused
  <2>1. Unused(t) /\ t # stored
    BY DEF Harmless
  <2>2. reused' = {}
    BY <2>1, <1>2, <1>3, TokenRows DEF Harmless, Unused
  <2>3. \A u \in (DOMAIN token \cup {NoToken}) \ {t} : Unused(u) => Unused(u)'
    BY <1>3, UnusedStays
  <2>4. \A u \in orphans \ {t} : Unused(u)' /\ u # stored
    BY <2>3 DEF Harmless, RefreshTypeOK
  <2>5. call.at # "answered" => Unused(stored)'
    BY <1>4, <2>1, <2>3 DEF Harmless, RefreshTypeOK
  <2>6. /\ call.at = "sent" => Unused(call.asked)' /\ call.asked \notin orphans
        /\ call.at = "answered" => Unused(call.answer)' /\ call.answer \notin orphans
    BY <1>4, <2>3 DEF Harmless, CallKnown
  <2>7. QED
    BY <2>2, <2>4, <2>5, <2>6
<1>8. QED
  BY <1>3, <1>6, <1>7

\* The client asks, saves what it was answered, gives up, or is closed.
LEMMA ClientKeeps == RefreshInv /\ (Ask \/ Store \/ GiveUp \/ Restart) => RefreshInv'
<1> SUFFICES ASSUME RefreshInv, Ask \/ Store \/ GiveUp \/ Restart PROVE RefreshInv'
  OBVIOUS
<1> USE DEF RefreshInv
<1>1. /\ NoToken \notin DOMAIN token /\ DOMAIN token \subseteq Nat /\ orphans \subseteq DOMAIN token
      /\ stored \in DOMAIN token \cup {NoToken} /\ restarted \in BOOLEAN
  BY TokenRows DEF RefreshTypeOK
<1>2. /\ NoCall \in [at : {"rest", "sent", "answered"}, asked : MaybeToken, answer : MaybeToken]
      /\ NoCall.at = "rest"
  BY DEF NoCall, MaybeToken
<1>3. CASE Ask
  <2>1. /\ call' \in [at : {"rest", "sent", "answered"}, asked : MaybeToken, answer : MaybeToken]
        /\ call'.at = "sent" /\ call'.asked = stored /\ stored # NoToken /\ call.at = "rest"
    BY <1>1, <1>3 DEF Ask, NoCall, MaybeToken
  <2>2. UNCHANGED <<open, subject, token, stored, orphans, restarted, reused>>
    BY <1>3 DEF Ask
  <2>3. CallKnown' /\ Harmless'
    BY <1>1, <2>1, <2>2 DEF CallKnown, Harmless, Unused
  <2>4. QED
    BY <1>1, <2>1, <2>2, <2>3, ClientOnly
<1>4. CASE Store
  <2>1. /\ stored' = call.answer /\ call' = NoCall /\ call.at = "answered"
        /\ UNCHANGED <<open, subject, token, orphans, restarted, reused>>
    BY <1>4 DEF Store
  <2>2. call.answer \in DOMAIN token \cup {NoToken}
    BY <2>1 DEF CallKnown
  <2>3. CallKnown' /\ Harmless'
    BY <1>1, <1>2, <2>1, <2>2 DEF CallKnown, Harmless, Unused
  <2>4. QED
    BY <1>1, <1>2, <2>1, <2>2, <2>3, ClientOnly
<1>5. CASE GiveUp \/ Restart
  <2>0. Orphaned /\ call' = NoCall /\ UNCHANGED <<open, subject, token, reused>>
    BY <1>5 DEF GiveUp, Restart
  <2>1. /\ orphans' \subseteq DOMAIN token
        /\ \A t \in orphans' : t \in orphans \/ (call.at = "sent" /\ t = call.asked)
    <3>1. CASE call.at = "sent"
      BY <1>1, <2>0, <3>1 DEF Orphaned, CallKnown
    <3>2. CASE call.at # "sent"
      BY <1>1, <2>0, <3>2 DEF Orphaned
    <3>3. QED
      BY <3>1, <3>2
  <2>2. CallKnown'
    BY <1>2, <2>0 DEF CallKnown
  <2>3. \/ stored' = NoToken /\ restarted' = restarted
        \/ stored' = stored /\ restarted'
    BY <1>5 DEF GiveUp, Restart
  <2>4. Harmless'
    <3>1. CASE restarted'
      BY <3>1 DEF Harmless
    <3>2. CASE ~restarted'
      <4>1. stored' = NoToken /\ ~restarted
        BY <2>3, <3>2
      <4>2. \A t \in orphans' : Unused(t) /\ t # NoToken
        BY <1>1, <2>1, <4>1 DEF Harmless
      <4>3. reused = {}
        BY <4>1 DEF Harmless
      <4>4. QED
        BY <1>2, <2>0, <4>1, <4>2, <4>3 DEF Harmless, Unused
    <3>3. QED
      BY <3>1, <3>2
  <2>5. QED
    BY <1>1, <1>2, <2>0, <2>1, <2>2, <2>3, <2>4, ClientOnly
<1>6. QED
  BY <1>3, <1>4, <1>5

LEMMA NextRefresh == RefreshInv /\ [RefreshNext]_refreshVars => RefreshInv'
<1> SUFFICES ASSUME RefreshInv, [RefreshNext]_refreshVars PROVE RefreshInv'
  OBVIOUS
<1>1. CASE Login
  <2>1. /\ RowsGrow({}) /\ Families' /\ Len(token) + 1 \in DOMAIN token'
        /\ token'[Len(token) + 1].status = "ACTIVE"
    BY <1>1, LoginRows DEF RefreshInv
  <2>2. Len(token) + 1 \notin DOMAIN token
    BY TokenRows DEF RefreshInv
  <2>3. QED
    BY <1>1, <2>1, <2>2, RowsOnly DEF Login
<1>2. CASE SubjectGone
  <2>1. RowsGrow({}) /\ Families'
    BY <1>2 DEF SubjectGone, RowsGrow, Families, RefreshInv, RefreshTypeOK
  <2>2. QED
    BY <1>2, <2>1, RowsOnly DEF SubjectGone
<1>3. CASE \E s \in DOMAIN open : End(s)
  <2>1. RowsGrow({}) /\ Families'
    BY <1>3, CloseRows DEF End, RefreshInv
  <2>2. QED
    BY <1>3, <2>1, RowsOnly DEF End, RefreshInv, RefreshTypeOK
<1>4. CASE Ask \/ Store \/ GiveUp \/ Restart
  BY <1>4, ClientKeeps
<1>5. CASE Answer
  BY <1>5, AnswerKeeps
<1>6. CASE \E t \in orphans : AnswerNobody(t)
  BY <1>6, AnswerNobodyKeeps
<1>7. CASE UNCHANGED refreshVars
  BY <1>7 DEF refreshVars, RefreshInv, RefreshTypeOK, TokenRow, CallKnown, Families, Harmless, Unused
<1>8. QED
  BY <1>1, <1>2, <1>3, <1>4, <1>5, <1>6, <1>7 DEF RefreshNext

\* Families as the property has it: one live token, or none.
LEMMA FamiliesCount == RefreshInv => OneLiveToken
<1> SUFFICES ASSUME RefreshInv, NEW s \in DOMAIN open
             PROVE  Cardinality({t \in DOMAIN token :
                                   token[t].session = s /\ token[t].status = "ACTIVE"})
                      = IF open[s] = "ACTIVE" THEN 1 ELSE 0
  BY DEF OneLiveToken
<1> DEFINE live == {t \in DOMAIN token : token[t].session = s /\ token[t].status = "ACTIVE"}
<1>1. CASE open[s] = "ACTIVE"
  <2>1. PICK t \in DOMAIN token : token[t].session = s /\ token[t].status = "ACTIVE"
    BY <1>1 DEF RefreshInv, Families
  <2>2. live = {t}
    BY <2>1 DEF RefreshInv, Families
  <2>3. QED
    BY <1>1, <2>2, FS_Singleton
<1>2. CASE open[s] # "ACTIVE"
  <2>1. live = {}
    BY <1>2 DEF RefreshInv, Families
  <2>2. QED
    BY <1>2, <2>1, FS_EmptySet
<1>3. QED
  BY <1>1, <1>2

\* AuthCommandService.refresh and AuthSessionService.revokeSession: in every state a
\* live session has one token to refresh it with, and an ended session has none.
THEOREM OneTokenToASession == RefreshSpec => []OneLiveToken
  BY InitRefresh, NextRefresh, FamiliesCount, PTL DEF RefreshSpec

\* TokenManager: a client that was never closed during a refresh never loses its family
\* for reuse, however many requests find their token expired and answers are lost.
THEOREM ClientsKeepTheirFamily == RefreshSpec => []RefreshesAreSafe
<1>1. RefreshInv => RefreshesAreSafe
  BY DEF RefreshInv, Harmless, Unused, RefreshesAreSafe, ReuseMeansRestart, StoredIsUnused
<1>2. QED
  BY <1>1, InitRefresh, NextRefresh, PTL DEF RefreshSpec

-----------------------------------------------------------------------------
(* Codes                                                                   *)

LEMMA ChallengeRows ==
  ASSUME ChallengesTypeOK
  PROVE  /\ Len(challenge) \in Nat /\ DOMAIN challenge = 1..Len(challenge)
         /\ \A i \in DOMAIN challenge : challenge[i] \in ChallengeRow
         /\ NoCode \notin DOMAIN challenge
  BY LenProperties, ElementOfSeq, ChallengesAssumption DEF ChallengesTypeOK

\* The row lock: a code that is being tried is held by one transaction, which knows how
\* often it was tried and tries it for what it was sent, and nobody consumes it meanwhile.
ClaimsHold ==
  \A c \in Claimants : claim[c] # NoClaim =>
    /\ claim[c].code \in DOMAIN challenge
    /\ \A d \in Claimants : claim[d].code = claim[c].code => d = c
    /\ challenge[claim[c].code].attempts = claim[c].attempts
    /\ challenge[claim[c].code].purpose = claim[c].purpose
    /\ claim[c].attempts < MaxAttempts
    /\ ~challenge[claim[c].code].consumed

\* What a row says of its uses: one, and for its purpose, if it was consumed.
Uses(row) == [p \in Purposes |-> IF row.consumed /\ p = row.purpose THEN 1 ELSE 0]

\* The history by the rows: every wrong code is an attempt, and a code worked, for its
\* purpose, if it was consumed.
CodesAreCounted ==
  \A i \in DOMAIN challenge :
    /\ wrong[i] = challenge[i].attempts /\ challenge[i].attempts <= MaxAttempts
    /\ spent[i] = Uses(challenge[i])

CodesInv == ChallengesTypeOK /\ ClaimsHold /\ CodesAreCounted

LEMMA InitCodes == ChallengesInit => CodesInv
<1> SUFFICES ASSUME ChallengesInit PROVE CodesInv
  OBVIOUS
<1>1. challenge = <<>> /\ DOMAIN challenge = {} /\ wrong \in [{} -> Nat] /\ spent \in [{} -> [Purposes -> Nat]]
  BY DEF ChallengesInit
<1>2. challenge \in Seq(ChallengeRow)
  BY <1>1, EmptySeq
<1>3. ChallengesTypeOK
  BY <1>1, <1>2 DEF ChallengesInit, ChallengesTypeOK, NoClaim
<1>4. QED
  BY <1>1, <1>3 DEF ChallengesInit, CodesInv, ClaimsHold, CodesAreCounted

\* One row is set.
LEMMA ChallengeSet ==
  ASSUME ChallengesTypeOK, NEW i \in DOMAIN challenge, NEW r \in ChallengeRow,
         challenge' = [challenge EXCEPT ![i] = r]
  PROVE  /\ challenge' \in Seq(ChallengeRow) /\ DOMAIN challenge' = DOMAIN challenge
         /\ \A j \in DOMAIN challenge : challenge'[j] = IF j = i THEN r ELSE challenge[j]
  BY ChallengeRows, ExceptSeq, LenProperties DEF ChallengesTypeOK

LEMMA AskCodeKeeps ==
  ASSUME CodesInv, NEW purpose \in Purposes, AskCode(purpose)
  PROVE  CodesInv'
<1> USE DEF CodesInv
<1>1. CASE sends < MaxSends
  <2> DEFINE row == [purpose |-> purpose, attempts |-> 0, expired |-> FALSE, consumed |-> FALSE]
             new == Len(challenge) + 1
  <2>1. /\ challenge' = Append(challenge, row) /\ wrong' = Append(wrong, 0)
        /\ spent' = Append(spent, Unspent) /\ sends' = sends + 1 /\ cooldown' = TRUE
        /\ UNCHANGED <<accounts, claim>>
    BY <1>1 DEF AskCode
  <2>2. row \in ChallengeRow /\ row.attempts = 0 /\ Uses(row) = Unspent
    BY DEF ChallengeRow, Uses, Unspent
  <2> HIDE DEF row
  <2>3. /\ challenge' \in Seq(ChallengeRow) /\ DOMAIN challenge' = 1..new
        /\ challenge'[new] = row /\ \A i \in DOMAIN challenge : challenge'[i] = challenge[i]
    BY <2>1, <2>2, ChallengeRows, AppendProperties, LenProperties DEF ChallengesTypeOK
  <2>4. DOMAIN challenge = 1..Len(challenge) /\ Len(challenge) \in Nat
    BY ChallengeRows
  <2>5. /\ wrong' \in [1..new -> Nat] /\ wrong'[new] = 0
        /\ spent' \in [1..new -> [Purposes -> Nat]] /\ spent'[new] = Unspent
        /\ \A i \in DOMAIN challenge : wrong'[i] = wrong[i] /\ spent'[i] = spent[i]
    <3>1. Unspent \in [Purposes -> Nat]
      BY DEF Unspent
    <3>2. wrong \in [DOMAIN challenge -> Nat] /\ spent \in [DOMAIN challenge -> [Purposes -> Nat]]
      BY DEF ChallengesTypeOK
    <3>3. /\ wrong \in Seq(Nat) /\ Len(wrong) = Len(challenge)
          /\ spent \in Seq([Purposes -> Nat]) /\ Len(spent) = Len(challenge)
      BY <2>4, <3>2, SeqDef, LenProperties
    <3>4. /\ wrong' \in Seq(Nat) /\ Len(wrong') = new /\ wrong'[new] = 0
          /\ \A i \in 1..Len(challenge) : wrong'[i] = wrong[i]
      BY <2>1, <3>3, AppendProperties
    <3>5. /\ spent' \in Seq([Purposes -> Nat]) /\ Len(spent') = new /\ spent'[new] = Unspent
          /\ \A i \in 1..Len(challenge) : spent'[i] = spent[i]
      BY <2>1, <3>1, <3>3, AppendProperties
    <3>6. wrong' \in [1..new -> Nat]
      BY <3>4, LenProperties
    <3>7. spent' \in [1..new -> [Purposes -> Nat]]
      BY <3>5, LenProperties
    <3>8. QED
      BY <2>4, <3>4, <3>5, <3>6, <3>7
  <2>6. DOMAIN challenge' = DOMAIN challenge \cup {new}
    BY <2>3, ChallengeRows
  <2>7. ChallengesTypeOK'
    BY <2>1, <2>3, <2>5, <2>6 DEF ChallengesTypeOK
  <2>8. ClaimsHold'
    BY <2>1, <2>3, <2>6 DEF ClaimsHold
  <2>9. CodesAreCounted'
    <3>1. \A i \in DOMAIN challenge :
            /\ wrong'[i] = challenge'[i].attempts /\ challenge'[i].attempts <= MaxAttempts
            /\ spent'[i] = Uses(challenge'[i])
      BY <2>3, <2>5 DEF CodesAreCounted
    <3>2. 0 <= MaxAttempts
      BY ChallengesAssumption
    <3>3. /\ wrong'[new] = challenge'[new].attempts /\ challenge'[new].attempts <= MaxAttempts
          /\ spent'[new] = Uses(challenge'[new])
      BY <2>2, <2>3, <2>5, <3>2
    <3>4. \A i \in DOMAIN challenge' : i \in DOMAIN challenge \/ i = new
      BY <2>6
    <3>5. QED
      BY <3>1, <3>3, <3>4 DEF CodesAreCounted
  <2>10. QED
    BY <2>7, <2>8, <2>9
<1>2. CASE ~(sends < MaxSends)
  BY <1>2 DEF AskCode, ChallengesTypeOK, ClaimsHold, CodesAreCounted
<1>3. QED
  BY <1>1, <1>2

LEMMA TryCodeKeeps ==
  ASSUME CodesInv, NEW c \in Claimants, NEW i \in DOMAIN challenge,
         NEW purpose \in Purposes, TryCode(c, i, purpose)
  PROVE  CodesInv'
<1> USE DEF CodesInv
<1> DEFINE held == [code |-> i, attempts |-> challenge[i].attempts, purpose |-> purpose]
<1>1. /\ claim' = [claim EXCEPT ![c] = held]
      /\ UNCHANGED <<challenge, accounts, cooldown, sends, wrong, spent>>
      /\ \A d \in Claimants : claim[d].code # i
      /\ ~challenge[i].consumed /\ challenge[i].attempts < MaxAttempts
      /\ challenge[i].purpose = purpose
  BY DEF TryCode, RowFree, SentFor
<1>2. challenge[i].attempts \in Nat
  BY ChallengeRows DEF ChallengeRow
<1>3. ChallengesTypeOK'
  BY <1>1, <1>2 DEF ChallengesTypeOK
<1>4. \A d \in Claimants : claim'[d] = IF d = c THEN held ELSE claim[d]
  BY <1>1 DEF ChallengesTypeOK
<1>5. ClaimsHold'
  BY <1>1, <1>4 DEF ClaimsHold
<1>6. CodesAreCounted'
  BY <1>1 DEF CodesAreCounted
<1>7. QED
  BY <1>3, <1>5, <1>6

\* A transaction that lets its row go, having set it.
LEMMA RowLeft ==
  ASSUME CodesInv, NEW c \in Claimants, claim[c] # NoClaim, NEW r \in ChallengeRow,
         challenge' = [challenge EXCEPT ![claim[c].code] = r],
         claim' = [claim EXCEPT ![c] = NoClaim],
         r.purpose = challenge[claim[c].code].purpose,
         wrong' \in [DOMAIN challenge -> Nat], spent' \in [DOMAIN challenge -> [Purposes -> Nat]],
         accounts' \in Nat, UNCHANGED <<cooldown, sends>>,
         \A i \in DOMAIN challenge \ {claim[c].code} : wrong'[i] = wrong[i] /\ spent'[i] = spent[i],
         wrong'[claim[c].code] = r.attempts, r.attempts <= MaxAttempts,
         spent'[claim[c].code] = Uses(r)
  PROVE  CodesInv'
<1> USE DEF CodesInv
<1>1. claim[c].code \in DOMAIN challenge
  BY DEF ClaimsHold
<1>2. /\ challenge' \in Seq(ChallengeRow) /\ DOMAIN challenge' = DOMAIN challenge
      /\ \A j \in DOMAIN challenge :
           challenge'[j] = IF j = claim[c].code THEN r ELSE challenge[j]
  BY <1>1, ChallengeSet
<1>3. \A d \in Claimants : claim'[d] = IF d = c THEN NoClaim ELSE claim[d]
  BY DEF ChallengesTypeOK
<1>4. ChallengesTypeOK'
  BY <1>2 DEF ChallengesTypeOK, NoClaim
<1>5. ClaimsHold'
  <2> SUFFICES ASSUME NEW d \in Claimants, claim'[d] # NoClaim
               PROVE  /\ claim'[d].code \in DOMAIN challenge'
                      /\ \A e \in Claimants : claim'[e].code = claim'[d].code => e = d
                      /\ challenge'[claim'[d].code].attempts = claim'[d].attempts
                      /\ challenge'[claim'[d].code].purpose = claim'[d].purpose
                      /\ claim'[d].attempts < MaxAttempts
                      /\ ~challenge'[claim'[d].code].consumed
    BY DEF ClaimsHold, NoClaim
  <2>1. d # c /\ claim'[d] = claim[d] /\ claim[d] # NoClaim
    BY <1>3
  <2>2. claim[d].code # claim[c].code /\ claim[d].code \in DOMAIN challenge
    BY <2>1 DEF ClaimsHold
  <2>3. NoClaim.code = NoCode /\ claim[d].code # NoCode
    BY <2>2, ChallengeRows DEF NoClaim
  <2>4. \A e \in Claimants : claim'[e].code = claim'[d].code => e = d
    BY <1>3, <2>1, <2>3 DEF ClaimsHold
  <2>5. QED
    BY <1>2, <2>1, <2>2, <2>4 DEF ClaimsHold
<1>6. CodesAreCounted'
  <2>1. ASSUME NEW i \in DOMAIN challenge, i # claim[c].code
        PROVE  /\ wrong'[i] = challenge'[i].attempts /\ challenge'[i].attempts <= MaxAttempts
               /\ spent'[i] = Uses(challenge'[i])
    BY <1>2, <2>1 DEF CodesAreCounted
  <2>2. challenge'[claim[c].code] = r
    BY <1>1, <1>2
  <2>3. QED
    BY <1>2, <2>1, <2>2 DEF CodesAreCounted
<1>7. QED
  BY <1>4, <1>5, <1>6

LEMMA CodeExpiresKeeps ==
  ASSUME CodesInv, NEW i \in DOMAIN challenge, CodeExpires(i)
  PROVE  CodesInv'
<1> USE DEF CodesInv
<1> DEFINE r == [challenge[i] EXCEPT !.expired = TRUE]
<1>1. challenge[i] \in ChallengeRow
  BY ChallengeRows
<1>2. /\ r \in ChallengeRow /\ r.attempts = challenge[i].attempts
      /\ r.consumed = challenge[i].consumed /\ r.purpose = challenge[i].purpose
  BY <1>1 DEF ChallengeRow
<1>3. challenge' = [challenge EXCEPT ![i] = r]
  BY DEF CodeExpires
<1> HIDE DEF r
<1>4. /\ challenge' \in Seq(ChallengeRow) /\ DOMAIN challenge' = DOMAIN challenge
      /\ \A j \in DOMAIN challenge : challenge'[j] = IF j = i THEN r ELSE challenge[j]
  BY <1>2, <1>3, ChallengeSet
<1>5. UNCHANGED <<accounts, cooldown, sends, claim, wrong, spent>>
  BY DEF CodeExpires
<1>6. \A j \in DOMAIN challenge : /\ challenge'[j].attempts = challenge[j].attempts
                                  /\ challenge'[j].consumed = challenge[j].consumed
                                  /\ challenge'[j].purpose = challenge[j].purpose
  BY <1>2, <1>4
<1>7. ChallengesTypeOK'
  BY <1>4, <1>5 DEF ChallengesTypeOK
<1>8. ClaimsHold'
  BY <1>4, <1>5, <1>6 DEF ClaimsHold
<1>9. CodesAreCounted'
  <2>1. \A j \in DOMAIN challenge : Uses(challenge'[j]) = Uses(challenge[j])
    BY <1>6 DEF Uses
  <2>2. QED
    BY <1>4, <1>5, <1>6, <2>1 DEF CodesAreCounted
<1>10. QED
  BY <1>7, <1>8, <1>9

\* A transaction answers, fails, or does what the code is for.
LEMMA ClaimEnds ==
  ASSUME CodesInv, NEW c \in Claimants,
         WrongCode(c) \/ TransactionFails(c) \/ Register(c) \/ ConfirmReset(c)
  PROVE  CodesInv'
<1> USE DEF CodesInv
<1> DEFINE i == claim[c].code
           row == challenge[i]
<1>1. claim[c] # NoClaim
  BY DEF WrongCode, TransactionFails, Register, ConfirmReset, NoClaim
<1>2. /\ i \in DOMAIN challenge /\ row.attempts = claim[c].attempts
      /\ claim[c].attempts < MaxAttempts /\ ~row.consumed
      /\ row.purpose = claim[c].purpose
      /\ wrong[i] = row.attempts /\ spent[i] = Uses(row)
  BY <1>1 DEF ClaimsHold, CodesAreCounted
<1>3. row \in ChallengeRow /\ row.attempts \in Nat
  BY <1>2, ChallengeRows DEF ChallengeRow
<1>4. wrong \in [DOMAIN challenge -> Nat] /\ spent \in [DOMAIN challenge -> [Purposes -> Nat]]
      /\ accounts \in Nat
  BY DEF ChallengesTypeOK
<1>5. CASE WrongCode(c)
  <2> DEFINE r == [row EXCEPT !.attempts = claim[c].attempts + 1]
  <2>1. /\ r \in ChallengeRow /\ r.attempts = claim[c].attempts + 1
        /\ r.consumed = row.consumed /\ r.purpose = row.purpose
    BY <1>2, <1>3 DEF ChallengeRow
  <2>2. /\ challenge' = [challenge EXCEPT ![i] = r] /\ claim' = [claim EXCEPT ![c] = NoClaim]
        /\ wrong' = [wrong EXCEPT ![i] = wrong[i] + 1]
        /\ UNCHANGED <<accounts, cooldown, sends, spent>>
    BY <1>2, <1>5 DEF WrongCode, ChallengesTypeOK
  <2>3. /\ wrong' \in [DOMAIN challenge -> Nat] /\ wrong'[i] = wrong[i] + 1
        /\ \A j \in DOMAIN challenge \ {i} : wrong'[j] = wrong[j]
    BY <2>2, <1>2, <1>3, <1>4
  <2>4. r.attempts <= MaxAttempts
    BY <2>1, <1>2, <1>3, ChallengesAssumption
  <2>5. wrong'[i] = r.attempts /\ spent'[i] = Uses(r)
    BY <1>2, <2>1, <2>2, <2>3 DEF Uses
  <2>6. /\ accounts' \in Nat /\ spent' \in [DOMAIN challenge -> [Purposes -> Nat]]
        /\ \A j \in DOMAIN challenge \ {i} : wrong'[j] = wrong[j] /\ spent'[j] = spent[j]
    BY <1>4, <2>2, <2>3
  <2> HIDE DEF r
  <2>7. QED
    BY <1>1, <2>1, <2>2, <2>3, <2>4, <2>5, <2>6, RowLeft
<1>6. CASE TransactionFails(c)
  <2>1. /\ claim' = [claim EXCEPT ![c] = NoClaim]
        /\ UNCHANGED <<challenge, accounts, cooldown, sends, wrong, spent>>
    BY <1>6 DEF TransactionFails
  <2>2. challenge' = [challenge EXCEPT ![i] = row]
    BY <2>1, <1>2, ChallengeRows DEF ChallengesTypeOK
  <2>3. row.attempts <= MaxAttempts
    BY <1>2 DEF CodesAreCounted
  <2> HIDE DEF row
  <2>4. QED
    BY <1>1, <1>2, <1>3, <1>4, <2>1, <2>2, <2>3, RowLeft
<1>7. CASE Register(c) \/ ConfirmReset(c)
  <2> DEFINE r == [row EXCEPT !.consumed = TRUE]
  <2>1. /\ r \in ChallengeRow /\ r.attempts = row.attempts /\ r.consumed = TRUE
        /\ r.purpose = row.purpose
    BY <1>3 DEF ChallengeRow
  <2>2. Consume(c) /\ accounts' \in Nat /\ UNCHANGED <<cooldown, sends, wrong>>
    BY <1>4, <1>7 DEF Register, ConfirmReset
  <2>3. /\ challenge' = [challenge EXCEPT ![i] = r] /\ claim' = [claim EXCEPT ![c] = NoClaim]
        /\ spent' = [spent EXCEPT ![i] = [spent[i] EXCEPT ![row.purpose] = @ + 1]]
    BY <1>2, <2>2 DEF Consume
  <2>4. /\ spent' \in [DOMAIN challenge -> [Purposes -> Nat]] /\ spent'[i] = Uses(r)
        /\ \A j \in DOMAIN challenge \ {i} : spent'[j] = spent[j]
    <3>1. row.purpose \in Purposes
      BY <1>3 DEF ChallengeRow
    <3>2. [spent[i] EXCEPT ![row.purpose] = @ + 1] = Uses(r)
      BY <1>2, <2>1, <3>1 DEF Uses
    <3>3. Uses(r) \in [Purposes -> Nat]
      BY DEF Uses
    <3>4. QED
      BY <1>2, <1>4, <2>3, <3>2, <3>3
  <2>5. r.attempts <= MaxAttempts
    BY <2>1, <1>2 DEF CodesAreCounted
  <2> HIDE DEF r
  <2>6. QED
    BY <1>1, <1>2, <1>4, <2>1, <2>2, <2>3, <2>4, <2>5, RowLeft
<1>8. QED
  BY <1>5, <1>6, <1>7

LEMMA NextCodes == CodesInv /\ [ChallengesNext]_challengesVars => CodesInv'
<1> SUFFICES ASSUME CodesInv, [ChallengesNext]_challengesVars PROVE CodesInv'
  OBVIOUS
<1>1. CASE \E purpose \in Purposes : AskCode(purpose)
  BY <1>1, AskCodeKeeps
<1>2. CASE CooldownPasses \/ HourPasses \/ IdentityFreed \/ UNCHANGED challengesVars
  <2>1. UNCHANGED <<challenge, claim, wrong, spent>>
    BY <1>2 DEF CooldownPasses, HourPasses, IdentityFreed, challengesVars
  <2>2. accounts' \in {accounts, 0} /\ cooldown' \in {cooldown, FALSE} /\ sends' \in {sends, 0}
    BY <1>2 DEF CooldownPasses, HourPasses, IdentityFreed, challengesVars
  <2>3. ChallengesTypeOK'
    <3>1. cooldown' \in BOOLEAN
      BY <2>2, Zenon DEF CodesInv, ChallengesTypeOK
    <3>2. accounts' \in Nat /\ sends' \in Nat
      BY <2>2 DEF CodesInv, ChallengesTypeOK
    <3>3. QED
      BY <2>1, <3>1, <3>2, Zenon DEF CodesInv, ChallengesTypeOK
  <2>4. ClaimsHold' /\ CodesAreCounted'
    BY <2>1 DEF CodesInv, ClaimsHold, CodesAreCounted
  <2>5. QED
    BY <2>3, <2>4 DEF CodesInv
<1>3. CASE \E i \in DOMAIN challenge :
             \/ CodeExpires(i)
             \/ \E c \in Claimants, purpose \in Purposes : TryCode(c, i, purpose)
  BY <1>3, CodeExpiresKeeps, TryCodeKeeps
<1>4. CASE \E c \in Claimants :
             WrongCode(c) \/ TransactionFails(c) \/ Register(c) \/ ConfirmReset(c)
  BY <1>4, ClaimEnds
<1>5. QED
  BY <1>1, <1>2, <1>3, <1>4 DEF ChallengesNext

\* consumeChallenge under its row lock: whatever requests try the codes of an identity
\* at once, wrong attempts stay within the limit of a code, and it works once, for the
\* purpose it was sent for.
THEOREM CodesSpentOnce == ChallengesSpec => []CodesWorkOnce
<1>1. CodesInv => CodesWorkOnce
  <2>1. CodesInv => \A i \in DOMAIN challenge :
                      challenge[i].consumed \in BOOLEAN /\ challenge[i].purpose \in Purposes
    BY ChallengeRows DEF CodesInv, ChallengeRow
  <2>2. CodesInv => \A i \in DOMAIN challenge :
                      /\ wrong[i] <= MaxAttempts
                      /\ \A p \in Purposes :
                           spent[i][p] = IF challenge[i].consumed /\ p = challenge[i].purpose
                                           THEN 1 ELSE 0
    <3> SUFFICES ASSUME CodesInv, NEW i \in DOMAIN challenge
                 PROVE  /\ wrong[i] <= MaxAttempts
                        /\ \A p \in Purposes :
                             spent[i][p] = IF challenge[i].consumed /\ p = challenge[i].purpose
                                             THEN 1 ELSE 0
      OBVIOUS
    <3>1. wrong[i] <= MaxAttempts /\ spent[i] = Uses(challenge[i])
      BY DEF CodesInv, CodesAreCounted
    <3>2. QED
      BY <3>1 DEF Uses
  <2>3. CodesInv => CodesAreBounded
    BY <2>1, <2>2 DEF CodesAreBounded
  <2>4. CodesInv => ConsumedMeansDone
    <3> SUFFICES ASSUME CodesInv, NEW i \in DOMAIN challenge
                 PROVE  challenge[i].consumed <=> spent[i][challenge[i].purpose] > 0
      BY DEF ConsumedMeansDone
    <3>1. CASE challenge[i].consumed
      BY <2>1, <2>2, <3>1
    <3>2. CASE ~challenge[i].consumed
      BY <2>1, <2>2, <3>2
    <3>3. QED
      BY <3>1, <3>2
  <2>5. QED
    BY <2>3, <2>4 DEF CodesWorkOnce
<1>2. QED
  BY <1>1, InitCodes, NextCodes, PTL DEF ChallengesSpec

-----------------------------------------------------------------------------
(* Logins                                                                  *)

At(S) == {g \in Guessers : guess[g] \in S}

\* Logins past the check, and wrong passwords not yet counted.
Admitted == Cardinality(At({"allowed", "wrong"}))
Uncounted == Cardinality(At({"wrong"}))

\* What has been counted, and what is still to be, by logins and lost processes; the
\* check lets the last one in below the limit.
GuessesAreCounted ==
  /\ wrongs <= failures + Uncounted + losses
  /\ failures + Admitted <= LoginLimit + Cardinality(Guessers) - 1

LimiterInv == LimiterTypeOK /\ GuessesAreCounted /\ LockoutsEnd

LEMMA AtType ==
  ASSUME NEW S
  PROVE  /\ IsFiniteSet(At(S)) /\ Cardinality(At(S)) \in Nat
         /\ Cardinality(At(S)) <= Cardinality(Guessers) /\ Cardinality(Guessers) \in Nat
<1>1. At(S) \subseteq Guessers /\ IsFiniteSet(Guessers)
  BY LimiterAssumption DEF At
<1>2. QED
  BY <1>1, FS_Subset, FS_CardinalityType

\* A login that goes on counts where it arrives and no longer where it was.
LEMMA GuessMoves ==
  ASSUME LimiterTypeOK, NEW g \in Guessers, NEW v, guess' = [guess EXCEPT ![g] = v], NEW S
  PROVE  Cardinality(At(S))' = Cardinality(At(S)) + (IF v \in S THEN 1 ELSE 0)
                                 - (IF guess[g] \in S THEN 1 ELSE 0)
<1>1. guess'[g] = v /\ \A h \in Guessers \ {g} : guess'[h] = guess[h]
  BY DEF LimiterTypeOK
<1>2. IsFiniteSet(At(S)) /\ Cardinality(At(S)) \in Nat
  BY AtType
<1>3. IsFiniteSet(At(S) \ {g}) /\ Cardinality(At(S) \ {g})
        = IF guess[g] \in S THEN Cardinality(At(S)) - 1 ELSE Cardinality(At(S))
  <2>1. g \in At(S) <=> guess[g] \in S
    BY DEF At
  <2>2. QED
    BY <1>2, <2>1, FS_RemoveElement
<1>4. CASE v \in S
  <2>1. At(S)' = (At(S) \ {g}) \cup {g}
    BY <1>1, <1>4 DEF At
  <2>2. Cardinality(At(S)') = Cardinality(At(S) \ {g}) + 1
    BY <1>3, <2>1, FS_AddElement
  <2>3. QED
    BY <1>2, <1>3, <1>4, <2>2
<1>5. CASE v \notin S
  <2>1. At(S)' = At(S) \ {g}
    BY <1>1, <1>5 DEF At
  <2>2. QED
    BY <1>2, <1>3, <1>5, <2>1
<1>6. QED
  BY <1>4, <1>5

LEMMA InitLimiter == LimiterInit => LimiterInv
<1> SUFFICES ASSUME LimiterInit PROVE LimiterInv
  OBVIOUS
<1>0. ~(failures > 0)
  BY DEF LimiterInit
<1>1. LimiterTypeOK /\ LockoutsEnd
  BY <1>0 DEF LimiterInit, LimiterTypeOK, LockoutsEnd
<1>2. At({"allowed", "wrong"}) = {} /\ At({"wrong"}) = {}
  BY DEF LimiterInit, At
<1>3. Admitted = 0 /\ Uncounted = 0
  BY <1>2, FS_EmptySet DEF Admitted, Uncounted
<1>4. Cardinality(Guessers) \in Nat /\ LoginLimit \in Nat \ {0}
  BY AtType, LimiterAssumption
<1>5. GuessesAreCounted
  BY <1>3, <1>4 DEF LimiterInit, GuessesAreCounted
<1>6. QED
  BY <1>1, <1>5 DEF LimiterInv

\* One login of those at work goes on; failures and wrongs follow.
LEMMA LoginStep ==
  ASSUME LimiterInv, NEW g \in Guessers,
         CheckAllowed(g) \/ WrongPassword(g) \/ RightPassword(g) \/ Count(g) \/ SetExpiry(g)
           \/ LoginLost(g)
  PROVE  GuessesAreCounted'
<1>1. PICK v \in {"idle", "allowed", "wrong", "expire"} : guess' = [guess EXCEPT ![g] = v]
  BY DEF CheckAllowed, WrongPassword, RightPassword, Count, SetExpiry, LoginLost
<1>2. /\ Admitted' = Admitted + (IF v \in {"allowed", "wrong"} THEN 1 ELSE 0)
                       - (IF guess[g] \in {"allowed", "wrong"} THEN 1 ELSE 0)
      /\ Uncounted' = Uncounted + (IF v = "wrong" THEN 1 ELSE 0)
                        - (IF guess[g] = "wrong" THEN 1 ELSE 0)
  <2>1. /\ Admitted' = Admitted + (IF v \in {"allowed", "wrong"} THEN 1 ELSE 0)
                         - (IF guess[g] \in {"allowed", "wrong"} THEN 1 ELSE 0)
    BY <1>1, GuessMoves DEF Admitted, LimiterInv
  <2>2. Uncounted' = Uncounted + (IF v \in {"wrong"} THEN 1 ELSE 0)
                       - (IF guess[g] \in {"wrong"} THEN 1 ELSE 0)
    BY <1>1, GuessMoves DEF Uncounted, LimiterInv
  <2>3. /\ v \in {"wrong"} <=> v = "wrong"
        /\ guess[g] \in {"wrong"} <=> guess[g] = "wrong"
    OBVIOUS
  <2>4. QED
    BY <2>1, <2>2, <2>3
<1>3. /\ Admitted \in Nat /\ Admitted' \in Nat /\ Admitted' <= Cardinality(Guessers)
      /\ Uncounted \in Nat /\ Uncounted' \in Nat /\ Cardinality(Guessers) \in Nat
  <2>1. Admitted \in Nat /\ Uncounted \in Nat /\ Cardinality(Guessers) \in Nat
    BY AtType DEF Admitted, Uncounted
  <2>2. \A S : Cardinality(At(S))' \in Nat /\ Cardinality(At(S))' <= Cardinality(Guessers)
    <3> TAKE S
    <3>1. At(S)' \subseteq Guessers /\ IsFiniteSet(Guessers)
      BY LimiterAssumption DEF At
    <3>2. QED
      BY <3>1, FS_Subset, FS_CardinalityType
  <2>3. QED
    BY <2>1, <2>2 DEF Admitted, Uncounted
<1>4. /\ guess[g] \in {"idle", "allowed", "wrong", "expire"} /\ guess'[g] = v
      /\ failures \in Nat /\ wrongs \in Nat /\ losses \in Nat /\ LoginLimit \in Nat \ {0}
      /\ wrongs <= failures + Uncounted + losses
      /\ failures + Admitted <= LoginLimit + Cardinality(Guessers) - 1
  BY <1>1, LimiterAssumption DEF LimiterInv, LimiterTypeOK, GuessesAreCounted
<1>5. CASE CheckAllowed(g)
  <2>1. /\ guess[g] = "idle" /\ v = "allowed" /\ failures < LoginLimit
        /\ UNCHANGED <<failures, wrongs, losses>>
    BY <1>4, <1>5 DEF CheckAllowed, LimiterInv, LimiterTypeOK
  <2>2. QED
    BY <1>2, <1>3, <1>4, <2>1 DEF GuessesAreCounted
<1>6. CASE WrongPassword(g)
  <2>1. /\ guess[g] = "allowed" /\ v = "wrong" /\ wrongs' = wrongs + 1
        /\ UNCHANGED <<failures, losses>>
    BY <1>4, <1>6 DEF WrongPassword, LimiterInv, LimiterTypeOK
  <2>2. QED
    BY <1>2, <1>3, <1>4, <2>1 DEF GuessesAreCounted
<1>7. CASE RightPassword(g)
  <2>1. failures' = 0 /\ wrongs' = 0 /\ losses' = losses
    BY <1>7 DEF RightPassword
  <2>2. wrongs' <= failures' + Uncounted' + losses'
    <3>1. losses \in Nat /\ Uncounted' \in Nat
      BY <1>3, <1>4
    <3>2. \A u, l \in Nat : 0 <= 0 + u + l
      OBVIOUS
    <3>3. QED
      BY <2>1, <3>1, <3>2, Zenon
  <2>3. failures' + Admitted' <= LoginLimit + Cardinality(Guessers) - 1
    <3>1. Admitted' <= Cardinality(Guessers) /\ Admitted' \in Nat
      BY <1>3
    <3>2. LoginLimit \in Nat /\ LoginLimit >= 1 /\ Cardinality(Guessers) \in Nat
      BY <1>3, <1>4
    <3>3. QED
      BY <2>1, <3>1, <3>2
  <2>4. QED
    BY <2>2, <2>3 DEF GuessesAreCounted
<1>8. CASE Count(g)
  <2>1. /\ guess[g] = "wrong" /\ v \in {"expire", "idle"} /\ failures' = failures + 1
        /\ UNCHANGED <<wrongs, losses>>
    BY <1>4, <1>8 DEF Count, LimiterInv, LimiterTypeOK
  <2>2. QED
    BY <1>2, <1>3, <1>4, <2>1 DEF GuessesAreCounted
<1>9. CASE SetExpiry(g)
  <2>1. guess[g] = "expire" /\ v = "idle" /\ UNCHANGED <<failures, wrongs, losses>>
    BY <1>4, <1>9 DEF SetExpiry, LimiterInv, LimiterTypeOK
  <2>2. QED
    BY <1>2, <1>3, <1>4, <2>1 DEF GuessesAreCounted
<1>10. CASE LoginLost(g)
  <2>1. v = "idle" /\ losses' = losses + 1 /\ UNCHANGED <<failures, wrongs>>
    BY <1>4, <1>10 DEF LoginLost, LimiterInv, LimiterTypeOK
  <2>2. QED
    BY <1>2, <1>3, <1>4, <2>1 DEF GuessesAreCounted
<1>11. QED
  BY <1>5, <1>6, <1>7, <1>8, <1>9, <1>10

LEMMA LimiterTyped ==
  ASSUME LimiterTypeOK, NEW g \in Guessers,
         CheckAllowed(g) \/ WrongPassword(g) \/ RightPassword(g) \/ Count(g) \/ SetExpiry(g)
           \/ LoginLost(g)
  PROVE  LimiterTypeOK'
<1>1. PICK v \in {"idle", "allowed", "wrong", "expire"} : guess' = [guess EXCEPT ![g] = v]
  BY DEF CheckAllowed, WrongPassword, RightPassword, Count, SetExpiry, LoginLost
<1>2. ttl' \in BOOLEAN
  <2>1. ttl' = ttl \/ ttl' = FALSE \/ ttl' = (failures > 0)
    <3>1. CASE SetExpiry(g)
      BY <3>1 DEF SetExpiry
    <3>2. CASE RightPassword(g)
      BY <3>2 DEF RightPassword
    <3>3. CASE CheckAllowed(g) \/ WrongPassword(g) \/ Count(g) \/ LoginLost(g)
      BY <3>3 DEF CheckAllowed, WrongPassword, Count, LoginLost
    <3>4. QED
      BY <3>1, <3>2, <3>3
  <2>2. QED
    <3>1. (failures > 0) \in BOOLEAN
      OBVIOUS
    <3>2. QED
      BY <2>1, <3>1, Zenon DEF LimiterTypeOK
<1>3. stuck' \in BOOLEAN
  BY DEF CheckAllowed, WrongPassword, RightPassword, Count, SetExpiry, LoginLost, LimiterTypeOK
<1>4. /\ failures' \in {failures, failures + 1, 0} /\ wrongs' \in {wrongs, wrongs + 1, 0}
      /\ losses' \in {losses, losses + 1}
  BY DEF CheckAllowed, WrongPassword, RightPassword, Count, SetExpiry, LoginLost
<1>5. QED
  BY <1>1, <1>2, <1>3, <1>4 DEF LimiterTypeOK

\* Who counts first goes on to set the expiry, and only it can leave without.
LEMMA LockoutsStep ==
  ASSUME LimiterTypeOK, LockoutsEnd, NEW g \in Guessers,
         CheckAllowed(g) \/ WrongPassword(g) \/ RightPassword(g) \/ Count(g) \/ SetExpiry(g)
           \/ LoginLost(g)
  PROVE  LockoutsEnd'
<1>1. PICK v \in {"idle", "allowed", "wrong", "expire"} : guess' = [guess EXCEPT ![g] = v]
  BY DEF CheckAllowed, WrongPassword, RightPassword, Count, SetExpiry, LoginLost
<1>2. guess'[g] = v /\ \A h \in Guessers \ {g} : guess'[h] = guess[h]
  BY <1>1 DEF LimiterTypeOK
<1>3. CASE CheckAllowed(g) \/ WrongPassword(g)
  <2>1. guess[g] # "expire" /\ UNCHANGED <<failures, ttl, stuck>>
    BY <1>3 DEF CheckAllowed, WrongPassword
  <2>2. QED
    BY <1>2, <2>1 DEF LockoutsEnd
<1>4. CASE RightPassword(g)
  <2>1. ~(failures' > 0)
    BY <1>4 DEF RightPassword
  <2>2. QED
    BY <2>1 DEF LockoutsEnd
<1>5. CASE Count(g)
  <2>1. guess[g] = "wrong" /\ UNCHANGED <<ttl, stuck>> /\ (failures = 0 => guess'[g] = "expire")
    BY <1>5 DEF Count, LimiterTypeOK
  <2>2. failures = 0 \/ failures > 0
    BY DEF LimiterTypeOK
  <2>3. QED
    BY <1>2, <2>1, <2>2 DEF LockoutsEnd
<1>6. CASE SetExpiry(g)
  <2>1. ttl' = (failures > 0) /\ failures' = failures
    BY <1>6 DEF SetExpiry
  <2>2. QED
    BY <2>1 DEF LockoutsEnd
<1>7. CASE LoginLost(g)
  <2>1. /\ failures' = failures /\ ttl' = ttl
        /\ stuck' = (stuck \/ (guess[g] = "expire" /\ failures > 0))
    BY <1>7 DEF LoginLost
  <2>2. QED
    BY <1>2, <2>1, Zenon DEF LockoutsEnd
<1>8. QED
  BY <1>3, <1>4, <1>5, <1>6, <1>7

LEMMA NextLimiter == LimiterInv /\ [LimiterNext]_limiterVars => LimiterInv'
<1> SUFFICES ASSUME LimiterInv, [LimiterNext]_limiterVars PROVE LimiterInv'
  OBVIOUS
<1> DEFINE Step(g) == CheckAllowed(g) \/ WrongPassword(g) \/ RightPassword(g) \/ Count(g)
                        \/ SetExpiry(g) \/ LoginLost(g)
<1>1. CASE \E g \in Guessers : Step(g)
  <2>1. PICK g \in Guessers : Step(g)
    BY <1>1
  <2>2. LimiterTypeOK'
    BY <2>1, LimiterTyped DEF LimiterInv
  <2>3. LockoutsEnd'
    BY <2>1, LockoutsStep DEF LimiterInv
  <2>4. QED
    BY <2>1, <2>2, <2>3, LoginStep DEF LimiterInv
<1>2. CASE KeyExpires
  <2>1. failures' = 0 /\ wrongs' = 0 /\ UNCHANGED <<guess, losses>>
    BY <1>2 DEF KeyExpires
  <2>2. Admitted' = Admitted /\ Uncounted' = Uncounted
    BY <2>1 DEF Admitted, Uncounted, At
  <2>3. /\ Admitted \in Nat /\ Uncounted \in Nat /\ Admitted <= Cardinality(Guessers)
        /\ Cardinality(Guessers) \in Nat
    BY AtType DEF Admitted, Uncounted
  <2>4. GuessesAreCounted'
    BY <2>1, <2>2, <2>3, LimiterAssumption DEF GuessesAreCounted, LimiterInv, LimiterTypeOK
  <2>5. LimiterTypeOK'
    BY <1>2 DEF KeyExpires, LimiterInv, LimiterTypeOK
  <2>6. ~(failures' > 0)
    BY <2>1
  <2>7. QED
    BY <2>4, <2>5, <2>6 DEF LimiterInv, LockoutsEnd
<1>3. CASE UNCHANGED limiterVars
  BY <1>3 DEF limiterVars, LimiterInv, LimiterTypeOK, GuessesAreCounted, LockoutsEnd,
              Admitted, Uncounted, At
<1>4. QED
  BY <1>1, <1>2, <1>3 DEF LimiterNext

\* AuthRateLimiterService: however many logins run at once, wrong passwords stop at the
\* limit and what was past the check or lost, and a lockout ends.
THEOREM GuessesLimited == LimiterSpec => []LoginsAreLimited
<1>1. LimiterInv => LoginsAreLimited
  <2> SUFFICES ASSUME LimiterInv PROVE LoginsAreLimited
    OBVIOUS
  <2>1. /\ Admitted \in Nat /\ Uncounted \in Nat /\ Cardinality(Guessers) \in Nat
    BY AtType DEF Admitted, Uncounted
  <2>2. Uncounted <= Admitted
    <3>1. At({"wrong"}) \in SUBSET At({"allowed", "wrong"})
      BY DEF At
    <3>2. QED
      BY <3>1, AtType, FS_Subset DEF Admitted, Uncounted
  <2>3. GuessesAreBounded
    BY <2>1, <2>2, LimiterAssumption
       DEF LimiterInv, LimiterTypeOK, GuessesAreCounted, GuessesAreBounded
  <2>4. QED
    BY <2>3 DEF LimiterInv, LoginsAreLimited
<1>2. QED
  BY <1>1, InitLimiter, NextLimiter, PTL DEF LimiterSpec
=============================================================================
