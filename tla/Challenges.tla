------------------------------ MODULE Challenges ------------------------------
(***************************************************************************)
(* The codes sent to one identity, and what a right one does: registration *)
(* and password reset of AuthCommandService, behind the limits that        *)
(* AuthRateLimiterService puts on asking for codes.                        *)
(***************************************************************************)
EXTENDS Integers, Sequences, FiniteSets

CONSTANTS
  Claimants,           \* requests that can try a code at once
  NoCode,
  MaxAttempts, MaxSends, \* challengeMaxAttempts; challenges an hour
  MaxCodes             \* bound of the model: challenges ever made

ASSUME ChallengesAssumption ==
  {MaxAttempts, MaxSends, MaxCodes} \subseteq Nat /\ NoCode \notin Nat

VARIABLES
  challenge,  \* auth_challenges of the identity, in the order of creation
  accounts,   \* user_credentials rows with the identity
  cooldown,   \* the resend key is set
  sends,      \* the counter of challenges in this hour
  claim,      \* transactions that hold a challenge row
  wrong,      \* history: wrong codes answered, by challenge
  spent       \* history: registrations and resets committed, by challenge and purpose

challengesVars == <<challenge, accounts, cooldown, sends, claim, wrong, spent>>

Purposes == {"REGISTRATION", "PASSWORD_RESET"}

ChallengeRow ==
  [purpose : Purposes, attempts : Nat, expired : BOOLEAN, consumed : BOOLEAN]

ChallengesTypeOK ==
  /\ challenge \in Seq(ChallengeRow) /\ accounts \in Nat
  /\ cooldown \in BOOLEAN /\ sends \in Nat
  /\ claim \in [Claimants -> [code : DOMAIN challenge \cup {NoCode}, attempts : Nat,
                               purpose : Purposes \cup {"NONE"}]]
  /\ wrong \in [DOMAIN challenge -> Nat]
  /\ spent \in [DOMAIN challenge -> [Purposes -> Nat]]

NoClaim == [code |-> NoCode, attempts |-> 0, purpose |-> "NONE"]

Unspent == [p \in Purposes |-> 0]

ChallengesInit ==
  /\ challenge = <<>> /\ wrong = <<>> /\ spent = <<>> /\ accounts = 0
  /\ cooldown = FALSE /\ sends = 0 /\ claim = [c \in Claimants |-> NoClaim]

-----------------------------------------------------------------------------
(* Asking for a code *)

\* assertChallengeAllowed, createChallenge. Over the limit only the key is set.
AskCode(purpose) ==
  /\ ~cooldown /\ cooldown' = TRUE
  /\ IF sends < MaxSends
       THEN /\ Len(challenge) < MaxCodes
            /\ sends' = sends + 1
            /\ challenge' = Append(challenge, [purpose |-> purpose, attempts |-> 0,
                                               expired |-> FALSE, consumed |-> FALSE])
            /\ wrong' = Append(wrong, 0) /\ spent' = Append(spent, Unspent)
       ELSE UNCHANGED <<sends, challenge, wrong, spent>>
  /\ UNCHANGED <<accounts, claim>>

CooldownPasses ==
  /\ cooldown /\ cooldown' = FALSE
  /\ UNCHANGED <<challenge, accounts, sends, claim, wrong, spent>>

HourPasses ==
  /\ sends > 0 /\ sends' = 0
  /\ UNCHANGED <<challenge, accounts, cooldown, claim, wrong, spent>>

CodeExpires(i) ==
  /\ ~challenge[i].expired
  /\ challenge' = [challenge EXCEPT ![i].expired = TRUE]
  /\ UNCHANGED <<accounts, cooldown, sends, claim, wrong, spent>>

-----------------------------------------------------------------------------
(* Trying a code: consumeChallenge locks the row for the transaction. *)

RowFree(i) == \A c \in Claimants : claim[c].code # i

\* Mutant: a code is taken for whatever it is tried for.
SentForAny(i, purpose) == TRUE

SentFor(i, purpose) == challenge[i].purpose = purpose

\* Register and confirm call it each with its own purpose.
TryCode(c, i, purpose) ==
  /\ claim[c] = NoClaim /\ RowFree(i)
  /\ SentFor(i, purpose) /\ ~challenge[i].consumed /\ ~challenge[i].expired
  /\ challenge[i].attempts < MaxAttempts
  /\ claim' = [claim EXCEPT ![c] = [code |-> i, attempts |-> challenge[i].attempts,
                                    purpose |-> purpose]]
  /\ UNCHANGED <<challenge, accounts, cooldown, sends, wrong, spent>>

\* The error is returned, not thrown, so the attempt is committed.
WrongCode(c) ==
  LET i == claim[c].code
  IN /\ claim[c] # NoClaim
     /\ challenge' = [challenge EXCEPT ![i].attempts = claim[c].attempts + 1]
     /\ wrong' = [wrong EXCEPT ![i] = @ + 1]
     /\ claim' = [claim EXCEPT ![c] = NoClaim]
     /\ UNCHANGED <<accounts, cooldown, sends, spent>>

\* A name that is taken, a registered identity, or a failure roll everything back.
TransactionFails(c) ==
  /\ claim[c] # NoClaim
  /\ claim' = [claim EXCEPT ![c] = NoClaim]
  /\ UNCHANGED <<challenge, accounts, cooldown, sends, wrong, spent>>

Consume(c) ==
  LET i == claim[c].code
  IN /\ challenge' = [challenge EXCEPT ![i].consumed = TRUE]
     /\ spent' = [spent EXCEPT ![i][claim[c].purpose] = @ + 1]
     /\ claim' = [claim EXCEPT ![c] = NoClaim]

\* The identity is looked up, and unique in user_credentials.
Register(c) ==
  /\ claim[c].purpose = "REGISTRATION"
  /\ accounts = 0 /\ accounts' = 1
  /\ Consume(c)
  /\ UNCHANGED <<cooldown, sends, wrong>>

\* Also without an account: the answer does not tell.
ConfirmReset(c) ==
  /\ claim[c].purpose = "PASSWORD_RESET"
  /\ Consume(c)
  /\ UNCHANGED <<accounts, cooldown, sends, wrong>>

\* deleteCurrent frees the identity.
IdentityFreed ==
  /\ accounts > 0 /\ accounts' = 0
  /\ UNCHANGED <<challenge, cooldown, sends, claim, wrong, spent>>

ChallengesNext ==
  \/ \E purpose \in Purposes : AskCode(purpose)
  \/ CooldownPasses \/ HourPasses \/ IdentityFreed
  \/ \E i \in DOMAIN challenge :
       \/ CodeExpires(i)
       \/ \E c \in Claimants, purpose \in Purposes : TryCode(c, i, purpose)
  \/ \E c \in Claimants : \/ WrongCode(c) \/ TransactionFails(c)
                          \/ Register(c) \/ ConfirmReset(c)

ChallengesSpec == ChallengesInit /\ [][ChallengesNext]_challengesVars

-----------------------------------------------------------------------------
(* Properties *)

\* However many requests try codes at once, a challenge answers no more wrong codes
\* than it allows, and does what it was sent for once: no registration is made with a
\* reset code, and no password is set with a registration code.
CodesAreBounded ==
  \A i \in DOMAIN challenge :
    /\ wrong[i] <= MaxAttempts
    /\ \A p \in Purposes : spent[i][p] <= IF p = challenge[i].purpose THEN 1 ELSE 0

\* A code is consumed by what it was for, and by nothing that failed.
ConsumedMeansDone ==
  \A i \in DOMAIN challenge : challenge[i].consumed <=> spent[i][challenge[i].purpose] > 0

\* A code works once and for what it was sent, whoever tries it at the same time
\* and whatever fails after it was found right.
CodesWorkOnce == CodesAreBounded /\ ConsumedMeansDone
=============================================================================
