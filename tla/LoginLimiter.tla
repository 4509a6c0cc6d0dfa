----------------------------- MODULE LoginLimiter -----------------------------
(***************************************************************************)
(* AuthRateLimiterService around AuthCommandService.login, for one         *)
(* identity: the counter in Redis is looked at before the password is      *)
(* verified and counted up after it, by INCR and then EXPIRE.              *)
(***************************************************************************)
EXTENDS Integers, FiniteSets

CONSTANTS
  Guessers,    \* logins that can run at once
  LoginLimit,  \* loginIdentityLimit
  MaxLosses    \* bound of the model: processes that stop in a login

\* The configuration has a minimum of 1.
ASSUME LimiterAssumption ==
  IsFiniteSet(Guessers) /\ LoginLimit \in Nat \ {0} /\ MaxLosses \in Nat

VARIABLES
  failures,  \* the counter, 0 when there is no key
  ttl,       \* the key has an expiry
  guess,     \* where each login is
  wrongs,    \* history: wrong passwords answered since the key last went away
  losses,    \* history: processes that stopped in a login
  stuck      \* history: one stopped between INCR and EXPIRE

limiterVars == <<failures, ttl, guess, wrongs, losses, stuck>>

LimiterTypeOK ==
  /\ failures \in Nat /\ wrongs \in Nat /\ losses \in Nat
  /\ ttl \in BOOLEAN /\ stuck \in BOOLEAN
  /\ guess \in [Guessers -> {"idle", "allowed", "wrong", "expire"}]

LimiterInit ==
  /\ failures = 0 /\ ttl = FALSE /\ guess = [g \in Guessers |-> "idle"]
  /\ wrongs = 0 /\ losses = 0 /\ stuck = FALSE

\* assertLoginAllowed.
CheckAllowed(g) ==
  /\ guess[g] = "idle" /\ failures < LoginLimit
  /\ guess' = [guess EXCEPT ![g] = "allowed"]
  /\ UNCHANGED <<failures, ttl, wrongs, losses, stuck>>

WrongPassword(g) ==
  /\ guess[g] = "allowed"
  /\ guess' = [guess EXCEPT ![g] = "wrong"] /\ wrongs' = wrongs + 1
  /\ UNCHANGED <<failures, ttl, losses, stuck>>

\* clearLoginFailures deletes the key.
RightPassword(g) ==
  /\ guess[g] = "allowed"
  /\ guess' = [guess EXCEPT ![g] = "idle"]
  /\ failures' = 0 /\ ttl' = FALSE /\ wrongs' = 0 /\ stuck' = FALSE
  /\ UNCHANGED losses

\* Mutant: only the count that reaches the limit sets the expiry.
CountExpireLast(g) ==
  /\ guess[g] = "wrong"
  /\ failures' = failures + 1
  /\ guess' = [guess EXCEPT ![g] = IF failures + 1 = LoginLimit THEN "expire" ELSE "idle"]
  /\ UNCHANGED <<ttl, wrongs, losses, stuck>>

\* consume: INCR, and the first count goes on to EXPIRE.
Count(g) ==
  /\ guess[g] = "wrong"
  /\ failures' = failures + 1
  /\ guess' = [guess EXCEPT ![g] = IF failures = 0 THEN "expire" ELSE "idle"]
  /\ UNCHANGED <<ttl, wrongs, losses, stuck>>

SetExpiry(g) ==
  /\ guess[g] = "expire"
  /\ ttl' = (failures > 0)
  /\ guess' = [guess EXCEPT ![g] = "idle"]
  /\ UNCHANGED <<failures, wrongs, losses, stuck>>

KeyExpires ==
  /\ ttl /\ ttl' = FALSE /\ failures' = 0 /\ wrongs' = 0 /\ stuck' = FALSE
  /\ UNCHANGED <<guess, losses>>

LoginLost(g) ==
  /\ guess[g] # "idle" /\ losses < MaxLosses
  /\ losses' = losses + 1
  /\ stuck' = (stuck \/ (guess[g] = "expire" /\ failures > 0))
  /\ guess' = [guess EXCEPT ![g] = "idle"]
  /\ UNCHANGED <<failures, ttl, wrongs>>

LimiterNext ==
  \/ KeyExpires
  \/ \E g \in Guessers : \/ CheckAllowed(g) \/ WrongPassword(g) \/ RightPassword(g)
                         \/ Count(g) \/ SetExpiry(g) \/ LoginLost(g)

LimiterSpec == LimiterInit /\ [][LimiterNext]_limiterVars

\* Wrong passwords are counted late, so logins that run at once can go over the
\* limit, but only by what was past the check, and by processes that stopped.
GuessesAreBounded == wrongs <= LoginLimit + Cardinality(Guessers) - 1 + losses

\* A counter that nobody is about to give its expiry has one, and locks the account
\* out for a while only, unless a process stopped between the two calls.
LockoutsEnd ==
  failures > 0 => ttl \/ stuck \/ \E g \in Guessers : guess[g] = "expire"

\* The limit holds in both directions: guesses are refused in the end, and the owner
\* of the account is not locked out for ever.
LoginsAreLimited == GuessesAreBounded /\ LockoutsEnd
=============================================================================
