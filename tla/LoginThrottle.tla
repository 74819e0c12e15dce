--------------------------- MODULE LoginThrottle ---------------------------
(***************************************************************************)
(* POST /auth/login for one username (api/v1/auth.py) and the counter of   *)
(* its failed logins in Redis (infrastructure/redis/login_throttle.py):    *)
(* check, bind to the directory, count or clear, each an await apart, by   *)
(* any number of requests at once.                                         *)
(*                                                                         *)
(* The role lookups after the bind and the audit event of the outcome are  *)
(* left out: they read and write nothing of the counter's.                 *)
(***************************************************************************)
EXTENDS Integers, FiniteSets

CONSTANTS
    Logins,             \* requests under way together
    login_max_failures, \* not 0, which switches the throttle off
    MaxRedisFailures    \* bound

ASSUME ThrottleAssumption ==
    /\ IsFiniteSet(Logins)
    /\ login_max_failures \in Nat \ {0} /\ MaxRedisFailures \in Nat

VARIABLES
    failures,       \* the counter in Redis, 0 when its key is gone
    at,             \* where each request is: "idle", "bind", "record" or "reset"
    guesses,        \* wrong passwords the directory saw since the key was last gone
    redisFailures   \* Redis calls that failed, or were lost with their process

throttleVars == <<failures, at, guesses, redisFailures>>

Goto(l, place) == at' = [at EXCEPT ![l] = place]
RedisFails ==
    /\ redisFailures < MaxRedisFailures
    /\ redisFailures' = redisFailures + 1

----------------------------------------------------------------------------
\* Mutant: one failure more than the limit is let through.
IsLockedPast == failures > login_max_failures

IsLocked == failures >= login_max_failures

\* A locked username is answered 429 without a bind.
Check(l) ==
    /\ at[l] = "idle" /\ ~IsLocked
    /\ Goto(l, "bind")
    /\ UNCHANGED <<failures, guesses, redisFailures>>

\* Without Redis every login goes through.
CheckFails(l) ==
    /\ at[l] = "idle"
    /\ RedisFails
    /\ Goto(l, "bind")
    /\ UNCHANGED <<failures, guesses>>

WrongPassword(l) ==
    /\ at[l] = "bind"
    /\ guesses' = guesses + 1
    /\ Goto(l, "record")
    /\ UNCHANGED <<failures, redisFailures>>

RightPassword(l) ==
    /\ at[l] = "bind"
    /\ Goto(l, "reset")
    /\ UNCHANGED <<failures, guesses, redisFailures>>

\* The directory is down or the login's deadline passed: nothing is counted.
Unavailable(l) ==
    /\ at[l] = "bind"
    /\ Goto(l, "idle")
    /\ UNCHANGED <<failures, guesses, redisFailures>>

\* INCR and EXPIRE NX in one transaction; a key is never without its window.
RecordFailure(l) ==
    /\ at[l] = "record"
    /\ failures' = failures + 1
    /\ Goto(l, "idle")
    /\ UNCHANGED <<guesses, redisFailures>>

\* The call may have been carried out all the same.
RecordFails(l) ==
    /\ at[l] = "record"
    /\ RedisFails
    /\ failures' \in {failures, failures + 1}
    /\ Goto(l, "idle")
    /\ UNCHANGED guesses

Cleared == failures' = 0 /\ guesses' = 0
ResetCounter(l) ==
    /\ at[l] = "reset"
    /\ Cleared
    /\ Goto(l, "idle")
    /\ UNCHANGED redisFailures

ResetFails(l) ==
    /\ at[l] = "reset"
    /\ RedisFails
    /\ Goto(l, "idle")
    /\ Cleared \/ UNCHANGED <<failures, guesses>>

\* The window its first failure opened runs out.
WindowEnds ==
    /\ failures > 0
    /\ Cleared
    /\ UNCHANGED <<at, redisFailures>>

----------------------------------------------------------------------------
ThrottleInit ==
    /\ failures = 0 /\ at = [l \in Logins |-> "idle"]
    /\ guesses = 0 /\ redisFailures = 0

ThrottleNext ==
    \/ \E l \in Logins :
          \/ Check(l) \/ CheckFails(l)
          \/ WrongPassword(l) \/ RightPassword(l) \/ Unavailable(l)
          \/ RecordFailure(l) \/ RecordFails(l) \/ ResetCounter(l) \/ ResetFails(l)
    \/ WindowEnds

ThrottleSpec == ThrottleInit /\ [][ThrottleNext]_throttleVars

----------------------------------------------------------------------------
(* Properties *)

ThrottleTypeOK ==
    /\ failures \in Nat
    /\ at \in [Logins -> {"idle", "bind", "record", "reset"}]
    /\ guesses \in Nat
    /\ redisFailures \in 0 .. MaxRedisFailures

\* check and record_failure are round trips apart, around a slow bind, so more
\* passwords than the limit can be tried in one window; but only by the
\* requests already past the check, and by one for each Redis call that failed.
GuessesAreBounded ==
    guesses <= login_max_failures - 1 + Cardinality(Logins) + redisFailures
=============================================================================
