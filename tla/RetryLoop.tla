------------------------------ MODULE RetryLoop ------------------------------
(***************************************************************************)
(* retry.go: retryLoop.CallWithRetry under each of the retry policies.      *)
(*                                                                          *)
(* proc is an operation that succeeds, fails with an error that ShouldRetry *)
(* accepts, or fails with another error, and takes 0 or 1 units of time.    *)
(* Durations are small numbers, of an int64 that is as small.               *)
(***************************************************************************)
EXTENDS Integers

CONSTANTS
  Sleepers,     \* whether retrySleeper is set: never by newRetryLoop
  MaxRetries,   \* the n and maxRetries given to the policies
  RetriesLimit, \* MAX_RETRIES_LIMIT
  Base,         \* the sleep between retries, and the base of the backoff
  MaxSleep,     \* maxSleep of the backoff
  MaxElapsed,   \* maxElapsedTime of RetryUntilElapsed
  MaxInt,       \* math.MaxInt64, where the product of the backoff wraps around
  MaxAttempts   \* bound: calls of proc

ASSUME RetryAssumption ==
  /\ Sleepers \subseteq BOOLEAN
  /\ {MaxRetries, RetriesLimit, MaxSleep, MaxElapsed, MaxInt, MaxAttempts} \subseteq Nat
  /\ Base \in Nat \ {0}

VARIABLES
  policy,     \* retryPolicy
  sleeper,    \* retrySleeper # nil
  pc, retryCount, attempts,
  slept,      \* the last argument of SleepFor
  elapsed,    \* time.Now().Sub(startTime)
  result

vars == <<policy, sleeper, pc, retryCount, attempts, slept, elapsed, result>>

\* N of RetryUntilElapsed, math.MaxInt64: more than any count.
Unlimited == MaxAttempts + 1

\* The policies of NewRetryNTimes, NewRetryOneTime, NewExponentialBackoffRetry
\* and NewRetryUntilElapsed: their N.
N == [nTimes       |-> MaxRetries,
      oneTime      |-> 1,
      backoff      |-> IF MaxRetries > RetriesLimit THEN RetriesLimit ELSE MaxRetries,
      untilElapsed |-> Unlimited]

TypeOK ==
  /\ policy \in DOMAIN N
  /\ sleeper \in Sleepers
  /\ pc \in {"call", "decide", "done"}
  /\ retryCount \in 0 .. MaxAttempts
  /\ attempts \in 0 .. MaxAttempts
  /\ slept \in Int /\ slept <= (IF policy = "backoff" THEN MaxSleep ELSE Base)
  /\ elapsed \in Nat
  /\ result \in {"none", "ok", "retriable", "fatal"}

\* newRetryLoop
Init ==
  /\ policy \in DOMAIN N
  /\ sleeper \in Sleepers
  /\ pc = "call"
  /\ retryCount = 0
  /\ attempts = 0
  /\ slept = 0
  /\ elapsed = 0
  /\ result = "none"

\* The product of two int64.
Wrapped(product) == ((product + MaxInt + 1) % (2 * MaxInt + 2)) - MaxInt - 1

\* getSleepTime: the backoff multiplies its base by a random number.
SleepTimes(count) ==
  IF policy = "backoff"
  THEN LET Capped(d) == IF d > MaxSleep THEN MaxSleep ELSE d
       IN {Capped(Wrapped(Base * r)) : r \in 0 .. 2 ^ count - 1}
  ELSE {Base}

\* AllowRetry, before it sleeps: SleepingRetry's, and RetryUntilElapsed's.
AllowRetry ==
  /\ policy = "untilElapsed" => elapsed < MaxElapsed
  /\ retryCount < N[policy]

-----------------------------------------------------------------------------
(* CallWithRetry                                                            *)

Attempt(outcome, next) ==
  /\ pc = "call"
  /\ attempts < MaxAttempts
  /\ attempts' = attempts + 1
  /\ \E d \in 0 .. 1 : elapsed' = elapsed + d
  /\ result' = outcome
  /\ pc' = next

\* err == nil, or an error that is not retried
Returns ==
  /\ \E outcome \in {"ok", "fatal"} : Attempt(outcome, "done")
  /\ UNCHANGED <<policy, sleeper, retryCount, slept>>

\* ErrSessionExpired, ErrSessionMoved, a timeout or a temporary network error
Fails ==
  /\ Attempt("retriable", "decide")
  /\ retryCount' = retryCount + 1
  /\ UNCHANGED <<policy, sleeper, slept>>

\* Without a sleeper the loop goes round at once and asks no policy.
RetryAtOnce ==
  /\ pc = "decide"
  /\ ~sleeper
  /\ pc' = "call"
  /\ UNCHANGED <<policy, sleeper, retryCount, attempts, slept, elapsed, result>>

\* A sleep of less than nothing ends at once.
Retry ==
  /\ pc = "decide"
  /\ sleeper
  /\ AllowRetry
  /\ slept' \in SleepTimes(retryCount)
  /\ elapsed' = elapsed + (IF slept' > 0 THEN slept' ELSE 0)
  /\ pc' = "call"
  /\ UNCHANGED <<policy, sleeper, retryCount, attempts, result>>

\* The policy disallows it, or SleepFor returns an error: the last error is
\* the caller's.
GiveUp ==
  /\ pc = "decide"
  /\ sleeper
  /\ pc' = "done"
  /\ UNCHANGED <<policy, sleeper, retryCount, attempts, slept, elapsed, result>>

Next == Returns \/ Fails \/ RetryAtOnce \/ Retry \/ GiveUp

Spec == Init /\ [][Next]_vars
=============================================================================
