----------------------------- MODULE RetryTimes -----------------------------
(***************************************************************************)
(* When a renewal, or a deployment, that keeps failing is tried again:     *)
(* retryAt of both queues, over the life of one certificate. Durations are *)
(* counted in fifths of minRetryDelay. The delay runs from the start of    *)
(* the attempt that failed.                                                *)
(***************************************************************************)
EXTENDS Integers, FiniteSetsExt, Common

CONSTANTS
    BaseDelay, MaxRetry, MinRetry,   \* baseRetryDelay, maxRetryDelay, minRetryDelay
    Budget,         \* attemptBudget
    MaxShift,       \* the largest exponent whose product fits a time.Duration
    Runways,        \* what is left of a certificate at its first failure, Nil for an unknown deadline
    Durations,      \* how long an attempt takes
    MaxFailures     \* bound: failures that are followed

\* The base delay times math.Pow(2, shift), while that fits.
Doubled[shift \in 0..MaxShift] == IF shift = 0 THEN BaseDelay ELSE 2 * Doubled[shift - 1]

ASSUME RetryAssumption ==
    /\ {BaseDelay, MaxRetry, MinRetry, Budget} \subseteq Nat \ {0} /\ MinRetry <= BaseDelay /\ BaseDelay <= MaxRetry
    /\ MaxShift \in Nat /\ Doubled[MaxShift] > MaxRetry
    /\ Runways \subseteq Nat \cup {Nil} /\ Nil \notin Nat /\ Durations \subseteq Nat /\ MaxFailures \in Nat

VARIABLES
    firstLeft,      \* history: what was left at the first failure
    left,           \* what is left of the certificate, 0 when it has expired
    failures,       \* attempts of the job
    triedAlive,     \* history: those that began while the certificate lived
    slow            \* history: an attempt took longer than minRetryDelay

retryVars == <<firstLeft, left, failures, triedAlive, slow>>

RetryInit ==
    /\ firstLeft \in Runways /\ left = firstLeft
    /\ failures = 0 /\ triedAlive = 0 /\ slow = FALSE

\* A product that does not fit a Duration converts to the smallest or to the
\* largest one, as the processor has it.
Conversions == {-1, MaxRetry + 1}

\* Mutant of Backoff: a product that went negative is not looked at.
BackoffUnchecked(attempts, overflow) ==
    LET shift == IF attempts > 1 THEN attempts - 1 ELSE 0
        delay == IF shift > MaxShift THEN overflow ELSE Doubled[shift]
    IN  IF delay > MaxRetry THEN MaxRetry ELSE delay

Backoff(attempts, overflow) ==
    LET shift == IF attempts > 1 THEN attempts - 1 ELSE 0
        delay == IF shift > MaxShift THEN overflow ELSE Doubled[shift]
    IN  IF delay > MaxRetry \/ delay <= 0 THEN MaxRetry ELSE delay

\* Mutant of WithinRunway: the deadline is not looked at.
WithinRunwayAny(delay, runway) == IF runway = 0 THEN MinRetry ELSE delay

WithinRunway(delay, runway) ==
    CASE runway = Nil -> delay
      [] runway = 0 -> MinRetry
      [] OTHER -> Min({runway \div Budget, delay})

\* A fifth less, the delay, a fifth more: randUnit is between -1 and 1.
Jittered(delay) == {delay - delay \div 5, delay, delay + delay \div 5}

RetryDelay(attempts, runway, overflow) == WithinRunway(Backoff(attempts, overflow), runway)

\* One attempt that fails, and the time until the next one begins.
AttemptFails(overflow, took) ==
    /\ failures < MaxFailures
    /\ failures' = failures + 1
    /\ triedAlive' = IF left = 0 THEN triedAlive ELSE triedAlive + 1
    /\ slow' = (slow \/ took > MinRetry)
    /\ \E jittered \in Jittered(RetryDelay(failures', left, overflow)) :
          left' = IF left = Nil THEN Nil ELSE Max({left - Max({jittered, MinRetry, took}), 0})
    /\ UNCHANGED firstLeft

RetryNext == \E overflow \in Conversions, took \in Durations : AttemptFails(overflow, took)

RetryTypeOK ==
    /\ firstLeft \in Runways /\ left \in Nat \cup {Nil}
    /\ failures \in 0..MaxFailures /\ triedAlive \in 0..failures /\ slow \in BOOLEAN

\* What attemptBudget is for: a certificate that fails to renew from its first
\* attempt to its expiry was tried five sixths of the budget, or of the times
\* the floor leaves room for, however the jitter fell. Attempts slower than the
\* floor take the room themselves.
TriesFitRunway ==
    left = 0 /\ ~slow => 6 * triedAlive >= 5 * Min({Budget, firstLeft \div MinRetry})

\* At one distance from the deadline a further failure never means a shorter
\* wait, also where the doubling no longer fits the integer.
BackoffGrows ==
    \A overflow, next \in Conversions :
        RetryDelay(failures, left, overflow) <= RetryDelay(failures + 1, left, next)
=============================================================================
