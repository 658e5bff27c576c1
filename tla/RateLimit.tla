------------------------------ MODULE RateLimit ------------------------------
(***************************************************************************)
(* The token bucket of one client address. A request takes the time before *)
(* it waits for the lock, so the times the bucket sees may go backwards,   *)
(* and a sweep forgets a bucket that has been idle. Tokens may be negative *)
(* after a step back. Time is counted in the units that refill one token   *)
(* or more (Rate of them).                                                 *)
(***************************************************************************)
EXTENDS Integers, FiniteSets, Common

CONSTANTS
    LimitedRequests,       \* requests in flight
    Rate,           \* tokens refilled in a unit of time
    Burst,          \* the most a bucket holds
    IdleFor,        \* a bucket unseen for longer than this is forgotten
    MaxDelay,       \* bound: how long a request waits between its time and the lock
    MaxClock        \* bound: the last instant

\* A forgotten bucket would have been full, though one late request may have
\* moved its time back and another may find it forgotten. (It is forgotten after
\* ten minutes and full after half of one, and nobody waits that long.)
ASSUME RateLimitAssumption ==
    /\ Rate \in Nat \ {0} /\ Burst \in Nat \ {0} /\ IdleFor \in Nat /\ MaxDelay \in 0..IdleFor
    /\ (IdleFor + 1 - 2 * MaxDelay) * Rate >= Burst /\ MaxClock \in Nat
    /\ Nil \notin [tokens : Int, lastSeen : Nat]

VARIABLES
    now,            \* the clock
    bucket,         \* the bucket of the address, or Nil
    arrival,        \* [LimitedRequests -> the time a waiting request took, or Nil]
    allowedAt       \* history: how many requests of each instant were let through

rateLimitVars == <<now, bucket, arrival, allowedAt>>

Clock == 0..MaxClock
\* The fewest tokens a bucket can hold: a full one, seen from MaxClock back to 0.
Bucket == [tokens : (0 - Rate * MaxClock)..Burst, lastSeen : Clock]

RateLimitInit ==
    /\ now = 0 /\ bucket = Nil /\ arrival = [r \in LimitedRequests |-> Nil] /\ allowedAt = [t \in Clock |-> 0]

ClockTicks ==
    /\ now < MaxClock /\ \A r \in LimitedRequests : arrival[r] # Nil => now - arrival[r] < MaxDelay
    /\ now' = now + 1 /\ UNCHANGED <<bucket, arrival, allowedAt>>

\* Middleware: time.Now() is evaluated before allow takes the lock.
Arrive(r) ==
    /\ arrival[r] = Nil /\ arrival' = [arrival EXCEPT ![r] = now]
    /\ UNCHANGED <<now, bucket, allowedAt>>

\* Mutant of Refill: a time that goes backwards refills nothing.
RefillForward(b, t) ==
    LET elapsed == IF t > b.lastSeen THEN t - b.lastSeen ELSE 0
        filled == b.tokens + elapsed * Rate
    IN  IF filled < Burst THEN filled ELSE Burst

Refill(b, t) == LET filled == b.tokens + (t - b.lastSeen) * Rate IN IF filled < Burst THEN filled ELSE Burst

\* The bucket as allow finds it: an address not seen before has a full one.
Tokens(t) == IF bucket = Nil THEN Burst ELSE Refill(bucket, t)

Allow(r) ==
    LET t == arrival[r] IN
    /\ t # Nil /\ arrival' = [arrival EXCEPT ![r] = Nil]
    /\ IF Tokens(t) >= 1
       THEN /\ bucket' = [tokens |-> Tokens(t) - 1, lastSeen |-> t]
            /\ allowedAt' = [allowedAt EXCEPT ![t] = @ + 1]
       ELSE /\ bucket' = [tokens |-> Tokens(t), lastSeen |-> t] /\ UNCHANGED allowedAt
    /\ UNCHANGED now

Sweep ==
    /\ bucket # Nil /\ now - bucket.lastSeen > IdleFor /\ bucket' = Nil
    /\ UNCHANGED <<now, arrival, allowedAt>>

RateLimitNext == ClockTicks \/ Sweep \/ \E r \in LimitedRequests : Arrive(r) \/ Allow(r)

-----------------------------------------------------------------------------
RateLimitTypeOK ==
    /\ now \in Clock /\ bucket \in Bucket \cup {Nil}
    /\ arrival \in [LimitedRequests -> Clock \cup {Nil}] /\ allowedAt \in [Clock -> Nat]

\* The requests let through from one instant to another, each by its instant
\* and its number there.
LetThrough(first, last) == UNION {{t} \X (1..allowedAt[t]) : t \in first..last}
AllowedIn(first, last) == Cardinality(LetThrough(first, last))

\* In no stretch of time are more requests of one address let through than a
\* full bucket and what it refills in between, whatever the order in which
\* requests reach the lock and whenever the bucket was swept. (It is enough to
\* look at the stretches that begin and end with one.)
WithinRate ==
    \A first, last \in {t \in Clock : allowedAt[t] > 0} : first <= last => AllowedIn(first, last) <= Burst + Rate * (last - first)
=============================================================================
