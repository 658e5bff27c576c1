----------------------------- MODULE AcmeNonces -----------------------------
(***************************************************************************)
(* The anti-replay nonces of the ACME endpoint: signed with an expiry and  *)
(* not stored when handed out; the row of a spent nonce is what remembers. *)
(***************************************************************************)
EXTENDS Integers, Common

CONSTANTS
    Nonces,         \* nonces that are handed out
    Spends,         \* requests that are spending a nonce
    NonceLife,      \* ticks a nonce lives
    MaxTicks        \* bound: ticks of the clock

ASSUME NoncesAssumption == Nil \notin Nonces /\ NonceLife \in Nat \ {0} /\ MaxTicks \in Nat

VARIABLES
    ticks,          \* the clock
    minted,         \* [Nonces -> Nat]: the expiry inside a nonce, 0 = not handed out
    usedNonces,     \* acme_used_nonces: set of nonces, by hash
    spend,          \* [Spends -> Nonces \cup {Nil}]: checked, and about to be claimed
    accepted        \* history: [Nonces -> Nat], claims that succeeded before expiry

noncesVars == <<ticks, minted, usedNonces, spend, accepted>>

NoncesInit ==
    /\ ticks = 0
    /\ minted = [n \in Nonces |-> 0]
    /\ usedNonces = {}
    /\ spend = [s \in Spends |-> Nil]
    /\ accepted = [n \in Nonces |-> 0]

MintNonce(n) ==
    /\ minted[n] = 0
    /\ minted' = [minted EXCEPT ![n] = ticks + NonceLife]
    /\ UNCHANGED <<ticks, usedNonces, spend, accepted>>

\* The MAC verifies (somebody else's nonce is refused) and the nonce has not expired.
SpendNonce(s, n) ==
    /\ spend[s] = Nil
    /\ minted[n] > ticks
    /\ spend' = [spend EXCEPT ![s] = n]
    /\ UNCHANGED <<ticks, minted, usedNonces, accepted>>

\* Mutant of FirstUse: the insert is not asked whether it inserted.
FirstUseAlways(n) == TRUE

\* INSERT ... ON CONFLICT DO NOTHING: the primary key decides.
FirstUse(n) == n \notin usedNonces

ClaimACMENonce(s) ==
    LET n == spend[s]
    IN /\ n # Nil
       /\ usedNonces' = usedNonces \cup {n}
       /\ accepted' = IF FirstUse(n) /\ minted[n] > ticks THEN [accepted EXCEPT ![n] = @ + 1] ELSE accepted
       /\ spend' = [spend EXCEPT ![s] = Nil]
       /\ UNCHANGED <<ticks, minted>>

SweepACMENonces ==
    /\ \E n \in usedNonces : minted[n] <= ticks
    /\ usedNonces' = {n \in usedNonces : minted[n] > ticks}
    /\ UNCHANGED <<ticks, minted, spend, accepted>>

NonceTick ==
    /\ ticks < MaxTicks
    /\ ticks' = ticks + 1
    /\ UNCHANGED <<minted, usedNonces, spend, accepted>>

NoncesNext ==
    \/ \E n \in Nonces : MintNonce(n) \/ \E s \in Spends : SpendNonce(s, n)
    \/ \E s \in Spends : ClaimACMENonce(s)
    \/ SweepACMENonces \/ NonceTick

-----------------------------------------------------------------------------
NoncesTypeOK ==
    /\ ticks \in 0..MaxTicks
    /\ minted \in [Nonces -> 0..(MaxTicks + NonceLife)]
    /\ usedNonces \subseteq {n \in Nonces : minted[n] # 0}
    /\ spend \in [Spends -> Nonces \cup {Nil}]
    /\ accepted \in [Nonces -> Nat]

\* A nonce is good once, on any replica, while it lives: rows of spent nonces
\* are swept only when the nonce itself has expired. (A request that is slower
\* than the rest of the nonce's life between the check and the insert could
\* repeat one; such a claim is not counted.)
NonceAcceptedOnce == \A n \in Nonces : accepted[n] <= 1
=============================================================================
