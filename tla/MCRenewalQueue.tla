--------------------------- MODULE MCRenewalQueue ---------------------------
(* Small instances of RenewalQueue. *)
EXTENDS RenewalQueue, TLC

CONSTANTS c1, c2, j1, j2, j3, r1, r2, w1, w2, none

\* Two replicas with one worker goroutine each.
OwnReplica == [w \in Workers |-> IF w = w1 THEN r1 ELSE r2]
\* One replica with two worker goroutines, which share its name.
SharedReplica == [w \in Workers |-> r1]

AllOurs == [c \in Certs |-> "CERTPILOT"]
OneElsewhere == [c \in Certs |-> IF c = c1 THEN "CERTPILOT" ELSE "ELSEWHERE"]

Symmetric == Permutations(Jobs)
\* All certificates in the same custody, all workers in one replica.
Interchangeable == Permutations(Jobs) \cup Permutations(Certs) \cup Permutations(Workers)
=============================================================================
