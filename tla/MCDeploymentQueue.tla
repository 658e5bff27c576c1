------------------------ MODULE MCDeploymentQueue --------------------------
(* Small instances of DeploymentQueue. *)
EXTENDS DeploymentQueue, TLC

CONSTANTS p1, p2, p3, j1, j2, j3, j4, w1, w2, e1, e2, none

\* All places in one wave.
OneWave == [p \in Places |-> 0]
\* p1 is staging, p2 production.
TwoWaves == [p \in Places |-> IF p = p1 THEN 0 ELSE 1]

ListedTwo == <<p1, p2>>
ListedThree == <<p1, p2, p3>>

JobSymmetry == Permutations(Jobs)
Interchangeable == Permutations(Jobs) \cup Permutations(Workers)
=============================================================================
