------------------------ MODULE MCCertificateRecord ------------------------
(* Small instances of CertificateRecord. *)
EXTENDS CertificateRecord, TLC

CONSTANTS n1, o1, o2, a1

\* Renewals are interchangeable, and so are requests of one kind.
Interchangeable ==
    Permutations(Renewers) \cup Permutations(Consoles) \cup Permutations(Clients)
=============================================================================
