----------------------------- MODULE AuditChain -----------------------------
(***************************************************************************)
(* The audit log as a hash chain. Replicas append to one table under an    *)
(* advisory lock, each with the keyring it was started with; the chain is  *)
(* walked on request. A tag is an HMAC over the previous tag and the       *)
(* entry: it is modelled by the sequence of what it covers, which is what  *)
(* two equal tags must have in common.                                     *)
(***************************************************************************)
EXTENDS Integers, Sequences, FiniteSets, FiniteSetsExt, Common

CONSTANTS
    Cores,          \* processes that share the database
    Writes,         \* audit entries, each made once
    FirstWrite,     \* the entry the database was sealed with
    Rings,          \* keyrings an operator may configure
    KeysOf,         \* [Rings -> SUBSET keys]: the keys of a ring
    PrimaryOf,      \* [Rings -> keys]: the one that signs
    FirstRing       \* the keyring of FirstWrite

ASSUME AuditChainAssumption ==
    /\ FirstWrite \in Writes /\ FirstRing \in Rings /\ IsFiniteSet(Writes)
    /\ \A r \in Rings : PrimaryOf[r] \in KeysOf[r] /\ Nil \notin KeysOf[r]
    /\ Nil \notin Cores \cup Writes \cup Rings

VARIABLES
    auditLogs,      \* [Writes -> AuditRow]: the table, by id
    core,           \* [Cores -> CoreState]
    chainLock,      \* the core whose transaction holds pg_advisory_xact_lock, or Nil
    abandoned       \* some core was started with CERTPILOT_KEK_ABANDON

auditVars == <<auditLogs, core, chainLock, abandoned>>

AuditKeys == UNION {KeysOf[r] : r \in Rings}
Covered == [seq : Nat, text : Writes \cup {Nil}, key : AuditKeys]
AuditRow ==
    [state : {"NONE", "LOST", "STORED", "GONE"}, seq : 0..Cardinality(Writes), text : Writes \cup {Nil},
     prevHash : Seq(Covered), entryHash : Seq(Covered), chainKeyID : AuditKeys \cup {Nil}]
CoreState ==
    [ring : Rings \cup {Nil}, pc : {"idle", "locking", "reading", "inserting"}, write : Writes \cup {Nil},
     seq : 0..Cardinality(Writes), prev : Seq(Covered)]

Down == [ring |-> Nil, pc |-> "idle", write |-> Nil, seq |-> 0, prev |-> <<>>]
NoEntry == [state |-> "NONE", seq |-> 0, text |-> Nil, prevHash |-> <<>>, entryHash |-> <<>>, chainKeyID |-> Nil]

\* Mutant of Canonical: the text of the entry is left out of the tag.
CanonicalNoText(seq, text, key) == [seq |-> seq, text |-> Nil, key |-> key]

\* auditCanonical, with the key the tag is made with.
Canonical(seq, text, key) == [seq |-> seq, text |-> text, key |-> key]

\* Keyring.MAC over the previous tag and the entry.
Tag(prev, seq, text, key) == Append(prev, Canonical(seq, text, key))

ChainedRow(seq, w, prev, key) ==
    [state |-> "STORED", seq |-> seq, text |-> w, prevHash |-> prev, entryHash |-> Tag(prev, seq, w, key), chainKeyID |-> key]

\* The table begins with the entry it was sealed with and perhaps one from
\* before entries were chained.
AuditInit ==
    /\ \E old \in SUBSET (Writes \ {FirstWrite}) :
          /\ Cardinality(old) <= 1
          /\ auditLogs = [w \in Writes |-> IF w = FirstWrite THEN ChainedRow(1, w, <<>>, PrimaryOf[FirstRing])
                                           ELSE IF w \in old THEN [NoEntry EXCEPT !.state = "STORED", !.text = w] ELSE NoEntry]
    /\ core = [c \in Cores |-> Down] /\ chainLock = Nil /\ abandoned = FALSE

Chained == {w \in Writes : auditLogs[w].state = "STORED" /\ auditLogs[w].seq > 0}
Seqs == {auditLogs[w].seq : w \in Chained}
At(n) == CHOOSE w \in Chained : auditLogs[w].seq = n

\* The newest chained entry: ORDER BY seq DESC LIMIT 1.
HeadSeq == IF Chained = {} THEN 0 ELSE Max(Seqs)
HeadTag == IF Chained = {} THEN <<>> ELSE auditLogs[At(HeadSeq)].entryHash

LatestAuditKey == IF Chained = {} THEN Nil ELSE auditLogs[At(HeadSeq)].chainKeyID

\* Mutant of GuardPasses: no guard.
GuardPassesAlways(ring) == TRUE

GuardPasses(ring) == LatestAuditKey = Nil \/ LatestAuditKey \in KeysOf[ring]

-----------------------------------------------------------------------------
StartCore(c, ring) ==
    /\ core[c].ring = Nil /\ GuardPasses(ring)
    /\ core' = [core EXCEPT ![c] = [Down EXCEPT !.ring = ring]] /\ UNCHANGED <<auditLogs, chainLock, abandoned>>

\* The operator gives up the key of the newest entry; the core's first entry
\* says so.
StartAbandoning(c, ring, w) ==
    /\ core[c].ring = Nil /\ ~GuardPasses(ring) /\ auditLogs[w] = NoEntry /\ \A d \in Cores : core[d].write # w
    /\ core' = [core EXCEPT ![c] = [Down EXCEPT !.ring = ring, !.pc = "locking", !.write = w]]
    /\ abandoned' = TRUE /\ UNCHANGED <<auditLogs, chainLock>>

BeginWrite(c, w) ==
    /\ core[c].ring # Nil /\ core[c].pc = "idle" /\ auditLogs[w] = NoEntry /\ \A d \in Cores : core[d].write # w
    /\ core' = [core EXCEPT ![c].pc = "locking", ![c].write = w] /\ UNCHANGED <<auditLogs, chainLock, abandoned>>

\* Mutant of LockFree: the head is read without the lock.
LockFreeAlways == TRUE

LockFree == chainLock = Nil

TakeLock(c) ==
    /\ core[c].pc = "locking" /\ LockFree
    /\ chainLock' = c /\ core' = [core EXCEPT ![c].pc = "reading"] /\ UNCHANGED <<auditLogs, abandoned>>

ReadHead(c) ==
    /\ core[c].pc = "reading"
    /\ core' = [core EXCEPT ![c].pc = "inserting", ![c].seq = HeadSeq + 1, ![c].prev = HeadTag]
    /\ UNCHANGED <<auditLogs, chainLock, abandoned>>

AfterWrite(c) == [core EXCEPT ![c] = [Down EXCEPT !.ring = core[c].ring]]
Unlocked(c) == IF chainLock = c THEN Nil ELSE chainLock

\* The insert and the commit. The unique index on seq refuses a second entry
\* with one number, and the entry is lost.
InsertEntry(c) ==
    LET s == core[c] IN
    /\ s.pc = "inserting"
    /\ auditLogs' = [auditLogs EXCEPT ![s.write] = IF s.seq \in Seqs THEN [NoEntry EXCEPT !.state = "LOST"]
                                                   ELSE ChainedRow(s.seq, s.write, s.prev, PrimaryOf[s.ring])]
    /\ core' = AfterWrite(c) /\ chainLock' = Unlocked(c) /\ UNCHANGED abandoned

\* The process stops; the database rolls its transaction back.
StopCore(c) ==
    /\ core[c].ring # Nil
    /\ core' = [core EXCEPT ![c] = Down] /\ chainLock' = Unlocked(c) /\ UNCHANGED <<auditLogs, abandoned>>

\* Retention, as the operator's manual describes it: the oldest entries go, the
\* newest are younger than that.
Prune(n) ==
    /\ n \in Seqs \ {HeadSeq}
    /\ auditLogs' = [w \in Writes |-> IF auditLogs[w].state = "STORED" /\ auditLogs[w].seq <= n
                                      THEN [NoEntry EXCEPT !.state = "GONE"] ELSE auditLogs[w]]
    /\ UNCHANGED <<core, chainLock, abandoned>>

\* A statement somebody runs on the table by hand.
Amend(w) ==
    /\ w \in Chained /\ auditLogs[w].text = w
    /\ auditLogs' = [auditLogs EXCEPT ![w].text = Nil] /\ UNCHANGED <<core, chainLock, abandoned>>

Erase(w) ==
    /\ w \in Chained /\ auditLogs[w].seq \notin {1, HeadSeq}
    /\ auditLogs' = [auditLogs EXCEPT ![w] = [NoEntry EXCEPT !.state = "GONE"]] /\ UNCHANGED <<core, chainLock, abandoned>>

AuditNext ==
    \/ \E c \in Cores, r \in Rings : StartCore(c, r) \/ \E w \in Writes : StartAbandoning(c, r, w)
    \/ \E c \in Cores, w \in Writes : BeginWrite(c, w)
    \/ \E c \in Cores : TakeLock(c) \/ ReadHead(c) \/ InsertEntry(c) \/ StopCore(c)
    \/ \E n \in 1..Cardinality(Writes) : Prune(n)
    \/ \E w \in Writes : Amend(w) \/ Erase(w)

-----------------------------------------------------------------------------
\* VerifyAuditChain: the stored entries from a number on, the lowest limit of
\* them.
Walked(from, limit) == {n \in Seqs : n >= from /\ Cardinality({m \in Seqs : from <= m /\ m <= n}) <= limit}
Truncated(from, limit) == Cardinality({n \in Seqs : n >= from}) > limit

\* The tag of one entry, with the key it names.
TagHolds(row, ring) ==
    row.chainKeyID \in KeysOf[ring] /\ row.entryHash = Tag(row.prevHash, row.seq, row.text, row.chainKeyID)

\* verifyAuditChainOver: behind its first entry the walk expects the number
\* that follows and the predecessor's tag; of the first entry itself only
\* entry 1 has a predecessor that is known beforehand.
Intact(from, limit, ring) ==
    LET walk == Walked(from, limit)
        Row(n) == auditLogs[At(n)]
    IN  \A n \in walk :
           /\ IF \E m \in walk : m < n
              THEN n - 1 \in walk /\ Row(n).prevHash = Row(n - 1).entryHash
              ELSE n = 1 => Row(n).prevHash = <<>>
           /\ TagHolds(Row(n), ring)

AllLimit == Cardinality(Writes)
\* The keyrings that lack no key the table's entries may be made with: that of
\* the first, and all of every keyring which a key of theirs lets start.
FullRings ==
    {r \in Rings : /\ PrimaryOf[FirstRing] \in KeysOf[r]
                   /\ \A q \in Rings : KeysOf[q] \cap KeysOf[r] # {} => KeysOf[q] \subseteq KeysOf[r]}
Untouched == \A w \in Chained : auditLogs[w].text = w
NoGap == \A n \in Seqs : n = Max(Seqs) \/ n + 1 \in Seqs

AuditTypeOK ==
    /\ auditLogs \in [Writes -> AuditRow] /\ core \in [Cores -> CoreState]
    /\ chainLock \in Cores \cup {Nil} /\ abandoned \in BOOLEAN

\* A core that holds the database's keys, retired ones included, finds every
\* stretch of an untouched chain intact: replicas appending at once, a
\* replica stopped between its steps, a rotation while replicas with the old
\* keyring still run, and a core started with a key of another database leave
\* no entry behind that it cannot check (guardAuditKey's promise).
ChainStaysCheckable ==
    (~abandoned /\ Untouched /\ NoGap) =>
        \A r \in FullRings, from \in Seqs, limit \in 1..AllLimit : Intact(from, limit, r)

\* No entry is lost to another replica's entry: the head a transaction chains
\* from is still the head when it commits.
NoEntryLost == \A w \in Writes : auditLogs[w].state # "LOST"

\* An amended entry, or one that is missing between two others, is reported by
\* every complete walk, whichever keyring walks.
TamperingShows ==
    (~Untouched \/ ~NoGap) => \A r \in Rings : ~Intact(1, AllLimit, r)
=============================================================================
