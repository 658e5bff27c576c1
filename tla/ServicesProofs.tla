--------------------------- MODULE ServicesProofs ---------------------------
(***************************************************************************)
(* Theorems about the services of MCServices, for every number of hosts,   *)
(* replicas, requests, certificates and names. A step of the services is a *)
(* step or a stutter of each of them, so that an inductive invariant of a  *)
(* service (AuthorityProofs, FleetProofs, InventoryProofs) is one of the   *)
(* whole.                                                                  *)
(***************************************************************************)
EXTENDS MCServices, AuthorityProofs, FleetProofs, InventoryProofs,
        SequenceTheorems, TLAPS

-----------------------------------------------------------------------------
(* The queue in memory is the table. The scan of ClaimRenewalJob is a      *)
(* recursive function of the slice; what it finds follows from the least   *)
(* prefix of the slice on which it would be wrong.                         *)

\* The recursive definition of the scan defines it: a scan of the first n jobs
\* extends to one of n + 1.
ScansFirst(g, n) == g = [i \in 0..n |-> IF i = 0 THEN 0 ELSE Better(g[i - 1], i)]

LEMMA ScanExists ==
    ASSUME Len(renewalJobs) \in Nat
    PROVE  BestUpTo = [i \in 0..Len(renewalJobs) |-> IF i = 0 THEN 0 ELSE Better(BestUpTo[i - 1], i)]
  <1> DEFINE Missing == {n \in Nat : ~\E g : ScansFirst(g, n)}
  <1>1. 0 \notin Missing
    <2>1. ScansFirst([i \in 0..0 |-> 0], 0)
      BY DEF ScansFirst
    <2> QED
      BY <2>1
  <1>2. ASSUME NEW n \in Nat, n \notin Missing PROVE n + 1 \notin Missing
    <2>1. PICK g : ScansFirst(g, n)
      BY <1>2
    <2> DEFINE h == [i \in 0..(n + 1) |-> IF i = n + 1 THEN Better(g[n], n + 1) ELSE g[i]]
    <2>2. \A i \in 0..n : g[i] = IF i = 0 THEN 0 ELSE Better(g[i - 1], i)
      BY <2>1 DEF ScansFirst
    <2>3. \A i \in 0..(n + 1) : h[i] = IF i = 0 THEN 0 ELSE Better(h[i - 1], i)
      <3>1. ASSUME NEW i \in 0..(n + 1) PROVE h[i] = IF i = 0 THEN 0 ELSE Better(h[i - 1], i)
        <4>1. CASE i = n + 1
          <5>1. h[i] = Better(g[n], i) /\ h[i - 1] = g[n] /\ i # 0
            BY <4>1
          <5> QED
            BY <5>1
        <4>2. CASE i = 0
          BY <2>2, <4>2
        <4>3. CASE i # n + 1 /\ i # 0
          <5>1. i \in 0..n /\ i - 1 \in 0..n /\ h[i] = g[i] /\ h[i - 1] = g[i - 1]
            BY <4>3
          <5> QED
            BY <2>2, <4>3, <5>1
        <4> QED
          BY <4>1, <4>2, <4>3
      <3> QED
        BY <3>1
    <2>4. ScansFirst(h, n + 1)
      <3> DEFINE k == [i \in 0..(n + 1) |-> IF i = 0 THEN 0 ELSE Better(h[i - 1], i)]
      <3>1. \A i \in 0..(n + 1) : h[i] = k[i]
        BY <2>3
      <3>2. h = k
        <4>1. h = [i \in 0..(n + 1) |-> h[i]] /\ k = [i \in 0..(n + 1) |-> k[i]]
          OBVIOUS
        <4> HIDE DEF h, k
        <4> QED
          BY <3>1, <4>1
      <3> QED
        BY <3>2 DEF ScansFirst
    <2> QED
      BY <2>4
  <1>3. Missing = {}
    <2> SUFFICES ASSUME Missing # {} PROVE FALSE
      OBVIOUS
    <2>1. Missing \in SUBSET Nat
      OBVIOUS
    <2> HIDE DEF Missing
    <2>2. PICK m \in Missing : \A y \in Missing : m <= y
      BY <2>1, LeastNatural
    <2>3. m \in Nat /\ m # 0
      BY <1>1, <2>1
    <2>4. m - 1 \in Nat /\ m - 1 \notin Missing
      BY <2>1, <2>2, <2>3
    <2> QED
      BY <1>2, <2>3, <2>4
  <1>4. \E g : ScansFirst(g, Len(renewalJobs))
    BY <1>3
  <1> QED
    BY <1>4, Zenon DEF BestUpTo, ScansFirst

-----------------------------------------------------------------------------
\* An id is in the slice once, and whoever runs has a lease.
IdsDistinct == \A i, k \in DOMAIN renewalJobs : renewalJobs[i].id = renewalJobs[k].id => i = k
LeasesSet == \A i \in DOMAIN renewalJobs : renewalJobs[i].status = "RUNNING" => renewalJobs[i].lockedUntil # Nil
MemoryInv == MemoryTypeOK /\ IdsDistinct /\ LeasesSet

LEMMA SliceType ==
    ASSUME MemoryTypeOK
    PROVE  /\ Len(renewalJobs) \in Nat /\ DOMAIN renewalJobs = 1..Len(renewalJobs)
           /\ \A i \in DOMAIN renewalJobs : renewalJobs[i] \in MemoryJob
  BY DEF MemoryTypeOK

\* moreUrgent is a strict order on jobs.
LEMMA UrgencyOrders ==
    ASSUME NEW a \in MemoryJob, NEW b \in MemoryJob, NEW c \in MemoryJob
    PROVE  ~moreUrgent(a, a) /\ (moreUrgent(a, b) /\ moreUrgent(b, c) => moreUrgent(a, c))
  <1>1. /\ Deadline[a.certificateID] \in Nat \cup {Nil} /\ Deadline[b.certificateID] \in Nat \cup {Nil}
        /\ Deadline[c.certificateID] \in Nat \cup {Nil}
        /\ a.runAfter \in Nat /\ b.runAfter \in Nat /\ c.runAfter \in Nat
    BY MemoryRenewalsAssumption DEF MemoryJob, MemoryTimes
  <1> QED
    BY <1>1, MemoryRenewalsAssumption DEF moreUrgent

\* What the scan has found among the first n jobs.
ScanGood(n) ==
    /\ BestUpTo[n] \in 0..n
    /\ BestUpTo[n] = 0 => \A k \in 1..n : ~IsReady(renewalJobs[k])
    /\ BestUpTo[n] # 0 =>
          /\ IsReady(renewalJobs[BestUpTo[n]])
          /\ \A k \in 1..n : IsReady(renewalJobs[k]) => ~moreUrgent(renewalJobs[k], renewalJobs[BestUpTo[n]])

\* The job that is claimed is ready, and none that is ready is more urgent.
LEMMA BestIsBest ==
    ASSUME MemoryInv
    PROVE  ScanGood(Len(renewalJobs))
  <1>0. /\ Len(renewalJobs) \in Nat /\ DOMAIN renewalJobs = 1..Len(renewalJobs)
        /\ \A i \in 1..Len(renewalJobs) : renewalJobs[i] \in MemoryJob
    BY SliceType DEF MemoryInv
  <1>a. BestUpTo = [i \in 0..Len(renewalJobs) |-> IF i = 0 THEN 0 ELSE Better(BestUpTo[i - 1], i)]
    BY <1>0, ScanExists
  <1> DEFINE Bad == {n \in 0..Len(renewalJobs) : ~ScanGood(n)}
  <1>1. 0 \notin Bad
    <2>1. BestUpTo[0] = 0
      BY <1>0, <1>a
    <2> QED
      BY <2>1 DEF ScanGood
  <1>2. ASSUME NEW m \in 1..Len(renewalJobs), m - 1 \notin Bad PROVE m \notin Bad
    <2>0. m \in Nat /\ m - 1 \in 0..Len(renewalJobs) /\ ScanGood(m - 1)
      BY <1>0, <1>2
    <2>1. PICK b \in 0..(m - 1) : b = BestUpTo[m - 1]
      BY <2>0 DEF ScanGood
    <2>2. BestUpTo[m] = Better(b, m)
      <3>1. m \in 0..Len(renewalJobs) /\ m # 0
        BY <1>0
      <3> QED
        BY <1>a, <2>1, <3>1
    <2>a. /\ b = 0 => \A k \in 1..(m - 1) : ~IsReady(renewalJobs[k])
          /\ b # 0 => /\ IsReady(renewalJobs[b])
                      /\ \A k \in 1..(m - 1) : IsReady(renewalJobs[k]) => ~moreUrgent(renewalJobs[k], renewalJobs[b])
      BY <2>0, <2>1 DEF ScanGood
    <2>b. \A k \in 1..m : k \in 1..(m - 1) \/ k = m
      BY <2>0
    <2>3. CASE IsReady(renewalJobs[m]) /\ (b = 0 \/ moreUrgent(renewalJobs[m], renewalJobs[b]))
      <3>1. BestUpTo[m] = m
        BY <2>2, <2>3 DEF Better
      <3>2. ASSUME NEW k \in 1..m, IsReady(renewalJobs[k]) PROVE ~moreUrgent(renewalJobs[k], renewalJobs[m])
        <4>0. renewalJobs[k] \in MemoryJob /\ renewalJobs[m] \in MemoryJob
          BY <1>0, <2>0
        <4>1. CASE k = m
          BY <4>0, <4>1, UrgencyOrders
        <4>2. CASE k \in 1..(m - 1)
          <5>1. b # 0 /\ ~moreUrgent(renewalJobs[k], renewalJobs[b]) /\ moreUrgent(renewalJobs[m], renewalJobs[b])
            BY <2>3, <2>a, <3>2, <4>2
          <5>2. renewalJobs[b] \in MemoryJob
            BY <1>0, <2>0, <5>1
          <5> QED
            BY <4>0, <5>1, <5>2, UrgencyOrders
        <4> QED
          BY <2>b, <4>1, <4>2
      <3>3. m \in 0..m /\ m # 0
        BY <2>0
      <3> QED
        BY <2>3, <3>1, <3>2, <3>3 DEF ScanGood
    <2>4. CASE ~(IsReady(renewalJobs[m]) /\ (b = 0 \/ moreUrgent(renewalJobs[m], renewalJobs[b])))
      <3>1. BestUpTo[m] = b
        BY <2>2, <2>4 DEF Better
      <3>2. b \in 0..m
        BY <2>0
      <3>3. b = 0 => \A k \in 1..m : ~IsReady(renewalJobs[k])
        BY <2>4, <2>a, <2>b
      <3>4. b # 0 => IsReady(renewalJobs[b]) /\ \A k \in 1..m : IsReady(renewalJobs[k]) => ~moreUrgent(renewalJobs[k], renewalJobs[b])
        BY <2>4, <2>a, <2>b
      <3> QED
        BY <3>1, <3>2, <3>3, <3>4 DEF ScanGood
    <2> QED
      BY <2>3, <2>4
  <1>3. Bad = {}
    <2> SUFFICES ASSUME Bad # {} PROVE FALSE
      OBVIOUS
    <2>1. Bad \in SUBSET Nat /\ Bad \subseteq 0..Len(renewalJobs)
      BY <1>0
    <2> HIDE DEF Bad
    <2>2. PICK m \in Bad : \A y \in Bad : m <= y
      BY <2>1, LeastNatural
    <2>3. m \in 1..Len(renewalJobs)
      BY <1>0, <1>1, <2>1
    <2>4. m - 1 \notin Bad
      BY <1>0, <2>1, <2>2, <2>3
    <2> QED
      BY <1>2, <2>3, <2>4
  <1> QED
    BY <1>0, <1>3

-----------------------------------------------------------------------------
\* The row of the table that a job of the slice stands for.
RowOf(job) ==
    [status |-> IF IsOutstanding(job) THEN job.status ELSE "CLOSED", cert |-> job.certificateID, after |-> job.runAfter,
     holder |-> job.lockedBy, until |-> IF job.lockedUntil = Nil THEN 0 ELSE job.lockedUntil, tries |-> job.attempts,
     begun |-> job.startedAt]

LEMMA RowTyped ==
    ASSUME NEW job \in MemoryJob
    PROVE  /\ RowOf(job) \in Table!TableRow
           /\ RowOf(job).status = (IF IsOutstanding(job) THEN job.status ELSE "CLOSED")
           /\ RowOf(job).cert = job.certificateID /\ RowOf(job).after = job.runAfter /\ RowOf(job).holder = job.lockedBy
           /\ RowOf(job).until = (IF job.lockedUntil = Nil THEN 0 ELSE job.lockedUntil)
           /\ RowOf(job).tries = job.attempts /\ RowOf(job).begun = job.startedAt
  <1>1. /\ (IF IsOutstanding(job) THEN job.status ELSE "CLOSED") \in {"FREE", "PENDING", "RUNNING", "CLOSED"}
        /\ job.certificateID \in Certificates \cup {Nil} /\ job.runAfter \in Table!Times /\ job.lockedBy \in Holders \cup {Nil}
        /\ job.attempts \in 0..MaxTries /\ job.startedAt \in BOOLEAN
    BY DEF MemoryJob, IsOutstanding, MemoryTimes, Table!Times
  <1>2. (IF job.lockedUntil = Nil THEN 0 ELSE job.lockedUntil) \in Table!Times
    BY MemoryRenewalsAssumption DEF MemoryJob, MemoryTimes, Table!Times
  <1>3. RowOf(job) \in Table!TableRow
    BY <1>1, <1>2 DEF RowOf, Table!TableRow
  <1> QED
    BY <1>3 DEF RowOf

\* Rows that agree in every field are the same.
LEMMA SameRow ==
    ASSUME NEW a \in Table!TableRow, NEW b \in Table!TableRow, a.status = b.status, a.cert = b.cert, a.after = b.after,
           a.holder = b.holder, a.until = b.until, a.tries = b.tries, a.begun = b.begun
    PROVE  a = b
  BY DEF Table!TableRow

TableReads ==
    /\ \A i \in DOMAIN renewalJobs :
          /\ renewalJobs[i].id \in JobIds /\ Used(renewalJobs[i].id) /\ Index(renewalJobs[i].id) = i
          /\ TableOf[renewalJobs[i].id] = RowOf(renewalJobs[i])
    /\ \A j \in JobIds : ~Used(j) => TableOf[j] = Table!Unused

LEMMA TableAt == MemoryInv => TableReads
  <1> SUFFICES ASSUME MemoryInv PROVE TableReads
    OBVIOUS
  <1>1. ASSUME NEW i \in DOMAIN renewalJobs
        PROVE  /\ renewalJobs[i].id \in JobIds /\ Used(renewalJobs[i].id) /\ Index(renewalJobs[i].id) = i
               /\ TableOf[renewalJobs[i].id] = RowOf(renewalJobs[i])
    <2>1. renewalJobs[i].id \in JobIds
      BY SliceType DEF MemoryInv, MemoryJob
    <2>2. Used(renewalJobs[i].id)
      BY DEF Used
    <2>3. Index(renewalJobs[i].id) = i
      BY DEF Index, MemoryInv, IdsDistinct
    <2> QED
      BY <2>1, <2>2, <2>3 DEF TableOf, RowOf
  <1>2. ASSUME NEW j \in JobIds, ~Used(j) PROVE TableOf[j] = Table!Unused
    BY <1>2 DEF TableOf, Table!Unused
  <1> QED
    BY <1>1, <1>2 DEF TableReads

LEMMA TableAtNext == MemoryInv' => TableReads'
  <1>1. (MemoryInv => TableReads)'
    BY TableAt, PTL
  <1> QED
    BY <1>1

LEMMA UsedHasIndex ==
    ASSUME MemoryInv, NEW id \in JobIds, Used(id)
    PROVE  Index(id) \in DOMAIN renewalJobs /\ renewalJobs[Index(id)].id = id
  BY DEF Used, Index

\* A write to one job of the slice is a write to its row.
LEMMA JobWritten ==
    ASSUME MemoryInv, NEW i \in DOMAIN renewalJobs, NEW new \in MemoryJob, new.id = renewalJobs[i].id,
           new.status = "RUNNING" => new.lockedUntil # Nil,
           renewalJobs' = [renewalJobs EXCEPT ![i] = new], UNCHANGED time
    PROVE  MemoryInv' /\ TableOf' = [TableOf EXCEPT ![new.id] = RowOf(new)]
  <1>0. /\ Len(renewalJobs) \in Nat /\ DOMAIN renewalJobs = 1..Len(renewalJobs)
        /\ \A k \in DOMAIN renewalJobs : renewalJobs[k] \in MemoryJob
    BY SliceType DEF MemoryInv
  <1>1. renewalJobs \in Seq(MemoryJob)
    BY DEF MemoryInv, MemoryTypeOK
  <1>2. renewalJobs' \in Seq(MemoryJob) /\ DOMAIN renewalJobs' = DOMAIN renewalJobs
    BY <1>1
  <1>3. renewalJobs'[i] = new /\ \A k \in DOMAIN renewalJobs \ {i} : renewalJobs'[k] = renewalJobs[k]
    BY <1>1
  <1>4. MemoryTypeOK'
    BY <1>2 DEF MemoryInv, MemoryTypeOK
  <1>5. IdsDistinct'
    BY <1>2, <1>3 DEF MemoryInv, IdsDistinct
  <1>6. LeasesSet'
    BY <1>2, <1>3 DEF MemoryInv, LeasesSet
  <1>7. MemoryInv'
    BY <1>4, <1>5, <1>6 DEF MemoryInv
  <1>8. /\ \A k \in DOMAIN renewalJobs' :
              /\ renewalJobs'[k].id \in JobIds /\ TRUE
              /\ TableOf'[renewalJobs'[k].id] = RowOf(renewalJobs'[k])
        /\ \A j \in JobIds : ~Used(j)' => TableOf'[j] = Table!Unused
    BY <1>7, TableAtNext DEF TableReads, RowOf, IsOutstanding, Table!Unused
  <1>9. /\ \A k \in DOMAIN renewalJobs : TableOf[renewalJobs[k].id] = RowOf(renewalJobs[k])
        /\ \A j \in JobIds : ~Used(j) => TableOf[j] = Table!Unused
    BY TableAt DEF TableReads
  <1>10. \A j \in JobIds : Used(j)' <=> Used(j)
    BY <1>2, <1>3 DEF Used
  <1>11. ASSUME NEW j \in JobIds PROVE TableOf'[j] = IF j = new.id THEN RowOf(new) ELSE TableOf[j]
    <2>1. CASE j = new.id
      BY <1>2, <1>3, <1>8, <2>1
    <2>2. CASE j # new.id /\ ~Used(j)
      BY <1>8, <1>9, <1>10, <2>2
    <2>3. CASE j # new.id /\ Used(j)
      <3>1. PICK k \in DOMAIN renewalJobs : renewalJobs[k].id = j
        BY <2>3 DEF Used
      <3>2. k # i /\ renewalJobs'[k] = renewalJobs[k]
        BY <1>3, <2>3, <3>1
      <3> QED
        BY <1>2, <1>8, <1>9, <2>3, <3>1, <3>2
    <2> QED
      BY <2>1, <2>2, <2>3
  <1>12. /\ TableOf = [j \in JobIds |-> TableOf[j]] /\ TableOf' = [j \in JobIds |-> TableOf'[j]]
    BY DEF TableOf
  <1>13. TableOf' = [TableOf EXCEPT ![new.id] = RowOf(new)]
    BY <1>11, <1>12
  <1> QED
    BY <1>7, <1>13

\* A job is appended for an id that was free.
LEMMA JobAppended ==
    ASSUME MemoryInv, NEW new \in MemoryJob, ~Used(new.id), new.status # "RUNNING",
           renewalJobs' = Append(renewalJobs, new), UNCHANGED time
    PROVE  MemoryInv' /\ TableOf' = [TableOf EXCEPT ![new.id] = RowOf(new)]
  <1>0. /\ Len(renewalJobs) \in Nat /\ DOMAIN renewalJobs = 1..Len(renewalJobs) /\ new.id \in JobIds
    BY SliceType DEF MemoryInv, MemoryJob
  <1>1. renewalJobs \in Seq(MemoryJob)
    BY DEF MemoryInv, MemoryTypeOK
  <1>2. /\ renewalJobs' \in Seq(MemoryJob) /\ DOMAIN renewalJobs' = 1..(Len(renewalJobs) + 1)
        /\ renewalJobs'[Len(renewalJobs) + 1] = new /\ \A k \in DOMAIN renewalJobs : renewalJobs'[k] = renewalJobs[k]
    BY <1>0, <1>1
  <1>3. \A k \in DOMAIN renewalJobs' : k \in DOMAIN renewalJobs \/ k = Len(renewalJobs) + 1
    BY <1>0, <1>2
  <1>a. \A k \in DOMAIN renewalJobs : renewalJobs[k].id # new.id /\ k \in DOMAIN renewalJobs'
    BY <1>0, <1>2 DEF Used
  <1>4. MemoryTypeOK'
    BY <1>2 DEF MemoryInv, MemoryTypeOK
  <1>5. IdsDistinct'
    BY <1>2, <1>3, <1>a DEF MemoryInv, IdsDistinct
  <1>6. LeasesSet'
    BY <1>2, <1>3 DEF MemoryInv, LeasesSet
  <1>7. MemoryInv'
    BY <1>4, <1>5, <1>6 DEF MemoryInv
  <1>8. /\ \A k \in DOMAIN renewalJobs' : TableOf'[renewalJobs'[k].id] = RowOf(renewalJobs'[k])
        /\ \A j \in JobIds : ~Used(j)' => TableOf'[j] = Table!Unused
    BY <1>7, TableAtNext DEF TableReads, RowOf, IsOutstanding, Table!Unused
  <1>9. /\ \A k \in DOMAIN renewalJobs : TableOf[renewalJobs[k].id] = RowOf(renewalJobs[k])
        /\ \A j \in JobIds : ~Used(j) => TableOf[j] = Table!Unused
    BY TableAt DEF TableReads
  <1>10. Len(renewalJobs) + 1 \in DOMAIN renewalJobs'
    BY <1>0, <1>2
  <1>11. ASSUME NEW j \in JobIds PROVE TableOf'[j] = IF j = new.id THEN RowOf(new) ELSE TableOf[j]
    <2>1. CASE j = new.id
      BY <1>2, <1>8, <1>10, <2>1
    <2>2. CASE j # new.id /\ ~Used(j)
      <3>1. ~Used(j)'
        BY <1>2, <1>3, <2>2 DEF Used
      <3> QED
        BY <1>8, <1>9, <2>2, <3>1
    <2>3. CASE j # new.id /\ Used(j)
      <3>1. PICK k \in DOMAIN renewalJobs : renewalJobs[k].id = j
        BY <2>3 DEF Used
      <3> QED
        BY <1>2, <1>8, <1>9, <1>a, <2>3, <3>1
    <2> QED
      BY <2>1, <2>2, <2>3
  <1>12. /\ TableOf = [j \in JobIds |-> TableOf[j]] /\ TableOf' = [j \in JobIds |-> TableOf'[j]]
    BY DEF TableOf
  <1>13. TableOf' = [TableOf EXCEPT ![new.id] = RowOf(new)]
    BY <1>11, <1>12
  <1> QED
    BY <1>7, <1>13

-----------------------------------------------------------------------------
\* What the table says of a job of the slice.
LEMMA RowAgrees ==
    ASSUME MemoryInv, NEW i \in DOMAIN renewalJobs, NEW j \in JobIds, renewalJobs[i].id = j
    PROVE  /\ TableOf[j] = RowOf(renewalJobs[i])
           /\ Table!Open(j) <=> IsOutstanding(renewalJobs[i])
           /\ Table!Ready(j) <=> IsReady(renewalJobs[i])
           /\ TableOf[j].cert = renewalJobs[i].certificateID /\ TableOf[j].after = renewalJobs[i].runAfter
           /\ TableOf[j].tries = renewalJobs[i].attempts /\ TableOf[j].begun = renewalJobs[i].startedAt
           /\ TableOf[j].holder = renewalJobs[i].lockedBy
           /\ TableOf[j].status = "RUNNING" <=> renewalJobs[i].status = "RUNNING"
  <1>1. TableOf[j] = RowOf(renewalJobs[i])
    BY TableAt DEF TableReads
  <1>2. /\ TableOf[j].status = (IF IsOutstanding(renewalJobs[i]) THEN renewalJobs[i].status ELSE "CLOSED")
        /\ TableOf[j].cert = renewalJobs[i].certificateID /\ TableOf[j].after = renewalJobs[i].runAfter
        /\ TableOf[j].tries = renewalJobs[i].attempts /\ TableOf[j].begun = renewalJobs[i].startedAt
        /\ TableOf[j].holder = renewalJobs[i].lockedBy
        /\ TableOf[j].until = (IF renewalJobs[i].lockedUntil = Nil THEN 0 ELSE renewalJobs[i].lockedUntil)
    BY <1>1 DEF RowOf
  <1>3. TableOf[j].status = "RUNNING" <=> renewalJobs[i].status = "RUNNING"
    BY <1>2 DEF IsOutstanding
  <1>4. TableOf[j].status = "PENDING" <=> renewalJobs[i].status = "PENDING"
    BY <1>2 DEF IsOutstanding
  <1>5. Table!Open(j) <=> IsOutstanding(renewalJobs[i])
    BY <1>3, <1>4 DEF Table!Open, IsOutstanding
  <1>6. renewalJobs[i].status = "RUNNING" => renewalJobs[i].lockedUntil # Nil
    BY DEF MemoryInv, LeasesSet
  <1>7. Table!Ready(j) <=> IsReady(renewalJobs[i])
    BY <1>2, <1>3, <1>4, <1>6 DEF Table!Ready, IsReady
  <1> QED
    BY <1>1, <1>2, <1>3, <1>5, <1>7

\* An id that is not in the slice is neither outstanding nor ready.
LEMMA UnusedIdle ==
    ASSUME MemoryInv, NEW j \in JobIds, Table!Open(j) \/ Table!Ready(j)
    PROVE  \E i \in DOMAIN renewalJobs : renewalJobs[i].id = j
  <1>1. ~Used(j) => TableOf[j].status = "FREE"
    BY TableAt DEF TableReads, Table!Unused
  <1> QED
    BY <1>1 DEF Used, Table!Open, Table!Ready

\* The scan and the SELECT order jobs alike.
LEMMA OrdersAgree ==
    ASSUME MemoryInv, NEW i \in DOMAIN renewalJobs, NEW k \in DOMAIN renewalJobs,
           Table!Sooner(renewalJobs[i].id, renewalJobs[k].id)
    PROVE  moreUrgent(renewalJobs[i], renewalJobs[k])
  <1> DEFINE a == renewalJobs[i]
             b == renewalJobs[k]
  <1>1. a \in MemoryJob /\ b \in MemoryJob
    BY SliceType DEF MemoryInv
  <1>2. a.id \in JobIds /\ b.id \in JobIds
    BY <1>1 DEF MemoryJob
  <1>3. /\ TableOf[a.id].cert = a.certificateID /\ TableOf[a.id].after = a.runAfter
        /\ TableOf[b.id].cert = b.certificateID /\ TableOf[b.id].after = b.runAfter
    BY <1>2, RowAgrees
  <1>4. /\ Deadline[a.certificateID] \in Nat \cup {Nil} /\ Deadline[b.certificateID] \in Nat \cup {Nil}
        /\ a.runAfter \in Nat /\ b.runAfter \in Nat
    BY <1>1, MemoryRenewalsAssumption DEF MemoryJob, MemoryTimes
  <1>5. IF Deadline[a.certificateID] = Deadline[b.certificateID] THEN a.runAfter < b.runAfter
        ELSE Deadline[a.certificateID] # Nil
             /\ (IF Deadline[b.certificateID] = Nil THEN TRUE ELSE Deadline[a.certificateID] < Deadline[b.certificateID])
    BY <1>3 DEF Table!Sooner
  <1> HIDE DEF a, b
  <1>6. moreUrgent(a, b)
    BY <1>4, <1>5, MemoryRenewalsAssumption DEF moreUrgent
  <1> QED
    BY <1>6 DEF a, b

-----------------------------------------------------------------------------
(* Every operation of the slice is one of the table.                       *)

LEMMA EnqueueImplements ==
    ASSUME MemoryInv, NEW id \in JobIds, NEW c \in Certificates, NEW after \in {time, time + 1},
           EnqueueRenewal(id, c, after)
    PROVE  MemoryInv' /\ Table!TableNext
  <1> DEFINE new == [id |-> id, certificateID |-> c, status |-> "PENDING", runAfter |-> after,
                     lockedBy |-> Nil, lockedUntil |-> Nil, attempts |-> 0, startedAt |-> FALSE]
  <1>1. after \in MemoryTimes /\ after \in Table!Times
    BY MemoryRenewalsAssumption DEF MemoryInv, MemoryTypeOK, MemoryTimes, Table!Times
  <1>2. new \in MemoryJob /\ new.id = id /\ new.status # "RUNNING"
    BY <1>1, MemoryRenewalsAssumption DEF MemoryJob
  <1>3. RowOf(new) = [Table!Unused EXCEPT !.status = "PENDING", !.cert = c, !.after = after]
    <2>1. /\ new.status = "PENDING" /\ new.certificateID = c /\ new.runAfter = after /\ new.lockedBy = Nil
          /\ new.lockedUntil = Nil /\ new.attempts = 0 /\ new.startedAt = FALSE
      OBVIOUS
    <2> HIDE DEF new
    <2>2. Table!Unused \in Table!TableRow
      BY MemoryRenewalsAssumption DEF Table!Unused, Table!TableRow, Table!Times
    <2>3. /\ Table!Unused.holder = Nil /\ Table!Unused.until = 0 /\ Table!Unused.tries = 0 /\ Table!Unused.begun = FALSE
      BY DEF Table!Unused
    <2> DEFINE row == [Table!Unused EXCEPT !.status = "PENDING", !.cert = c, !.after = after]
    <2>4. /\ row \in Table!TableRow /\ row.status = "PENDING" /\ row.cert = c /\ row.after = after
          /\ row.holder = Nil /\ row.until = 0 /\ row.tries = 0 /\ row.begun = FALSE
      BY <1>1, <2>2, <2>3 DEF Table!TableRow
    <2> HIDE DEF row
    <2>5. RowOf(new) = row
      <3>1. RowOf(new) \in Table!TableRow /\ RowOf(new).cert = c /\ RowOf(new).after = after /\ RowOf(new).holder = Nil
        BY <1>2, <2>1, RowTyped
      <3>2. RowOf(new).tries = 0 /\ RowOf(new).begun = FALSE
        BY <1>2, <2>1, RowTyped
      <3>3. RowOf(new).status = "PENDING"
        BY <1>2, <2>1, RowTyped DEF IsOutstanding
      <3>4. RowOf(new).until = 0
        BY <1>2, <2>1, RowTyped
      <3> QED
        BY <2>4, <3>1, <3>2, <3>3, <3>4, SameRow
    <2> QED
      BY <2>5 DEF row
  <1>4. renewalJobs' = Append(renewalJobs, new) /\ UNCHANGED time /\ ~Used(id) /\ ~AlreadyQueued(c)
    BY DEF EnqueueRenewal
  <1> HIDE DEF new
  <1>5. MemoryInv' /\ TableOf' = [TableOf EXCEPT ![id] = RowOf(new)]
    <2>1. ~Used(new.id)
      BY <1>2, <1>4
    <2>2. MemoryInv' /\ TableOf' = [TableOf EXCEPT ![new.id] = RowOf(new)]
      BY <1>2, <1>4, <2>1, JobAppended
    <2> QED
      BY <1>2, <2>2
  <1>6. TableOf[id] = Table!Unused
    BY <1>4, TableAt DEF TableReads
  <1>7. ASSUME NEW k \in JobIds, Table!Open(k), TableOf[k].cert = c PROVE FALSE
    <2>1. PICK i \in DOMAIN renewalJobs : renewalJobs[i].id = k
      BY <1>7, UnusedIdle
    <2>2. renewalJobs[i].certificateID = c /\ IsOutstanding(renewalJobs[i])
      BY <1>7, <2>1, RowAgrees
    <2> QED
      BY <1>4, <2>2 DEF AlreadyQueued
  <1>8. Table!Insert(id, c, after)
    BY <1>3, <1>4, <1>5, <1>6, <1>7 DEF Table!Insert
  <1> QED
    BY <1>1, <1>5, <1>8 DEF Table!TableNext

LEMMA ClaimImplements ==
    ASSUME MemoryInv, NEW w \in Holders, ClaimRenewalJob(w)
    PROVE  MemoryInv' /\ Table!TableNext
  <1>0. /\ Len(renewalJobs) \in Nat /\ DOMAIN renewalJobs = 1..Len(renewalJobs)
        /\ \A k \in DOMAIN renewalJobs : renewalJobs[k] \in MemoryJob
    BY SliceType DEF MemoryInv
  <1>1. PICK i \in DOMAIN renewalJobs : i = Best
    BY <1>0, BestIsBest DEF ClaimRenewalJob, ScanGood, Best
  <1>2. IsReady(renewalJobs[i]) /\ \A k \in DOMAIN renewalJobs : IsReady(renewalJobs[k]) => ~moreUrgent(renewalJobs[k], renewalJobs[i])
    BY <1>0, <1>1, BestIsBest DEF ClaimRenewalJob, ScanGood, Best
  <1>3. PICK j \in JobIds : j = renewalJobs[i].id
    BY <1>0 DEF MemoryJob
  <1> DEFINE job == renewalJobs[i]
             new == [job EXCEPT !.status = "RUNNING", !.lockedBy = w, !.lockedUntil = time + LeaseTime,
                                !.attempts = @ + 1, !.startedAt = TRUE]
  <1>4. job \in MemoryJob /\ job.attempts < MaxTries
    BY <1>0, <1>1 DEF ClaimRenewalJob
  <1>5. renewalJobs' = [renewalJobs EXCEPT ![i] = new] /\ UNCHANGED time
    BY <1>1 DEF ClaimRenewalJob
  <1>6. time \in Nat /\ time + LeaseTime \in MemoryTimes /\ time + LeaseTime # Nil
    BY MemoryRenewalsAssumption DEF MemoryInv, MemoryTypeOK, MemoryTimes
  <1>7. new \in MemoryJob /\ new.id = j
    <2>1. job.attempts + 1 \in 0..MaxTries
      BY <1>4, MemoryRenewalsAssumption DEF MemoryJob
    <2> QED
      BY <1>3, <1>4, <1>6, <2>1 DEF MemoryJob
  <1>8. RowOf(new) = [RowOf(job) EXCEPT !.status = "RUNNING", !.holder = w, !.until = time + LeaseTime, !.tries = @ + 1, !.begun = TRUE]
    <2>1. /\ new.certificateID = job.certificateID /\ new.runAfter = job.runAfter /\ new.attempts = job.attempts + 1 /\ new.startedAt = TRUE
          /\ new.status = "RUNNING" /\ new.lockedBy = w /\ new.lockedUntil = time + LeaseTime
      BY <1>4, <1>6 DEF MemoryJob
    <2> HIDE DEF new, job
    <2> DEFINE row == [RowOf(job) EXCEPT !.status = "RUNNING", !.holder = w, !.until = time + LeaseTime, !.tries = @ + 1, !.begun = TRUE]
    <2>2. RowOf(job) \in Table!TableRow /\ job \in MemoryJob
      BY <1>4, RowTyped
    <2>3. /\ row \in Table!TableRow /\ row.status = "RUNNING" /\ row.cert = job.certificateID /\ row.after = job.runAfter /\ row.holder = w
          /\ row.until = time + LeaseTime /\ row.tries = job.attempts + 1 /\ row.begun = TRUE
      <3>1. /\ RowOf(job) \in Table!TableRow /\ RowOf(job).cert = job.certificateID /\ RowOf(job).after = job.runAfter
            /\ RowOf(job).tries = job.attempts /\ RowOf(job).begun = job.startedAt
        BY <2>2, RowTyped
      <3>2. job.attempts + 1 \in 0..MaxTries /\ time + LeaseTime \in Table!Times
        BY <1>4, <1>6, MemoryRenewalsAssumption DEF MemoryJob, MemoryTimes, Table!Times
      <3> QED
        BY <1>6, <3>1, <3>2 DEF Table!TableRow
    <2> HIDE DEF row
    <2>4. RowOf(new) = row
      <3>1. new \in MemoryJob
        BY <1>7
      <3>2. RowOf(new) \in Table!TableRow /\ RowOf(new).cert = row.cert /\ RowOf(new).after = row.after
        BY <2>1, <2>3, <3>1, RowTyped
      <3>3. RowOf(new).holder = row.holder /\ RowOf(new).tries = row.tries /\ RowOf(new).begun = row.begun
        BY <2>1, <2>3, <3>1, RowTyped
      <3>4. RowOf(new).status = row.status
        BY <2>1, <2>3, <3>1, RowTyped DEF IsOutstanding
      <3>5. RowOf(new).until = row.until
        BY <1>4, <1>6, <2>1, <2>3, <3>1, RowTyped
      <3> QED
        BY <2>3, <3>2, <3>3, <3>4, <3>5, SameRow
    <2> QED
      BY <2>4 DEF row
  <1>9. new.lockedUntil # Nil
    BY <1>4, <1>6 DEF MemoryJob
  <1> HIDE DEF new
  <1>10. MemoryInv' /\ TableOf' = [TableOf EXCEPT ![j] = RowOf(new)]
    BY <1>3, <1>5, <1>7, <1>9, JobWritten
  <1>11. TableOf[j] = RowOf(job) /\ Table!Ready(j) /\ TableOf[j].tries < MaxTries
    BY <1>2, <1>3, <1>4, RowAgrees
  <1>12. ASSUME NEW k \in JobIds, Table!Ready(k) PROVE ~Table!Sooner(k, j)
    <2>1. PICK n \in DOMAIN renewalJobs : renewalJobs[n].id = k
      BY <1>12, UnusedIdle
    <2>2. IsReady(renewalJobs[n])
      BY <1>12, <2>1, RowAgrees
    <2> QED
      BY <1>2, <1>3, <2>1, <2>2, OrdersAgree
  <1>13. TableOf' = [TableOf EXCEPT ![j].status = "RUNNING", ![j].holder = w, ![j].until = time + LeaseTime, ![j].tries = @ + 1,
                                    ![j].begun = TRUE]
    <2>1. j \in DOMAIN TableOf
      BY DEF TableOf
    <2> QED
      BY <1>8, <1>10, <1>11, <2>1
  <1>14. Table!Lease(j, w)
    BY <1>5, <1>11, <1>12, <1>13 DEF Table!Lease
  <1> QED
    BY <1>10, <1>14 DEF Table!TableNext

LEMMA ExtendImplements ==
    ASSUME MemoryInv, NEW id \in JobIds, NEW w \in Holders, ExtendRenewalLease(id, w)
    PROVE  MemoryInv' /\ Table!TableNext
  <1>0. Used(id)
    BY DEF ExtendRenewalLease
  <1>1. PICK i \in DOMAIN renewalJobs : i = Index(id) /\ renewalJobs[i].id = id
    BY <1>0, UsedHasIndex
  <1> DEFINE job == renewalJobs[i]
             new == [job EXCEPT !.lockedUntil = time + LeaseTime]
  <1>4. job \in MemoryJob /\ job.status = "RUNNING" /\ job.lockedBy = w
    BY <1>1, SliceType DEF ExtendRenewalLease, MemoryInv
  <1>5. renewalJobs' = [renewalJobs EXCEPT ![i] = new] /\ UNCHANGED time
    BY <1>1 DEF ExtendRenewalLease
  <1>6. time \in Nat /\ time + LeaseTime \in MemoryTimes /\ time + LeaseTime # Nil
    BY MemoryRenewalsAssumption DEF MemoryInv, MemoryTypeOK, MemoryTimes
  <1>7. new \in MemoryJob /\ new.id = id /\ new.lockedUntil # Nil
    BY <1>1, <1>4, <1>6 DEF MemoryJob
  <1>8. RowOf(new) = [RowOf(job) EXCEPT !.until = time + LeaseTime]
    BY <1>4, <1>6 DEF RowOf, IsOutstanding, MemoryJob
  <1> HIDE DEF new
  <1>10. MemoryInv' /\ TableOf' = [TableOf EXCEPT ![id] = RowOf(new)]
    BY <1>1, <1>5, <1>7, JobWritten
  <1>11. TableOf[id] = RowOf(job) /\ TableOf[id].status = "RUNNING" /\ TableOf[id].holder = w
    BY <1>1, <1>4, RowAgrees
  <1>13. TableOf' = [TableOf EXCEPT ![id].until = time + LeaseTime]
    BY <1>8, <1>10, <1>11
  <1>14. Table!Extend(id, w)
    BY <1>5, <1>11, <1>13 DEF Table!Extend
  <1> QED
    BY <1>10, <1>14 DEF Table!TableNext

LEMMA CancelImplements ==
    ASSUME MemoryInv, NEW id \in JobIds, CancelRenewalJob(id)
    PROVE  MemoryInv' /\ Table!TableNext
  <1>0. Used(id)
    BY DEF CancelRenewalJob
  <1>1. PICK i \in DOMAIN renewalJobs : i = Index(id) /\ renewalJobs[i].id = id
    BY <1>0, UsedHasIndex
  <1> DEFINE job == renewalJobs[i]
             new == [job EXCEPT !.status = "CANCELLED", !.lockedBy = Nil, !.lockedUntil = Nil]
  <1>4. job \in MemoryJob /\ IsOutstanding(job)
    BY <1>1, SliceType DEF CancelRenewalJob, MemoryInv
  <1>5. renewalJobs' = [renewalJobs EXCEPT ![i] = new] /\ UNCHANGED time
    BY <1>1 DEF CancelRenewalJob
  <1>7. new \in MemoryJob /\ new.id = id /\ new.status # "RUNNING"
    BY <1>1, <1>4 DEF MemoryJob
  <1>8. RowOf(new) = [RowOf(job) EXCEPT !.status = "CLOSED", !.holder = Nil, !.until = 0]
    <2>1. /\ new.certificateID = job.certificateID /\ new.runAfter = job.runAfter /\ new.attempts = job.attempts
          /\ new.startedAt = job.startedAt /\ new.status = "CANCELLED" /\ new.lockedBy = Nil /\ new.lockedUntil = Nil
      BY <1>4 DEF MemoryJob
    <2> HIDE DEF new, job
    <2> DEFINE row == [RowOf(job) EXCEPT !.status = "CLOSED", !.holder = Nil, !.until = 0]
    <2>2. RowOf(job) \in Table!TableRow /\ job \in MemoryJob
      BY <1>4, RowTyped
    <2>3. /\ row \in Table!TableRow /\ row.status = "CLOSED" /\ row.cert = job.certificateID /\ row.after = job.runAfter /\ row.holder = Nil
          /\ row.until = 0 /\ row.tries = job.attempts /\ row.begun = job.startedAt
      <3>1. /\ RowOf(job) \in Table!TableRow /\ RowOf(job).cert = job.certificateID /\ RowOf(job).after = job.runAfter
            /\ RowOf(job).tries = job.attempts /\ RowOf(job).begun = job.startedAt
        BY <2>2, RowTyped
      <3>2. 0 \in Table!Times
        BY MemoryRenewalsAssumption DEF Table!Times
      <3> QED
        BY <3>1, <3>2 DEF Table!TableRow
    <2> HIDE DEF row
    <2>4. RowOf(new) = row
      <3>1. new \in MemoryJob
        BY <1>7
      <3>2. RowOf(new) \in Table!TableRow /\ RowOf(new).cert = row.cert /\ RowOf(new).after = row.after
        BY <2>1, <2>3, <3>1, RowTyped
      <3>3. RowOf(new).holder = row.holder /\ RowOf(new).tries = row.tries /\ RowOf(new).begun = row.begun
        BY <2>1, <2>3, <3>1, RowTyped
      <3>4. RowOf(new).status = row.status
        BY <2>1, <2>3, <3>1, RowTyped DEF IsOutstanding
      <3>5. RowOf(new).until = row.until
        BY <1>4, <2>1, <2>3, <3>1, RowTyped
      <3> QED
        BY <2>3, <3>2, <3>3, <3>4, <3>5, SameRow
    <2> QED
      BY <2>4 DEF row
  <1> HIDE DEF new
  <1>10. MemoryInv' /\ TableOf' = [TableOf EXCEPT ![id] = RowOf(new)]
    BY <1>1, <1>5, <1>7, JobWritten
  <1>11. TableOf[id] = RowOf(job) /\ Table!Open(id)
    BY <1>1, <1>4, RowAgrees
  <1>13. TableOf' = [TableOf EXCEPT ![id].status = "CLOSED", ![id].holder = Nil, ![id].until = 0]
    BY <1>8, <1>10, <1>11
  <1>14. Table!Close(id)
    BY <1>5, <1>11, <1>13 DEF Table!Close
  <1> QED
    BY <1>10, <1>14 DEF Table!TableNext

LEMMA CompleteImplements ==
    ASSUME MemoryInv, NEW id \in JobIds, NEW status \in {"PENDING", "SUCCEEDED"}, CompleteRenewalJob(id, status, time + 1)
    PROVE  MemoryInv' /\ Table!TableNext
  <1>0. Used(id)
    BY DEF CompleteRenewalJob
  <1>1. PICK i \in DOMAIN renewalJobs : i = Index(id) /\ renewalJobs[i].id = id
    BY <1>0, UsedHasIndex
  <1> DEFINE job == renewalJobs[i]
             new == [job EXCEPT !.status = status, !.lockedBy = Nil, !.lockedUntil = Nil,
                                !.runAfter = IF status = "PENDING" THEN time + 1 ELSE @]
             seen == IF status = "PENDING" THEN "PENDING" ELSE "CLOSED"
  <1>4. job \in MemoryJob /\ job.startedAt
    BY <1>1, SliceType DEF CompleteRenewalJob, MemoryInv
  <1>5. renewalJobs' = [renewalJobs EXCEPT ![i] = new] /\ UNCHANGED time
    BY <1>1 DEF CompleteRenewalJob
  <1>6. time + 1 \in MemoryTimes /\ time + 1 \in Table!Times
    BY MemoryRenewalsAssumption DEF MemoryInv, MemoryTypeOK, MemoryTimes, Table!Times
  <1>7. new \in MemoryJob /\ new.id = id /\ new.status # "RUNNING"
    BY <1>1, <1>4, <1>6 DEF MemoryJob
  <1>8. RowOf(new) = [RowOf(job) EXCEPT !.status = seen, !.holder = Nil, !.until = 0, !.tries = RowOf(job).tries,
                                        !.after = IF seen = "PENDING" THEN time + 1 ELSE @]
    <2>1. /\ new.certificateID = job.certificateID /\ new.runAfter = (IF status = "PENDING" THEN time + 1 ELSE job.runAfter)
          /\ new.attempts = job.attempts /\ new.startedAt = job.startedAt
          /\ new.status = status /\ new.lockedBy = Nil /\ new.lockedUntil = Nil
      BY <1>4 DEF MemoryJob
    <2> HIDE DEF new, job
    <2> DEFINE row == [RowOf(job) EXCEPT !.status = seen, !.holder = Nil, !.until = 0, !.tries = RowOf(job).tries,
                               !.after = IF seen = "PENDING" THEN time + 1 ELSE @]
    <2>2. RowOf(job) \in Table!TableRow /\ job \in MemoryJob
      BY <1>4, RowTyped
    <2>3. /\ row \in Table!TableRow /\ row.status = seen /\ row.cert = job.certificateID
          /\ row.after = (IF seen = "PENDING" THEN time + 1 ELSE job.runAfter) /\ row.holder = Nil
          /\ row.until = 0 /\ row.tries = job.attempts /\ row.begun = job.startedAt
      <3>1. /\ RowOf(job) \in Table!TableRow /\ RowOf(job).cert = job.certificateID /\ RowOf(job).after = job.runAfter
            /\ RowOf(job).tries = job.attempts /\ RowOf(job).begun = job.startedAt
        BY <2>2, RowTyped
      <3>2. 0 \in Table!Times /\ seen \in {"PENDING", "CLOSED"}
        BY MemoryRenewalsAssumption DEF Table!Times
      <3> QED
        BY <1>6, <3>1, <3>2 DEF Table!TableRow
    <2> HIDE DEF row
    <2>4. RowOf(new) = row
      <3>1. new \in MemoryJob
        BY <1>7
      <3>2. RowOf(new) \in Table!TableRow /\ RowOf(new).cert = row.cert /\ RowOf(new).after = row.after
        BY <2>1, <2>3, <3>1, RowTyped DEF seen
      <3>3. RowOf(new).holder = row.holder /\ RowOf(new).tries = row.tries /\ RowOf(new).begun = row.begun
        BY <2>1, <2>3, <3>1, RowTyped
      <3>4. RowOf(new).status = row.status
        BY <2>1, <2>3, <3>1, RowTyped DEF IsOutstanding, seen
      <3>5. RowOf(new).until = row.until
        BY <1>4, <2>1, <2>3, <3>1, RowTyped
      <3> QED
        BY <2>3, <3>2, <3>3, <3>4, <3>5, SameRow
    <2> QED
      BY <2>4 DEF row
  <1>9. seen \in {"PENDING", "CLOSED"}
    OBVIOUS
  <1> HIDE DEF new, seen
  <1>10. MemoryInv' /\ TableOf' = [TableOf EXCEPT ![id] = RowOf(new)]
    BY <1>1, <1>5, <1>7, JobWritten
  <1>11. TableOf[id] = RowOf(job) /\ TableOf[id].begun /\ TableOf[id].tries = job.attempts
    BY <1>1, <1>4, RowAgrees
  <1>12. PICK tries \in 0..MaxTries : tries = TableOf[id].tries
    BY <1>4, <1>11 DEF MemoryJob
  <1>13. TableOf' = [TableOf EXCEPT ![id].status = seen, ![id].holder = Nil, ![id].until = 0, ![id].tries = tries,
                                    ![id].after = IF seen = "PENDING" THEN time + 1 ELSE @]
    BY <1>8, <1>10, <1>11, <1>12
  <1>14. Table!Report(id, seen, time + 1, tries)
    BY <1>5, <1>11, <1>12, <1>13 DEF Table!Report
  <1> QED
    BY <1>6, <1>9, <1>10, <1>14 DEF Table!TableNext

LEMMA DeferImplements ==
    ASSUME MemoryInv, NEW id \in JobIds, DeferRenewalJob(id, time + 1)
    PROVE  MemoryInv' /\ Table!TableNext
  <1>0. Used(id)
    BY DEF DeferRenewalJob
  <1>1. PICK i \in DOMAIN renewalJobs : i = Index(id) /\ renewalJobs[i].id = id
    BY <1>0, UsedHasIndex
  <1> DEFINE job == renewalJobs[i]
             remaining == IF job.attempts > 0 THEN job.attempts - 1 ELSE job.attempts
             new == [job EXCEPT !.status = "PENDING", !.lockedBy = Nil, !.lockedUntil = Nil,
                                !.runAfter = time + 1, !.attempts = remaining]
  <1>4. job \in MemoryJob /\ job.startedAt
    BY <1>1, SliceType DEF DeferRenewalJob, MemoryInv
  <1>5. renewalJobs' = [renewalJobs EXCEPT ![i] = new] /\ UNCHANGED time
    BY <1>1 DEF DeferRenewalJob
  <1>6. time + 1 \in MemoryTimes /\ time + 1 \in Table!Times
    BY MemoryRenewalsAssumption DEF MemoryInv, MemoryTypeOK, MemoryTimes, Table!Times
  <1>a. PICK tries \in 0..MaxTries : tries = remaining /\ tries \in {job.attempts, job.attempts - 1}
    BY <1>4, MemoryRenewalsAssumption DEF MemoryJob
  <1> HIDE DEF remaining
  <1>7. new \in MemoryJob /\ new.id = id /\ new.status # "RUNNING"
    BY <1>1, <1>4, <1>6, <1>a DEF MemoryJob
  <1>8. RowOf(new) = [RowOf(job) EXCEPT !.status = "PENDING", !.holder = Nil, !.until = 0, !.tries = tries, !.after = time + 1]
    <2>1. /\ new.certificateID = job.certificateID /\ new.runAfter = time + 1 /\ new.attempts = tries
          /\ new.startedAt = job.startedAt /\ new.status = "PENDING" /\ new.lockedBy = Nil /\ new.lockedUntil = Nil
      BY <1>4, <1>a DEF MemoryJob
    <2> HIDE DEF new, job
    <2> DEFINE row == [RowOf(job) EXCEPT !.status = "PENDING", !.holder = Nil, !.until = 0, !.tries = tries, !.after = time + 1]
    <2>2. RowOf(job) \in Table!TableRow /\ job \in MemoryJob
      BY <1>4, RowTyped
    <2>3. /\ row \in Table!TableRow /\ row.status = "PENDING" /\ row.cert = job.certificateID /\ row.after = time + 1 /\ row.holder = Nil
          /\ row.until = 0 /\ row.tries = tries /\ row.begun = job.startedAt
      <3>1. /\ RowOf(job) \in Table!TableRow /\ RowOf(job).cert = job.certificateID /\ RowOf(job).after = job.runAfter
            /\ RowOf(job).tries = job.attempts /\ RowOf(job).begun = job.startedAt
        BY <2>2, RowTyped
      <3>2. 0 \in Table!Times
        BY MemoryRenewalsAssumption DEF Table!Times
      <3> QED
        BY <1>6, <3>1, <3>2 DEF Table!TableRow
    <2> HIDE DEF row
    <2>4. RowOf(new) = row
      <3>1. new \in MemoryJob
        BY <1>7
      <3>2. RowOf(new) \in Table!TableRow /\ RowOf(new).cert = row.cert /\ RowOf(new).after = row.after
        BY <2>1, <2>3, <3>1, RowTyped
      <3>3. RowOf(new).holder = row.holder /\ RowOf(new).tries = row.tries /\ RowOf(new).begun = row.begun
        BY <2>1, <2>3, <3>1, RowTyped
      <3>4. RowOf(new).status = row.status
        BY <2>1, <2>3, <3>1, RowTyped DEF IsOutstanding
      <3>5. RowOf(new).until = row.until
        BY <1>4, <1>a, <2>1, <2>3, <3>1, RowTyped
      <3> QED
        BY <2>3, <3>2, <3>3, <3>4, <3>5, SameRow
    <2> QED
      BY <2>4 DEF row
  <1> HIDE DEF new
  <1>10. MemoryInv' /\ TableOf' = [TableOf EXCEPT ![id] = RowOf(new)]
    BY <1>1, <1>5, <1>7, JobWritten
  <1>11. TableOf[id] = RowOf(job) /\ TableOf[id].begun /\ TableOf[id].tries = job.attempts
    BY <1>1, <1>4, RowAgrees
  <1>13. TableOf' = [TableOf EXCEPT ![id].status = "PENDING", ![id].holder = Nil, ![id].until = 0, ![id].tries = tries,
                                    ![id].after = IF "PENDING" = "PENDING" THEN time + 1 ELSE @]
    BY <1>8, <1>10, <1>11
  <1>14. Table!Report(id, "PENDING", time + 1, tries)
    BY <1>5, <1>11, <1>13, <1>a DEF Table!Report
  <1> QED
    BY <1>6, <1>10, <1>14 DEF Table!TableNext

LEMMA MemoryTimeImplements ==
    ASSUME MemoryInv, MemoryTime
    PROVE  MemoryInv' /\ Table!TableNext
  <1>1. time' \in 0..MaxTime /\ renewalJobs' = renewalJobs
    BY MemoryRenewalsAssumption DEF MemoryInv, MemoryTypeOK, MemoryTime
  <1>2. MemoryInv'
    BY <1>1 DEF MemoryInv, MemoryTypeOK, IdsDistinct, LeasesSet
  <1>3. TableOf' = TableOf
    BY <1>1 DEF TableOf, Used, Index
  <1>4. Table!TimePasses
    BY <1>3 DEF MemoryTime, Table!TimePasses
  <1> QED
    BY <1>2, <1>4 DEF Table!TableNext

LEMMA MemoryInitImplements == MemoryInit => MemoryInv /\ Table!TableInit
  <1> SUFFICES ASSUME MemoryInit PROVE MemoryInv /\ Table!TableInit
    OBVIOUS
  <1>1. renewalJobs \in Seq(MemoryJob) /\ DOMAIN renewalJobs = {} /\ time \in 0..MaxTime
    BY MemoryRenewalsAssumption DEF MemoryInit
  <1>2. MemoryInv
    BY <1>1 DEF MemoryInv, MemoryTypeOK, IdsDistinct, LeasesSet
  <1>3. TableOf = [j \in JobIds |-> Table!Unused]
    BY <1>1 DEF TableOf, Used, Table!Unused
  <1> QED
    BY <1>2, <1>3 DEF MemoryInit, Table!TableInit

LEMMA MemoryStepImplements ==
    MemoryInv /\ [MemoryNext]_memoryVars => MemoryInv' /\ [Table!TableNext]_(Table!tableVars)
  <1> SUFFICES ASSUME MemoryInv, [MemoryNext]_memoryVars PROVE MemoryInv' /\ [Table!TableNext]_(Table!tableVars)
    OBVIOUS
  <1>1. ASSUME MemoryNext PROVE MemoryInv' /\ Table!TableNext
    BY <1>1, EnqueueImplements, ClaimImplements, ExtendImplements, CompleteImplements, DeferImplements, CancelImplements,
       MemoryTimeImplements DEF MemoryNext
  <1>2. ASSUME UNCHANGED memoryVars PROVE MemoryInv' /\ UNCHANGED Table!tableVars
    <2>1. renewalJobs' = renewalJobs /\ time' = time
      BY <1>2 DEF memoryVars
    <2>2. TableOf' = TableOf
      BY <2>1 DEF TableOf, Used, Index
    <2>3. MemoryInv'
      BY <2>1 DEF MemoryInv, MemoryTypeOK, IdsDistinct, LeasesSet
    <2> QED
      BY <2>1, <2>2, <2>3 DEF Table!tableVars
  <1> QED
    BY <1>1, <1>2

-----------------------------------------------------------------------------
(* The services do not disturb each other.                                 *)

\* A step that is not a service's own leaves it as it is.
LEMMA StepsProject ==
    [Next]_vars =>
        /\ [NoncesNext]_noncesVars /\ [AcmeAccountsNext]_acmeAccountsVars
        /\ [IssuanceNext]_issuanceVars /\ [AcmeNext]_acmeVars /\ [SchedulesNext]_schedulesVars
        /\ [ScansNext]_scansVars /\ [FleetNext]_fleetVars /\ [MemoryNext]_memoryVars
        /\ [CTNext]_ctVars /\ [CloudNext]_cloudVars /\ [ReportsNext]_reportsVars
        /\ [AgentJobsNext]_agentJobsVars /\ [AcksNext]_acksVars /\ [VerificationNext]_verifyVars
        /\ [GatewayNext]_gatewayVars /\ [RetryNext]_retryVars
        /\ [SignInNext]_signInVars /\ [AccountsNext]_accountsVars /\ [RateLimitNext]_rateLimitVars
        /\ [RulesNext]_rulesVars /\ [TemplatesNext]_templateVars /\ [AuditNext]_auditVars
  <1>1. ASSUME UNCHANGED vars
        PROVE
          /\ UNCHANGED noncesVars /\ UNCHANGED acmeAccountsVars /\ UNCHANGED issuanceVars
          /\ UNCHANGED acmeVars /\ UNCHANGED schedulesVars /\ UNCHANGED scansVars
          /\ UNCHANGED fleetVars /\ UNCHANGED memoryVars /\ UNCHANGED ctVars /\ UNCHANGED cloudVars
          /\ UNCHANGED reportsVars /\ UNCHANGED agentJobsVars /\ UNCHANGED acksVars
          /\ UNCHANGED verifyVars /\ UNCHANGED gatewayVars /\ UNCHANGED retryVars
          /\ UNCHANGED signInVars /\ UNCHANGED accountsVars /\ UNCHANGED rateLimitVars
          /\ UNCHANGED rulesVars /\ UNCHANGED templateVars /\ UNCHANGED auditVars
    BY <1>1 DEF vars
  <1>2. ASSUME Next
        PROVE
          /\ NoncesNext \/ UNCHANGED noncesVars
          /\ AcmeAccountsNext \/ UNCHANGED acmeAccountsVars
          /\ IssuanceNext \/ UNCHANGED issuanceVars
          /\ AcmeNext \/ UNCHANGED acmeVars
          /\ SchedulesNext \/ UNCHANGED schedulesVars
          /\ ScansNext \/ UNCHANGED scansVars
          /\ FleetNext \/ UNCHANGED fleetVars
          /\ MemoryNext \/ UNCHANGED memoryVars
          /\ CTNext \/ UNCHANGED ctVars
          /\ CloudNext \/ UNCHANGED cloudVars
          /\ ReportsNext \/ UNCHANGED reportsVars
          /\ AgentJobsNext \/ UNCHANGED agentJobsVars
          /\ AcksNext \/ UNCHANGED acksVars
          /\ VerificationNext \/ UNCHANGED verifyVars
          /\ GatewayNext \/ UNCHANGED gatewayVars
          /\ RetryNext \/ UNCHANGED retryVars
          /\ SignInNext \/ UNCHANGED signInVars
          /\ AccountsNext \/ UNCHANGED accountsVars
          /\ RateLimitNext \/ UNCHANGED rateLimitVars
          /\ RulesNext \/ UNCHANGED rulesVars
          /\ TemplatesNext \/ UNCHANGED templateVars
          /\ AuditNext \/ UNCHANGED auditVars
    <2>1. NoncesNext \/ UNCHANGED noncesVars
      BY <1>2 DEF Next, RestUnchanged
    <2>2. AcmeAccountsNext \/ UNCHANGED acmeAccountsVars
      BY <1>2 DEF Next, RestUnchanged
    <2>3. IssuanceNext \/ UNCHANGED issuanceVars
      BY <1>2 DEF Next, RestUnchanged
    <2>4. AcmeNext \/ UNCHANGED acmeVars
      BY <1>2 DEF Next, RestUnchanged
    <2>5. SchedulesNext \/ UNCHANGED schedulesVars
      BY <1>2 DEF Next, RestUnchanged
    <2>6. ScansNext \/ UNCHANGED scansVars
      BY <1>2 DEF Next, RestUnchanged
    <2>7. FleetNext \/ UNCHANGED fleetVars
      BY <1>2 DEF Next, RestUnchanged
    <2>8. MemoryNext \/ UNCHANGED memoryVars
      BY <1>2 DEF Next, RestUnchanged
    <2>9. CTNext \/ UNCHANGED ctVars
      BY <1>2 DEF Next, RestUnchanged
    <2>10. CloudNext \/ UNCHANGED cloudVars
      BY <1>2 DEF Next, RestUnchanged
    <2>11. ReportsNext \/ UNCHANGED reportsVars
      BY <1>2 DEF Next, RestUnchanged
    <2>12. AgentJobsNext \/ UNCHANGED agentJobsVars
      BY <1>2 DEF Next, RestUnchanged
    <2>13. AcksNext \/ UNCHANGED acksVars
      BY <1>2 DEF Next, RestUnchanged
    <2>14. VerificationNext \/ UNCHANGED verifyVars
      BY <1>2 DEF Next, RestUnchanged
    <2>15. GatewayNext \/ UNCHANGED gatewayVars
      BY <1>2 DEF Next, RestUnchanged
    <2>16. RetryNext \/ UNCHANGED retryVars
      BY <1>2 DEF Next, RestUnchanged
    <2>17. SignInNext \/ UNCHANGED signInVars
      BY <1>2 DEF Next, RestUnchanged
    <2>18. AccountsNext \/ UNCHANGED accountsVars
      BY <1>2 DEF Next, RestUnchanged
    <2>19. RateLimitNext \/ UNCHANGED rateLimitVars
      BY <1>2 DEF Next, RestUnchanged
    <2>20. RulesNext \/ UNCHANGED rulesVars
      BY <1>2 DEF Next, RestUnchanged
    <2>21. TemplatesNext \/ UNCHANGED templateVars
      BY <1>2 DEF Next, RestUnchanged
    <2>22. AuditNext \/ UNCHANGED auditVars
      BY <1>2 DEF Next, RestUnchanged
    <2> QED
      BY <2>1, <2>2, <2>3, <2>4, <2>5, <2>6, <2>7, <2>8, <2>9, <2>10, <2>11, <2>12, <2>13, <2>14, <2>15, <2>16,
         <2>17, <2>18, <2>19, <2>20, <2>21, <2>22
  <1> QED
    BY <1>1, <1>2

\* Every service begins in one of its initial states.
LEMMA ServicesInitial ==
    Init =>
        /\ NoncesInit /\ AcmeAccountsInit /\ IssuanceInit /\ AcmeInit /\ SchedulesInit /\ ScansInit
        /\ FleetInit /\ MemoryInit /\ CTInit /\ CloudInit /\ ReportsInit /\ AgentJobsInit
        /\ AcksInit /\ VerificationInit /\ GatewayInit /\ RetryInit
        /\ SignInInit /\ AccountsInit /\ RateLimitInit /\ RulesInit /\ TemplatesInit /\ AuditInit
  BY DEF Init

-----------------------------------------------------------------------------
(* The invariants of the services, as invariants of the whole.             *)

\* NoncesInv, as an invariant of the whole.
LEMMA NoncesAlways == Spec => []NoncesInv
  <1>1. Init => NoncesInv
    BY ServicesInitial, NoncesInitInv
  <1>2. NoncesInv /\ [Next]_vars => NoncesInv'
    BY StepsProject, NoncesStepInv
  <1> QED
    BY <1>1, <1>2, PTL DEF Spec

\* AcmeAccountsInv, as an invariant of the whole.
LEMMA AcmeAccountsAlways == Spec => []AcmeAccountsInv
  <1>1. Init => AcmeAccountsInv
    BY ServicesInitial, AcmeAccountsInitInv
  <1>2. AcmeAccountsInv /\ [Next]_vars => AcmeAccountsInv'
    BY StepsProject, AcmeAccountsStepInv
  <1> QED
    BY <1>1, <1>2, PTL DEF Spec

\* IssuanceInv, as an invariant of the whole.
LEMMA IssuanceAlways == Spec => []IssuanceInv
  <1>1. Init => IssuanceInv
    BY ServicesInitial, IssuanceInitInv
  <1>2. IssuanceInv /\ [Next]_vars => IssuanceInv'
    BY StepsProject, IssuanceStepInv
  <1> QED
    BY <1>1, <1>2, PTL DEF Spec

\* AcmeInv, as an invariant of the whole.
LEMMA AcmeAlways == Spec => []AcmeInv
  <1>1. Init => AcmeInv
    BY ServicesInitial, AcmeInitInv
  <1>2. AcmeInv /\ [Next]_vars => AcmeInv'
    BY StepsProject, AcmeStepInv
  <1> QED
    BY <1>1, <1>2, PTL DEF Spec

\* SchedulesInv, as an invariant of the whole.
LEMMA SchedulesAlways == Spec => []SchedulesInv
  <1>1. Init => SchedulesInv
    BY ServicesInitial, SchedulesInitInv
  <1>2. SchedulesInv /\ [Next]_vars => SchedulesInv'
    BY StepsProject, SchedulesStepInv
  <1> QED
    BY <1>1, <1>2, PTL DEF Spec

\* ScansInv, as an invariant of the whole.
LEMMA ScansAlways == Spec => []ScansInv
  <1>1. Init => ScansInv
    BY ServicesInitial, ScansInitInv
  <1>2. ScansInv /\ [Next]_vars => ScansInv'
    BY StepsProject, ScansStepInv
  <1> QED
    BY <1>1, <1>2, PTL DEF Spec

\* FleetInv, as an invariant of the whole.
LEMMA FleetAlways == Spec => []FleetInv
  <1>1. Init => FleetInv
    BY ServicesInitial, FleetInitInv
  <1>2. FleetInv /\ [Next]_vars => FleetInv'
    BY StepsProject, FleetStepInv
  <1> QED
    BY <1>1, <1>2, PTL DEF Spec

\* CTInv, as an invariant of the whole.
LEMMA CTAlways == Spec => []CTInv
  <1>1. Init => CTInv
    BY ServicesInitial, CTInitInv
  <1>2. CTInv /\ [Next]_vars => CTInv'
    BY StepsProject, CTStepInv
  <1> QED
    BY <1>1, <1>2, PTL DEF Spec

\* CloudInv, as an invariant of the whole.
LEMMA CloudAlways == Spec => []CloudInv
  <1>1. Init => CloudInv
    BY ServicesInitial, CloudInitInv
  <1>2. CloudInv /\ [Next]_vars => CloudInv'
    BY StepsProject, CloudStepInv
  <1> QED
    BY <1>1, <1>2, PTL DEF Spec

\* ReportsInv, as an invariant of the whole.
LEMMA ReportsAlways == Spec => []ReportsInv
  <1>1. Init => ReportsInv
    BY ServicesInitial, ReportsInitInv
  <1>2. ReportsInv /\ [Next]_vars => ReportsInv'
    BY StepsProject, ReportsStepInv
  <1> QED
    BY <1>1, <1>2, PTL DEF Spec

\* JobsInv, as an invariant of the whole.
LEMMA JobsAlways == Spec => []JobsInv
  <1>1. Init => JobsInv
    BY ServicesInitial, JobsInitInv
  <1>2. JobsInv /\ [Next]_vars => JobsInv'
    BY StepsProject, JobsStepInv
  <1> QED
    BY <1>1, <1>2, PTL DEF Spec

\* AcksInv, as an invariant of the whole.
LEMMA AcksAlways == Spec => []AcksInv
  <1>1. Init => AcksInv
    BY ServicesInitial, AcksInitInv
  <1>2. AcksInv /\ [Next]_vars => AcksInv'
    BY StepsProject, AcksStepInv
  <1> QED
    BY <1>1, <1>2, PTL DEF Spec

\* VerifyInv, as an invariant of the whole.
LEMMA VerificationAlways == Spec => []VerifyInv
  <1>1. Init => VerifyInv
    BY ServicesInitial, VerificationInitInv
  <1>2. VerifyInv /\ [Next]_vars => VerifyInv'
    BY StepsProject, VerificationStepInv
  <1> QED
    BY <1>1, <1>2, PTL DEF Spec

\* GatewayInv, as an invariant of the whole.
LEMMA GatewayAlways == Spec => []GatewayInv
  <1>1. Init => GatewayInv
    BY ServicesInitial, GatewayInitInv
  <1>2. GatewayInv /\ [Next]_vars => GatewayInv'
    BY StepsProject, GatewayStepInv
  <1> QED
    BY <1>1, <1>2, PTL DEF Spec

\* RetryInv, as an invariant of the whole.
LEMMA RetryAlways == Spec => []RetryInv
  <1>1. Init => RetryInv
    BY ServicesInitial, RetryInitInv
  <1>2. RetryInv /\ [Next]_vars => RetryInv'
    BY StepsProject, RetryStepInv
  <1> QED
    BY <1>1, <1>2, PTL DEF Spec

\* SignInInv, as an invariant of the whole.
LEMMA SignInAlways == Spec => []SignInInv
  <1>1. Init => SignInInv
    BY ServicesInitial, SignInInitInv
  <1>2. SignInInv /\ [Next]_vars => SignInInv'
    BY StepsProject, SignInStepInv
  <1> QED
    BY <1>1, <1>2, PTL DEF Spec

\* AccountsInv, as an invariant of the whole.
LEMMA AccountsAlways == Spec => []AccountsInv
  <1>1. Init => AccountsInv
    BY ServicesInitial, AccountsInitInv
  <1>2. AccountsInv /\ [Next]_vars => AccountsInv'
    BY StepsProject, AccountsStepInv
  <1> QED
    BY <1>1, <1>2, PTL DEF Spec

\* RateInv, as an invariant of the whole.
LEMMA RateAlways == Spec => []RateInv
  <1>1. Init => RateInv
    BY ServicesInitial, RateInitInv
  <1>2. RateInv /\ [Next]_vars => RateInv'
    BY StepsProject, RateStepInv
  <1> QED
    BY <1>1, <1>2, PTL DEF Spec

\* RulesInv, as an invariant of the whole.
LEMMA RulesAlways == Spec => []RulesInv
  <1>1. Init => RulesInv
    BY ServicesInitial, RulesInitInv
  <1>2. RulesInv /\ [Next]_vars => RulesInv'
    BY StepsProject, RulesStepInv
  <1> QED
    BY <1>1, <1>2, PTL DEF Spec

\* TemplatesInv, as an invariant of the whole.
LEMMA TemplatesAlways == Spec => []TemplatesInv
  <1>1. Init => TemplatesInv
    BY ServicesInitial, TemplatesInitInv
  <1>2. TemplatesInv /\ [Next]_vars => TemplatesInv'
    BY StepsProject, TemplatesStepInv
  <1> QED
    BY <1>1, <1>2, PTL DEF Spec

\* AuditInv, as an invariant of the whole.
LEMMA AuditAlways == Spec => []AuditInv
  <1>1. Init => AuditInv
    BY ServicesInitial, AuditInitInv
  <1>2. AuditInv /\ [Next]_vars => AuditInv'
    BY StepsProject, AuditStepInv
  <1> QED
    BY <1>1, <1>2, PTL DEF Spec

\* MemoryInv, as an invariant of the whole.
LEMMA MemoryAlways == Spec => []MemoryInv
  <1>1. Init => MemoryInv
    BY ServicesInitial, MemoryInitImplements
  <1>2. MemoryInv /\ [Next]_vars => MemoryInv'
    BY StepsProject, MemoryStepImplements
  <1> QED
    BY <1>1, <1>2, PTL DEF Spec

\* RenewalsReplace, as an invariant of the whole.
LEMMA RenewalsAlways == Spec => []RenewalsReplace
  <1>1. Init => RenewalsReplace
    BY ServicesInitial, RenewalsInit
  <1>2. IssuanceInv /\ RenewalsReplace /\ [Next]_vars => RenewalsReplace'
    BY StepsProject, RenewalsStep
  <1> QED
    BY <1>1, <1>2, IssuanceAlways, PTL DEF Spec

-----------------------------------------------------------------------------
(* What the runs check, for every instance.                                *)

\* What is good once is spent once, on any number of replicas: a nonce
\* (spendNonce and ClaimACMENonce beside the sweep), a signed request of an
\* agent, a use of an enrolment token, the claim of an order by finalize and
\* the import of a discovered certificate.
THEOREM SpentOnceOnly == Spec => []SpentOnce
  <1>1. NoncesInv /\ FleetInv /\ AcmeInv /\ ScansInv => SpentOnce
    BY DEF SpentOnce, NoncesInv, FleetInv, AcmeInv, ScansInv
  <1> QED
    BY <1>1, NoncesAlways, FleetAlways, AcmeAlways, ScansAlways, PTL

\* Nobody gets a certificate beyond what they proved or were granted: an
\* order of an account that has to prove its names gets a certificate only for
\* names it proved (finalize); a host's names are all permitted by one grant
\* (Issuer.authorise); once its credential was revoked an account is not valid
\* again, unless a request read it before, and no two accounts share a key.
THEOREM AuthorityProved == Spec => []AuthorityIsProved
  <1>1. AcmeInv /\ IssuanceInv /\ AcmeAccountsInv => AuthorityIsProved
    BY AcmeProvesNames DEF AuthorityIsProved, IssuanceInv, AcmeAccountsInv
  <1> QED
    BY <1>1, AcmeAlways, IssuanceAlways, AcmeAccountsAlways, PTL

\* No step runs a schedule before its interval has passed, decides an
\* authorization or an order again that no two requests worked on at once, or
\* removes an agent that is active or revives one that was revoked.
THEOREM EverythingInTurn == Spec => StepsInTurn
  <1>1. SchedulesInv /\ [Next]_vars =>
           [\A r \in Schedulers, s \in Schedules :
               (lastStart'[r][s] # lastStart[r][s] /\ lastStart[r][s].at # Nil /\ s \notin loose)
                  => clock >= lastStart[r][s].at + MinInterval]_schedulesVars
    BY StepsProject, SchedulesKeepPace
  <1>2. AcmeInv /\ [Next]_vars =>
           [\A o \in Orders \ disturbed' :
               /\ order[o].status \in {"valid", "invalid"} => order'[o].status = order[o].status
               /\ \A n \in AcmeNames : authz[o][n] \in {"valid", "invalid"} => authz'[o][n] = authz[o][n]]_acmeVars
    BY StepsProject, AcmeDecidesOnce DEF DecisionStands
  <1>3. FleetInv /\ [Next]_vars =>
           [\A a \in Agents :
               /\ agent[a].status = "ACTIVE" => agent'[a].status # "none"
               /\ agent[a].status = "REVOKED" => agent'[a].status # "ACTIVE"]_fleetVars
    BY StepsProject, FleetRevokesFirst
  <1>4. Spec => PaceKept
    BY <1>1, SchedulesAlways, PTL DEF Spec, PaceKept
  <1>5. Spec => DecidedOnce
    BY <1>2, AcmeAlways, PTL DEF Spec, DecidedOnce
  <1>6. Spec => RevokedBeforeDeleted
    BY <1>3, FleetAlways, PTL DEF Spec, RevokedBeforeDeleted
  <1> QED
    BY <1>4, <1>5, <1>6 DEF StepsInTurn

\* The inventory follows the world, for any number of overlapping scans,
\* checks, syncs and reports. No entry of a log below a monitor's cursor is
\* skipped, one kept back as a precertificate surfaced as its certificate, and
\* the counts add up (Monitor.Check, MarkCTMonitorChecked); a cloud row is
\* marked removed only if the provider lacked the asset or its listing was
\* cut, and an import outlives syncs (Engine.Sync); what a scan found is kept
\* and a replaced certificate is reported (Scanner.execute, reconcile); files
\* and bindings of a host are those of its scans and reports
\* (Inventory.Record, bindingOutcome); a job that succeeded was reported
\* installed, and a wave waits for the one before it (ReportDeploymentResult,
\* ClaimAgentDeploymentJobs).
THEOREM InventoryFollows == Spec => []InventoryFollowsWorld
  <1>1. CTInv => NoEntrySkipped /\ CertificateSurfaces /\ CountAgrees
    BY CTInvMeans DEF CTInv, CTRowsInv
  <1>2. CloudInv => RemovedWasGone /\ ImportSurvivesSync
    BY DEF CloudInv
  <1>3. ScansInv => FoundIsKept /\ ReplacementIsReported
    BY DEF ScansInv
  <1>4. CTInv /\ CloudInv /\ ScansInv /\ ReportsInv /\ JobsInv => InventoryFollowsWorld
    BY <1>1, <1>2, <1>3, ReportsInvMeans, JobsInvMeans DEF InventoryFollowsWorld
  <1> QED
    BY <1>4, CTAlways, CloudAlways, ScansAlways, ReportsAlways, JobsAlways, PTL

\* Alerts reach people once and are silenced only knowingly: a certificate new
\* in a log is announced, and once unless its two entries came in different
\* answers of the index (Monitor.announce), one new in a cloud once
\* (Engine.announce), a silent host once unless two replicas read it before
\* either marked it (GetStaleAgents, MarkAgentStaleAlerted), a host whose jobs
\* keep failing once per job; what is recorded stale is told
\* (Verifier.announceStale); an acknowledgement silences what its author saw,
\* the last one that was not revoked decides, and both stores find the same
\* one (GetActiveAcknowledgement, Dispatcher.silenced).
THEOREM AlertsTold == Spec => []AlertsAreTold
  <1>1. CTInv /\ CloudInv /\ VerifyInv => NewsOnce /\ CloudNewsOnce /\ StaleIsTold
    BY CTInvMeans DEF CloudInv, VerifyInv
  <1>2. CTInv /\ CloudInv /\ VerifyInv /\ FleetInv /\ AcksInv /\ JobsInv => AlertsAreTold
    BY <1>1, FleetTellsOnce, AcksInvMeans, JobsInvMeans DEF AlertsAreTold
  <1> QED
    BY <1>2, CTAlways, CloudAlways, VerificationAlways, FleetAlways, AcksAlways, JobsAlways, PTL

\* Nothing is left over: every open connection to a gateway is owned by its
\* name or by a call that is installing it (Manager.RegisterGateway); a host has
\* one live record for its names and its type of key, unless its requests
\* overlapped or a named or missed certificate was not replaced
\* (Issuer.replaces, Issuer.renewable); an order is
\* not left pending on authorizations that are all valid; and a
\* job that fails until the deadline was tried as often as the budget or the
\* floor allows, waiting no shorter after a further failure (retryAt).
THEOREM NothingIsLeft == Spec => []NothingLeftOver
  <1>1. GatewayInv /\ RenewalsReplace /\ AcmeInv => ConnectionsOwned /\ OneLivePerNames /\ OrderFollowsAuthorizations
    BY DEF GatewayInv, RenewalsReplace, AcmeInv
  <1>2. GatewayInv /\ RenewalsReplace /\ AcmeInv /\ RetryInv => NothingLeftOver
    BY <1>1, RetryInvMeans DEF NothingLeftOver
  <1> QED
    BY <1>2, GatewayAlways, RenewalsAlways, AcmeAlways, RetryAlways, PTL

\* Sign-in is bounded, however requests overlap: a session opened with a
\* password does not outlive it, an address's guesses at passwords of one era
\* stay below the limit and those already under way (AuthHandler.Login,
\* InvalidateUserSessions); the last administrator stays and a demoted account
\* is not promoted again by what a request had read (UpdateUser,
\* UpsertOIDCUser); and in no stretch of time does the limiter let more
\* requests through than its burst and rate allow, whatever the order in which
\* their readings of the clock reach the bucket (RateLimiter.Allow).
THEOREM AccessBounded == Spec => []AccessIsBounded
  <1>1. SignInInv /\ AccountsInv /\ RateInv => AccessIsBounded
    BY SignInSays, AccountsSay, RateInvSays DEF AccessIsBounded
  <1> QED
    BY <1>1, SignInAlways, AccountsAlways, RateAlways, PTL

\* The rules decide what is issued: a template is refused when saved if no key
\* satisfies it (validateTemplateShape), the default key passes the check
\* behind it (defaultKeySize, checkKey), a renewal keeps a key that conforms
\* and raises one that does not to one that does, and without overlapping
\* edits a recorded version names one set of rules.
THEOREM RulesAgree == Spec => []RulesDecide
  <1>1. RulesInv /\ TemplatesInv => RulesDecide
    BY RulesSay, TemplatesSay DEF RulesDecide
  <1> QED
    BY <1>1, RulesAlways, TemplatesAlways, PTL

\* The audit chain shows tampering and nothing else, for any number of
\* replicas, entries and keyrings: the head a transaction of CreateAuditLog
\* chains from is still the head when it commits; a core that has the
\* database's keys finds every stretch of an untouched chain intact
\* (VerifyAuditChain, guardAuditKey); an amended entry, or a missing one, is
\* reported by every complete walk.
THEOREM ChainIsSound == Spec => []ChainHolds
  <1>1. AuditInv => ChainHolds
    BY AuditSays DEF ChainHolds
  <1> QED
    BY <1>1, AuditAlways, PTL

\* Every variable of every service keeps its type.
THEOREM TypesHold == Spec => []TypeOK
  <1>1. NoncesInv => NoncesTypeOK
    BY DEF NoncesInv
  <1>2. AcmeAccountsInv => AcmeAccountsTypeOK
    BY DEF AcmeAccountsInv
  <1>3. IssuanceInv => IssuanceTypeOK
    BY DEF IssuanceInv
  <1>4. ReportsInv => ReportsTypeOK
    BY DEF ReportsInv
  <1>5. AcksInv => AcksTypeOK
    BY DEF AcksInv
  <1>6. SchedulesInv => SchedulesTypeOK
    BY DEF SchedulesInv
  <1>7. CTInv => CTTypeOK
    BY CTInvMeans
  <1>8. CloudInv => CloudTypeOK
    BY DEF CloudInv
  <1>9. MemoryInv => MemoryTypeOK
    BY DEF MemoryInv
  <1>10. ScansInv => ScansTypeOK
    BY DEF ScansInv
  <1>11. VerifyInv => VerificationTypeOK
    BY DEF VerifyInv
  <1>12. GatewayInv => GatewayTypeOK
    BY DEF GatewayInv
  <1>13. AcmeInv => AcmeTypeOK
    BY DEF AcmeInv
  <1>14. FleetInv => FleetTypeOK
    BY DEF FleetInv
  <1>15. RetryInv => RetryTypeOK
    BY DEF RetryInv
  <1>16. JobsInv => AgentJobsTypeOK
    BY DEF JobsInv
  <1>17. SignInInv /\ AccountsInv /\ RateInv => SignInTypeOK /\ AccountsTypeOK /\ RateLimitTypeOK
    BY SignInSays, AccountsSay DEF RateInv
  <1>18. RulesInv /\ TemplatesInv /\ AuditInv => RulesTypeOK /\ TemplatesTypeOK /\ AuditTypeOK
    BY RulesSay, TemplatesSay, AuditSays
  <1>19. /\ NoncesInv /\ AcmeAccountsInv /\ IssuanceInv /\ ReportsInv /\ AcksInv /\ SchedulesInv
        /\ CTInv /\ CloudInv /\ MemoryInv /\ ScansInv /\ VerifyInv /\ GatewayInv /\ AcmeInv
        /\ FleetInv /\ RetryInv /\ JobsInv
        /\ SignInInv /\ AccountsInv /\ RateInv /\ RulesInv /\ TemplatesInv /\ AuditInv
           => TypeOK
    BY <1>1, <1>2, <1>3, <1>4, <1>5, <1>6, <1>7, <1>8, <1>9, <1>10,
       <1>11, <1>12, <1>13, <1>14, <1>15, <1>16, <1>17, <1>18 DEF TypeOK
  <1> QED
    BY <1>19, NoncesAlways, AcmeAccountsAlways, IssuanceAlways, ReportsAlways, AcksAlways, SchedulesAlways, CTAlways, CloudAlways,
       MemoryAlways, ScansAlways, VerificationAlways, GatewayAlways, AcmeAlways, FleetAlways, RetryAlways, JobsAlways,
       SignInAlways, AccountsAlways, RateAlways, RulesAlways, TemplatesAlways, AuditAlways, PTL

\* The renewal queue in memory implements the table of the Store interface:
\* every operation of MemoryStore, whichever worker calls it and however late,
\* is one operation of the table. ClaimRenewalJob's scan leases a ready job
\* before which no ready one goes, unknown expiries and ties included, and
\* EnqueueRenewal never makes a second outstanding job of a certificate.
THEOREM SliceImplementsTable == Spec => ImplementsTable
  <1>1. Init => MemoryInv /\ Table!TableInit
    BY ServicesInitial, MemoryInitImplements
  <1>2. MemoryInv /\ [Next]_vars => MemoryInv' /\ [Table!TableNext]_(Table!tableVars)
    BY StepsProject, MemoryStepImplements
  <1> QED
    BY <1>1, <1>2, PTL DEF Spec, ImplementsTable, Table!TableSpec
=============================================================================
