-------------------------- MODULE InventoryProofs ----------------------------
(***************************************************************************)
(* Inductive invariants of the services that keep the inventory and tell   *)
(* what became of it: CT monitors, cloud syncs, the reports and jobs of    *)
(* agents, acknowledgements of alerts, and how often a failing job is tried.*)
(* ServicesProofs lifts them to the specification that the runs check.     *)
(***************************************************************************)
EXTENDS CTMonitors, CloudSync, AgentReports, AgentJobs, Acknowledgements,
        RetryTimes, FleetProofs, SequenceTheorems, FiniteSetTheorems,
        WellFoundedInduction, TLAPS

-----------------------------------------------------------------------------
(* Logs. A check records what it read before it moves the cursor, and an   *)
(* entry counts once, as found by the check that added it.                 *)

\* A set of naturals that is bounded and not empty has a greatest one.
LEMMA GreatestExists ==
    ASSUME NEW n \in Nat, NEW T \in SUBSET (0..n), T # {}
    PROVE  \E x \in T : \A y \in T : x >= y
  <1> DEFINE D == {n - x : x \in T}
  <1>1. D \in SUBSET Nat /\ D # {}
    <2>1. \A x \in T : x \in 0..n /\ n - x \in Nat
      OBVIOUS
    <2>2. \A d \in D : d \in Nat
      BY <2>1
    <2>3. PICK x \in T : TRUE
      OBVIOUS
    <2>4. n - x \in D
      BY <2>3
    <2> QED
      BY <2>2, <2>4
  <1>2. PICK d \in D : \A e \in D : d <= e
    <2> HIDE DEF D
    <2> QED
      BY <1>1, LeastNatural
  <1>3. PICK x \in T : d = n - x
    OBVIOUS
  <1>4. ASSUME NEW y \in T PROVE x >= y
    <2>1. n - y \in D /\ x \in 0..n /\ y \in 0..n
      OBVIOUS
    <2>2. n - x <= n - y
      BY <1>2, <1>3, <2>1
    <2> QED
      BY <2>1, <2>2
  <1> QED
    BY <1>4

\* Max of a bounded set of naturals is its greatest element.
LEMMA MaxIsGreatest ==
    ASSUME NEW n \in Nat, NEW T \in SUBSET (0..n), T # {}
    PROVE  Max(T) \in T /\ \A y \in T : Max(T) >= y
  BY GreatestExists, Zenon DEF Max

-----------------------------------------------------------------------------
\* An entry of the log is dealt with: it has a row, or an edit of the monitor passed
\* over it.
CTCovered(i) == ctRow[i] # "none" \/ i \in passedOver

CTLogTyped == ctLog \in Seq(LogEntry) /\ Len(ctLog) <= MaxLog

\* A check in hand lags the log, and what it read is recorded before it marks the cursor.
CTChecks ==
    \A k \in Checkers :
        /\ check[k].since <= Len(ctLog)
        /\ \A i \in Ids : check[k].found[i] # "none" => i <= Len(ctLog)
        /\ check[k].at \notin {"mark", "announce"} => check[k].added = {}
        /\ check[k].at = "mark" => \A i \in Ids : check[k].found[i] # "none" => ctRow[i] # "none"
        /\ check[k].at \in {"record", "mark"} => \A i \in Ids : i <= check[k].since => CTCovered(i)

\* A precertificate that a check left aside has its certificate in the same reading.
CTFoundSurface ==
    \A k \in Checkers, i \in Ids : check[k].found[i] = "precert" =>
        \E j \in Ids : /\ j > i /\ j <= Len(ctLog) /\ ctLog[j].serial = ctLog[i].serial
                       /\ check[k].found[j] \in CertificateRow

\* A certificate is added by one check, which has yet to announce it.
CTNewsPending ==
    /\ \A k \in Checkers : \A i \in check[k].added :
          ctRow[i] = check[k].found[i] /\ ctRow[i] # "none" /\ toldOf[i] = 0
    /\ \A k, l \in Checkers : \A i \in check[k].added : i \in check[l].added => k = l
    /\ \A i \in Ids : ctRow[i] = "none" => toldOf[i] = 0

\* Certificates stored, and those whose check has yet to count them.
CTCerts == {i \in Ids : ctRow[i] \in CertificateRow}
CTUncounted == {i \in CTCerts : \E k \in Checkers : check[k].at = "mark" /\ i \in check[k].added}
CTCounted ==
    /\ seenCount <= Cardinality(CTCerts \ CTUncounted)
    /\ ~lostMarks => seenCount = Cardinality(CTCerts \ CTUncounted)

CTTyped ==
    /\ CTLogTyped /\ watched \in Domains
    /\ cursor \in 0..Len(ctLog) /\ seenCount \in Nat
    /\ ctRow \in [Ids -> CTRow] /\ managedSerials \subseteq Serials
    /\ check \in [Checkers -> CheckState]
    /\ toldOf \in [Ids -> Nat] /\ passedOver \subseteq Ids /\ lostNews \subseteq Ids /\ lostMarks \in BOOLEAN

\* An entry is announced at most once, and one that is stored is announced unless
\* its check died: NewsOnce entry by entry.
NewsEach ==
    /\ \A i \in Ids : toldOf[i] <= 1
    /\ \A i \in Ids :
          (ctRow[i] = "unmanaged" /\ i \notin lostNews /\ \A k \in Checkers : i \notin check[k].added)
             => toldOf[i] = 1

\* A serial has one certificate, stored or found, unless its entries were answered
\* apart; what is announced is a certificate.
CTPairs ==
    /\ \A i \in Ids : Certified(i) => i <= Len(ctLog)
    /\ \A i, j \in Ids :
          Certified(i) /\ Certified(j) /\ ctLog[i].serial = ctLog[j].serial => i = j \/ ctLog[i].serial \in apart
    /\ \A i \in Ids : toldOf[i] > 0 => ctRow[i] \in CertificateRow
    /\ apart \subseteq Serials

CTRowsInv ==
    /\ CTTyped /\ CTChecks /\ CTFoundSurface /\ CTNewsPending /\ CTCounted
    /\ NoEntrySkipped /\ NewsEach /\ CertificateSurfaces

CTInv == CTRowsInv /\ CTPairs

\* Logs and checks: initially.
LEMMA CTInitRows == CTInit => CTRowsInv
  <1> SUFFICES ASSUME CTInit PROVE CTRowsInv
    OBVIOUS
  <1> USE CTAssumption
  <1>1. NoCheck \in CheckState /\ \A i \in Ids : NoCheck.found[i] = "none"
    BY DEF NoCheck, CheckState, NoneFound, CTRow, Ids
  <1>2. Len(ctLog) = 0 /\ ctLog \in Seq(LogEntry) /\ watched \in Domains
    BY DEF CTInit
  <1>3. CTTyped
    <2>1. ctRow \in [Ids -> CTRow] /\ toldOf \in [Ids -> Nat]
      BY DEF CTInit, NoneFound, CTRow
    <2>2. check \in [Checkers -> CheckState]
      BY <1>1 DEF CTInit
    <2>3. Len(ctLog) <= MaxLog /\ cursor \in 0..Len(ctLog) /\ seenCount \in Nat
      BY <1>2 DEF CTInit
    <2> QED
      BY <1>2, <2>1, <2>2, <2>3 DEF CTInit, CTTyped, CTLogTyped
  <1>4. CTChecks
    BY <1>1, <1>2 DEF CTInit, CTChecks, NoCheck, CTCovered
  <1>5. CTFoundSurface /\ CTNewsPending
    BY <1>1, <1>2 DEF CTInit, CTFoundSurface, CTNewsPending, NoCheck
  <1>6. CTCounted
    <2>1. CTCerts = {} /\ CTUncounted = {}
      BY DEF CTInit, CTCerts, CTUncounted, NoneFound, CertificateRow
    <2> QED
      BY <2>1, FS_EmptySet DEF CTInit, CTCounted
  <1>7. NoEntrySkipped /\ NewsEach /\ CertificateSurfaces
    BY <1>1, <1>2 DEF CTInit, NoEntrySkipped, NewsEach, CertificateSurfaces, NoneFound
  <1> QED
    BY <1>3, <1>4, <1>5, <1>6, <1>7 DEF CTRowsInv

\* What an answer of the log says of an entry.
LEMMA ClassifiedFound ==
    ASSUME CTLogTyped, NEW ours, NEW since \in Nat
    PROVE  LET answer == Search(watched, since)
               found == Classified(answer, ours)
           IN  /\ found \in [Ids -> CTRow]
               /\ \A i \in Ids : found[i] # "none" => i <= Len(ctLog)
               /\ \A i \in Ids : found[i] = "precert" =>
                     \E j \in Ids : /\ j > i /\ j <= Len(ctLog) /\ ctLog[j].serial = ctLog[i].serial
                                    /\ found[j] \in CertificateRow
  <1> DEFINE answer == Search(watched, since)
             found == Classified(answer, ours)
  <1>1. answer \subseteq DOMAIN ctLog /\ DOMAIN ctLog = 1..Len(ctLog) /\ Len(ctLog) \in Nat /\ Len(ctLog) <= MaxLog
    BY DEF Search, NewestFirst, CTLogTyped
  <1>2. \A i \in Ids : /\ found[i] = "none" <=> i \notin answer
                       /\ found[i] = "precert" <=> i \in answer /\ Precertificate(i, answer)
                       /\ found[i] \in CertificateRow <=> i \in answer /\ ~Precertificate(i, answer)
                       /\ found[i] \in CTRow
    BY DEF Classified, CTRow, CertificateRow
  <1>3. found = [i \in Ids |-> found[i]]
    BY DEF Classified
  <1>4. found \in [Ids -> CTRow]
    <2> HIDE DEF found
    <2> QED
      BY <1>2, <1>3
  <1>5. ASSUME NEW i \in Ids, found[i] = "precert"
        PROVE  \E j \in Ids : /\ j > i /\ j <= Len(ctLog) /\ ctLog[j].serial = ctLog[i].serial
                              /\ found[j] \in CertificateRow
    <2> HIDE DEF answer, found
    <2> DEFINE later == {j \in answer : j > i /\ ctLog[j].serial = ctLog[i].serial}
    <2>1. later # {}
      BY <1>2, <1>5 DEF Precertificate
    <2>2. later \in SUBSET (0..Len(ctLog))
      BY <1>1
    <2>3. PICK j \in later : \A y \in later : j >= y
      <3> HIDE DEF later
      <3> QED
        BY <1>1, <2>1, <2>2, GreatestExists
    <2>4. j \in answer /\ j > i /\ ctLog[j].serial = ctLog[i].serial /\ j \in 1..Len(ctLog)
      BY <1>1, <2>3
    <2>5. ~Precertificate(j, answer)
      <3> SUFFICES ASSUME NEW y \in answer, y > j, ctLog[y].serial = ctLog[j].serial PROVE FALSE
        BY DEF Precertificate
      <3>1. y \in 1..Len(ctLog) /\ i \in Nat /\ y > i
        BY <1>1, <2>4 DEF Ids
      <3>2. y \in later
        BY <2>4, <3>1
      <3> QED
        BY <2>3, <2>4, <3>1, <3>2
    <2>6. j \in Ids
      BY <1>1, <2>4, CTAssumption DEF Ids
    <2> QED
      BY <1>1, <1>2, <2>4, <2>5, <2>6
  <1>6. \A i \in Ids : found[i] # "none" => i <= Len(ctLog)
    BY <1>1, <1>2
  <1> QED
    BY <1>4, <1>5, <1>6

\* The log, the core's serials and the operator's edits disturb nothing.
LEMMA CTWorldStep ==
    ASSUME CTRowsInv,
           \/ \E e \in LogEntry : LogGrows(e)
           \/ \E s \in Serials : BecomesManaged(s)
           \/ \E d \in Domains : UpdateCTMonitor(d)
    PROVE  CTRowsInv'
  <1> USE CTAssumption
  <1>1. ASSUME NEW e \in LogEntry, LogGrows(e) PROVE CTRowsInv'
    <2>1. /\ Len(ctLog') = Len(ctLog) + 1 /\ ctLog' \in Seq(LogEntry) /\ Len(ctLog) \in Nat /\ Len(ctLog') <= MaxLog
          /\ \A i \in 1..Len(ctLog) : ctLog'[i] = ctLog[i]
      BY <1>1 DEF LogGrows, CTRowsInv, CTTyped, CTLogTyped
    <2>2. UNCHANGED <<watched, cursor, seenCount, ctRow, managedSerials, check, toldOf, passedOver, lostNews, lostMarks>>
      BY <1>1 DEF LogGrows
    <2>3. CTTyped'
      BY <2>1, <2>2 DEF CTRowsInv, CTTyped, CTLogTyped
    <2>4. \A k \in Checkers : check[k].since \in Nat
      BY DEF CTRowsInv, CTTyped, CheckState
    <2>5. CTChecks'
      BY <2>1, <2>2, <2>4 DEF CTRowsInv, CTChecks, CTCovered, Ids
    <2>6. CTFoundSurface'
      <3>1. \A i \in Ids : i \in Nat /\ (i <= Len(ctLog) => ctLog'[i] = ctLog[i])
        BY <2>1 DEF Ids
      <3>2. \A k \in Checkers, i \in Ids : check[k].found[i] = "precert" => i <= Len(ctLog)
        BY DEF CTRowsInv, CTChecks
      <3> QED
        BY <2>1, <2>2, <3>1, <3>2 DEF CTRowsInv, CTFoundSurface
    <2>7. CTNewsPending' /\ NewsEach'
      BY <2>2 DEF CTRowsInv, CTNewsPending, NewsEach
    <2>8. CTCounted'
      BY <2>2 DEF CTRowsInv, CTCounted, CTCerts, CTUncounted
    <2>9. NoEntrySkipped'
      <3>1. \A i \in DOMAIN ctLog' : i <= cursor => i \in DOMAIN ctLog
        BY <2>1, <2>3 DEF CTRowsInv, CTTyped, CTLogTyped
      <3> QED
        BY <2>2, <3>1 DEF CTRowsInv, NoEntrySkipped
    <2>10. CertificateSurfaces'
      <3>1. \A i \in Ids : ctRow[i] = "precert" =>
               \E j \in Ids : j > i /\ j <= Len(ctLog) /\ ctLog[j].serial = ctLog[i].serial /\ ctRow[j] \in CertificateRow
        BY DEF CTRowsInv, CertificateSurfaces
      <3>2. \A i, j \in Ids : j > i /\ j <= Len(ctLog) => j <= Len(ctLog') /\ ctLog'[j] = ctLog[j] /\ ctLog'[i] = ctLog[i]
        BY <2>1 DEF Ids
      <3> QED
        BY <2>2, <3>1, <3>2 DEF CertificateSurfaces
    <2> QED
      BY <2>3, <2>5, <2>6, <2>7, <2>8, <2>9, <2>10 DEF CTRowsInv
  <1>2. ASSUME NEW s \in Serials, BecomesManaged(s) PROVE CTRowsInv'
    BY <1>2 DEF BecomesManaged, CTRowsInv, CTTyped, CTLogTyped, CTChecks, CTCovered, CTFoundSurface, CTNewsPending, CTCounted, CTCerts, CTUncounted,
                NoEntrySkipped, NewsEach, CertificateSurfaces
  <1>3. ASSUME NEW d \in Domains, UpdateCTMonitor(d) PROVE CTRowsInv'
    BY <1>3 DEF UpdateCTMonitor, CTRowsInv, CTTyped, CTLogTyped, CTChecks, CTCovered, CTFoundSurface, CTNewsPending, CTCounted, CTCerts, CTUncounted,
                NoEntrySkipped, NewsEach, CertificateSurfaces
  <1> QED
    BY <1>1, <1>2, <1>3

\* A check begins with the cursor and the end of the log (CheckMonitor).
LEMMA CTBegins ==
    ASSUME CTRowsInv, NEW k \in Checkers, BeginCTCheck(k)
    PROVE  CTRowsInv'
  <1> USE CTAssumption
  <1>1. PICK ours \in {managedSerials, {}} :
           check' = [check EXCEPT ![k] = [at |-> "record", since |-> cursor,
                                          found |-> Classified(Search(watched, cursor), ours), added |-> {}]]
    BY DEF BeginCTCheck
  <1>2. /\ UNCHANGED <<ctLog, watched, cursor, seenCount, ctRow, managedSerials, toldOf, passedOver, lostNews, lostMarks>>
        /\ check[k].at = "none"
    BY DEF BeginCTCheck
  <1>3. PICK f : f = Classified(Search(watched, cursor), ours)
    OBVIOUS
  <1>4. CTLogTyped /\ cursor \in Nat /\ cursor <= Len(ctLog) /\ Len(ctLog) \in Nat /\ Len(ctLog) <= MaxLog
    BY DEF CTRowsInv, CTTyped, CTLogTyped
  <1>5. /\ f \in [Ids -> CTRow]
        /\ \A i \in Ids : f[i] # "none" => i <= Len(ctLog)
        /\ \A i \in Ids : f[i] = "precert" =>
              \E j \in Ids : /\ j > i /\ j <= Len(ctLog) /\ ctLog[j].serial = ctLog[i].serial
                             /\ f[j] \in CertificateRow
    BY <1>3, <1>4, ClassifiedFound
  <1>6. PICK new : new = [at |-> "record", since |-> cursor, found |-> f, added |-> {}]
    OBVIOUS
  <1>7. new.at = "record" /\ new.since = cursor /\ new.found = f /\ new.added = {} /\ new \in CheckState
    BY <1>4, <1>5, <1>6 DEF CheckState
  <1>8. check \in [Checkers -> CheckState] /\ check' = [check EXCEPT ![k] = new]
    BY <1>1, <1>3, <1>6 DEF CTRowsInv, CTTyped
  <1>9. \A l \in Checkers : check'[l] = IF l = k THEN new ELSE check[l]
    BY <1>8
  <1>10. check[k].added = {}
    BY <1>2 DEF CTRowsInv, CTChecks
  <1>11. CTTyped'
    BY <1>2, <1>7, <1>8 DEF CTRowsInv, CTTyped, CTLogTyped
  <1>12. CTChecks'
    <2>1. \A i \in Ids : i <= cursor => CTCovered(i)
      BY <1>4 DEF CTRowsInv, NoEntrySkipped, CTCovered, Ids, CTLogTyped
    <2> QED
      BY <1>2, <1>4, <1>5, <1>7, <1>9, <2>1 DEF CTRowsInv, CTChecks, CTCovered
  <1>13. CTFoundSurface'
    BY <1>2, <1>5, <1>7, <1>9 DEF CTRowsInv, CTFoundSurface
  <1>14. CTNewsPending'
    BY <1>2, <1>7, <1>9 DEF CTRowsInv, CTNewsPending
  <1>15. CTCounted'
    <2>1. CTCerts' = CTCerts /\ CTUncounted' = CTUncounted
      BY <1>2, <1>7, <1>9, <1>10 DEF CTCerts, CTUncounted
    <2> QED
      BY <1>2, <2>1 DEF CTRowsInv, CTCounted
  <1>16. NewsEach'
    BY <1>2, <1>7, <1>9, <1>10 DEF CTRowsInv, NewsEach
  <1>17. NoEntrySkipped' /\ CertificateSurfaces'
    BY <1>2 DEF CTRowsInv, NoEntrySkipped, CertificateSurfaces
  <1> QED
    BY <1>11, <1>12, <1>13, <1>14, <1>15, <1>16, <1>17 DEF CTRowsInv

\* A check that ends has nothing found and nothing to announce.
LEMMA CTRecordFailsStep ==
    ASSUME CTRowsInv, NEW k \in Checkers, RecordFails(k)
    PROVE  CTRowsInv'
  <1>1. /\ UNCHANGED <<ctLog, watched, cursor, seenCount, ctRow, managedSerials, toldOf, passedOver, lostNews, lostMarks>>
        /\ check[k].at = "record" /\ check' = [check EXCEPT ![k] = EndedCheck]
    BY DEF RecordFails, CursorAfterFailure
  <1>2. EndedCheck.at = "ended" /\ EndedCheck.since = 0 /\ EndedCheck.found = NoneFound /\ EndedCheck.added = {} /\ EndedCheck \in CheckState
    BY CTAssumption DEF EndedCheck, NoCheck, CheckState, NoneFound, CTRow
  <1>3. \A l \in Checkers : check'[l] = IF l = k THEN EndedCheck ELSE check[l]
    BY <1>1 DEF CTRowsInv, CTTyped
  <1>4. check[k].added = {} /\ \A i \in Ids : NoneFound[i] = "none"
    BY <1>1 DEF CTRowsInv, CTChecks, NoneFound
  <1>5. CTTyped'
    BY <1>1, <1>2 DEF CTRowsInv, CTTyped, CTLogTyped
  <1>6. CTChecks'
    BY <1>1, <1>2, <1>3, <1>4 DEF CTRowsInv, CTChecks, CTCovered, CTTyped, CTLogTyped
  <1>7. CTFoundSurface' /\ CTNewsPending'
    BY <1>1, <1>2, <1>3, <1>4 DEF CTRowsInv, CTFoundSurface, CTNewsPending
  <1>8. CTCounted'
    <2>1. CTCerts' = CTCerts /\ CTUncounted' = CTUncounted
      BY <1>1, <1>2, <1>3, <1>4 DEF CTCerts, CTUncounted
    <2> QED
      BY <1>1, <2>1 DEF CTRowsInv, CTCounted
  <1>9. NewsEach'
    BY <1>1, <1>2, <1>3, <1>4 DEF CTRowsInv, NewsEach
  <1>10. NoEntrySkipped' /\ CertificateSurfaces'
    BY <1>1 DEF CTRowsInv, NoEntrySkipped, CertificateSurfaces
  <1> QED
    BY <1>5, <1>6, <1>7, <1>8, <1>9, <1>10 DEF CTRowsInv

\* Entries are upserted before the cursor moves (UpsertCTCertificates).
LEMMA CTRecordStep ==
    ASSUME CTRowsInv, NEW k \in Checkers, RecordCTCertificates(k)
    PROVE  CTRowsInv'
  <1> DEFINE f == check[k].found
             new == [check[k] EXCEPT !.at = "mark", !.added = NewlyAdded(check[k])]
  <1>1. /\ UNCHANGED <<ctLog, watched, cursor, seenCount, managedSerials, toldOf, passedOver, lostNews, lostMarks>>
        /\ check[k].at = "record"
        /\ check' = [check EXCEPT ![k].at = "mark", ![k].added = NewlyAdded(check[k])]
        /\ ctRow' = [i \in Ids |-> IF ctRow[i] = "none" THEN f[i] ELSE ctRow[i]]
    BY DEF RecordCTCertificates
  <1>0. /\ UNCHANGED <<ctLog, watched, cursor, seenCount, managedSerials, toldOf, passedOver, lostNews, lostMarks>>
        /\ check[k].at = "record"
    BY <1>1
  <1>2. check[k] \in CheckState /\ f \in [Ids -> CTRow] /\ ctRow \in [Ids -> CTRow] /\ check \in [Checkers -> CheckState]
    BY DEF CTRowsInv, CTTyped, CheckState
  <1>3. \A i \in Ids : i \in NewlyAdded(check[k]) <=> f[i] # "none" /\ ctRow[i] = "none"
    BY DEF NewlyAdded, FoundIds
  <1>4. NewlyAdded(check[k]) \subseteq Ids
    BY DEF NewlyAdded, FoundIds
  <1>5. new.at = "mark" /\ new.since = check[k].since /\ new.found = f /\ new.added = NewlyAdded(check[k]) /\ new \in CheckState
    BY <1>2, <1>4 DEF CheckState
  <1>6. \A l \in Checkers : check'[l] = IF l = k THEN new ELSE check[l]
    BY <1>1, <1>2
  <1>7. check' \in [Checkers -> CheckState]
    <2>1. check' = [check EXCEPT ![k] = new]
      BY <1>1, <1>2
    <2> HIDE DEF new
    <2> QED
      BY <1>2, <1>5, <2>1
  <1> HIDE DEF new
  <1>8. check[k].added = {} /\ (\A i \in Ids : f[i] # "none" => i <= Len(ctLog)) /\ check[k].since <= Len(ctLog)
    BY <1>1 DEF CTRowsInv, CTChecks
  <1>9. \A i \in Ids : ctRow'[i] = IF ctRow[i] = "none" THEN f[i] ELSE ctRow[i]
    BY <1>1
  <1>10. CTTyped'
    <2>1. ctRow' \in [Ids -> CTRow]
      BY <1>1, <1>2
    <2> QED
      BY <1>0, <1>7, <2>1 DEF CTRowsInv, CTTyped, CTLogTyped
  <1>11. CTChecks'
    <2>1. \A l \in Checkers : /\ check[l].since <= Len(ctLog)
                              /\ \A i \in Ids : check[l].found[i] # "none" => i <= Len(ctLog)
                              /\ check[l].at \notin {"mark", "announce"} => check[l].added = {}
                              /\ check[l].at = "mark" => \A i \in Ids : check[l].found[i] # "none" => ctRow[i] # "none"
                              /\ check[l].at \in {"record", "mark"} => \A i \in Ids : i <= check[l].since => CTCovered(i)
      BY DEF CTRowsInv, CTChecks
    <2>2. \A i \in Ids : /\ ctRow[i] # "none" => ctRow'[i] # "none"
                         /\ f[i] # "none" => ctRow'[i] # "none"
                         /\ CTCovered(i) => (ctRow'[i] # "none" \/ i \in passedOver)
      BY <1>9 DEF CTCovered
    <2> QED
      BY <1>0, <1>5, <1>6, <2>1, <2>2 DEF CTChecks, CTCovered
  <1>12. CTFoundSurface'
    BY <1>0, <1>5, <1>6 DEF CTRowsInv, CTFoundSurface
  <1>13. CTNewsPending'
    <2>1. /\ \A l \in Checkers : \A i \in check[l].added : ctRow[i] = check[l].found[i] /\ ctRow[i] # "none" /\ toldOf[i] = 0
          /\ \A l, m \in Checkers : \A i \in check[l].added : i \in check[m].added => l = m
          /\ \A i \in Ids : ctRow[i] = "none" => toldOf[i] = 0
      BY DEF CTRowsInv, CTNewsPending
    <2>2. \A l \in Checkers : check[l].added \subseteq Ids
      BY DEF CTRowsInv, CTTyped, CheckState
    <2>3. ASSUME NEW l \in Checkers, NEW i \in check'[l].added
          PROVE  /\ ctRow'[i] = check'[l].found[i] /\ ctRow'[i] # "none" /\ toldOf'[i] = 0
                 /\ \A m \in Checkers : i \in check'[m].added => l = m
      <3>1. CASE l = k
        <4>1. i \in NewlyAdded(check[k]) /\ i \in Ids /\ f[i] # "none" /\ ctRow[i] = "none"
          BY <1>3, <1>4, <1>5, <1>6, <2>3, <3>1
        <4>2. \A m \in Checkers : i \notin check[m].added
          BY <2>1, <4>1
        <4> QED
          BY <1>0, <1>5, <1>6, <1>9, <2>1, <3>1, <4>1, <4>2
      <3>2. CASE l # k
        <4>1. i \in check[l].added /\ i \in Ids /\ check'[l] = check[l]
          BY <1>6, <2>2, <2>3, <3>2
        <4>2. ctRow[i] # "none" /\ i \notin NewlyAdded(check[k])
          BY <1>3, <2>1, <4>1
        <4> QED
          BY <1>0, <1>5, <1>6, <1>9, <2>1, <4>1, <4>2
      <3> QED
        BY <3>1, <3>2
    <2>4. \A i \in Ids : ctRow'[i] = "none" => toldOf'[i] = 0
      BY <1>0, <1>9, <2>1
    <2> QED
      BY <2>3, <2>4 DEF CTNewsPending
  <1>14. CTCounted'
    <2>1. CTCerts' \ CTUncounted' = CTCerts \ CTUncounted
      <3>1. \A i \in Ids : i \in CTCerts' <=> ctRow'[i] \in CertificateRow
        BY DEF CTCerts
      <3>2. \A i \in Ids : i \in CTCerts <=> ctRow[i] \in CertificateRow
        BY DEF CTCerts
      <3>3. \A i \in CTCerts : i \notin NewlyAdded(check[k])
        BY <1>3 DEF CTCerts, CertificateRow
      <3>4. ASSUME NEW i \in Ids PROVE i \in CTCerts' \ CTUncounted' <=> i \in CTCerts \ CTUncounted
        <4>1. CASE ctRow[i] = "none"
          <5>1. i \notin CTCerts
            BY <3>2, <4>1 DEF CertificateRow
          <5>2. i \in CTCerts' => i \in NewlyAdded(check[k])
            BY <1>3, <1>9, <3>1, <4>1 DEF CertificateRow
          <5>3. i \in CTCerts' => i \in CTUncounted'
            BY <1>5, <1>6, <5>2 DEF CTUncounted
          <5> QED
            BY <5>1, <5>3
        <4>2. CASE ctRow[i] # "none"
          <5>1. i \in CTCerts' <=> i \in CTCerts
            BY <1>9, <3>1, <3>2, <4>2
          <5>2. i \notin NewlyAdded(check[k]) /\ check[k].at # "mark"
            BY <1>0, <1>3, <4>2
          <5>3. i \in CTUncounted' <=> i \in CTUncounted
            BY <1>5, <1>6, <5>1, <5>2 DEF CTUncounted
          <5> QED
            BY <5>1, <5>3
        <4> QED
          BY <4>1, <4>2
      <3>5. CTCerts \subseteq Ids /\ CTCerts' \subseteq Ids
        BY DEF CTCerts
      <3> QED
        BY <3>4, <3>5
    <2> QED
      BY <1>0, <2>1 DEF CTRowsInv, CTCounted
  <1>15. NoEntrySkipped'
    <2>1. \A i \in DOMAIN ctLog : i \in Ids
      BY CTAssumption DEF CTRowsInv, CTTyped, CTLogTyped, Ids
    <2> QED
      BY <1>0, <1>9, <2>1 DEF CTRowsInv, NoEntrySkipped
  <1>16. NewsEach'
    <2>1. \A i \in Ids : /\ toldOf[i] <= 1
                         /\ (ctRow[i] = "unmanaged" /\ i \notin lostNews /\ \A l \in Checkers : i \notin check[l].added)
                               => toldOf[i] = 1
      BY DEF CTRowsInv, NewsEach
    <2>2. ASSUME NEW i \in Ids, ctRow'[i] = "unmanaged", i \notin lostNews, \A l \in Checkers : i \notin check'[l].added
          PROVE  toldOf[i] = 1
      <3>1. i \notin NewlyAdded(check[k])
        BY <1>5, <1>6, <2>2
      <3>2. ctRow[i] # "none"
        BY <1>3, <1>9, <2>2, <3>1
      <3>3. \A l \in Checkers : i \notin check[l].added
        BY <1>6, <1>8, <2>2
      <3> QED
        BY <1>9, <2>1, <2>2, <3>2, <3>3
    <2> QED
      BY <1>0, <2>1, <2>2 DEF NewsEach
  <1>17. CertificateSurfaces'
    <2>1. /\ \A i \in Ids : ctRow[i] = "precert" =>
               \E j \in Ids : j > i /\ j <= Len(ctLog) /\ ctLog[j].serial = ctLog[i].serial /\ ctRow[j] \in CertificateRow
          /\ \A i \in Ids : f[i] = "precert" =>
               \E j \in Ids : j > i /\ j <= Len(ctLog) /\ ctLog[j].serial = ctLog[i].serial /\ f[j] \in CertificateRow
      BY DEF CTRowsInv, CertificateSurfaces, CTFoundSurface
    <2>2. ASSUME NEW i \in Ids, ctRow'[i] = "precert"
          PROVE  \E j \in Ids : j > i /\ j <= Len(ctLog) /\ ctLog[j].serial = ctLog[i].serial /\ ctRow'[j] \in CertificateRow
      <3>1. CASE ctRow[i] # "none"
        <4>1. PICK j \in Ids : j > i /\ j <= Len(ctLog) /\ ctLog[j].serial = ctLog[i].serial /\ ctRow[j] \in CertificateRow
          BY <1>9, <2>1, <2>2, <3>1
        <4> QED
          BY <1>9, <4>1 DEF CertificateRow
      <3>2. CASE ctRow[i] = "none"
        <4>1. PICK j \in Ids : j > i /\ j <= Len(ctLog) /\ ctLog[j].serial = ctLog[i].serial /\ f[j] \in CertificateRow
          BY <1>9, <2>1, <2>2, <3>2
        <4>2. CASE ctRow[j] = "none"
          BY <1>9, <4>1, <4>2
        <4>3. CASE ctRow[j] \in CertificateRow
          BY <1>9, <4>1, <4>3
        <4>4. CASE ctRow[j] = "precert"
          <5>1. PICK m \in Ids : m > j /\ m <= Len(ctLog) /\ ctLog[m].serial = ctLog[j].serial /\ ctRow[m] \in CertificateRow
            BY <2>1, <4>4
          <5>2. m > i /\ ctRow'[m] \in CertificateRow
            BY <1>9, <4>1, <5>1 DEF Ids, CertificateRow
          <5> QED
            BY <4>1, <5>1, <5>2
        <4> QED
          BY <1>2, <4>2, <4>3, <4>4 DEF CTRow, CertificateRow
      <3> QED
        BY <3>1, <3>2
    <2> QED
      BY <1>0, <2>2 DEF CertificateSurfaces
  <1> QED
    BY <1>10, <1>11, <1>12, <1>13, <1>14, <1>15, <1>16, <1>17 DEF CTRowsInv

\* What one check has yet to count, counted.
LEMMA CTMarkCounts ==
    ASSUME CTRowsInv, NEW k \in Checkers, check[k].at = "mark"
    PROVE  LET mine == {i \in check[k].added : check[k].found[i] # "precert"}
           IN  /\ mine \subseteq CTUncounted /\ IsFiniteSet(CTCerts) /\ IsFiniteSet(mine)
               /\ Cardinality((CTCerts \ CTUncounted) \cup mine) = Cardinality(CTCerts \ CTUncounted) + Cardinality(mine)
               /\ Cardinality(CTCerts \ CTUncounted) \in Nat /\ Cardinality(mine) \in Nat
               /\ \A i \in CTUncounted \ mine : \E l \in Checkers : l # k /\ check[l].at = "mark" /\ i \in check[l].added
               /\ \A l \in Checkers : l # k => \A i \in check[l].added : i \notin mine
  <1> DEFINE mine == {i \in check[k].added : check[k].found[i] # "precert"}
  <1>1. \A i \in check[k].added : i \in Ids /\ ctRow[i] = check[k].found[i] /\ ctRow[i] # "none" /\ ctRow[i] \in CTRow
    BY DEF CTRowsInv, CTNewsPending, CTTyped, CheckState
  <1>2. mine \subseteq CTUncounted
    BY <1>1 DEF CTUncounted, CTCerts, CTRow, CertificateRow
  <1>3. IsFiniteSet(CTCerts) /\ CTUncounted \subseteq CTCerts
    <2>1. IsFiniteSet(Ids)
      BY FS_Interval, CTAssumption DEF Ids
    <2> QED
      BY <2>1, FS_Subset DEF CTCerts, CTUncounted
  <1>4. IsFiniteSet(mine) /\ IsFiniteSet(CTCerts \ CTUncounted)
    BY <1>2, <1>3, FS_Subset
  <1>5. (CTCerts \ CTUncounted) \cap mine = {}
    BY <1>2
  <1>6. /\ Cardinality((CTCerts \ CTUncounted) \cup mine) = Cardinality(CTCerts \ CTUncounted) + Cardinality(mine) - Cardinality((CTCerts \ CTUncounted) \cap mine)
        /\ Cardinality(CTCerts \ CTUncounted) \in Nat /\ Cardinality(mine) \in Nat
    <2> HIDE DEF mine
    <2> QED
      BY <1>4, FS_Union, FS_CardinalityType
  <1>7. Cardinality((CTCerts \ CTUncounted) \cap mine) = 0
    BY <1>5, FS_EmptySet
  <1>8. ASSUME NEW i \in CTUncounted \ mine
        PROVE  \E l \in Checkers : l # k /\ check[l].at = "mark" /\ i \in check[l].added
    <2>1. PICK l \in Checkers : check[l].at = "mark" /\ i \in check[l].added
      BY DEF CTUncounted
    <2>2. ctRow[i] \in CertificateRow
      BY DEF CTUncounted, CTCerts
    <2>3. l # k
      BY <1>1, <1>8, <2>1, <2>2 DEF CertificateRow
    <2> QED
      BY <2>1, <2>3
  <1>9. \A l \in Checkers : l # k => \A i \in check[l].added : i \notin mine
    BY DEF CTRowsInv, CTNewsPending
  <1> HIDE DEF mine
  <1>10. Cardinality((CTCerts \ CTUncounted) \cup mine) = Cardinality(CTCerts \ CTUncounted) + Cardinality(mine)
    BY <1>6, <1>7
  <1> QED
    BY <1>2, <1>3, <1>4, <1>6, <1>8, <1>9, <1>10 DEF mine

\* A check that leaves the state in which it counts.
LEMMA CTCountsOnce ==
    ASSUME CTRowsInv, NEW k \in Checkers, check[k].at = "mark", ctRow' = ctRow,
           \A l \in Checkers : l # k => check'[l].at = check[l].at /\ check'[l].added = check[l].added,
           check'[k].at # "mark"
    PROVE  /\ Cardinality(CTCerts' \ CTUncounted') = Cardinality(CTCerts \ CTUncounted) + CountAdded(check[k])
           /\ CountAdded(check[k]) \in Nat /\ Cardinality(CTCerts \ CTUncounted) \in Nat
  <1> DEFINE mine == {i \in check[k].added : check[k].found[i] # "precert"}
  <1>1. /\ mine \subseteq CTUncounted
        /\ Cardinality((CTCerts \ CTUncounted) \cup mine) = Cardinality(CTCerts \ CTUncounted) + Cardinality(mine)
        /\ Cardinality(CTCerts \ CTUncounted) \in Nat /\ Cardinality(mine) \in Nat
        /\ \A i \in CTUncounted \ mine : \E l \in Checkers : l # k /\ check[l].at = "mark" /\ i \in check[l].added
        /\ \A l \in Checkers : l # k => \A i \in check[l].added : i \notin mine
    BY CTMarkCounts
  <1>2. CountAdded(check[k]) = Cardinality(mine)
    BY DEF CountAdded
  <1> HIDE DEF mine
  <1>3. CTCerts' = CTCerts
    BY DEF CTCerts
  <1>4. \A i \in CTCerts : i \in CTUncounted' <=> i \in CTUncounted \ mine
    <2>1. ASSUME NEW i \in CTCerts, i \in CTUncounted' PROVE i \in CTUncounted \ mine
      <3>1. PICK l \in Checkers : check'[l].at = "mark" /\ i \in check'[l].added
        BY <2>1 DEF CTUncounted
      <3>2. l # k /\ check[l].at = "mark" /\ i \in check[l].added
        BY <3>1
      <3> QED
        BY <1>1, <3>2 DEF CTUncounted
    <2>2. ASSUME NEW i \in CTCerts, i \in CTUncounted \ mine PROVE i \in CTUncounted'
      <3>1. PICK l \in Checkers : l # k /\ check[l].at = "mark" /\ i \in check[l].added
        BY <1>1, <2>2
      <3> QED
        BY <1>3, <3>1 DEF CTUncounted
    <2> QED
      BY <2>1, <2>2
  <1>5. CTCerts' \ CTUncounted' = (CTCerts \ CTUncounted) \cup mine
    <2>1. CTUncounted \subseteq CTCerts
      BY DEF CTUncounted
    <2> QED
      BY <1>1, <1>3, <1>4, <2>1
  <1> QED
    BY <1>1, <1>2, <1>5

\* A check that goes on to announce.
LEMMA CTMarkStep ==
    ASSUME CTRowsInv, NEW k \in Checkers, MarkCTMonitorChecked(k) \/ MarkCTFails(k)
    PROVE  CTRowsInv'
  <1> DEFINE newest == IF FoundIds(check[k]) = {} THEN cursor ELSE Max(FoundIds(check[k]))
  <1>1. /\ UNCHANGED <<ctLog, watched, ctRow, managedSerials, toldOf, lostNews>>
        /\ check[k].at = "mark"
        /\ \/ /\ cursor' = newest /\ seenCount' = seenCount + CountAdded(check[k]) /\ lostMarks' = lostMarks
              /\ passedOver' = passedOver \cup {i \in DOMAIN ctLog : i > check[k].since /\ i < newest /\ i \notin FoundIds(check[k])}
           \/ cursor' = cursor /\ seenCount' = seenCount /\ lostMarks' = TRUE /\ passedOver' = passedOver
    BY DEF MarkCTMonitorChecked, MarkCTFails
  <1>2. check' = [check EXCEPT ![k].at = "announce"] /\ check \in [Checkers -> CheckState] /\ check[k] \in CheckState
    BY DEF MarkCTMonitorChecked, MarkCTFails, CTRowsInv, CTTyped
  <1>3. /\ check' \in [Checkers -> CheckState] /\ check'[k].at = "announce"
        /\ \A l \in Checkers : /\ check'[l].since = check[l].since /\ check'[l].found = check[l].found /\ check'[l].added = check[l].added
                               /\ l # k => check'[l] = check[l]
    <2>1. PICK new : new = [check[k] EXCEPT !.at = "announce"]
      OBVIOUS
    <2>2. new \in CheckState /\ new.at = "announce" /\ new.since = check[k].since /\ new.found = check[k].found /\ new.added = check[k].added
      BY <1>2, <2>1 DEF CheckState
    <2>3. check' = [check EXCEPT ![k] = new]
      BY <1>2, <2>1
    <2> QED
      BY <1>2, <2>2, <2>3
  <1>4. /\ DOMAIN ctLog = 1..Len(ctLog) /\ Len(ctLog) \in Nat /\ Len(ctLog) <= MaxLog /\ cursor \in 0..Len(ctLog)
        /\ \A i \in DOMAIN ctLog : i \in Ids
    BY CTAssumption DEF CTRowsInv, CTTyped, CTLogTyped, Ids
  <1>5. /\ \A i \in Ids : check[k].found[i] # "none" => ctRow[i] # "none" /\ i <= Len(ctLog)
        /\ \A i \in Ids : i <= check[k].since => CTCovered(i)
        /\ check[k].since \in Nat /\ check[k].since <= Len(ctLog)
    BY <1>1, <1>2 DEF CTRowsInv, CTChecks, CheckState
  <1>6. newest \in 0..Len(ctLog) /\ (FoundIds(check[k]) # {} => newest \in FoundIds(check[k])) /\ \A i \in FoundIds(check[k]) : i \in Ids
    <2>1. \A i \in FoundIds(check[k]) : i \in 0..Len(ctLog) /\ i \in Ids
      BY <1>4, <1>5 DEF FoundIds, Ids
    <2>2. FoundIds(check[k]) # {} => newest \in FoundIds(check[k])
      BY <1>4, <2>1, MaxIsGreatest
    <2> QED
      BY <1>4, <2>1, <2>2
  <1>7. passedOver \subseteq passedOver' /\ passedOver' \subseteq Ids
    BY <1>1, <1>4 DEF CTRowsInv, CTTyped
  <1>8. CountAdded(check[k]) \in Nat /\ Cardinality(CTCerts \ CTUncounted) \in Nat
        /\ Cardinality(CTCerts' \ CTUncounted') = Cardinality(CTCerts \ CTUncounted) + CountAdded(check[k])
    BY <1>1, <1>3, CTCountsOnce
  <1>9. NoEntrySkipped'
    <2>1. CASE cursor' = cursor
      BY <1>1, <1>7, <2>1 DEF CTRowsInv, NoEntrySkipped
    <2>2. CASE cursor' = newest /\ FoundIds(check[k]) # {}
               /\ passedOver' = passedOver \cup {i \in DOMAIN ctLog : i > check[k].since /\ i < newest /\ i \notin FoundIds(check[k])}
      <3>1. ASSUME NEW i \in DOMAIN ctLog, i <= newest PROVE ctRow[i] # "none" \/ i \in passedOver'
        <4>1. CASE i <= check[k].since
          BY <1>4, <1>5, <1>7, <4>1 DEF CTCovered
        <4>2. CASE i \in FoundIds(check[k])
          BY <1>4, <1>5, <4>2 DEF FoundIds
        <4>3. CASE ~(i <= check[k].since) /\ i \notin FoundIds(check[k])
          <5>1. i # newest
            BY <1>6, <2>2, <4>3
          <5>2. i > check[k].since /\ i < newest
            BY <1>4, <1>5, <1>6, <3>1, <4>3, <5>1
          <5> QED
            BY <2>2, <4>3, <5>2
        <4> QED
          BY <4>1, <4>2, <4>3
      <3> HIDE DEF newest
      <3> QED
        BY <1>1, <2>2, <3>1 DEF NoEntrySkipped
    <2>3. CASE cursor' = newest /\ FoundIds(check[k]) = {}
      BY <2>1, <2>3
    <2> QED
      BY <1>1, <2>1, <2>2, <2>3
  <1>10. cursor' \in 0..Len(ctLog) /\ lostMarks' \in BOOLEAN /\ seenCount' \in Nat
    <2>1. seenCount \in Nat /\ lostMarks \in BOOLEAN
      BY DEF CTRowsInv, CTTyped
    <2>2. cursor' \in {cursor, newest} /\ seenCount' \in {seenCount, seenCount + CountAdded(check[k])} /\ lostMarks' \in {lostMarks, TRUE}
      BY <1>1
    <2>3. cursor' \in 0..Len(ctLog)
      BY <1>4, <1>6, <2>2
    <2>4. seenCount' \in Nat
      BY <1>8, <2>1, <2>2
    <2> QED
      BY <2>1, <2>2, <2>3, <2>4
  <1>11. CTTyped'
    BY <1>1, <1>3, <1>7, <1>10 DEF CTRowsInv, CTTyped, CTLogTyped
  <1>12. CTChecks'
    <2>1. \A l \in Checkers : check'[l].at = "mark" => check[l].at = "mark"
      BY <1>3
    <2>2. \A l \in Checkers : check'[l].at \in {"record", "mark"} => check[l].at = check'[l].at
      BY <1>3
    <2>3. \A l \in Checkers : check'[l].at \notin {"mark", "announce"} => check[l].at \notin {"mark", "announce"}
      BY <1>3
    <2>4. UNCHANGED <<ctLog, ctRow>>
      BY <1>1
    <2> QED
      BY <1>3, <1>7, <2>1, <2>2, <2>3, <2>4 DEF CTRowsInv, CTChecks, CTCovered
  <1>13. CTFoundSurface' /\ CTNewsPending'
    BY <1>1, <1>3 DEF CTRowsInv, CTFoundSurface, CTNewsPending
  <1>14. CTCounted'
    <2>1. seenCount \in Nat
      BY DEF CTRowsInv, CTTyped
    <2>2. \/ seenCount' = seenCount + CountAdded(check[k]) /\ lostMarks' = lostMarks
          \/ seenCount' = seenCount /\ lostMarks' = TRUE
      BY <1>1
    <2>3. seenCount <= Cardinality(CTCerts \ CTUncounted) /\ (~lostMarks => seenCount = Cardinality(CTCerts \ CTUncounted))
      BY DEF CTRowsInv, CTCounted
    <2>4. /\ seenCount' <= Cardinality(CTCerts \ CTUncounted) + CountAdded(check[k])
          /\ ~lostMarks' => seenCount' = Cardinality(CTCerts \ CTUncounted) + CountAdded(check[k])
      BY <1>8, <2>1, <2>2, <2>3
    <2> QED
      BY <1>8, <2>4 DEF CTCounted
  <1>15. NewsEach' /\ CertificateSurfaces'
    BY <1>1, <1>3 DEF CTRowsInv, NewsEach, CertificateSurfaces
  <1> QED
    BY <1>9, <1>11, <1>12, <1>13, <1>14, <1>15 DEF CTRowsInv

\* A check that ends, announced or not.
LEMMA CTEndStep ==
    ASSUME CTRowsInv, NEW k \in Checkers, AnnounceCT(k) \/ CheckDies(k)
    PROVE  CTRowsInv'
  <1>1. /\ UNCHANGED <<ctLog, watched, cursor, seenCount, ctRow, managedSerials, passedOver>>
        /\ check[k].at \in {"mark", "announce"}
        /\ \/ /\ check[k].at = "announce" /\ lostNews' = lostNews /\ lostMarks' = lostMarks
              /\ toldOf' = [i \in Ids |-> IF i \in check[k].added /\ check[k].found[i] = "unmanaged" THEN toldOf[i] + 1 ELSE toldOf[i]]
           \/ /\ toldOf' = toldOf /\ lostNews' = lostNews \cup check[k].added
              /\ lostMarks' = (lostMarks \/ (check[k].at = "mark" /\ check[k].added # {}))
    BY DEF AnnounceCT, CheckDies
  <1>2. EndedCheck.at = "ended" /\ EndedCheck.since = 0 /\ EndedCheck.found = NoneFound /\ EndedCheck.added = {} /\ EndedCheck \in CheckState
    BY CTAssumption DEF EndedCheck, NoCheck, CheckState, NoneFound, CTRow
  <1>3. check' \in [Checkers -> CheckState] /\ \A l \in Checkers : check'[l] = IF l = k THEN EndedCheck ELSE check[l]
    <2>1. check' = [check EXCEPT ![k] = EndedCheck] /\ check \in [Checkers -> CheckState]
      BY DEF AnnounceCT, CheckDies, CTRowsInv, CTTyped
    <2> QED
      BY <1>2, <2>1
  <1>4. check[k].added \subseteq Ids /\ \A i \in Ids : NoneFound[i] = "none"
    BY DEF CTRowsInv, CTTyped, CheckState, NoneFound
  <1>5. /\ \A l \in Checkers : \A i \in check[l].added : ctRow[i] = check[l].found[i] /\ ctRow[i] # "none" /\ toldOf[i] = 0
        /\ \A l, m \in Checkers : \A i \in check[l].added : i \in check[m].added => l = m
        /\ \A i \in Ids : ctRow[i] = "none" => toldOf[i] = 0
        /\ toldOf \in [Ids -> Nat] /\ lostNews \subseteq Ids /\ lostMarks \in BOOLEAN
    BY DEF CTRowsInv, CTNewsPending, CTTyped
  <1>6. /\ toldOf' \in [Ids -> Nat] /\ lostNews' \subseteq Ids /\ lostMarks' \in BOOLEAN
        /\ \A i \in Ids : i \notin check[k].added => toldOf'[i] = toldOf[i]
        /\ \A i \in check[k].added : toldOf'[i] <= 1 /\ (i \notin lostNews' /\ ctRow[i] = "unmanaged" => toldOf'[i] = 1)
        /\ lostNews \subseteq lostNews'
    <2>1. CASE /\ lostNews' = lostNews /\ lostMarks' = lostMarks
               /\ toldOf' = [i \in Ids |-> IF i \in check[k].added /\ check[k].found[i] = "unmanaged" THEN toldOf[i] + 1 ELSE toldOf[i]]
      <3>1. \A i \in Ids : toldOf[i] \in Nat /\ toldOf'[i] = IF i \in check[k].added /\ check[k].found[i] = "unmanaged" THEN toldOf[i] + 1 ELSE toldOf[i]
        BY <1>5, <2>1
      <3>2. toldOf' \in [Ids -> Nat]
        BY <1>5, <2>1
      <3> QED
        BY <1>4, <1>5, <2>1, <3>1, <3>2
    <2>2. CASE toldOf' = toldOf /\ lostNews' = lostNews \cup check[k].added /\ lostMarks' = (lostMarks \/ (check[k].at = "mark" /\ check[k].added # {}))
      BY <1>4, <1>5, <2>2
    <2> QED
      BY <1>1, <2>1, <2>2
  <1>7. CTTyped'
    BY <1>1, <1>3, <1>6 DEF CTRowsInv, CTTyped, CTLogTyped
  <1>8. CTChecks'
    <2>1. ctLog' = ctLog /\ ctRow' = ctRow /\ passedOver' = passedOver /\ Len(ctLog) \in Nat
      BY <1>1 DEF CTRowsInv, CTTyped, CTLogTyped
    <2> QED
      BY <1>2, <1>3, <1>4, <2>1 DEF CTRowsInv, CTChecks, CTCovered
  <1>9. CTFoundSurface'
    BY <1>1, <1>2, <1>3, <1>4 DEF CTRowsInv, CTFoundSurface
  <1>10. CTNewsPending'
    <2>1. ctRow' = ctRow
      BY <1>1
    <2>2. ASSUME NEW l \in Checkers, NEW i \in check'[l].added
          PROVE  /\ ctRow'[i] = check'[l].found[i] /\ ctRow'[i] # "none" /\ toldOf'[i] = 0
                 /\ \A m \in Checkers : i \in check'[m].added => l = m
      <3>1. l # k /\ check'[l] = check[l]
        BY <1>2, <1>3, <2>2
      <3>2. i \notin check[k].added /\ i \in Ids
        BY <1>5, <2>2, <3>1 DEF CTRowsInv, CTTyped, CheckState
      <3>3. toldOf'[i] = 0 /\ ctRow[i] = check[l].found[i] /\ ctRow[i] # "none"
        BY <1>5, <1>6, <2>2, <3>1, <3>2
      <3>4. \A m \in Checkers : i \in check'[m].added => l = m
        BY <1>2, <1>3, <1>5, <2>2, <3>1
      <3> QED
        BY <2>1, <3>1, <3>3, <3>4
    <2>3. \A i \in Ids : ctRow[i] = "none" => toldOf'[i] = 0
      BY <1>5, <1>6
    <2> QED
      BY <2>1, <2>2, <2>3 DEF CTNewsPending
  <1>11. CTCounted'
    <2>1. CASE check[k].at = "announce"
      <3>1. CTCerts' = CTCerts /\ CTUncounted' = CTUncounted
        BY <1>1, <1>2, <1>3, <2>1 DEF CTCerts, CTUncounted
      <3>2. ~lostMarks' => ~lostMarks
        BY <1>1, Zenon
      <3>3. seenCount' = seenCount
        BY <1>1
      <3> QED
        BY <3>1, <3>2, <3>3 DEF CTRowsInv, CTCounted
    <2>2. CASE check[k].at = "mark"
      <3>1. /\ Cardinality(CTCerts' \ CTUncounted') = Cardinality(CTCerts \ CTUncounted) + CountAdded(check[k])
            /\ CountAdded(check[k]) \in Nat /\ Cardinality(CTCerts \ CTUncounted) \in Nat
        BY <1>1, <1>2, <1>3, <2>2, CTCountsOnce
      <3>2. ASSUME check[k].added = {} PROVE CountAdded(check[k]) = 0
        <4>1. {i \in check[k].added : check[k].found[i] # "precert"} = {}
          BY <3>2
        <4> QED
          BY <4>1, FS_EmptySet DEF CountAdded
      <3>3. seenCount \in Nat /\ seenCount' = seenCount /\ (~lostMarks' => ~lostMarks /\ check[k].added = {})
        <4>1. lostMarks' = (lostMarks \/ (check[k].at = "mark" /\ check[k].added # {}))
          BY <1>1, <2>2
        <4>2. ~lostMarks' => ~lostMarks /\ check[k].added = {}
          BY <2>2, <4>1, Zenon
        <4> QED
          BY <1>1, <4>2 DEF CTRowsInv, CTTyped
      <3>4. seenCount <= Cardinality(CTCerts \ CTUncounted) /\ (~lostMarks => seenCount = Cardinality(CTCerts \ CTUncounted))
        BY DEF CTRowsInv, CTCounted
      <3>5. /\ seenCount' <= Cardinality(CTCerts \ CTUncounted) + CountAdded(check[k])
            /\ ~lostMarks' => seenCount' = Cardinality(CTCerts \ CTUncounted) + CountAdded(check[k])
        BY <3>1, <3>2, <3>3, <3>4
      <3> QED
        BY <3>1, <3>5 DEF CTCounted
    <2> QED
      BY <1>1, <2>1, <2>2
  <1>12. NewsEach'
    <2>1. ctRow' = ctRow
      BY <1>1
    <2>2. \A i \in Ids : /\ toldOf[i] <= 1
                         /\ (ctRow[i] = "unmanaged" /\ i \notin lostNews /\ \A l \in Checkers : i \notin check[l].added)
                               => toldOf[i] = 1
      BY DEF CTRowsInv, NewsEach
    <2>3. \A i \in Ids : toldOf'[i] <= 1
      BY <1>6, <2>2
    <2>4. ASSUME NEW i \in Ids, ctRow[i] = "unmanaged", i \notin lostNews', \A l \in Checkers : i \notin check'[l].added
          PROVE  toldOf'[i] = 1
      <3>1. CASE i \in check[k].added
        BY <1>6, <2>4, <3>1
      <3>2. CASE i \notin check[k].added
        <4>1. \A l \in Checkers : i \notin check[l].added
          BY <1>3, <2>4, <3>2
        <4> QED
          BY <1>6, <2>2, <2>4, <3>2, <4>1
      <3> QED
        BY <3>1, <3>2
    <2> QED
      BY <2>1, <2>3, <2>4 DEF NewsEach
  <1>13. NoEntrySkipped' /\ CertificateSurfaces'
    BY <1>1 DEF CTRowsInv, NoEntrySkipped, CertificateSurfaces
  <1> QED
    BY <1>7, <1>8, <1>9, <1>10, <1>11, <1>12, <1>13 DEF CTRowsInv

\* The rows, the cursor and the count under every step.
LEMMA CTStepRows == CTRowsInv /\ [CTNext]_ctVars => CTRowsInv'
  <1>1. ASSUME CTRowsInv, CTNext PROVE CTRowsInv'
    <2>1. ASSUME \/ \E e \in LogEntry : LogGrows(e)
                 \/ \E s \in Serials : BecomesManaged(s)
                 \/ \E d \in Domains : UpdateCTMonitor(d)
          PROVE  CTRowsInv'
      BY <1>1, <2>1, CTWorldStep
    <2>2. ASSUME NEW k \in Checkers,
                 \/ BeginCTCheck(k) \/ RecordCTCertificates(k) \/ RecordFails(k)
                 \/ MarkCTMonitorChecked(k) \/ MarkCTFails(k) \/ AnnounceCT(k) \/ CheckDies(k)
          PROVE  CTRowsInv'
      <3>1. BeginCTCheck(k) => CTRowsInv'
        BY <1>1, CTBegins
      <3>2. RecordCTCertificates(k) => CTRowsInv'
        BY <1>1, CTRecordStep
      <3>3. RecordFails(k) => CTRowsInv'
        BY <1>1, CTRecordFailsStep
      <3>4. MarkCTMonitorChecked(k) \/ MarkCTFails(k) => CTRowsInv'
        BY <1>1, CTMarkStep
      <3>5. AnnounceCT(k) \/ CheckDies(k) => CTRowsInv'
        BY <1>1, CTEndStep
      <3> QED
        BY <2>2, <3>1, <3>2, <3>3, <3>4, <3>5
    <2> QED
      BY <1>1, <2>1, <2>2 DEF CTNext
  <1>2. ASSUME CTRowsInv, UNCHANGED ctVars PROVE CTRowsInv'
    BY <1>2 DEF ctVars, CTRowsInv, CTTyped, CTLogTyped, CTChecks, CTCovered, CTFoundSurface, CTNewsPending, CTCounted, CTCerts, CTUncounted,
                NoEntrySkipped, NewsEach, CertificateSurfaces
  <1> QED
    BY <1>1, <1>2

\* Steps that certify no entry that was not, and announce certificates only.
LEMMA PairsKept ==
    ASSUME CTPairs, UNCHANGED <<ctLog, apart>>, \A i \in Ids : Certified(i)' => Certified(i),
           \A i \in Ids : toldOf'[i] > 0 => ctRow'[i] \in CertificateRow
    PROVE  CTPairs'
  BY DEF CTPairs

\* An answer certifies one entry of a serial; if another was certified before,
\* the serial's entries have come apart.
LEMMA CTBeginsPairs ==
    ASSUME CTInv, NEW k \in Checkers, BeginCTCheck(k)
    PROVE  CTPairs'
  <1>1. PICK answer : answer = Search(watched, cursor)
    OBVIOUS
  <1>2. PICK ours \in {managedSerials, {}} :
           check' = [check EXCEPT ![k] = [at |-> "record", since |-> cursor, found |-> Classified(answer, ours), added |-> {}]]
    BY <1>1 DEF BeginCTCheck
  <1>3. UNCHANGED <<ctLog, ctRow, toldOf>> /\ apart' = apart \cup CameApart(answer)
    BY <1>1 DEF BeginCTCheck
  <1>4. CTLogTyped /\ DOMAIN ctLog = 1..Len(ctLog) /\ Len(ctLog) \in Nat /\ check \in [Checkers -> CheckState]
    BY DEF CTInv, CTRowsInv, CTTyped, CTLogTyped
  <1>5. answer \subseteq DOMAIN ctLog
    BY <1>1 DEF Search, NewestFirst
  <1>6. ASSUME NEW i \in Ids, Certified(i)', ~Certified(i) PROVE i \in answer /\ ~Precertificate(i, answer)
    <2>1. PICK l \in Checkers : check'[l].found[i] \in CertificateRow
      BY <1>3, <1>6 DEF Certified
    <2>2. check'[k].found = Classified(answer, ours) /\ \A m \in Checkers \ {k} : check'[m] = check[m]
      BY <1>2, <1>4
    <2>3. Classified(answer, ours)[i] \in CertificateRow
      BY <1>6, <2>1, <2>2 DEF Certified
    <2> QED
      BY <2>3 DEF Classified, CertificateRow
  <1>7. /\ \A i \in Ids : Certified(i) => i <= Len(ctLog)
        /\ \A i, j \in Ids :
              Certified(i) /\ Certified(j) /\ ctLog[i].serial = ctLog[j].serial => i = j \/ ctLog[i].serial \in apart
        /\ \A i \in Ids : toldOf[i] > 0 => ctRow[i] \in CertificateRow
        /\ apart \subseteq Serials
    BY DEF CTInv, CTPairs
  <1>8. \A i \in Ids : i \in Nat /\ i > 0
    BY DEF Ids
  <1>9. \A i \in Ids : Certified(i)' => i <= Len(ctLog)
    BY <1>4, <1>5, <1>6, <1>7
  <1>10. \A i \in Ids : Certified(i)' => i \in DOMAIN ctLog
    BY <1>4, <1>8, <1>9
  <1>11. ASSUME NEW i \in Ids, NEW j \in Ids, Certified(i)', ~Certified(i), Certified(j)', i # j,
                ctLog[i].serial = ctLog[j].serial
         PROVE  ctLog[i].serial \in apart'
    <2>1. CASE Certified(j)
      <3>1. i \in answer /\ ~Precertificate(i, answer) /\ j \in DOMAIN ctLog \ {i}
        BY <1>6, <1>10, <1>11
      <3> QED
        BY <1>3, <1>11, <2>1, <3>1 DEF CameApart
    <2>2. CASE ~Certified(j)
      <3>1. i \in answer /\ ~Precertificate(i, answer) /\ j \in answer /\ ~Precertificate(j, answer)
        BY <1>6, <1>11, <2>2
      <3>2. i > j \/ j > i
        BY <1>8, <1>11
      <3> QED
        BY <1>11, <3>1, <3>2 DEF Precertificate
    <2> QED
      BY <2>1, <2>2
  <1>12. ASSUME NEW i \in Ids, NEW j \in Ids, Certified(i)', Certified(j)', ctLog[i].serial = ctLog[j].serial, i # j
         PROVE  ctLog[i].serial \in apart'
    BY <1>3, <1>7, <1>11, <1>12
  <1>13. apart' \subseteq Serials
    <2>1. \A i \in DOMAIN ctLog : ctLog[i] \in LogEntry
      BY <1>4 DEF CTLogTyped
    <2>2. \A i \in DOMAIN ctLog : ctLog[i].serial \in Serials
      BY <2>1 DEF LogEntry
    <2> QED
      BY <1>3, <1>5, <1>7, <2>2 DEF CameApart
  <1> QED
    BY <1>3, <1>7, <1>9, <1>12, <1>13 DEF CTPairs

\* Every other step of a check, and the world's.
LEMMA CTStepPairs ==
    ASSUME CTInv, [CTNext]_ctVars
    PROVE  CTPairs'
  <1> USE DEF CTInv
  <1>0. /\ ctRow \in [Ids -> CTRow] /\ toldOf \in [Ids -> Nat]
        /\ check \in [Checkers -> CheckState] /\ \A k \in Checkers : check[k] \in CheckState
        /\ \A i \in Ids : toldOf[i] > 0 => ctRow[i] \in CertificateRow
    BY DEF CTRowsInv, CTTyped, CTPairs
  <1>a. CertificateRow = {"managed", "unmanaged"} /\ \A i \in Ids : NoneFound[i] \notin CertificateRow
    BY DEF CertificateRow, NoneFound
  <1>1. ASSUME UNCHANGED <<ctLog, ctRow, check, toldOf, apart>> PROVE CTPairs'
    BY <1>1, <1>0, PairsKept DEF Certified
  <1>2. ASSUME NEW e \in LogEntry, LogGrows(e) PROVE CTPairs'
    <2>1. /\ UNCHANGED <<ctRow, check, toldOf, apart>> /\ \A i \in 1..Len(ctLog) : ctLog'[i] = ctLog[i]
          /\ Len(ctLog) \in Nat /\ Len(ctLog') = Len(ctLog) + 1
      BY <1>2 DEF LogGrows, CTRowsInv, CTTyped, CTLogTyped
    <2>2. \A i \in Ids : Certified(i)' <=> Certified(i)
      BY <2>1 DEF Certified
    <2>3. \A i \in Ids : Certified(i) => i \in 1..Len(ctLog)
      BY <2>1 DEF CTPairs, Ids
    <2>4. \A i \in Ids : Certified(i)' => ctLog'[i] = ctLog[i] /\ i <= Len(ctLog')
      BY <2>1, <2>2, <2>3
    <2> QED
      BY <2>1, <2>2, <2>4 DEF CTPairs
  <1>3. ASSUME NEW k \in Checkers, RecordCTCertificates(k) PROVE CTPairs'
    <2>1. UNCHANGED <<ctLog, toldOf, apart>>
          /\ \A i \in Ids : ctRow'[i] = IF ctRow[i] = "none" THEN check[k].found[i] ELSE ctRow[i]
      BY <1>3 DEF RecordCTCertificates
    <2>2. \A l \in Checkers : check'[l].found = check[l].found
      BY <1>0, <1>3 DEF RecordCTCertificates, CheckState
    <2>3. \A i \in Ids : Certified(i)' => Certified(i)
      BY <2>1, <2>2 DEF Certified
    <2>4. \A i \in Ids : toldOf'[i] > 0 => ctRow'[i] \in CertificateRow
      BY <1>0, <1>a, <2>1
    <2> QED
      BY <2>1, <2>3, <2>4, PairsKept
  <1>4. ASSUME NEW k \in Checkers, RecordFails(k) \/ CheckDies(k) \/ AnnounceCT(k) PROVE CTPairs'
    <2>1. UNCHANGED <<ctLog, ctRow, apart>> /\ check' = [check EXCEPT ![k] = EndedCheck]
      BY <1>4 DEF RecordFails, CheckDies, AnnounceCT
    <2>2. EndedCheck.found = NoneFound
      BY DEF EndedCheck, NoCheck
    <2>3. \A l \in Checkers : check'[l] = IF l = k THEN EndedCheck ELSE check[l]
      BY <1>0, <2>1
    <2>4. \A i \in Ids : Certified(i)' => Certified(i)
      BY <1>a, <2>1, <2>2, <2>3 DEF Certified
    <2>5. \A i \in Ids : toldOf'[i] > 0 => ctRow[i] \in CertificateRow
      <3>1. CASE toldOf' = toldOf
        BY <1>0, <3>1
      <3>2. CASE AnnounceCT(k)
        <4>1. ASSUME NEW i \in Ids, toldOf'[i] > 0 PROVE ctRow[i] \in CertificateRow
          <5>1. toldOf'[i] = IF i \in check[k].added /\ check[k].found[i] = "unmanaged" THEN toldOf[i] + 1 ELSE toldOf[i]
            BY <1>0, <3>2 DEF AnnounceCT
          <5>2. i \in check[k].added => ctRow[i] = check[k].found[i]
            BY DEF CTRowsInv, CTNewsPending
          <5> QED
            BY <1>0, <1>a, <4>1, <5>1, <5>2
        <4> QED
          BY <4>1
      <3> QED
        BY <1>4, <3>1, <3>2 DEF RecordFails, CheckDies
    <2> QED
      BY <2>1, <2>4, <2>5, PairsKept
  <1>5. ASSUME NEW k \in Checkers, MarkCTMonitorChecked(k) \/ MarkCTFails(k) PROVE CTPairs'
    <2>1. UNCHANGED <<ctLog, ctRow, toldOf, apart>> /\ check' = [check EXCEPT ![k].at = "announce"]
      BY <1>5 DEF MarkCTMonitorChecked, MarkCTFails
    <2>2. \A l \in Checkers : check'[l].found = check[l].found
      BY <1>0, <2>1 DEF CheckState
    <2>3. \A i \in Ids : Certified(i)' => Certified(i)
      BY <2>1, <2>2 DEF Certified
    <2> QED
      BY <1>0, <2>1, <2>3, PairsKept
  <1>6. (\E s \in Serials : BecomesManaged(s)) \/ (\E d \in Domains : UpdateCTMonitor(d)) \/ UNCHANGED ctVars
           => UNCHANGED <<ctLog, ctRow, check, toldOf, apart>>
    BY DEF BecomesManaged, UpdateCTMonitor, ctVars
  <1> QED
    BY <1>1, <1>2, <1>3, <1>4, <1>5, <1>6, CTBeginsPairs DEF CTNext

\* Logs and checks: initially.
LEMMA CTInitInv == CTInit => CTInv
  <1>1. CTInit => CTPairs
    BY DEF CTInit, CTPairs, Certified, CertificateRow, NoCheck, NoneFound
  <1> QED
    BY <1>1, CTInitRows DEF CTInv

\* The inductive step of the CT monitors.
LEMMA CTStepInv == CTInv /\ [CTNext]_ctVars => CTInv'
  <1>1. CTInv /\ [CTNext]_ctVars => CTRowsInv'
    BY CTStepRows DEF CTInv
  <1> QED
    BY <1>1, CTStepPairs DEF CTInv

\* The certificates behind the stored entries are as many as those entries, or
\* fewer if some were answered apart.
LEMMA StoredCounts ==
    ASSUME CTInv
    PROVE  /\ Cardinality(CertificatesStored) <= Cardinality(CTCerts)
           /\ apart = {} => Cardinality(CertificatesStored) = Cardinality(CTCerts)
  <1> DEFINE serialOf == [i \in CTCerts |-> ctLog[i].serial]
  <1>1. IsFiniteSet(CTCerts)
    <2>1. IsFiniteSet(Ids)
      BY FS_Interval, CTAssumption DEF Ids
    <2> QED
      BY <2>1, FS_Subset DEF CTCerts
  <1>2. \A i \in CTCerts : i \in Ids /\ Certified(i) /\ ctRow[i] \in CertificateRow
    BY DEF CTCerts, Certified
  <1>3. \A i \in CTCerts : i \in DOMAIN ctLog
    BY <1>2 DEF CTInv, CTPairs, CTRowsInv, CTTyped, CTLogTyped, Ids
  <1>4. \A i \in DOMAIN ctLog : ctRow[i] \in CertificateRow => i \in CTCerts
    BY CTAssumption DEF CTInv, CTRowsInv, CTTyped, CTLogTyped, CTCerts, Ids
  <1>5. CertificatesStored = {ctLog[i].serial : i \in CTCerts}
    BY <1>2, <1>3, <1>4 DEF CertificatesStored
  <1>6. serialOf \in Surjection(CTCerts, CertificatesStored)
    BY <1>5 DEF Surjection
  <1>7. ASSUME apart = {} PROVE serialOf \in Injection(CTCerts, CertificatesStored)
    <2>1. \A i, j \in CTCerts : serialOf[i] = serialOf[j] => i = j
      BY <1>2, <1>7 DEF CTInv, CTPairs
    <2>2. serialOf \in [CTCerts -> CertificatesStored]
      BY <1>5
    <2>3. DOMAIN serialOf = CTCerts
      OBVIOUS
    <2> HIDE DEF serialOf
    <2> QED
      BY <2>1, <2>2, <2>3 DEF Injection, IsInjective
  <1> HIDE DEF serialOf
  <1> QED
    BY <1>1, <1>6, <1>7, FS_Surjection

\* What CTInv says of the monitor's count, of its news and of its types.
LEMMA CTInvMeans == CTInv => CTTypeOK /\ CountAgrees /\ NewsOnce
  <1> SUFFICES ASSUME CTInv PROVE CTTypeOK /\ CountAgrees /\ NewsOnce
    OBVIOUS
  <1>0. CTRowsInv /\ CTPairs
    BY DEF CTInv
  <1>1. CountAgrees
    <2> SUFFICES ASSUME ~lostMarks, \A k \in Checkers : check[k].at # "mark"
                 PROVE  /\ seenCount >= Cardinality(CertificatesStored)
                        /\ apart = {} => seenCount = Cardinality(CertificatesStored)
      BY DEF CountAgrees
    <2>1. CTUncounted = {}
      BY DEF CTUncounted
    <2>2. CTCerts \ CTUncounted = CTCerts
      BY <2>1
    <2>3. seenCount = Cardinality(CTCerts) /\ seenCount \in Nat
      BY <1>0, <2>2 DEF CTRowsInv, CTCounted, CTTyped
    <2>4. IsFiniteSet(CTCerts)
      <3>1. IsFiniteSet(Ids)
        BY FS_Interval, CTAssumption DEF Ids
      <3> QED
        BY <3>1, FS_Subset DEF CTCerts
    <2>5. /\ Cardinality(CertificatesStored) <= Cardinality(CTCerts)
          /\ apart = {} => Cardinality(CertificatesStored) = Cardinality(CTCerts)
      BY StoredCounts
    <2> QED
      BY <2>3, <2>5
  <1>2. seenCount \in 0..MaxLog
    <2>1. IsFiniteSet(Ids) /\ Cardinality(Ids) = MaxLog
      BY FS_Interval, CTAssumption DEF Ids
    <2>2. CTCerts \ CTUncounted \subseteq Ids
      BY DEF CTCerts
    <2>3. Cardinality(CTCerts \ CTUncounted) <= MaxLog /\ Cardinality(CTCerts \ CTUncounted) \in Nat
      BY <2>1, <2>2, FS_Subset, FS_CardinalityType
    <2> QED
      BY <1>0, <2>3, CTAssumption DEF CTRowsInv, CTCounted, CTTyped
  <1>3. NewsOnce
    <2>1. \A i \in DOMAIN ctLog : i \in Ids
      BY <1>0, CTAssumption DEF CTRowsInv, CTTyped, CTLogTyped, Ids
    <2>2. \A i \in Ids : toldOf[i] > 0 => Certified(i)
      BY <1>0 DEF CTPairs, Certified
    <2>3. ASSUME NEW i \in DOMAIN ctLog, NEW j \in DOMAIN ctLog,
                 toldOf[i] > 0, toldOf[j] > 0, ctLog[i].serial = ctLog[j].serial
          PROVE  i = j \/ ctLog[i].serial \in apart
      BY <1>0, <2>1, <2>2, <2>3 DEF CTPairs
    <2> QED
      BY <1>0, <2>3 DEF NewsOnce, NewsEach, CTRowsInv
  <1> QED
    BY <1>0, <1>1, <1>2, <1>3 DEF CTRowsInv, CTPairs, CTTyped, CTLogTyped, CTTypeOK

-----------------------------------------------------------------------------
(* Clouds. A row goes when the provider was seen without the asset.        *)

\* Cloud inventory. Whatever a listing leaves out the provider lacked at some
\* time, or the listing was cut.
CloudListings ==
    /\ \A r \in Resources : cloudAccount[r] = "absent" => r \in wasGone
    /\ \A y \in Syncs : sync[y].at \in {"upsert", "remove"} => sync[y].todo = {}
    /\ \A y \in Syncs, r \in Resources :
          sync[y].at \in {"list", "upsert", "remove"} /\ r \notin sync[y].todo /\ sync[y].assets[r] = "absent" =>
              r \in wasGone \cup cutShort

\* A row is added by one sync, which has yet to announce it.
CloudNewsPending ==
    /\ \A y \in Syncs : sync[y].at \notin {"remove", "announce"} => sync[y].added = {}
    /\ \A y \in Syncs : \A r \in sync[y].added : cloudRow[r].state # "none" /\ newsOf[r] = 0
    /\ \A y, z \in Syncs : \A r \in sync[y].added : r \in sync[z].added => y = z
    /\ \A r \in Resources : cloudRow[r].state = "none" => newsOf[r] = 0

CloudInv ==
    /\ CloudTypeOK /\ CloudListings /\ CloudNewsPending
    /\ RemovedWasGone /\ ImportSurvivesSync /\ CloudNewsOnce

\* Cloud inventory: initially.
LEMMA CloudInitInv == CloudInit => CloudInv
  <1> SUFFICES ASSUME CloudInit PROVE CloudInv
    OBVIOUS
  <1> USE CloudAssumption
  <1>1. /\ NoSync \in SyncState /\ NoSync.at = "none" /\ NoSync.added = {} /\ NoRow \in CloudRow
        /\ NoRow.state = "none" /\ NoRow.imported = FALSE
    BY DEF NoSync, SyncState, Listing, NothingListed, NoRow, CloudRow
  <1>2. (CHOOSE p \in CloudPrints : TRUE) \in CloudPrints
    OBVIOUS
  <1>3. /\ cloudAccount \in [Resources -> CloudPrints \cup {"absent"}] /\ \A r \in Resources : cloudAccount[r] # "absent"
    BY <1>2 DEF CloudInit
  <1>4. /\ \A r \in Resources : cloudRow[r] = NoRow /\ newsOf[r] = 0
        /\ \A y \in Syncs : sync[y] = NoSync
    BY DEF CloudInit
  <1>5. cloudRow \in [Resources -> CloudRow] /\ sync \in [Syncs -> SyncState] /\ newsOf \in [Resources -> Nat]
    BY <1>1 DEF CloudInit
  <1>6. CloudTypeOK
    BY <1>3, <1>5 DEF CloudInit, CloudTypeOK
  <1>7. CloudListings /\ CloudNewsPending
    BY <1>1, <1>3, <1>4 DEF CloudListings, CloudNewsPending
  <1>8. RemovedWasGone /\ ImportSurvivesSync /\ CloudNewsOnce
    BY <1>1, <1>4 DEF RemovedWasGone, ImportSurvivesSync, CloudNewsOnce
  <1> QED
    BY <1>6, <1>7, <1>8 DEF CloudInv

\* What a page shows is what there is, or that there is something.
LEMMA ListedShows ==
    ASSUME CloudTypeOK, NEW r \in Resources, NEW a \in Listed(r)
    PROVE  a \in CloudPrints \cup {Nil, "absent"} /\ (a = "absent" => cloudAccount[r] = "absent")
  BY CloudAssumption DEF CloudTypeOK, Listed, ListedACM, ListedKeyVault, ListedGCP, ListedKubernetes

\* A sync that goes on, with nothing stored yet or nothing stored any more.
LEMMA CloudSyncMoves ==
    ASSUME CloudInv, NEW y \in Syncs, NEW new \in SyncState, sync' = [sync EXCEPT ![y] = new],
           UNCHANGED <<provider, cloudAccount, managedPrints, cloudRow, adopting, cloudChanges, wasGone, newsOf>>,
           cutShort \subseteq cutShort', cutShort' \subseteq Resources,
           new.at \in {"upsert", "remove"} => new.todo = {},
           \A r \in Resources : new.at \in {"list", "upsert", "remove"} /\ r \notin new.todo /\ new.assets[r] = "absent" =>
                                    r \in wasGone \cup cutShort',
           new.added \subseteq sync[y].added, new.at \notin {"remove", "announce"} => new.added = {}
    PROVE  CloudInv'
  <1>1. \A z \in Syncs : sync'[z] = IF z = y THEN new ELSE sync[z]
    BY DEF CloudInv, CloudTypeOK
  <1>2. CloudTypeOK'
    BY DEF CloudInv, CloudTypeOK
  <1>3. CloudListings'
    BY <1>1 DEF CloudInv, CloudListings
  <1>4. CloudNewsPending'
    <2>1. \A z \in Syncs : sync'[z].added \subseteq sync[z].added
      BY <1>1
    <2> QED
      BY <1>1, <2>1 DEF CloudInv, CloudNewsPending
  <1>5. RemovedWasGone' /\ ImportSurvivesSync' /\ CloudNewsOnce'
    BY DEF CloudInv, RemovedWasGone, ImportSurvivesSync, CloudNewsOnce
  <1> QED
    BY <1>2, <1>3, <1>4, <1>5 DEF CloudInv

\* Steps of a sync that write no row.
LEMMA CloudListingSteps ==
    ASSUME CloudInv, NEW y \in Syncs,
           \/ BeginSync(y) \/ ListResource(y) \/ ListingCut(y) \/ ListingFails(y) \/ Classify(y)
           \/ UpsertFails(y) \/ SyncDies(y)
    PROVE  CloudInv'
  <1>0. /\ sync[y] \in SyncState /\ sync \in [Syncs -> SyncState] /\ cutShort \subseteq Resources
        /\ \A r \in Resources : cloudAccount[r] = "absent" => r \in wasGone
        /\ sync[y].at \in {"upsert", "remove"} => sync[y].todo = {}
        /\ \A r \in Resources :
             sync[y].at \in {"list", "upsert", "remove"} /\ r \notin sync[y].todo /\ sync[y].assets[r] = "absent" =>
              r \in wasGone \cup cutShort
        /\ sync[y].at \notin {"remove", "announce"} => sync[y].added = {}
    BY DEF CloudInv, CloudTypeOK, CloudListings, CloudNewsPending
  <1>1. EndedSync \in SyncState /\ EndedSync.at = "ended" /\ EndedSync.added = {}
    BY CloudAssumption DEF EndedSync, NoSync, SyncState, Listing, NothingListed
  <1>2. ASSUME BeginSync(y) PROVE CloudInv'
    <2>1. PICK new : new = [sync[y] EXCEPT !.at = "list", !.todo = Resources]
      OBVIOUS
    <2>2. new \in SyncState /\ new.at = "list" /\ new.todo = Resources /\ new.added = sync[y].added
      BY <1>0, <2>1 DEF SyncState
    <2>3. sync' = [sync EXCEPT ![y] = new] /\ sync[y].added = {}
      BY <1>0, <1>2, <2>1 DEF BeginSync
    <2> QED
      BY <1>0, <1>2, <2>2, <2>3, CloudSyncMoves DEF BeginSync
  <1>3. ASSUME ListResource(y) PROVE CloudInv'
    <2>1. PICK r : r = NextListed(y)
      OBVIOUS
    <2>2. r \in sync[y].todo /\ r \in Resources
      BY <1>0, <1>3, <2>1 DEF ListResource, NextListed, SyncState
    <2>3. PICK a \in Listed(r) : sync' = [sync EXCEPT ![y].todo = @ \ {r}, ![y].assets[r] = a]
      BY <1>3, <2>1 DEF ListResource
    <2>4. a \in CloudPrints \cup {Nil, "absent"} /\ (a = "absent" => r \in wasGone)
      BY <1>0, <2>2, ListedShows DEF CloudInv
    <2>5. PICK f : f = [sync[y].assets EXCEPT ![r] = a]
      OBVIOUS
    <2>6. PICK new : new = [sync[y] EXCEPT !.todo = sync[y].todo \ {r}, !.assets = f]
      OBVIOUS
    <2>7. f \in Listing /\ \A q \in Resources : f[q] = IF q = r THEN a ELSE sync[y].assets[q]
      BY <1>0, <2>2, <2>4, <2>5 DEF SyncState, Listing
    <2>8. new \in SyncState /\ new.at = "list" /\ new.todo = sync[y].todo \ {r} /\ new.assets = f /\ new.added = sync[y].added
      BY <1>0, <1>3, <2>6, <2>7 DEF SyncState, ListResource
    <2>9. sync' = [sync EXCEPT ![y] = new]
      BY <1>0, <2>3, <2>5, <2>6
    <2>10. \A q \in Resources : q \notin new.todo /\ new.assets[q] = "absent" => q \in wasGone \cup cutShort
      BY <1>0, <1>3, <2>2, <2>4, <2>7, <2>8 DEF ListResource
    <2>11. UNCHANGED <<provider, cloudAccount, managedPrints, cloudRow, adopting, cloudChanges, wasGone, cutShort, newsOf>> /\ sync[y].at = "list"
      BY <1>3 DEF ListResource
    <2>12. sync[y].added = {}
      BY <1>0, <2>11
    <2> QED
      BY <1>0, <2>8, <2>9, <2>10, <2>11, <2>12, CloudSyncMoves
  <1>4. ASSUME ListingCut(y) PROVE CloudInv'
    <2>1. PICK new : new = [sync[y] EXCEPT !.todo = {}]
      OBVIOUS
    <2>2. new \in SyncState /\ new.at = "list" /\ new.todo = {} /\ new.assets = sync[y].assets /\ new.added = sync[y].added
      BY <1>0, <1>4, <2>1 DEF SyncState, ListingCut
    <2>3. sync' = [sync EXCEPT ![y] = new] /\ sync[y].added = {} /\ sync[y].at = "list" /\ cutShort' = cutShort \cup sync[y].todo
      BY <1>0, <1>4, <2>1 DEF ListingCut
    <2>4. cutShort' \subseteq Resources /\ cutShort \subseteq cutShort'
      BY <1>0, <2>3 DEF SyncState
    <2>5. \A q \in Resources : new.assets[q] = "absent" => q \in wasGone \cup cutShort'
      BY <1>0, <2>2, <2>3
    <2>6. UNCHANGED <<provider, cloudAccount, managedPrints, cloudRow, adopting, cloudChanges, wasGone, newsOf>>
      BY <1>4 DEF ListingCut
    <2> QED
      BY <1>0, <2>2, <2>3, <2>4, <2>5, <2>6, CloudSyncMoves
  <1>5. ASSUME ListingFails(y) \/ UpsertFails(y) \/ SyncDies(y) PROVE CloudInv'
    <2>1. sync' = [sync EXCEPT ![y] = EndedSync]
      BY <1>5 DEF ListingFails, UpsertFails, SyncDies, AfterListingFailed
    <2>2. UNCHANGED <<provider, cloudAccount, managedPrints, cloudRow, adopting, cloudChanges, wasGone, cutShort, newsOf>>
      BY <1>5 DEF ListingFails, UpsertFails, SyncDies
    <2> QED
      BY <1>0, <1>1, <2>1, <2>2, CloudSyncMoves
  <1>6. ASSUME Classify(y) PROVE CloudInv'
    <2>1. PICK lookup \in {managedPrints, {}} :
             sync' = [sync EXCEPT ![y].at = "upsert", ![y].managed = {r \in Resources : sync[y].assets[r] \in lookup}]
      BY <1>6 DEF Classify
    <2>2. PICK m : m = {r \in Resources : sync[y].assets[r] \in lookup}
      OBVIOUS
    <2>3. PICK new : new = [sync[y] EXCEPT !.at = "upsert", !.managed = m]
      OBVIOUS
    <2>4. new \in SyncState /\ new.at = "upsert" /\ new.todo = sync[y].todo /\ new.assets = sync[y].assets /\ new.added = sync[y].added
      BY <1>0, <2>2, <2>3 DEF SyncState
    <2>5. sync' = [sync EXCEPT ![y] = new]
      BY <1>0, <2>1, <2>2, <2>3
    <2>6. /\ sync[y].at = "list" /\ sync[y].todo = {}
          /\ UNCHANGED <<provider, cloudAccount, managedPrints, cloudRow, adopting, cloudChanges, wasGone, cutShort, newsOf>>
      BY <1>6 DEF Classify
    <2> QED
      BY <1>0, <2>4, <2>5, <2>6, CloudSyncMoves
  <1> QED
    BY <1>2, <1>3, <1>4, <1>5, <1>6

\* Found assets are upserted (UpsertCloudCertificates).
LEMMA CloudUpserts ==
    ASSUME CloudInv, NEW y \in Syncs, UpsertCloudCertificates(y)
    PROVE  CloudInv'
  <1>0. /\ sync[y] \in SyncState /\ sync \in [Syncs -> SyncState] /\ cloudRow \in [Resources -> CloudRow]
        /\ sync[y].at = "upsert" /\ sync[y].todo = {} /\ sync[y].added = {}
    BY DEF CloudInv, CloudTypeOK, CloudListings, CloudNewsPending, UpsertCloudCertificates
  <1>1. /\ UNCHANGED <<provider, cloudAccount, managedPrints, adopting, cloudChanges, wasGone, cutShort, newsOf>>
        /\ cloudRow' = [r \in Resources |-> IF r \in Found(sync[y]) THEN UpsertedRow(cloudRow[r], sync[y].assets[r], r \in sync[y].managed)
                                           ELSE cloudRow[r]]
    BY DEF UpsertCloudCertificates
  <1>2. PICK ins : ins = Inserted(sync[y])
    OBVIOUS
  <1>3. PICK new : new = [sync[y] EXCEPT !.at = "remove", !.added = ins]
    OBVIOUS
  <1>4. ins \subseteq Resources /\ \A r \in Resources : r \in ins <=> r \in Found(sync[y]) /\ cloudRow[r].state = "none"
    BY <1>2 DEF Inserted, Found
  <1>5. new \in SyncState /\ new.at = "remove" /\ new.todo = {} /\ new.assets = sync[y].assets /\ new.added = ins
    BY <1>0, <1>3, <1>4 DEF SyncState
  <1>6. sync' = [sync EXCEPT ![y] = new]
    BY <1>0, <1>2, <1>3 DEF UpsertCloudCertificates
  <1>7. \A z \in Syncs : sync'[z] = IF z = y THEN new ELSE sync[z]
    BY <1>0, <1>6
  <1>8. ASSUME NEW r \in Resources
        PROVE  /\ cloudRow'[r] \in CloudRow
               /\ r \in Found(sync[y]) => cloudRow'[r].state = "present"
               /\ r \notin Found(sync[y]) => cloudRow'[r] = cloudRow[r]
               /\ cloudRow'[r].imported => cloudRow'[r].managed
    <2>1. CASE r \notin Found(sync[y])
      BY <1>0, <1>1, <2>1 DEF CloudInv, ImportSurvivesSync
    <2>2. CASE r \in Found(sync[y])
      <3>1. sync[y].assets[r] \in CloudPrints \cup {Nil}
        BY <1>0, <2>2 DEF Found, SyncState, Listing
      <3>2. cloudRow'[r] = UpsertedRow(cloudRow[r], sync[y].assets[r], r \in sync[y].managed)
        BY <1>1, <2>2
      <3>3. cloudRow[r].imported \in BOOLEAN
        BY <1>0 DEF CloudRow
      <3>4. CASE cloudRow[r].imported = TRUE
        <4>1. (cloudRow[r].imported \/ r \in sync[y].managed) = TRUE
          BY <3>4, Zenon
        <4>2. cloudRow'[r] = [state |-> "present", fp |-> sync[y].assets[r], managed |-> TRUE, imported |-> TRUE]
          BY <3>2, <3>4, <4>1, Zenon DEF UpsertedRow
        <4> QED
          BY <2>2, <3>1, <4>2 DEF CloudRow
      <3>5. CASE cloudRow[r].imported = FALSE
        <4>1. PICK m \in BOOLEAN : m = (cloudRow[r].imported \/ r \in sync[y].managed)
          BY <3>5, Zenon
        <4>2. cloudRow'[r] = [state |-> "present", fp |-> sync[y].assets[r], managed |-> m, imported |-> FALSE]
          BY <3>2, <3>5, <4>1, Zenon DEF UpsertedRow
        <4> QED
          BY <2>2, <3>1, <4>1, <4>2 DEF CloudRow
      <3> QED
        BY <3>3, <3>4, <3>5
    <2> QED
      BY <2>1, <2>2
  <1>9. CloudTypeOK'
    <2>1. cloudRow' \in [Resources -> CloudRow]
      <3>1. cloudRow' = [r \in Resources |-> cloudRow'[r]]
        BY <1>1
      <3> QED
        BY <1>8, <3>1
    <2>2. sync' \in [Syncs -> SyncState]
      BY <1>0, <1>5, <1>6
    <2> QED
      BY <1>1, <2>1, <2>2 DEF CloudInv, CloudTypeOK
  <1>10. CloudListings'
    BY <1>0, <1>1, <1>5, <1>7 DEF CloudInv, CloudListings
  <1>11. CloudNewsPending'
    <2>1. /\ \A z \in Syncs : \A r \in sync[z].added : r \in Resources /\ cloudRow[r].state # "none" /\ newsOf[r] = 0
          /\ \A z, x \in Syncs : \A r \in sync[z].added : r \in sync[x].added => z = x
          /\ \A r \in Resources : cloudRow[r].state = "none" => newsOf[r] = 0
      BY DEF CloudInv, CloudNewsPending, CloudTypeOK, SyncState
    <2>2. \A r \in Resources : cloudRow[r].state # "none" => cloudRow'[r].state # "none"
      BY <1>8
    <2>3. \A r \in ins : r \in Resources /\ cloudRow'[r].state # "none" /\ newsOf[r] = 0 /\ \A z \in Syncs : r \notin sync[z].added
      BY <1>4, <1>8, <2>1
    <2>4. \A r \in Resources : cloudRow'[r].state = "none" => newsOf[r] = 0
      BY <2>1, <2>2
    <2>5. \A z \in Syncs : sync'[z].at \notin {"remove", "announce"} => sync'[z].added = {}
      BY <1>5, <1>7 DEF CloudInv, CloudNewsPending
    <2>6. \A z \in Syncs : \A r \in sync'[z].added : cloudRow'[r].state # "none" /\ newsOf[r] = 0
      BY <1>5, <1>7, <2>1, <2>2, <2>3
    <2>7. \A z, x \in Syncs : \A r \in sync'[z].added : r \in sync'[x].added => z = x
      BY <1>5, <1>7, <2>1, <2>3
    <2> QED
      BY <1>1, <2>4, <2>5, <2>6, <2>7 DEF CloudNewsPending
  <1>12. RemovedWasGone' /\ ImportSurvivesSync' /\ CloudNewsOnce'
    <2>1. \A r \in Resources : cloudRow'[r].state = "removed" => cloudRow[r].state = "removed"
      BY <1>8
    <2> QED
      BY <1>1, <1>8, <2>1 DEF CloudInv, RemovedWasGone, ImportSurvivesSync, CloudNewsOnce
  <1> QED
    BY <1>9, <1>10, <1>11, <1>12 DEF CloudInv

\* Rows the listing left out are marked removed (MarkCloudCertificatesRemoved).
LEMMA CloudRemoves ==
    ASSUME CloudInv, NEW y \in Syncs, MarkCloudCertificatesRemoved(y)
    PROVE  CloudInv'
  <1>0. /\ sync[y] \in SyncState /\ sync \in [Syncs -> SyncState] /\ cloudRow \in [Resources -> CloudRow]
        /\ sync[y].at = "remove" /\ sync[y].todo = {}
        /\ \A r \in Resources : sync[y].assets[r] = "absent" => r \in wasGone \cup cutShort
    BY DEF CloudInv, CloudTypeOK, CloudListings, MarkCloudCertificatesRemoved
  <1>1. UNCHANGED <<provider, cloudAccount, managedPrints, adopting, cloudChanges, wasGone, cutShort, newsOf>>
    BY DEF MarkCloudCertificatesRemoved
  <1>2. PICK new : new = [sync[y] EXCEPT !.at = "announce"]
    OBVIOUS
  <1>3. new \in SyncState /\ new.at = "announce" /\ new.todo = {} /\ new.assets = sync[y].assets /\ new.added = sync[y].added
    BY <1>0, <1>2 DEF SyncState
  <1>4. sync' = [sync EXCEPT ![y] = new]
    BY <1>0, <1>2 DEF MarkCloudCertificatesRemoved
  <1>5. \A z \in Syncs : sync'[z] = IF z = y THEN new ELSE sync[z]
    BY <1>0, <1>4
  <1>6. /\ cloudRow' \in [Resources -> CloudRow]
        /\ \A r \in Resources : /\ cloudRow'[r].state = "none" <=> cloudRow[r].state = "none"
                                /\ cloudRow'[r].imported = cloudRow[r].imported /\ cloudRow'[r].managed = cloudRow[r].managed
                                /\ cloudRow'[r].state = "removed" /\ cloudRow[r].state # "removed" => sync[y].assets[r] = "absent"
    <2>1. CASE UNCHANGED cloudRow
      BY <1>0, <2>1
    <2>2. CASE cloudRow' = [r \in Resources |->
                          IF r \in NotListed(sync[y]) /\ cloudRow[r].state = "present"
                          THEN [cloudRow[r] EXCEPT !.state = "removed"] ELSE cloudRow[r]]
      <3>1. \A r \in NotListed(sync[y]) : r \in Resources /\ sync[y].assets[r] = "absent"
        BY DEF NotListed, Found
      <3>2. \A r \in Resources : cloudRow[r] \in CloudRow
        BY <1>0
      <3>3. \A r \in Resources : [cloudRow[r] EXCEPT !.state = "removed"] \in CloudRow
        BY <3>2 DEF CloudRow
      <3>4. cloudRow' \in [Resources -> CloudRow]
        BY <2>2, <3>2, <3>3
      <3>5. ASSUME NEW r \in Resources
            PROVE  /\ cloudRow'[r].state = "none" <=> cloudRow[r].state = "none"
                   /\ cloudRow'[r].imported = cloudRow[r].imported /\ cloudRow'[r].managed = cloudRow[r].managed
                   /\ cloudRow'[r].state = "removed" /\ cloudRow[r].state # "removed" => sync[y].assets[r] = "absent"
        <4>1. CASE r \in NotListed(sync[y]) /\ cloudRow[r].state = "present"
          <5>1. cloudRow'[r] = [cloudRow[r] EXCEPT !.state = "removed"]
            BY <2>2, <4>1
          <5> QED
            BY <3>1, <3>2, <4>1, <5>1 DEF CloudRow
        <4>2. CASE ~(r \in NotListed(sync[y]) /\ cloudRow[r].state = "present")
          BY <2>2, <4>2
        <4> QED
          BY <4>1, <4>2
      <3> QED
        BY <3>4, <3>5
    <2> QED
      BY <2>1, <2>2 DEF MarkCloudCertificatesRemoved
  <1>7. CloudTypeOK'
    BY <1>0, <1>1, <1>3, <1>4, <1>6 DEF CloudInv, CloudTypeOK
  <1>8. CloudListings'
    BY <1>1, <1>3, <1>5 DEF CloudInv, CloudListings
  <1>9. CloudNewsPending'
    <2>1. \A z \in Syncs : sync'[z].added = sync[z].added /\ sync[z].added \subseteq Resources
      BY <1>3, <1>5 DEF CloudInv, CloudTypeOK, SyncState
    <2> QED
      BY <1>1, <1>3, <1>5, <1>6, <2>1 DEF CloudInv, CloudNewsPending
  <1>10. RemovedWasGone' /\ ImportSurvivesSync' /\ CloudNewsOnce'
    BY <1>0, <1>1, <1>6 DEF CloudInv, RemovedWasGone, ImportSurvivesSync, CloudNewsOnce
  <1> QED
    BY <1>7, <1>8, <1>9, <1>10 DEF CloudInv

\* What was added is announced.
LEMMA CloudAnnounces ==
    ASSUME CloudInv, NEW y \in Syncs, AnnounceCloud(y)
    PROVE  CloudInv'
  <1>0. EndedSync \in SyncState /\ EndedSync.at = "ended" /\ EndedSync.added = {}
    BY CloudAssumption DEF EndedSync, NoSync, SyncState, Listing, NothingListed
  <1>1. /\ UNCHANGED <<provider, cloudAccount, managedPrints, cloudRow, adopting, cloudChanges, wasGone, cutShort>>
        /\ sync' = [sync EXCEPT ![y] = EndedSync]
        /\ newsOf' = [r \in Resources |-> IF r \in sync[y].added \ sync[y].managed THEN newsOf[r] + 1 ELSE newsOf[r]]
    BY DEF AnnounceCloud
  <1>2. \A z \in Syncs : sync'[z] = IF z = y THEN EndedSync ELSE sync[z]
    BY <1>1 DEF CloudInv, CloudTypeOK
  <1>3. \A r \in Resources : newsOf[r] \in Nat /\ newsOf'[r] \in Nat
                             /\ (r \notin sync[y].added => newsOf'[r] = newsOf[r]) /\ (r \in sync[y].added => newsOf'[r] <= newsOf[r] + 1)
    BY <1>1 DEF CloudInv, CloudTypeOK
  <1>4. newsOf' \in [Resources -> Nat]
    BY <1>1, <1>3
  <1>5. /\ \A z \in Syncs : \A r \in sync[z].added : r \in Resources /\ cloudRow[r].state # "none" /\ newsOf[r] = 0
        /\ \A z, x \in Syncs : \A r \in sync[z].added : r \in sync[x].added => z = x
        /\ \A r \in Resources : cloudRow[r].state = "none" => newsOf[r] = 0
    BY DEF CloudInv, CloudNewsPending, CloudTypeOK, SyncState
  <1>6. CloudTypeOK'
    BY <1>0, <1>1, <1>4 DEF CloudInv, CloudTypeOK
  <1>7. CloudListings'
    BY <1>0, <1>1, <1>2 DEF CloudInv, CloudListings
  <1>8. CloudNewsPending'
    <2>1. \A z \in Syncs : \A r \in sync'[z].added : r \in sync[z].added /\ z # y /\ newsOf'[r] = 0
      BY <1>0, <1>2, <1>3, <1>5
    <2>2. \A r \in Resources : cloudRow[r].state = "none" => newsOf'[r] = 0
      BY <1>3, <1>5
    <2>3. \A z \in Syncs : sync'[z].at \notin {"remove", "announce"} => sync'[z].added = {}
      BY <1>0, <1>2 DEF CloudInv, CloudNewsPending
    <2> QED
      BY <1>1, <1>5, <2>1, <2>2, <2>3 DEF CloudNewsPending
  <1>9. RemovedWasGone' /\ ImportSurvivesSync' /\ CloudNewsOnce'
    <2>1. \A r \in Resources : newsOf'[r] <= 1
      BY <1>3, <1>5 DEF CloudInv, CloudNewsOnce
    <2> QED
      BY <1>1, <2>1 DEF CloudInv, RemovedWasGone, ImportSurvivesSync, CloudNewsOnce
  <1> QED
    BY <1>6, <1>7, <1>8, <1>9 DEF CloudInv

\* The provider and the operator's imports disturb nothing.
LEMMA CloudWorldStep ==
    ASSUME CloudInv,
           \/ \E r \in Resources, c \in CloudPrints \cup {"absent"} : ProviderChanges(r, c)
           \/ \E r \in Resources : ImportCloudCertificate(r)
           \/ MarkCloudCertificateImported \/ CloudImportLost
    PROVE  CloudInv'
  <1>1. ASSUME NEW r \in Resources, NEW c \in CloudPrints \cup {"absent"}, ProviderChanges(r, c) PROVE CloudInv'
    <2>1. /\ UNCHANGED <<provider, managedPrints, cloudRow, sync, adopting, cutShort, newsOf>>
          /\ cloudChanges' \in 0..MaxCloudChanges /\ cloudAccount' = [cloudAccount EXCEPT ![r] = c]
          /\ wasGone' = IF c = "absent" THEN wasGone \cup {r} ELSE wasGone
      BY <1>1, CloudAssumption DEF ProviderChanges, CloudInv, CloudTypeOK
    <2>2. cloudAccount' \in [Resources -> CloudPrints \cup {"absent"}] /\ wasGone \subseteq wasGone' /\ wasGone' \subseteq Resources
      BY <2>1 DEF CloudInv, CloudTypeOK
    <2>3. \A q \in Resources : cloudAccount'[q] = IF q = r THEN c ELSE cloudAccount[q]
      BY <2>1 DEF CloudInv, CloudTypeOK
    <2>4. CloudTypeOK'
      BY <2>1, <2>2 DEF CloudInv, CloudTypeOK
    <2>5. \A q \in Resources : cloudAccount'[q] = "absent" => q \in wasGone'
      BY <2>1, <2>3 DEF CloudInv, CloudListings
    <2>6. CloudListings'
      BY <2>1, <2>2, <2>5 DEF CloudInv, CloudListings
    <2>7. CloudNewsPending' /\ RemovedWasGone' /\ ImportSurvivesSync' /\ CloudNewsOnce'
      BY <2>1, <2>2 DEF CloudInv, CloudNewsPending, RemovedWasGone, ImportSurvivesSync, CloudNewsOnce
    <2> QED
      BY <2>4, <2>6, <2>7 DEF CloudInv
  <1>2. ASSUME NEW r \in Resources, ImportCloudCertificate(r) PROVE CloudInv'
    <2>1. /\ UNCHANGED <<provider, cloudAccount, cloudRow, sync, cloudChanges, wasGone, cutShort, newsOf>>
          /\ managedPrints' = managedPrints \cup {cloudRow[r].fp} /\ adopting' = r /\ cloudRow[r].fp # Nil
      BY <1>2 DEF ImportCloudCertificate
    <2>2. cloudRow[r].fp \in CloudPrints
      BY <2>1 DEF CloudInv, CloudTypeOK, CloudRow
    <2>3. CloudTypeOK'
      BY <2>1, <2>2 DEF CloudInv, CloudTypeOK
    <2> QED
      BY <2>1, <2>3 DEF CloudInv, CloudListings, CloudNewsPending, RemovedWasGone, ImportSurvivesSync, CloudNewsOnce
  <1>3. ASSUME MarkCloudCertificateImported PROVE CloudInv'
    <2>1. /\ UNCHANGED <<provider, cloudAccount, managedPrints, sync, cloudChanges, wasGone, cutShort, newsOf>>
          /\ adopting' = Nil /\ adopting \in Resources /\ cloudRow \in [Resources -> CloudRow]
      BY <1>3 DEF MarkCloudCertificateImported, CloudInv, CloudTypeOK
    <2>2. PICK row : row = [cloudRow[adopting] EXCEPT !.imported = TRUE, !.managed = TRUE]
      OBVIOUS
    <2>3. row \in CloudRow /\ row.imported = TRUE /\ row.managed = TRUE /\ row.state = cloudRow[adopting].state
      BY <2>1, <2>2 DEF CloudRow
    <2>4. cloudRow' = [cloudRow EXCEPT ![adopting] = row]
      BY <1>3, <2>1, <2>2 DEF MarkCloudCertificateImported
    <2>5. cloudRow' \in [Resources -> CloudRow]
          /\ \A q \in Resources : cloudRow'[q].state = cloudRow[q].state /\ (cloudRow'[q].imported => cloudRow'[q].managed)
      BY <2>1, <2>3, <2>4 DEF CloudInv, ImportSurvivesSync
    <2>6. CloudTypeOK'
      BY <2>1, <2>5 DEF CloudInv, CloudTypeOK
    <2>7. \A z \in Syncs : sync[z].added \subseteq Resources
      BY DEF CloudInv, CloudTypeOK, SyncState
    <2>8. CloudNewsPending'
      BY <2>1, <2>5, <2>7 DEF CloudInv, CloudNewsPending
    <2> QED
      BY <2>1, <2>5, <2>6, <2>8 DEF CloudInv, CloudListings, RemovedWasGone, ImportSurvivesSync, CloudNewsOnce
  <1>4. ASSUME CloudImportLost PROVE CloudInv'
    BY <1>4 DEF CloudImportLost, CloudInv, CloudTypeOK, CloudListings, CloudNewsPending, RemovedWasGone, ImportSurvivesSync, CloudNewsOnce
  <1> QED
    BY <1>1, <1>2, <1>3, <1>4

\* The inductive step of the cloud inventory.
LEMMA CloudStepInv == CloudInv /\ [CloudNext]_cloudVars => CloudInv'
  <1>1. ASSUME CloudInv, CloudNext PROVE CloudInv'
    <2>1. ASSUME NEW y \in Syncs,
                 \/ BeginSync(y) \/ ListResource(y) \/ ListingCut(y) \/ ListingFails(y) \/ Classify(y)
                 \/ UpsertCloudCertificates(y) \/ UpsertFails(y) \/ MarkCloudCertificatesRemoved(y)
                 \/ AnnounceCloud(y) \/ SyncDies(y)
          PROVE  CloudInv'
      <3>1. (\/ BeginSync(y) \/ ListResource(y) \/ ListingCut(y) \/ ListingFails(y) \/ Classify(y)
             \/ UpsertFails(y) \/ SyncDies(y)) => CloudInv'
        BY <1>1, CloudListingSteps
      <3>2. UpsertCloudCertificates(y) => CloudInv'
        BY <1>1, CloudUpserts
      <3>3. MarkCloudCertificatesRemoved(y) => CloudInv'
        BY <1>1, CloudRemoves
      <3>4. AnnounceCloud(y) => CloudInv'
        BY <1>1, CloudAnnounces
      <3> QED
        BY <2>1, <3>1, <3>2, <3>3, <3>4
    <2>2. (\/ \E r \in Resources, c \in CloudPrints \cup {"absent"} : ProviderChanges(r, c)
           \/ \E r \in Resources : ImportCloudCertificate(r)
           \/ MarkCloudCertificateImported \/ CloudImportLost) => CloudInv'
      BY <1>1, CloudWorldStep
    <2> QED
      BY <1>1, <2>1, <2>2 DEF CloudNext
  <1>2. ASSUME CloudInv, UNCHANGED cloudVars PROVE CloudInv'
    BY <1>2 DEF cloudVars, CloudInv, CloudTypeOK, CloudListings, CloudNewsPending, RemovedWasGone, ImportSurvivesSync, CloudNewsOnce
  <1> QED
    BY <1>1, <1>2

-----------------------------------------------------------------------------
(* Reports. The bindings of a host are between its last two reports.       *)

\* A host's scan is in order: what it still has to upsert it found, what it has
\* upserted is shown, and a scan recorded to the end left what it found.
ScansInOrder ==
    \A h \in ReportingHosts :
        /\ scan[h].at # "idle" => h \notin whole
        /\ scan[h].at = "upsert" => \A f \in scan[h].found \ scan[h].todo : file[h][f] = "present"
        /\ scan[h].at = "reconcile" => \A f \in scan[h].found : file[h][f] = "present"
        /\ h \in whole => \A f \in Files : file[h][f] = "present" <=> f \in scan[h].found

\* A report in flight is one the host sent, with the rows that were there.
ReportsShaped ==
    /\ installed \in [ReportingHosts -> ReportSet \cup {NoInstalls}]
    /\ report \in [Reports -> ReportState]
    /\ \A p \in Reports :
        /\ report[p].at = "idle" => report[p].host = Nil
        /\ report[p].at # "idle" => /\ report[p].host \in ReportingHosts
                                    /\ report[p].says \in ReportSet
                                    /\ report[p].previous \in ReportSet \cup {NoInstalls}
                                    /\ report[p].at # "replace" => report[p].says # NoInstalls
        /\ report[p].todo \subseteq RecsOf(report[p].says)

\* Of a host whose reports did not meet one is in flight at most, and the
\* bindings are between what the last report and this one say.
BindingsBetween ==
    \A p \in Reports : report[p].host \in ReportingHosts \ muddled =>
        LET s == report[p]
            h == s.host
        IN  /\ \A o \in Reports : report[o].host = h => o = p
            /\ s.at = "replace" => installed[h] = s.previous
            /\ s.at # "replace" => installed[h] = s.says
            /\ s.at \in {"replace", "prune"} => \A r \in HeldCerts : Follows(h, r, s.previous)
            /\ s.at = "bind" => /\ \A r \in HeldCerts \ s.todo : Follows(h, r, s.says)
                                /\ \A r \in s.todo : r \in RecsOf(s.previous) => Follows(h, r, s.previous)

ReportsInv == ReportsTypeOK /\ ScansInOrder /\ ReportsShaped /\ BindingsBetween /\ BindingsFollowReport

\* A report names installations, of certificates the core holds.
LEMMA ReportSays ==
    ASSUME NEW says \in ReportSet \cup {NoInstalls}
    PROVE  /\ says \in Report
           /\ \A d \in DOMAIN says : /\ says[d] \in Installation
                                     /\ says[d].ok \in BOOLEAN /\ says[d].fp \in Prints \cup {Nil}
           /\ RecsOf(says) \subseteq HeldCerts
           /\ RecsOf(NoInstalls) = {}
  <1>1. NoInstalls \in Report
    <2>1. NoInstalls \in [{} -> Installation]
      BY DEF NoInstalls
    <2> QED
      BY <2>1 DEF Report
  <1>2. says \in Report
    BY <1>1, ReportsAssumption
  <1>3. PICK D \in SUBSET Destinations : says \in [D -> Installation]
    BY <1>2 DEF Report
  <1>4. \A d \in DOMAIN says : says[d] \in Installation
    BY <1>3
  <1>5. \A d \in DOMAIN says : /\ says[d].rec \in HeldCerts \cup {Nil}
                               /\ says[d].ok \in BOOLEAN /\ says[d].fp \in Prints \cup {Nil}
    BY <1>4 DEF Installation
  <1>6. RecsOf(NoInstalls) = {}
    BY DEF RecsOf, NoInstalls
  <1> QED
    BY <1>2, <1>4, <1>5, <1>6 DEF RecsOf

\* No report in flight is a state of a report.
LEMMA NoReportShaped == NoReport \in ReportState /\ NoReport.at = "idle" /\ NoReport.host = Nil
                        /\ NoReport.todo = {} /\ Nil \notin ReportingHosts
  <1>1. NoInstalls \in Report
    BY ReportSays
  <1> QED
    BY <1>1, ReportsAssumption DEF NoReport, ReportState

\* Reports: initially.
LEMMA ReportsInitInv == ReportsInit => ReportsInv
  <1> SUFFICES ASSUME ReportsInit PROVE ReportsInv
    OBVIOUS
  <1>1. ReportsTypeOK
    BY ReportsAssumption DEF ReportsInit, ReportsTypeOK, NoBinding, BindingRow, FileState, NoScan, ScanState, NoReport
  <1>2. ScansInOrder
    BY DEF ReportsInit, ScansInOrder, NoScan
  <1>3. ReportsShaped
    BY NoReportShaped DEF ReportsInit, ReportsShaped
  <1>4. BindingsBetween
    BY NoReportShaped DEF ReportsInit, BindingsBetween
  <1>5. BindingsFollowReport
    BY ReportSays DEF ReportsInit, BindingsFollowReport, Follows
  <1> QED
    BY <1>1, <1>2, <1>3, <1>4, <1>5 DEF ReportsInv

\* What a handler of installation reports leaves alone.
LEMMA InstallsLeaveScans ==
    ASSUME ReportsInv, UNCHANGED scanVars
    PROVE  /\ ScansInOrder'
           /\ (file \in [ReportingHosts -> [Files -> FileState]])'
           /\ (scan \in [ReportingHosts -> ScanState])'
           /\ (whole \subseteq ReportingHosts)'
  BY DEF ReportsInv, ScansInOrder, ReportsTypeOK, scanVars

\* A report begins by reading the rows it will replace (previousState).
LEMMA PreviousStateInv ==
    ASSUME ReportsInv, NEW p \in Reports, NEW h \in ReportingHosts, NEW says \in ReportSet, PreviousState(p, h, says)
    PROVE  ReportsInv'
  <1>1. /\ UNCHANGED <<installed, binding, regrouped>> /\ UNCHANGED scanVars
        /\ report[p].at = "idle" /\ reportCount' = reportCount + 1 /\ reportCount < MaxReports
    BY DEF PreviousState
  <1>2. muddled' = IF \E o \in Reports : report[o].host = h THEN muddled \cup {h} ELSE muddled
    BY DEF PreviousState
  <1>3. PICK new : new = [at |-> "replace", host |-> h, previous |-> installed[h], says |-> says, todo |-> {}]
    OBVIOUS
  <1>4. report' = [report EXCEPT ![p] = new]
    BY <1>3 DEF PreviousState
  <1>5. /\ new.at = "replace" /\ new.host = h /\ new.previous = installed[h] /\ new.says = says /\ new.todo = {}
        /\ new \in ReportState
    <2>1. installed[h] \in Report /\ says \in Report
      BY ReportSays DEF ReportsInv, ReportsTypeOK
    <2> QED
      BY <1>3, <2>1 DEF ReportState
  <1>6. report' \in [Reports -> ReportState] /\ \A o \in Reports : report'[o] = IF o = p THEN new ELSE report[o]
    BY <1>4, <1>5 DEF ReportsInv, ReportsShaped
  <1>7. ReportsTypeOK'
    <2>1. muddled' \subseteq ReportingHosts
      BY <1>2 DEF ReportsInv, ReportsTypeOK
    <2>2. reportCount' \in 0..MaxReports
      BY <1>1, ReportsAssumption DEF ReportsInv, ReportsTypeOK
    <2>3. \A o \in Reports : report'[o].todo \subseteq HeldCerts
      BY <1>5, <1>6 DEF ReportsInv, ReportsTypeOK
    <2> QED
      BY <1>1, <2>1, <2>2, <2>3, InstallsLeaveScans DEF ReportsInv, ReportsTypeOK
  <1>8. ReportsShaped'
    BY <1>1, <1>5, <1>6 DEF ReportsInv, ReportsShaped, ReportsTypeOK
  <1>9. \A o \in Reports : report[o].host # h \/ h \in muddled'
    BY <1>2
  <1>10. BindingsBetween'
    <2> SUFFICES ASSUME NEW o \in Reports, report'[o].host \in ReportingHosts, report'[o].host \notin muddled'
                 PROVE  LET s == report'[o]
                        IN  /\ \A q \in Reports : report'[q].host = s.host => q = o
                            /\ s.at = "replace" => installed[s.host] = s.previous
                            /\ s.at # "replace" => installed[s.host] = s.says
                            /\ s.at \in {"replace", "prune"} => \A r \in HeldCerts : Follows(s.host, r, s.previous)
                            /\ s.at = "bind" => /\ \A r \in HeldCerts \ s.todo : Follows(s.host, r, s.says)
                                                /\ \A r \in s.todo : r \in RecsOf(s.previous) => Follows(s.host, r, s.previous)
      BY <1>1 DEF BindingsBetween, Follows
    <2>1. CASE o = p
      <3>1. report'[o].host = h /\ h \notin muddled /\ \A q \in Reports : report[q].host # h
        BY <2>1, <1>2, <1>5, <1>6
      <3>2. \A r \in HeldCerts : Follows(h, r, installed[h])
        BY <3>1 DEF ReportsInv, BindingsFollowReport
      <3> QED
        BY <2>1, <3>1, <3>2, <1>5, <1>6
    <2>2. CASE o # p
      <3>1. report'[o] = report[o] /\ report[o].host # h /\ report[o].host \in ReportingHosts \ muddled
        BY <2>2, <1>2, <1>6
      <3>2. \A q \in Reports : report'[q].host = report[o].host => q = o
        BY <3>1, <1>5, <1>6 DEF ReportsInv, BindingsBetween
      <3> QED
        BY <3>1, <3>2 DEF ReportsInv, BindingsBetween
    <2> QED
      BY <2>1, <2>2
  <1>11. BindingsFollowReport'
    <2> SUFFICES ASSUME NEW g \in ReportingHosts \ muddled', \A o \in Reports : report'[o].host # g, NEW r \in HeldCerts
                 PROVE  Follows(g, r, installed[g])
      BY <1>1 DEF BindingsFollowReport, Follows
    <2>1. g # h /\ g \notin muddled
      BY <1>2, <1>5, <1>6
    <2>2. \A o \in Reports : report[o].host # g
      BY <2>1, <1>1, <1>6, NoReportShaped DEF ReportsInv, ReportsShaped
    <2> QED
      BY <2>1, <2>2 DEF ReportsInv, BindingsFollowReport
  <1> QED
    BY <1>1, <1>7, <1>8, <1>10, <1>11, InstallsLeaveScans DEF ReportsInv

\* What a step of one report of host h says of the rows of the other hosts.
OthersKept(h) ==
    \A g \in ReportingHosts \ {h} :
        /\ installed'[g] = installed[g] /\ binding'[g] = binding[g]
        /\ \A r \in HeldCerts : <<g, r>> \in regrouped' <=> <<g, r>> \in regrouped

\* What holds of the other hosts' bindings stays so.
LEMMA OthersFollow ==
    ASSUME NEW h, OthersKept(h), NEW g \in ReportingHosts \ {h}, NEW r \in HeldCerts, NEW says
    PROVE  Follows(g, r, says)' <=> Follows(g, r, says)
  BY DEF OthersKept, Follows

\* A report goes on: it is enough to look at its own host.
LEMMA ReportGoesOn ==
    ASSUME ReportsInv, NEW p \in Reports, report[p].at # "idle", muddled' = muddled,
           OthersKept(report[p].host), NEW new \in ReportState,
           report' \in [Reports -> ReportState], \A o \in Reports : report'[o] = IF o = p THEN new ELSE report[o],
           new.at \in {"prune", "bind"}, new.host = report[p].host, new.says = report[p].says,
           new.previous = report[p].previous, new.todo \subseteq RecsOf(new.says), new.says # NoInstalls,
           new.host \in ReportingHosts \ muddled =>
               /\ installed'[new.host] = new.says
               /\ new.at = "prune" => \A r \in HeldCerts : Follows(new.host, r, new.previous)'
               /\ new.at = "bind" => /\ \A r \in HeldCerts \ new.todo : Follows(new.host, r, new.says)'
                                     /\ \A r \in new.todo : r \in RecsOf(new.previous) => Follows(new.host, r, new.previous)'
    PROVE  (installed' \in [ReportingHosts -> ReportSet \cup {NoInstalls}] => ReportsShaped') /\ BindingsBetween' /\ BindingsFollowReport'
  <1>1. installed' \in [ReportingHosts -> ReportSet \cup {NoInstalls}] => ReportsShaped'
    BY DEF ReportsInv, ReportsShaped
  <1>2. \A o \in Reports : report'[o].host = report[o].host
    OBVIOUS
  <1>3. new.host \in ReportingHosts
    BY DEF ReportsInv, ReportsShaped
  <1>4. BindingsBetween'
    <2> SUFFICES ASSUME NEW o \in Reports, report'[o].host \in ReportingHosts, report'[o].host \notin muddled
                 PROVE  /\ \A q \in Reports : report'[q].host = report'[o].host => q = o
                        /\ report'[o].at = "replace" => installed'[report'[o].host] = report'[o].previous
                        /\ report'[o].at # "replace" => installed'[report'[o].host] = report'[o].says
                        /\ report'[o].at \in {"replace", "prune"} =>
                              \A r \in HeldCerts : Follows(report[o].host, r, report[o].previous)'
                        /\ report'[o].at = "bind" =>
                              /\ \A r \in HeldCerts \ report'[o].todo : Follows(report[o].host, r, report[o].says)'
                              /\ \A r \in report'[o].todo : r \in RecsOf(report[o].previous) => Follows(report[o].host, r, report[o].previous)'
      BY <1>2 DEF BindingsBetween
    <2>1. \A q \in Reports : report'[q].host = report'[o].host => q = o
      BY <1>2 DEF ReportsInv, BindingsBetween
    <2>2. CASE o = p
      BY <2>1, <2>2
    <2>3. ASSUME o # p
          PROVE  /\ report'[o].at = "replace" => installed'[report'[o].host] = report'[o].previous
                 /\ report'[o].at # "replace" => installed'[report'[o].host] = report'[o].says
                 /\ report'[o].at \in {"replace", "prune"} =>
                       \A r \in HeldCerts : Follows(report[o].host, r, report[o].previous)'
                 /\ report'[o].at = "bind" =>
                       /\ \A r \in HeldCerts \ report'[o].todo : Follows(report[o].host, r, report[o].says)'
                       /\ \A r \in report'[o].todo : r \in RecsOf(report[o].previous) => Follows(report[o].host, r, report[o].previous)'
      <3>1. report'[o] = report[o] /\ report[o].host \in ReportingHosts /\ report[o].host \notin muddled
        BY <2>3
      <3>2. report[o].host # report[p].host
        BY <2>3, <2>1, <1>2
      <3>3. installed'[report[o].host] = installed[report[o].host]
        BY <3>1, <3>2 DEF OthersKept
      <3>4. \A r \in HeldCerts : /\ Follows(report[o].host, r, report[o].previous)' <=> Follows(report[o].host, r, report[o].previous)
                                 /\ Follows(report[o].host, r, report[o].says)' <=> Follows(report[o].host, r, report[o].says)
        <4> SUFFICES ASSUME NEW r \in HeldCerts
                     PROVE  /\ Follows(report[o].host, r, report[o].previous)' <=> Follows(report[o].host, r, report[o].previous)
                            /\ Follows(report[o].host, r, report[o].says)' <=> Follows(report[o].host, r, report[o].says)
          OBVIOUS
        <4>1. PICK h, g, a, b : h = report[p].host /\ g = report[o].host /\ a = report[o].previous /\ b = report[o].says
          OBVIOUS
        <4>2. OthersKept(h) /\ g \in ReportingHosts \ {h}
          BY <4>1, <3>1, <3>2
        <4> HIDE DEF OthersKept, Follows
        <4>3. (Follows(g, r, a)' <=> Follows(g, r, a)) /\ (Follows(g, r, b)' <=> Follows(g, r, b))
          BY <4>2, OthersFollow
        <4> QED
          BY <4>1, <4>3, <3>1
      <3>5. report[o].todo \subseteq HeldCerts
        BY DEF ReportsInv, ReportsTypeOK
      <3> QED
        BY <3>1, <3>3, <3>4, <3>5 DEF ReportsInv, BindingsBetween
    <2> QED
      BY <2>1, <2>2, <2>3
  <1>5. BindingsFollowReport'
    <2> SUFFICES ASSUME NEW g \in ReportingHosts \ muddled, \A o \in Reports : report[o].host # g, NEW r \in HeldCerts
                 PROVE  Follows(g, r, installed[g])'
      BY <1>2 DEF BindingsFollowReport
    <2>1. PICK h, a : h = report[p].host /\ a = installed[g]
      OBVIOUS
    <2>2. OthersKept(h) /\ g \in ReportingHosts \ {h}
      BY <2>1
    <2>3. Follows(g, r, a)' <=> Follows(g, r, a)
      BY <2>2, OthersFollow
    <2>4. Follows(g, r, a)
      BY <2>1 DEF ReportsInv, BindingsFollowReport
    <2>5. installed'[g] = a
      BY <2>1, <2>2 DEF OthersKept
    <2> QED
      BY <2>3, <2>4, <2>5
  <1> QED
    BY <1>1, <1>4, <1>5
\* A report ends: its host, unless something was cut short, has what it said.
LEMMA ReportEnds ==
    ASSUME ReportsInv, NEW p \in Reports, report[p].at # "idle", NEW h, h = report[p].host,
           muddled' \in {muddled, muddled \cup {h}},
           OthersKept(h), report' = [report EXCEPT ![p] = NoReport],
           h \notin muddled' => \A r \in HeldCerts : Follows(h, r, installed[h])'
    PROVE  (installed' \in [ReportingHosts -> ReportSet \cup {NoInstalls}] => ReportsShaped') /\ BindingsBetween' /\ BindingsFollowReport'
  <1>1. report' \in [Reports -> ReportState] /\ \A o \in Reports : report'[o] = IF o = p THEN NoReport ELSE report[o]
    BY NoReportShaped DEF ReportsInv, ReportsShaped
  <1>2. installed' \in [ReportingHosts -> ReportSet \cup {NoInstalls}] => ReportsShaped'
    BY <1>1, NoReportShaped DEF ReportsInv, ReportsShaped
  <1>3. h \in ReportingHosts
    BY DEF ReportsInv, ReportsShaped
  <1>4. BindingsBetween'
    <2> SUFFICES ASSUME NEW o \in Reports, report'[o].host \in ReportingHosts, report'[o].host \notin muddled'
                 PROVE  /\ \A q \in Reports : report'[q].host = report'[o].host => q = o
                        /\ report'[o].at = "replace" => installed'[report'[o].host] = report'[o].previous
                        /\ report'[o].at # "replace" => installed'[report'[o].host] = report'[o].says
                        /\ report'[o].at \in {"replace", "prune"} =>
                              \A r \in HeldCerts : Follows(report[o].host, r, report[o].previous)'
                        /\ report'[o].at = "bind" =>
                              /\ \A r \in HeldCerts \ report'[o].todo : Follows(report[o].host, r, report[o].says)'
                              /\ \A r \in report'[o].todo : r \in RecsOf(report'[o].previous) => Follows(report[o].host, r, report[o].previous)'
      BY DEF BindingsBetween
    <2>1. o # p /\ report'[o] = report[o] /\ report[o].host \in ReportingHosts /\ report[o].host \notin muddled
      BY <1>1, NoReportShaped
    <2>2. \A q \in Reports : report[q].host = report[o].host => q = o
      BY <2>1 DEF ReportsInv, BindingsBetween
    <2>3. report[o].host # h
      BY <2>1, <2>2
    <2>4. \A q \in Reports : report'[q].host = report'[o].host => q = o
      BY <2>1, <2>2, <1>1, NoReportShaped
    <2>5. installed'[report[o].host] = installed[report[o].host]
      BY <2>1, <2>3, <1>3 DEF OthersKept
    <2>6. \A r \in HeldCerts : /\ Follows(report[o].host, r, report[o].previous)' <=> Follows(report[o].host, r, report[o].previous)
                               /\ Follows(report[o].host, r, report[o].says)' <=> Follows(report[o].host, r, report[o].says)
      <3> SUFFICES ASSUME NEW r \in HeldCerts
                   PROVE  /\ Follows(report[o].host, r, report[o].previous)' <=> Follows(report[o].host, r, report[o].previous)
                          /\ Follows(report[o].host, r, report[o].says)' <=> Follows(report[o].host, r, report[o].says)
        OBVIOUS
      <3>1. PICK g, a, b : g = report[o].host /\ a = report[o].previous /\ b = report[o].says
        OBVIOUS
      <3>2. g \in ReportingHosts \ {h}
        BY <3>1, <2>1, <2>3
      <3> HIDE DEF OthersKept, Follows
      <3>3. (Follows(g, r, a)' <=> Follows(g, r, a)) /\ (Follows(g, r, b)' <=> Follows(g, r, b))
        BY <3>2, <1>3, OthersFollow
      <3> QED
        BY <3>1, <3>3, <2>1
    <2>7. report[o].todo \subseteq HeldCerts
      BY DEF ReportsInv, ReportsTypeOK
    <2> QED
      BY <2>1, <2>4, <2>5, <2>6, <2>7 DEF ReportsInv, BindingsBetween
  <1>5. BindingsFollowReport'
    <2> SUFFICES ASSUME NEW g \in ReportingHosts \ muddled', \A o \in Reports : report'[o].host # g, NEW r \in HeldCerts
                 PROVE  Follows(g, r, installed[g])'
      BY DEF BindingsFollowReport
    <2>1. CASE g = h
      BY <2>1
    <2>2. ASSUME g # h PROVE Follows(g, r, installed[g])'
      <3>1. PICK a : a = installed[g]
        OBVIOUS
      <3>2. g \in ReportingHosts \ {h} /\ g \notin muddled
        BY <2>2
      <3>3. Follows(g, r, a)' <=> Follows(g, r, a)
        BY <3>2, <1>3, OthersFollow
      <3>4. \A o \in Reports : report[o].host # g
        BY <1>1, <2>2
      <3>5. Follows(g, r, a)
        BY <3>1, <3>2, <3>4 DEF ReportsInv, BindingsFollowReport
      <3>6. installed'[g] = a
        BY <3>1, <3>2, <1>3 DEF OthersKept
      <3> QED
        BY <3>3, <3>5, <3>6
    <2> QED
      BY <2>1, <2>2
  <1> QED
    BY <1>2, <1>4, <1>5

\* The types of what a report of p may change.
LEMMA ReportTypes ==
    ASSUME ReportsInv, UNCHANGED scanVars, UNCHANGED reportCount,
           \A h \in ReportingHosts : installed'[h] \in ReportSet \cup {NoInstalls},
           binding' \in [ReportingHosts -> [HeldCerts -> BindingRow]],
           \A p \in Reports : report'[p].todo \subseteq HeldCerts,
           muddled' \subseteq ReportingHosts, regrouped' \subseteq ReportingHosts \X HeldCerts
    PROVE  ReportsTypeOK'
  BY InstallsLeaveScans DEF ReportsInv, ReportsTypeOK

\* The rows of the host are replaced by what it reported.
LEMMA ReplaceInv ==
    ASSUME ReportsInv, NEW p \in Reports, ReplaceAgentInstallations(p)
    PROVE  ReportsInv'
  <1>1. /\ UNCHANGED <<binding, muddled, regrouped, reportCount>> /\ UNCHANGED scanVars /\ report[p].at = "replace"
    BY DEF ReplaceAgentInstallations
  <1>2. PICK h, says : h = report[p].host /\ says = report[p].says
    OBVIOUS
  <1>3. h \in ReportingHosts /\ says \in ReportSet /\ report[p] \in ReportState
    BY <1>1, <1>2 DEF ReportsInv, ReportsShaped
  <1>4. installed' = [installed EXCEPT ![h] = says]
    BY <1>2 DEF ReplaceAgentInstallations
  <1>5. /\ installed' \in [ReportingHosts -> ReportSet \cup {NoInstalls}]
        /\ installed'[h] = says /\ \A g \in ReportingHosts \ {h} : installed'[g] = installed[g]
    BY <1>3, <1>4 DEF ReportsInv, ReportsShaped
  <1>6. OthersKept(h)
    BY <1>1, <1>5 DEF OthersKept
  <1>7. report' = [report EXCEPT ![p] = IF says = NoInstalls THEN NoReport ELSE [report[p] EXCEPT !.at = "prune"]]
    BY <1>2 DEF ReplaceAgentInstallations
  <1>8. ReportsShaped' /\ BindingsBetween' /\ BindingsFollowReport'
    <2>1. ASSUME says = NoInstalls PROVE ReportsShaped' /\ BindingsBetween' /\ BindingsFollowReport'
      <3>1. \A r \in HeldCerts : Follows(h, r, installed[h])'
        BY <1>5, <2>1, ReportSays DEF Follows
      <3>2. report' = [report EXCEPT ![p] = NoReport] /\ report[p].at # "idle" /\ muddled' \in {muddled, muddled \cup {h}}
        BY <1>1, <1>7, <2>1
      <3> QED
        BY <1>2, <1>5, <1>6, <3>1, <3>2, ReportEnds
    <2>2. ASSUME says # NoInstalls PROVE ReportsShaped' /\ BindingsBetween' /\ BindingsFollowReport'
      <3>1. PICK new : new = [report[p] EXCEPT !.at = "prune"]
        OBVIOUS
      <3>2. /\ new \in ReportState /\ new.at = "prune" /\ new.host = h /\ new.says = says /\ new.previous = report[p].previous
            /\ new.todo = report[p].todo
        BY <3>1, <1>2, <1>3 DEF ReportState
      <3>3. report' = [report EXCEPT ![p] = new]
        BY <3>1, <1>7, <2>2
      <3>4. report' \in [Reports -> ReportState] /\ \A o \in Reports : report'[o] = IF o = p THEN new ELSE report[o]
        BY <3>2, <3>3 DEF ReportsInv, ReportsShaped
      <3>5. new.todo \subseteq RecsOf(new.says)
        BY <3>2, <1>2 DEF ReportsInv, ReportsShaped
      <3>6. ASSUME h \notin muddled
            PROVE  \A r \in HeldCerts : Follows(h, r, new.previous)'
        <4>1. \A r \in HeldCerts : Follows(h, r, new.previous)
          BY <3>2, <3>6, <1>1, <1>2, <1>3 DEF ReportsInv, BindingsBetween
        <4> QED
          BY <4>1, <1>1 DEF Follows
      <3>7. new.host \in ReportingHosts \ muddled =>
               /\ installed'[new.host] = new.says
               /\ new.at = "prune" => \A r \in HeldCerts : Follows(new.host, r, new.previous)'
               /\ new.at = "bind" => /\ \A r \in HeldCerts \ new.todo : Follows(new.host, r, new.says)'
                                     /\ \A r \in new.todo : r \in RecsOf(new.previous) => Follows(new.host, r, new.previous)'
        BY <3>2, <3>6, <1>5
      <3> QED
        BY <1>1, <1>2, <1>5, <1>6, <2>2, <3>2, <3>4, <3>5, <3>7, ReportGoesOn
    <2> QED
      BY <2>1, <2>2
  <1>9. ReportsTypeOK'
    <2>1. \A o \in Reports : report'[o].todo \subseteq HeldCerts
      BY <1>7, <1>3, NoReportShaped DEF ReportsInv, ReportsShaped, ReportsTypeOK, ReportState
    <2> QED
      BY <1>1, <1>5, <2>1, ReportTypes DEF ReportsInv, ReportsTypeOK
  <1> QED
    BY <1>1, <1>8, <1>9, InstallsLeaveScans DEF ReportsInv

\* Bindings of certificates the report no longer names are pruned.
LEMMA PruneInv ==
    ASSUME ReportsInv, NEW p \in Reports, PruneAgentBindings(p)
    PROVE  ReportsInv'
  <1>1. /\ UNCHANGED <<installed, muddled, regrouped, reportCount>> /\ UNCHANGED scanVars /\ report[p].at = "prune"
    BY DEF PruneAgentBindings
  <1>2. PICK h, says : h = report[p].host /\ says = report[p].says
    OBVIOUS
  <1>3. h \in ReportingHosts /\ says \in ReportSet /\ report[p] \in ReportState /\ says # NoInstalls
    BY <1>1, <1>2 DEF ReportsInv, ReportsShaped
  <1>4. PICK row : row = [r \in HeldCerts |-> IF r \in RecsOf(says) THEN binding[h][r] ELSE NoBinding]
    OBVIOUS
  <1>5. binding' = [binding EXCEPT ![h] = row]
    BY <1>2, <1>4 DEF PruneAgentBindings, Pruned
  <1>6. /\ binding \in [ReportingHosts -> [HeldCerts -> BindingRow]]
        /\ NoBinding \in BindingRow
    BY DEF ReportsInv, ReportsTypeOK, NoBinding, BindingRow
  <1>7. row \in [HeldCerts -> BindingRow]
    BY <1>3, <1>4, <1>6
  <1>8. /\ binding' \in [ReportingHosts -> [HeldCerts -> BindingRow]]
        /\ binding'[h] = row /\ \A g \in ReportingHosts \ {h} : binding'[g] = binding[g]
    BY <1>3, <1>5, <1>6, <1>7
  <1>9. OthersKept(h)
    BY <1>1, <1>8 DEF OthersKept
  <1>10. PICK new : new = [report[p] EXCEPT !.at = "bind", !.todo = RecsOf(says)]
    OBVIOUS
  <1>11. RecsOf(says) \subseteq HeldCerts
    BY <1>3, ReportSays
  <1>12. /\ new \in ReportState /\ new.at = "bind" /\ new.host = h /\ new.says = says /\ new.previous = report[p].previous
         /\ new.todo = RecsOf(says)
    BY <1>10, <1>2, <1>3, <1>11 DEF ReportState
  <1>13. report' = [report EXCEPT ![p] = new]
    BY <1>2, <1>10 DEF PruneAgentBindings
  <1>14. report' \in [Reports -> ReportState] /\ \A o \in Reports : report'[o] = IF o = p THEN new ELSE report[o]
    BY <1>12, <1>13 DEF ReportsInv, ReportsShaped
  <1>15. ASSUME h \notin muddled
         PROVE  /\ \A r \in HeldCerts \ RecsOf(says) : Follows(h, r, says)'
                /\ \A r \in RecsOf(says) : r \in RecsOf(new.previous) => Follows(h, r, new.previous)'
    <2>1. \A r \in HeldCerts : Follows(h, r, new.previous)
      BY <1>12, <1>15, <1>1, <1>2, <1>3 DEF ReportsInv, BindingsBetween
    <2>2. \A r \in HeldCerts \ RecsOf(says) : Follows(h, r, says)'
      BY <1>4, <1>8 DEF Follows
    <2>3. ASSUME NEW r \in RecsOf(says), r \in RecsOf(new.previous) PROVE Follows(h, r, new.previous)'
      <3>1. binding'[h][r] = binding[h][r]
        BY <1>4, <1>8, <1>11
      <3> QED
        BY <2>1, <2>3, <3>1, <1>1, <1>11 DEF Follows
    <2> QED
      BY <2>2, <2>3
  <1>16. new.host \in ReportingHosts \ muddled =>
            /\ installed'[new.host] = new.says
            /\ new.at = "prune" => \A r \in HeldCerts : Follows(new.host, r, new.previous)'
            /\ new.at = "bind" => /\ \A r \in HeldCerts \ new.todo : Follows(new.host, r, new.says)'
                                  /\ \A r \in new.todo : r \in RecsOf(new.previous) => Follows(new.host, r, new.previous)'
    <2>1. h \notin muddled => installed'[h] = says
      BY <1>1, <1>2, <1>3 DEF ReportsInv, BindingsBetween
    <2> QED
      BY <2>1, <1>12, <1>15
  <1>17. installed' \in [ReportingHosts -> ReportSet \cup {NoInstalls}]
    BY <1>1 DEF ReportsInv, ReportsShaped
  <1>18. ReportsShaped' /\ BindingsBetween' /\ BindingsFollowReport'
    BY <1>1, <1>2, <1>3, <1>9, <1>12, <1>14, <1>16, <1>17, ReportGoesOn
  <1>19. ReportsTypeOK'
    <2>1. \A o \in Reports : report'[o].todo \subseteq HeldCerts
      BY <1>11, <1>12, <1>14 DEF ReportsInv, ReportsTypeOK
    <2> QED
      BY <1>1, <1>8, <1>17, <2>1, ReportTypes DEF ReportsInv, ReportsTypeOK
  <1> QED
    BY <1>1, <1>18, <1>19, InstallsLeaveScans DEF ReportsInv

\* The outcome that bindingOutcome gives r follows the report, and so does the
\* binding that is left as it is while its destinations are the same ones.
LEMMA OutcomeFollows ==
    ASSUME NEW h, NEW says \in ReportSet, NEW r \in RecsOf(says), NEW held \in Prints \cup {Nil},
           binding'[h][r] = OutcomeOf(says, r, held)
    PROVE  Follows(h, r, says)' /\ OutcomeOf(says, r, held) \in BindingRow
  <1>1. PICK d \in DOMAIN says : says[d].rec = r
    BY DEF RecsOf
  <1>2. PlacesOf(says, r) # {} /\ \A e \in PlacesOf(says, r) : says[e].fp \in Prints \cup {Nil}
    BY <1>1, ReportSays DEF PlacesOf
  <1>3. CASE \A e \in PlacesOf(says, r) : says[e].ok
    <2>1. PICK e : e = CHOOSE x \in PlacesOf(says, r) : TRUE
      OBVIOUS
    <2>2. e \in PlacesOf(says, r) /\ OutcomeOf(says, r, held) = [status |-> "DEPLOYED", fp |-> says[e].fp]
      BY <2>1, <1>2, <1>3 DEF OutcomeOf
    <2> QED
      BY <1>2, <1>3, <2>2 DEF Follows, BindingRow
  <1>4. CASE ~ \A e \in PlacesOf(says, r) : says[e].ok
    <2>1. OutcomeOf(says, r, held) = [status |-> "FAILED", fp |-> held]
      BY <1>4 DEF OutcomeOf
    <2> QED
      BY <1>4, <2>1 DEF Follows, BindingRow
  <1> QED
    BY <1>3, <1>4

\* A binding that bindingOutcome finds unchanged follows the new report as it followed
\* the previous one, if the same destinations count for it.
LEMMA UnchangedFollows ==
    ASSUME NEW h, NEW previous \in ReportSet \cup {NoInstalls}, NEW says \in ReportSet, NEW r \in RecsOf(says),
           \A d \in PlacesOf(says, r) : /\ d \in DOMAIN previous /\ (previous[d].ok <=> says[d].ok)
                                        /\ previous[d].fp = says[d].fp,
           PlacesOf(previous, r) = PlacesOf(says, r),
           r \in RecsOf(previous) => Follows(h, r, previous)
    PROVE  Follows(h, r, says) /\ (binding[h][r].status = "none" => <<h, r>> \in regrouped)
  <1>1. PICK d \in DOMAIN says : says[d].rec = r /\ r # Nil
    BY DEF RecsOf
  <1>2. d \in DOMAIN previous /\ previous[d].rec = r
    BY <1>1 DEF PlacesOf
  <1>3. r \in RecsOf(previous)
    BY <1>1, <1>2 DEF RecsOf
  <1>4. \A e \in PlacesOf(says, r) : (previous[e].ok <=> says[e].ok) /\ previous[e].fp = says[e].fp
    BY Zenon
  <1>5. CASE <<h, r>> \in regrouped
    BY <1>5 DEF Follows
  <1>6. CASE <<h, r>> \notin regrouped
    <2> DEFINE P == PlacesOf(previous, r)
    <2>0. IF \A e \in P : previous[e].ok
          THEN \E e \in P : binding[h][r] = [status |-> "DEPLOYED", fp |-> previous[e].fp]
          ELSE binding[h][r].status = "FAILED"
      <3>1. Follows(h, r, previous)
        BY <1>3
      <3> QED
        BY <3>1, <1>3, <1>6 DEF Follows
    <2>1. IF \A e \in PlacesOf(says, r) : previous[e].ok
          THEN \E e \in PlacesOf(says, r) : binding[h][r] = [status |-> "DEPLOYED", fp |-> previous[e].fp]
          ELSE binding[h][r].status = "FAILED"
      BY <2>0
    <2>2. IF \A e \in PlacesOf(says, r) : says[e].ok
          THEN \E e \in PlacesOf(says, r) : binding[h][r] = [status |-> "DEPLOYED", fp |-> says[e].fp]
          ELSE binding[h][r].status = "FAILED"
      <3>1. (\A e \in PlacesOf(says, r) : previous[e].ok) <=> (\A e \in PlacesOf(says, r) : says[e].ok)
        BY <1>4, Zenon
      <3>2. (\A e \in PlacesOf(says, r) : says[e].ok) =>
               \E e \in PlacesOf(says, r) : binding[h][r] = [status |-> "DEPLOYED", fp |-> previous[e].fp]
        BY <2>1, <3>1, Zenon
      <3>3. ~ (\A e \in PlacesOf(says, r) : says[e].ok) => binding[h][r].status = "FAILED"
        BY <2>1, <3>1, Zenon
      <3>4. (\A e \in PlacesOf(says, r) : says[e].ok) =>
               \E e \in PlacesOf(says, r) : binding[h][r] = [status |-> "DEPLOYED", fp |-> says[e].fp]
        BY <3>2, <1>4
      <3> QED
        BY <3>3, <3>4, Zenon
    <2>3. binding[h][r].status # "none"
      <3>1. (\E e \in PlacesOf(says, r) : binding[h][r] = [status |-> "DEPLOYED", fp |-> says[e].fp])
            \/ binding[h][r].status = "FAILED"
        BY <2>2, Zenon
      <3>2. ASSUME NEW e \in PlacesOf(says, r), binding[h][r] = [status |-> "DEPLOYED", fp |-> says[e].fp]
            PROVE  binding[h][r].status = "DEPLOYED"
        BY <3>2
      <3> QED
        BY <3>1, <3>2
    <2> QED
      BY <2>2, <2>3 DEF Follows
  <1> QED
    BY <1>5, <1>6

\* One certificate's binding is reconciled with the report (reconcileBinding).
LEMMA ReconcileInv ==
    ASSUME ReportsInv, NEW p \in Reports, ReconcileBinding(p)
    PROVE  ReportsInv'
  <1>1. /\ UNCHANGED <<installed, muddled, reportCount>> /\ UNCHANGED scanVars /\ report[p].at = "bind"
    BY DEF ReconcileBinding
  <1>2. PICK h, says, previous, todo : h = report[p].host /\ says = report[p].says /\ previous = report[p].previous
                                       /\ todo = report[p].todo
    OBVIOUS
  <1>3. /\ h \in ReportingHosts /\ says \in ReportSet /\ report[p] \in ReportState /\ says # NoInstalls
        /\ previous \in ReportSet \cup {NoInstalls} /\ todo \subseteq RecsOf(says) /\ todo \subseteq HeldCerts
    BY <1>1, <1>2 DEF ReportsInv, ReportsShaped, ReportsTypeOK
  <1>4. h \notin muddled => /\ installed[h] = says
                            /\ \A r \in HeldCerts \ todo : Follows(h, r, says)
                            /\ \A r \in todo : r \in RecsOf(previous) => Follows(h, r, previous)
    BY <1>1, <1>2, <1>3 DEF ReportsInv, BindingsBetween
  <1>5. /\ binding \in [ReportingHosts -> [HeldCerts -> BindingRow]] /\ regrouped \subseteq ReportingHosts \X HeldCerts
        /\ installed' \in [ReportingHosts -> ReportSet \cup {NoInstalls}]
    BY <1>1 DEF ReportsInv, ReportsTypeOK, ReportsShaped
  <1>6. ASSUME NEW r \in todo,
               binding' = [binding EXCEPT ![h][r] =
                   IF Changed(report[p], r) THEN OutcomeOf(says, r, @.fp)
                   ELSE IF @.status = "none" THEN [status |-> "PENDING", fp |-> Nil] ELSE @],
               regrouped' = IF Changed(report[p], r) THEN regrouped \ {<<h, r>>}
                            ELSE IF PlacesOf(previous, r) = PlacesOf(says, r) THEN regrouped
                            ELSE regrouped \cup {<<h, r>>},
               report' = [report EXCEPT ![p].todo = @ \ {r}]
        PROVE  ReportsInv'
    <2>1. PICK new : new = IF Changed(report[p], r) THEN OutcomeOf(says, r, binding[h][r].fp)
                           ELSE IF binding[h][r].status = "none" THEN [status |-> "PENDING", fp |-> Nil] ELSE binding[h][r]
      OBVIOUS
    <2>2. binding' = [binding EXCEPT ![h][r] = new]
      BY <1>6, <2>1
    <2>3. r \in RecsOf(says) /\ r \in HeldCerts
      BY <1>3
    <2>4. binding[h][r] \in BindingRow /\ binding[h][r].fp \in Prints \cup {Nil}
      BY <1>3, <1>5, <2>3 DEF BindingRow
    <2>5. DOMAIN binding = ReportingHosts /\ DOMAIN binding[h] = HeldCerts
      BY <1>3, <1>5
    <2>6. binding'[h][r] = new /\ \A q \in HeldCerts \ {r} : binding'[h][q] = binding[h][q]
      BY <2>2, <2>3, <2>5, <1>3
    <2>7. \A g \in ReportingHosts \ {h} : binding'[g] = binding[g]
      BY <2>2, <2>5
    <2>8. new \in BindingRow
      <3>1. Changed(report[p], r) => new \in BindingRow
        <4>1. ASSUME Changed(report[p], r) PROVE OutcomeOf(says, r, binding[h][r].fp) \in BindingRow
          <5>1. binding'[h][r] = OutcomeOf(says, r, binding[h][r].fp)
            BY <4>1, <2>1, <2>6
          <5> QED
            BY <5>1, <1>3, <2>3, <2>4, OutcomeFollows
        <4> QED
          BY <4>1, <2>1
      <3>2. [status |-> "PENDING", fp |-> Nil] \in BindingRow
        BY DEF BindingRow
      <3> QED
        BY <3>1, <3>2, <2>1, <2>4
    <2>9. binding' \in [ReportingHosts -> [HeldCerts -> BindingRow]]
      BY <2>2, <2>8, <1>3, <1>5, <2>3
    <2>10. regrouped' \subseteq ReportingHosts \X HeldCerts
      BY <1>3, <1>5, <1>6, <2>3
    <2>11. OthersKept(h) /\ \A q \in HeldCerts \ {r} : <<h, q>> \in regrouped' <=> <<h, q>> \in regrouped
      BY <1>1, <1>6, <2>7 DEF OthersKept
    <2>12. ASSUME h \notin muddled PROVE Follows(h, r, says)'
      <3>1. ASSUME Changed(report[p], r) PROVE Follows(h, r, says)'
        <4>1. binding'[h][r] = OutcomeOf(says, r, binding[h][r].fp)
          BY <3>1, <2>1, <2>6
        <4> QED
          BY <4>1, <1>3, <2>3, <2>4, OutcomeFollows
      <3>2. ASSUME ~Changed(report[p], r), PlacesOf(previous, r) # PlacesOf(says, r) PROVE Follows(h, r, says)'
        BY <3>2, <1>6, <2>3 DEF Follows
      <3>3. ASSUME ~Changed(report[p], r), PlacesOf(previous, r) = PlacesOf(says, r) PROVE Follows(h, r, says)'
        <4>1. \A d \in PlacesOf(says, r) : /\ d \in DOMAIN previous /\ (previous[d].ok <=> says[d].ok)
                                           /\ previous[d].fp = says[d].fp
          <5> SUFFICES ASSUME NEW d \in PlacesOf(says, r)
                       PROVE  d \in DOMAIN previous /\ (previous[d].ok <=> says[d].ok) /\ previous[d].fp = says[d].fp
            OBVIOUS
          <5>1. ~ (d \notin DOMAIN previous) /\ ~ (d \in DOMAIN previous /\ (previous[d].ok # says[d].ok \/ previous[d].fp # says[d].fp))
            BY <3>3, <1>2, Zenon DEF Changed
          <5>2. d \in DOMAIN previous /\ previous[d].ok = says[d].ok /\ previous[d].fp = says[d].fp
            BY <5>1, Zenon
          <5> QED
            BY <5>2, Zenon
        <4>2. r \in RecsOf(previous) => Follows(h, r, previous)
          BY <1>4, <2>12
        <4>3. Follows(h, r, says) /\ (binding[h][r].status = "none" => <<h, r>> \in regrouped)
          BY <3>3, <4>1, <4>2, <1>3, <2>3, UnchangedFollows
        <4>4. regrouped' = regrouped
          BY <3>3, <1>6
        <4>5. CASE binding[h][r].status = "none"
          BY <4>3, <4>4, <4>5, <2>3 DEF Follows
        <4>6. CASE binding[h][r].status # "none"
          <5>1. binding'[h][r] = binding[h][r]
            BY <4>6, <3>3, <2>1, <2>6
          <5> QED
            BY <4>3, <4>4, <5>1 DEF Follows
        <4> QED
          BY <4>5, <4>6
      <3> QED
        BY <3>1, <3>2, <3>3
    <2>13. PICK newrep : newrep = [report[p] EXCEPT !.todo = todo \ {r}]
      OBVIOUS
    <2>14. /\ newrep \in ReportState /\ newrep.at = "bind" /\ newrep.host = h /\ newrep.says = says
           /\ newrep.previous = previous /\ newrep.todo = todo \ {r}
      BY <2>13, <1>1, <1>2, <1>3 DEF ReportState
    <2>15. report' = [report EXCEPT ![p] = newrep]
      BY <2>13, <1>6, <1>2
    <2>16. report' \in [Reports -> ReportState] /\ \A o \in Reports : report'[o] = IF o = p THEN newrep ELSE report[o]
      BY <2>14, <2>15 DEF ReportsInv, ReportsShaped
    <2>17. ASSUME h \notin muddled
           PROVE  /\ \A q \in HeldCerts \ newrep.todo : Follows(h, q, says)'
                  /\ \A q \in newrep.todo : q \in RecsOf(previous) => Follows(h, q, previous)'
      <3>1. ASSUME NEW q \in HeldCerts, q # r PROVE (Follows(h, q, says)' <=> Follows(h, q, says)) /\ (Follows(h, q, previous)' <=> Follows(h, q, previous))
        <4>1. binding'[h][q] = binding[h][q] /\ (<<h, q>> \in regrouped' <=> <<h, q>> \in regrouped)
          BY <3>1, <2>6, <2>11
        <4> QED
          BY <4>1 DEF Follows
      <3>2. ASSUME NEW q \in HeldCerts \ newrep.todo PROVE Follows(h, q, says)'
        <4>1. CASE q = r
          BY <4>1, <2>12, <2>17
        <4>2. CASE q # r
          BY <4>2, <3>1, <3>2, <1>4, <2>14, <2>17
        <4> QED
          BY <4>1, <4>2
      <3>3. ASSUME NEW q \in newrep.todo, q \in RecsOf(previous) PROVE Follows(h, q, previous)'
        BY <3>1, <3>3, <1>3, <1>4, <2>14, <2>17
      <3> QED
        BY <3>2, <3>3
    <2>18. newrep.host \in ReportingHosts \ muddled =>
              /\ installed'[newrep.host] = newrep.says
              /\ newrep.at = "prune" => \A q \in HeldCerts : Follows(newrep.host, q, newrep.previous)'
              /\ newrep.at = "bind" => /\ \A q \in HeldCerts \ newrep.todo : Follows(newrep.host, q, newrep.says)'
                                       /\ \A q \in newrep.todo : q \in RecsOf(newrep.previous) => Follows(newrep.host, q, newrep.previous)'
      BY <1>1, <1>4, <2>14, <2>17
    <2>19. newrep.todo \subseteq RecsOf(newrep.says)
      BY <1>3, <2>14
    <2>20. ReportsShaped' /\ BindingsBetween' /\ BindingsFollowReport'
      BY <1>1, <1>2, <1>3, <1>5, <2>11, <2>14, <2>16, <2>18, <2>19, ReportGoesOn
    <2>21. ReportsTypeOK'
      <3>1. \A o \in Reports : report'[o].todo \subseteq HeldCerts
        BY <1>3, <2>14, <2>16 DEF ReportsInv, ReportsTypeOK
      <3> QED
        BY <1>1, <1>5, <2>9, <2>10, <3>1, ReportTypes DEF ReportsInv, ReportsTypeOK
    <2> QED
      BY <1>1, <2>20, <2>21, InstallsLeaveScans DEF ReportsInv
  <1>7. ASSUME todo = {}, report' = [report EXCEPT ![p] = NoReport], UNCHANGED <<binding, regrouped>>
        PROVE  ReportsInv'
    <2>1. OthersKept(h)
      BY <1>1, <1>7 DEF OthersKept
    <2>2. h \notin muddled' => \A r \in HeldCerts : Follows(h, r, installed[h])'
      <3>1. h \notin muddled => \A r \in HeldCerts : Follows(h, r, says)
        BY <1>4, <1>7
      <3>2. h \notin muddled => \A r \in HeldCerts : Follows(h, r, says)'
        BY <3>1, <1>7 DEF Follows
      <3> QED
        BY <3>2, <1>1, <1>4 DEF Follows
    <2>3. report[p].at # "idle" /\ muddled' \in {muddled, muddled \cup {h}}
      BY <1>1
    <2>4. ReportsShaped' /\ BindingsBetween' /\ BindingsFollowReport'
      BY <1>2, <1>5, <1>7, <2>1, <2>2, <2>3, ReportEnds
    <2>5. ReportsTypeOK'
      <3>1. \A o \in Reports : report'[o].todo \subseteq HeldCerts
        BY <1>7, NoReportShaped DEF ReportsInv, ReportsTypeOK, ReportsShaped
      <3> QED
        BY <1>1, <1>5, <1>7, <3>1, ReportTypes DEF ReportsInv, ReportsTypeOK
    <2> QED
      BY <1>1, <2>4, <2>5, InstallsLeaveScans DEF ReportsInv
  <1> QED
    BY <1>2, <1>6, <1>7 DEF ReconcileBinding

\* A report that fails half-way leaves its host's bindings to the next one.
LEMMA CutShortInv ==
    ASSUME ReportsInv, NEW p \in Reports, ReportCutShort(p)
    PROVE  ReportsInv'
  <1>1. /\ UNCHANGED <<installed, binding, regrouped, reportCount>> /\ UNCHANGED scanVars /\ report[p].at # "idle"
        /\ report' = [report EXCEPT ![p] = NoReport]
    BY DEF ReportCutShort
  <1>2. PICK h : h = report[p].host
    OBVIOUS
  <1>3. muddled' = muddled \cup {h} /\ h \in ReportingHosts
    BY <1>1, <1>2 DEF ReportCutShort, ReportsInv, ReportsShaped
  <1>4. OthersKept(h)
    BY <1>1 DEF OthersKept
  <1>5. installed' \in [ReportingHosts -> ReportSet \cup {NoInstalls}]
    BY <1>1 DEF ReportsInv, ReportsShaped
  <1>6. h \in muddled' /\ muddled' \in {muddled, muddled \cup {h}}
    BY <1>3
  <1>7. ReportsShaped' /\ BindingsBetween' /\ BindingsFollowReport'
    BY <1>1, <1>2, <1>4, <1>5, <1>6, ReportEnds
  <1>8. ReportsTypeOK'
    <2>1. \A o \in Reports : report'[o].todo \subseteq HeldCerts
      BY <1>1, NoReportShaped DEF ReportsInv, ReportsTypeOK, ReportsShaped
    <2> QED
      BY <1>1, <1>3, <1>5, <2>1, ReportTypes DEF ReportsInv, ReportsTypeOK
  <1> QED
    BY <1>1, <1>7, <1>8, InstallsLeaveScans DEF ReportsInv

\* What a handler of scans leaves alone.
LEMMA ScansLeaveInstalls ==
    ASSUME ReportsInv, UNCHANGED installVars, reportCount' \in 0..MaxReports,
           file' \in [ReportingHosts -> [Files -> FileState]], scan' \in [ReportingHosts -> ScanState],
           whole' \subseteq ReportingHosts, ScansInOrder'
    PROVE  ReportsInv'
  <1>1. ReportsTypeOK'
    BY DEF ReportsInv, ReportsTypeOK, installVars
  <1>2. ReportsShaped'
    BY DEF ReportsInv, ReportsShaped, installVars
  <1>3. UNCHANGED <<installed, binding, regrouped, report, muddled>>
    BY DEF installVars
  <1>4. BindingsBetween' /\ BindingsFollowReport'
    BY <1>3 DEF ReportsInv, BindingsBetween, BindingsFollowReport, Follows
  <1> QED
    BY <1>1, <1>2, <1>4 DEF ReportsInv

\* A host's scan of its files.
LEMMA ScanStepInv ==
    ASSUME ReportsInv, NEW h \in ReportingHosts,
           \/ \E found \in SUBSET Files : Inventory(h, found)
           \/ UpsertAgentCertificates(h) \/ MarkAgentCertificatesRemoved(h)
    PROVE  ReportsInv'
  <1>0. /\ scan \in [ReportingHosts -> ScanState] /\ file \in [ReportingHosts -> [Files -> FileState]]
        /\ whole \subseteq ReportingHosts /\ reportCount \in 0..MaxReports /\ ScansInOrder
        /\ scan[h].found \subseteq Files /\ scan[h].todo \subseteq Files
    BY DEF ReportsInv, ReportsTypeOK, ScanState
  <1>1. ASSUME NEW found \in SUBSET Files, Inventory(h, found) PROVE ReportsInv'
    <2>1. /\ UNCHANGED installVars /\ UNCHANGED file /\ scan[h].at = "idle" /\ reportCount' \in 0..MaxReports
          /\ whole' = whole \ {h}
      BY <1>0, <1>1, ReportsAssumption DEF Inventory
    <2>2. PICK new : new = [at |-> "upsert", found |-> found, todo |-> found]
      OBVIOUS
    <2>3. new \in ScanState /\ new.at = "upsert" /\ new.found = found /\ new.todo = found
      BY <2>2 DEF ScanState
    <2>4. scan' = [scan EXCEPT ![h] = new]
      BY <1>1, <2>2 DEF Inventory
    <2>5. scan' \in [ReportingHosts -> ScanState] /\ \A g \in ReportingHosts : scan'[g] = IF g = h THEN new ELSE scan[g]
      BY <1>0, <2>3, <2>4
    <2>6. ScansInOrder'
      BY <1>0, <2>1, <2>3, <2>5 DEF ScansInOrder
    <2> QED
      BY <1>0, <2>1, <2>5, <2>6, ScansLeaveInstalls
  <1>2. ASSUME UpsertAgentCertificates(h) PROVE ReportsInv'
    <2>1. UNCHANGED installVars /\ UNCHANGED <<whole, reportCount>> /\ scan[h].at = "upsert" /\ h \notin whole
      BY <1>0, <1>2 DEF UpsertAgentCertificates, ScansInOrder
    <2>2. ASSUME NEW f \in scan[h].todo, file' = [file EXCEPT ![h][f] = Upserted(@)], scan' = [scan EXCEPT ![h].todo = @ \ {f}]
          PROVE  ReportsInv'
      <3>1. PICK new : new = [scan[h] EXCEPT !.todo = scan[h].todo \ {f}]
        OBVIOUS
      <3>2. new \in ScanState /\ new.at = "upsert" /\ new.found = scan[h].found /\ new.todo = scan[h].todo \ {f}
        BY <3>1, <1>0, <2>1 DEF ScanState
      <3>3. scan' = [scan EXCEPT ![h] = new]
        BY <2>2, <3>1
      <3>4. scan' \in [ReportingHosts -> ScanState] /\ \A g \in ReportingHosts : scan'[g] = IF g = h THEN new ELSE scan[g]
        BY <1>0, <3>2, <3>3
      <3>5. file' = [file EXCEPT ![h][f] = "present"]
        BY <2>2 DEF Upserted
      <3>6. /\ file' \in [ReportingHosts -> [Files -> FileState]]
            /\ \A g \in ReportingHosts : g # h => file'[g] = file[g]
            /\ \A e \in Files : file'[h][e] = IF e = f THEN "present" ELSE file[h][e]
        BY <1>0, <2>2, <3>5 DEF FileState
      <3>7. ScansInOrder'
        BY <1>0, <2>1, <3>2, <3>4, <3>6 DEF ScansInOrder
      <3> QED
        BY <1>0, <2>1, <3>4, <3>6, <3>7, ScansLeaveInstalls
    <2>3. ASSUME scan[h].todo = {}, scan' = [scan EXCEPT ![h].at = "reconcile"], UNCHANGED file PROVE ReportsInv'
      <3>1. PICK new : new = [scan[h] EXCEPT !.at = "reconcile"]
        OBVIOUS
      <3>2. new \in ScanState /\ new.at = "reconcile" /\ new.found = scan[h].found /\ new.todo = scan[h].todo
        BY <3>1, <1>0 DEF ScanState
      <3>3. scan' = [scan EXCEPT ![h] = new]
        BY <2>3, <3>1
      <3>4. scan' \in [ReportingHosts -> ScanState] /\ \A g \in ReportingHosts : scan'[g] = IF g = h THEN new ELSE scan[g]
        BY <1>0, <3>2, <3>3
      <3>5. ScansInOrder'
        BY <1>0, <2>1, <2>3, <3>2, <3>4 DEF ScansInOrder
      <3> QED
        BY <1>0, <2>1, <2>3, <3>4, <3>5, ScansLeaveInstalls
    <2>4. ASSUME scan' = [scan EXCEPT ![h] = NoScan], UNCHANGED file PROVE ReportsInv'
      <3>1. NoScan \in ScanState /\ NoScan.at = "idle"
        BY DEF NoScan, ScanState
      <3>2. scan' \in [ReportingHosts -> ScanState] /\ \A g \in ReportingHosts : scan'[g] = IF g = h THEN NoScan ELSE scan[g]
        BY <1>0, <2>4, <3>1
      <3>3. ScansInOrder'
        BY <1>0, <2>1, <2>4, <3>1, <3>2 DEF ScansInOrder
      <3> QED
        BY <1>0, <2>1, <2>4, <3>2, <3>3, ScansLeaveInstalls
    <2> QED
      BY <1>2, <2>2, <2>3, <2>4 DEF UpsertAgentCertificates
  <1>3. ASSUME MarkAgentCertificatesRemoved(h) PROVE ReportsInv'
    <2>1. UNCHANGED installVars /\ UNCHANGED reportCount /\ scan[h].at = "reconcile" /\ whole' = whole \cup {h}
      BY <1>3 DEF MarkAgentCertificatesRemoved
    <2>2. PICK row : row = [f \in Files |-> IF f \notin scan[h].found /\ file[h][f] = "present" THEN "removed" ELSE file[h][f]]
      OBVIOUS
    <2>3. row \in [Files -> FileState]
      BY <1>0, <2>2 DEF FileState
    <2>4. file' = [file EXCEPT ![h] = row]
      BY <1>3, <2>2 DEF MarkAgentCertificatesRemoved
    <2>5. /\ file' \in [ReportingHosts -> [Files -> FileState]]
          /\ file'[h] = row /\ \A g \in ReportingHosts : g # h => file'[g] = file[g]
      BY <1>0, <2>3, <2>4
    <2>6. \A f \in scan[h].found : file[h][f] = "present"
      BY <1>0, <2>1 DEF ScansInOrder
    <2>7. \A f \in Files : file'[h][f] = "present" <=> f \in scan[h].found
      BY <2>2, <2>5, <2>6
    <2>8. PICK new : new = [scan[h] EXCEPT !.at = "idle"]
      OBVIOUS
    <2>9. new \in ScanState /\ new.at = "idle" /\ new.found = scan[h].found
      BY <2>8, <1>0 DEF ScanState
    <2>10. scan' = [scan EXCEPT ![h] = new]
      BY <1>3, <2>8 DEF MarkAgentCertificatesRemoved
    <2>11. scan' \in [ReportingHosts -> ScanState] /\ \A g \in ReportingHosts : scan'[g] = IF g = h THEN new ELSE scan[g]
      BY <1>0, <2>9, <2>10
    <2>12. ScansInOrder'
      BY <1>0, <2>1, <2>5, <2>7, <2>9, <2>11 DEF ScansInOrder
    <2> QED
      BY <1>0, <2>1, <2>5, <2>11, <2>12, ScansLeaveInstalls
  <1> QED
    BY <1>1, <1>2, <1>3

\* The inductive step of the reports.
LEMMA ReportsStepInv == ReportsInv /\ [ReportsNext]_reportsVars => ReportsInv'
  <1>1. ASSUME ReportsInv, UNCHANGED reportsVars PROVE ReportsInv'
    <2>1. ScansInOrder' /\ UNCHANGED installVars
      BY <1>1 DEF reportsVars, ReportsInv, ScansInOrder, installVars
    <2> QED
      BY <1>1, <2>1, ScansLeaveInstalls DEF reportsVars, ReportsInv, ReportsTypeOK
  <1>2. ASSUME ReportsInv, ReportsNext PROVE ReportsInv'
    BY <1>2, PreviousStateInv, ReplaceInv, PruneInv, ReconcileInv, CutShortInv, ScanStepInv DEF ReportsNext
  <1> QED
    BY <1>1, <1>2

\* What the runs check follows.
LEMMA ReportsInvMeans == ReportsInv => BindingsFollowReport /\ InventoryFollowsScan
  <1> SUFFICES ASSUME ReportsInv PROVE BindingsFollowReport /\ InventoryFollowsScan
    OBVIOUS
  <1>1. ASSUME NEW h \in whole PROVE {f \in Files : file[h][f] = "present"} = scan[h].found
    <2>1. h \in ReportingHosts /\ scan[h] \in ScanState
      BY <1>1 DEF ReportsInv, ReportsTypeOK
    <2>2. scan[h].found \subseteq Files
      BY <2>1 DEF ScanState
    <2>3. \A f \in Files : file[h][f] = "present" <=> f \in scan[h].found
      BY <1>1, <2>1 DEF ReportsInv, ScansInOrder
    <2> QED
      BY <2>2, <2>3
  <1> QED
    BY <1>1 DEF ReportsInv, InventoryFollowsScan

-----------------------------------------------------------------------------
(* Jobs of hosts. What succeeded was reported installed.                   *)

JobResult == [job : HostJobs, ok : BOOLEAN, told : BOOLEAN]

\* Rows of jobs agree with what is remembered of them.
HostJobRows ==
    /\ \A j \in HostJobs :
        /\ hostJobs[j].status # "FREE" => hostJobs[j].host \in TargetHosts
        /\ hostJobs[j].status = "CANCELLED" => j \in calledOff
        /\ hostJobs[j].status = "SUCCEEDED" => j \in saidInstalled
        /\ hostJobs[j].status = "FREE" => j \notin handedOut /\ hostAlerts[j] = 0 /\ hostJobs[j].host = Nil
    /\ \A h \in TargetHosts : hostJobs[FirstJobs[h]].host = h /\ hostJobs[FirstJobs[h]].status # "FREE"

\* No host has two outstanding jobs.
HostsHaveOne ==
    \A j, k \in HostJobs : j # k /\ OutstandingFor(j) /\ OutstandingFor(k) => hostJobs[j].host # hostJobs[k].host

\* A report in hand is of a job that was handed out, and knows no more than the row.
ResultsKnown ==
    /\ resultReport \in [ResultReports -> JobResult \cup {Nil}]
    /\ \A q \in ResultReports : resultReport[q] # Nil =>
          LET rep == resultReport[q]
          IN  /\ rep.job \in handedOut
              /\ rep.ok => rep.job \in saidInstalled
              /\ rep.told => hostJobs[rep.job].escalated

\* Reports that found the job not yet announced: each may announce it still.
Untold(j) == {q \in ResultReports : resultReport[q] # Nil /\ resultReport[q].job = j /\ ~resultReport[q].told}

AlertsCounted ==
    \A j \in HostJobs :
        /\ ~hostJobs[j].escalated => hostAlerts[j] = 0
        /\ hostJobs[j].escalated => hostAlerts[j] + Cardinality(Untold(j)) <= Cardinality(ResultReports)

\* A report that found the job not yet escalated may still announce it, so the reports
\* in hand count with the alerts sent.
JobsInv == AgentJobsTypeOK /\ HostJobRows /\ HostsHaveOne /\ ResultsKnown /\ WavesWait /\ AlertsCounted

\* No more reports announce a job than there are.
LEMMA UntoldBound == \A j : IsFiniteSet(Untold(j)) /\ Cardinality(Untold(j)) \in Nat
                            /\ Cardinality(Untold(j)) <= Cardinality(ResultReports)
                            /\ Cardinality(ResultReports) \in Nat
  <1>1. IsFiniteSet(ResultReports)
    BY AgentJobsAssumption
  <1>2. \A j : Untold(j) \subseteq ResultReports
    BY DEF Untold
  <1> QED
    BY <1>1, <1>2, FS_Subset, FS_CardinalityType

\* A queued row, and the same row before it is inserted, is a row.
LEMMA QueuedForRow ==
    ASSUME NEW h \in TargetHosts \cup {Nil}
    PROVE  /\ QueuedFor(h) \in HostJobRow /\ QueuedFor(h).host = h /\ QueuedFor(h).status = "PENDING"
           /\ ~QueuedFor(h).escalated
           /\ [QueuedFor(h) EXCEPT !.status = "FREE"] \in HostJobRow
           /\ [QueuedFor(h) EXCEPT !.status = "FREE"].status = "FREE"
           /\ [QueuedFor(h) EXCEPT !.status = "FREE"].host = h
           /\ ~[QueuedFor(h) EXCEPT !.status = "FREE"].escalated
  BY DEF QueuedFor, HostJobRow

\* Jobs of hosts: initially.
LEMMA JobsInitInv == AgentJobsInit => JobsInv
  <1> SUFFICES ASSUME AgentJobsInit PROVE JobsInv
    OBVIOUS
  <1>0. /\ HostWave \in [TargetHosts -> Nat] /\ FirstJobs \in [TargetHosts -> HostJobs]
        /\ \A g, h \in TargetHosts : FirstJobs[g] = FirstJobs[h] => g = h
        /\ MaxResults \in Nat /\ MaxMishaps \in Nat /\ Cardinality(ResultReports) \in Nat
    BY AgentJobsAssumption, FS_CardinalityType
  <1>1. hostJobs = [j \in HostJobs |-> IF \E h \in TargetHosts : FirstJobs[h] = j
                                       THEN QueuedFor(CHOOSE h \in TargetHosts : FirstJobs[h] = j)
                                       ELSE [QueuedFor(Nil) EXCEPT !.status = "FREE"]]
    BY DEF AgentJobsInit
  <1>2. ASSUME NEW h \in TargetHosts PROVE hostJobs[FirstJobs[h]] = QueuedFor(h)
    <2>1. \E g \in TargetHosts : FirstJobs[g] = FirstJobs[h]
      OBVIOUS
    <2>2. (CHOOSE g \in TargetHosts : FirstJobs[g] = FirstJobs[h]) = h
      BY <1>0
    <2>3. FirstJobs[h] \in HostJobs
      BY <1>0
    <2> QED
      BY <1>1, <2>1, <2>2, <2>3
  <1>3. ASSUME NEW j \in HostJobs, ~ \E h \in TargetHosts : FirstJobs[h] = j
        PROVE  hostJobs[j] = [QueuedFor(Nil) EXCEPT !.status = "FREE"]
    BY <1>1, <1>3
  <1>4. ASSUME NEW j \in HostJobs
        PROVE  /\ hostJobs[j] \in HostJobRow /\ ~hostJobs[j].escalated
               /\ \/ hostJobs[j].status = "FREE" /\ hostJobs[j].host = Nil
                  \/ \E h \in TargetHosts : FirstJobs[h] = j /\ hostJobs[j].host = h /\ hostJobs[j].status = "PENDING"
    <2>1. CASE \E h \in TargetHosts : FirstJobs[h] = j
      <3>1. PICK h \in TargetHosts : FirstJobs[h] = j
        BY <2>1
      <3>2. PICK row : row = QueuedFor(h)
        OBVIOUS
      <3>3. row \in HostJobRow /\ row.host = h /\ row.status = "PENDING" /\ ~row.escalated
        BY <3>2, QueuedForRow
      <3>4. hostJobs[j] = row
        BY <3>1, <3>2, <1>2
      <3> QED
        BY <3>1, <3>3, <3>4
    <2>2. CASE ~ \E h \in TargetHosts : FirstJobs[h] = j
      <3>1. PICK row : row = [QueuedFor(Nil) EXCEPT !.status = "FREE"]
        OBVIOUS
      <3>2. row \in HostJobRow /\ row.status = "FREE" /\ row.host = Nil /\ ~row.escalated
        BY <3>1, QueuedForRow
      <3>3. hostJobs[j] = row
        BY <2>2, <1>3, <3>1
      <3> QED
        BY <3>2, <3>3
    <2> QED
      BY <2>1, <2>2
  <1>5. AgentJobsTypeOK
    <2>1. hostJobs \in [HostJobs -> HostJobRow]
      BY <1>1, <1>4
    <2> QED
      BY <2>1, <1>0 DEF AgentJobsInit, AgentJobsTypeOK
  <1>6. HostJobRows
    <2>1. \A h \in TargetHosts : hostJobs[FirstJobs[h]].host = h /\ hostJobs[FirstJobs[h]].status # "FREE"
      <3> SUFFICES ASSUME NEW h \in TargetHosts PROVE hostJobs[FirstJobs[h]].host = h /\ hostJobs[FirstJobs[h]].status # "FREE"
        OBVIOUS
      <3>1. PICK row : row = QueuedFor(h)
        OBVIOUS
      <3>2. row.host = h /\ row.status = "PENDING"
        BY <3>1, QueuedForRow
      <3> QED
        BY <3>1, <3>2, <1>2
    <2>2. handedOut = {} /\ \A j \in HostJobs : hostAlerts[j] = 0
      BY DEF AgentJobsInit
    <2>3. ASSUME NEW j \in HostJobs
          PROVE  /\ hostJobs[j].status # "FREE" => hostJobs[j].host \in TargetHosts
                 /\ hostJobs[j].status \notin {"CANCELLED", "SUCCEEDED"}
                 /\ hostJobs[j].status = "FREE" => hostJobs[j].host = Nil
      BY <1>4
    <2> QED
      BY <2>1, <2>2, <2>3 DEF HostJobRows
  <1>7. HostsHaveOne
    BY <1>4, <1>0 DEF HostsHaveOne, OutstandingFor
  <1>8. ResultsKnown
    BY DEF AgentJobsInit, ResultsKnown
  <1>9. WavesWait
    BY DEF AgentJobsInit, WavesWait
  <1>10. AlertsCounted
    BY <1>4 DEF AgentJobsInit, AlertsCounted
  <1> QED
    BY <1>5, <1>6, <1>7, <1>8, <1>9, <1>10 DEF JobsInv

\* Jobs go on without a report: claimed, cancelled, pruned, due or lapsed.
LEMMA JobsGoOn ==
    ASSUME JobsInv, UNCHANGED <<resultReport, saidInstalled, hostAlerts, resultsSent>>,
           mishaps' \in 0..MaxMishaps, targetOn' \subseteq TargetHosts,
           hostJobs' \in [HostJobs -> HostJobRow],
           \A j \in HostJobs :
               /\ hostJobs'[j].host = hostJobs[j].host
               /\ hostJobs'[j].escalated <=> hostJobs[j].escalated
               /\ \/ hostJobs'[j].status = hostJobs[j].status
                  \/ hostJobs'[j].status = "GONE" /\ hostJobs[j].status # "FREE"
                  \/ OutstandingFor(j) /\ hostJobs'[j].status = "RUNNING"
                  \/ OutstandingFor(j) /\ hostJobs'[j].status = "CANCELLED" /\ j \in calledOff',
           calledOff \subseteq calledOff', calledOff' \subseteq HostJobs,
           handedOut \subseteq handedOut', handedOut' \subseteq HostJobs,
           \A j \in handedOut' \ handedOut :
               /\ hostJobs[j].status # "FREE"
               /\ \A k \in HostJobs : OutstandingFor(k) => ~(HostWave[hostJobs[k].host] < HostWave[hostJobs[j].host])
    PROVE  JobsInv'
  <1>1. AgentJobsTypeOK'
    BY DEF JobsInv, AgentJobsTypeOK
  <1>2. HostJobRows'
    BY AgentJobsAssumption DEF JobsInv, HostJobRows, OutstandingFor
  <1>3. HostsHaveOne'
    BY DEF JobsInv, HostsHaveOne, OutstandingFor
  <1>4. ResultsKnown'
    BY DEF JobsInv, ResultsKnown, AgentJobsTypeOK
  <1>5. WavesWait'
    <2> SUFFICES ASSUME NEW g \in TargetHosts, NEW h \in TargetHosts, HostWave[g] < HostWave[h], FirstJobs[h] \in handedOut'
                 PROVE  FirstJobs[g] \in saidInstalled' \cup calledOff' \/ hostJobs'[FirstJobs[g]].status = "GONE"
      BY DEF WavesWait
    <2>0. FirstJobs[g] \in HostJobs /\ FirstJobs[h] \in HostJobs
      BY AgentJobsAssumption
    <2>1. CASE FirstJobs[h] \in handedOut
      <3>1. FirstJobs[g] \in saidInstalled \cup calledOff \/ hostJobs[FirstJobs[g]].status = "GONE"
        BY <2>1 DEF JobsInv, WavesWait
      <3> QED
        BY <3>1, <2>0 DEF OutstandingFor
    <2>2. CASE FirstJobs[h] \notin handedOut
      <3>1. hostJobs[FirstJobs[h]].host = h /\ hostJobs[FirstJobs[g]].host = g /\ hostJobs[FirstJobs[g]].status # "FREE"
        BY DEF JobsInv, HostJobRows
      <3>2. ~OutstandingFor(FirstJobs[g])
        BY <2>0, <2>2, <3>1
      <3>3. hostJobs[FirstJobs[g]].status \in {"SUCCEEDED", "CANCELLED", "GONE"}
        BY <2>0, <3>1, <3>2 DEF OutstandingFor, JobsInv, AgentJobsTypeOK, HostJobRow
      <3>4. FirstJobs[g] \in saidInstalled \cup calledOff \/ hostJobs[FirstJobs[g]].status = "GONE"
        BY <2>0, <3>3 DEF JobsInv, HostJobRows
      <3> QED
        BY <3>4, <3>2, <2>0
    <2> QED
      BY <2>1, <2>2
  <1>6. AlertsCounted'
    BY DEF JobsInv, AlertsCounted, Untold
  <1> QED
    BY <1>1, <1>2, <1>3, <1>4, <1>5, <1>6 DEF JobsInv

\* A job of a free row is queued.
LEMMA EnqueueForHostInv ==
    ASSUME JobsInv, NEW h \in TargetHosts, NEW i \in HostJobs, EnqueueForHost(h, i)
    PROVE  JobsInv'
  <1>0. /\ UNCHANGED <<targetOn, resultReport, handedOut, saidInstalled, calledOff, hostAlerts, resultsSent, mishaps>>
        /\ hostJobs[i].status = "FREE" /\ HostIndexAllows(i, h)
    BY DEF EnqueueForHost
  <1>1. PICK new : new = QueuedFor(h)
    OBVIOUS
  <1>2. new \in HostJobRow /\ new.host = h /\ new.status = "PENDING" /\ ~new.escalated
    BY <1>1, QueuedForRow
  <1>3. /\ hostJobs' \in [HostJobs -> HostJobRow]
        /\ \A j \in HostJobs : hostJobs'[j] = IF j = i THEN new ELSE hostJobs[j]
    BY <1>1, <1>2 DEF EnqueueForHost, JobsInv, AgentJobsTypeOK
  <1>4. AgentJobsTypeOK'
    BY <1>0, <1>3 DEF JobsInv, AgentJobsTypeOK
  <1>5. HostJobRows'
    BY <1>0, <1>2, <1>3, AgentJobsAssumption DEF JobsInv, HostJobRows
  <1>6. HostsHaveOne'
    BY <1>0, <1>2, <1>3 DEF JobsInv, HostsHaveOne, OutstandingFor, HostIndexAllows
  <1>7. ResultsKnown'
    <2>1. ASSUME NEW q \in ResultReports, resultReport[q] # Nil PROVE resultReport[q].job # i /\ resultReport[q].job \in HostJobs
      BY <2>1, <1>0 DEF JobsInv, HostJobRows, ResultsKnown, JobResult
    <2> QED
      BY <1>0, <1>3, <2>1 DEF JobsInv, ResultsKnown
  <1>8. WavesWait'
    <2>1. ASSUME NEW g \in TargetHosts PROVE hostJobs'[FirstJobs[g]] = hostJobs[FirstJobs[g]]
      BY <1>0, <1>3, AgentJobsAssumption DEF JobsInv, HostJobRows
    <2> QED
      BY <1>0, <2>1 DEF JobsInv, WavesWait
  <1>9. AlertsCounted'
    <2>1. \A j \in HostJobs : Untold(j)' = Untold(j)
      BY <1>0 DEF Untold
    <2>2. hostAlerts[i] = 0
      BY <1>0 DEF JobsInv, HostJobRows
    <2> QED
      BY <1>0, <1>2, <1>3, <2>1, <2>2 DEF JobsInv, AlertsCounted
  <1> QED
    BY <1>4, <1>5, <1>6, <1>7, <1>8, <1>9 DEF JobsInv

\* A report arrives: of the host's own job, which was handed out.
LEMMA ResultArrivesInv ==
    ASSUME JobsInv, NEW q \in ResultReports, NEW h \in TargetHosts, NEW i \in HostJobs, NEW ok \in BOOLEAN,
           ReportDeploymentResult(q, h, i, ok)
    PROVE  JobsInv'
  <1>0. /\ UNCHANGED <<hostJobs, targetOn, handedOut, calledOff, hostAlerts, mishaps>>
        /\ resultReport[q] = Nil /\ i \in handedOut /\ hostJobs[i].host = h
        /\ resultsSent' \in 0..MaxResults
    BY AgentJobsAssumption DEF ReportDeploymentResult, BelongsTo, JobsInv, AgentJobsTypeOK
  <1>1. PICK new : new = [job |-> i, ok |-> ok, told |-> hostJobs[i].escalated]
    OBVIOUS
  <1>2. /\ new \in JobResult /\ new.job = i
        /\ new.ok <=> ok
        /\ new.told <=> hostJobs[i].escalated
    <2>1. hostJobs[i].escalated \in BOOLEAN
      BY DEF JobsInv, AgentJobsTypeOK, HostJobRow
    <2> QED
      BY <1>1, <2>1 DEF JobResult
  <1>3. resultReport' = [resultReport EXCEPT ![q] = new]
    BY <1>1 DEF ReportDeploymentResult
  <1>4. /\ resultReport' \in [ResultReports -> JobResult \cup {Nil}]
        /\ \A p \in ResultReports : resultReport'[p] = IF p = q THEN new ELSE resultReport[p]
    BY <1>2, <1>3 DEF JobsInv, ResultsKnown
  <1>5. saidInstalled' = IF ok THEN saidInstalled \cup {i} ELSE saidInstalled
    BY <1>0 DEF ReportDeploymentResult
  <1>6. AgentJobsTypeOK'
    <2>1. \A p \in ResultReports : resultReport'[p] # Nil => resultReport'[p] \in [job : HostJobs, ok : BOOLEAN, told : BOOLEAN]
      BY <1>4 DEF JobResult
    <2>2. saidInstalled' \subseteq HostJobs
      BY <1>5 DEF JobsInv, AgentJobsTypeOK
    <2> QED
      BY <1>0, <2>1, <2>2 DEF JobsInv, AgentJobsTypeOK
  <1>7. HostJobRows' /\ HostsHaveOne' /\ WavesWait'
    BY <1>0, <1>5 DEF JobsInv, HostJobRows, HostsHaveOne, OutstandingFor, WavesWait
  <1>8. ResultsKnown'
    BY <1>0, <1>2, <1>4, <1>5 DEF JobsInv, ResultsKnown
  <1>9. AlertsCounted'
    <2> SUFFICES ASSUME NEW j \in HostJobs
                 PROVE  /\ ~hostJobs[j].escalated => hostAlerts[j] = 0
                        /\ hostJobs[j].escalated => hostAlerts[j] + Cardinality(Untold(j)') <= Cardinality(ResultReports)
      BY <1>0 DEF AlertsCounted
    <2>1. ASSUME hostJobs[j].escalated PROVE Untold(j)' = Untold(j)
      BY <2>1, <1>0, <1>2, <1>4 DEF Untold
    <2> QED
      BY <2>1 DEF JobsInv, AlertsCounted
  <1> QED
    BY <1>6, <1>7, <1>8, <1>9 DEF JobsInv

\* A report is dropped.
LEMMA ResultLostInv ==
    ASSUME JobsInv, NEW q \in ResultReports, ReportLost(q)
    PROVE  JobsInv'
  <1>0. /\ UNCHANGED <<hostJobs, targetOn, handedOut, saidInstalled, calledOff, hostAlerts, resultsSent>>
        /\ mishaps' \in 0..MaxMishaps
    BY AgentJobsAssumption DEF ReportLost, Mishap, JobsInv, AgentJobsTypeOK
  <1>1. /\ resultReport' \in [ResultReports -> JobResult \cup {Nil}]
        /\ \A p \in ResultReports : resultReport'[p] = IF p = q THEN Nil ELSE resultReport[p]
    BY DEF ReportLost, JobsInv, ResultsKnown
  <1>2. AgentJobsTypeOK'
    BY <1>0, <1>1 DEF JobsInv, AgentJobsTypeOK
  <1>3. HostJobRows' /\ HostsHaveOne' /\ WavesWait'
    BY <1>0 DEF JobsInv, HostJobRows, HostsHaveOne, OutstandingFor, WavesWait
  <1>4. ResultsKnown'
    BY <1>0, <1>1 DEF JobsInv, ResultsKnown
  <1>5. AlertsCounted'
    <2> SUFFICES ASSUME NEW j \in HostJobs
                 PROVE  /\ ~hostJobs[j].escalated => hostAlerts[j] = 0
                        /\ hostJobs[j].escalated => hostAlerts[j] + Cardinality(Untold(j)') <= Cardinality(ResultReports)
      BY <1>0 DEF AlertsCounted
    <2>1. Untold(j)' \subseteq Untold(j)
      BY <1>1 DEF Untold
    <2>2. Cardinality(Untold(j)') <= Cardinality(Untold(j)) /\ Cardinality(Untold(j)') \in Nat
      BY <2>1, UntoldBound, FS_Subset, FS_CardinalityType
    <2>3. hostAlerts[j] \in Nat
      BY UntoldBound DEF JobsInv, AgentJobsTypeOK
    <2> QED
      BY <2>2, <2>3, UntoldBound DEF JobsInv, AlertsCounted
  <1> QED
    BY <1>2, <1>3, <1>4, <1>5 DEF JobsInv

\* A report is dealt with: the row is written, or is gone, or may not be queued again.
LEMMA CompleteReportedInv ==
    ASSUME JobsInv, NEW q \in ResultReports, NEW escalate \in BOOLEAN, CompleteReported(q, escalate)
    PROVE  JobsInv'
  <1>0. /\ UNCHANGED <<targetOn, handedOut, saidInstalled, calledOff, resultsSent, mishaps>>
        /\ resultReport[q] # Nil
    BY DEF CompleteReported
  <1>1. PICK rep, i : rep = resultReport[q] /\ i = rep.job
    OBVIOUS
  <1>2. /\ rep \in JobResult /\ i \in HostJobs /\ i \in handedOut
        /\ rep.ok => i \in saidInstalled
        /\ rep.told => hostJobs[i].escalated
    BY <1>0, <1>1 DEF JobsInv, ResultsKnown, JobResult
  <1>3. /\ resultReport' \in [ResultReports -> JobResult \cup {Nil}]
        /\ \A p \in ResultReports : resultReport'[p] = IF p = q THEN Nil ELSE resultReport[p]
    BY DEF CompleteReported, JobsInv, ResultsKnown
  <1>4. rep.ok => ~escalate
    BY <1>1 DEF CompleteReported
  <1>5. PICK writes \in BOOLEAN : writes <=> (hostJobs[i].status # "GONE" /\ (rep.ok \/ HostIndexAllows(i, hostJobs[i].host)))
    OBVIOUS
  <1>6. PICK new : new = Completed(hostJobs[i], rep.ok, escalate)
    OBVIOUS
  <1>7. hostJobs' = IF writes THEN [hostJobs EXCEPT ![i] = new] ELSE hostJobs
    BY <1>1, <1>5, <1>6 DEF CompleteReported
  <1>8. hostJobs[i] \in HostJobRow /\ rep.ok \in BOOLEAN /\ hostJobs \in [HostJobs -> HostJobRow]
    BY <1>2 DEF JobsInv, AgentJobsTypeOK, JobResult
  <1>9. /\ new \in HostJobRow /\ new.host = hostJobs[i].host
        /\ rep.ok => new.status = "SUCCEEDED"
        /\ ~rep.ok => new.status = "PENDING"
    BY <1>6, <1>8 DEF Completed, HostJobRow
  <1>10. new.escalated <=> (hostJobs[i].escalated \/ escalate)
    BY <1>6, <1>8 DEF Completed, HostJobRow
  <1>11. hostJobs' \in [HostJobs -> HostJobRow] /\ \A j \in HostJobs : j # i => hostJobs'[j] = hostJobs[j]
    BY <1>7, <1>8, <1>9
  <1>12. (writes => hostJobs'[i] = new) /\ (~writes => hostJobs'[i] = hostJobs[i])
    BY <1>7, <1>8, <1>2
  <1>13. /\ hostAlerts \in [HostJobs -> Nat] /\ hostAlerts[i] \in Nat
         /\ hostAlerts \in [HostJobs -> 0..(Cardinality(ResultReports) + 1)] /\ Cardinality(ResultReports) \in Nat
    BY <1>2, UntoldBound DEF JobsInv, AgentJobsTypeOK
  <1>14. PICK tells \in BOOLEAN : tells <=> (writes /\ escalate /\ ~rep.told /\ hostAlerts[i] <= Cardinality(ResultReports))
    OBVIOUS
  <1>15. hostAlerts' = IF tells THEN [hostAlerts EXCEPT ![i] = hostAlerts[i] + 1] ELSE hostAlerts
    BY <1>1, <1>5, <1>14 DEF CompleteReported
  <1>16. /\ hostAlerts' \in [HostJobs -> 0..(Cardinality(ResultReports) + 1)]
         /\ \A j \in HostJobs : j # i => hostAlerts'[j] = hostAlerts[j]
         /\ hostAlerts'[i] = IF tells THEN hostAlerts[i] + 1 ELSE hostAlerts[i]
    BY <1>2, <1>13, <1>14, <1>15
  <1>17. hostJobs[i].status # "FREE"
    BY <1>2 DEF JobsInv, HostJobRows
  <1>18. writes /\ ~rep.ok => \A k \in HostJobs : k # i /\ OutstandingFor(k) => hostJobs[k].host # hostJobs[i].host
    BY <1>5 DEF HostIndexAllows
  <1>19. AgentJobsTypeOK'
    <2>1. \A p \in ResultReports : resultReport'[p] # Nil => resultReport'[p] \in [job : HostJobs, ok : BOOLEAN, told : BOOLEAN]
      BY <1>3 DEF JobResult
    <2> QED
      BY <1>0, <1>11, <1>16, <2>1 DEF JobsInv, AgentJobsTypeOK
  <1>20. HostJobRows'
    <2>1. ASSUME NEW j \in HostJobs
          PROVE  /\ hostJobs'[j].status # "FREE" => hostJobs'[j].host \in TargetHosts
                 /\ hostJobs'[j].status = "CANCELLED" => j \in calledOff
                 /\ hostJobs'[j].status = "SUCCEEDED" => j \in saidInstalled
                 /\ hostJobs'[j].status = "FREE" => j \notin handedOut /\ hostAlerts'[j] = 0 /\ hostJobs'[j].host = Nil
      <3>1. CASE j # i
        BY <3>1, <1>11, <1>16 DEF JobsInv, HostJobRows
      <3>2. CASE j = i /\ writes
        BY <3>2, <1>2, <1>8, <1>9, <1>12, <1>17 DEF JobsInv, HostJobRows
      <3>3. CASE j = i /\ ~writes
        BY <3>3, <1>2, <1>12, <1>17 DEF JobsInv, HostJobRows
      <3> QED
        BY <3>1, <3>2, <3>3
    <2>2. ASSUME NEW h \in TargetHosts
          PROVE  hostJobs'[FirstJobs[h]].host = h /\ hostJobs'[FirstJobs[h]].status # "FREE"
      <3>1. FirstJobs[h] \in HostJobs /\ hostJobs[FirstJobs[h]].host = h /\ hostJobs[FirstJobs[h]].status # "FREE"
        BY AgentJobsAssumption DEF JobsInv, HostJobRows
      <3>2. CASE FirstJobs[h] # i
        BY <3>1, <3>2, <1>11
      <3>3. CASE FirstJobs[h] = i
        BY <3>1, <3>3, <1>8, <1>9, <1>12
      <3> QED
        BY <3>2, <3>3
    <2> QED
      BY <1>0, <2>1, <2>2 DEF HostJobRows
  <1>21. HostsHaveOne'
    <2>1. \A j \in HostJobs : hostJobs'[j].host = hostJobs[j].host
      BY <1>9, <1>11, <1>12
    <2>2. \A j \in HostJobs : j # i => (OutstandingFor(j)' <=> OutstandingFor(j))
      BY <1>11 DEF OutstandingFor
    <2>3. OutstandingFor(i)' => OutstandingFor(i) \/ (writes /\ ~rep.ok)
      BY <1>8, <1>9, <1>12 DEF OutstandingFor
    <2>4. \A k \in HostJobs : k # i /\ OutstandingFor(k) /\ OutstandingFor(i)' => hostJobs[k].host # hostJobs[i].host
      BY <1>2, <1>18, <2>3 DEF JobsInv, HostsHaveOne
    <2> QED
      BY <2>1, <2>2, <2>4, <1>2 DEF JobsInv, HostsHaveOne
  <1>22. ResultsKnown'
    <2> SUFFICES ASSUME NEW p \in ResultReports, resultReport'[p] # Nil
                 PROVE  /\ resultReport[p].job \in handedOut
                        /\ resultReport[p].ok => resultReport[p].job \in saidInstalled
                        /\ resultReport[p].told => hostJobs'[resultReport[p].job].escalated
      BY <1>0, <1>3 DEF ResultsKnown
    <2>1. p # q /\ resultReport[p] # Nil
      BY <1>3
    <2>2. resultReport[p].job \in HostJobs
      BY <2>1 DEF JobsInv, ResultsKnown, JobResult
    <2>3. /\ resultReport[p].job \in handedOut
          /\ resultReport[p].ok => resultReport[p].job \in saidInstalled
          /\ resultReport[p].told => hostJobs[resultReport[p].job].escalated
      BY <2>1 DEF JobsInv, ResultsKnown
    <2>4. \A j \in HostJobs : hostJobs[j].escalated => hostJobs'[j].escalated
      BY <1>10, <1>11, <1>12
    <2> QED
      BY <2>2, <2>3, <2>4
  <1>23. WavesWait'
    <2> SUFFICES ASSUME NEW g \in TargetHosts, NEW h \in TargetHosts, HostWave[g] < HostWave[h], FirstJobs[h] \in handedOut
                 PROVE  FirstJobs[g] \in saidInstalled \cup calledOff \/ hostJobs'[FirstJobs[g]].status = "GONE"
      BY <1>0 DEF WavesWait
    <2>1. FirstJobs[g] \in HostJobs
      BY AgentJobsAssumption
    <2>2. FirstJobs[g] \in saidInstalled \cup calledOff \/ hostJobs[FirstJobs[g]].status = "GONE"
      BY DEF JobsInv, WavesWait
    <2>3. hostJobs[FirstJobs[g]].status = "GONE" => hostJobs'[FirstJobs[g]] = hostJobs[FirstJobs[g]]
      BY <2>1, <1>5, <1>11, <1>12
    <2> QED
      BY <2>2, <2>3
  <1>24. AlertsCounted'
    <2> SUFFICES ASSUME NEW j \in HostJobs
                 PROVE  /\ ~hostJobs'[j].escalated => hostAlerts'[j] = 0
                        /\ hostJobs'[j].escalated => hostAlerts'[j] + Cardinality(Untold(j)') <= Cardinality(ResultReports)
      BY DEF AlertsCounted
    <2>1. Untold(j)' = Untold(j) \ {q}
      BY <1>3 DEF Untold
    <2>2. Cardinality(Untold(j)') \in Nat /\ Cardinality(Untold(j)') = IF q \in Untold(j) THEN Cardinality(Untold(j)) - 1 ELSE Cardinality(Untold(j))
      <3>1. IsFiniteSet(Untold(j))
        BY UntoldBound
      <3>2. Cardinality(Untold(j) \ {q}) = IF q \in Untold(j) THEN Cardinality(Untold(j)) - 1 ELSE Cardinality(Untold(j))
        BY <3>1, FS_RemoveElement
      <3>3. IsFiniteSet(Untold(j)')
        BY <3>1, <2>1, FS_Subset
      <3> QED
        BY <2>1, <3>2, <3>3, FS_CardinalityType
    <2>3. Cardinality(Untold(j)) \in Nat /\ Cardinality(Untold(j)) <= Cardinality(ResultReports)
      BY UntoldBound
    <2>4. /\ ~hostJobs[j].escalated => hostAlerts[j] = 0
          /\ hostJobs[j].escalated => hostAlerts[j] + Cardinality(Untold(j)) <= Cardinality(ResultReports)
      BY DEF JobsInv, AlertsCounted
    <2>5. hostAlerts[j] \in Nat
      BY <1>13
    <2>6. CASE j # i
      BY <2>2, <2>3, <2>4, <2>5, <2>6, <1>11, <1>13, <1>16
    <2>7. ASSUME j = i, tells PROVE hostJobs'[j].escalated /\ hostAlerts'[j] + Cardinality(Untold(j)') <= Cardinality(ResultReports)
      <3>1. q \in Untold(j)
        BY <2>7, <1>0, <1>1, <1>14 DEF Untold
      <3>2. hostJobs'[j].escalated
        BY <2>7, <1>10, <1>12, <1>14
      <3>3. hostAlerts'[j] = hostAlerts[j] + 1
        BY <2>7, <1>16
      <3>4. Cardinality(Untold(j)') = Cardinality(Untold(j)) - 1
        BY <3>1, <2>2
      <3>5. hostAlerts[j] + Cardinality(Untold(j)) <= Cardinality(ResultReports)
        BY <2>3, <2>4, <2>5, <1>13
      <3> QED
        BY <3>2, <3>3, <3>4, <3>5, <2>3, <2>5, <1>13
    <2>8. ASSUME j = i, ~tells
          PROVE  /\ ~hostJobs'[j].escalated => hostAlerts'[j] = 0
                 /\ hostJobs'[j].escalated => hostAlerts'[j] + Cardinality(Untold(j)') <= Cardinality(ResultReports)
      <3>1. hostAlerts'[j] = hostAlerts[j]
        BY <2>8, <1>16
      <3>2. ~hostJobs[j].escalated => hostAlerts[j] <= Cardinality(ResultReports)
        BY <2>4, <1>13
      <3>3. hostJobs'[j].escalated => hostJobs[j].escalated
        <4>1. writes /\ escalate /\ ~hostJobs[j].escalated => tells
          BY <2>8, <1>2, <1>14, <3>2
        <4> QED
          BY <4>1, <2>8, <1>10, <1>12
      <3>4. hostJobs[j].escalated => hostJobs'[j].escalated
        BY <2>8, <1>10, <1>12
      <3> QED
        BY <3>1, <3>3, <3>4, <2>2, <2>3, <2>4, <2>5, <1>13
    <2> QED
      BY <2>6, <2>7, <2>8
  <1> QED
    BY <1>19, <1>20, <1>21, <1>22, <1>23, <1>24 DEF JobsInv

\* One row of JobsGoOn changes: the others stay, history but calledOff too.
LEMMA OneJobGoesOn ==
    ASSUME JobsInv, UNCHANGED <<resultReport, saidInstalled, hostAlerts, resultsSent, handedOut, targetOn>>,
           mishaps' \in 0..MaxMishaps, NEW i \in HostJobs, NEW new \in HostJobRow,
           hostJobs' = [hostJobs EXCEPT ![i] = new], new.host = hostJobs[i].host,
           new.escalated <=> hostJobs[i].escalated,
           calledOff \subseteq calledOff', calledOff' \subseteq HostJobs,
           new.status = hostJobs[i].status \/ (OutstandingFor(i) /\ new.status = "CANCELLED" /\ i \in calledOff')
    PROVE  JobsInv'
  <1>1. /\ hostJobs' \in [HostJobs -> HostJobRow]
        /\ \A j \in HostJobs : hostJobs'[j] = IF j = i THEN new ELSE hostJobs[j]
    BY DEF JobsInv, AgentJobsTypeOK
  <1>2. targetOn' \subseteq TargetHosts /\ handedOut' = handedOut /\ handedOut \subseteq HostJobs
    BY DEF JobsInv, AgentJobsTypeOK
  <1>3. \A j \in HostJobs :
           /\ hostJobs'[j].host = hostJobs[j].host
           /\ hostJobs'[j].escalated <=> hostJobs[j].escalated
           /\ \/ hostJobs'[j].status = hostJobs[j].status
              \/ hostJobs'[j].status = "GONE" /\ hostJobs[j].status # "FREE"
              \/ OutstandingFor(j) /\ hostJobs'[j].status = "RUNNING"
              \/ OutstandingFor(j) /\ hostJobs'[j].status = "CANCELLED" /\ j \in calledOff'
    BY <1>1
  <1> QED
    BY <1>1, <1>2, <1>3, JobsGoOn

\* Steps of the queue that no report takes.
LEMMA JobMovesInv ==
    ASSUME JobsInv,
           \/ \E h \in TargetHosts : ClaimDeployments(h) \/ BindingPruned(h) \/ SwitchTarget(h)
           \/ \E j \in HostJobs : CancelHostJob(j) \/ HostJobDue(j) \/ HostLeaseLapses(j)
    PROVE  JobsInv'
  <1>0. /\ hostJobs \in [HostJobs -> HostJobRow] /\ targetOn \subseteq TargetHosts /\ calledOff \subseteq HostJobs
        /\ handedOut \subseteq HostJobs /\ mishaps \in 0..MaxMishaps
        /\ (Mishap => mishaps' \in 0..MaxMishaps /\ UNCHANGED resultsSent)
    BY AgentJobsAssumption DEF JobsInv, AgentJobsTypeOK, Mishap
  <1>1. ASSUME NEW h \in TargetHosts, ClaimDeployments(h) PROVE JobsInv'
    <2>1. /\ UNCHANGED <<targetOn, resultReport, saidInstalled, calledOff, hostAlerts, resultsSent, mishaps>>
          /\ handedOut' \in {handedOut, handedOut \cup ClaimableFor(h)}
      BY <1>1 DEF ClaimDeployments
    <2>2. \A j \in ClaimableFor(h) : j \in HostJobs /\ OutstandingFor(j) /\ HostWaveAllows(j)
      BY DEF ClaimableFor, ReadyForHost, OutstandingFor
    <2>3. \A j \in HostJobs : hostJobs'[j] = IF j \in ClaimableFor(h)
                                             THEN [hostJobs[j] EXCEPT !.status = "RUNNING", !.lapsed = FALSE]
                                             ELSE hostJobs[j]
      BY <1>1 DEF ClaimDeployments
    <2>4. \A j \in HostJobs : /\ hostJobs'[j] \in HostJobRow /\ hostJobs'[j].host = hostJobs[j].host
                              /\ hostJobs'[j].escalated <=> hostJobs[j].escalated
                              /\ hostJobs'[j].status = hostJobs[j].status \/ (OutstandingFor(j) /\ hostJobs'[j].status = "RUNNING")
      <3> SUFFICES ASSUME NEW j \in HostJobs
                   PROVE  /\ hostJobs'[j] \in HostJobRow /\ hostJobs'[j].host = hostJobs[j].host
                          /\ hostJobs'[j].escalated <=> hostJobs[j].escalated
                          /\ hostJobs'[j].status = hostJobs[j].status \/ (OutstandingFor(j) /\ hostJobs'[j].status = "RUNNING")
        OBVIOUS
      <3>1. PICK new : new = [hostJobs[j] EXCEPT !.status = "RUNNING", !.lapsed = FALSE]
        OBVIOUS
      <3>2. new \in HostJobRow /\ new.host = hostJobs[j].host /\ new.status = "RUNNING" /\ (new.escalated <=> hostJobs[j].escalated)
        BY <3>1, <1>0 DEF HostJobRow
      <3>3. hostJobs'[j] = IF j \in ClaimableFor(h) THEN new ELSE hostJobs[j]
        BY <3>1, <2>3
      <3> QED
        BY <3>2, <3>3, <2>2, <1>0
    <2>5. hostJobs' \in [HostJobs -> HostJobRow]
      <3>1. DOMAIN hostJobs' = HostJobs /\ hostJobs' = [j \in HostJobs |-> hostJobs'[j]]
        BY <1>1 DEF ClaimDeployments
      <3> QED
        BY <3>1, <2>4
    <2>6. \A j \in handedOut' \ handedOut :
             /\ hostJobs[j].status # "FREE"
             /\ \A k \in HostJobs : OutstandingFor(k) => ~(HostWave[hostJobs[k].host] < HostWave[hostJobs[j].host])
      BY <2>1, <2>2 DEF HostWaveAllows, OutstandingFor
    <2>7. handedOut \subseteq handedOut' /\ handedOut' \subseteq HostJobs
      BY <2>1, <2>2, <1>0
    <2>8. \A j \in HostJobs :
             /\ hostJobs'[j].host = hostJobs[j].host
             /\ hostJobs'[j].escalated <=> hostJobs[j].escalated
             /\ \/ hostJobs'[j].status = hostJobs[j].status
                \/ hostJobs'[j].status = "GONE" /\ hostJobs[j].status # "FREE"
                \/ OutstandingFor(j) /\ hostJobs'[j].status = "RUNNING"
                \/ OutstandingFor(j) /\ hostJobs'[j].status = "CANCELLED" /\ j \in calledOff'
      BY <2>4
    <2> QED
      BY <2>1, <2>5, <2>6, <2>7, <2>8, <1>0, JobsGoOn
  <1>2. ASSUME NEW h \in TargetHosts, BindingPruned(h) PROVE JobsInv'
    <2>1. /\ UNCHANGED <<targetOn, resultReport, handedOut, saidInstalled, calledOff, hostAlerts, resultsSent>>
          /\ mishaps' \in 0..MaxMishaps
      BY <1>0, <1>2 DEF BindingPruned
    <2>2. \A j \in HostJobs : hostJobs'[j] = IF hostJobs[j].host = h THEN [hostJobs[j] EXCEPT !.status = "GONE"] ELSE hostJobs[j]
      BY <1>2 DEF BindingPruned
    <2>3. \A j \in HostJobs : hostJobs'[j] \in HostJobRow
      BY <1>0, <2>2 DEF HostJobRow
    <2>4. hostJobs' \in [HostJobs -> HostJobRow]
      <3>1. hostJobs' = [j \in HostJobs |-> hostJobs'[j]]
        BY <1>2 DEF BindingPruned
      <3> QED
        BY <3>1, <2>3
    <2>5. \A j \in HostJobs :
             /\ hostJobs'[j].host = hostJobs[j].host
             /\ hostJobs'[j].escalated <=> hostJobs[j].escalated
             /\ \/ hostJobs'[j].status = hostJobs[j].status
                \/ hostJobs'[j].status = "GONE" /\ hostJobs[j].status # "FREE"
                \/ OutstandingFor(j) /\ hostJobs'[j].status = "RUNNING"
                \/ OutstandingFor(j) /\ hostJobs'[j].status = "CANCELLED" /\ j \in calledOff'
      <3> SUFFICES ASSUME NEW j \in HostJobs
                   PROVE  /\ hostJobs'[j].host = hostJobs[j].host
                          /\ hostJobs'[j].escalated <=> hostJobs[j].escalated
                          /\ \/ hostJobs'[j].status = hostJobs[j].status
                             \/ hostJobs'[j].status = "GONE" /\ hostJobs[j].status # "FREE"
        OBVIOUS
      <3>1. PICK new : new = [hostJobs[j] EXCEPT !.status = "GONE"]
        OBVIOUS
      <3>2. new.host = hostJobs[j].host /\ new.status = "GONE" /\ (new.escalated <=> hostJobs[j].escalated)
        BY <3>1, <1>0 DEF HostJobRow
      <3>3. hostJobs'[j] = IF hostJobs[j].host = h THEN new ELSE hostJobs[j]
        BY <3>1, <2>2
      <3>4. hostJobs[j].host = h => hostJobs[j].status # "FREE"
        BY AgentJobsAssumption DEF JobsInv, HostJobRows
      <3> QED
        BY <3>2, <3>3, <3>4
    <2> QED
      BY <2>1, <2>4, <2>5, <1>0, JobsGoOn
  <1>3. ASSUME NEW h \in TargetHosts, SwitchTarget(h) PROVE JobsInv'
    <2>1. /\ UNCHANGED <<hostJobs, resultReport, handedOut, saidInstalled, calledOff, hostAlerts, resultsSent>>
          /\ mishaps' \in 0..MaxMishaps /\ targetOn' \subseteq TargetHosts
      BY <1>0, <1>3 DEF SwitchTarget
    <2> QED
      BY <2>1, <1>0, JobsGoOn
  <1>4. ASSUME NEW j \in HostJobs, CancelHostJob(j) PROVE JobsInv'
    <2>1. /\ UNCHANGED <<targetOn, resultReport, handedOut, saidInstalled, hostAlerts, resultsSent>>
          /\ mishaps' \in 0..MaxMishaps /\ OutstandingFor(j) /\ calledOff' = calledOff \cup {j}
      BY <1>0, <1>4 DEF CancelHostJob
    <2>2. PICK new : new = [hostJobs[j] EXCEPT !.status = "CANCELLED", !.lapsed = FALSE]
      OBVIOUS
    <2>3. hostJobs' = [hostJobs EXCEPT ![j] = new]
      BY <1>4, <2>2 DEF CancelHostJob
    <2>4. new \in HostJobRow /\ new.host = hostJobs[j].host /\ new.status = "CANCELLED" /\ (new.escalated <=> hostJobs[j].escalated)
      BY <2>2, <1>0 DEF HostJobRow
    <2> QED
      BY <2>1, <2>3, <2>4, <1>0, OneJobGoesOn
  <1>5. ASSUME NEW j \in HostJobs, HostJobDue(j) PROVE JobsInv'
    <2>1. UNCHANGED <<targetOn, resultReport, handedOut, saidInstalled, calledOff, hostAlerts, resultsSent, mishaps>>
      BY <1>5 DEF HostJobDue
    <2>2. PICK new : new = [hostJobs[j] EXCEPT !.due = TRUE]
      OBVIOUS
    <2>3. hostJobs' = [hostJobs EXCEPT ![j] = new]
      BY <1>5, <2>2 DEF HostJobDue
    <2>4. new \in HostJobRow /\ new.host = hostJobs[j].host /\ new.status = hostJobs[j].status /\ (new.escalated <=> hostJobs[j].escalated)
      BY <2>2, <1>0 DEF HostJobRow
    <2> QED
      BY <2>1, <2>3, <2>4, <1>0, OneJobGoesOn
  <1>6. ASSUME NEW j \in HostJobs, HostLeaseLapses(j) PROVE JobsInv'
    <2>1. /\ UNCHANGED <<targetOn, resultReport, handedOut, saidInstalled, calledOff, hostAlerts, resultsSent>>
          /\ mishaps' \in 0..MaxMishaps
      BY <1>0, <1>6 DEF HostLeaseLapses
    <2>2. PICK new : new = [hostJobs[j] EXCEPT !.lapsed = TRUE]
      OBVIOUS
    <2>3. hostJobs' = [hostJobs EXCEPT ![j] = new]
      BY <1>6, <2>2 DEF HostLeaseLapses
    <2>4. new \in HostJobRow /\ new.host = hostJobs[j].host /\ new.status = hostJobs[j].status /\ (new.escalated <=> hostJobs[j].escalated)
      BY <2>2, <1>0 DEF HostJobRow
    <2> QED
      BY <2>1, <2>3, <2>4, <1>0, OneJobGoesOn
  <1> QED
    BY <1>1, <1>2, <1>3, <1>4, <1>5, <1>6

\* The inductive step of the jobs of hosts.
LEMMA JobsStepInv == JobsInv /\ [AgentJobsNext]_agentJobsVars => JobsInv'
  <1>1. ASSUME JobsInv, AgentJobsNext PROVE JobsInv'
    BY <1>1, JobMovesInv, EnqueueForHostInv, ResultArrivesInv, ResultLostInv, CompleteReportedInv DEF AgentJobsNext
  <1>2. ASSUME JobsInv, UNCHANGED agentJobsVars PROVE JobsInv'
    <2>1. UNCHANGED <<hostJobs, targetOn, resultReport, handedOut, saidInstalled, calledOff, hostAlerts, resultsSent, mishaps>>
      BY <1>2 DEF agentJobsVars
    <2>3. AgentJobsTypeOK'
      BY <1>2, <2>1 DEF JobsInv, AgentJobsTypeOK
    <2>4. HostJobRows' /\ HostsHaveOne' /\ WavesWait'
      BY <1>2, <2>1 DEF JobsInv, HostJobRows, HostsHaveOne, OutstandingFor, WavesWait
    <2>5. ResultsKnown'
      BY <1>2, <2>1 DEF JobsInv, ResultsKnown
    <2>6. AlertsCounted'
      BY <1>2, <2>1 DEF JobsInv, AlertsCounted, Untold
    <2> QED
      BY <2>3, <2>4, <2>5, <2>6 DEF JobsInv
  <1> QED
    BY <1>1, <1>2

\* What the runs check follows.
LEMMA JobsInvMeans == JobsInv => SucceededWasInstalled /\ WavesWait /\ FailingHostToldOnce
  <1> SUFFICES ASSUME JobsInv PROVE SucceededWasInstalled /\ WavesWait /\ FailingHostToldOnce
    OBVIOUS
  <1>1. SucceededWasInstalled
    BY DEF JobsInv, HostJobRows, HostsHaveOne, SucceededWasInstalled, HostIndexAllows
  <1>2. FailingHostToldOnce
    BY UntoldBound DEF JobsInv, AlertsCounted, FailingHostToldOnce, AgentJobsTypeOK
  <1> QED
    BY <1>1, <1>2 DEF JobsInv

-----------------------------------------------------------------------------
(* Acknowledgements. The newest that was not revoked decides.              *)

\* What keeps an alert back is no tighter than it, and is what stood last.
HushedBy ==
    \A h \in hushed :
        /\ acks[h.ack].threshold # Nil => h.alert >= acks[h.ack].threshold
        /\ \A i \in 1..h.rows : i > h.ack => acks[i].revoked

AcksInv == AcksTypeOK /\ HushedBy

\* Acknowledgements: initially.
LEMMA AcksInitInv == AcksInit => AcksInv
  <1> SUFFICES ASSUME AcksInit PROVE AcksInv
    OBVIOUS
  <1>1. acks \in Seq(AckRow) /\ Len(acks) = 0
    BY EmptySeq DEF AcksInit
  <1> QED
    BY <1>1, AcksAssumption DEF AcksInit, AcksInv, AcksTypeOK, HushedBy

\* Rows are added or one of them is changed, its threshold never, a withdrawal for good.
LEMMA AckRowsKeepHushed ==
    ASSUME AcksInv, UNCHANGED hushed, acks' \in Seq(AckRow), Len(acks) <= Len(acks'),
           \A i \in 1..Len(acks) : /\ acks'[i].threshold = acks[i].threshold
                                   /\ acks[i].revoked => acks'[i].revoked
    PROVE  HushedBy' /\ (raised \subseteq raised' => (hushed \subseteq [alert : raised, ack : 1..Len(acks), rows : 1..Len(acks)])')
  <1>1. Len(acks) \in Nat /\ Len(acks') \in Nat
    BY LenProperties DEF AcksInv, AcksTypeOK
  <1>2. \A h \in hushed : h.ack \in 1..Len(acks) /\ h.rows \in 1..Len(acks)
    BY DEF AcksInv, AcksTypeOK
  <1>3. HushedBy'
    BY <1>1, <1>2 DEF AcksInv, HushedBy
  <1>4. 1..Len(acks) \subseteq 1..Len(acks')
    BY <1>1
  <1>5. raised \subseteq raised' => (hushed \subseteq [alert : raised, ack : 1..Len(acks), rows : 1..Len(acks)])'
    BY <1>4 DEF AcksInv, AcksTypeOK
  <1> QED
    BY <1>3, <1>5

\* What GetActiveAcknowledgement reads is the newest that was not revoked.
LEMMA NewestStanding ==
    ASSUME AcksTypeOK
    PROVE  /\ newestActive = GetActiveAcknowledgement
           /\ Standing # {} => /\ GetActiveAcknowledgement \in Standing
                               /\ \A i \in Standing : GetActiveAcknowledgement >= i
           /\ Standing \subseteq 1..Len(acks) /\ Len(acks) \in Nat /\ DOMAIN acks = 1..Len(acks)
  <1>1. Len(acks) \in Nat /\ DOMAIN acks = 1..Len(acks)
    BY LenProperties DEF AcksTypeOK
  <1>2. Standing = {i \in 1..Len(acks) : ~acks[i].revoked}
    BY <1>1 DEF Standing
  <1>3. newestActive = GetActiveAcknowledgement
    BY <1>2 DEF newestActive, SelectLastInSeq, GetActiveAcknowledgement
  <1>4. Standing \in SUBSET (0..Len(acks))
    BY <1>1, <1>2
  <1>5. Standing # {} => Max(Standing) \in Standing /\ \A i \in Standing : Max(Standing) >= i
    BY <1>1, <1>4, MaxIsGreatest
  <1> QED
    BY <1>1, <1>2, <1>3, <1>5 DEF GetActiveAcknowledgement

\* The inductive step of the acknowledgements.
LEMMA AcksStepInv == AcksInv /\ [AcksNext]_acksVars => AcksInv'
  <1> SUFFICES ASSUME AcksInv, [AcksNext]_acksVars PROVE AcksInv'
    OBVIOUS
  <1>0. /\ AcksTypeOK /\ acks \in Seq(AckRow) /\ Len(acks) \in Nat /\ DOMAIN acks = 1..Len(acks)
        /\ Len(acks) <= MaxAckRows /\ MaxAckRows \in Nat /\ AckThresholds \subseteq Nat
        /\ \A i \in 1..Len(acks) : acks[i] \in AckRow
    BY NewestStanding, AcksAssumption, ElementOfSeq DEF AcksInv, AcksTypeOK
  <1>1. ASSUME NEW t \in AckThresholds, RaiseAlert(t) PROVE AcksInv'
    BY <1>0, <1>1, AckRowsKeepHushed DEF RaiseAlert, AcksInv, AcksTypeOK
  <1>2. ASSUME NEW t \in AckThreshold, RecordThreshold(t) PROVE AcksInv'
    BY <1>0, <1>2, AckRowsKeepHushed DEF RecordThreshold, AcksInv, AcksTypeOK
  <1>3. ASSUME NEW t \in AckThreshold, NEW silent \in BOOLEAN, Acknowledge(t, silent) PROVE AcksInv'
    <2>1. UNCHANGED <<raised, recorded, waiting, hushed>> /\ Len(acks) < MaxAckRows
      BY <1>3 DEF Acknowledge
    <2>2. PICK new : new = [threshold |-> t, silent |-> silent, revoked |-> FALSE,
                            seen |-> IF raised = {} THEN Nil ELSE Min(raised)]
      OBVIOUS
    <2>3. raised # {} => Min(raised) \in raised
      <3>1. raised \in SUBSET Nat
        BY <1>0 DEF AcksTypeOK
      <3>2. raised # {} => \E x \in raised : \A y \in raised : x =< y
        BY <3>1, LeastNatural
      <3> QED
        BY <3>2, Zenon DEF Min
    <2>4. (IF raised = {} THEN Nil ELSE Min(raised)) \in AckThreshold
      BY <2>3, <1>0 DEF AckThreshold, AcksTypeOK
    <2>5. new \in AckRow
      BY <2>2, <2>4 DEF AckRow
    <2>6. acks' = Append(acks, new)
      BY <1>3, <2>2 DEF Acknowledge
    <2>7. /\ acks' \in Seq(AckRow) /\ Len(acks') = Len(acks) + 1
          /\ \A i \in 1..Len(acks) : acks'[i] = acks[i]
      BY <1>0, <2>5, <2>6, AppendProperties
    <2>8. Len(acks) <= Len(acks') /\ Len(acks') <= MaxAckRows
      BY <1>0, <2>1, <2>7
    <2>9. \A i \in 1..Len(acks) : acks'[i].threshold = acks[i].threshold /\ (acks[i].revoked => acks'[i].revoked)
      BY <2>7
    <2>10. HushedBy' /\ (raised \subseteq raised' => (hushed \subseteq [alert : raised, ack : 1..Len(acks), rows : 1..Len(acks)])')
      BY <2>1, <2>7, <2>8, <2>9, AckRowsKeepHushed
    <2> QED
      BY <1>0, <2>1, <2>7, <2>8, <2>10 DEF AcksInv, AcksTypeOK
  <1>4. ASSUME NEW i \in DOMAIN acks, NEW new \in AckRow, acks' = [acks EXCEPT ![i] = new],
               new.threshold = acks[i].threshold, acks[i].revoked => new.revoked,
               UNCHANGED <<raised, recorded, waiting, hushed>>
        PROVE  AcksInv'
    <2>1. /\ acks' \in Seq(AckRow) /\ Len(acks') = Len(acks)
          /\ \A j \in 1..Len(acks) : acks'[j] = IF j = i THEN new ELSE acks[j]
      BY <1>0, <1>4, ExceptSeq
    <2>2. \A j \in 1..Len(acks) : acks'[j].threshold = acks[j].threshold /\ (acks[j].revoked => acks'[j].revoked)
      BY <1>4, <2>1
    <2>3. Len(acks) <= Len(acks')
      BY <1>0, <2>1
    <2>4. HushedBy' /\ (raised \subseteq raised' => (hushed \subseteq [alert : raised, ack : 1..Len(acks), rows : 1..Len(acks)])')
      BY <1>4, <2>1, <2>2, <2>3, AckRowsKeepHushed
    <2> QED
      BY <1>0, <1>4, <2>1, <2>4 DEF AcksInv, AcksTypeOK
  <1>5. ASSUME NEW i \in DOMAIN acks, SilenceEnds(i) PROVE AcksInv'
    <2>1. PICK new : new = [acks[i] EXCEPT !.silent = FALSE]
      OBVIOUS
    <2>2. new \in AckRow /\ new.threshold = acks[i].threshold /\ (acks[i].revoked => new.revoked)
      BY <1>0, <2>1 DEF AckRow
    <2>3. acks' = [acks EXCEPT ![i] = new] /\ UNCHANGED <<raised, recorded, waiting, hushed>>
      BY <1>5, <2>1 DEF SilenceEnds
    <2> QED
      BY <1>4, <2>2, <2>3
  <1>6. ASSUME Withdraw PROVE AcksInv'
    <2>0. PICK i : i = GetActiveAcknowledgement
      OBVIOUS
    <2>1. i \in DOMAIN acks
      BY <2>0, <1>0, <1>6, NewestStanding DEF Withdraw
    <2>2. PICK new : new = [acks[i] EXCEPT !.revoked = TRUE]
      OBVIOUS
    <2>3. new \in AckRow /\ new.threshold = acks[i].threshold /\ new.revoked
      BY <1>0, <2>1, <2>2 DEF AckRow
    <2>4. acks' = [acks EXCEPT ![i] = new] /\ UNCHANGED <<raised, recorded, waiting, hushed>>
      BY <1>6, <2>0, <2>2 DEF Withdraw
    <2> QED
      BY <1>4, <2>1, <2>3, <2>4
  <1>7. ASSUME NEW t \in AckThresholds, Dispatch(t) PROVE AcksInv'
    <2>1. UNCHANGED <<raised, recorded, acks>> /\ t \in waiting /\ waiting' = waiting \ {t} /\ t \in raised
      BY <1>0, <1>7 DEF Dispatch, AcksTypeOK
    <2>2. PICK i : i = GetActiveAcknowledgement
      OBVIOUS
    <2>3. CASE Silencer(t) = 0
      <3>1. UNCHANGED hushed
        BY <1>7, <2>3 DEF Dispatch
      <3> QED
        BY <1>0, <2>1, <3>1 DEF AcksInv, AcksTypeOK, HushedBy
    <2>4. ASSUME Silencer(t) # 0 PROVE AcksInv'
      <3>1. /\ Silencer(t) = i /\ i # 0 /\ SuppressesDelivery(acks[i], t)
        BY <2>2, <2>4 DEF Silencer
      <3>2. Standing # {}
        BY <3>1, <2>2 DEF GetActiveAcknowledgement
      <3>3. /\ i \in Standing /\ \A j \in Standing : i >= j
            /\ i \in 1..Len(acks) /\ Len(acks) \in 1..Len(acks)
        BY <1>0, <2>2, <3>2, NewestStanding
      <3>4. PICK new : new = [alert |-> t, ack |-> i, rows |-> Len(acks)]
        OBVIOUS
      <3>5. hushed' = hushed \cup {new}
        BY <1>7, <2>4, <3>1, <3>4 DEF Dispatch
      <3>6. new.alert = t /\ new.ack = i /\ new.rows = Len(acks) /\ new \in [alert : raised, ack : 1..Len(acks), rows : 1..Len(acks)]
        BY <3>3, <3>4, <2>1
      <3>7. acks[i].threshold # Nil => t >= acks[i].threshold
        <4>1. ~(acks[i].threshold # Nil /\ t < acks[i].threshold)
          BY <3>1 DEF SuppressesDelivery, IsActive
        <4>2. acks[i].threshold \in AckThreshold
          BY <1>0, <3>3 DEF AckRow
        <4>3. t \in Nat /\ (acks[i].threshold # Nil => acks[i].threshold \in Nat)
          BY <4>2, <1>0 DEF AckThreshold
        <4> QED
          BY <4>1, <4>3
      <3>8. \A j \in 1..Len(acks) : j > i => acks[j].revoked
        BY <1>0, <3>3 DEF Standing
      <3>9. HushedBy'
        BY <2>1, <3>5, <3>6, <3>7, <3>8 DEF AcksInv, HushedBy
      <3> QED
        BY <1>0, <2>1, <3>5, <3>6, <3>9 DEF AcksInv, AcksTypeOK
    <2> QED
      BY <2>3, <2>4
  <1>8. ASSUME NEW t \in AckThresholds, DispatchUnasked(t) PROVE AcksInv'
    BY <1>0, <1>8 DEF DispatchUnasked, AcksInv, AcksTypeOK, HushedBy
  <1>9. ASSUME UNCHANGED acksVars PROVE AcksInv'
    BY <1>0, <1>9 DEF acksVars, AcksInv, AcksTypeOK, HushedBy
  <1> QED
    BY <1>1, <1>2, <1>3, <1>5, <1>6, <1>7, <1>8, <1>9 DEF AcksNext

\* What the runs check follows.
LEMMA AcksInvMeans == AcksInv => SilenceIsForWhatWasSeen /\ LastWordCounts /\ SameAcknowledgement
  <1> SUFFICES ASSUME AcksInv PROVE SilenceIsForWhatWasSeen /\ LastWordCounts /\ SameAcknowledgement
    OBVIOUS
  <1>1. SameAcknowledgement
    BY NewestStanding DEF AcksInv, SameAcknowledgement
  <1>2. SilenceIsForWhatWasSeen
    BY DEF AcksInv, HushedBy, SilenceIsForWhatWasSeen
  <1>3. LastWordCounts
    <2>1. Len(acks) \in Nat /\ \A h \in hushed : h.ack \in 1..Len(acks) /\ h.rows \in 1..Len(acks)
      BY NewestStanding DEF AcksInv, AcksTypeOK
    <2> QED
      BY <2>1 DEF AcksInv, HushedBy, LastWordCounts
  <1> QED
    BY <1>1, <1>2, <1>3

-----------------------------------------------------------------------------
(* Retries. What an attempt takes of the certificate is its share of the   *)
(* runway, so that the attempts until the expiry add up to the budget.     *)

\* The recursive definition of the doubling defines it: one of the first n
\* shifts extends to one of n + 1.
DoublesTo(g, n) == g = [i \in 0..n |-> IF i = 0 THEN BaseDelay ELSE 2 * g[i - 1]]

\* The doubling of retryAt is what its definition says, up to the largest
\* exponent that fits a Duration.
LEMMA DoubledExists ==
    Doubled = [i \in 0..MaxShift |-> IF i = 0 THEN BaseDelay ELSE 2 * Doubled[i - 1]]
  <1> DEFINE Missing == {n \in Nat : ~\E g : DoublesTo(g, n)}
  <1>1. 0 \notin Missing
    <2>1. DoublesTo([i \in 0..0 |-> BaseDelay], 0)
      BY DEF DoublesTo
    <2> QED
      BY <2>1
  <1>2. ASSUME NEW n \in Nat, n \notin Missing PROVE n + 1 \notin Missing
    <2>1. PICK g : DoublesTo(g, n)
      BY <1>2
    <2> DEFINE h == [i \in 0..(n + 1) |-> IF i = n + 1 THEN 2 * g[n] ELSE g[i]]
    <2>2. \A i \in 0..n : g[i] = IF i = 0 THEN BaseDelay ELSE 2 * g[i - 1]
      BY <2>1 DEF DoublesTo
    <2>3. \A i \in 0..(n + 1) : h[i] = IF i = 0 THEN BaseDelay ELSE 2 * h[i - 1]
      <3>1. ASSUME NEW i \in 0..(n + 1) PROVE h[i] = IF i = 0 THEN BaseDelay ELSE 2 * h[i - 1]
        <4>1. CASE i = n + 1
          <5>1. h[i] = 2 * g[n] /\ h[i - 1] = g[n] /\ i # 0
            BY <4>1
          <5> QED
            BY <5>1
        <4>2. CASE i = 0
          BY <2>2, <4>2
        <4>3. CASE i # n + 1 /\ i # 0
          <5>1. i \in 0..n /\ i - 1 \in 0..n /\ h[i] = g[i] /\ h[i - 1] = g[i - 1]
            BY <4>3
          <5> QED
            BY <2>2, <4>3, <5>1
        <4> QED
          BY <4>1, <4>2, <4>3
      <3> QED
        BY <3>1
    <2>4. DoublesTo(h, n + 1)
      <3> DEFINE k == [i \in 0..(n + 1) |-> IF i = 0 THEN BaseDelay ELSE 2 * h[i - 1]]
      <3>1. \A i \in 0..(n + 1) : h[i] = k[i]
        BY <2>3
      <3>2. h = k
        <4>1. h = [i \in 0..(n + 1) |-> h[i]] /\ k = [i \in 0..(n + 1) |-> k[i]]
          OBVIOUS
        <4> HIDE DEF h, k
        <4> QED
          BY <3>1, <4>1
      <3> QED
        BY <3>2 DEF DoublesTo
    <2> QED
      BY <2>4
  <1>3. Missing = {}
    <2> SUFFICES ASSUME Missing # {} PROVE FALSE
      OBVIOUS
    <2>1. Missing \in SUBSET Nat
      OBVIOUS
    <2> HIDE DEF Missing
    <2>2. PICK m \in Missing : \A y \in Missing : m <= y
      BY <2>1, LeastNatural
    <2>3. m \in Nat /\ m # 0
      BY <1>1, <2>1
    <2>4. m - 1 \in Nat /\ m - 1 \notin Missing
      BY <2>1, <2>2, <2>3
    <2> QED
      BY <1>2, <2>3, <2>4
  <1>4. \E g : DoublesTo(g, MaxShift)
    BY <1>3, RetryAssumption
  <1> QED
    BY <1>4, Zenon DEF Doubled, DoublesTo

\* The doubling grows from the base.
LEMMA DoubledGrows ==
    /\ \A n \in 0..MaxShift : Doubled[n] \in Nat /\ Doubled[n] > 0
    /\ \A n \in 0..MaxShift : n # 0 => Doubled[n - 1] <= Doubled[n]
  <1>0. BaseDelay \in Nat /\ BaseDelay > 0 /\ MaxShift \in Nat
    BY RetryAssumption
  <1>1. \A n \in 0..MaxShift : Doubled[n] = IF n = 0 THEN BaseDelay ELSE 2 * Doubled[n - 1]
    BY DoubledExists
  <1> DEFINE Wrong == {n \in 0..MaxShift : ~(Doubled[n] \in Nat /\ Doubled[n] > 0)}
  <1>2. Wrong = {}
    <2> SUFFICES ASSUME Wrong # {} PROVE FALSE
      OBVIOUS
    <2>1. Wrong \in SUBSET Nat
      BY <1>0
    <2>2. PICK m \in Wrong : \A y \in Wrong : m <= y
      <3> HIDE DEF Wrong
      <3> QED
        BY <2>1, LeastNatural
    <2>3. m # 0 /\ m \in 0..MaxShift /\ m - 1 \in 0..MaxShift
      BY <1>0, <1>1, <2>2
    <2>4. m - 1 \notin Wrong
      BY <1>0, <2>2, <2>3
    <2>5. Doubled[m - 1] \in Nat /\ Doubled[m - 1] > 0
      BY <2>3, <2>4
    <2>6. Doubled[m] = 2 * Doubled[m - 1]
      BY <1>1, <2>3
    <2> QED
      BY <2>2, <2>5, <2>6
  <1>3. \A n \in 0..MaxShift : Doubled[n] \in Nat /\ Doubled[n] > 0
    BY <1>2
  <1>4. ASSUME NEW n \in 0..MaxShift, n # 0 PROVE Doubled[n - 1] <= Doubled[n]
    <2>1. n - 1 \in 0..MaxShift /\ Doubled[n] = 2 * Doubled[n - 1]
      BY <1>0, <1>1, <1>4
    <2> QED
      BY <1>3, <2>1
  <1> QED
    BY <1>3, <1>4

\* The lesser of two numbers.
LEMMA LesserOf ==
    ASSUME NEW a \in Int, NEW b \in Int
    PROVE  Min({a, b}) = IF a <= b THEN a ELSE b
  <1>1. PICK x \in {a, b} : \A y \in {a, b} : x <= y
    <2>1. CASE a <= b
      BY <2>1
    <2>2. CASE b <= a
      BY <2>2
    <2> QED
      BY <2>1, <2>2
  <1>2. Min({a, b}) \in {a, b} /\ \A y \in {a, b} : Min({a, b}) <= y
    BY <1>1 DEF Min
  <1> QED
    BY <1>2

\* The greater of two numbers.
LEMMA GreaterOf ==
    ASSUME NEW a \in Int, NEW b \in Int
    PROVE  Max({a, b}) = IF a >= b THEN a ELSE b
  <1>1. PICK x \in {a, b} : \A y \in {a, b} : x >= y
    <2>1. CASE a >= b
      BY <2>1
    <2>2. CASE b >= a
      BY <2>2
    <2> QED
      BY <2>1, <2>2
  <1>2. Max({a, b}) \in {a, b} /\ \A y \in {a, b} : Max({a, b}) >= y
    BY <1>1 DEF Max
  <1> QED
    BY <1>2

\* The greatest of three numbers is one of them and none is greater.
LEMMA GreatestOfThree ==
    ASSUME NEW a \in Int, NEW b \in Int, NEW c \in Int
    PROVE  /\ Max({a, b, c}) \in {a, b, c}
           /\ Max({a, b, c}) >= a /\ Max({a, b, c}) >= b /\ Max({a, b, c}) >= c
  <1>1. \E x \in {a, b, c} : \A y \in {a, b, c} : x >= y
    <2>1. CASE a >= b /\ a >= c
      BY <2>1
    <2>2. CASE b >= a /\ b >= c
      BY <2>2
    <2>3. CASE c >= a /\ c >= b
      BY <2>3
    <2> QED
      BY <2>1, <2>2, <2>3
  <1>2. Max({a, b, c}) \in {a, b, c} /\ \A y \in {a, b, c} : Max({a, b, c}) >= y
    BY <1>1 DEF Max
  <1> QED
    BY <1>2

\* What ordinary backoff answers: a delay that is never out of bounds and never
\* shrinks, whatever a product that does not fit converts to.
LEMMA BackoffBounds ==
    ASSUME NEW n \in Nat, NEW o \in Conversions, NEW p \in Conversions
    PROVE  /\ Backoff(n, o) \in Nat /\ Backoff(n, o) > 0 /\ Backoff(n, o) <= MaxRetry
           /\ Backoff(n, o) <= Backoff(n + 1, p)
  <1>0. MaxRetry \in Nat /\ MaxRetry > 0 /\ MaxShift \in Nat /\ o \in {-1, MaxRetry + 1} /\ p \in {-1, MaxRetry + 1}
    BY RetryAssumption DEF Conversions
  <1>1. PICK s : s = IF n > 1 THEN n - 1 ELSE 0
    OBVIOUS
  <1>2. PICK t : t = IF n + 1 > 1 THEN n + 1 - 1 ELSE 0
    OBVIOUS
  <1>3. s \in Nat /\ t \in Nat /\ (t = s \/ t = s + 1)
    BY <1>1, <1>2
  <1>4. /\ Backoff(n, o) = IF s > MaxShift THEN MaxRetry
                           ELSE IF Doubled[s] > MaxRetry \/ Doubled[s] <= 0 THEN MaxRetry ELSE Doubled[s]
    BY <1>0, <1>1, <1>3 DEF Backoff
  <1>5. /\ Backoff(n + 1, p) = IF t > MaxShift THEN MaxRetry
                               ELSE IF Doubled[t] > MaxRetry \/ Doubled[t] <= 0 THEN MaxRetry ELSE Doubled[t]
    BY <1>0, <1>2, <1>3 DEF Backoff
  <1>6. s <= MaxShift => Doubled[s] \in Nat /\ Doubled[s] > 0
    BY <1>0, <1>3, DoubledGrows
  <1>7. t <= MaxShift => Doubled[t] \in Nat /\ Doubled[t] > 0 /\ s <= MaxShift /\ Doubled[s] <= Doubled[t]
    <2>1. CASE t = s
      BY <1>0, <1>3, <2>1, DoubledGrows
    <2>2. CASE t = s + 1
      <3>1. t <= MaxShift => t \in 0..MaxShift /\ t # 0 /\ t - 1 = s
        BY <1>0, <1>3, <2>2
      <3> QED
        BY <1>0, <1>3, <2>2, <3>1, DoubledGrows
    <2> QED
      BY <1>3, <2>1, <2>2
  <1> QED
    BY <1>0, <1>3, <1>4, <1>5, <1>6, <1>7

\* The deadline only takes from the delay, and takes from all delays alike.
LEMMA RunwayBounds ==
    ASSUME NEW d \in Nat, NEW e \in Nat, d <= e, NEW runway \in Nat \cup {Nil}
    PROVE  /\ WithinRunway(d, runway) \in Nat
           /\ WithinRunway(d, runway) <= WithinRunway(e, runway)
           /\ runway \in Nat \ {0} => Budget * WithinRunway(d, runway) <= runway
  <1>0. Budget \in Nat /\ Budget > 0 /\ MinRetry \in Nat /\ Nil \notin Nat
    BY RetryAssumption
  <1>1. CASE runway = Nil
    BY <1>0, <1>1 DEF WithinRunway
  <1>2. CASE runway = 0
    BY <1>0, <1>2 DEF WithinRunway
  <1>3. CASE runway # Nil /\ runway # 0
    <2>1. runway \in Nat
      BY <1>3
    <2>2. PICK q : q = runway \div Budget
      OBVIOUS
    <2>3. q \in Nat /\ Budget * q <= runway
      BY <1>0, <2>1, <2>2
    <2>4. WithinRunway(d, runway) = Min({q, d}) /\ WithinRunway(e, runway) = Min({q, e})
      BY <1>0, <1>3, <2>2 DEF WithinRunway
    <2>5. Min({q, d}) = (IF q <= d THEN q ELSE d) /\ Min({q, e}) = IF q <= e THEN q ELSE e
      BY <2>3, LesserOf
    <2>6. PICK m, l : m = Min({q, d}) /\ l = Min({q, e})
      OBVIOUS
    <2>7. m \in Nat /\ m <= l /\ m <= q
      BY <2>3, <2>5, <2>6
    <2>8. Budget * m <= Budget * q
      BY <1>0, <2>3, <2>7
    <2>9. Budget * m \in Nat /\ Budget * q \in Nat
      BY <1>0, <2>3, <2>7
    <2>10. Budget * m <= runway
      BY <2>1, <2>3, <2>8, <2>9
    <2> QED
      BY <2>4, <2>6, <2>7, <2>10
  <1> QED
    BY <1>1, <1>2, <1>3

\* What one quick attempt may take of the certificate, times five budgets: its
\* share of the runway, a fifth more for the jitter, or the floor.
Share == IF 6 * firstLeft >= 5 * (Budget * MinRetry) THEN 6 * firstLeft ELSE 5 * (Budget * MinRetry)

\* What is left of the certificate is unknown throughout or never grows, and
\* while every attempt was quick none took more than its share.
RunwaySpent ==
    /\ left = Nil <=> firstLeft = Nil
    /\ firstLeft # Nil => left <= firstLeft
    /\ firstLeft # Nil /\ ~slow => 5 * (Budget * (firstLeft - left)) <= triedAlive * Share

RetryInv == RetryTypeOK /\ RunwaySpent

\* A product of naturals grows with its factor.
LEMMA ProductGrows ==
    ASSUME NEW a \in Nat, NEW b \in Nat, NEW c \in Nat, b <= c
    PROVE  a * b <= a * c /\ a * b \in Nat /\ a * c \in Nat /\ a * b = b * a
  OBVIOUS

\* A positive factor can be cancelled.
LEMMA ProductCancels ==
    ASSUME NEW a \in Nat, NEW b \in Nat, NEW c \in Nat \ {0}, c * a <= c * b
    PROVE  a <= b
  <1> SUFFICES ASSUME b + 1 <= a PROVE FALSE
    OBVIOUS
  <1>1. c * (b + 1) <= c * a
    BY ProductGrows
  <1>2. c * (b + 1) = c * b + c
    OBVIOUS
  <1>3. c * b \in Nat /\ c * a \in Nat /\ c > 0
    BY ProductGrows
  <1> QED
    BY <1>1, <1>2, <1>3

\* Retries: initially.
LEMMA RetryInitInv == RetryInit => RetryInv
  <1> SUFFICES ASSUME RetryInit PROVE RetryInv
    OBVIOUS
  <1>1. /\ firstLeft \in Runways /\ left = firstLeft /\ failures = 0 /\ triedAlive = 0 /\ slow = FALSE
        /\ firstLeft \in Nat \cup {Nil} /\ Budget \in Nat /\ MinRetry \in Nat /\ MaxFailures \in Nat
    BY RetryAssumption DEF RetryInit
  <1>2. RetryTypeOK
    <2>0. 0 \in 0..MaxFailures /\ 0 \in 0..0
      <3>1. MaxFailures \in Nat
        BY <1>1
      <3> QED
        BY <3>1
    <2>1. 0 \in 0..MaxFailures /\ 0 \in 0..0 /\ slow \in BOOLEAN
      BY <1>1, <2>0, Zenon
    <2> QED
      BY <1>1, <2>1 DEF RetryTypeOK
  <1>3. firstLeft # Nil => 5 * (Budget * (firstLeft - left)) = 0
    BY <1>1
  <1>4. firstLeft # Nil => Share \in Nat
    BY <1>1 DEF Share
  <1>5. firstLeft # Nil => 0 * Share = 0 /\ left <= firstLeft
    BY <1>1, <1>4
  <1>6. RunwaySpent
    BY <1>1, <1>3, <1>5 DEF RunwaySpent
  <1> QED
    BY <1>2, <1>6 DEF RetryInv

\* The wait after a quick attempt of a certificate that is alive.
LEMMA WaitIsShared ==
    ASSUME RetryInv, firstLeft # Nil, left # 0, NEW o \in Conversions,
           NEW j \in Jittered(RetryDelay(failures + 1, left, o)), NEW took \in Nat, took <= MinRetry
    PROVE  5 * (Budget * Max({j, MinRetry, took})) <= Share /\ Max({j, MinRetry, took}) \in Nat
  <1>0. /\ Budget \in Nat /\ MinRetry \in Nat /\ left \in Nat /\ firstLeft \in Nat /\ left <= firstLeft /\ failures + 1 \in Nat
    BY RetryAssumption DEF RetryInv, RetryTypeOK, RunwaySpent
  <1>1. PICK d : d = RetryDelay(failures + 1, left, o)
    OBVIOUS
  <1>2. d \in Nat /\ Budget * d <= left
    <2>1. PICK b : b = Backoff(failures + 1, o)
      OBVIOUS
    <2>2. b \in Nat /\ b <= b /\ left \in Nat \cup {Nil} /\ left \in Nat \ {0}
      BY <1>0, <2>1, BackoffBounds
    <2>3. WithinRunway(b, left) \in Nat /\ Budget * WithinRunway(b, left) <= left
      BY <2>2, RunwayBounds
    <2> QED
      BY <1>1, <2>1, <2>3 DEF RetryDelay
  <1>3. j \in Nat /\ 5 * j <= 6 * d
    <2>1. j \in {d - d \div 5, d, d + d \div 5}
      BY <1>1 DEF Jittered
    <2>2. d \div 5 \in Nat /\ 5 * (d \div 5) <= d
      BY <1>2
    <2> QED
      BY <1>2, <2>1, <2>2
  <1>4. 5 * (Budget * j) <= 6 * firstLeft
    <2>1. Budget * (5 * j) <= Budget * (6 * d)
      BY <1>0, <1>2, <1>3, ProductGrows
    <2>2. Budget * (5 * j) = 5 * (Budget * j) /\ Budget * (6 * d) = 6 * (Budget * d)
      BY <1>0, <1>2, <1>3
    <2>3. Budget * j \in Nat /\ Budget * d \in Nat
      BY <1>0, <1>2, <1>3
    <2> QED
      BY <1>0, <1>2, <2>1, <2>2, <2>3
  <1>5. PICK w : w = Max({j, MinRetry, took})
    OBVIOUS
  <1>6. w \in {j, MinRetry, took}
    <2>1. j \in Int /\ MinRetry \in Int /\ took \in Int
      BY <1>0, <1>3
    <2> QED
      BY <1>5, <2>1, GreatestOfThree
  <1>7. PICK p, q, r, f : p = Budget * j /\ q = Budget * MinRetry /\ r = Budget * took /\ f = 6 * firstLeft
    OBVIOUS
  <1>8. p \in Nat /\ q \in Nat /\ r \in Nat /\ f \in Nat /\ r <= q /\ 5 * p <= f
    BY <1>0, <1>3, <1>4, <1>7, ProductGrows
  <1>9. Budget * w \in {p, q, r} /\ w \in Nat
    BY <1>0, <1>3, <1>6, <1>7
  <1>10. Share = IF f >= 5 * q THEN f ELSE 5 * q
    BY <1>7 DEF Share
  <1> QED
    BY <1>5, <1>8, <1>9, <1>10

\* The inductive step of the retries.
LEMMA RetryStepInv == RetryInv /\ [RetryNext]_retryVars => RetryInv'
  <1>1. ASSUME RetryInv, UNCHANGED retryVars PROVE RetryInv'
    BY <1>1 DEF retryVars, RetryInv, RetryTypeOK, RunwaySpent, Share
  <1>2. ASSUME RetryInv, NEW o \in Conversions, NEW took \in Durations, AttemptFails(o, took) PROVE RetryInv'
    <2>0. /\ took \in Nat /\ MinRetry \in Nat /\ Budget \in Nat /\ failures \in 0..MaxFailures /\ triedAlive \in 0..failures
          /\ MaxFailures \in Nat /\ slow \in BOOLEAN /\ left \in Nat \cup {Nil} /\ firstLeft \in Nat \cup {Nil} /\ Nil \notin Nat
      BY <1>2, RetryAssumption DEF RetryInv, RetryTypeOK
    <2>1. /\ failures < MaxFailures /\ failures' = failures + 1 /\ firstLeft' = firstLeft
          /\ triedAlive' = IF left = 0 THEN triedAlive ELSE triedAlive + 1
          /\ slow' \in BOOLEAN /\ (slow' <=> (slow \/ took > MinRetry))
      BY <1>2, <2>0 DEF AttemptFails
    <2>2. PICK j \in Jittered(RetryDelay(failures + 1, left, o)) :
             left' = IF left = Nil THEN Nil ELSE Max({left - Max({j, MinRetry, took}), 0})
      BY <1>2, <2>1 DEF AttemptFails
    <2>3. PICK w : w = Max({j, MinRetry, took})
      OBVIOUS
    <2>4. j \in Int
      <3>1. PICK d : d = RetryDelay(failures + 1, left, o)
        OBVIOUS
      <3>2. d \in Nat
        <4>1. PICK b : b = Backoff(failures + 1, o)
          OBVIOUS
        <4>2. b \in Nat /\ b <= b
          <5>1. failures + 1 \in Nat
            BY <2>0
          <5> QED
            BY <4>1, <5>1, BackoffBounds
        <4>3. WithinRunway(b, left) \in Nat
          BY <2>0, <4>2, RunwayBounds
        <4> QED
          BY <3>1, <4>1, <4>3 DEF RetryDelay
      <3>3. d \div 5 \in Nat
        BY <3>2
      <3> QED
        BY <3>1, <3>2, <3>3 DEF Jittered
    <2>5. w \in Nat
      <3>0. j \in Int /\ MinRetry \in Int /\ took \in Int
        BY <2>0, <2>4
      <3>1. w \in {j, MinRetry, took} /\ w >= MinRetry
        BY <2>3, <3>0, GreatestOfThree
      <3> QED
        BY <2>0, <2>4, <3>1
    <2>6. left # Nil => /\ left' = IF left >= w THEN left - w ELSE 0
                        /\ left' \in Nat /\ left' <= left /\ left - left' <= w
      BY <2>0, <2>2, <2>3, <2>5, GreaterOf
    <2>7. RetryTypeOK'
      <3>1. failures' \in 0..MaxFailures /\ triedAlive' \in 0..failures' /\ slow' \in BOOLEAN
        BY <2>0, <2>1
      <3>2. left' \in Nat \cup {Nil}
        BY <2>2, <2>6
      <3> QED
        BY <1>2, <2>1, <3>1, <3>2 DEF RetryInv, RetryTypeOK
    <2>8. left' = Nil <=> firstLeft' = Nil
      BY <1>2, <2>0, <2>1, <2>2, <2>6 DEF RetryInv, RunwaySpent
    <2>9. firstLeft # Nil => left' <= firstLeft
      BY <1>2, <2>0, <2>6 DEF RetryInv, RunwaySpent
    <2>10. ASSUME firstLeft # Nil, ~slow' PROVE 5 * (Budget * (firstLeft - left')) <= triedAlive' * Share
      <3>0. firstLeft \in Nat /\ left \in Nat /\ ~slow /\ took <= MinRetry /\ left <= firstLeft
        <4>1. ~slow /\ ~(took > MinRetry)
          BY <2>1, <2>10
        <4>2. left # Nil /\ left <= firstLeft
          BY <1>2, <2>10 DEF RetryInv, RunwaySpent
        <4> QED
          BY <2>0, <2>10, <4>1, <4>2
      <3>1. 5 * (Budget * (firstLeft - left)) <= triedAlive * Share
        BY <1>2, <2>10, <3>0 DEF RetryInv, RunwaySpent
      <3>2. CASE left = 0
        BY <2>0, <2>1, <2>6, <3>0, <3>1, <3>2
      <3>3. CASE left # 0
        <4>1. 5 * (Budget * w) <= Share
          BY <1>2, <2>0, <2>2, <2>3, <2>10, <3>0, <3>3, WaitIsShared
        <4>2. Share \in Nat /\ triedAlive \in Nat
          BY <2>0, <3>0 DEF Share
        <4>3. PICK a, b : a = firstLeft - left /\ b = left - left'
          OBVIOUS
        <4>4. a \in Nat /\ b \in Nat /\ b <= w /\ firstLeft - left' = a + b
          <5>1. left' \in Nat /\ left' <= left /\ left - left' <= w
            BY <2>0, <2>6, <3>0
          <5>2. PICK l : l = left'
            OBVIOUS
          <5>3. l \in Nat /\ l <= left /\ left - l <= w /\ b = left - l
            BY <4>3, <5>1, <5>2
          <5>4. a \in Nat /\ a = firstLeft - left
            BY <3>0, <4>3
          <5>5. b \in Nat /\ b <= w
            BY <3>0, <5>3
          <5>6. firstLeft - l = a + b
            BY <3>0, <5>3, <5>4
          <5> QED
            BY <5>2, <5>4, <5>5, <5>6
        <4>5. Budget * b <= Budget * w /\ Budget * b \in Nat /\ Budget * w \in Nat /\ Budget * a \in Nat
          BY <2>0, <2>5, <4>4, ProductGrows
        <4>6. Budget * (a + b) = Budget * a + Budget * b
          BY <2>0, <4>4
        <4>7. (triedAlive + 1) * Share = triedAlive * Share + Share /\ triedAlive * Share \in Nat
          BY <4>2
        <4>8. PICK x, y, z, t : x = Budget * a /\ y = Budget * b /\ z = Budget * w /\ t = triedAlive * Share
          OBVIOUS
        <4>9. 5 * (x + y) <= t + Share
          BY <3>1, <4>1, <4>2, <4>3, <4>5, <4>7, <4>8
        <4> QED
          BY <2>1, <3>3, <4>4, <4>6, <4>7, <4>8, <4>9
      <3> QED
        BY <3>2, <3>3
    <2>11. Share' = Share
      BY <2>1 DEF Share
    <2> QED
      BY <2>1, <2>7, <2>8, <2>9, <2>10, <2>11 DEF RetryInv, RunwaySpent
  <1> QED
    BY <1>1, <1>2 DEF RetryNext

\* What the runs check follows: a certificate that was tried until it expired
\* was tried as often as the budget, or the floor, allows.
LEMMA RetryInvMeans == RetryInv => TriesFitRunway /\ BackoffGrows
  <1> SUFFICES ASSUME RetryInv PROVE TriesFitRunway /\ BackoffGrows
    OBVIOUS
  <1>0. /\ Budget \in Nat \ {0} /\ MinRetry \in Nat \ {0} /\ triedAlive \in Nat /\ failures \in Nat
        /\ left \in Nat \cup {Nil} /\ firstLeft \in Nat \cup {Nil} /\ Nil \notin Nat
    BY RetryAssumption DEF RetryInv, RetryTypeOK
  <1>1. ASSUME left = 0, ~slow PROVE 6 * triedAlive >= 5 * Min({Budget, firstLeft \div MinRetry})
    <2>1. firstLeft \in Nat /\ firstLeft - left = firstLeft
      BY <1>0, <1>1 DEF RetryInv, RunwaySpent
    <2>2. 5 * (Budget * firstLeft) <= triedAlive * Share
      BY <1>0, <1>1, <2>1 DEF RetryInv, RunwaySpent
    <2>3. PICK floors : floors = firstLeft \div MinRetry
      OBVIOUS
    <2>4. floors \in Nat /\ firstLeft < (floors + 1) * MinRetry /\ floors * MinRetry <= firstLeft
      BY <1>0, <2>1, <2>3
    <2>5. PICK m : m = Min({Budget, floors})
      OBVIOUS
    <2>6. m \in Nat /\ m <= Budget /\ m <= floors
      BY <1>0, <2>4, <2>5, LesserOf
    <2>7. CASE Share = 6 * firstLeft /\ firstLeft # 0
      <3>1. PICK b, t : b = 5 * Budget /\ t = 6 * triedAlive
        OBVIOUS
      <3>2. b \in Nat /\ t \in Nat
        BY <1>0, <3>1
      <3>3. firstLeft * b <= firstLeft * t
        <4>1. 5 * (Budget * firstLeft) = firstLeft * b /\ triedAlive * (6 * firstLeft) = firstLeft * t
          BY <1>0, <2>1, <3>1
        <4> QED
          BY <2>2, <2>7, <4>1
      <3>4. b <= t
        BY <2>1, <2>7, <3>2, <3>3, ProductCancels
      <3> QED
        BY <1>0, <2>3, <2>5, <2>6, <3>1, <3>4
    <2>8. CASE Share = 5 * (Budget * MinRetry)
      <3>1. PICK k, t : k = 5 * Budget /\ t = triedAlive * MinRetry
        OBVIOUS
      <3>2. k \in Nat \ {0} /\ t \in Nat
        BY <1>0, <3>1
      <3>3. k * firstLeft <= k * t
        <4>1. 5 * (Budget * firstLeft) = k * firstLeft
          BY <1>0, <2>1, <3>1
        <4>2. triedAlive * (5 * (Budget * MinRetry)) = k * t
          BY <1>0, <3>1
        <4> QED
          BY <2>2, <2>8, <4>1, <4>2
      <3>4. firstLeft <= t
        BY <2>1, <3>2, <3>3, ProductCancels
      <3>5. MinRetry * floors <= MinRetry * triedAlive
        BY <1>0, <2>1, <2>4, <3>1, <3>2, <3>4, ProductGrows
      <3>6. floors <= triedAlive
        BY <1>0, <2>4, <3>5, ProductCancels
      <3> QED
        BY <1>0, <2>3, <2>4, <2>5, <2>6, <3>6
    <2>9. CASE firstLeft = 0
      <3>1. floors = 0
        BY <1>0, <2>3, <2>9
      <3> QED
        BY <1>0, <2>3, <2>5, <2>6, <3>1
    <2> QED
      BY <2>7, <2>8, <2>9 DEF Share
  <1>2. ASSUME NEW o \in Conversions, NEW p \in Conversions
        PROVE  RetryDelay(failures, left, o) <= RetryDelay(failures + 1, left, p)
    <2>1. failures + 1 \in Nat
      BY <1>0
    <2> QED
      BY <1>0, <2>1, BackoffBounds, RunwayBounds DEF RetryDelay
  <1> QED
    BY <1>1, <1>2 DEF TriesFitRunway, BackoffGrows
=============================================================================
