----------------------------- MODULE CTMonitors -----------------------------
(***************************************************************************)
(* Certificate transparency: a monitor asks a log index for the entries of *)
(* its domain after the last one seen, stores those not stored yet, moves  *)
(* the cursor and announces the certificates nobody manages. Checks of one *)
(* monitor overlap: each replica's ticker, and operators. When a check is  *)
(* due is as in DiscoverySchedules and left out.                           *)
(***************************************************************************)
EXTENDS Integers, Sequences, FiniteSets, FiniteSetsExt, Common

CONSTANTS
    Serials,        \* serial numbers of certificates
    Domains,        \* domains a monitor may watch
    Checkers,       \* checks, each made at most once
    MaxAnswer,      \* maxEntries of one answer
    MaxLog          \* bound: entries of the log

ASSUME CTAssumption == Domains # {} /\ MaxAnswer \in Nat \ {0} /\ MaxLog \in Nat

VARIABLES
    ctLog,          \* sequence of LogEntry; an entry's id is its place
    watched,        \* the monitor's domain
    cursor,         \* last_entry_id, 0 for none
    seenCount,      \* certificates_seen
    ctRow,          \* [Ids -> CTRow]: ct_certificates by entry id
    managedSerials, \* serials in the inventory
    check,          \* [Checkers -> CheckState]
    toldOf,         \* history: [Ids -> Nat] announcements of an entry
    passedOver,     \* history: ids cut from an answer, or of a domain not watched then
    lostNews,       \* history: ids added by a check that died before it announced them
    lostMarks,      \* history: a check's mark failed after it stored
    apart           \* history: serials of which two answers each had a newest entry of their own

ctVars == <<ctLog, watched, cursor, seenCount, ctRow, managedSerials, check, toldOf, passedOver, lostNews, lostMarks, apart>>

Ids == 1..MaxLog
LogEntry == [serial : Serials, domain : Domains]
CTRow == {"none", "precert", "managed", "unmanaged"}
CheckState == [at : {"none", "record", "mark", "announce", "ended"}, since : 0..MaxLog,
               found : [Ids -> CTRow], added : SUBSET Ids]

NoneFound == [i \in Ids |-> "none"]
NoCheck == [at |-> "none", since |-> 0, found |-> NoneFound, added |-> {}]
EndedCheck == [NoCheck EXCEPT !.at = "ended"]

CTInit ==
    /\ ctLog = <<>> /\ watched = CHOOSE d \in Domains : TRUE
    /\ cursor = 0 /\ seenCount = 0 /\ ctRow = NoneFound
    /\ managedSerials = {}
    /\ check = [k \in Checkers |-> NoCheck]
    /\ toldOf = [i \in Ids |-> 0] /\ passedOver = {} /\ lostNews = {} /\ lostMarks = FALSE /\ apart = {}

-----------------------------------------------------------------------------
(* The world: the log grows, certificates come under management.           *)

LogGrows(e) ==
    /\ Len(ctLog) < MaxLog /\ ctLog' = Append(ctLog, e)
    /\ UNCHANGED <<watched, cursor, seenCount, ctRow, managedSerials, check, toldOf, passedOver, lostNews, lostMarks, apart>>

BecomesManaged(s) ==
    /\ managedSerials' = managedSerials \cup {s} /\ s \notin managedSerials
    /\ UNCHANGED <<ctLog, watched, cursor, seenCount, ctRow, check, toldOf, passedOver, lostNews, lostMarks, apart>>

\* The domain may change; last_entry_id stays.
UpdateCTMonitor(d) ==
    /\ watched # d /\ watched' = d
    /\ UNCHANGED <<ctLog, cursor, seenCount, ctRow, managedSerials, check, toldOf, passedOver, lostNews, lostMarks, apart>>

-----------------------------------------------------------------------------
(* A check.                                                                *)

\* The newest n of a set of ids: the index answers newest first.
NewestFirst(ids, n) == {i \in ids : Cardinality({j \in ids : j > i}) < n}

\* Search: after the cursor, at most MaxAnswer.
Search(d, since) ==
    NewestFirst({i \in DOMAIN ctLog : ctLog[i].domain = d /\ i > since}, MaxAnswer)

\* Mutant of Precertificate: every entry whose serial occurs twice.
PrecertificateAny(i, answer) == \E j \in answer \ {i} : ctLog[j].serial = ctLog[i].serial

\* markPrecertificates: every entry of a serial but the newest of this answer.
Precertificate(i, answer) == \E j \in answer : j > i /\ ctLog[j].serial = ctLog[i].serial

\* classify; an inventory that cannot be read leaves everything unmanaged.
Classified(answer, known) ==
    [i \in Ids |-> IF i \notin answer THEN "none"
                   ELSE IF Precertificate(i, answer) THEN "precert"
                   ELSE IF ctLog[i].serial \in known THEN "managed" ELSE "unmanaged"]

CertificateRow == {"managed", "unmanaged"}

\* The entry is the certificate of its serial to the table or to a check under way.
Certified(i) == ctRow[i] \in CertificateRow \/ \E k \in Checkers : check[k].found[i] \in CertificateRow

\* Serials of an answer whose certificate another answer has found under another entry:
\* the precertificate was answered first, the certificate's own entry comes now.
CameApart(answer) ==
    {ctLog[i].serial : i \in {i \in answer : /\ ~Precertificate(i, answer)
                                            /\ \E j \in DOMAIN ctLog \ {i} : ctLog[j].serial = ctLog[i].serial /\ Certified(j)}}

\* The monitor as read, and the answer to the query. A query that fails ends
\* the check: only last_checked_at and last_error are written.
BeginCTCheck(k) ==
    LET answer == Search(watched, cursor)
    IN /\ check[k].at = "none" /\ ctLog # <<>>
       /\ \E known \in {managedSerials, {}} :
             check' = [check EXCEPT ![k] = [at |-> "record", since |-> cursor,
                                            found |-> Classified(answer, known), added |-> {}]]
       /\ apart' = apart \cup CameApart(answer)
       /\ UNCHANGED <<ctLog, watched, cursor, seenCount, ctRow, managedSerials, toldOf, passedOver, lostNews, lostMarks>>

FoundIds(c) == {i \in Ids : c.found[i] # "none"}

\* Mutant of NewlyAdded: what was found is taken for new.
NewlyAddedAll(c) == FoundIds(c)

\* ON CONFLICT (monitor_id, entry_id) DO NOTHING
NewlyAdded(c) == {i \in FoundIds(c) : ctRow[i] = "none"}

RecordCTCertificates(k) ==
    LET added == NewlyAdded(check[k])
    IN /\ check[k].at = "record"
       /\ ctRow' = [i \in Ids |-> IF ctRow[i] = "none" THEN check[k].found[i] ELSE ctRow[i]]
       /\ check' = [check EXCEPT ![k].at = "mark", ![k].added = added]
       /\ UNCHANGED <<ctLog, watched, cursor, seenCount, managedSerials, toldOf, passedOver, lostNews, lostMarks, apart>>

\* Mutant of CursorAfterFailure: the cursor moves although nothing was stored.
CursorAfterFailureMoved(c) == IF FoundIds(c) = {} THEN cursor ELSE Max(FoundIds(c))

\* success = FALSE writes no last_entry_id
CursorAfterFailure(c) == cursor

\* One transaction: nothing is stored, and the check ends.
RecordFails(k) ==
    /\ check[k].at = "record"
    /\ cursor' = CursorAfterFailure(check[k])
    /\ check' = [check EXCEPT ![k] = EndedCheck]
    /\ UNCHANGED <<ctLog, watched, seenCount, ctRow, managedSerials, toldOf, passedOver, lostNews, lostMarks, apart>>

\* certificates_seen grows by what was added, precertificates left out.
CountAdded(c) == Cardinality({i \in c.added : c.found[i] # "precert"})

\* last_entry_id = coalesce(newest found, last_entry_id): it may move back.
MarkCTMonitorChecked(k) ==
    LET c == check[k]
        newest == IF FoundIds(c) = {} THEN cursor ELSE Max(FoundIds(c))
    IN /\ c.at = "mark"
       /\ cursor' = newest
       /\ seenCount' = seenCount + CountAdded(c)
       /\ passedOver' = passedOver \cup {i \in DOMAIN ctLog : i > c.since /\ i < newest /\ i \notin FoundIds(c)}
       /\ check' = [check EXCEPT ![k].at = "announce"]
       /\ UNCHANGED <<ctLog, watched, ctRow, managedSerials, toldOf, lostNews, lostMarks, apart>>

MarkCTFails(k) ==
    /\ check[k].at = "mark"
    /\ check' = [check EXCEPT ![k].at = "announce"]
    /\ lostMarks' = TRUE
    /\ UNCHANGED <<ctLog, watched, cursor, seenCount, ctRow, managedSerials, toldOf, passedOver, lostNews, apart>>

\* announce: one message naming the unmanaged certificates among the added.
AnnounceCT(k) ==
    LET c == check[k]
    IN /\ c.at = "announce"
       /\ toldOf' = [i \in Ids |-> IF i \in c.added /\ c.found[i] = "unmanaged" THEN toldOf[i] + 1 ELSE toldOf[i]]
       /\ check' = [check EXCEPT ![k] = EndedCheck]
       /\ UNCHANGED <<ctLog, watched, cursor, seenCount, ctRow, managedSerials, passedOver, lostNews, lostMarks, apart>>

\* The process dies. Before anything is stored that is the same as RecordFails.
CheckDies(k) ==
    /\ check[k].at \in {"mark", "announce"}
    /\ lostNews' = lostNews \cup check[k].added
    /\ lostMarks' = (lostMarks \/ (check[k].at = "mark" /\ check[k].added # {}))
    /\ check' = [check EXCEPT ![k] = EndedCheck]
    /\ UNCHANGED <<ctLog, watched, cursor, seenCount, ctRow, managedSerials, toldOf, passedOver, apart>>

CTNext ==
    \/ \E e \in LogEntry : LogGrows(e)
    \/ \E s \in Serials : BecomesManaged(s)
    \/ \E d \in Domains : UpdateCTMonitor(d)
    \/ \E k \in Checkers : \/ BeginCTCheck(k) \/ RecordCTCertificates(k) \/ RecordFails(k)
                           \/ MarkCTMonitorChecked(k) \/ MarkCTFails(k) \/ AnnounceCT(k) \/ CheckDies(k)

-----------------------------------------------------------------------------
CTTypeOK ==
    /\ ctLog \in Seq(LogEntry) /\ Len(ctLog) <= MaxLog /\ watched \in Domains
    /\ cursor \in 0..Len(ctLog) /\ seenCount \in 0..MaxLog
    /\ ctRow \in [Ids -> CTRow] /\ managedSerials \subseteq Serials
    /\ check \in [Checkers -> CheckState]
    /\ toldOf \in [Ids -> Nat] /\ passedOver \subseteq Ids /\ lostNews \subseteq Ids /\ lostMarks \in BOOLEAN
    /\ apart \subseteq Serials

\* The cursor never runs ahead of what is stored: an entry of the log that it
\* has passed is in the table, though checks overlap and finish in any order.
\* Excluded are entries cut from a long answer and entries of a domain that
\* was not watched when the cursor passed them.
NoEntrySkipped ==
    \A i \in DOMAIN ctLog : i <= cursor => ctRow[i] # "none" \/ i \in passedOver

\* However many checks and replicas see a certificate, it is announced once, and
\* an unmanaged one that is stored is announced unless its check died. Excluded
\* from "once" is a certificate that two answers found under two entries, of
\* which each answer had only one: no answer then tells that the first was a
\* precertificate.
NewsOnce ==
    /\ \A i \in Ids : toldOf[i] <= 1
    /\ \A i, j \in DOMAIN ctLog :
          toldOf[i] > 0 /\ toldOf[j] > 0 /\ ctLog[i].serial = ctLog[j].serial => i = j \/ ctLog[i].serial \in apart
    /\ \A i \in Ids :
          (ctRow[i] = "unmanaged" /\ i \notin lostNews /\ \A k \in Checkers : i \notin check[k].added)
             => toldOf[i] = 1

\* The newest entry of every certificate that is stored is a certificate to the
\* table, never only its precertificates.
CertificateSurfaces ==
    \A i \in Ids : ctRow[i] = "precert" =>
        \E j \in Ids : j > i /\ j <= Len(ctLog) /\ ctLog[j].serial = ctLog[i].serial /\ ctRow[j] \in CertificateRow

CertificatesStored == {ctLog[i].serial : i \in {i \in DOMAIN ctLog : ctRow[i] \in CertificateRow}}

\* The count shown for a monitor is the number of certificates behind it, "per
\* certificate, not per log entry", once no check is between storing and marking
\* and none failed there. A certificate whose entries were answered apart counts
\* twice: with one, the count is only known not to fall short.
CountAgrees ==
    (~lostMarks /\ \A k \in Checkers : check[k].at # "mark")
       => /\ seenCount >= Cardinality(CertificatesStored)
          /\ apart = {} => seenCount = Cardinality(CertificatesStored)
=============================================================================
