------------------------------ MODULE JobTable ------------------------------
(***************************************************************************)
(* What the Store interface promises of the renewal queue: a table of jobs *)
(* by id, of which at most one is created per certificate while another is *)
(* outstanding, and from which the most urgent ready job is leased. The    *)
(* statements of PostgresStore have this shape; MemoryRenewals implements  *)
(* it with a slice.                                                        *)
(***************************************************************************)
EXTENDS Integers, Common

CONSTANTS
    JobIds,         \* identities of jobs
    Certificates,   \* certificates
    Deadline,       \* [Certificates -> Nat \cup {Nil}]: not_after, which may be unknown
    Holders,        \* names of the processes that claim
    LeaseTime,      \* how long a claim lasts
    MaxTries,       \* bound: attempts of one job
    MaxTime         \* bound: the last instant

VARIABLES
    rows,           \* [JobIds -> TableRow]
    time            \* the clock the callers pass in

tableVars == <<rows, time>>

Times == 0..(MaxTime + LeaseTime)
TableRow ==
    [status : {"FREE", "PENDING", "RUNNING", "CLOSED"}, cert : Certificates \cup {Nil}, after : Times,
     holder : Holders \cup {Nil}, until : Times, tries : 0..MaxTries, begun : BOOLEAN]

Unused == [status |-> "FREE", cert |-> Nil, after |-> 0, holder |-> Nil, until |-> 0, tries |-> 0, begun |-> FALSE]

TableInit == rows = [j \in JobIds |-> Unused] /\ time = 0

Open(j) == rows[j].status \in {"PENDING", "RUNNING"}

\* GetRenewalJob; a call that finds nothing to do.
Look == UNCHANGED tableVars

\* ON CONFLICT DO NOTHING: an outstanding job of the certificate stays alone.
Insert(j, c, after) ==
    /\ rows[j] = Unused /\ \A k \in JobIds : ~(Open(k) /\ rows[k].cert = c)
    /\ rows' = [rows EXCEPT ![j] = [Unused EXCEPT !.status = "PENDING", !.cert = c, !.after = after]]
    /\ UNCHANGED time

Ready(j) ==
    \/ rows[j].status = "PENDING" /\ rows[j].after <= time
    \/ rows[j].status = "RUNNING" /\ rows[j].until < time

\* ORDER BY not_after ASC NULLS LAST, run_after ASC.
Sooner(j, k) ==
    LET dj == Deadline[rows[j].cert]
        dk == Deadline[rows[k].cert]
    IN  IF dj = dk THEN rows[j].after < rows[k].after ELSE dj # Nil /\ (IF dk = Nil THEN TRUE ELSE dj < dk)

Lease(j, h) ==
    /\ Ready(j) /\ rows[j].tries < MaxTries /\ \A k \in JobIds : Ready(k) => ~Sooner(k, j)
    /\ rows' = [rows EXCEPT ![j].status = "RUNNING", ![j].holder = h, ![j].until = time + LeaseTime, ![j].tries = @ + 1,
                            ![j].begun = TRUE]
    /\ UNCHANGED time

Extend(j, h) ==
    /\ rows[j].status = "RUNNING" /\ rows[j].holder = h
    /\ rows' = [rows EXCEPT ![j].until = time + LeaseTime] /\ UNCHANGED time

\* Whoever worked on the job, now or once, reports: it is closed, tried again
\* or put off, which takes back the try.
Report(j, status, after, tries) ==
    /\ rows[j].begun /\ tries \in {rows[j].tries, rows[j].tries - 1}
    /\ rows' = [rows EXCEPT ![j].status = status, ![j].holder = Nil, ![j].until = 0, ![j].tries = tries,
                            ![j].after = IF status = "PENDING" THEN after ELSE @]
    /\ UNCHANGED time

Close(j) ==
    /\ Open(j)
    /\ rows' = [rows EXCEPT ![j].status = "CLOSED", ![j].holder = Nil, ![j].until = 0] /\ UNCHANGED time

TimePasses == time < MaxTime /\ time' = time + 1 /\ UNCHANGED rows

TableNext ==
    \/ Look
    \/ \E j \in JobIds, c \in Certificates, after \in Times : Insert(j, c, after)
    \/ \E j \in JobIds, h \in Holders : Lease(j, h) \/ Extend(j, h)
    \/ \E j \in JobIds, status \in {"PENDING", "CLOSED"}, after \in Times, tries \in 0..MaxTries :
          Report(j, status, after, tries)
    \/ \E j \in JobIds : Close(j)
    \/ TimePasses

TableSpec == TableInit /\ [][TableNext]_tableVars
=============================================================================
