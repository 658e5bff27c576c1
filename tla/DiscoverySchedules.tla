------------------------- MODULE DiscoverySchedules -------------------------
(***************************************************************************)
(* Recurring discovery: a scheduler in every replica reads the schedules   *)
(* that are due, starts a scan for each and then moves next_run_at on.     *)
(* Nothing claims a schedule, and operators edit schedules meanwhile.      *)
(* The scans themselves are in DiscoveryScans.                             *)
(***************************************************************************)
EXTENDS Integers, FiniteSets, Common

CONSTANTS
    Schedules,
    Schedulers,         \* one per replica
    Intervals,          \* intervals an operator may ask for
    MinInterval,        \* MinScheduleMinutes
    MaxScheduleClock    \* bound on time

ASSUME SchedulesAssumption ==
    Intervals \subseteq Nat /\ MinInterval \in Nat \ {0} /\ MaxScheduleClock \in Nat /\ Nil \notin Nat

VARIABLES
    clock,
    schedule,       \* [Schedules -> ScheduleRow]
    pass,           \* [Schedulers -> PassState]
    lastStart,      \* history: [Schedulers -> [Schedules -> Start]]
    loose           \* history: schedules whose last start was not followed by a mark in time

schedulesVars == <<clock, schedule, pass, lastStart, loose>>

Times == 0..MaxScheduleClock
ScheduleRow == [exists : BOOLEAN, enabled : BOOLEAN, interval : Intervals \cup {Nil}, next : Nat \cup {Nil}]
PassState == [at : {"idle", "trigger", "mark"}, now : Times, todo : SUBSET Schedules,
              read : [Schedules -> Intervals \cup {Nil}], doing : Schedules \cup {Nil}]
Start == [at : Times \cup {Nil}, turn : {0, 1}]

NoSchedule == [exists |-> FALSE, enabled |-> FALSE, interval |-> Nil, next |-> Nil]
NoPass == [at |-> "idle", now |-> 0, todo |-> {}, read |-> [s \in Schedules |-> Nil], doing |-> Nil]

SchedulesInit ==
    /\ clock = 0
    /\ schedule = [s \in Schedules |-> NoSchedule]
    /\ pass = [r \in Schedulers |-> NoPass]
    /\ lastStart = [r \in Schedulers |-> [s \in Schedules |-> [at |-> Nil, turn |-> 0]]]
    /\ loose = {}

TimePasses ==
    /\ clock < MaxScheduleClock /\ clock' = clock + 1
    /\ UNCHANGED <<schedule, pass, lastStart, loose>>

-----------------------------------------------------------------------------
(* Operators.                                                              *)

ValidInterval(i) == i >= MinInterval

CreateSchedule(s, i) ==
    /\ ~schedule[s].exists /\ ValidInterval(i)
    /\ schedule' = [schedule EXCEPT ![s] = [exists |-> TRUE, enabled |-> TRUE, interval |-> i, next |-> Nil]]
    /\ UNCHANGED <<clock, pass, lastStart, loose>>

\* next_run_at is the scheduler's and is left alone.
UpdatedSchedule(row, i, on) == [row EXCEPT !.interval = i, !.enabled = on]

UpdateSchedule(s, i, on) ==
    /\ schedule[s].exists /\ ValidInterval(i)
    /\ schedule' = [schedule EXCEPT ![s] = UpdatedSchedule(@, i, on)]
    /\ UNCHANGED <<clock, pass, lastStart, loose>>

DeleteSchedule(s) ==
    /\ schedule[s].exists
    /\ schedule' = [schedule EXCEPT ![s] = NoSchedule]
    /\ loose' = loose \cup {s}
    /\ UNCHANGED <<clock, pass, lastStart>>

-----------------------------------------------------------------------------
(* A scheduler's pass.                                                     *)

Due(s) ==
    LET row == schedule[s]
    IN row.exists /\ row.enabled /\ (row.next # Nil => row.next <= clock)

\* RunDue reads the clock and the due schedules.
BeginPass(r) ==
    /\ pass[r].at = "idle" /\ \E s \in Schedules : Due(s)
    /\ pass' = [pass EXCEPT ![r] = [at |-> "trigger", now |-> clock, doing |-> Nil,
                                     todo |-> {s \in Schedules : Due(s)},
                                     read |-> [s \in Schedules |-> IF Due(s) THEN schedule[s].interval ELSE Nil]]]
    /\ UNCHANGED <<clock, schedule, lastStart, loose>>

EndPass(r) ==
    /\ pass[r].at = "trigger" /\ pass[r].todo = {}
    /\ pass' = [pass EXCEPT ![r] = NoPass]
    /\ UNCHANGED <<clock, schedule, lastStart, loose>>

\* Mutant of AfterStart: only a scan that started is recorded.
AfterStartOnSuccess(started) == IF started THEN "mark" ELSE "trigger"

\* A scan that could not start is recorded as run as well.
AfterStart(started) == "mark"

\* startScan, with the schedule as the pass read it, even if it is gone by now.
Trigger(r, s) ==
    /\ pass[r].at = "trigger" /\ s \in pass[r].todo
    /\ \E started \in BOOLEAN :
          pass' = [pass EXCEPT ![r].at = AfterStart(started), ![r].doing = s, ![r].todo = @ \ {s}]
    /\ lastStart' = [lastStart EXCEPT ![r][s] = [at |-> clock, turn |-> 1 - @.turn]]
    /\ UNCHANGED <<clock, schedule, loose>>

\* MarkDiscoveryScheduleRun: now and interval are those of the pass.
MarkRun(r) ==
    LET s == pass[r].doing
    IN /\ pass[r].at = "mark"
       /\ schedule' = IF schedule[s].exists
                      THEN [schedule EXCEPT ![s].next = pass[r].now + pass[r].read[s]] ELSE schedule
       /\ loose' = IF ~schedule[s].exists \/ pass[r].now # clock THEN loose \cup {s}
                   ELSE IF \E q \in Schedulers : s \in pass[q].todo THEN loose ELSE loose \ {s}
       /\ pass' = [pass EXCEPT ![r].at = "trigger", ![r].doing = Nil]
       /\ UNCHANGED <<clock, lastStart>>

\* The mark fails, and the schedule may run again at once.
MarkFails(r) ==
    /\ pass[r].at = "mark"
    /\ pass' = [pass EXCEPT ![r].at = "trigger", ![r].doing = Nil]
    /\ loose' = loose \cup {pass[r].doing}
    /\ UNCHANGED <<clock, schedule, lastStart>>

SchedulerRestarts(r) ==
    /\ pass[r].at # "idle"
    /\ pass' = [pass EXCEPT ![r] = NoPass]
    /\ loose' = IF pass[r].at = "mark" THEN loose \cup {pass[r].doing} ELSE loose
    /\ UNCHANGED <<clock, schedule, lastStart>>

SchedulesNext ==
    \/ TimePasses
    \/ \E s \in Schedules :
          \/ \E i \in Intervals : CreateSchedule(s, i) \/ \E on \in BOOLEAN : UpdateSchedule(s, i, on)
          \/ DeleteSchedule(s)
    \/ \E r \in Schedulers :
          \/ BeginPass(r) \/ EndPass(r) \/ MarkRun(r) \/ MarkFails(r) \/ SchedulerRestarts(r)
          \/ \E s \in Schedules : Trigger(r, s)

-----------------------------------------------------------------------------
SchedulesTypeOK ==
    /\ clock \in Times
    /\ schedule \in [Schedules -> ScheduleRow]
    /\ pass \in [Schedulers -> PassState]
    /\ lastStart \in [Schedulers -> [Schedules -> Start]]
    /\ loose \subseteq Schedules

\* Whatever is edited meanwhile, and whether or not a scan can start, a replica
\* attempts one schedule again only after the shortest interval operators may
\* ask for. Excluded are a mark that failed, came late or was lost, and a
\* schedule that was deleted.
PaceKept ==
    [][\A r \in Schedulers, s \in Schedules :
          (lastStart'[r][s] # lastStart[r][s] /\ lastStart[r][s].at # Nil /\ s \notin loose)
             => clock >= lastStart[r][s].at + MinInterval]_schedulesVars
=============================================================================
