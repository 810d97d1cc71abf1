------------------------ MODULE MaintenanceScheduler ------------------------
(***************************************************************************)
(* The daily maintenance schedules of backend/maintenance_scheduler.py.    *)
(*                                                                         *)
(* The scheduler thread reads the schedules, claims each occurrence that   *)
(* is due by writing its date to the row, and starts the job; a start that *)
(* fails gives the claim back.  Users edit a schedule (gate, then schedule *)
(* lock) or the email settings, which carry the shared timezone (gate      *)
(* only).  The clock moves, runs hold the gate, the process crashes.       *)
(*                                                                         *)
(* Time is counted in ticks, Day of them to a day; a zone is its offset in *)
(* ticks.  updated_at appears only as the answer to the question the code  *)
(* asks of it: has the row been written since this thread last saw it?     *)
(***************************************************************************)
EXTENDS Integers, Sequences, FiniteSets, Functions

CONSTANTS
    Jobs,        \* schedulable jobs
    JobOrder,    \* the jobs in the order list_schedules returns them
    Unavailable, \* jobs whose definition is disabled by a feature switch
    Day,         \* ticks of a day
    Zones,       \* timezones users may choose
    MailZones,   \* timezones chosen in the email settings
    NoDate,      \* no occurrence yet ("")
    Nobody,      \* the gate is free
    Editor,      \* the gate's holder during a schedule edit
    Mailer,      \* the gate's holder during an email settings edit
    Manual,      \* the gate's holder during any other mutation
    MaxClock,    \* bound: the clock
    MaxEdits,    \* bound: edits, of schedules and of email settings
    MaxFaults,   \* bound: failing SQLite statements
    MaxCrashes   \* bound: crashes

ASSUME SchedulerAssumption ==
    /\ JobOrder \in Seq(Jobs) /\ IsInjective(JobOrder) /\ Range(JobOrder) = Jobs
    /\ Unavailable \subseteq Jobs
    /\ Day \in Nat \ {0}
    /\ Zones \subseteq Nat /\ Zones # {} /\ MailZones \subseteq Nat
    /\ NoDate \notin Nat
    /\ Cardinality({Nobody, Editor, Mailer, Manual}) = 4
    /\ {Nobody, Editor, Mailer, Manual} \cap Jobs = {}
    /\ {MaxClock, MaxEdits, MaxFaults, MaxCrashes} \subseteq Nat

VARIABLES
    \* persistent: one row per job, and the timezone all rows share
    enabled, runTime, last, tz,
    \* the scheduler thread
    pc,       \* "idle" between cycles; otherwise it holds _schedule_lock
    pos,      \* index in JobOrder of the job at hand
    seen,     \* the rows as list_schedules returned them
    touched,  \* rows written by others since the scheduler saw or claimed them
    date,     \* local date of the claim at hand
    \* the rest of the process
    gate, editor, mailer,
    \* the world
    clock,
    \* history
    accounted, \* per job, since the timezone last moved: the dates run, the
               \* dates an edit waived, and the dates an edit reopened
    closed,    \* dates in rows that stand for no run in that time, and why:
               \* claims cut short and dates accounted for before the move,
               \* or claims at hand when the email settings moved the zone
    \* bounds
    edits, faults, crashes

rows   == <<enabled, runTime, last, tz>>
thread == <<pc, pos, seen, date>>
ghosts == <<accounted, closed>>
bounds == <<edits, faults, crashes>>
vars == <<rows, thread, touched, gate, editor, mailer, clock, ghosts, bounds>>

LocalDate(z) == (clock + z) \div Day
LocalTime(z) == (clock + z) % Day

Dates  == Nat \cup {NoDate}
Offset == Zones \cup MailZones
Entry  == [date : Nat, how : {"run", "waived", "reopened"}]

TypeOK ==
    /\ enabled \in [Jobs -> BOOLEAN]
    /\ runTime \in [Jobs -> 0..(Day - 1)]
    /\ last \in [Jobs -> Dates]
    /\ tz \in Offset
    /\ pc \in {"idle", "scan", "claimed", "failed", "errored"}
    /\ pos \in 1..(Len(JobOrder) + 1)
    /\ seen \in [enabled : [Jobs -> BOOLEAN], runTime : [Jobs -> 0..(Day - 1)],
                 last : [Jobs -> Dates], tz : Offset]
    /\ touched \subseteq Jobs
    /\ date \in Dates
    /\ gate \in Jobs \cup {Nobody, Editor, Mailer, Manual}
    /\ editor \in {"idle", "waiting", "applied"}
    /\ mailer \in {"idle", "saving", "saved"}
    /\ clock \in 0..MaxClock
    /\ accounted \in [Jobs -> Seq(Entry)]
    /\ closed \subseteq Jobs \X Nat \X {"ended", "moved"}
    /\ edits \in 0..MaxEdits
    /\ faults \in 0..MaxFaults
    /\ crashes \in 0..MaxCrashes

Observed == [enabled |-> enabled, runTime |-> runTime, last |-> last, tz |-> tz]

\* ensure_schedule_rows: every schedule starts disabled.
Init ==
    /\ enabled = [j \in Jobs |-> FALSE]
    /\ runTime = [j \in Jobs |-> 0]
    /\ last = [j \in Jobs |-> NoDate]
    /\ tz \in Zones
    /\ pc = "idle" /\ pos = 1 /\ date = NoDate
    /\ seen = Observed
    /\ touched = {}
    /\ gate = Nobody /\ editor = "idle" /\ mailer = "idle"
    /\ clock = 0
    /\ accounted = [j \in Jobs |-> <<>>]
    /\ closed = {}
    /\ edits = 0 /\ faults = 0 /\ crashes = 0

Job == JobOrder[pos]

Fault == faults < MaxFaults /\ faults' = faults + 1

-----------------------------------------------------------------------------
(* One cycle of run_due_once, under _schedule_lock.                        *)

\* Mutant of CycleBegin: the cycle resumes where the last one ended.
CycleBeginWithoutReset ==
    /\ pc = "idle"
    /\ pc' = "scan"
    /\ seen' = Observed
    /\ touched' = {}
    /\ UNCHANGED <<rows, pos, date, gate, editor, mailer, clock, ghosts, bounds>>

\* list_schedules()
CycleBegin ==
    /\ pc = "idle"
    /\ pc' = "scan"
    /\ pos' = 1
    /\ seen' = Observed
    /\ touched' = {}
    /\ UNCHANGED <<rows, date, gate, editor, mailer, clock, ghosts, bounds>>

\* The job at hand is due, going by what was read at the start of the cycle.
Due(j) ==
    /\ seen.enabled[j]
    /\ LocalTime(seen.tz) >= seen.runTime[j]
    /\ seen.last[j] # LocalDate(seen.tz)

NotDue ==
    /\ pc = "scan" /\ pos <= Len(JobOrder)
    /\ ~Due(Job)
    /\ pos' = pos + 1
    /\ UNCHANGED <<rows, pc, seen, date, touched, gate, editor, mailer, clock,
                   ghosts, bounds>>

\* _claim_occurrence: compare everything observed, then write the date.
Unchanged(j) ==
    /\ enabled[j]
    /\ last[j] = seen.last[j] /\ last[j] # LocalDate(seen.tz)
    /\ runTime[j] = seen.runTime[j] /\ tz = seen.tz
    /\ j \notin touched

ClaimOccurrence ==
    /\ pc = "scan" /\ pos <= Len(JobOrder)
    /\ Due(Job)
    /\ Unchanged(Job)
    /\ last' = [last EXCEPT ![Job] = LocalDate(seen.tz)]
    /\ date' = LocalDate(seen.tz)
    /\ pc' = "claimed"
    /\ UNCHANGED <<enabled, runTime, tz, pos, seen, touched, gate, editor,
                   mailer, clock, ghosts, bounds>>

ClaimLost ==
    /\ pc = "scan" /\ pos <= Len(JobOrder)
    /\ Due(Job)
    /\ ~Unchanged(Job)
    /\ pos' = pos + 1
    /\ UNCHANGED <<rows, pc, seen, date, touched, gate, editor, mailer, clock,
                   ghosts, bounds>>

\* A statement that fails before the start is attempted ends the cycle: the
\* claim's own, or the record of a job that is switched off.
CycleAborts ==
    /\ \/ pc = "scan" /\ pos <= Len(JobOrder) /\ Due(Job)
       \/ pc = "claimed" /\ Job \in Unavailable
    /\ Fault
    /\ pc' = "idle"
    /\ UNCHANGED <<rows, pos, seen, date, touched, gate, editor, mailer, clock,
                   ghosts, edits, crashes>>

\* A job switched off is recorded as skipped and its occurrence is spent.
SkipUnavailable ==
    /\ pc = "claimed" /\ Job \in Unavailable
    /\ pc' = "scan"
    /\ pos' = pos + 1
    /\ UNCHANGED <<rows, seen, date, touched, gate, editor, mailer, clock,
                   ghosts, bounds>>

\* A claim made before the timezone moved counts for the one it was made in.
Account(j) ==
    accounted' = IF seen.tz = tz
                   THEN [accounted EXCEPT ![j] = Append(@, [date |-> date, how |-> "run"])]
                   ELSE accounted

StartRun ==
    /\ pc = "claimed" /\ Job \notin Unavailable
    /\ gate = Nobody
    /\ gate' = Job
    /\ Account(Job)
    /\ pc' = "scan"
    /\ pos' = pos + 1
    /\ UNCHANGED <<rows, seen, date, touched, editor, mailer, clock, closed,
                   bounds>>

\* RuntimeError: the gate is held, or the run's thread could not be started.
StartConflict ==
    /\ pc = "claimed" /\ Job \notin Unavailable
    /\ IF gate = Nobody THEN Fault ELSE UNCHANGED faults
    /\ pc' = "failed"
    /\ UNCHANGED <<rows, pos, seen, date, touched, gate, editor, mailer, clock,
                   ghosts, edits, crashes>>

\* start() raises another error: before the run exists, or in its last line.
StartError ==
    /\ pc = "claimed" /\ Job \notin Unavailable
    /\ gate = Nobody
    /\ \/ UNCHANGED <<gate, accounted>>
       \/ gate' = Job /\ Account(Job)
    /\ Fault
    /\ pc' = "errored"
    /\ UNCHANGED <<rows, pos, seen, date, touched, editor, mailer, clock,
                   closed, edits, crashes>>

\* Mutant of AfterFailure: the start is retried within the cycle.
AfterFailureRetries == pc' = "claimed" /\ UNCHANGED <<pos, faults>>

\* A conflict is recorded as skipped and the cycle moves on to the next job;
\* any other error, or a record that cannot be written, ends the cycle.
AfterFailure ==
    \/ pc = "failed"  /\ pc' = "scan" /\ pos' = pos + 1 /\ UNCHANGED faults
    \/ pc = "failed"  /\ pc' = "idle" /\ UNCHANGED pos   /\ Fault
    \/ pc = "errored" /\ pc' = "idle" /\ UNCHANGED <<pos, faults>>

\* _release_occurrence writes only if the row is still as the claim left it.
ReleaseOccurrence ==
    /\ pc \in {"failed", "errored"}
    /\ last' = IF enabled[Job] /\ last[Job] = date /\ Job \notin touched
                 THEN [last EXCEPT ![Job] = seen.last[Job]] ELSE last
    /\ AfterFailure
    /\ UNCHANGED <<enabled, runTime, tz, seen, date, touched, gate, editor,
                   mailer, clock, ghosts, edits, crashes>>

\* The release itself fails and the exception ends the cycle.
ReleaseError ==
    /\ pc \in {"failed", "errored"}
    /\ Fault
    /\ pc' = "idle"
    /\ closed' = closed \cup {<<Job, date, "ended">>}
    /\ UNCHANGED <<rows, pos, seen, date, touched, gate, editor, mailer, clock,
                   accounted, edits, crashes>>

CycleEnd ==
    /\ pc = "scan" /\ pos > Len(JobOrder)
    /\ pc' = "idle"
    /\ UNCHANGED <<rows, pos, seen, date, touched, gate, editor, mailer, clock,
                   ghosts, bounds>>

-----------------------------------------------------------------------------
(* Edits.  A request that finds the gate held is refused.                  *)

EditBegin ==
    /\ edits < MaxEdits
    /\ edits' = edits + 1
    /\ editor = "idle" /\ gate = Nobody
    /\ gate' = Editor
    /\ editor' = "waiting"
    /\ UNCHANGED <<rows, thread, touched, mailer, clock, ghosts, faults,
                   crashes>>

\* The rows whose timezone is another one are written; so is the edited one.
Retimed(z) == IF z = tz THEN {} ELSE Jobs

\* Mutant of LockFree: edits do not take _schedule_lock.
NoScheduleLock == TRUE

\* _schedule_lock is the scheduler thread's for the whole cycle.
LockFree == pc = "idle"

\* Mutant of Waived: today's run is never waived.
WaivedNever(time, z) == NoDate

\* The date update_schedule stores when it enables a schedule.
Waived(time, z) == IF LocalTime(z) >= time THEN LocalDate(z) ELSE NoDate

\* A move to another timezone starts a new account of every schedule.
AccountsFrom(z) == IF z = tz THEN accounted ELSE [j \in Jobs |-> <<>>]

\* The entries of an account after the last edit that reopened a date.
Live(acc) == {i \in DOMAIN acc : \A m \in i..Len(acc) : acc[m].how # "reopened"}

\* The dates run or waived since.
Settled(acc) == {acc[i].date : i \in Live(acc)}

ClosedBy(z) ==
    IF z = tz THEN closed
    ELSE closed \cup {<<j, last[j], "ended">> : j \in {k \in Jobs : last[k] \in Settled(accounted[k])}}

\* update_schedule: enabling a schedule past its time waives today's run, and
\* enabling it for a time still to come empties the date of the row, so that a
\* job that ran today already runs again.
EditApply(j, on, time, z) ==
    /\ editor = "waiting"
    /\ LockFree
    /\ tz' = z
    /\ enabled' = [enabled EXCEPT ![j] = on]
    /\ runTime' = [runTime EXCEPT ![j] = time]
    /\ last' = IF on THEN [last EXCEPT ![j] = Waived(time, z)] ELSE last
    /\ touched' = touched \cup Retimed(z) \cup {j}
    /\ accounted' =
          IF ~on THEN AccountsFrom(z)
          ELSE [AccountsFrom(z) EXCEPT ![j] =
                   Append(@, [date |-> LocalDate(z),
                              how |-> IF LocalTime(z) >= time THEN "waived" ELSE "reopened"])]
    /\ closed' = ClosedBy(z)
    /\ editor' = "applied"
    /\ UNCHANGED <<thread, gate, mailer, clock, bounds>>

\* The job or the values are refused, or the transaction fails.
EditRejected ==
    /\ editor = "waiting"
    /\ editor' = "applied"
    /\ UNCHANGED <<rows, thread, touched, gate, mailer, clock, ghosts, bounds>>

EditEnd ==
    /\ editor = "applied"
    /\ editor' = "idle"
    /\ gate' = Nobody
    /\ UNCHANGED <<rows, thread, touched, mailer, clock, ghosts, bounds>>

MailBegin ==
    /\ edits < MaxEdits
    /\ edits' = edits + 1
    /\ mailer = "idle" /\ gate = Nobody /\ MailZones # {}
    /\ gate' = Mailer
    /\ mailer' = "saving"
    /\ UNCHANGED <<rows, thread, touched, editor, clock, ghosts, faults,
                   crashes>>

\* EmailService.save_settings does not take _schedule_lock.
MailSave(z) ==
    /\ mailer = "saving"
    /\ tz' = z
    /\ touched' = touched \cup Retimed(z)
    /\ accounted' = AccountsFrom(z)
    /\ closed' = IF z # tz /\ pc \in {"claimed", "failed", "errored"}
                   THEN ClosedBy(z) \cup {<<Job, date, "moved">>} ELSE ClosedBy(z)
    /\ mailer' = "saved"
    /\ UNCHANGED <<enabled, runTime, last, thread, gate, editor, clock, bounds>>

MailRejected ==
    /\ mailer = "saving"
    /\ mailer' = "saved"
    /\ UNCHANGED <<rows, thread, touched, gate, editor, clock, ghosts, bounds>>

MailEnd ==
    /\ mailer = "saved"
    /\ mailer' = "idle"
    /\ gate' = Nobody
    /\ UNCHANGED <<rows, thread, touched, editor, clock, ghosts, bounds>>

-----------------------------------------------------------------------------
(* The rest of the application, the clock, and crashes.                    *)

\* A manual run or another mutation takes the gate.
OtherBegin ==
    /\ gate = Nobody
    /\ gate' = Manual
    /\ UNCHANGED <<rows, thread, touched, editor, mailer, clock, ghosts, bounds>>

RunEnds ==
    /\ gate \in Jobs \cup {Manual}
    /\ gate' = Nobody
    /\ UNCHANGED <<rows, thread, touched, editor, mailer, clock, ghosts, bounds>>

Tick ==
    /\ clock < MaxClock
    /\ clock' = clock + 1
    /\ UNCHANGED <<rows, thread, touched, gate, editor, mailer, ghosts, bounds>>

\* The process ends and another starts; time spent down is time without steps.
Crash ==
    /\ crashes < MaxCrashes
    /\ crashes' = crashes + 1
    /\ pc' = "idle"
    /\ gate' = Nobody /\ editor' = "idle" /\ mailer' = "idle"
    /\ closed' = IF pc \in {"claimed", "failed", "errored"}
                      THEN closed \cup {<<Job, date, "ended">>} ELSE closed
    /\ UNCHANGED <<rows, pos, seen, date, touched, clock, accounted, edits,
                   faults>>

Cycle ==
    \/ CycleBegin \/ NotDue \/ ClaimOccurrence \/ ClaimLost \/ CycleAborts
    \/ SkipUnavailable \/ StartRun \/ StartConflict \/ StartError \/ ReleaseOccurrence
    \/ ReleaseError \/ CycleEnd

Apply == \E j \in Jobs, on \in BOOLEAN, time \in 0..(Day - 1), z \in Zones :
            EditApply(j, on, time, z)

Save == \E z \in MailZones : MailSave(z)

Next ==
    \/ Cycle
    \/ EditBegin \/ Apply \/ EditRejected \/ EditEnd
    \/ MailBegin \/ Save \/ MailRejected \/ MailEnd
    \/ OtherBegin \/ RunEnds \/ Tick \/ Crash

Spec == Init /\ [][Next]_vars

(* Fairness.  The scheduler thread keeps going, and a request that holds   *)
(* the gate carries out its edit.  _schedule_lock is free for poll_seconds *)
(* between two cycles, so a waiting edit gets it sooner or later: strong   *)
(* fairness.  A run is not obliged to end, nor the clock to move.          *)
Fairness ==
    /\ WF_vars(Cycle)
    /\ SF_vars(Apply) /\ WF_vars(EditEnd)
    /\ WF_vars(Save)  /\ WF_vars(MailEnd)

FairSpec == Spec /\ Fairness

-----------------------------------------------------------------------------
(* Properties.                                                             *)

\* A date run after it was run or waived was reopened in between.
RepeatsReopened(acc) ==
    \A k \in DOMAIN acc : \A i \in 1..(k - 1) :
        acc[k].how = "run" /\ acc[i].how # "reopened" /\ acc[i].date = acc[k].date
        => [date |-> acc[k].date, how |-> "reopened"] \in {acc[m] : m \in i..k}

\* Between two moves of the timezone a local date that was run or waived is run
\* again only if in between, on that very date, an edit enabled the schedule for
\* a time still to come: no crash, refused start, release, retry, other edit or
\* write of the email settings repeats it; unless a statement failed (a start
\* that fails after its run is live is given back, and repeated).  A run of a
\* claim made before a move is a run of the former timezone.
OncePerDate == faults = 0 => \A j \in Jobs : RepeatsReopened(accounted[j])

\* "All utilities ... can be scheduled once per day" (README.md:242): no local
\* date is run twice.  No run checks it: TLC refutes it with a job that has run
\* and is enabled, the same day, for a later time (README, "What TLC refutes").
OncePerDay ==
    faults = 0 =>
        \A j \in Jobs : \A i, k \in DOMAIN accounted[j] :
            i # k /\ accounted[j][i].how = "run" /\ accounted[j][k].how = "run"
            => accounted[j][i].date # accounted[j][k].date

AtHand(j) == pc \in {"claimed", "failed", "errored"} /\ Job = j

\* The date in row j was run or waived, or its claim is still at hand, or the
\* claim ended as one of the given reasons says.
Explained(j, reasons) ==
    \/ last[j] \in {NoDate} \cup Settled(accounted[j])
    \/ AtHand(j)
    \/ \E why \in reasons : <<j, last[j], why>> \in closed

\* No occurrence is spent without its run: a date is in the row only if it was
\* run or waived, or its claim is at hand, or a crash, a failing release or a
\* move of the timezone cut the claim short.
ClaimHasRun == \A j \in Jobs \ Unavailable : Explained(j, {"ended", "moved"})

\* "a user edit cannot ... prevent a failed global-gate claim from being
\* released for retry" (maintenance_scheduler.py:135): no edit, of a schedule
\* or of the email settings, keeps a failed claim in the row. No run checks it:
\* TLC refutes it with a move of the timezone (README, "What TLC refutes").
EditSparesClaim == \A j \in Jobs \ Unavailable : Explained(j, {"ended"})

\* The gate is taken before _schedule_lock by an edit and after it by the
\* scheduler, yet neither waits for ever: the edit is carried out.
EditCompletes == editor = "waiting" ~> editor # "waiting"

DueNow(j) ==
    /\ enabled[j]
    /\ LocalTime(tz) >= runTime[j]
    /\ last[j] # LocalDate(tz)

\* On a day that lasts, a due job is served as long as nobody takes the gate.
DueIsServed ==
    \A j \in Jobs :
        (clock = MaxClock /\ DueNow(j) /\ gate = Nobody)
            ~> (~DueNow(j) \/ gate # Nobody)
=============================================================================
