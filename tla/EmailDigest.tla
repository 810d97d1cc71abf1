---------------------------- MODULE EmailDigest -----------------------------
(***************************************************************************)
(* The job digest of backend/email_service.py and its scheduler            *)
(* (backend/email_scheduler.py).                                           *)
(*                                                                         *)
(* The scheduler thread polls; when the digest is due it takes the gate,   *)
(* reads the settings again, claims the occurrence and sends.  A user may  *)
(* send a digest at any time, edit the email settings, or edit a           *)
(* maintenance schedule, which carries the application timezone.  A        *)
(* refresh changes the open jobs while it holds the gate.                  *)
(*                                                                         *)
(* A digest compares the open jobs with the snapshot of the last one that  *)
(* was sent, mails the difference and then replaces the snapshot.  Time is *)
(* counted in ticks, Day of them to a day; a zone is its offset in ticks.  *)
(***************************************************************************)
EXTENDS Integers, Sequences, Functions

CONSTANTS
    Jobs,        \* identities of jobs
    Day,         \* ticks of a day
    Zones,       \* timezones users may choose
    OffDates,    \* dates whose weekday is not in the schedule
    NoDate,      \* no occurrence claimed yet ("")
    NoZone,      \* the email settings were never saved
    MaxClock,    \* bound: the clock
    MaxOps,      \* bound: edits, refreshes and digests sent by users
    MaxFaults,   \* bound: failing SQLite statements and lost SMTP answers
    MaxCrashes   \* bound: crashes

ASSUME DigestAssumption ==
    /\ Day \in Nat \ {0}
    /\ Zones \subseteq Nat /\ Zones # {} /\ NoZone \notin Nat
    /\ OffDates \subseteq Nat /\ NoDate \notin Nat
    /\ {MaxClock, MaxOps, MaxFaults, MaxCrashes} \subseteq Nat

VARIABLES
    \* persistent
    jobs,        \* the open jobs
    snapshot,    \* email_snapshot_jobs
    established, \* checkpoint_established_at is set
    enabled, sendTime, tz, lastDate,  \* email_settings
    appTz,       \* settings.scheduler_timezone
    \* the process
    gate,        \* what holds the mutation gate
    poller,      \* where the scheduler thread is
    date,        \* the local date it is about to claim
    edited,      \* email_settings was written since the thread read it again
    digest,      \* where the digest being made is
    current,     \* the open jobs as it read them
    refreshing,  \* a refresh is changing the open jobs
    \* the world
    clock,
    \* history
    told,        \* the open jobs, to a reader of the baseline and every mail
    inDoubt,     \* a mail went out whose success was never recorded
    claims,      \* the dates claimed by the scheduler
    \* bounds
    ops, faults, crashes

settings == <<enabled, sendTime, tz, lastDate, appTz>>
state    == <<snapshot, established>>
thread   == <<poller, date>>
history  == <<told, inDoubt>>
vars == <<jobs, state, settings, gate, thread, edited, digest, current,
          refreshing, clock, history, claims, ops, faults, crashes>>

TypeOK ==
    /\ jobs \subseteq Jobs /\ snapshot \subseteq Jobs /\ current \subseteq Jobs /\ told \subseteq Jobs
    /\ established \in BOOLEAN /\ enabled \in BOOLEAN /\ edited \in BOOLEAN
    /\ refreshing \in BOOLEAN /\ inDoubt \in BOOLEAN
    /\ sendTime \in 0..(Day - 1)
    /\ tz \in Zones \cup {NoZone} /\ appTz \in Zones
    /\ lastDate \in Nat \cup {NoDate} /\ date \in Nat \cup {NoDate}
    /\ gate \in {"free", "scheduler", "user", "editor", "refresh"}
    /\ poller \in {"idle", "due", "gated", "claiming", "sending"}
    /\ digest \in {"off", "start", "read", "sending", "delivered"}
    /\ clock \in 0..MaxClock
    /\ claims \in Seq(Nat)
    /\ ops \in 0..MaxOps
    /\ faults \in 0..MaxFaults
    /\ crashes \in 0..MaxCrashes

\* No row of settings yet: disabled, in the application timezone.
Init ==
    /\ jobs \in SUBSET Jobs
    /\ snapshot = {} /\ established = FALSE
    /\ enabled = FALSE /\ sendTime = 0 /\ tz = NoZone /\ lastDate = NoDate
    /\ appTz \in Zones
    /\ gate = "free" /\ poller = "idle" /\ date = NoDate /\ edited = FALSE
    /\ digest = "off" /\ current = {} /\ refreshing = FALSE
    /\ clock = 0
    /\ told = {} /\ inDoubt = FALSE /\ claims = <<>>
    /\ ops = 0 /\ faults = 0 /\ crashes = 0

LocalDate(z) == (clock + z) \div Day
LocalTime(z) == (clock + z) % Day

\* due_occurrence, on the settings as they are now.
Due ==
    /\ enabled
    /\ LocalDate(tz) \notin OffDates
    /\ LocalTime(tz) >= sendTime
    /\ lastDate # LocalDate(tz)

Fault == faults < MaxFaults /\ faults' = faults + 1

-----------------------------------------------------------------------------
(* EmailScheduler.run_due_once                                             *)

NothingDue ==
    /\ poller = "idle"
    /\ ~Due
    /\ UNCHANGED vars

Poll ==
    /\ poller = "idle"
    /\ Due
    /\ poller' = "due"
    /\ UNCHANGED <<jobs, state, settings, gate, date, edited, digest, current,
                   refreshing, clock, history, claims, ops, faults, crashes>>

\* What MutationGate.acquire asks, for the scheduler.
GateFree == gate = "free"

PollAcquires ==
    /\ poller = "due"
    /\ GateFree
    /\ gate' = "scheduler"
    /\ poller' = "gated"
    /\ UNCHANGED <<jobs, state, settings, date, edited, digest, current,
                   refreshing, clock, history, claims, ops, faults, crashes>>

\* The gate is held: the next poll tries the same occurrence again.
PollConflicts ==
    /\ poller = "due"
    /\ ~GateFree
    /\ poller' = "idle"
    /\ UNCHANGED <<jobs, state, settings, gate, date, edited, digest, current,
                   refreshing, clock, history, claims, ops, faults, crashes>>

\* The settings may have been edited, or the day may have ended, meanwhile.
ReadAgain ==
    /\ poller = "gated"
    /\ edited' = FALSE
    /\ IF Due THEN /\ date' = LocalDate(tz)
                   /\ poller' = "claiming"
                   /\ UNCHANGED gate
              ELSE /\ poller' = "idle"
                   /\ gate' = "free"
                   /\ UNCHANGED date
    /\ UNCHANGED <<jobs, state, settings, digest, current, refreshing, clock,
                   history, claims, ops, faults, crashes>>

\* Mutant of Claimed: a date that is stored already is kept.
FirstClaimKept == IF lastDate = NoDate THEN date ELSE lastDate

\* The date claim_scheduled_occurrence stores.
Claimed == date

Claim ==
    /\ poller = "claiming"
    /\ IF enabled /\ lastDate # date /\ ~edited
         THEN /\ lastDate' = Claimed
              /\ claims' = Append(claims, date)
              /\ poller' = "sending"
              /\ digest' = "start"
              /\ UNCHANGED gate
         ELSE /\ poller' = "idle"
              /\ gate' = "free"
              /\ UNCHANGED <<lastDate, claims, digest>>
    /\ UNCHANGED <<jobs, state, enabled, sendTime, tz, appTz, date, edited,
                   current, refreshing, clock, history, ops, faults, crashes>>

\* Mutant of ClaimFails: the lease is not released on the way out.
ClaimFailsKeepsGate ==
    /\ poller \in {"gated", "claiming"}
    /\ Fault
    /\ poller' = "idle"
    /\ UNCHANGED <<jobs, state, settings, gate, date, edited, digest, current,
                   refreshing, clock, history, claims, ops, crashes>>

\* The settings cannot be read again, or the claim cannot be written.
ClaimFails ==
    /\ poller \in {"gated", "claiming"}
    /\ Fault
    /\ poller' = "idle"
    /\ gate' = "free"
    /\ UNCHANGED <<jobs, state, settings, date, edited, digest, current,
                   refreshing, clock, history, claims, ops, crashes>>

-----------------------------------------------------------------------------
(* EmailService.send_job_digest, for the scheduler or for a user.          *)

\* The lease is released in a finally clause; the loop logs an exception.
DigestEnds ==
    /\ digest' = "off"
    /\ gate' = "free"
    /\ poller' = IF poller = "sending" THEN "idle" ELSE poller

\* Steps that neither send nor record that a digest was sent.
NothingSent == UNCHANGED <<jobs, settings, date, edited, refreshing, clock,
                           claims, ops, crashes>>

\* Not configured, no recipient, or a password that cannot be read: Failed.
DigestRefused ==
    /\ digest = "start"
    /\ DigestEnds
    /\ NothingSent
    /\ UNCHANGED <<state, current, history, faults>>

DigestReadsJobs ==
    /\ digest = "start"
    /\ tz # NoZone
    /\ current' = jobs
    /\ digest' = "read"
    /\ NothingSent
    /\ UNCHANGED <<state, gate, poller, history, faults>>

\* The first digest only stores what later ones are compared with.
StoreBaseline ==
    /\ digest = "read"
    /\ ~established
    /\ snapshot' = current
    /\ established' = TRUE
    /\ told' = current
    /\ DigestEnds
    /\ NothingSent
    /\ UNCHANGED <<current, inDoubt, faults>>

NoChanges ==
    /\ digest = "read"
    /\ established
    /\ current = snapshot
    /\ DigestEnds
    /\ NothingSent
    /\ UNCHANGED <<state, current, history, faults>>

RecordSending ==
    /\ digest = "read"
    /\ established
    /\ current # snapshot
    /\ digest' = "sending"
    /\ NothingSent
    /\ UNCHANGED <<state, current, gate, poller, history, faults>>

Delivered == told' = (told \cup (current \ snapshot)) \ (snapshot \ current)

Deliver ==
    /\ digest = "sending"
    /\ Delivered
    /\ digest' = "delivered"
    /\ NothingSent
    /\ UNCHANGED <<state, current, gate, poller, inDoubt, faults>>

\* Mutant of DeliveryFails: the snapshot is replaced although nothing was sent.
DeliveryFailsAdvancing ==
    /\ digest = "sending"
    /\ snapshot' = current
    /\ DigestEnds
    /\ NothingSent
    /\ UNCHANGED <<established, current, history, faults>>

\* An SMTP error before the message was accepted: recorded as Failed.
DeliveryFails ==
    /\ digest = "sending"
    /\ DigestEnds
    /\ NothingSent
    /\ UNCHANGED <<state, current, history, faults>>

\* The message was accepted, yet the send raises: some recipients were refused,
\* or the connection broke before the answer to QUIT.
DeliveryInDoubt ==
    /\ digest = "sending"
    /\ Fault
    /\ Delivered
    /\ inDoubt' = TRUE
    /\ DigestEnds
    /\ NothingSent
    /\ UNCHANGED <<state, current>>

\* One transaction: digest row, changes, snapshot, time of the last success.
AdvanceCheckpoint ==
    /\ digest = "delivered"
    /\ snapshot' = current
    /\ DigestEnds
    /\ NothingSent
    /\ UNCHANGED <<established, current, history, faults>>

\* Any statement on the way fails, and with it the digest.
DigestFails ==
    /\ digest # "off"
    /\ Fault
    /\ inDoubt' = (inDoubt \/ digest = "delivered")
    /\ DigestEnds
    /\ NothingSent
    /\ UNCHANGED <<state, current, told>>

-----------------------------------------------------------------------------
(* Users, refreshes, the clock, crashes.                                   *)

Takes(who) ==
    /\ gate = "free"
    /\ gate' = who
    /\ ops < MaxOps
    /\ ops' = ops + 1

UserSends ==
    /\ Takes("user")
    /\ digest = "off"
    /\ digest' = "start"
    /\ UNCHANGED <<jobs, state, settings, thread, edited, current, refreshing,
                   clock, history, claims, faults, crashes>>

EditBegins ==
    /\ Takes("editor")
    /\ UNCHANGED <<jobs, state, settings, thread, edited, digest, current,
                   refreshing, clock, history, claims, faults, crashes>>

\* The date stored when a schedule is enabled after its time.
Waived(z) == LocalDate(z)

\* save_settings: enabling a schedule past its time waives today's digest.
\* The application timezone follows the one chosen here.
SaveSettings(on, time, z) ==
    /\ gate = "editor"
    /\ gate' = "free"
    /\ enabled' = on
    /\ sendTime' = time
    /\ tz' = z
    /\ appTz' = z
    /\ lastDate' = IF /\ on /\ ~enabled
                      /\ LocalDate(z) \notin OffDates /\ LocalTime(z) >= time
                     THEN Waived(z) ELSE lastDate
    /\ edited' = TRUE
    /\ UNCHANGED <<jobs, state, thread, digest, current, refreshing, clock,
                   history, claims, ops, faults, crashes>>

\* MaintenanceScheduler.update_schedule: the application timezone only.
SaveSchedule(z) ==
    /\ gate = "editor"
    /\ gate' = "free"
    /\ appTz' = z
    /\ UNCHANGED <<jobs, state, enabled, sendTime, tz, lastDate, thread,
                   edited, digest, current, refreshing, clock, history,
                   claims, ops, faults, crashes>>

EditRejected ==
    /\ gate = "editor"
    /\ gate' = "free"
    /\ UNCHANGED <<jobs, state, settings, thread, edited, digest, current,
                   refreshing, clock, history, claims, ops, faults, crashes>>

RefreshBegins ==
    /\ Takes("refresh")
    /\ refreshing' = TRUE
    /\ UNCHANGED <<jobs, state, settings, thread, edited, digest, current,
                   clock, history, claims, faults, crashes>>

\* One company's jobs are opened or closed.
RefreshWrites(j) ==
    /\ refreshing
    /\ jobs' = IF j \in jobs THEN jobs \ {j} ELSE jobs \cup {j}
    /\ UNCHANGED <<state, settings, gate, thread, edited, digest, current,
                   refreshing, clock, history, claims, ops, faults, crashes>>

RefreshEnds ==
    /\ refreshing
    /\ refreshing' = FALSE
    /\ gate' = IF gate = "refresh" THEN "free" ELSE gate
    /\ UNCHANGED <<jobs, state, settings, thread, edited, digest, current,
                   clock, history, claims, ops, faults, crashes>>

Tick ==
    /\ clock < MaxClock
    /\ clock' = clock + 1
    /\ UNCHANGED <<jobs, state, settings, gate, thread, edited, digest,
                   current, refreshing, history, claims, ops, faults,
                   crashes>>

\* The row of a digest cut short stays "Sending"; nothing reads it again.
Crash ==
    /\ crashes < MaxCrashes
    /\ crashes' = crashes + 1
    /\ inDoubt' = (inDoubt \/ digest = "delivered")
    /\ gate' = "free" /\ poller' = "idle" /\ digest' = "off"
    /\ refreshing' = FALSE
    /\ UNCHANGED <<jobs, state, settings, date, edited, current, clock, told,
                   claims, ops, faults>>

-----------------------------------------------------------------------------
Scheduler ==
    \/ NothingDue \/ Poll \/ PollAcquires \/ PollConflicts
    \/ ReadAgain \/ Claim \/ ClaimFails

Digest ==
    \/ DigestRefused \/ DigestReadsJobs \/ StoreBaseline \/ NoChanges
    \/ RecordSending \/ Deliver \/ DeliveryFails \/ DeliveryInDoubt
    \/ AdvanceCheckpoint \/ DigestFails

Edit ==
    \/ EditRejected
    \/ \E z \in Zones :
          \/ SaveSchedule(z)
          \/ \E on \in BOOLEAN, time \in 0..(Day - 1) :
                SaveSettings(on, time, z)

Next ==
    \/ Scheduler \/ Digest
    \/ UserSends \/ EditBegins \/ Edit
    \/ RefreshBegins \/ RefreshEnds \/ \E j \in Jobs : RefreshWrites(j)
    \/ Tick \/ Crash

Spec == Init /\ [][Next]_vars

(* Fairness.  The scheduler thread keeps polling; SMTP calls time out, so   *)
(* a digest ends, and so does an edit.  A refresh is not obliged to end,   *)
(* nor the clock to move, nor users to do anything.                        *)
FairSpec == Spec /\ WF_vars(Scheduler) /\ WF_vars(Digest) /\ WF_vars(Edit)

-----------------------------------------------------------------------------
(* Properties.                                                             *)

\* An occurrence is claimed before it is sent and never a second time, across
\* edits, failures and restarts: in one timezone no date is mailed twice.
ClaimedOncePerDate == IsInjective(claims)

\* "Its SQLite snapshot advances only after a successful multipart email"
\* (README.md:326), and whenever one was sent: unless a crash or an error hid a
\* delivery, the next digest is computed from what its readers know.
SnapshotIsTold ==
    established /\ digest # "delivered" /\ ~inDoubt => snapshot = told

\* "The next poll retries the same persisted occurrence after refresh
\* completion" (email_scheduler.py:24): a digest that is due on a day that lasts
\* is served unless a refresh holds the gate, whatever failed before.
DueDigestIsServed ==
    (clock = MaxClock /\ Due) ~> (~Due \/ gate = "refresh")
=============================================================================
