--------------------- MODULE MaintenanceScheduler_proofs ---------------------
(***************************************************************************)
(* Proofs about MaintenanceScheduler, for all jobs, timezones, lengths of  *)
(* the day and bounds.                                                     *)
(***************************************************************************)
EXTENDS MaintenanceScheduler, TLAPS

\* A claim is at hand.
Claimed == pc \in {"claimed", "failed", "errored"}

\* The types, and that a claim is of a job and of a date.
Typed == TypeOK /\ (Claimed => pos \in 1..Len(JobOrder) /\ date \in Nat)

\* Dates grow with the clock.
LEMMA DatesGrow ==
    ASSUME NEW z \in Nat, NEW a \in Nat, NEW b \in Nat, a <= b
    PROVE  (a + z) \div Day \in Nat /\ (a + z) \div Day <= (b + z) \div Day
BY SchedulerAssumption

LEMMA LocalDateIsNat ==
    ASSUME TypeOK, NEW z \in Offset
    PROVE  LocalDate(z) \in Nat
<1>1. clock \in Nat /\ z \in Nat
    BY SchedulerAssumption DEF TypeOK, Offset
<1> QED
    BY <1>1, DatesGrow DEF LocalDate

LEMMA JobsInOrder ==
    ASSUME NEW i \in 1..Len(JobOrder)
    PROVE  JobOrder[i] \in Jobs
BY SchedulerAssumption

LEMMA TypedInit == Init => Typed
<1> SUFFICES ASSUME Init PROVE Typed
    OBVIOUS
<1>1. Len(JobOrder) \in Nat /\ Day \in Nat \ {0} /\ tz \in Offset
    BY SchedulerAssumption DEF Init, Offset
<1>2. {MaxClock, MaxEdits, MaxFaults, MaxCrashes} \subseteq Nat
    BY SchedulerAssumption
<1> QED
    BY <1>1, <1>2 DEF Init, Typed, TypeOK, Claimed, Dates, Observed

\* The entries of an account, the live ones included, are of dates.
LEMMA EntriesDated ==
    ASSUME NEW acc \in Seq(Entry)
    PROVE  /\ Live(acc) \subseteq DOMAIN acc
           /\ \A i \in DOMAIN acc : acc[i].date \in Nat
<1>1. \A i \in DOMAIN acc : acc[i] \in Entry
    OBVIOUS
<1> QED
    BY <1>1 DEF Live, Entry

\* What an edit of the timezone closes are jobs and dates.
LEMMA ClosedTyped ==
    ASSUME TypeOK, NEW z
    PROVE  ClosedBy(z) \subseteq Jobs \X Nat \X {"ended", "moved"}
<1>1. ASSUME NEW j \in Jobs, last[j] \in Settled(accounted[j]) PROVE last[j] \in Nat
    <2>1. PICK acc \in Seq(Entry) : acc = accounted[j]
        BY DEF TypeOK
    <2> QED
        BY <1>1, <2>1, EntriesDated DEF Settled
<1> QED
    BY <1>1 DEF TypeOK, ClosedBy

LEMMA AccountsTyped ==
    ASSUME TypeOK, NEW z
    PROVE  AccountsFrom(z) \in [Jobs -> Seq(Entry)]
BY DEF TypeOK, AccountsFrom

LEMMA TypedStep == Typed /\ [Next]_vars => Typed'
<1> SUFFICES ASSUME Typed, [Next]_vars PROVE Typed'
    OBVIOUS
<1>b. MaxClock \in Nat /\ MaxEdits \in Nat /\ MaxFaults \in Nat /\ Len(JobOrder) \in Nat /\ Day \in Nat \ {0}
    BY SchedulerAssumption
<1>j. ASSUME pos \in 1..Len(JobOrder) PROVE Job \in Jobs
    BY <1>j, JobsInOrder DEF Job
<1>d. seen.tz \in Offset /\ LocalDate(seen.tz) \in Nat
    BY LocalDateIsNat DEF Typed, TypeOK
<1> USE <1>b DEF Typed, Claimed, TypeOK, rows, thread, ghosts, bounds, Fault
<1>1. CASE CycleBegin
    <2>1. seen' \in [enabled : [Jobs -> BOOLEAN], runTime : [Jobs -> 0..(Day - 1)],
                     last : [Jobs -> Dates], tz : Offset]
        BY <1>1 DEF CycleBegin, Observed
    <2>2. 1 \in 1..(Len(JobOrder) + 1)
        OBVIOUS
    <2>3. UNCHANGED <<rows, date, gate, editor, mailer, clock, ghosts, bounds>>
        BY <1>1 DEF CycleBegin
    <2>4. pc' = "scan" /\ pos' = 1 /\ touched' = {}
        BY <1>1 DEF CycleBegin
    <2> QED
        BY <2>1, <2>2, <2>3, <2>4, SMTT(60)
<1>2. CASE NotDue
    <2>1. pos' \in 1..(Len(JobOrder) + 1)
        BY <1>2 DEF NotDue
    <2> QED
        BY <1>2, <2>1 DEF NotDue
<1>3. CASE ClaimOccurrence     BY <1>3, <1>j, <1>d DEF ClaimOccurrence, Dates
<1>4. CASE ClaimLost           BY <1>4 DEF ClaimLost
<1>5. CASE CycleAborts         BY <1>5 DEF CycleAborts
<1>6. CASE SkipUnavailable
    <2>1. pos' \in 1..(Len(JobOrder) + 1) /\ pc' = "scan"
        BY <1>6 DEF SkipUnavailable
    <2> QED
        BY <1>6, <2>1 DEF SkipUnavailable
<1>7. CASE StartRun
    <2>1. accounted' \in [Jobs -> Seq(Entry)]
        BY <1>7, <1>j DEF StartRun, Account, Entry
    <2>2. gate' = Job /\ Job \in Jobs /\ pc' = "scan" /\ pos' \in 1..(Len(JobOrder) + 1)
        BY <1>7, <1>j DEF StartRun
    <2>3. UNCHANGED <<enabled, runTime, last, tz>>
        BY <1>7 DEF StartRun, rows
    <2> QED
        BY <1>7, <2>1, <2>2, <2>3 DEF StartRun
<1>8. CASE StartConflict
    <2>1. faults' \in 0..MaxFaults
        BY <1>8 DEF StartConflict
    <2> QED
        BY <1>8, <2>1 DEF StartConflict
<1>9. CASE StartError
    <2>1. accounted' \in [Jobs -> Seq(Entry)]
        <3>1. CASE UNCHANGED <<gate, accounted>>
            BY <3>1
        <3>2. CASE gate' = Job /\ Account(Job)
            BY <1>9, <1>j, <3>2 DEF StartError, Account, Entry
        <3> QED
            BY <1>9, <3>1, <3>2 DEF StartError
    <2>2. gate' \in Jobs \cup {Nobody, Editor, Mailer, Manual} /\ faults' \in 0..MaxFaults
        BY <1>9, <1>j DEF StartError
    <2> QED
        BY <1>9, <1>j, <2>1, <2>2 DEF StartError
<1>10. CASE ReleaseOccurrence
    <2>1. last' \in [Jobs -> Dates]
        BY <1>10, <1>j DEF ReleaseOccurrence
    <2>2. pc' \in {"scan", "idle"} /\ pos' \in 1..(Len(JobOrder) + 1) /\ faults' \in 0..MaxFaults
        BY <1>10 DEF ReleaseOccurrence, AfterFailure
    <2> QED
        BY <1>10, <2>1, <2>2 DEF ReleaseOccurrence
<1>11. CASE ReleaseError       BY <1>11, <1>j DEF ReleaseError
<1>12. CASE CycleEnd           BY <1>12 DEF CycleEnd
<1>13. CASE EditBegin          BY <1>13 DEF EditBegin
<1>14. ASSUME NEW j \in Jobs, NEW on \in BOOLEAN, NEW time \in 0..(Day - 1), NEW z \in Zones,
              EditApply(j, on, time, z)
       PROVE  Typed'
    <2>1. z \in Offset /\ LocalDate(z) \in Nat
        BY LocalDateIsNat DEF Offset
    <2>2. last' \in [Jobs -> Dates]
        BY <1>14, <2>1 DEF EditApply, Waived, Dates
    <2>3. accounted' \in [Jobs -> Seq(Entry)]
        <3>1. PICK how \in {"waived", "reopened"} :
                  how = IF LocalTime(z) >= time THEN "waived" ELSE "reopened"
            OBVIOUS
        <3>2. PICK e \in Entry : e = [date |-> LocalDate(z), how |-> how]
            BY <2>1 DEF Entry
        <3>3. accounted' = IF ~on THEN AccountsFrom(z)
                           ELSE [AccountsFrom(z) EXCEPT ![j] = Append(@, e)]
            BY <1>14, <3>1, <3>2 DEF EditApply
        <3>4. AccountsFrom(z) \in [Jobs -> Seq(Entry)]
            BY AccountsTyped
        <3>5. [AccountsFrom(z) EXCEPT ![j] = Append(@, e)] \in [Jobs -> Seq(Entry)]
            BY <3>4
        <3> QED
            BY <3>3, <3>4, <3>5
    <2>4. closed' \subseteq Jobs \X Nat \X {"ended", "moved"}
        BY <1>14, ClosedTyped DEF EditApply
    <2>5. touched' \subseteq Jobs
        BY <1>14 DEF EditApply, Retimed
    <2> QED
        BY <1>14, <2>1, <2>2, <2>3, <2>4, <2>5 DEF EditApply, LockFree
<1>15. CASE EditRejected       BY <1>15 DEF EditRejected
<1>16. CASE EditEnd            BY <1>16 DEF EditEnd
<1>17. CASE MailBegin          BY <1>17 DEF MailBegin
<1>18. ASSUME NEW z \in MailZones, MailSave(z) PROVE Typed'
    <2>1. accounted' \in [Jobs -> Seq(Entry)]
        BY <1>18, AccountsTyped DEF MailSave
    <2>2. closed' \subseteq Jobs \X Nat \X {"ended", "moved"}
        BY <1>18, <1>j, ClosedTyped DEF MailSave
    <2>3. touched' \subseteq Jobs /\ tz' \in Offset
        BY <1>18 DEF MailSave, Retimed, Offset
    <2> QED
        BY <1>18, <2>1, <2>2, <2>3 DEF MailSave
<1>19. CASE MailRejected       BY <1>19 DEF MailRejected
<1>20. CASE MailEnd            BY <1>20 DEF MailEnd
<1>21. CASE OtherBegin         BY <1>21 DEF OtherBegin
<1>22. CASE RunEnds            BY <1>22 DEF RunEnds
<1>23. CASE Tick               BY <1>23 DEF Tick
<1>24. CASE Crash
    <2>1. closed' \subseteq Jobs \X Nat \X {"ended", "moved"}
        BY <1>24, <1>j DEF Crash
    <2>2. crashes' \in 0..MaxCrashes
        BY <1>24, SchedulerAssumption DEF Crash
    <2> QED
        BY <1>24, <2>1, <2>2 DEF Crash
<1>25. CASE UNCHANGED vars     BY <1>25 DEF vars
<1> QED
    BY <1>1, <1>2, <1>3, <1>4, <1>5, <1>6, <1>7, <1>8, <1>9, <1>10, <1>11, <1>12, <1>13, <1>14,
       <1>15, <1>16, <1>17, <1>18, <1>19, <1>20, <1>21, <1>22, <1>23, <1>24, <1>25
       DEF Next, Cycle, Apply, Save

\* Every variable keeps its type, and a claim at hand is of a job and a date.
THEOREM SchedulerTypes == Spec => []Typed
BY TypedInit, TypedStep, PTL DEF Spec

-----------------------------------------------------------------------------

\* The dates of an account never decrease.
Ordered(acc) == \A m \in DOMAIN acc : \A i \in 1..m : acc[i].date <= acc[m].date

\* None is beyond d; no date was repeated without being reopened.
Kept(acc, d) == Ordered(acc) /\ RepeatsReopened(acc) /\ \A i \in DOMAIN acc : acc[i].date <= d

\* The date d can stand in a row: it is past, and nothing run or waived since
\* the last reopening is later.
Backs(acc, d, today) == \A i \in Live(acc) : d \in Nat /\ acc[i].date <= d /\ d <= today

Backed(j, d) == Backs(accounted[j], d, LocalDate(tz))

\* The claim at hand is in its row, of a date that was not accounted for since it
\* was last reopened; if the row was not written since, giving the claim back
\* leaves it as it was.  After a move of the timezone the account is empty.
ClaimIsNew ==
    Claimed =>
        /\ last[Job] = date
        /\ date <= LocalDate(seen.tz)
        /\ accounted[Job] # <<>> => seen.tz = tz
        /\ \A i \in DOMAIN accounted[Job] : accounted[Job][i].date <= date
        /\ \A i \in Live(accounted[Job]) : accounted[Job][i].date < date
        /\ Job \notin touched => Backed(Job, seen.last[Job])

Ledger == \A j \in Jobs : Kept(accounted[j], LocalDate(tz)) /\ Backed(j, last[j])

LedgerInv == Typed /\ (faults = 0 => pc # "errored" /\ ClaimIsNew /\ Ledger)

\* An empty account asks nothing of the row.
LEMMA EmptyAccount ==
    ASSUME NEW d, NEW today
    PROVE  Kept(<<>>, today) /\ Backs(<<>>, d, today)
BY DEF Kept, Ordered, RepeatsReopened, Backs, Live

LEMMA LedgerInit == Init => LedgerInv
BY TypedInit, EmptyAccount DEF Init, LedgerInv, ClaimIsNew, Ledger, Backed, Claimed

\* What an entry no earlier than the others changes in an account.
LEMMA Appended ==
    ASSUME NEW acc \in Seq(Entry), NEW e \in Entry, NEW today \in Nat, Ordered(acc), RepeatsReopened(acc),
           \A i \in DOMAIN acc : acc[i].date <= e.date, e.date <= today,
           e.how = "run" => \A i \in Live(acc) : acc[i].date # e.date
    PROVE  /\ Kept(Append(acc, e), today)
           /\ e.how # "reopened" => Backs(Append(acc, e), e.date, today)
           /\ \A d : e.how = "reopened" => Backs(Append(acc, e), d, today)
<1> DEFINE new == Append(acc, e)
<1> DEFINE n == Len(acc)
<1>1. /\ n \in Nat /\ DOMAIN acc = 1..n /\ DOMAIN new = 1..(n + 1) /\ Len(new) = n + 1
      /\ \A i \in 1..n : new[i] = acc[i] /\ acc[i] \in Entry
      /\ new[n + 1] = e
    OBVIOUS
<1>e. e.date \in Nat /\ \A i \in 1..n : acc[i].date \in Nat
    BY <1>1 DEF Entry
<1> HIDE DEF new, n
<1>2. \A i \in DOMAIN new : new[i].date <= e.date
    BY <1>1, <1>e
<1>3. Ordered(new)
    <2> SUFFICES ASSUME NEW m \in 1..(n + 1), NEW i \in 1..m PROVE new[i].date <= new[m].date
        BY <1>1 DEF Ordered
    <2>1. CASE m = n + 1
        BY <1>1, <1>2, <2>1
    <2>2. CASE m # n + 1
        <3>1. m \in 1..n /\ i \in 1..n
            BY <1>1, <2>2
        <3> QED
            BY <1>1, <3>1 DEF Ordered
    <2> QED BY <2>1, <2>2
<1>4. RepeatsReopened(new)
    <2> SUFFICES ASSUME NEW k \in 1..(n + 1), NEW i \in 1..(k - 1), new[k].how = "run",
                        new[i].how # "reopened", new[i].date = new[k].date
                 PROVE  \E m \in i..k : new[m] = [date |-> new[k].date, how |-> "reopened"]
        BY <1>1 DEF RepeatsReopened
    <2>1. CASE k # n + 1
        <3>1. k \in 1..n /\ i \in 1..n /\ \A m \in i..k : m \in 1..n
            BY <1>1, <2>1
        <3>2. \E m \in i..k : acc[m] = [date |-> acc[k].date, how |-> "reopened"]
            BY <1>1, <3>1 DEF RepeatsReopened
        <3> QED
            BY <1>1, <3>1, <3>2
    <2>2. CASE k = n + 1
        <3>1. i \in 1..n /\ new[k] = e /\ new[i] = acc[i] /\ e.how = "run" /\ acc[i].date = e.date
            BY <1>1, <2>2
        <3>2. PICK m \in i..n : acc[m].how = "reopened"
            BY <1>1, <3>1 DEF Live
        <3>3. m \in 1..n /\ m \in i..k
            BY <1>1, <2>2, <3>1
        <3>4. acc[m].date = e.date
            <4>1. acc[i].date <= acc[m].date
                BY <1>1, <3>1, <3>3 DEF Ordered
            <4>2. acc[m].date <= e.date
                BY <1>1, <3>3
            <4> QED
                BY <1>e, <3>1, <3>3, <4>1, <4>2
        <3>5. acc[m] = [date |-> e.date, how |-> "reopened"]
            BY <1>1, <3>2, <3>3, <3>4 DEF Entry
        <3> QED
            BY <1>1, <3>1, <3>3, <3>5
    <2> QED BY <2>1, <2>2
<1>5. \A i \in Live(new) : e.how # "reopened" /\ new[i].date <= e.date
    <2>1. \A i \in DOMAIN new : n + 1 \in i..(n + 1)
        BY <1>1
    <2> QED
        BY <1>1, <1>2, <2>1 DEF Live
<1>6. \A i \in DOMAIN new : new[i].date <= today
    BY <1>1, <1>e
<1>7. Kept(new, today)
    BY <1>3, <1>4, <1>6 DEF Kept
<1>8. e.how # "reopened" => Backs(new, e.date, today)
    BY <1>e, <1>5 DEF Backs
<1>9. \A d : e.how = "reopened" => Backs(new, d, today)
    BY <1>5 DEF Backs
<1> QED BY <1>7, <1>8, <1>9 DEF new

\* A step that changes neither rows nor accounts nor the claim at hand.
LEMMA LedgerKept ==
    ASSUME Typed, ClaimIsNew, Ledger, UNCHANGED <<rows, accounted, touched, seen, clock>>,
           UNCHANGED <<pos, date>> \/ pc' \notin {"claimed", "failed", "errored"},
           pc' \in {"claimed", "failed", "errored"} => Claimed
    PROVE  ClaimIsNew' /\ Ledger'
<1> USE DEF rows, Claimed
<1>1. \A j \in Jobs : Kept(accounted[j], LocalDate(tz))' /\ Backed(j, last[j])'
    BY DEF Ledger, Backed, LocalDate
<1>2. ClaimIsNew'
    <2>1. CASE ~(pc' \in {"claimed", "failed", "errored"})
        BY <2>1 DEF ClaimIsNew
    <2>2. CASE pc' \in {"claimed", "failed", "errored"}
        <3>1. UNCHANGED <<pos, date, last, tz, seen, clock, accounted, touched>> /\ Claimed /\ Job' = Job
            BY <2>2 DEF Job
        <3>2. Job \notin touched => Backed(Job, seen.last[Job])'
            BY <3>1 DEF ClaimIsNew, Backed, LocalDate
        <3> QED
            BY <3>1, <3>2 DEF ClaimIsNew, LocalDate
    <2> QED BY <2>1, <2>2
<1> QED BY <1>1, <1>2 DEF Ledger

LEMMA LedgerStep == LedgerInv /\ [Next]_vars => LedgerInv'
<1> SUFFICES ASSUME LedgerInv, [Next]_vars PROVE LedgerInv'
    OBVIOUS
<1>t. Typed /\ Typed'
    BY TypedStep DEF LedgerInv
<1>f. faults' = 0 => faults = 0 /\ ~Fault
    <2>a. faults \in Nat
        BY <1>t, SchedulerAssumption DEF Typed, TypeOK
    <2>b. Cycle => faults' = faults \/ Fault
        BY DEF Cycle, bounds, CycleBegin, NotDue, ClaimOccurrence, ClaimLost, CycleAborts,
           SkipUnavailable, StartRun, StartConflict, StartError, ReleaseOccurrence, AfterFailure,
           ReleaseError, CycleEnd
    <2>c. Apply \/ Save => faults' = faults
        BY DEF Apply, Save, EditApply, MailSave, bounds
    <2>d. UNCHANGED vars => faults' = faults
        BY DEF vars, bounds
    <2>e. Next => Cycle \/ Apply \/ Save \/ faults' = faults
        BY DEF Next, bounds, EditBegin, EditRejected, EditEnd, MailBegin, MailRejected, MailEnd,
           OtherBegin, RunEnds, Tick, Crash
    <2>1. faults \in Nat /\ (faults' = faults \/ faults' = faults + 1)
        BY <2>a, <2>b, <2>c, <2>d, <2>e DEF Fault
    <2> QED
        BY <2>1 DEF Fault
<1> SUFFICES ASSUME faults = 0, ~Fault, pc # "errored", ClaimIsNew, Ledger
             PROVE  pc' # "errored" /\ ClaimIsNew' /\ Ledger'
    BY <1>t, <1>f DEF LedgerInv
<1>j. Claimed \/ pos <= Len(JobOrder) => Job \in Jobs
    <2>1. Claimed \/ pos <= Len(JobOrder) => pos \in 1..Len(JobOrder)
        BY <1>t, SchedulerAssumption DEF Typed, TypeOK
    <2> QED
        BY <2>1, JobsInOrder DEF Job
<1>d. LocalDate(seen.tz) \in Nat /\ LocalDate(tz) \in Nat
    BY <1>t, LocalDateIsNat DEF Typed, TypeOK
<1> USE DEF rows, thread, ghosts, bounds, Claimed
<1>1. CASE CycleBegin
    <2>1. \A j \in Jobs : Kept(accounted[j], LocalDate(tz))' /\ Backed(j, last[j])'
        BY <1>1 DEF CycleBegin, Ledger, Backed, LocalDate
    <2> QED
        BY <1>1, <2>1 DEF CycleBegin, ClaimIsNew, Ledger
<1>2. CASE NotDue \/ ClaimLost \/ SkipUnavailable \/ CycleEnd \/ CycleAborts
    BY <1>t, <1>2, LedgerKept DEF NotDue, ClaimLost, SkipUnavailable, CycleEnd, CycleAborts
<1>3. CASE ClaimOccurrence
    <2>1. /\ Job \in Jobs /\ Unchanged(Job) /\ Job' = Job /\ pc' = "claimed"
          /\ date' = LocalDate(seen.tz)
          /\ last' = [last EXCEPT ![Job] = date']
          /\ UNCHANGED <<tz, accounted, seen, touched, clock>>
        BY <1>j, <1>3 DEF ClaimOccurrence, Job
    <2>2. /\ last'[Job] = date' /\ LocalDate(tz)' = LocalDate(tz)
          /\ \A j \in Jobs : j # Job => last'[j] = last[j]
        BY <1>t, <2>1 DEF Typed, TypeOK, LocalDate
    <2>3. tz = seen.tz /\ Backed(Job, seen.last[Job]) /\ seen.last[Job] # date'
        BY <2>1 DEF Unchanged, Ledger
    <2>4. /\ \A i \in Live(accounted[Job]) : accounted[Job][i].date < date'
          /\ \A i \in DOMAIN accounted[Job] : accounted[Job][i].date <= date'
        <3>1. \A i \in DOMAIN accounted[Job] : accounted[Job][i].date \in Nat
            <4>1. PICK acc \in Seq(Entry) : acc = accounted[Job]
                BY <1>t, <2>1 DEF Typed, TypeOK
            <4> QED
                BY <4>1, EntriesDated
        <3>2. \A i \in DOMAIN accounted[Job] : accounted[Job][i].date <= date'
            BY <2>1, <2>3 DEF Ledger, Kept
        <3>3. ASSUME NEW i \in Live(accounted[Job]) PROVE accounted[Job][i].date < date'
            <4>1. /\ seen.last[Job] \in Nat /\ accounted[Job][i].date <= seen.last[Job]
                  /\ seen.last[Job] <= date'
                BY <2>1, <2>3, <3>3 DEF Backed, Backs
            <4>2. accounted[Job][i].date \in Nat /\ date' \in Nat
                BY <1>d, <2>1, <3>1, <3>3 DEF Live
            <4> QED
                BY <2>3, <4>1, <4>2
        <3> QED BY <3>2, <3>3
    <2>5. Backed(Job, last[Job])'
        BY <1>d, <2>1, <2>2, <2>3, <2>4 DEF Backed, Backs, Live
    <2>6. Ledger'
        BY <2>1, <2>2, <2>5 DEF Ledger, Backed
    <2>7. ClaimIsNew'
        BY <1>d, <2>1, <2>2, <2>3, <2>4 DEF ClaimIsNew, Backed, LocalDate
    <2> QED BY <2>1, <2>6, <2>7
<1>4. CASE StartRun
    <2>1. PICK j \in Jobs : j = Job
        BY <1>j, <1>4 DEF StartRun
    <2>2. pc' = "scan" /\ Account(j) /\ UNCHANGED <<rows, clock>>
        BY <1>4, <2>1 DEF StartRun
    <2>3. CASE seen.tz # tz
        BY <2>2, <2>3 DEF Account, ClaimIsNew, Ledger, Backed, LocalDate
    <2>4. CASE seen.tz = tz
        <3>1. /\ accounted'[j] = Append(accounted[j], [date |-> date, how |-> "run"])
              /\ \A k \in Jobs : k # j => accounted'[k] = accounted[k]
            BY <1>t, <2>2, <2>4 DEF Account, Typed, TypeOK
        <3>2. /\ accounted[j] \in Seq(Entry) /\ date \in Nat /\ last[j] = date
              /\ date <= LocalDate(tz) /\ LocalDate(tz)' = LocalDate(tz)
              /\ \A i \in DOMAIN accounted[j] : accounted[j][i].date <= date
              /\ \A i \in Live(accounted[j]) : accounted[j][i].date < date
            BY <1>t, <1>4, <2>1, <2>2, <2>4 DEF StartRun, ClaimIsNew, Typed, TypeOK, LocalDate
        <3>3. Ordered(accounted[j]) /\ RepeatsReopened(accounted[j])
            BY DEF Ledger, Kept
        <3>4. PICK e \in Entry : e = [date |-> date, how |-> "run"]
            BY <3>2 DEF Entry
        <3>5. e.date = date /\ e.how = "run" /\ \A i \in Live(accounted[j]) : accounted[j][i].date # e.date
            <4>1. \A i \in Live(accounted[j]) : accounted[j][i].date \in Nat
                <5>1. PICK acc \in Seq(Entry) : acc = accounted[j]
                    BY <3>2
                <5> QED
                    BY <5>1, EntriesDated
            <4> QED
                BY <3>2, <3>4, <4>1
        <3>6. /\ Kept(accounted'[j], LocalDate(tz))
              /\ Backs(accounted'[j], date, LocalDate(tz))
            <4>1. PICK today \in Nat : today = LocalDate(tz)
                BY <1>d
            <4>2. /\ Kept(Append(accounted[j], e), today)
                  /\ Backs(Append(accounted[j], e), e.date, today)
                BY <3>2, <3>3, <3>4, <3>5, <4>1, Appended
            <4> QED
                BY <3>1, <3>4, <3>5, <4>1, <4>2
        <3>7. Kept(accounted[j], LocalDate(tz))' /\ Backed(j, last[j])'
            BY <2>2, <3>2, <3>6 DEF Backed
        <3>8. \A k \in Jobs : k # j => Kept(accounted[k], LocalDate(tz))' /\ Backed(k, last[k])'
            BY <2>2, <3>1, <3>2 DEF Ledger, Backed
        <3> QED
            BY <2>2, <3>7, <3>8 DEF Ledger, ClaimIsNew
    <2> QED BY <2>3, <2>4
<1>5. CASE StartConflict
    BY <1>t, <1>5, LedgerKept DEF StartConflict
<1>6. CASE StartError \/ ReleaseError
    BY <1>6 DEF StartError, ReleaseError
<1>7. CASE ReleaseOccurrence
    <2>1. Job \in Jobs /\ pc' \notin {"claimed", "failed", "errored"} /\ UNCHANGED <<tz, accounted, clock>>
        BY <1>j, <1>7 DEF ReleaseOccurrence, AfterFailure
    <2>2. \A j \in Jobs : last'[j] = last[j] \/ (j = Job /\ j \notin touched /\ last'[j] = seen.last[j])
        BY <1>t, <1>7 DEF ReleaseOccurrence, Typed, TypeOK
    <2>3. Job \notin touched => Backed(Job, seen.last[Job])
        BY <1>7 DEF ReleaseOccurrence, ClaimIsNew
    <2> QED
        BY <2>1, <2>2, <2>3 DEF Ledger, Backed, ClaimIsNew, LocalDate
<1>8. ASSUME NEW j \in Jobs, NEW on \in BOOLEAN, NEW time \in 0..(Day - 1), NEW z \in Zones,
             EditApply(j, on, time, z)
      PROVE  pc' # "errored" /\ ClaimIsNew' /\ Ledger'
    <2>1. pc' = "idle" /\ tz' = z /\ clock' = clock
        BY <1>8 DEF EditApply, LockFree
    <2>2. LocalDate(tz)' = LocalDate(z) /\ LocalDate(z) \in Nat
        BY <1>t, <2>1, LocalDateIsNat DEF LocalDate, Offset, Typed
    <2>3. \A k \in Jobs : k # j \/ ~on =>
                 last'[k] = last[k] /\ accounted'[k] = (IF z = tz THEN accounted[k] ELSE <<>>)
        BY <1>t, <1>8 DEF EditApply, AccountsFrom, Typed, TypeOK
    <2>4. ASSUME NEW k \in Jobs, k # j \/ ~on
          PROVE  Kept(accounted[k], LocalDate(tz))' /\ Backed(k, last[k])'
        <3>1. CASE z = tz
            BY <2>1, <2>2, <2>3, <2>4, <3>1 DEF Ledger, Backed
        <3>2. CASE z # tz
            BY <2>3, <2>4, <3>2, EmptyAccount DEF Backed
        <3> QED BY <3>1, <3>2
    <2>5. ASSUME on PROVE Kept(accounted[j], LocalDate(tz))' /\ Backed(j, last[j])'
        <3>1. PICK acc \in Seq(Entry) : acc = AccountsFrom(z)[j]
            BY <1>t, AccountsTyped DEF Typed
        <3>2. PICK e \in Entry : e = [date |-> LocalDate(z),
                                     how |-> IF LocalTime(z) >= time THEN "waived" ELSE "reopened"]
            <4>1. PICK how \in {"waived", "reopened"} :
                      how = IF LocalTime(z) >= time THEN "waived" ELSE "reopened"
                OBVIOUS
            <4> QED
                BY <2>2, <4>1 DEF Entry
        <3>3. e.date = LocalDate(z) /\ e.how # "run" /\ accounted'[j] = Append(acc, e)
            BY <1>t, <1>8, <2>5, <3>1, <3>2, AccountsTyped DEF EditApply, Typed
        <3>4. e.how # "reopened" => last'[j] = LocalDate(z)
            BY <1>t, <1>8, <2>5, <3>2 DEF EditApply, Waived, Typed, TypeOK
        <3>5. Kept(acc, LocalDate(z))
            <4>1. CASE z = tz
                BY <3>1, <4>1 DEF AccountsFrom, Ledger
            <4>2. CASE z # tz
                BY <3>1, <4>2, EmptyAccount DEF AccountsFrom
            <4> QED BY <4>1, <4>2
        <3>6. PICK today \in Nat : today = LocalDate(z)
            BY <2>2
        <3>7. /\ Kept(Append(acc, e), today)
              /\ e.how # "reopened" => Backs(Append(acc, e), e.date, today)
              /\ \A d : e.how = "reopened" => Backs(Append(acc, e), d, today)
            <4>1. Ordered(acc) /\ RepeatsReopened(acc) /\ \A i \in DOMAIN acc : acc[i].date <= e.date
                BY <3>3, <3>5 DEF Kept
            <4>2. e.date <= today
                BY <3>3, <3>6
            <4> QED
                BY <3>3, <4>1, <4>2, Appended
        <3>8. Backs(Append(acc, e), last'[j], today)
            BY <3>3, <3>4, <3>7
        <3> QED
            BY <2>2, <3>3, <3>6, <3>7, <3>8 DEF Backed
    <2> QED
        BY <2>1, <2>4, <2>5 DEF Ledger, ClaimIsNew
<1>9. ASSUME NEW z \in MailZones, MailSave(z)
      PROVE  pc' # "errored" /\ ClaimIsNew' /\ Ledger'
    <2>1. tz' = z /\ UNCHANGED <<enabled, runTime, last, pc, pos, seen, date, clock>>
        BY <1>9 DEF MailSave
    <2>2. CASE z = tz
        <3>1. accounted' = accounted /\ touched' = touched
            BY <1>9, <2>2 DEF MailSave, AccountsFrom, Retimed
        <3> QED
            BY <1>t, <2>1, <2>2, <3>1, LedgerKept
    <2>3. CASE z # tz
        <3>1. /\ \A j \in Jobs : accounted'[j] = <<>> /\ j \in touched'
              /\ Job' = Job /\ LocalDate(seen.tz)' = LocalDate(seen.tz)
            BY <1>9, <2>1, <2>3 DEF MailSave, AccountsFrom, Retimed, Job, LocalDate
        <3> QED
            BY <1>j, <2>1, <3>1, EmptyAccount DEF Ledger, Backed, ClaimIsNew, Live
    <2> QED BY <2>2, <2>3
<1>10. CASE EditBegin \/ EditRejected \/ EditEnd \/ MailBegin \/ MailRejected \/ MailEnd
    BY <1>t, <1>10, LedgerKept DEF EditBegin, EditRejected, EditEnd, MailBegin, MailRejected, MailEnd
<1>11. CASE OtherBegin \/ RunEnds
    BY <1>t, <1>11, LedgerKept DEF OtherBegin, RunEnds
<1>12. CASE Tick
    <2>1. /\ UNCHANGED <<rows, pc, pos, seen, date, touched, accounted>> /\ Job' = Job
          /\ clock \in Nat /\ clock' \in Nat /\ clock <= clock'
        BY <1>t, <1>12, SchedulerAssumption DEF Tick, Job, Typed, TypeOK
    <2>2. \A z \in Offset : LocalDate(z) \in Nat /\ LocalDate(z)' \in Nat /\ LocalDate(z) <= LocalDate(z)'
        <3>1. ASSUME NEW z \in Offset
              PROVE  /\ (clock + z) \div Day \in Nat /\ (clock' + z) \div Day \in Nat
                     /\ (clock + z) \div Day <= (clock' + z) \div Day
            <4>1. z \in Nat
                BY SchedulerAssumption DEF Offset
            <4>2. clock \in Nat /\ clock' \in Nat /\ clock <= clock' /\ clock' <= clock'
                BY <2>1
            <4>3. (clock + z) \div Day \in Nat /\ (clock + z) \div Day <= (clock' + z) \div Day
                BY <4>1, <4>2, DatesGrow
            <4>4. (clock' + z) \div Day \in Nat
                BY <4>1, <4>2, DatesGrow
            <4> QED BY <4>3, <4>4
        <3> QED BY <3>1 DEF LocalDate
    <2>3. tz \in Offset /\ seen.tz \in Offset
        BY <1>t DEF Typed, TypeOK
    <2>4. ASSUME NEW j \in Jobs
          PROVE  /\ \A d \in Dates : Backed(j, d) => Backed(j, d)'
                 /\ Kept(accounted[j], LocalDate(tz)) => Kept(accounted[j], LocalDate(tz))'
        <3>1. PICK today \in Nat, next \in Nat : today = LocalDate(tz) /\ next = LocalDate(tz)' /\ today <= next
            BY <2>1, <2>2, <2>3
        <3>2. \A i \in DOMAIN accounted[j] : accounted[j][i].date \in Nat
            <4>1. PICK acc \in Seq(Entry) : acc = accounted[j]
                BY <1>t DEF Typed, TypeOK
            <4> QED
                BY <4>1, EntriesDated
        <3>3. \A d \in Dates : Backs(accounted[j], d, today) => Backs(accounted[j], d, next)
            BY <3>1 DEF Backs
        <3>4. Kept(accounted[j], today) => Kept(accounted[j], next)
            BY <3>1, <3>2 DEF Kept
        <3> QED
            BY <2>1, <3>1, <3>3, <3>4 DEF Backed
    <2>5. ClaimIsNew'
        <3>1. Claimed => Job \in Jobs /\ seen.last[Job] \in Dates
            BY <1>j, <1>t DEF Typed, TypeOK
        <3>2. date <= LocalDate(seen.tz) /\ Claimed => date <= LocalDate(seen.tz)'
            BY <1>t, <2>1, <2>2, <2>3 DEF Typed
        <3> QED
            BY <2>1, <2>4, <3>1, <3>2 DEF ClaimIsNew
    <2>6. Ledger'
        BY <1>t, <2>1, <2>4 DEF Ledger, Typed, TypeOK
    <2> QED
        BY <2>1, <2>5, <2>6
<1>13. CASE Crash
    BY <1>t, <1>13, LedgerKept DEF Crash
<1>14. CASE UNCHANGED vars
    BY <1>t, <1>14, LedgerKept DEF vars
<1> QED
    BY <1>1, <1>2, <1>3, <1>4, <1>5, <1>6, <1>7, <1>8, <1>9, <1>10, <1>11, <1>12, <1>13, <1>14
       DEF Next, Cycle, Apply, Save

\* The inductive invariant: while no statement has failed, nothing run or waived
\* since the last reopening is beyond the date in its row, the claim at hand is
\* of a date beyond it, and accounts repeat only what was reopened.
THEOREM LedgerInvariance == Spec => []LedgerInv
BY LedgerInit, LedgerStep, PTL DEF Spec

\* Between two moves of the timezone a schedule runs a local date that it ran or
\* waived again only after an edit that, on that date, enabled it for a time
\* still to come: for all jobs, timezones and lengths of the day, whatever other
\* edits, refused starts and crashes come between, unless a statement fails.
THEOREM DatesRunOnce == Spec => []OncePerDate
<1>1. LedgerInv => OncePerDate
    BY DEF LedgerInv, Ledger, Kept, OncePerDate
<1> QED BY <1>1, LedgerInvariance, PTL

-----------------------------------------------------------------------------

\* The date d in row j was run or waived, or stands for no run for a reason.
Stands(j, d) ==
    \/ d = NoDate \/ d \in Settled(accounted[j])
    \/ <<j, d, "ended">> \in closed \/ <<j, d, "moved">> \in closed

\* The claim at hand is in its row; if the row was written or the timezone moved
\* since, that is on record, and if not, what is given back stands.
ClaimIsTraced ==
    Claimed /\ Job \notin Unavailable =>
        /\ last[Job] = date /\ enabled[Job]
        /\ Job \in touched \/ seen.tz # tz => <<Job, date, "moved">> \in closed
        /\ Job \notin touched => Stands(Job, seen.last[Job])

Traced == \A j \in Jobs \ Unavailable : Stands(j, last[j]) \/ (Claimed /\ Job = j)

\* A step that writes no row, moves no timezone and forgets neither an account
\* nor a reason, and leaves or drops a claim whose date stands.
LEMMA TraceKept ==
    ASSUME Typed, ClaimIsTraced, Traced, UNCHANGED <<enabled, tz, last, touched, seen>>,
           NEW h, Claimed => Job = h /\ h \in Jobs,
           \A j \in Jobs : \A d : Stands(j, d) => Stands(j, d)',
           <<h, date, "moved">> \in closed => <<h, date, "moved">> \in closed',
           \/ UNCHANGED <<pos, date>> /\ (Claimed <=> Claimed')
           \/ ~Claimed' /\ (Claimed /\ h \notin Unavailable => Stands(h, last[h])')
    PROVE  ClaimIsTraced' /\ Traced'
<1>1. CASE UNCHANGED <<pos, date>> /\ (Claimed <=> Claimed')
    BY <1>1 DEF ClaimIsTraced, Traced, Job
<1>2. CASE ~Claimed' /\ (Claimed /\ h \notin Unavailable => Stands(h, last[h])')
    BY <1>2 DEF ClaimIsTraced, Traced
<1> QED BY <1>1, <1>2

LEMMA StandsKept ==
    ASSUME accounted' = accounted, closed \subseteq closed', NEW j, NEW d, Stands(j, d)
    PROVE  Stands(j, d)'
BY DEF Stands

\* An entry that reopens nothing is settled, and so is all that was.
LEMMA SettledAppend ==
    ASSUME NEW acc \in Seq(Entry), NEW e \in Entry, e.how # "reopened"
    PROVE  Settled(acc) \cup {e.date} \subseteq Settled(Append(acc, e))
<1> DEFINE new == Append(acc, e)
<1> DEFINE n == Len(acc)
<1>1. /\ n \in Nat /\ DOMAIN acc = 1..n /\ DOMAIN new = 1..(n + 1) /\ Len(new) = n + 1
      /\ \A i \in 1..n : new[i] = acc[i]
      /\ new[n + 1] = e
    OBVIOUS
<1> HIDE DEF new, n
<1>2. n + 1 \in Live(new)
    <2>1. \A m \in (n + 1)..(n + 1) : m = n + 1
        BY <1>1
    <2> QED
        BY <1>1, <2>1 DEF Live
<1>3. ASSUME NEW i \in Live(acc) PROVE i \in Live(new) /\ new[i] = acc[i]
    <2>1. i \in 1..n /\ \A m \in i..n : acc[m].how # "reopened"
        BY <1>1, <1>3 DEF Live
    <2>2. ASSUME NEW m \in i..(n + 1) PROVE new[m].how # "reopened"
        <3>1. CASE m = n + 1
            BY <1>1, <3>1
        <3>2. CASE m # n + 1
            <4>1. m \in i..n /\ m \in 1..n
                BY <1>1, <2>1, <3>2
            <4> QED
                BY <1>1, <2>1, <4>1
        <3> QED BY <3>1, <3>2
    <2>3. i \in 1..(n + 1)
        BY <1>1, <2>1
    <2> QED
        BY <1>1, <2>1, <2>2, <2>3 DEF Live
<1>4. \A i \in Live(new) : new[i].date \in Settled(new)
    BY DEF Settled
<1>5. ASSUME NEW d \in Settled(acc) PROVE d \in Settled(new)
    <2>1. PICK i \in Live(acc) : d = acc[i].date
        BY <1>5 DEF Settled
    <2> QED
        BY <1>3, <1>4, <2>1
<1>6. e.date \in Settled(new)
    BY <1>1, <1>2, <1>4
<1> QED BY <1>5, <1>6 DEF new

\* Accounting for a claim forgets nothing, and records the claim unless the
\* timezone has moved since.
LEMMA AccountGrows ==
    ASSUME Typed, NEW j \in Jobs, Account(j), date \in Nat, closed \subseteq closed', date' = date
    PROVE  /\ \A k \in Jobs : \A d : Stands(k, d) => Stands(k, d)'
           /\ seen.tz = tz => Stands(j, date)'
<1>1. CASE seen.tz # tz
    BY <1>1, StandsKept DEF Account
<1>2. CASE seen.tz = tz
    <2>1. /\ accounted'[j] = Append(accounted[j], [date |-> date, how |-> "run"])
          /\ \A k \in Jobs : k # j => accounted'[k] = accounted[k]
        BY <1>2 DEF Account, Typed, TypeOK
    <2>2. PICK acc \in Seq(Entry) : acc = accounted[j]
        BY DEF Typed, TypeOK
    <2>3. PICK e \in Entry : e = [date |-> date, how |-> "run"]
        BY DEF Entry
    <2>4. Settled(acc) \cup {e.date} \subseteq Settled(Append(acc, e))
        BY <2>3, SettledAppend
    <2>5. Settled(accounted[j]) \cup {date} \subseteq Settled(accounted'[j])
        BY <2>1, <2>2, <2>3, <2>4
    <2> QED
        BY <2>1, <2>5 DEF Stands
<1> QED BY <1>1, <1>2

LEMMA TraceStep == Typed /\ ClaimIsTraced /\ Traced /\ [Next]_vars => ClaimIsTraced' /\ Traced'
<1> SUFFICES ASSUME Typed, ClaimIsTraced, Traced, [Next]_vars PROVE ClaimIsTraced' /\ Traced'
    OBVIOUS
<1>t. Typed'
    BY TypedStep
<1>j. Claimed \/ pos <= Len(JobOrder) => Job \in Jobs
    <2>1. Claimed \/ pos <= Len(JobOrder) => pos \in 1..Len(JobOrder)
        BY SchedulerAssumption DEF Typed, TypeOK
    <2> QED
        BY <2>1, JobsInOrder DEF Job
<1> USE DEF rows, thread, ghosts, bounds
<1>1. CASE CycleBegin
    <2>1. pc = "idle" /\ pc' = "scan" /\ UNCHANGED <<last, accounted, closed>>
        BY <1>1 DEF CycleBegin
    <2> QED
        BY <2>1 DEF ClaimIsTraced, Traced, Stands, Claimed
<1>2. CASE NotDue \/ ClaimLost \/ SkipUnavailable \/ CycleEnd \/ CycleAborts
    <2>1. /\ UNCHANGED <<enabled, tz, last, touched, seen, accounted, closed>>
          /\ ~Claimed' /\ (Claimed => Job \in Unavailable)
        BY <1>2 DEF NotDue, ClaimLost, SkipUnavailable, CycleEnd, CycleAborts, Claimed
    <2>2. \A j \in Jobs : \A d : Stands(j, d) => Stands(j, d)'
        BY <2>1, StandsKept
    <2>3. PICK h : h = Job
        OBVIOUS
    <2> QED
        BY <1>j, <2>1, <2>2, <2>3, TraceKept
<1>3. CASE ClaimOccurrence
    <2>1. PICK j \in Jobs : j = Job
        BY <1>j, <1>3 DEF ClaimOccurrence
    <2>2. /\ Unchanged(j) /\ pc = "scan" /\ pc' = "claimed" /\ Job' = j
          /\ last' = [last EXCEPT ![j] = date']
          /\ UNCHANGED <<enabled, tz, accounted, closed, seen, touched>>
        BY <1>3, <2>1 DEF ClaimOccurrence, Job
    <2>3. /\ last'[j] = date' /\ \A k \in Jobs : k # j => last'[k] = last[k]
          /\ enabled[j] /\ j \notin touched /\ seen.tz = tz /\ seen.last[j] = last[j]
        BY <2>2 DEF Typed, TypeOK, Unchanged
    <2>4. j \notin Unavailable => Stands(j, last[j])
        BY <2>2 DEF Traced, Claimed
    <2>5. ClaimIsTraced'
        BY <2>2, <2>3, <2>4 DEF ClaimIsTraced, Stands
    <2>6. Traced'
        BY <2>2, <2>3 DEF Traced, Stands, Claimed
    <2> QED BY <2>5, <2>6
<1>4. CASE StartRun
    <2>1. PICK j \in Jobs : j = Job
        BY <1>j, <1>4 DEF StartRun, Claimed
    <2>2. /\ j \notin Unavailable /\ Claimed /\ pc' = "scan" /\ Account(j)
          /\ UNCHANGED <<enabled, tz, last, touched, seen, closed, date>>
        BY <1>4, <2>1 DEF StartRun, Claimed
    <2>3. /\ \A k \in Jobs : \A d : Stands(k, d) => Stands(k, d)'
          /\ seen.tz = tz => Stands(j, date)'
        BY <2>2, AccountGrows DEF Typed
    <2>4. Stands(j, date)'
        BY <2>1, <2>2, <2>3 DEF ClaimIsTraced, Stands
    <2>5. \A k \in Jobs \ Unavailable : Stands(k, last[k])'
        BY <2>1, <2>2, <2>3, <2>4 DEF Traced, ClaimIsTraced
    <2> QED
        BY <2>2, <2>5 DEF Traced, ClaimIsTraced, Claimed
<1>5. CASE StartConflict
    <2>1. UNCHANGED <<enabled, tz, last, touched, seen, accounted, closed, pos, date>> /\ (Claimed <=> Claimed')
        BY <1>5 DEF StartConflict, Claimed
    <2>2. \A j \in Jobs : \A d : Stands(j, d) => Stands(j, d)'
        BY <2>1, StandsKept
    <2>3. PICK h : h = Job
        OBVIOUS
    <2> QED
        BY <1>j, <2>1, <2>2, <2>3, TraceKept
<1>6. CASE StartError
    <2>1. PICK j \in Jobs : j = Job
        BY <1>j, <1>6 DEF StartError, Claimed
    <2>2. /\ UNCHANGED <<enabled, tz, last, touched, seen, closed, pos, date>> /\ Claimed /\ Claimed'
          /\ accounted' = accounted \/ Account(j)
        BY <1>6, <2>1 DEF StartError, Claimed
    <2>3. \A k \in Jobs : \A d : Stands(k, d) => Stands(k, d)'
        BY <2>2, AccountGrows, StandsKept DEF Typed
    <2> QED
        BY <2>1, <2>2, <2>3, TraceKept
<1>7. CASE ReleaseOccurrence
    <2>1. PICK j \in Jobs : j = Job
        BY <1>j, <1>7 DEF ReleaseOccurrence, Claimed
    <2>2. Claimed /\ ~Claimed' /\ UNCHANGED <<enabled, tz, touched, seen, date, accounted, closed>>
        BY <1>7 DEF ReleaseOccurrence, AfterFailure, Claimed
    <2>3. /\ \A k \in Jobs : k # j => last'[k] = last[k]
          /\ last'[j] = IF enabled[j] /\ last[j] = date /\ j \notin touched THEN seen.last[j] ELSE last[j]
        BY <1>7, <2>1 DEF ReleaseOccurrence, Typed, TypeOK
    <2>4. j \notin Unavailable => Stands(j, last'[j])
        BY <2>1, <2>2, <2>3 DEF ClaimIsTraced, Stands
    <2> QED
        BY <2>1, <2>2, <2>3, <2>4 DEF ClaimIsTraced, Traced, Stands
<1>8. CASE ReleaseError \/ Crash
    <2>1. /\ UNCHANGED <<enabled, tz, last, touched, seen, date, accounted>> /\ ~Claimed'
          /\ closed \subseteq closed' /\ (Claimed => <<Job, date, "ended">> \in closed')
        BY <1>8 DEF ReleaseError, Crash, Claimed
    <2>2. \A j \in Jobs : \A d : Stands(j, d) => Stands(j, d)'
        BY <2>1, StandsKept
    <2>3. PICK h : h = Job
        OBVIOUS
    <2>4. Claimed /\ h \notin Unavailable => Stands(h, last[h])'
        BY <2>1, <2>3 DEF Stands, ClaimIsTraced
    <2> QED
        BY <1>j, <2>1, <2>2, <2>3, <2>4, TraceKept
<1>9. ASSUME NEW j \in Jobs, NEW on \in BOOLEAN, NEW time \in 0..(Day - 1), NEW z \in Zones,
             EditApply(j, on, time, z)
      PROVE  ClaimIsTraced' /\ Traced'
    <2>1. ~Claimed /\ ~Claimed'
        BY <1>9 DEF EditApply, LockFree, Claimed
    <2>2. ASSUME NEW k \in Jobs \ Unavailable, k # j \/ ~on PROVE Stands(k, last[k])'
        <3>1. last'[k] = last[k] /\ closed' = ClosedBy(z) /\ Stands(k, last[k])
            BY <1>9, <2>1, <2>2 DEF EditApply, Typed, TypeOK, Traced
        <3>2. CASE z = tz
            <4>1. accounted'[k] = accounted[k]
                BY <1>9, <2>2, <3>2 DEF EditApply, AccountsFrom, Typed, TypeOK
            <4> QED
                BY <3>1, <3>2, <4>1 DEF ClosedBy, Stands
        <3>3. CASE z # tz
            BY <3>1, <3>3 DEF ClosedBy, Stands
        <3> QED BY <3>2, <3>3
    <2>3. ASSUME on PROVE Stands(j, last[j])'
        <3>1. CASE ~(LocalTime(z) >= time)
            <4>1. last'[j] = NoDate
                BY <1>9, <2>3, <3>1 DEF EditApply, Waived, Typed, TypeOK
            <4> QED
                BY <4>1 DEF Stands
        <3>2. CASE LocalTime(z) >= time
            <4>1. PICK acc \in Seq(Entry) : acc = AccountsFrom(z)[j]
                BY AccountsTyped DEF Typed
            <4>2. PICK e \in Entry : e = [date |-> LocalDate(z), how |-> "waived"]
                <5>1. LocalDate(z) \in Nat
                    BY LocalDateIsNat DEF Typed, Offset
                <5> QED
                    BY <5>1 DEF Entry
            <4>3. accounted'[j] = Append(acc, e) /\ last'[j] = e.date
                BY <1>9, <2>3, <3>2, <4>1, <4>2, AccountsTyped DEF EditApply, Waived, Typed, TypeOK
            <4>4. e.date \in Settled(Append(acc, e))
                BY <4>2, SettledAppend
            <4> QED
                BY <4>3, <4>4 DEF Stands
        <3> QED BY <3>1, <3>2
    <2> QED
        BY <2>1, <2>2, <2>3 DEF ClaimIsTraced, Traced
<1>10. ASSUME NEW z \in MailZones, MailSave(z)
       PROVE  ClaimIsTraced' /\ Traced'
    <2>1. UNCHANGED <<enabled, last, pc, pos, seen, date, clock>> /\ tz' = z /\ (Claimed <=> Claimed')
        BY <1>10 DEF MailSave, Claimed
    <2>2. CASE z = tz
        <3>1. accounted' = accounted /\ touched' = touched /\ closed' = closed
            BY <1>10, <2>2 DEF MailSave, AccountsFrom, Retimed, ClosedBy
        <3>2. \A j \in Jobs : \A d : Stands(j, d) => Stands(j, d)'
            BY <3>1, StandsKept
        <3>3. PICK h : h = Job
            OBVIOUS
        <3> QED
            BY <1>j, <2>1, <2>2, <3>1, <3>2, <3>3, TraceKept
    <2>3. CASE z # tz
        <3>1. /\ touched' = touched \cup Jobs /\ ClosedBy(z) \subseteq closed'
              /\ Claimed => <<Job, date, "moved">> \in closed'
            BY <1>10, <2>3 DEF MailSave, Retimed, Claimed
        <3>2. \A k \in Jobs : Stands(k, last[k]) => Stands(k, last[k])'
            BY <2>1, <2>3, <3>1 DEF ClosedBy, Stands
        <3>3. Job' = Job
            BY <2>1 DEF Job
        <3> QED
            BY <1>j, <2>1, <3>1, <3>2, <3>3 DEF ClaimIsTraced, Traced
    <2> QED BY <2>2, <2>3
<1>11. CASE EditBegin \/ EditRejected \/ EditEnd \/ MailBegin \/ MailRejected \/ MailEnd
    <2>1. UNCHANGED <<enabled, tz, last, touched, seen, accounted, closed, pos, date, pc>>
        BY <1>11 DEF EditBegin, EditRejected, EditEnd, MailBegin, MailRejected, MailEnd
    <2>2. (\A j \in Jobs : \A d : Stands(j, d) => Stands(j, d)') /\ (Claimed <=> Claimed')
        BY <2>1, StandsKept DEF Claimed
    <2>3. PICK h : h = Job
        OBVIOUS
    <2> QED
        BY <1>j, <2>1, <2>2, <2>3, TraceKept
<1>12. CASE OtherBegin \/ RunEnds \/ Tick \/ UNCHANGED vars
    <2>1. UNCHANGED <<enabled, tz, last, touched, seen, accounted, closed, pos, date, pc>>
        BY <1>12 DEF OtherBegin, RunEnds, Tick, vars
    <2>2. (\A j \in Jobs : \A d : Stands(j, d) => Stands(j, d)') /\ (Claimed <=> Claimed')
        BY <2>1, StandsKept DEF Claimed
    <2>3. PICK h : h = Job
        OBVIOUS
    <2> QED
        BY <1>j, <2>1, <2>2, <2>3, TraceKept
<1> QED
    BY <1>1, <1>2, <1>3, <1>4, <1>5, <1>6, <1>7, <1>8, <1>9, <1>10, <1>11, <1>12 DEF Next, Cycle, Apply, Save

\* A date in a row was run or waived, or its claim is at hand, or a crash, a
\* failing release or a move of the timezone cut the claim short: for all jobs,
\* timezones and numbers of failures.
THEOREM SpentDatesHaveRuns == Spec => []ClaimHasRun
<1>1. Init => Typed /\ ClaimIsTraced /\ Traced
    BY TypedInit DEF Init, ClaimIsTraced, Traced, Stands, Claimed
<1>2. Typed /\ ClaimIsTraced /\ Traced /\ [Next]_vars => (Typed /\ ClaimIsTraced /\ Traced)'
    BY TypedStep, TraceStep
<1>3. Traced => ClaimHasRun
    BY DEF Traced, ClaimHasRun, Stands, Claimed, Explained, AtHand
<1> QED BY <1>1, <1>2, <1>3, PTL DEF Spec
=============================================================================
