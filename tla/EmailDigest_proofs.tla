-------------------------- MODULE EmailDigest_proofs --------------------------
(***************************************************************************)
(* Proofs about EmailDigest, for all jobs, zones, lengths of the day and   *)
(* bounds.                                                                 *)
(***************************************************************************)
EXTENDS EmailDigest, TLAPS

\* The types, that a schedule that is on has a zone, and that what is to be
\* claimed is a date.
Typed == TypeOK /\ (enabled => tz \in Zones) /\ (poller = "claiming" => date \in Nat)

LEMMA BoundsAreNat ==
    /\ MaxClock \in Nat /\ MaxOps \in Nat /\ MaxFaults \in Nat /\ MaxCrashes \in Nat
    /\ Day \in Nat \ {0}
BY DigestAssumption

\* Dates grow with the clock.
LEMMA DatesGrow ==
    ASSUME NEW z \in Nat, NEW a \in Nat, NEW b \in Nat, a <= b
    PROVE  (a + z) \div Day \in Nat /\ (a + z) \div Day <= (b + z) \div Day
BY DigestAssumption

LEMMA LocalDateIsNat ==
    ASSUME TypeOK, NEW z \in Zones
    PROVE  LocalDate(z) \in Nat
<1>1. clock \in Nat /\ z \in Nat
    BY BoundsAreNat, DigestAssumption DEF TypeOK
<1> QED
    BY <1>1, DatesGrow DEF LocalDate

LEMMA TypedInit == Init => Typed
<1> SUFFICES ASSUME Init PROVE Typed
    OBVIOUS
<1>1. 0 \in 0..(Day - 1) /\ 0 \in 0..MaxClock /\ 0 \in 0..MaxOps /\ 0 \in 0..MaxFaults
      /\ 0 \in 0..MaxCrashes
    BY BoundsAreNat
<1>2. claims \in Seq(Nat)
    BY DEF Init
<1> QED
    BY <1>1, <1>2 DEF Init, Typed, TypeOK

LEMMA TypedStep == Typed /\ [Next]_vars => Typed'
<1> SUFFICES ASSUME Typed, [Next]_vars PROVE Typed'
    OBVIOUS
<1> USE BoundsAreNat DEF Typed, TypeOK, state, settings, thread, history, Fault, Takes, NothingSent,
        DigestEnds
<1>d. enabled => LocalDate(tz) \in Nat
    BY LocalDateIsNat
<1>1. CASE NothingDue \/ Poll \/ PollAcquires \/ PollConflicts
    BY <1>1 DEF NothingDue, vars, Poll, PollAcquires, PollConflicts
<1>2. CASE ReadAgain
    BY <1>2, <1>d DEF ReadAgain, Due
<1>3. CASE Claim
    BY <1>3 DEF Claim, Claimed
<1>4. CASE ClaimFails
    BY <1>4 DEF ClaimFails
<1>5. CASE DigestRefused \/ DigestReadsJobs
    BY <1>5 DEF DigestRefused, DigestReadsJobs
<1>6. CASE StoreBaseline
    BY <1>6 DEF StoreBaseline
<1>7. CASE NoChanges \/ RecordSending
    BY <1>7 DEF NoChanges, RecordSending
<1>8. CASE Deliver \/ DeliveryFails
    BY <1>8 DEF Deliver, Delivered, DeliveryFails
<1>9. CASE DeliveryInDoubt
    BY <1>9 DEF DeliveryInDoubt, Delivered
<1>10. CASE AdvanceCheckpoint
    BY <1>10 DEF AdvanceCheckpoint
<1>11. CASE DigestFails
    <2>1. inDoubt' \in BOOLEAN /\ faults' \in 0..MaxFaults
        BY <1>11 DEF DigestFails
    <2> QED
        BY <1>11, <2>1 DEF DigestFails
<1>12. CASE UserSends \/ EditBegins \/ EditRejected
    BY <1>12 DEF UserSends, EditBegins, EditRejected
<1>13. ASSUME NEW z \in Zones, SaveSchedule(z) PROVE Typed'
    BY <1>13 DEF SaveSchedule
<1>14. ASSUME NEW z \in Zones, NEW on \in BOOLEAN, NEW time \in 0..(Day - 1), SaveSettings(on, time, z)
       PROVE  Typed'
    <2>1. LocalDate(z) \in Nat
        BY LocalDateIsNat
    <2> QED
        BY <1>14, <2>1 DEF SaveSettings, Waived
<1>15. CASE RefreshBegins
    BY <1>15 DEF RefreshBegins
<1>16. CASE RefreshEnds
    BY <1>16 DEF RefreshEnds
<1>17. ASSUME NEW j \in Jobs, RefreshWrites(j) PROVE Typed'
    BY <1>17 DEF RefreshWrites
<1>18. CASE Tick
    BY <1>18 DEF Tick
<1>19. CASE Crash
    <2>1. inDoubt' \in BOOLEAN /\ crashes' \in 0..MaxCrashes
        BY <1>19 DEF Crash
    <2> QED
        BY <1>19, <2>1 DEF Crash
<1>20. CASE UNCHANGED vars
    BY <1>20 DEF vars
<1> QED
    BY <1>1, <1>2, <1>3, <1>4, <1>5, <1>6, <1>7, <1>8, <1>9, <1>10, <1>11, <1>12, <1>13, <1>14, <1>15,
       <1>16, <1>17, <1>18, <1>19, <1>20 DEF Next, Scheduler, Digest, Edit

\* Every variable keeps its type.
THEOREM DigestTypes == Spec => []TypeOK
<1>1. Typed => TypeOK
    BY DEF Typed
<1> QED BY TypedInit, TypedStep, <1>1, PTL DEF Spec

-----------------------------------------------------------------------------

\* A digest is made under the gate, and of a scheduler that is past its claim.
\* What a reader knows is the snapshot, or, once the mail is out, what it is
\* about to be replaced with.
Known ==
    /\ gate = "scheduler" <=> poller \in {"gated", "claiming", "sending"}
    /\ digest # "off" => gate = "user" \/ poller = "sending"
    /\ digest \in {"sending", "delivered"} => established
    /\ established /\ ~inDoubt => told = IF digest = "delivered" THEN current ELSE snapshot

LEMMA KnownInit == Init => Known
BY DEF Init, Known

LEMMA KnownStep == Typed /\ Known /\ [Next]_vars => Known'
<1> SUFFICES ASSUME Typed, Known, [Next]_vars PROVE Known'
    OBVIOUS
<1> USE DEF Known, state, history, thread, settings, NothingSent
<1>1. CASE NothingDue \/ Poll \/ PollAcquires \/ PollConflicts
    BY <1>1 DEF NothingDue, vars, Poll, PollAcquires, PollConflicts, GateFree
<1>9. CASE ReadAgain \/ ClaimFails
    BY <1>9 DEF ReadAgain, ClaimFails
<1>10. CASE Claim
    BY <1>10 DEF Claim
<1>2. CASE DigestRefused \/ DigestReadsJobs \/ NoChanges \/ RecordSending \/ DeliveryFails
    BY <1>2 DEF DigestRefused, DigestReadsJobs, NoChanges, RecordSending, DeliveryFails, DigestEnds
<1>3. CASE StoreBaseline \/ AdvanceCheckpoint
    BY <1>3 DEF StoreBaseline, AdvanceCheckpoint, DigestEnds
<1>4. CASE Deliver
    BY <1>4 DEF Deliver, Delivered, Typed, TypeOK
<1>5. CASE DeliveryInDoubt \/ DigestFails
    BY <1>5 DEF DeliveryInDoubt, DigestFails, DigestEnds, Typed, TypeOK
<1>6. CASE UserSends \/ EditBegins \/ Edit
    BY <1>6 DEF UserSends, EditBegins, Takes, Edit, EditRejected, SaveSchedule, SaveSettings
<1>7. CASE RefreshBegins \/ RefreshEnds \/ \E j \in Jobs : RefreshWrites(j)
    BY <1>7 DEF RefreshBegins, RefreshEnds, RefreshWrites, Takes
<1>8. CASE Tick \/ Crash \/ UNCHANGED vars
    BY <1>8 DEF Tick, Crash, vars, Typed, TypeOK
<1> QED
    BY <1>1, <1>2, <1>3, <1>4, <1>5, <1>6, <1>7, <1>8, <1>9, <1>10 DEF Next, Scheduler, Digest

\* The snapshot is what the readers were told, for all jobs, unless a crash or
\* an error hid a delivery.
THEOREM ReadersKnowTheSnapshot == Spec => []SnapshotIsTold
<1>1. Typed /\ Known /\ [Next]_vars => (Typed /\ Known)'
    BY TypedStep, KnownStep
<1>2. Known => SnapshotIsTold
    BY DEF Known, SnapshotIsTold
<1> QED BY TypedInit, KnownInit, <1>1, <1>2, PTL DEF Spec

-----------------------------------------------------------------------------

OneZone == \A y, z \in Zones : y = z

\* The dates claimed increase, and none is beyond the one in the settings, which
\* is past; what is about to be claimed is not before it.
Ordered ==
    /\ \A i, k \in 1..Len(claims) : i < k => claims[i] < claims[k]
    /\ claims # <<>> =>
           /\ tz \in Zones /\ lastDate \in Nat /\ lastDate <= LocalDate(tz)
           /\ \A i \in 1..Len(claims) : claims[i] <= lastDate
    /\ poller = "claiming" /\ ~edited =>
           /\ tz \in Zones /\ date <= LocalDate(tz)
           /\ claims # <<>> => lastDate <= date

LEMMA OrderedInit == Init => Ordered
BY DEF Init, Ordered

\* A step that leaves settings, claims and clock alone, and reads nothing again.
LEMMA OrderKept ==
    ASSUME Ordered, UNCHANGED <<tz, lastDate, claims, clock, date>>,
           poller' = "claiming" /\ ~edited' => poller = "claiming" /\ ~edited
    PROVE  Ordered'
BY DEF Ordered, LocalDate

LEMMA OrderedStep == OneZone /\ Typed /\ Ordered /\ [Next]_vars => Ordered'
<1> SUFFICES ASSUME OneZone, Typed, Ordered, [Next]_vars PROVE Ordered'
    OBVIOUS
<1> USE DEF state, settings, history, thread, NothingSent
<1>1. CASE NothingDue \/ Poll \/ PollAcquires \/ PollConflicts \/ ClaimFails
    BY <1>1, OrderKept DEF NothingDue, vars, Poll, PollAcquires, PollConflicts, ClaimFails
<1>2. CASE ReadAgain
    <2>1. CASE ~Due
        <3>1. UNCHANGED <<tz, lastDate, claims, clock, date>> /\ poller' = "idle"
            BY <1>2, <2>1 DEF ReadAgain
        <3> QED BY <3>1, OrderKept
    <2>2. CASE Due
        <3>1. /\ tz \in Zones /\ date' = LocalDate(tz) /\ UNCHANGED <<tz, lastDate, claims, clock>>
            BY <1>2, <2>2 DEF ReadAgain, Due, Typed
        <3>2. LocalDate(tz) \in Nat
            BY <3>1, LocalDateIsNat DEF Typed
        <3> QED
            BY <3>1, <3>2 DEF Ordered, LocalDate
    <2> QED BY <2>1, <2>2
<1>3. CASE Claim
    <2>1. CASE ~(enabled /\ lastDate # date /\ ~edited)
        <3>1. UNCHANGED <<tz, lastDate, claims, clock, date>> /\ poller' = "idle"
            BY <1>3, <2>1 DEF Claim
        <3> QED BY <3>1, OrderKept
    <2>2. CASE enabled /\ lastDate # date /\ ~edited
        <3>1. /\ lastDate' = date /\ claims' = Append(claims, date) /\ poller' = "sending"
              /\ UNCHANGED <<tz, clock>> /\ poller = "claiming"
            BY <1>3, <2>2 DEF Claim, Claimed
        <3>2. claims \in Seq(Nat) /\ date \in Nat /\ tz \in Zones /\ date <= LocalDate(tz)
            BY <2>2, <3>1 DEF Typed, TypeOK, Ordered
        <3>3. \A i \in 1..Len(claims) : claims[i] < date
            <4>1. CASE claims = <<>>
                BY <4>1
            <4>2. CASE claims # <<>>
                BY <2>2, <3>1, <3>2, <4>2 DEF Ordered
            <4> QED BY <4>1, <4>2
        <3>4. \A i, k \in 1..Len(claims') : i < k => claims'[i] < claims'[k]
            <4>1. \A i, k \in 1..Len(claims) : i < k => claims[i] < claims[k]
                BY DEF Ordered
            <4>2. /\ Len(claims') = Len(claims) + 1 /\ claims'[Len(claims) + 1] = date
                  /\ \A i \in 1..Len(claims) : claims'[i] = claims[i]
                BY <3>1, <3>2
            <4> QED
                BY <3>2, <3>3, <4>1, <4>2
        <3>5. \A i \in 1..Len(claims') : claims'[i] <= date
            BY <3>1, <3>2, <3>3
        <3>6. LocalDate(tz)' = LocalDate(tz)
            BY <3>1 DEF LocalDate
        <3> QED
            BY <3>1, <3>2, <3>4, <3>5, <3>6 DEF Ordered
    <2> QED BY <2>1, <2>2
<1>4. CASE Digest
    <2>1. UNCHANGED <<settings, date, clock, claims, edited>>
        BY <1>4 DEF Digest, DigestRefused, DigestReadsJobs, StoreBaseline, NoChanges, RecordSending, Deliver,
           DeliveryFails, DeliveryInDoubt, AdvanceCheckpoint, DigestFails
    <2>2. poller' = "claiming" => poller = "claiming"
        BY <1>4 DEF Digest, DigestRefused, DigestReadsJobs, StoreBaseline, NoChanges, RecordSending, Deliver,
           DeliveryFails, DeliveryInDoubt, AdvanceCheckpoint, DigestFails, DigestEnds
    <2> QED BY <2>1, <2>2, OrderKept
<1>5. CASE UserSends \/ EditBegins \/ EditRejected
    BY <1>5, OrderKept DEF UserSends, EditBegins, EditRejected
<1>6. ASSUME NEW z \in Zones, SaveSchedule(z) PROVE Ordered'
    BY <1>6, OrderKept DEF SaveSchedule
<1>7. ASSUME NEW z \in Zones, NEW on \in BOOLEAN, NEW time \in 0..(Day - 1), SaveSettings(on, time, z)
      PROVE  Ordered'
    <2>1. LocalDate(z) \in Nat
        BY LocalDateIsNat DEF Typed
    <2>2. /\ lastDate' \in {lastDate, LocalDate(z)} /\ tz' = z /\ edited' = TRUE
          /\ UNCHANGED <<claims, clock>>
        BY <1>7 DEF SaveSettings, Waived
    <2>3. claims # <<>> => tz = z /\ lastDate <= LocalDate(z)
        BY DEF OneZone, Ordered
    <2>4. claims # <<>> => \A i \in 1..Len(claims) : claims[i] \in Nat /\ claims[i] <= LocalDate(z)
        BY <2>1, <2>3 DEF Ordered, Typed, TypeOK
    <2>5. LocalDate(tz)' = LocalDate(z)
        BY <2>2 DEF LocalDate
    <2> QED
        BY <2>1, <2>2, <2>3, <2>4, <2>5 DEF Ordered
<1>8. CASE RefreshBegins \/ RefreshEnds \/ \E j \in Jobs : RefreshWrites(j)
    BY <1>8, OrderKept DEF RefreshBegins, RefreshEnds, RefreshWrites
<1>9. CASE Tick
    <2>1. /\ UNCHANGED <<tz, lastDate, claims, date, poller, edited>>
          /\ clock \in Nat /\ clock' \in Nat /\ clock <= clock'
        BY <1>9, BoundsAreNat DEF Tick, Typed, TypeOK
    <2>2. ASSUME tz \in Zones
          PROVE  LocalDate(tz) \in Nat /\ LocalDate(tz)' \in Nat /\ LocalDate(tz) <= LocalDate(tz)'
        <3>1. tz \in Nat /\ clock' <= clock'
            BY <2>1, <2>2, DigestAssumption
        <3>2. (clock + tz) \div Day \in Nat /\ (clock + tz) \div Day <= (clock' + tz) \div Day
            BY <2>1, <3>1, DatesGrow
        <3>3. (clock' + tz) \div Day \in Nat
            BY <2>1, <3>1, DatesGrow
        <3> QED BY <2>1, <3>2, <3>3 DEF LocalDate
    <2> QED
        BY <2>1, <2>2 DEF Ordered, Typed
<1>10. CASE Crash
    BY <1>10, OrderKept DEF Crash
<1>11. CASE UNCHANGED vars
    BY <1>11, OrderKept DEF vars
<1> QED
    BY <1>1, <1>2, <1>3, <1>4, <1>5, <1>6, <1>7, <1>8, <1>9, <1>10, <1>11 DEF Next, Scheduler, Edit

\* In one timezone no date is claimed, and so mailed by the scheduler, twice,
\* for every length of the day and whatever edits, failures and crashes.
THEOREM DatesAreClaimedOnce ==
    ASSUME OneZone
    PROVE  Spec => []ClaimedOncePerDate
<1>1. Typed /\ Ordered /\ [Next]_vars => (Typed /\ Ordered)'
    BY TypedStep, OrderedStep
<1>2. Typed /\ Ordered => ClaimedOncePerDate
    <2>1. Typed => claims \in Seq(Nat)
        BY DEF Typed, TypeOK
    <2> QED
        BY <2>1 DEF Ordered, ClaimedOncePerDate, IsInjective
<1> QED BY TypedInit, OrderedInit, <1>1, <1>2, PTL DEF Spec
=============================================================================
