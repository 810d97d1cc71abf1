------------------------ MODULE DatabaseFiles_proofs ------------------------
(***************************************************************************)
(* Proofs about DatabaseFiles: what the backup, the restore and the        *)
(* retention promise, for every number of generations, artifacts, faults,  *)
(* crashes and damages.                                                    *)
(***************************************************************************)
EXTENDS DatabaseFiles, FiniteSetTheorems, TLAPS

\* The log was written for this main file, or the file holds no pages to replay it on.
Fits(m, w) == w # None => m \in {None, Damaged, w.base, w.last}

\* The files of a fileset preserved in an artifact.
Fileset(a) == [main |-> a.main, wal |-> a.wal]

Preserved(e) == \E a \in artifacts : a.kind = "diagnostic" /\ Fileset(a) = e

\* Who may run when: the offline commands need the application down, and the report
\* of the last one lasts until the next thing that reads or replaces the files.
Control ==
    /\ pc \in Offline => app = "down" /\ outcome = "none"
    /\ app = "up" => outcome = "none"
    /\ quarantine # None => pc \in {"detached", "switched", "rollback", "rolling"}
    /\ pc \in {"detached", "switched", "rollback", "rolling"} => wal = None
    /\ pc \in {"staged", "preserved", "saving", "saved"} => ~blind

\* What a restore has found, moved and staged so far.
Progress ==
    /\ pc \in Restoring => prior = Reading(exact.main, exact.wal)
    /\ pc \in {"staged", "preserved", "saving", "saved"}
           => exact = [main |-> main, wal |-> wal]
    /\ pc \in {"staged", "preserved", "saving", "saved", "cleared", "detached"}
           => stage = source
    /\ pc = "staged" => raw = None
    /\ pc \in Restoring \ {"staged"}
           => IF raw = None THEN exact = NoFiles
              ELSE raw \in artifacts /\ raw.kind = "diagnostic" /\ Fileset(raw) = exact
    /\ pc \in {"switched", "rollback"} => main \in {source, Damaged}
    /\ pc = "rolling" => main = exact.main

\* While no migration was activated over a log, nothing on the disk is torn ...
Untorn ==
    /\ Torn \notin {main, stage, source, prior, exact.main}
    /\ Fits(main, wal) /\ Fits(exact.main, exact.wal)
    /\ \A a \in artifacts : a.main # Torn /\ Fits(a.main, a.wal)

\* ... and a main file that loses its log reads as it did with it, unless the
\* inspection raised: then the files are still those the restore found.
Detachable ==
    /\ pc = "cleared" => IF blind THEN exact = [main |-> main, wal |-> wal]
                         ELSE main = prior /\ (wal # None => main \in {None, Damaged})
    /\ pc = "detached" => IF blind THEN exact = [main |-> main, wal |-> quarantine]
                          ELSE main = prior /\ (quarantine # None => main \in {None, Damaged})
    /\ outcome = "crashed" => Current \in {prior, source, Damaged} \/ (blind /\ Current = exact.main)

\* Retention has chosen only sound regular backups, each below Keep that it spares.
Spared(a) == {b \in KnownGood(artifacts) \ doomed : b.at > a.at}

Retention ==
    /\ IsFiniteSet(artifacts)
    /\ doomed # {} => pc = "pruning"
    /\ doomed \subseteq KnownGood(artifacts)
    /\ \A a \in doomed : Cardinality(Spared(a)) >= Keep

\* A backup under way still has an artifact to publish.
Typed == TypeOK /\ (pc = "copied" => made < MaxArtifacts)

FilesInv ==
    /\ Typed
    /\ Control /\ Progress /\ Retention
    /\ ~overLog => Untorn /\ Detachable
    /\ PriorIsKept /\ ReportIsTrue

-----------------------------------------------------------------------------
(* The special values and what is read from a fileset.                     *)

LEMMA ValuesDiffer ==
    /\ None \notin Gens /\ Damaged \notin Gens /\ Foreign \notin Gens /\ Torn \notin Gens
    /\ None # Damaged /\ None # Foreign /\ None # Torn
    /\ Damaged # Foreign /\ Damaged # Torn /\ Foreign # Torn
<1>1. \A a, b, c : Cardinality({a, b, c}) # 4
  <2> TAKE a, b, c
  <2>1. IsFiniteSet({a}) /\ Cardinality({a}) = 1
      BY FS_Singleton
  <2>2. IsFiniteSet({a} \cup {b}) /\ Cardinality({a} \cup {b}) \in {1, 2}
      BY <2>1, FS_AddElement
  <2>3. Cardinality(({a} \cup {b}) \cup {c}) \in {1, 2, 3}
      BY <2>2, FS_AddElement
  <2>4. {a, b, c} = ({a} \cup {b}) \cup {c}
      OBVIOUS
  <2> QED BY <2>3, <2>4
<1>2. \A a, b, c : {None, Damaged, Foreign, Torn} # {a, b, c}
    BY <1>1, ValuesAssumption
<1>3. None # Damaged
    BY <1>2
<1>4. None # Foreign
    BY <1>2
<1>5. None # Torn
    BY <1>2
<1>6. Damaged # Foreign
    BY <1>2
<1>7. Damaged # Torn
    BY <1>2
<1>8. Foreign # Torn
    BY <1>2
<1> QED
    BY <1>3, <1>4, <1>5, <1>6, <1>7, <1>8, ValuesAssumption DEF Gens

\* What is read from a fileset is its main file, the last commit of a log that
\* fits, or torn.
LEMMA ReadingIs ==
    ASSUME NEW m \in Values, NEW w \in Log \cup {None}
    PROVE  /\ Reading(m, w) \in Values
           /\ w = None \/ m \in {None, Damaged} => Reading(m, w) = m
           /\ w # None /\ m \notin {None, Damaged} /\ m \in {w.base, w.last}
                  => Reading(m, w) = w.last /\ w.last \in Gens
           /\ w # None /\ m \notin {None, Damaged, w.base, w.last} => Reading(m, w) = Torn
<1>1. w # None => w.last \in Gens
    BY DEF Log
<1> QED BY <1>1 DEF Reading, Values

\* A fileset is torn only if its main file is, or its log is not its own.
LEMMA FitsReads ==
    ASSUME NEW m \in Values, NEW w \in Log \cup {None}, m # Torn, Fits(m, w)
    PROVE  Reading(m, w) # Torn
<1>1. w # None => w.last \in Gens
    BY DEF Log
<1> QED BY <1>1, ValuesDiffer DEF Reading, Fits

-----------------------------------------------------------------------------
(* Types.                                                                  *)

LEMMA NewArtifactType ==
    ASSUME TypeOK, made < MaxArtifacts, NEW m \in Values, NEW w \in Log \cup {None},
           NEW kind \in {"backup", "pre_restore", "diagnostic"}
    PROVE  NewArtifact(kind, m, w) \in Artifact /\ made + 1 \in 0..MaxArtifacts
BY BoundsAssumption DEF NewArtifact, Artifact, TypeOK

\* A damaged or half removed artifact is one.
LEMMA RottenArtifactType ==
    ASSUME NEW a \in Artifact, NEW g \in BOOLEAN
    PROVE  /\ [a EXCEPT !.good = g] = [at |-> a.at, kind |-> a.kind, main |-> a.main,
                                       wal |-> a.wal, good |-> g]
           /\ [a EXCEPT !.good = g] \in Artifact
BY DEF Artifact

\* ... and holds what it held.
LEMMA RottenContents ==
    ASSUME NEW S \in SUBSET Artifact, NEW a \in S, NEW g \in BOOLEAN
    PROVE  \A b \in (S \ {a}) \cup {[a EXCEPT !.good = g]} :
              \E c \in S : b.main = c.main /\ b.wal = c.wal
<1> DEFINE bad == [a EXCEPT !.good = g]
<1>1. bad = [at |-> a.at, kind |-> a.kind, main |-> a.main, wal |-> a.wal, good |-> g]
    BY RottenArtifactType
<1> SUFFICES \A b \in (S \ {a}) \cup {bad} : \E c \in S : b.main = c.main /\ b.wal = c.wal
    OBVIOUS
<1> HIDE DEF bad
<1>2. bad.main = a.main /\ bad.wal = a.wal
    BY <1>1
<1> QED BY <1>2

\* A set of artifacts has a newest one.
LEMMA NewestExists ==
    ASSUME NEW S \in SUBSET Artifact, S # {}
    PROVE  Newest(S) \in S /\ \A b \in S : b.at <= Newest(S).at
<1> DEFINE Ages == {MaxArtifacts - a.at : a \in S}
<1>1. \A a \in S : a.at \in 1..MaxArtifacts
    BY DEF Artifact
<1>2. Ages \subseteq Nat /\ Ages # {}
    BY <1>1, BoundsAssumption
<1>3. PICK x \in Ages : \A y \in Ages : ~(<<y, x>> \in OpToRel(<, Nat))
  <2> HIDE DEF Ages
  <2> QED BY <1>2, WFMin, NatLessThanWellFounded
<1>4. \A y \in Ages : ~(y < x)
    BY <1>2, <1>3 DEF OpToRel
<1>5. PICK a \in S : x = MaxArtifacts - a.at
    OBVIOUS
<1>6. \A b \in S : b.at <= a.at
  <2> TAKE b \in S
  <2>1. ~(MaxArtifacts - b.at < MaxArtifacts - a.at)
      BY <1>4, <1>5
  <2> QED BY <2>1, <1>1, BoundsAssumption
<1> QED BY <1>6 DEF Newest

\* Every variable keeps its type.
LEMMA FilesTypes == Typed /\ [Next]_vars => Typed'
<1> SUFFICES ASSUME Typed, [Next]_vars PROVE Typed'
    OBVIOUS
<1> USE BoundsAssumption DEF Fault, Offline, Restoring, Migrating, files, command, counters,
        history
<1>c. Current \in Values /\ None \in Values /\ Damaged \in Values
    BY ReadingIs DEF Typed, TypeOK, Current, Values
<1>e. NoFiles \in [main : Values, wal : Log \cup {None}]
    BY <1>c DEF NoFiles
<1>1. CASE AppStart             BY <1>1 DEF Typed, TypeOK, AppStart
<1>2. CASE Commit
  <2>1. gen + 1 \in Gens /\ [base |-> main, last |-> gen + 1] \in Log
      BY <1>2 DEF Typed, TypeOK, Commit, Gens, Log
  <2> QED BY <1>2, <1>c, <1>e, <2>1 DEF Typed, TypeOK, Commit
<1>3. CASE Checkpoint           BY <1>3, <1>c DEF Typed, TypeOK, Checkpoint
<1>4. CASE AppStop              BY <1>4, <1>c DEF Typed, TypeOK, AppStop
<1>5. CASE AppCrash             BY <1>5 DEF Typed, TypeOK, AppCrash
<1>6. CASE Lose
  <2>1. main' \in Values /\ wal' \in Log \cup {None} /\ damage' \in 0..MaxDamage
      BY <1>6 DEF Typed, TypeOK, Lose, Values
  <2> QED BY <1>6, <1>c, <1>e, <2>1 DEF Typed, TypeOK, Lose
<1>7. CASE Rot
  <2>1. PICK a \in KnownGood(artifacts) :
            artifacts' = (artifacts \ {a}) \cup {[a EXCEPT !.good = FALSE]}
      BY <1>7 DEF Rot
  <2>2. artifacts' \subseteq Artifact
      BY <2>1, RottenArtifactType DEF Typed, TypeOK, KnownGood
  <2> QED BY <1>7, <2>2 DEF Typed, TypeOK, Rot
<1>8. CASE BackupCopy           BY <1>8, <1>c DEF Typed, TypeOK, BackupCopy
<1>9. CASE BackupPublish
  <2>1. NewArtifact("backup", stage, None) \in Artifact /\ made + 1 \in 0..MaxArtifacts
      BY <1>9, <1>c, NewArtifactType DEF Typed, TypeOK, BackupPublish
  <2>2. artifacts' \subseteq Artifact /\ doomed' \subseteq Artifact
      BY <1>9, <2>1 DEF Typed, TypeOK, BackupPublish, Surplus, KnownGood
  <2> QED BY <1>9, <1>c, <2>1, <2>2 DEF Typed, TypeOK, BackupPublish
<1>10. CASE BackupFails
  <2>1. NewArtifact("backup", stage, None) \in Artifact /\ made + 1 \in 0..MaxArtifacts
      BY <1>10, <1>c, NewArtifactType DEF Typed, TypeOK, BackupFails
  <2>2. artifacts' \subseteq Artifact /\ made' \in 0..MaxArtifacts
      BY <1>10, <2>1 DEF Typed, TypeOK, BackupFails
  <2> QED BY <1>10, <1>c, <2>2 DEF Typed, TypeOK, BackupFails
<1>11. CASE PruneOne            BY <1>11 DEF Typed, TypeOK, PruneOne
<1>12. CASE PruneFails
  <2>1. PICK g \in BOOLEAN :
            artifacts' = (artifacts \ {Newest(doomed)}) \cup {[Newest(doomed) EXCEPT !.good = g]}
      BY <1>12 DEF PruneFails
  <2>2. Newest(doomed) \in doomed
      BY <1>12, NewestExists DEF Typed, TypeOK, PruneFails
  <2>3. artifacts' \subseteq Artifact /\ doomed' \subseteq Artifact
      BY <1>12, <2>1, <2>2, RottenArtifactType DEF Typed, TypeOK, PruneFails
  <2> QED BY <1>12, <2>3 DEF Typed, TypeOK, PruneFails
<1>13. CASE PruneDone           BY <1>13 DEF Typed, TypeOK, PruneDone
<1>14. CASE RestoreBegin
  <2>1. stage' \in Values /\ source' \in Values
      BY <1>14 DEF Typed, TypeOK, RestoreBegin, Artifact
  <2> QED BY <1>14, <1>c, <2>1 DEF Typed, TypeOK, RestoreBegin
<1>15. CASE PreserveRaw
  <2>1. CASE main = None /\ wal = None
      BY <1>15, <2>1 DEF Typed, TypeOK, PreserveRaw
  <2>2. CASE ~(main = None /\ wal = None)
    <3>1. NewArtifact("diagnostic", main, wal) \in Artifact /\ made + 1 \in 0..MaxArtifacts
        BY <1>15, <2>2, NewArtifactType DEF Typed, TypeOK, PreserveRaw
    <3> QED BY <1>15, <2>2, <3>1 DEF Typed, TypeOK, PreserveRaw
  <2> QED BY <2>1, <2>2
<1>16. CASE InspectCurrent
  <2>1. pc' \in {"saving", "cleared"} /\ blind' \in BOOLEAN /\ faults' \in 0..MaxFaults
    <3>1. blind \in BOOLEAN /\ faults \in 0..MaxFaults /\ MaxFaults \in Nat
        BY DEF Typed, TypeOK
    <3>2. pc' \in {"saving", "cleared"} /\ (blind' = blind \/ blind' = TRUE)
        BY ONLY <1>16 DEF InspectCurrent
    <3>3. faults' = faults \/ (faults' = faults + 1 /\ faults < MaxFaults)
        BY ONLY <1>16 DEF InspectCurrent, Fault
    <3>4. faults' \in 0..MaxFaults
        BY ONLY <3>1, <3>3
    <3>5. blind' \in BOOLEAN
        BY ONLY <3>1, <3>2
    <3> QED BY ONLY <3>2, <3>4, <3>5
  <2> QED BY <1>16, <2>1 DEF Typed, TypeOK, InspectCurrent
<1>17. CASE SavePrior
  <2>1. NewArtifact("pre_restore", Current, None) \in Artifact /\ made + 1 \in 0..MaxArtifacts
      BY <1>17, <1>c, NewArtifactType DEF Typed, TypeOK, SavePrior
  <2> QED BY <1>17, <2>1 DEF Typed, TypeOK, SavePrior
<1>18. CASE CheckpointTarget    BY <1>18, <1>c DEF Typed, TypeOK, CheckpointTarget
<1>19. CASE QuarantineSidecars  BY <1>19 DEF Typed, TypeOK, QuarantineSidecars
<1>20. CASE Switch              BY <1>20, <1>c DEF Typed, TypeOK, Switch
<1>21. CASE Verified            BY <1>21 DEF Typed, TypeOK, Verified
<1>22. CASE NotVerified         BY <1>22 DEF Typed, TypeOK, NotVerified
<1>23. CASE RestoreFails
  <2>1. wal' \in Log \cup {None} /\ faults' \in 0..MaxFaults
      BY <1>23 DEF Typed, TypeOK, RestoreFails
  <2> QED BY <1>23, <1>c, <2>1 DEF Typed, TypeOK, RestoreFails
<1>24. CASE RollbackMain
  <2>1. main' \in Values
      BY <1>24, <1>c DEF Typed, TypeOK, RollbackMain, Artifact
  <2> QED BY <1>24, <2>1 DEF Typed, TypeOK, RollbackMain
<1>25. CASE RollbackSidecars
  <2>1. wal' \in Log \cup {None}
      BY <1>25 DEF Typed, TypeOK, RollbackSidecars, Artifact
  <2> QED BY <1>25, <2>1 DEF Typed, TypeOK, RollbackSidecars
<1>26. CASE RollbackFails       BY <1>26 DEF Typed, TypeOK, RollbackFails
<1>27. CASE MigrateCopy         BY <1>27, <1>c DEF Typed, TypeOK, MigrateCopy
<1>28. CASE MigrateImport
  <2>1. gen + 1 \in Gens /\ gen + 1 \in Values
      BY <1>28 DEF Typed, TypeOK, MigrateImport, Gens, Values
  <2> QED BY <1>28, <2>1 DEF Typed, TypeOK, MigrateImport
<1>29. CASE MigrateActivate     BY <1>29, <1>c, <1>e DEF Typed, TypeOK, MigrateActivate
<1>30. CASE MigrateFails        BY <1>30, <1>c DEF Typed, TypeOK, MigrateFails
<1>31. CASE CommandCrash        BY <1>31, <1>c DEF Typed, TypeOK, CommandCrash
<1>32. CASE UNCHANGED vars      BY <1>32 DEF Typed, TypeOK, vars
<1> QED
    BY <1>1, <1>2, <1>3, <1>4, <1>5, <1>6, <1>7, <1>8, <1>9, <1>10, <1>11, <1>12, <1>13, <1>14,
       <1>15, <1>16, <1>17, <1>18, <1>19, <1>20, <1>21, <1>22, <1>23, <1>24, <1>25, <1>26, <1>27,
       <1>28, <1>29, <1>30, <1>31, <1>32
    DEF Next, Application, Backup, Restore, Migrate, Disk

-----------------------------------------------------------------------------
(* One part of the invariant at a time.                                    *)

LEMMA ControlStep == Typed /\ Control /\ [Next]_vars => Control'
<1> SUFFICES ASSUME Typed, Control, [Next]_vars PROVE Control'
    OBVIOUS
<1> USE DEF Control, Offline, Restoring, Migrating, files, command, counters, history
<1>1. CASE Application
    BY <1>1, ValuesDiffer DEF Typed, TypeOK, Application, AppStart, Commit, Checkpoint, AppStop,
       AppCrash
<1>2. CASE Backup
    BY <1>2 DEF Backup, BackupCopy, BackupPublish, BackupFails, PruneOne, PruneFails, PruneDone
<1>3. CASE RestoreBegin \/ PreserveRaw \/ InspectCurrent \/ SavePrior
    BY <1>3 DEF RestoreBegin, PreserveRaw, InspectCurrent, SavePrior
<1>4. CASE CheckpointTarget \/ QuarantineSidecars \/ Switch
    BY <1>4 DEF CheckpointTarget, QuarantineSidecars, Switch
<1>5. CASE Verified \/ NotVerified \/ RestoreFails
    BY <1>5 DEF Verified, NotVerified, RestoreFails
<1>6. CASE RollbackMain \/ RollbackSidecars \/ RollbackFails
    BY <1>6 DEF RollbackMain, RollbackSidecars, RollbackFails
<1>7. CASE Migrate
    BY <1>7 DEF Migrate, MigrateCopy, MigrateImport, MigrateActivate, MigrateFails
<1>8. CASE Disk \/ CommandCrash \/ UNCHANGED vars
    BY <1>8 DEF Disk, Lose, Rot, CommandCrash, vars
<1> QED
    BY <1>1, <1>2, <1>3, <1>4, <1>5, <1>6, <1>7, <1>8 DEF Next, Restore

\* A newest surplus backup is below Keep sound ones none of which is surplus.
LEMMA SurplusIsSpared ==
    ASSUME NEW S \in SUBSET Artifact, IsFiniteSet(S), NEW a \in Surplus(S)
    PROVE  Cardinality({b \in KnownGood(S) \ Surplus(S) : b.at > a.at}) >= Keep
<1> DEFINE top == Newest(Surplus(S))
           Above == {b \in KnownGood(S) : b.at > top.at}
           Rest == {b \in KnownGood(S) \ Surplus(S) : b.at > a.at}
<1>1. Surplus(S) \in SUBSET Artifact
    BY DEF Surplus, KnownGood
<1>2. top \in Surplus(S) /\ \A b \in Surplus(S) : b.at <= top.at
    BY <1>1, NewestExists
<1>3. \A b \in KnownGood(S) : b.at \in Nat
    BY BoundsAssumption DEF KnownGood, Artifact
<1>4. top \in KnownGood(S) /\ a \in KnownGood(S)
    BY <1>2 DEF Surplus
<1>5. Cardinality(Above) >= Keep
    BY <1>2 DEF Surplus
<1>6. Above \subseteq Rest
    BY <1>2, <1>3, <1>4
<1>7. IsFiniteSet(Rest) /\ Rest \subseteq S
  <2>1. Rest \in SUBSET S
      BY DEF KnownGood
  <2> QED BY <2>1, FS_Subset
<1>8. Cardinality(Above) <= Cardinality(Rest) /\ IsFiniteSet(Above)
  <2> HIDE DEF Above, Rest
  <2> QED BY <1>6, <1>7, FS_Subset
<1>9. Cardinality(Above) \in Nat /\ Cardinality(Rest) \in Nat
  <2> HIDE DEF Above, Rest
  <2> QED BY <1>7, <1>8, FS_CardinalityType
<1> QED BY <1>5, <1>8, <1>9, BoundsAssumption

\* More spared artifacts are not fewer.
LEMMA SparedGrows ==
    ASSUME NEW S, NEW T, IsFiniteSet(T), S \subseteq T, Cardinality(S) >= Keep
    PROVE  Cardinality(T) >= Keep
<1>1. IsFiniteSet(S) /\ Cardinality(S) <= Cardinality(T)
    BY FS_Subset
<1>2. Cardinality(S) \in Nat /\ Cardinality(T) \in Nat
    BY <1>1, FS_CardinalityType
<1> QED BY <1>1, <1>2, BoundsAssumption

LEMMA RetentionStep == Typed /\ Retention /\ [Next]_vars => Retention'
<1> SUFFICES ASSUME Typed, Retention, [Next]_vars PROVE Retention'
    OBVIOUS
<1> USE DEF files, command, counters, history
<1>1. CASE artifacts' = artifacts /\ doomed' = doomed /\ (doomed # {} => pc' = "pruning")
    BY <1>1 DEF Retention, Spared, KnownGood
<1>2. CASE doomed' = {} /\ \E x : artifacts' \subseteq artifacts \cup {x}
  <2>1. PICK x : artifacts' \subseteq artifacts \cup {x}
      BY <1>2
  <2>2. IsFiniteSet(artifacts \cup {x})
      BY FS_AddElement DEF Retention
  <2>3. IsFiniteSet(artifacts')
      BY <2>1, <2>2, FS_Subset
  <2> QED BY <1>2, <2>3 DEF Retention
<1>3. CASE BackupPublish
  <2> DEFINE new == NewArtifact("backup", stage, None)
  <2>1. IsFiniteSet(artifacts')
      BY <1>3, FS_AddElement DEF Retention, BackupPublish
  <2>2. artifacts' \in SUBSET Artifact
      BY FilesTypes DEF Typed, TypeOK
  <2>3. doomed' = Surplus(artifacts') /\ pc' = "pruning"
      BY <1>3 DEF BackupPublish
  <2>4. \A a \in doomed' : Spared(a)' = {b \in KnownGood(artifacts') \ Surplus(artifacts') : b.at > a.at}
      BY <2>3 DEF Spared, KnownGood
  <2>5. \A a \in doomed' : Cardinality(Spared(a)') >= Keep
      BY <2>1, <2>2, <2>3, <2>4, SurplusIsSpared
  <2>6. doomed' \subseteq KnownGood(artifacts')
      BY <2>3 DEF Surplus
  <2> QED BY <2>1, <2>3, <2>5, <2>6 DEF Retention, KnownGood
<1>4. CASE PruneOne \/ PruneFails
  <2> DEFINE top == Newest(doomed)
  <2>1. top \in doomed /\ pc' = "pruning" /\ doomed' = doomed \ {top}
      BY <1>4, NewestExists DEF Typed, TypeOK, PruneOne, PruneFails
  <2>2. top \in Artifact /\ top.kind = "backup" /\ top.good = TRUE /\ top \in artifacts
      BY <2>1 DEF Typed, TypeOK, Retention, KnownGood
  <2>3. PICK x : artifacts \ {top} \subseteq artifacts' /\ artifacts' \subseteq artifacts \cup {x}
      BY <1>4 DEF PruneOne, PruneFails
  <2>4. IsFiniteSet(artifacts')
    <3>1. IsFiniteSet(artifacts \cup {x})
        BY FS_AddElement DEF Retention
    <3> QED BY <2>3, <3>1, FS_Subset
  <2>5. \A a \in doomed' : Cardinality(Spared(a)') >= Keep
    <3> TAKE a \in doomed'
    <3>1. Spared(a) \subseteq Spared(a)'
        BY <2>1, <2>3 DEF Spared, KnownGood
    <3>2. IsFiniteSet(Spared(a)')
      <4>1. Spared(a)' \in SUBSET artifacts'
          BY DEF Spared, KnownGood
      <4> QED BY <4>1, <2>4, FS_Subset
    <3> QED BY <2>1, <3>1, <3>2, SparedGrows DEF Retention
  <2>6. doomed' \subseteq KnownGood(artifacts')
      BY <2>1, <2>3 DEF Retention, KnownGood
  <2> QED BY <2>1, <2>4, <2>5, <2>6 DEF Retention
<1>5. CASE Application
    BY <1>5, <1>1 DEF Retention, Application, AppStart, Commit, Checkpoint, AppStop, AppCrash
<1>6. CASE BackupCopy \/ PruneDone
    BY <1>6, <1>1 DEF Retention, BackupCopy, PruneDone
<1>14. CASE BackupFails
  <2>1. doomed' = {}
      BY <1>14 DEF Retention, BackupFails
  <2>2. artifacts' \subseteq artifacts \cup {NewArtifact("backup", stage, None)}
      BY <1>14 DEF BackupFails
  <2> QED BY <1>2, <2>1, <2>2
<1>7. CASE RestoreBegin \/ InspectCurrent \/ CheckpointTarget \/ QuarantineSidecars \/ Switch
    BY <1>7, <1>1 DEF Retention, RestoreBegin, InspectCurrent, CheckpointTarget,
       QuarantineSidecars, Switch
<1>8. CASE Verified \/ NotVerified \/ RestoreFails \/ RollbackMain \/ RollbackSidecars \/ RollbackFails
    BY <1>8, <1>1 DEF Retention, Verified, NotVerified, RestoreFails, RollbackMain,
       RollbackSidecars, RollbackFails
<1>9. CASE Migrate \/ Lose \/ UNCHANGED vars
    BY <1>9, <1>1 DEF Retention, Migrate, MigrateCopy, MigrateImport, MigrateActivate,
       MigrateFails, Migrating, Lose, vars
<1>10. CASE Rot
  <2>1. doomed' = {}
      BY <1>10 DEF Retention, Rot
  <2>2. \E x : artifacts' \subseteq artifacts \cup {x}
      BY <1>10 DEF Rot
  <2> QED BY <1>2, <2>1, <2>2
<1>11. CASE PreserveRaw
  <2>1. doomed' = {}
      BY <1>11 DEF Retention, PreserveRaw
  <2>2. artifacts' \subseteq artifacts \cup {raw'}
      BY <1>11 DEF PreserveRaw
  <2> QED BY <1>2, <2>1, <2>2
<1>12. CASE SavePrior
  <2>1. doomed' = {}
      BY <1>12 DEF Retention, SavePrior
  <2>2. artifacts' \subseteq artifacts \cup {NewArtifact("pre_restore", Current, None)}
      BY <1>12 DEF SavePrior
  <2> QED BY <1>2, <2>1, <2>2
<1>13. CASE CommandCrash
    BY <1>13, <1>2 DEF CommandCrash
<1> QED
    BY <1>3, <1>4, <1>5, <1>6, <1>7, <1>8, <1>9, <1>10, <1>11, <1>12, <1>13, <1>14
    DEF Next, Backup, Restore, Disk

\* Diagnostic artifacts are never removed or changed.
LEMMA DiagnosticsStay ==
    ASSUME Typed, Retention, [Next]_vars, NEW a \in artifacts, a.kind = "diagnostic"
    PROVE  a \in artifacts'
<1> USE DEF files, command, counters, history
<1>1. CASE Rot
    BY <1>1 DEF Rot, KnownGood
<1>2. CASE PruneOne \/ PruneFails
  <2>1. Newest(doomed) \in doomed
      BY <1>2, NewestExists DEF Typed, TypeOK, PruneOne, PruneFails
  <2> QED BY <1>2, <2>1 DEF Retention, KnownGood, PruneOne, PruneFails
<1>3. CASE Application
    BY <1>3 DEF Application, AppStart, Commit, Checkpoint, AppStop, AppCrash
<1>4. CASE BackupCopy \/ BackupPublish \/ BackupFails \/ PruneDone
    BY <1>4 DEF BackupCopy, BackupPublish, BackupFails, PruneDone
<1>5. CASE Restore
    BY <1>5 DEF Restore, RestoreBegin, PreserveRaw, InspectCurrent, SavePrior, CheckpointTarget,
       QuarantineSidecars, Switch, Verified, NotVerified, RestoreFails, RollbackMain,
       RollbackSidecars, RollbackFails
<1>6. CASE Migrate \/ Lose \/ CommandCrash \/ UNCHANGED vars
    BY <1>6 DEF Migrate, MigrateCopy, MigrateImport, MigrateActivate, MigrateFails, Lose,
       CommandCrash, vars
<1> QED
    BY <1>1, <1>2, <1>3, <1>4, <1>5, <1>6 DEF Next, Backup, Disk

LEMMA ProgressStep ==
    Typed /\ Control /\ Progress /\ Retention /\ [Next]_vars => Progress'
<1> SUFFICES ASSUME Typed, Control, Progress, Retention, [Next]_vars PROVE Progress'
    OBVIOUS
<1>d. /\ \A a \in artifacts : a.kind = "diagnostic" => a \in artifacts'
      /\ raw \in artifacts /\ raw.kind = "diagnostic" => raw \in artifacts'
    BY DiagnosticsStay
<1> USE DEF Control, Offline, Restoring, Migrating, files, command, counters, history
<1>1. CASE RestoreBegin
    BY <1>1 DEF Progress, RestoreBegin, Current
<1>2. CASE PreserveRaw
  <2>1. CASE main = None /\ wal = None
      BY <1>2, <2>1 DEF Progress, PreserveRaw, NoFiles
  <2>2. CASE ~(main = None /\ wal = None)
    <3>1. raw' = NewArtifact("diagnostic", main, wal) /\ raw' \in Artifact
        BY <1>2, <2>2, NewArtifactType DEF Typed, TypeOK, PreserveRaw
    <3>2. raw' # None /\ raw' \in artifacts'
        BY <1>2, <2>2, <3>1, ValuesAssumption DEF PreserveRaw
    <3>3. raw'.kind = "diagnostic" /\ Fileset(raw') = [main |-> main, wal |-> wal]
        BY <3>1 DEF NewArtifact, Fileset
    <3> QED BY <1>2, <3>2, <3>3 DEF Progress, PreserveRaw
  <2> QED BY <2>1, <2>2
<1>3. CASE InspectCurrent
    BY <1>3, <1>d DEF Progress, InspectCurrent
<1>4. CASE SavePrior
    BY <1>4, <1>d DEF Progress, SavePrior
<1>5. CASE CheckpointTarget \/ QuarantineSidecars
    BY <1>5, <1>d DEF Progress, CheckpointTarget, QuarantineSidecars
<1>6. CASE Switch
    BY <1>6, <1>d DEF Progress, Switch
<1>7. CASE NotVerified
    BY <1>7, <1>d DEF Progress, NotVerified
<1>8. CASE RollbackMain
    BY <1>8, <1>d DEF Progress, RollbackMain, Fileset, NoFiles
<1>9. CASE pc' \notin Restoring
    BY <1>9 DEF Progress
<1>10. CASE UNCHANGED vars
    BY <1>10 DEF Progress, vars
<1>11. CASE Application \/ Disk
    BY <1>11, <1>9 DEF Application, AppStart, Commit, Checkpoint, AppStop, AppCrash, Disk, Lose, Rot
<1>12. CASE Backup \/ Migrate \/ CommandCrash
    BY <1>12, <1>9 DEF Backup, BackupCopy, BackupPublish, BackupFails, PruneOne, PruneFails,
       PruneDone, Migrate, MigrateCopy, MigrateImport, MigrateActivate, MigrateFails, CommandCrash
<1>13. CASE Verified \/ RestoreFails \/ RollbackSidecars \/ RollbackFails
    BY <1>13, <1>9 DEF Verified, RestoreFails, RollbackSidecars, RollbackFails
<1> QED
    BY <1>1, <1>2, <1>3, <1>4, <1>5, <1>6, <1>7, <1>8, <1>10, <1>11, <1>12, <1>13
    DEF Next, Restore

\* Before it is damaged or torn, what is read is what the restore found or restores.
LEMMA InvReads ==
    ASSUME Typed, Control, Progress, ~overLog, Untorn, Detachable
    PROVE  /\ Current # Torn
           /\ pc \in Restoring \ {"rolling"}
                  => Current \in {prior, source, Damaged} \/ (blind /\ Current = exact.main)
<1>1. Current # Torn
    BY FitsReads DEF Typed, TypeOK, Untorn, Current
<1>2. CASE pc \in {"staged", "preserved", "saving", "saved"}
    BY <1>1, <1>2 DEF Progress, Current, Restoring
<1>3. CASE pc \in {"cleared", "detached"} /\ ~blind
  <2>1. wal = None \/ main \in {None, Damaged}
      BY <1>3 DEF Control, Detachable
  <2>2. Current = main
      BY <2>1, ReadingIs DEF Typed, TypeOK, Current
  <2> QED BY <1>1, <1>3, <2>2 DEF Detachable
<1>4. CASE pc \in {"switched", "rollback"}
  <2>1. Current = main
      BY <1>4, ReadingIs DEF Typed, TypeOK, Control, Current
  <2> QED BY <1>1, <1>4, <2>1 DEF Progress
<1>5. CASE pc = "cleared" /\ blind
    BY <1>1, <1>5 DEF Detachable, Progress, Current, Restoring
<1>6. CASE pc = "detached" /\ blind
    BY <1>1, <1>6, ReadingIs DEF Typed, TypeOK, Control, Detachable, Current
<1> QED BY <1>1, <1>2, <1>3, <1>4, <1>5, <1>6 DEF Restoring

LEMMA UntornStep ==
    ASSUME Typed, Control, Progress, Retention, ~overLog, Untorn, Detachable,
           [Next]_vars, ~overLog'
    PROVE  Untorn' /\ Detachable'
<1> USE DEF Control, Offline, Restoring, Migrating, files, command, counters, history
<1>t. /\ main \in Values /\ wal \in Log \cup {None} /\ Typed'
      /\ artifacts \subseteq Artifact
    BY FilesTypes DEF Typed, TypeOK
<1>r. /\ Current # Torn
      /\ pc \in Restoring \ {"rolling"}
           => Current \in {prior, source, Damaged} \/ (blind /\ Current = exact.main)
    BY InvReads
<1>g. /\ Torn \notin Gens /\ Torn # None /\ Torn # Damaged /\ Torn # Foreign
    BY ValuesDiffer
<1>n. NoFiles.main = None /\ NoFiles.wal = None
    BY DEF NoFiles
<1>2. CASE AppStart \/ AppCrash
    BY <1>2 DEF Untorn, Detachable, AppStart, AppCrash, Current
<1>3. CASE Commit
    BY <1>3, <1>n, <1>g DEF Untorn, Detachable, Commit, Fits
<1>4. CASE Checkpoint
  <2>1. wal # None /\ main' = wal.last /\ main' # Torn
      BY <1>4, <1>t, <1>r, <1>g, ReadingIs DEF Checkpoint, Untorn, Fits, Current
  <2> QED BY <1>4, <2>1 DEF Untorn, Detachable, Checkpoint, Fits
<1>5. CASE AppStop
    BY <1>5, <1>r DEF Untorn, Detachable, AppStop, Fits
<1>6. CASE Lose
    BY <1>6, <1>n, <1>g DEF Untorn, Detachable, Lose, Fits
<1>7. CASE Rot
  <2>1. PICK a \in KnownGood(artifacts) :
            artifacts' = (artifacts \ {a}) \cup {[a EXCEPT !.good = FALSE]}
      BY <1>7 DEF Rot
  <2>2. a \in artifacts /\ FALSE \in BOOLEAN
      BY DEF KnownGood
  <2>3. \A b \in (artifacts \ {a}) \cup {[a EXCEPT !.good = FALSE]} :
            \E c \in artifacts : b.main = c.main /\ b.wal = c.wal
      BY ONLY <1>t, <2>2, RottenContents
  <2>4. \A b \in artifacts' : \E c \in artifacts : b.main = c.main /\ b.wal = c.wal
      BY ONLY <2>1, <2>3
  <2>5. \A b \in artifacts' : b.main # Torn /\ Fits(b.main, b.wal)
      BY <2>4 DEF Untorn, Fits
  <2> QED BY <1>7, <2>5 DEF Untorn, Detachable, Rot, Current
<1>8. CASE BackupCopy
    BY <1>8, <1>r DEF Untorn, Detachable, BackupCopy, Current
<1>9. CASE BackupPublish
  <2>1. PICK new : new = NewArtifact("backup", stage, None) /\ artifacts' = artifacts \cup {new}
      BY <1>9 DEF BackupPublish
  <2>2. new.main = stage /\ new.wal = None
      BY <2>1 DEF NewArtifact
  <2>3. \A b \in artifacts' : b.main # Torn /\ Fits(b.main, b.wal)
      BY <2>1, <2>2 DEF Untorn, Fits
  <2>4. /\ UNCHANGED <<main, wal, prior, exact, source, outcome, blind>>
        /\ stage' = None /\ pc' = "pruning"
      BY <1>9 DEF BackupPublish
  <2>5. Untorn'
      BY <2>3, <2>4, <1>g DEF Untorn, Fits
  <2> QED BY <2>4, <2>5 DEF Detachable, Current
<1>10. CASE PruneDone
    BY <1>10, <1>g DEF Untorn, Detachable, PruneDone, Current
<1>1. CASE BackupFails
  <2>1. PICK new : new = NewArtifact("backup", stage, None) /\ artifacts' \subseteq artifacts \cup {new}
      BY <1>1 DEF BackupFails
  <2>2. new.main = stage /\ new.wal = None
      BY <2>1 DEF NewArtifact
  <2>3. \A b \in artifacts' : b.main # Torn /\ Fits(b.main, b.wal)
      BY <2>1, <2>2 DEF Untorn, Fits
  <2>4. /\ UNCHANGED <<main, wal, prior, exact, source, outcome, blind>>
        /\ stage' = None /\ pc' = "idle"
      BY <1>1 DEF BackupFails
  <2>5. Untorn'
      BY <2>3, <2>4, <1>g DEF Untorn, Fits
  <2> QED BY <2>4, <2>5 DEF Detachable, Current
<1>11. CASE PruneOne
    BY <1>11 DEF Untorn, Detachable, PruneOne, Current
<1>12. CASE PruneFails
  <2>1. PICK g \in BOOLEAN :
            artifacts' = (artifacts \ {Newest(doomed)}) \cup {[Newest(doomed) EXCEPT !.good = g]}
      BY <1>12 DEF PruneFails
  <2>2. Newest(doomed) \in artifacts
      BY <1>12, NewestExists DEF Typed, TypeOK, PruneFails, Retention, KnownGood
  <2>3. \A b \in artifacts' : \E c \in artifacts : b.main = c.main /\ b.wal = c.wal
      BY ONLY <2>1, <2>2, <1>t, RottenContents
  <2>4. \A b \in artifacts' : b.main # Torn /\ Fits(b.main, b.wal)
      BY <2>3 DEF Untorn, Fits
  <2> QED BY <1>12, <2>4 DEF Untorn, Detachable, PruneFails, Current
<1>13. CASE RestoreBegin
    BY <1>13, <1>r DEF Untorn, Detachable, RestoreBegin
<1>14. CASE PreserveRaw
    BY <1>14 DEF Untorn, Detachable, PreserveRaw, NewArtifact
<1>15. CASE InspectCurrent
  <2>1. /\ UNCHANGED <<main, wal, artifacts, stage, source, prior, exact, outcome>>
        /\ exact = [main |-> main, wal |-> wal] /\ Current = prior /\ pc' \in {"saving", "cleared"}
      BY <1>15 DEF InspectCurrent, Progress, Current
  <2>2. pc' = "cleared" /\ ~blind' => Current \notin Gens /\ Current # Torn
      BY <1>15, <1>r DEF InspectCurrent
  <2>3. pc' = "cleared" /\ ~blind' /\ wal # None => main \in {None, Damaged}
      BY <2>1, <2>2, <1>t, ReadingIs DEF Untorn, Fits, Current
  <2>4. pc' = "cleared" /\ ~blind' => main = prior
      BY <2>1, <2>2, <2>3, <1>t, ReadingIs DEF Current
  <2>5. outcome = "none"
      BY <1>15 DEF InspectCurrent
  <2> QED BY <2>1, <2>3, <2>4, <2>5 DEF Untorn, Detachable
<1>16. CASE SavePrior
    BY <1>16, <1>r, <1>g DEF Untorn, Detachable, SavePrior, NewArtifact, Fits
<1>17. CASE CheckpointTarget
    BY <1>17, <1>r DEF Untorn, Detachable, CheckpointTarget, Progress, Current, Fits
<1>18. CASE QuarantineSidecars
    BY <1>18 DEF Untorn, Detachable, QuarantineSidecars, Fits
<1>19. CASE Switch
    BY <1>19, <1>g DEF Untorn, Detachable, Switch, Fits
<1>20. CASE Verified \/ NotVerified \/ RollbackFails
    BY <1>20 DEF Untorn, Detachable, Verified, NotVerified, RollbackFails
<1>21. CASE RestoreFails
  <2>1. wal' # None => \/ wal' = wal
                       \/ wal' = quarantine /\ pc = "detached"
      BY <1>21 DEF RestoreFails
  <2>2. Fits(main, wal')
    <3>1. pc = "detached" /\ blind => main = exact.main /\ quarantine = exact.wal
        BY DEF Detachable
    <3> QED BY <2>1, <3>1 DEF Untorn, Detachable, Fits
  <2> QED BY <1>21, <2>2, <1>g DEF Untorn, Detachable, RestoreFails
<1>22. CASE RollbackMain
    BY <1>22, <1>g DEF Untorn, Detachable, RollbackMain, Progress, Fits
<1>23. CASE RollbackSidecars
  <2>1. raw # None => wal' = raw.wal /\ exact.wal = raw.wal /\ main = exact.main
      BY <1>23 DEF RollbackSidecars, Progress, Fileset
  <2>2. Fits(main, wal')
      BY <1>23, <2>1 DEF RollbackSidecars, Untorn, Fits
  <2> QED BY <1>23, <2>2 DEF Untorn, Detachable, RollbackSidecars
<1>24. CASE MigrateCopy
    BY <1>24, <1>g DEF Untorn, Detachable, MigrateCopy
<1>25. CASE MigrateImport
    BY <1>25, <1>t, <1>g DEF Untorn, Detachable, MigrateImport, Typed, TypeOK
<1>26. CASE MigrateActivate
    BY <1>26, <1>n, <1>g DEF Untorn, Detachable, MigrateActivate, Fits
<1>27. CASE MigrateFails
    BY <1>27, <1>g DEF Untorn, Detachable, MigrateFails
<1>28. CASE CommandCrash
    BY <1>28, <1>r, <1>g DEF Untorn, Detachable, CommandCrash, Current
<1>29. CASE UNCHANGED vars
    BY <1>29 DEF Untorn, Detachable, vars, Current
<1> QED
    BY <1>1, <1>2, <1>3, <1>4, <1>5, <1>6, <1>7, <1>8, <1>9, <1>10, <1>11, <1>12, <1>13, <1>14, <1>15,
       <1>16, <1>17, <1>18, <1>19, <1>20, <1>21, <1>22, <1>23, <1>24, <1>25, <1>26, <1>27, <1>28,
       <1>29
    DEF Next, Application, Backup, Restore, Migrate, Disk

LEMMA PriorStep == FilesInv /\ [Next]_vars => PriorIsKept'
<1> SUFFICES ASSUME FilesInv, [Next]_vars, exact' # NoFiles
             PROVE  Current' = prior' \/ Preserved(exact)'
    BY DEF PriorIsKept, Preserved, Fileset
<1> USE DEF files, command, counters, history
<1>1. CASE exact' = exact /\ Preserved(exact)
  <2>1. PICK a \in artifacts : a.kind = "diagnostic" /\ Fileset(a) = exact
      BY <1>1 DEF Preserved
  <2>2. a \in artifacts'
      BY <2>1, DiagnosticsStay DEF FilesInv
  <2> QED BY <1>1, <2>1, <2>2 DEF Preserved
<1>2. CASE exact' = exact /\ ~Preserved(exact)
  <2>1. Current = prior
      BY <1>2 DEF FilesInv, PriorIsKept, Preserved, Fileset
  <2>2. pc \in Restoring => pc = "staged" /\ quarantine = None
      BY <1>2 DEF FilesInv, Progress, Control, Preserved
  <2>3. CASE files' = files /\ prior' = prior
      BY <2>1, <2>3 DEF Current
  <2>4. CASE Application
    <3>1. CASE AppStart \/ AppCrash
        BY <3>1, <2>3 DEF AppStart, AppCrash
    <3>2. CASE Commit
        BY <3>2, <1>2, <2>1 DEF Commit
    <3>3. CASE Checkpoint
      <4>1. /\ main' = Current /\ wal' = wal /\ prior' = prior /\ wal # None
            /\ main' \notin {None, Damaged}
          BY <3>3, ValuesDiffer DEF Checkpoint
      <4>2. main \in Values /\ wal \in Log \cup {None} /\ Current \in Gens /\ Current \in Values
          BY <3>3 DEF FilesInv, Typed, TypeOK, Checkpoint, Values
      <4>3. Current = wal.last
          BY <3>3, <4>1, <4>2, ReadingIs, ValuesDiffer DEF Current, Checkpoint
      <4>4. Reading(main', wal') = wal.last
          BY <4>1, <4>2, <4>3, ReadingIs
      <4> QED BY <2>1, <4>1, <4>3, <4>4 DEF Current
    <3>4. CASE AppStop
      <4>1. CASE Current \in Gens
          BY <3>4, <4>1, <2>1 DEF AppStop, Current, Reading
      <4>2. CASE Current \notin Gens
          BY <3>4, <4>2, <2>3 DEF AppStop
      <4> QED BY <4>1, <4>2
    <3> QED BY <2>4, <3>1, <3>2, <3>3, <3>4 DEF Application
  <2>5. CASE Disk
      BY <2>5, <1>2, <2>3 DEF Disk, Lose, Rot
  <2>6. CASE Backup
      BY <2>6, <2>3 DEF Backup, BackupCopy, BackupPublish, BackupFails, PruneOne, PruneFails,
         PruneDone
  <2>7. CASE RestoreBegin
      BY <2>7, <2>1 DEF RestoreBegin, Current
  <2>8. CASE PreserveRaw \/ RestoreFails
      BY <2>8, <2>2, <2>3 DEF PreserveRaw, RestoreFails, Restoring
  <2>9. CASE MigrateActivate
      BY <2>9, <1>2 DEF MigrateActivate
  <2>10. CASE MigrateCopy \/ MigrateImport \/ MigrateFails \/ CommandCrash \/ UNCHANGED vars
      BY <2>10, <2>3 DEF MigrateCopy, MigrateImport, MigrateFails, CommandCrash, vars
  <2>11. CASE \/ InspectCurrent \/ SavePrior \/ CheckpointTarget \/ QuarantineSidecars \/ Switch
              \/ Verified \/ NotVerified \/ RollbackMain \/ RollbackSidecars \/ RollbackFails
      BY <2>11, <2>2 DEF InspectCurrent, SavePrior, CheckpointTarget, QuarantineSidecars, Switch,
         Verified, NotVerified, RollbackMain, RollbackSidecars, RollbackFails, Restoring
  <2> QED
      BY <2>4, <2>5, <2>6, <2>7, <2>8, <2>9, <2>10, <2>11 DEF Next, Restore, Migrate
<1>3. CASE exact' # exact
  <2>1. RestoreBegin
      BY <1>3 DEF Next, Application, AppStart, Commit, Checkpoint, AppStop, AppCrash, Backup,
         BackupCopy, BackupPublish, BackupFails, PruneOne, PruneFails, PruneDone, Restore,
         PreserveRaw, InspectCurrent, SavePrior, CheckpointTarget, QuarantineSidecars, Switch,
         Verified, NotVerified, RestoreFails, RollbackMain, RollbackSidecars, RollbackFails,
         Migrate, MigrateCopy, MigrateImport, MigrateActivate, MigrateFails, Disk, Lose, Rot,
         CommandCrash, vars
  <2> QED BY <2>1 DEF RestoreBegin, Current
<1> QED BY <1>1, <1>2, <1>3

LEMMA ReportStep == FilesInv /\ [Next]_vars => ReportIsTrue'
<1> SUFFICES ASSUME FilesInv, [Next]_vars PROVE ReportIsTrue'
    OBVIOUS
<1> USE DEF FilesInv, Control, Offline, Restoring, Migrating, files, command, counters, history
<1>1. CASE outcome' \notin {"success", "failed", "rolledback"}
    BY <1>1 DEF ReportIsTrue
<1>2. CASE UNCHANGED <<files, app, source, prior, exact, outcome, blind, overLog>>
    BY <1>2 DEF ReportIsTrue, Current
<1>3. CASE Application
    BY <1>3, <1>1 DEF Application, AppStart, Commit, Checkpoint, AppStop, AppCrash
<1>4. CASE Backup \/ Rot \/ CommandCrash \/ UNCHANGED vars
    BY <1>4, <1>1, <1>2 DEF Backup, BackupCopy, BackupPublish, BackupFails, PruneOne, PruneFails,
       PruneDone, Rot, CommandCrash, vars
<1>5. CASE Lose \/ RestoreBegin \/ MigrateCopy \/ MigrateImport \/ MigrateActivate \/ MigrateFails
    BY <1>5, <1>1 DEF Lose, RestoreBegin, MigrateCopy, MigrateImport, MigrateActivate, MigrateFails
<1>6. CASE \/ PreserveRaw \/ InspectCurrent \/ SavePrior \/ CheckpointTarget
           \/ QuarantineSidecars \/ Switch \/ NotVerified \/ RollbackMain \/ RollbackFails
    BY <1>6, <1>1 DEF PreserveRaw, InspectCurrent, SavePrior, CheckpointTarget,
       QuarantineSidecars, Switch, NotVerified, RollbackMain, RollbackFails
<1>7. CASE Verified
    BY <1>7 DEF Verified, ReportIsTrue, Current, Reading
<1>8. CASE RestoreFails
  <2>1. outcome' = "failed" /\ UNCHANGED <<main, prior, exact, blind, overLog>>
      BY <1>8 DEF RestoreFails
  <2> SUFFICES ASSUME ~overLog
               PROVE  Reading(main, wal') = prior \/ (blind /\ Reading(main, wal') = exact.main)
      BY <2>1 DEF ReportIsTrue, Current
  <2>2. main \in Values /\ wal \in Log \cup {None} /\ wal' \in Log \cup {None}
      BY FilesTypes DEF Typed, TypeOK
  <2>3. CASE pc \in {"staged", "preserved", "saving", "saved"}
    <3>1. wal' = wal
        BY <1>8, <2>3 DEF RestoreFails
    <3> QED BY <2>3, <3>1 DEF Progress
  <2>4. CASE pc \in {"cleared", "detached"} /\ ~blind
    <3>1. main = prior /\ (wal' # None => main \in {None, Damaged})
        BY <1>8, <2>4 DEF RestoreFails, Detachable
    <3> QED BY <2>2, <3>1, ReadingIs
  <2>5. CASE pc \in {"cleared", "detached"} /\ blind
    <3>1. main = exact.main /\ wal' \in {None, exact.wal}
        BY <1>8, <2>5 DEF RestoreFails, Detachable
    <3>2. Reading(exact.main, exact.wal) = prior
        BY <2>5 DEF Progress
    <3> QED BY <2>2, <2>5, <3>1, <3>2, ReadingIs
  <2> QED BY <1>8, <2>3, <2>4, <2>5 DEF RestoreFails
<1>9. CASE RollbackSidecars
  <2>1. outcome' = "rolledback" /\ main' = main /\ exact' = exact /\ main = exact.main
      BY <1>9 DEF RollbackSidecars, Progress
  <2>2. exact = [main |-> exact.main, wal |-> exact.wal]
      BY DEF Typed, TypeOK
  <2>3. wal' = exact.wal
      BY <1>9 DEF RollbackSidecars, Progress, Fileset, NoFiles
  <2> QED BY <2>1, <2>2, <2>3 DEF ReportIsTrue
<1> QED
    BY <1>3, <1>4, <1>5, <1>6, <1>7, <1>8, <1>9 DEF Next, Restore, Migrate, Disk

-----------------------------------------------------------------------------
(* The theorems.                                                           *)

LEMMA FilesInvInit == Init => FilesInv
<1> SUFFICES ASSUME Init PROVE FilesInv
    OBVIOUS
<1> USE BoundsAssumption, ValuesDiffer DEF Init, Offline, Restoring, Migrating
<1>1. Typed
  <2>1. main \in Values /\ None \in Values /\ gen \in Gens
      BY DEF Values, Gens
  <2>2. exact \in [main : Values, wal : Log \cup {None}]
      BY <2>1 DEF NoFiles
  <2>3. artifacts \subseteq Artifact /\ doomed \subseteq Artifact
      OBVIOUS
  <2>4. /\ made \in 0..MaxArtifacts /\ faults \in 0..MaxFaults
        /\ crashes \in 0..MaxCrashes /\ damage \in 0..MaxDamage
      OBVIOUS
  <2> QED BY <2>1, <2>2, <2>3, <2>4 DEF Typed, TypeOK
<1>2. Control /\ Progress
    BY DEF Control, Progress
<1>3. Retention
    BY FS_EmptySet DEF Retention
<1>4. Untorn /\ Detachable
    BY DEF Untorn, Detachable, Fits, NoFiles, Gens
<1>5. PriorIsKept /\ ReportIsTrue
    BY DEF PriorIsKept, ReportIsTrue
<1> QED BY <1>1, <1>2, <1>3, <1>4, <1>5 DEF FilesInv

LEMMA FilesInvStep == FilesInv /\ [Next]_vars => FilesInv'
<1> SUFFICES ASSUME FilesInv, [Next]_vars PROVE FilesInv'
    OBVIOUS
<1>1. Typed' /\ Control' /\ Progress' /\ Retention'
    BY FilesTypes, ControlStep, ProgressStep, RetentionStep DEF FilesInv
<1>2. ~overLog' => ~overLog
    BY DEF Next, Application, AppStart, Commit, Checkpoint, AppStop, AppCrash, Backup,
       BackupCopy, BackupPublish, BackupFails, PruneOne, PruneFails, PruneDone, Restore,
       RestoreBegin, PreserveRaw, InspectCurrent, SavePrior, CheckpointTarget,
       QuarantineSidecars, Switch, Verified, NotVerified, RestoreFails, RollbackMain,
       RollbackSidecars, RollbackFails, Migrate, MigrateCopy, MigrateImport, MigrateActivate,
       MigrateFails, Disk, Lose, Rot, CommandCrash, vars, history
<1>3. ~overLog' => Untorn' /\ Detachable'
    BY <1>2, UntornStep DEF FilesInv
<1>4. PriorIsKept' /\ ReportIsTrue'
    BY PriorStep, ReportStep
<1> QED BY <1>1, <1>3, <1>4 DEF FilesInv

LEMMA FilesInvariant == Spec => []FilesInv
BY FilesInvInit, FilesInvStep, PTL DEF Spec

\* Every variable keeps its type, and no counter passes its bound.
THEOREM FilesTypeCorrect == Spec => []TypeOK
<1>1. FilesInv => TypeOK            BY DEF FilesInv, Typed
<1> QED BY FilesInvariant, <1>1, PTL

\* Whatever fails or crashes, no main file is left beside a log that is not its own,
\* unless a migration was activated over one.
THEOREM NeverReadsTorn == Spec => []NeverTorn
<1>1. FilesInv => NeverTorn         BY InvReads DEF FilesInv, NeverTorn
<1> QED BY FilesInvariant, <1>1, PTL

\* A running or crashed restore leaves the old database, the backup or a file that
\* fails inspection, never a mixture that passes for a database; only a restore
\* whose inspection raised on a sound database may leave the main file it found,
\* without the log that belongs to it.
THEOREM OldOrRestored == Spec => []NoThirdDatabase
<1>1. FilesInv => NoThirdDatabase
    BY InvReads DEF FilesInv, NoThirdDatabase, Detachable
<1> QED BY FilesInvariant, <1>1, PTL

\* What a restore found stays readable or stays in an artifact, log and all.
THEOREM PriorStaysRecoverable == Spec => []PriorIsKept
<1>1. FilesInv => PriorIsKept       BY DEF FilesInv
<1> QED BY FilesInvariant, <1>1, PTL

\* The command reports success, refusal or rollback only when the files say so; a
\* failure after an inspection that raised may leave the main file without its log.
THEOREM ReportHolds == Spec => []ReportIsTrue
<1>1. FilesInv => ReportIsTrue      BY DEF FilesInv
<1> QED BY FilesInvariant, <1>1, PTL

\* Retention removes a backup only while Keep newer sound ones remain, although it
\* removes one artifact at a time and may fail between two of them.
THEOREM RetentionKeepsKnownGood == Spec => KeepsKnownGood
<1> DEFINE Removed(a) == a \in artifacts /\ \A b \in artifacts' : b.at # a.at
           Allowed(a) == /\ a.kind = "backup"
                         /\ Cardinality({b \in KnownGood(artifacts') : b.at > a.at}) >= Keep
<1>1. ASSUME FilesInv, [Next]_vars, NEW a, Removed(a)
      PROVE  Allowed(a)
  <2> USE DEF files, command, counters, history
  <2>1. a \notin artifacts' /\ a \in artifacts
      BY <1>1
  <2>2. CASE Rot
    <3>1. PICK b \in KnownGood(artifacts) :
              artifacts' = (artifacts \ {b}) \cup {[b EXCEPT !.good = FALSE]}
        BY <2>2 DEF Rot
    <3>2. b \in Artifact
        BY <1>1, <3>1 DEF FilesInv, Typed, TypeOK, KnownGood
    <3>3. /\ [b EXCEPT !.good = FALSE].at = b.at
          /\ [b EXCEPT !.good = FALSE] \in artifacts'
        BY <3>1, <3>2, RottenArtifactType
    <3>4. b = a
        BY <2>1, <3>1
    <3> QED BY <1>1, <3>3, <3>4
  <2>3. CASE PruneFails
    <3>1. PICK g \in BOOLEAN :
            artifacts' = (artifacts \ {Newest(doomed)}) \cup {[Newest(doomed) EXCEPT !.good = g]}
        BY <2>3 DEF PruneFails
    <3>2. Newest(doomed) \in Artifact
        BY <1>1, <2>3, NewestExists DEF FilesInv, Typed, TypeOK, PruneFails
    <3>3. /\ [Newest(doomed) EXCEPT !.good = g].at = Newest(doomed).at
          /\ [Newest(doomed) EXCEPT !.good = g] \in artifacts'
        BY <3>1, <3>2, RottenArtifactType
    <3>4. Newest(doomed) = a
        BY <2>1, <3>1
    <3> QED BY <1>1, <3>3, <3>4
  <2>4. CASE PruneOne
    <3>1. a = Newest(doomed) /\ a \in doomed /\ doomed' = doomed \ {a}
        BY <1>1, <2>1, <2>4, NewestExists DEF FilesInv, Typed, TypeOK, PruneOne
    <3>2. a.kind = "backup" /\ Cardinality(Spared(a)) >= Keep
        BY <1>1, <3>1 DEF FilesInv, Retention, KnownGood
    <3> DEFINE Newer == {b \in KnownGood(artifacts') : b.at > a.at}
    <3>3. Spared(a) \subseteq Newer
        BY <2>4, <3>1 DEF PruneOne, Spared, KnownGood
    <3>4. IsFiniteSet(Newer)
      <4>1. IsFiniteSet(artifacts')
          BY <1>1, FilesInvStep DEF FilesInv, Retention
      <4>2. Newer \in SUBSET artifacts'
          BY DEF KnownGood
      <4> HIDE DEF Newer
      <4> QED BY <4>1, <4>2, FS_Subset
    <3>5. Cardinality(Newer) >= Keep
      <4> HIDE DEF Newer
      <4> QED BY <3>2, <3>3, <3>4, SparedGrows
    <3> QED BY <3>2, <3>5
  <2>5. CASE Application \/ Lose \/ Migrate \/ CommandCrash \/ UNCHANGED vars
      BY <2>1, <2>5 DEF Application, AppStart, Commit, Checkpoint, AppStop, AppCrash, Lose,
         Migrate, MigrateCopy, MigrateImport, MigrateActivate, MigrateFails, CommandCrash, vars
  <2>6. CASE BackupCopy \/ BackupPublish \/ BackupFails \/ PruneDone
      BY <2>1, <2>6 DEF BackupCopy, BackupPublish, BackupFails, PruneDone
  <2>7. CASE Restore
      BY <2>1, <2>7 DEF Restore, RestoreBegin, PreserveRaw, InspectCurrent, SavePrior,
         CheckpointTarget, QuarantineSidecars, Switch, Verified, NotVerified, RestoreFails,
         RollbackMain, RollbackSidecars, RollbackFails
  <2> QED
      BY <1>1, <2>2, <2>3, <2>4, <2>5, <2>6, <2>7 DEF Next, Backup, Disk
<1>2. FilesInv /\ [Next]_vars
          => [\A a \in artifacts :
                (\A b \in artifacts' : b.at # a.at)
                    => /\ a.kind = "backup"
                       /\ Cardinality({b \in KnownGood(artifacts') : b.at > a.at}) >= Keep]_vars
    BY <1>1
<1> QED BY FilesInvariant, <1>2, PTL DEF Spec, KeepsKnownGood
=============================================================================
