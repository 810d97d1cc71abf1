--------------------------- MODULE DatabaseFiles ---------------------------
(***************************************************************************)
(* The files of the SQLite database and the operator commands that replace *)
(* them: backup with retention and restore (backend/backup_restore.py) and *)
(* the import migration (backend/migration.py), run from backend/cli.py    *)
(* beside an application that commits, stops and crashes.                  *)
(*                                                                         *)
(* A database value is a generation: the n-th committed state.  A file     *)
(* holds a generation, or one of the special values below; the write-ahead *)
(* log holds the commits that lead from generation "base" to "last".  The  *)
(* shared-memory file carries no data and is left out.  A crash is the end *)
(* of a process; what it wrote stays.                                      *)
(***************************************************************************)
EXTENDS Naturals, FiniteSets

CONSTANTS
    MaxGen,         \* bound: generations ever committed
    MaxArtifacts,   \* bound: backup artifacts ever published
    Keep,           \* retention_count of the backup command
    MaxFaults,      \* bound: failing file operations
    MaxCrashes,     \* bound: crashes of the application or of a command
    MaxDamage,      \* bound: files lost or damaged on the disk
    None,           \* no file
    Damaged,        \* a file that fails inspection
    Foreign,        \* a sound database of another schema version
    Torn            \* a database read with a log that is not its own

ASSUME BoundsAssumption ==
    /\ MaxGen \in Nat \ {0} /\ MaxArtifacts \in Nat
    /\ Keep \in Nat \ {0}
    /\ MaxFaults \in Nat /\ MaxCrashes \in Nat /\ MaxDamage \in Nat

Gens == 1..MaxGen
Values == Gens \cup {None, Damaged, Foreign, Torn}
Log == [base : Values, last : Gens]
Artifact == [at : 1..MaxArtifacts, kind : {"backup", "pre_restore", "diagnostic"},
             main : Values, wal : Log \cup {None}, good : BOOLEAN]

ASSUME ValuesAssumption ==
    /\ {None, Damaged, Foreign, Torn} \cap Nat = {}
    /\ Cardinality({None, Damaged, Foreign, Torn}) = 4
    /\ None \notin Log \cup Artifact

VARIABLES
    main,        \* content of the canonical database file
    wal,         \* content of its -wal sidecar
    app,         \* the application: "up" or "down"
    pc,          \* progress of the operator command; "idle" when none runs
    stage,       \* the temporary copy of the command
    quarantine,  \* the sidecar the restore moved away
    raw,         \* the diagnostic artifact the restore made, or None
    doomed,      \* artifacts the retention pass has still to remove
    artifacts,   \* the backup directory
    gen, made, faults, crashes, damage,     \* counters
    source,      \* history: the value being restored, or migrated to
    prior,       \* history: what was read when the last restore began
    exact,       \* history: main and wal at that moment
    outcome,     \* history: how the last command ended
    blind,       \* history: the last restore could not inspect a sound database
    overLog      \* history: a migration was activated beside a log

files == <<main, wal>>
command == <<pc, stage, quarantine, raw, doomed>>
counters == <<gen, made, faults, crashes, damage>>
history == <<source, prior, exact, outcome, blind, overLog>>
vars == <<files, app, command, artifacts, counters, history>>

Restoring == {"staged", "preserved", "saving", "saved", "cleared", "detached",
              "switched", "rollback", "rolling"}
Migrating == {"importing", "imported"}
Offline == Restoring \cup Migrating

-----------------------------------------------------------------------------
(* What SQLite reads from a database file and the log beside it.  A log is *)
(* replayed over whatever file has the canonical name: the result is a     *)
(* database only if the log was written for that file.                     *)
Reading(m, w) ==
    CASE m \in {None, Damaged} \/ w = None -> m
      [] w # None /\ m \notin {None, Damaged} /\ m \in {w.base, w.last} -> w.last
      [] OTHER -> Torn

Current == Reading(main, wal)

NoFiles == [main |-> None, wal |-> None]

\* inspect_sqlite_database may succeed: integrity, foreign keys, schema floor, core
\* tables.  A torn database passes or fails, as its pages happen to fit.
Sound(v) == v \notin {None, Damaged}

\* validate_sqlite_backup: only complete artifacts whose bytes match the manifest.
Managed(a) == a.kind \in {"backup", "pre_restore"} /\ a.good

NewArtifact(kind, m, w) ==
    [at |-> made + 1, kind |-> kind, main |-> m, wal |-> w, good |-> TRUE]

KnownGood(S) == {a \in S : a.kind = "backup" /\ a.good}

\* Mutant of Surplus: any newer backup counts, sound or not.
SurplusByAge(S) ==
    {a \in KnownGood(S) :
        Cardinality({b \in S : b.kind = "backup" /\ b.at > a.at}) >= Keep}

\* What prune_known_good_backups removes: all but the newest Keep sound backups.
Surplus(S) ==
    {a \in KnownGood(S) : Cardinality({b \in KnownGood(S) : b.at > a.at}) >= Keep}

Newest(S) == CHOOSE a \in S : \A b \in S : b.at <= a.at

Fault == faults < MaxFaults /\ faults' = faults + 1

TypeOK ==
    /\ main \in Values
    /\ wal \in Log \cup {None}
    /\ app \in {"up", "down"}
    /\ pc \in {"idle", "copied", "pruning"} \cup Offline
    /\ stage \in Values
    /\ quarantine \in Log \cup {None}
    /\ raw \in Artifact \cup {None}
    /\ artifacts \subseteq Artifact /\ doomed \subseteq Artifact
    /\ gen \in Gens /\ made \in 0..MaxArtifacts
    /\ faults \in 0..MaxFaults /\ crashes \in 0..MaxCrashes /\ damage \in 0..MaxDamage
    /\ source \in Values /\ prior \in Values
    /\ exact \in [main : Values, wal : Log \cup {None}]
    /\ outcome \in {"none", "success", "failed", "rolledback", "stranded",
                    "crashed", "migrated"}
    /\ blind \in BOOLEAN /\ overLog \in BOOLEAN

Init ==
    /\ main = 1 /\ wal = None /\ app = "up"
    /\ pc = "idle" /\ stage = None /\ quarantine = None /\ raw = None
    /\ doomed = {} /\ artifacts = {}
    /\ gen = 1 /\ made = 0 /\ faults = 0 /\ crashes = 0 /\ damage = 0
    /\ source = None /\ prior = None /\ exact = NoFiles
    /\ outcome = "none" /\ blind = FALSE /\ overLog = FALSE

-----------------------------------------------------------------------------
(* The application.                                                        *)

AppStart ==
    /\ app = "down" /\ pc \notin Offline
    /\ Current \in Gens
    /\ app' = "up" /\ outcome' = "none"
    /\ UNCHANGED <<files, command, artifacts, counters, source, prior, exact, blind, overLog>>

\* A commit appends to the log.  What the last restore found is forgotten once the
\* application carries it on.
Commit ==
    /\ app = "up" /\ gen < MaxGen
    /\ Current \in Gens
    /\ gen' = gen + 1
    /\ wal' = [base |-> main, last |-> gen + 1]
    /\ IF prior = Current
       THEN prior' = None /\ exact' = NoFiles
       ELSE UNCHANGED <<prior, exact>>
    /\ UNCHANGED <<main, app, command, artifacts, made, faults, crashes, damage,
                   source, outcome, blind, overLog>>

Checkpoint ==
    /\ app = "up" /\ wal # None
    /\ Current \in Gens /\ main # Current
    /\ main' = Current
    /\ UNCHANGED <<wal, app, command, artifacts, counters, history>>

\* Closing the last connection checkpoints and deletes the log.
AppStop ==
    /\ app = "up" /\ app' = "down"
    /\ IF Current \in Gens THEN main' = Current /\ wal' = None ELSE UNCHANGED files
    /\ UNCHANGED <<command, artifacts, counters, history>>

AppCrash ==
    /\ app = "up" /\ crashes < MaxCrashes
    /\ app' = "down" /\ crashes' = crashes + 1
    /\ UNCHANGED <<files, command, artifacts, gen, made, faults, damage, history>>

\* The database file is lost, damaged, or replaced by one of a newer release.
Lose ==
    /\ app = "down" /\ pc = "idle" /\ damage < MaxDamage
    /\ main' \in {None, Damaged, Foreign} /\ main' # main
    /\ wal' \in IF main' = Foreign THEN {None} ELSE {wal}
    /\ damage' = damage + 1 /\ outcome' = "none"
    /\ prior' = None /\ exact' = NoFiles
    /\ UNCHANGED <<app, command, artifacts, gen, made, faults, crashes, source, blind,
                   overLog>>

\* A published backup no longer matches its manifest.
Rot ==
    /\ pc = "idle" /\ damage < MaxDamage
    /\ \E a \in KnownGood(artifacts) :
          artifacts' = (artifacts \ {a}) \cup {[a EXCEPT !.good = FALSE]}
    /\ damage' = damage + 1
    /\ UNCHANGED <<files, app, command, gen, made, faults, crashes, history>>

-----------------------------------------------------------------------------
(* create_sqlite_backup and prune_known_good_backups, from the command.    *)

BackupCopy ==
    /\ pc = "idle" /\ made < MaxArtifacts
    /\ Sound(Current)
    /\ stage' = Current /\ pc' = "copied"
    /\ UNCHANGED <<files, app, quarantine, raw, doomed, artifacts, counters, history>>

BackupPublish ==
    /\ pc = "copied"
    /\ artifacts' = artifacts \cup {NewArtifact("backup", stage, None)}
    /\ made' = made + 1
    /\ doomed' = Surplus(artifacts') /\ pc' = "pruning" /\ stage' = None
    /\ UNCHANGED <<files, app, quarantine, raw, gen, faults, crashes, damage, history>>

\* The pending directory is removed: nothing was published; or the directory was
\* renamed and its parent cannot be synced: the backup is there, unreported.
BackupFails ==
    /\ pc = "copied" /\ Fault
    /\ \/ UNCHANGED <<artifacts, made>>
       \/ /\ artifacts' = artifacts \cup {NewArtifact("backup", stage, None)}
          /\ made' = made + 1
    /\ pc' = "idle" /\ stage' = None
    /\ UNCHANGED <<files, app, quarantine, raw, doomed, gen, crashes, damage, history>>

PruneOne ==
    /\ pc = "pruning" /\ doomed # {}
    /\ LET a == Newest(doomed) IN
         /\ doomed' = doomed \ {a}
         /\ artifacts' = artifacts \ {a}
    /\ UNCHANGED <<files, app, pc, stage, quarantine, raw, counters, history>>

\* rmtree stops half way: the artifact stays, whole or no longer valid.
PruneFails ==
    /\ pc = "pruning" /\ doomed # {} /\ Fault
    /\ LET a == Newest(doomed) IN
         /\ doomed' = doomed \ {a}
         /\ \E g \in BOOLEAN :
               artifacts' = (artifacts \ {a}) \cup {[a EXCEPT !.good = g]}
    /\ UNCHANGED <<files, app, pc, stage, quarantine, raw, gen, made, crashes,
                   damage, history>>

PruneDone ==
    /\ pc = "pruning" /\ doomed = {}
    /\ pc' = "idle"
    /\ UNCHANGED <<files, app, stage, quarantine, raw, doomed, artifacts, counters, history>>

-----------------------------------------------------------------------------
(* restore_sqlite_backup.  The operator has stopped the application.       *)

\* The artifact is validated, copied beside the target and compared with it.
RestoreBegin ==
    /\ pc = "idle" /\ app = "down"
    /\ \E a \in artifacts :
         /\ Managed(a) /\ a.main # Foreign
         /\ stage' = a.main /\ source' = a.main
    /\ prior' = Current /\ exact' = [main |-> main, wal |-> wal]
    /\ raw' = None /\ outcome' = "none" /\ blind' = FALSE /\ pc' = "staged"
    /\ UNCHANGED <<files, app, quarantine, doomed, artifacts, counters, overLog>>

\* Mutant of PreserveRaw: only the main file is copied.
PreserveMainOnly ==
    /\ pc = "staged" /\ pc' = "preserved"
    /\ IF main = None
       THEN UNCHANGED <<raw, artifacts, made>>
       ELSE /\ made < MaxArtifacts
            /\ raw' = NewArtifact("diagnostic", main, None)
            /\ artifacts' = artifacts \cup {raw'} /\ made' = made + 1
    /\ UNCHANGED <<files, app, stage, quarantine, doomed, gen, faults, crashes,
                   damage, history>>

\* The fileset is copied as it is before any connection touches it.
PreserveRaw ==
    /\ pc = "staged" /\ pc' = "preserved"
    /\ IF main = None /\ wal = None
       THEN UNCHANGED <<raw, artifacts, made>>
       ELSE /\ made < MaxArtifacts
            /\ raw' = NewArtifact("diagnostic", main, wal)
            /\ artifacts' = artifacts \cup {raw'} /\ made' = made + 1
    /\ UNCHANGED <<files, app, stage, quarantine, doomed, gen, faults, crashes,
                   damage, history>>

\* A sound current database is backed up too; a missing one, or one that fails
\* inspection, is not.  The code takes an inspection that raises on a sound
\* database for one that fails, and goes on without backup and checkpoint.
InspectCurrent ==
    /\ pc = "preserved"
    /\ \/ /\ Sound(Current) /\ Current # Foreign
          /\ pc' = "saving" /\ UNCHANGED <<blind, faults>>
       \/ /\ Current \notin Gens \cup {Foreign}
          /\ pc' = "cleared" /\ UNCHANGED <<blind, faults>>
       \/ /\ Current \in Gens \cup {Foreign} /\ Fault
          /\ pc' = "cleared" /\ blind' = TRUE
    /\ UNCHANGED <<files, app, stage, quarantine, raw, doomed, artifacts, gen, made,
                   crashes, damage, source, prior, exact, outcome, overLog>>

SavePrior ==
    /\ pc = "saving" /\ made < MaxArtifacts
    /\ artifacts' = artifacts \cup {NewArtifact("pre_restore", Current, None)}
    /\ made' = made + 1 /\ pc' = "saved"
    /\ UNCHANGED <<files, app, stage, quarantine, raw, doomed, gen, faults, crashes,
                   damage, history>>

\* Mutant of CheckpointTarget: the log is left for the quarantine to take.
NoCheckpoint ==
    /\ pc = "saved" /\ pc' = "cleared"
    /\ UNCHANGED <<files, app, stage, quarantine, raw, doomed, artifacts, counters, history>>

\* PRAGMA wal_checkpoint(TRUNCATE); a busy database refuses the restore.
CheckpointTarget ==
    /\ pc = "saved" /\ pc' = "cleared"
    /\ main' = Current /\ wal' = None
    /\ UNCHANGED <<app, stage, quarantine, raw, doomed, artifacts, counters, history>>

\* Mutant of QuarantineSidecars: sidecars without a sound database are left alone.
SidecarsLeft ==
    /\ pc = "cleared" /\ pc' = "detached"
    /\ UNCHANGED <<files, app, stage, quarantine, raw, doomed, artifacts, counters, history>>

QuarantineSidecars ==
    /\ pc = "cleared" /\ pc' = "detached"
    /\ quarantine' = wal /\ wal' = None
    /\ UNCHANGED <<main, app, stage, raw, doomed, artifacts, counters, history>>

\* os.replace of the staged file; the disk may fail to hold its bytes.
Switch ==
    /\ pc = "detached" /\ pc' = "switched"
    /\ stage' = None
    /\ \/ main' = stage /\ UNCHANGED faults
       \/ main' = Damaged /\ Fault
    /\ UNCHANGED <<wal, app, quarantine, raw, doomed, artifacts, gen, made, crashes,
                   damage, history>>

\* The activated bytes and schema are compared with the manifest.
Verified ==
    /\ pc = "switched" /\ main = source
    /\ pc' = "idle" /\ outcome' = "success"
    /\ quarantine' = None /\ raw' = None
    /\ UNCHANGED <<files, app, stage, doomed, artifacts, counters, source, prior,
                   exact, blind, overLog>>

NotVerified ==
    /\ pc = "switched"
    /\ \/ main # source /\ UNCHANGED faults
       \/ main = source /\ Fault
    /\ pc' = "rollback"
    /\ UNCHANGED <<files, app, stage, quarantine, raw, doomed, artifacts, gen, made,
                   crashes, damage, history>>

\* Before the switch: sidecars go back, if they can, and the stage is removed.
RestoreFails ==
    /\ pc \in {"staged", "preserved", "saving", "saved", "cleared", "detached"}
    /\ \/ pc = "preserved" /\ Current = Foreign /\ UNCHANGED faults
       \/ pc \in {"staged", "saving"} /\ made = MaxArtifacts /\ UNCHANGED faults
       \/ Fault
    /\ LET log == IF quarantine = None THEN wal ELSE quarantine IN
         wal' \in {log} \cup (IF pc \in {"cleared", "detached"} THEN {None} ELSE {})
    /\ pc' = "idle" /\ outcome' = "failed"
    /\ stage' = None /\ quarantine' = None /\ raw' = None
    /\ UNCHANGED <<main, app, doomed, artifacts, gen, made, crashes, damage, source,
                   prior, exact, blind, overLog>>

\* _rollback_failed_activation: the preserved main file replaces the new one, or
\* the new one is removed when there was none ...
RollbackMain ==
    /\ pc = "rollback" /\ pc' = "rolling"
    /\ wal' = None
    /\ main' = IF raw = None THEN None ELSE raw.main
    /\ UNCHANGED <<app, stage, quarantine, raw, doomed, artifacts, counters, history>>

\* Mutant of RollbackSidecars: the database file alone is put back.
RollbackMainOnly ==
    /\ pc = "rolling" /\ pc' = "idle"
    /\ outcome' = "rolledback"
    /\ quarantine' = None /\ raw' = None
    /\ UNCHANGED <<files, app, stage, doomed, artifacts, counters, source, prior,
                   exact, blind, overLog>>

\* ... then the preserved sidecars are copied back beside it.
RollbackSidecars ==
    /\ pc = "rolling" /\ pc' = "idle"
    /\ wal' = IF raw = None THEN None ELSE raw.wal
    /\ outcome' = "rolledback"
    /\ quarantine' = None /\ raw' = None
    /\ UNCHANGED <<main, app, stage, doomed, artifacts, counters, source, prior,
                   exact, blind, overLog>>

\* The rollback itself fails: what was preserved stays for the operator.
RollbackFails ==
    /\ pc \in {"rollback", "rolling"} /\ Fault
    /\ pc' = "idle" /\ outcome' = "stranded"
    /\ quarantine' = None /\ raw' = None
    /\ UNCHANGED <<files, app, stage, doomed, artifacts, gen, made, crashes, damage,
                   source, prior, exact, blind, overLog>>

-----------------------------------------------------------------------------
(* apply_migration: copy, import in one transaction, validate, replace.    *)

MigrateCopy ==
    /\ pc = "idle" /\ app = "down"
    /\ Current \in Gens \cup {None}
    /\ stage' = Current /\ pc' = "importing" /\ outcome' = "none"
    /\ UNCHANGED <<files, app, quarantine, raw, doomed, artifacts, counters, source,
                   prior, exact, blind, overLog>>

\* The import commits to the copy, which is then validated.
MigrateImport ==
    /\ pc = "importing" /\ gen < MaxGen
    /\ gen' = gen + 1 /\ stage' = gen + 1 /\ source' = gen + 1
    /\ pc' = "imported"
    /\ UNCHANGED <<files, app, quarantine, raw, doomed, artifacts, made, faults,
                   crashes, damage, prior, exact, outcome, blind, overLog>>

\* Only the sidecars of the temporary file are removed, not those of the target.
MigrateActivate ==
    /\ pc = "imported" /\ pc' = "idle"
    /\ main' = stage /\ stage' = None
    /\ outcome' = "migrated" /\ prior' = None /\ exact' = NoFiles
    /\ overLog' = (overLog \/ wal # None)
    /\ UNCHANGED <<wal, app, quarantine, raw, doomed, artifacts, counters, source, blind>>

MigrateFails ==
    /\ pc \in Migrating
    /\ \/ Fault
       \/ pc = "importing" /\ gen = MaxGen /\ UNCHANGED faults
    /\ pc' = "idle" /\ stage' = None
    /\ UNCHANGED <<files, app, quarantine, raw, doomed, artifacts, gen, made, crashes,
                   damage, history>>

\* The command dies: its temporary files stay under names nothing else uses.
CommandCrash ==
    /\ pc # "idle" /\ crashes < MaxCrashes
    /\ crashes' = crashes + 1
    /\ pc' = "idle" /\ stage' = None /\ quarantine' = None /\ raw' = None
    /\ doomed' = {}
    /\ outcome' = CASE pc = "rolling" -> "stranded"
                     [] pc \in Restoring \ {"rolling"} -> "crashed"
                     [] OTHER -> outcome
    /\ UNCHANGED <<files, app, artifacts, gen, made, faults, damage, source, prior,
                   exact, blind, overLog>>

-----------------------------------------------------------------------------
Application == AppStart \/ Commit \/ Checkpoint \/ AppStop \/ AppCrash
Backup == BackupCopy \/ BackupPublish \/ BackupFails \/ PruneOne \/ PruneFails \/ PruneDone
Restore == \/ RestoreBegin \/ PreserveRaw \/ InspectCurrent \/ SavePrior
           \/ CheckpointTarget \/ QuarantineSidecars \/ Switch \/ Verified
           \/ NotVerified \/ RestoreFails \/ RollbackMain \/ RollbackSidecars
           \/ RollbackFails
Migrate == MigrateCopy \/ MigrateImport \/ MigrateActivate \/ MigrateFails
Disk == Lose \/ Rot

Next == Application \/ Backup \/ Restore \/ Migrate \/ Disk \/ CommandCrash

Spec == Init /\ [][Next]_vars

-----------------------------------------------------------------------------
(* Properties.                                                             *)

\* A log is replayed only over the file it was written for: whatever fails or
\* crashes, a backup or a restore never leaves a new main file beside an old
\* log.  Only the migration does, when a crash left a log there (see
\* MigrationIsWhatIsRead).
NeverTorn == Current = Torn => overLog

\* While a restore runs and after it crashed, the files read as the old database
\* or as the backup, never as a third one (old pages without their last commits,
\* new pages under old frames), except between the two halves of a rollback; and
\* except that a restore whose inspection raised moves the log away unread: then
\* the old pages are what is left, their last commits in the preserved fileset.
NoThirdDatabase ==
    (pc \in Restoring \ {"rolling"} \/ outcome = "crashed") /\ ~overLog
        => Current \in {prior, source, Damaged} \/ (blind /\ Current = exact.main)

\* The same without the exception.  No run checks it: TLC refutes it, and
\* FailureChangesNothing below (README, "What TLC refutes").
NoThirdDatabaseEver ==
    (pc \in Restoring \ {"rolling"} \/ outcome = "crashed") /\ ~overLog
        => Current \in {prior, source, Damaged}

\* What the restore found is never lost, be it damaged: it is still what is read, or
\* its files, log included, are in an artifact that retention never removes.
PriorIsKept ==
    exact # NoFiles
        => \/ Current = prior
           \/ \E a \in artifacts :
                 a.kind = "diagnostic" /\ [main |-> a.main, wal |-> a.wal] = exact

\* The report of a restore is true: success means the backup is what is read,
\* refusal or failure that nothing changed, rollback that the very files are back.
\* A failure after an inspection that raised may leave the log in quarantine, if
\* it cannot be put back, and then only the main file as it was.
ReportIsTrue ==
    /\ outcome = "success" /\ app = "down" => Current = source
    /\ outcome = "failed" /\ app = "down" /\ ~overLog
           => Current = prior \/ (blind /\ Current = exact.main)
    /\ outcome = "rolledback" /\ app = "down" => exact = [main |-> main, wal |-> wal]

\* A restore that reports a failure changed nothing that is read.  Refuted, too.
FailureChangesNothing == outcome = "failed" /\ app = "down" /\ ~overLog => Current = prior

\* Retention removes nothing but regular backups, and only while Keep newer ones
\* are sound: damaged ones do not count.
KeepsKnownGood ==
    [][\A a \in artifacts :
          (\A b \in artifacts' : b.at # a.at)
              => /\ a.kind = "backup"
                 /\ Cardinality({b \in KnownGood(artifacts') : b.at > a.at}) >= Keep]_vars

\* After a migration reports completion the database read is the validated one.
MigrationIsWhatIsRead == outcome = "migrated" /\ app = "down" => Current = source
=============================================================================
