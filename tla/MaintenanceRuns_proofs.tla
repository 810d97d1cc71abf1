----------------------- MODULE MaintenanceRuns_proofs -----------------------
(***************************************************************************)
(* Proofs about MaintenanceRuns, for any sets of runs, writers and jobs    *)
(* and any number of faults and crashes.                                   *)
(*                                                                         *)
(* The safety properties follow from one inductive invariant, Inv:  the    *)
(* lock names the start() in progress, the gate names that start(), the    *)
(* live thread or the writer that will release it, and the row of a run    *)
(* agrees with how far its start() and its thread have come.               *)
(***************************************************************************)
EXTENDS MaintenanceRuns, TLAPS

(* The manager's lock is held exactly by the call of start() between       *)
(* taking the gate and leaving its critical section.                       *)
LockInv == \A r \in Runs : lock = r <=> starter[r] \in Starting

(* A start() in progress, a live thread and a writer hold the gate ...     *)
HolderInv ==
    /\ \A r \in Runs : starter[r] \in Starting => gate = r
    /\ \A r \in Runs : thread[r] \in LiveThread => gate = r
    /\ \A w \in Writers : writer[w] = "writing" => gate = w

(* ... and nobody else does: this is NoLeakedLease.                        *)

(* A thread exists only after its start() has spawned it.                  *)
SpawnInv ==
    \A r \in Runs :
        thread[r] # "none" => starter[r] \in {"accepted", "replied", "errored"}

(* The row keeps pace with start() and with the thread.                    *)
RowInv ==
    \A r \in Runs :
        /\ starter[r] = "acquired" => row[r] = "Absent"
        /\ starter[r] = "inserted" => row[r] = "Queued"
        /\ thread[r] \in {"spawned", "loaded"}
             => row[r] \in {"Queued", "Cancelling"}
        /\ thread[r] \in InWorker => row[r] \in {"Running", "Cancelling"}
        /\ thread[r] = "bookkeeping" => row[r] \in Active
        /\ thread[r] = "closing" => outcome[r] \in Terminal

(* A run is registered from its spawn until its thread unregisters it ...  *)
RegisteredInv ==
    \A r \in Runs :
        thread[r] \in LiveThread \ {"unregistered"} => r \in registered

(* ... so a cancel that reaches its row before its worker ends has set its *)
(* event.                                                                  *)
EventInv ==
    \A r \in Runs :
        row[r] = "Cancelling" /\ thread[r] \in {"spawned", "loaded", "working"}
            => r \in cancelSet

(* Without a failing statement an active row belongs to a start() or to a  *)
(* thread that has yet to write its last status.                           *)
OwnerInv ==
    faults = 0 /\ Up =>
        \A r \in Runs : row[r] \in Active =>
            \/ starter[r] \in Starting
            \/ thread[r] \in {"spawned", "loaded", "bookkeeping"} \cup InWorker

(* Between two processes nothing runs.                                     *)
DownInv == phase = "down" => FreshProcess

GateInv == LockInv /\ HolderInv /\ NoLeakedLease /\ SpawnInv

HistoryInv == RowInv /\ RegisteredInv /\ EventInv /\ OwnerInv /\ DownInv

Inv == TypeOK /\ GateInv /\ HistoryInv

-----------------------------------------------------------------------------
(* Inv is inductive.                                                       *)

(* NoOwner names neither a run nor a writer.                               *)
LEMMA NoOwnerIsNobody == NoOwner \notin Runs /\ NoOwner \notin Writers
BY ConstantsAssumption

(* The invariant holds when the first process starts.                      *)
LEMMA InitInv == Init => Inv
<1> SUFFICES ASSUME Init PROVE Inv
  OBVIOUS
<1> USE ConstantsAssumption DEF Init, FreshProcess, Starting, LiveThread,
      InWorker, Status, Active
<1>1. TypeOK
  BY DEF TypeOK
<1>2. GateInv
  BY NoOwnerIsNobody DEF GateInv, LockInv, HolderInv, NoLeakedLease, SpawnInv
<1>3. HistoryInv
  BY DEF HistoryInv, RowInv, RegisteredInv, EventInv, OwnerInv, DownInv
<1>. QED
  BY <1>1, <1>2, <1>3 DEF Inv

(* Every step of start() preserves the invariant.                           *)
LEMMA StarterPreserves ==
    ASSUME Inv, NEW r \in Runs, StartAcquire(r) \/ StarterNext(r)
    PROVE  Inv'
<1> USE ConstantsAssumption, NoOwnerIsNobody
    DEF Inv, TypeOK, GateInv, HistoryInv, LockInv, HolderInv,
      NoLeakedLease, SpawnInv, RowInv, RegisteredInv, EventInv, OwnerInv, DownInv,
      Starting, LiveThread, InWorker, Active, Terminal, Status, FreshProcess, Up
<1>1. CASE StartAcquire(r)
  <2>1. TypeOK'
    BY <1>1 DEF StartAcquire, Acquire, StarterTo
  <2>2. GateInv'
    BY <1>1 DEF StartAcquire, Acquire, StarterTo
  <2>3. HistoryInv'
    BY <1>1 DEF StartAcquire, Acquire, StarterTo
  <2>. QED
    BY <2>1, <2>2, <2>3
<1>2. CASE StartInsert(r)
  BY <1>2 DEF StartInsert, SetStatus, StarterTo, JobActive
<1>3. CASE StartInsertRefused(r)
  BY <1>3 DEF StartInsertRefused, Release, Fault, StarterTo
<1>4. CASE StartSpawn(r)
  BY <1>4 DEF StartSpawn, ThreadTo, StarterTo
<1>5. CASE StartSpawnFails(r)
  BY <1>5 DEF StartSpawnFails, Fault, SetStatus, Release, StarterTo
<1>6. CASE StartReturn(r)
  BY <1>6 DEF StartReturn, StarterTo, Fault
<1>. QED
  BY <1>1, <1>2, <1>3, <1>4, <1>5, <1>6 DEF StarterNext

(* Every step of a run's thread preserves it.                               *)
LEMMA ThreadPreserves ==
    ASSUME Inv, NEW r \in Runs, ThreadNext(r)
    PROVE  Inv'
<1> USE ConstantsAssumption, NoOwnerIsNobody
    DEF Inv, TypeOK, GateInv, HistoryInv, LockInv, HolderInv,
      NoLeakedLease, SpawnInv, RowInv, RegisteredInv, EventInv, OwnerInv, DownInv,
      Starting, LiveThread, InWorker, Active, Terminal, Status, FreshProcess, Up
<1>1. CASE ExecLoad(r)
  BY <1>1 DEF ExecLoad, ThreadTo, ThreadStep, Fault
<1>2. CASE ExecBegin(r)
  BY <1>2 DEF ExecBegin, CancelSeen, UpdateRun, UpdateFails, SetStatus, Fault, ThreadTo,
         ThreadStep
<1>3. CASE WorkerReturns(r)
  BY <1>3 DEF WorkerReturns, ThreadTo, ThreadStep
<1>4. CASE WorkerRaises(r)
  BY <1>4 DEF WorkerRaises, CancelSeen, ThreadTo, ThreadStep
<1>5. CASE CheckCancelled(r)
  BY <1>5 DEF CheckCancelled, CancelSeen, ThreadTo, ThreadStep
<1>6. CASE RecordOutcome(r)
  BY <1>6 DEF RecordOutcome, UpdateRun, UpdateFails, SetStatus, Fault, ThreadTo, ThreadStep
<1>7. CASE RecordFailure(r)
  BY <1>7 DEF RecordFailure, UpdateRun, UpdateFails, SetStatus, Fault, ThreadTo, ThreadStep
<1>8. CASE Unregister(r)
  BY <1>8 DEF Unregister, ThreadTo, ThreadStep
<1>9. CASE ReleaseLease(r)
  BY <1>9 DEF ReleaseLease, Release, ThreadTo, ThreadStep
<1>. QED
  BY <1>1, <1>2, <1>3, <1>4, <1>5, <1>6, <1>7, <1>8, <1>9 DEF ThreadNext

(* A cancel request preserves it.                                          *)
LEMMA CancelPreserves == ASSUME Inv, NEW r \in Runs, Cancel(r) PROVE Inv'
<1> USE ConstantsAssumption, NoOwnerIsNobody
    DEF Inv, TypeOK, GateInv, HistoryInv, LockInv, HolderInv,
      NoLeakedLease, SpawnInv, RowInv, RegisteredInv, EventInv, OwnerInv, DownInv,
      Starting, LiveThread, InWorker, Active, Terminal, Status, FreshProcess, Up
<1>. QED
  BY DEF Cancel, Cancellable, UpdateRun, UpdateFails, SetStatus, Fault, EventsOf

(* A writer preserves it.                                                  *)
LEMMA WriterPreserves ==
    ASSUME Inv, NEW w \in Writers, WriterBegin(w) \/ WriterEnd(w)
    PROVE  Inv'
<1> USE ConstantsAssumption, NoOwnerIsNobody
    DEF Inv, TypeOK, GateInv, HistoryInv, LockInv, HolderInv,
      NoLeakedLease, SpawnInv, RowInv, RegisteredInv, EventInv, OwnerInv, DownInv,
      Starting, LiveThread, InWorker, Active, Terminal, Status, FreshProcess, Up
<1>1. CASE WriterBegin(w)
  BY <1>1 DEF WriterBegin, Acquire
<1>2. CASE WriterEnd(w)
  BY <1>2 DEF WriterEnd, Release
<1>. QED
  BY <1>1, <1>2

(* The shutdown, the end of the process and the next start preserve it.    *)
LEMMA ProcessPreserves ==
    ASSUME Inv,
           \/ CloseGate \/ CloseManager \/ Exit \/ Crash \/ Restart
           \/ \E r \in Runs : SignalCancel(r)
    PROVE  Inv'
<1> USE ConstantsAssumption, NoOwnerIsNobody
    DEF Inv, TypeOK, GateInv, HistoryInv, LockInv, HolderInv,
      NoLeakedLease, SpawnInv, RowInv, RegisteredInv, EventInv, OwnerInv, DownInv,
      Starting, LiveThread, InWorker, Active, Terminal, Status, FreshProcess, Up
<1>1. CASE CloseGate
  BY <1>1 DEF CloseGate
<1>2. CASE CloseManager
  BY <1>2 DEF CloseManager
<1>3. ASSUME NEW r \in Runs, SignalCancel(r)
      PROVE  Inv'
  BY <1>3 DEF SignalCancel
<1>4. CASE Exit
  BY <1>4 DEF Exit, ProcessEnds
<1>5. CASE Crash
  BY <1>5 DEF Crash, ProcessEnds
<1>6. CASE Restart
  BY <1>6 DEF Restart, UpdateFails, Fault, Interrupted, volatile
<1>. QED
  BY <1>1, <1>2, <1>3, <1>4, <1>5, <1>6

(* Nothing changes in a stuttering step.                                   *)
LEMMA StutterPreserves == ASSUME Inv, UNCHANGED vars PROVE Inv'
<1> USE DEF vars, volatile,
      Inv, TypeOK, GateInv, HistoryInv, LockInv, HolderInv,
      NoLeakedLease, SpawnInv, RowInv, RegisteredInv, EventInv, OwnerInv, DownInv,
      Starting, LiveThread, InWorker, Active, Terminal, Status, FreshProcess, Up
<1>. QED
  OBVIOUS

(* Every step, of anyone, preserves it.                                    *)
LEMMA NextPreserves == Inv /\ [Next]_vars => Inv'
<1> SUFFICES ASSUME Inv, [Next]_vars PROVE Inv'
  OBVIOUS
<1>. QED
  BY StarterPreserves, ThreadPreserves, CancelPreserves, WriterPreserves,
     ProcessPreserves, StutterPreserves DEF Next

(* The inductive invariant holds in every reachable state.                 *)
THEOREM Invariance == Spec => []Inv
  BY InitInv, NextPreserves, PTL DEF Spec

-----------------------------------------------------------------------------
(* The safety properties.                                                  *)

(* Every variable keeps its type.                                          *)
THEOREM TypeCorrect == Spec => []TypeOK
<1>1. Inv => TypeOK
  BY DEF Inv
<1>. QED
  BY <1>1, Invariance, PTL

(* Whatever mutates shared data holds the gate, so there is one at a time. *)
THEOREM Serialization == Spec => []MutationsSerialized
<1>1. Inv => MutationsSerialized
  BY DEF Inv, GateInv, HolderInv, MutationsSerialized, Mutators, InWorker,
         LiveThread
<1>. QED
  BY <1>1, Invariance, PTL

(* Two operations never mutate shared data together.                       *)
THEOREM AtMostOneMutator ==
    Spec => [](\A a, b \in Mutators : a = b)
<1>1. MutationsSerialized => \A a, b \in Mutators : a = b
  BY DEF MutationsSerialized
<1>. QED
  BY <1>1, Serialization, PTL

(* The gate always names somebody on its way to releasing it.              *)
THEOREM LeaseNeverLeaks == Spec => []NoLeakedLease
<1>1. Inv => NoLeakedLease
  BY DEF Inv, GateInv
<1>. QED
  BY <1>1, Invariance, PTL

(* A run at work is shown as running or cancelling.                        *)
THEOREM WorkerRowIsOpen == Spec => []WorkerRowOpen
<1>1. Inv => WorkerRowOpen
  BY DEF Inv, HistoryInv, RowInv, WorkerRowOpen
<1>. QED
  BY <1>1, Invariance, PTL

(* Without failing statements an active row has an owner.                  *)
THEOREM ActiveRowsAreOwned == Spec => []ActiveRowHasOwner
<1>1. Inv => ActiveRowHasOwner
  BY DEF Inv, HistoryInv, OwnerInv, ActiveRowHasOwner, InWorker, LiveThread
<1>. QED
  BY <1>1, Invariance, PTL

-----------------------------------------------------------------------------
(* The action properties.                                                  *)

Finality == \A r \in Runs : row[r] \in Terminal => row'[r] = row[r]

(* No step rewrites the status of a finished run.                          *)
LEMMA NextKeepsTerminal == Inv /\ [Next]_vars => Finality
<1> SUFFICES ASSUME Inv, [Next]_vars, NEW q \in Runs, row[q] \in Terminal
             PROVE  row'[q] = row[q]
  BY DEF Finality
<1> USE DEF Inv, TypeOK, HistoryInv, RowInv, DownInv, Active, Terminal, InWorker
<1>1. ASSUME NEW r \in Runs, StartAcquire(r) \/ StarterNext(r)
      PROVE  row'[q] = row[q]
  BY <1>1 DEF StarterNext, StartAcquire, StartInsert, StartInsertRefused,
     StartSpawn, StartSpawnFails, StartReturn, SetStatus
<1>2. ASSUME NEW r \in Runs, ThreadNext(r)
      PROVE  row'[q] = row[q]
  BY <1>2 DEF ThreadNext, ExecLoad, ExecBegin, WorkerReturns, WorkerRaises,
     CheckCancelled, RecordOutcome, RecordFailure, Unregister, ReleaseLease,
     UpdateRun, UpdateFails, SetStatus
<1>3. ASSUME NEW r \in Runs, Cancel(r) \/ SignalCancel(r)
      PROVE  row'[q] = row[q]
  BY <1>3 DEF Cancel, Cancellable, SignalCancel, UpdateRun, UpdateFails,
     SetStatus
<1>4. ASSUME NEW w \in Writers, WriterBegin(w) \/ WriterEnd(w)
      PROVE  row'[q] = row[q]
  BY <1>4 DEF WriterBegin, WriterEnd
<1>5. CASE CloseGate \/ CloseManager \/ Exit \/ Crash
  BY <1>5 DEF CloseGate, CloseManager, Exit, Crash, ProcessEnds
<1>6. CASE Restart
  BY <1>6 DEF Restart, Interrupted, UpdateFails
<1>7. CASE UNCHANGED vars
  BY <1>7 DEF vars
<1>. QED
  BY <1>1, <1>2, <1>3, <1>4, <1>5, <1>6, <1>7 DEF Next

(* A finished run keeps its status, across restarts too.                   *)
THEOREM FinalityHolds == Spec => TerminalIsFinal
<1>1. Inv /\ [Next]_vars => [Finality]_vars
  BY NextKeepsTerminal
<1>. QED
  BY <1>1, Invariance, PTL DEF Spec, TerminalIsFinal, Finality

CancelledStaysIdle ==
    \A r \in Runs :
        row[r] = "Cancelling" /\ thread[r] \in {"spawned", "loaded"}
            => thread'[r] # "working"

(* Only ExecBegin starts a worker, and it sees the event a cancel has set. *)
LEMMA NextKeepsCancelled == Inv /\ [Next]_vars => CancelledStaysIdle
<1> SUFFICES ASSUME Inv, [Next]_vars, NEW q \in Runs, row[q] = "Cancelling",
                    thread[q] \in {"spawned", "loaded"}
             PROVE  thread'[q] # "working"
  BY DEF CancelledStaysIdle
<1>1. q \in cancelSet /\ TypeOK
  BY DEF Inv, HistoryInv, EventInv
<1> USE <1>1 DEF TypeOK
<1>2. ASSUME NEW r \in Runs, StartAcquire(r) \/ StarterNext(r)
      PROVE  thread'[q] # "working"
  BY <1>2 DEF StarterNext, StartAcquire, StartInsert, StartInsertRefused,
     StartSpawn, StartSpawnFails, StartReturn, ThreadTo
<1>3. ASSUME NEW r \in Runs, ThreadNext(r)
      PROVE  thread'[q] # "working"
  BY <1>3 DEF ThreadNext, ExecLoad, ExecBegin, CancelSeen, WorkerReturns,
     WorkerRaises, CheckCancelled, RecordOutcome, RecordFailure, Unregister,
     ReleaseLease, ThreadTo
<1>4. ASSUME NEW r \in Runs, Cancel(r) \/ SignalCancel(r)
      PROVE  thread'[q] # "working"
  BY <1>4 DEF Cancel, SignalCancel
<1>5. ASSUME NEW w \in Writers, WriterBegin(w) \/ WriterEnd(w)
      PROVE  thread'[q] # "working"
  BY <1>5 DEF WriterBegin, WriterEnd
<1>6. CASE CloseGate \/ CloseManager \/ Exit \/ Crash \/ Restart
  BY <1>6 DEF CloseGate, CloseManager, Exit, Crash, ProcessEnds, Restart, volatile
<1>7. CASE UNCHANGED vars
  BY <1>7 DEF vars, volatile
<1>. QED
  BY <1>2, <1>3, <1>4, <1>5, <1>6, <1>7 DEF Next

(* A run whose cancel was acknowledged before its worker started never     *)
(* starts it.                                                              *)
THEOREM CancelledNeverWorks == Spec => CancelledBeforeStartNeverWorks
<1>1. Inv /\ [Next]_vars => [CancelledStaysIdle]_vars
  BY NextKeepsCancelled
<1>. QED
  BY <1>1, Invariance, PTL
     DEF Spec, CancelledBeforeStartNeverWorks, CancelledStaysIdle

(* What is left of a run whose cancel was acknowledged at work: its event  *)
(* stays set until its result is decided, and nothing on its way writes    *)
(* Completed, in this process or the next.                                 *)
Honoured(q) ==
    /\ row[q] \in {"Cancelling", "Cancelled", "Failed"}
    /\ starter[q] \notin Starting
    /\ thread[q] \notin {"spawned", "loaded"}
    /\ thread[q] \in {"working", "returned"} => q \in cancelSet
    /\ thread[q] = "closing" => outcome[q] # "Completed"

(* No step forgets an acknowledged cancel.                                 *)
LEMMA NextKeepsHonoured ==
    ASSUME NEW q \in Runs
    PROVE  Inv /\ Honoured(q) /\ [Next]_vars => Honoured(q)'
<1> SUFFICES ASSUME Inv, Honoured(q), [Next]_vars PROVE Honoured(q)'
  OBVIOUS
<1> USE DEF Inv, TypeOK, HistoryInv, RowInv, Honoured, Starting
<1>1. ASSUME NEW r \in Runs, StartAcquire(r) \/ StarterNext(r)
      PROVE  Honoured(q)'
  BY <1>1 DEF StarterNext, StartAcquire, StartInsert, StartInsertRefused,
     StartSpawn, StartSpawnFails, StartReturn, SetStatus, StarterTo, ThreadTo
<1>2. ASSUME NEW r \in Runs, ThreadNext(r)
      PROVE  Honoured(q)'
  BY <1>2 DEF ThreadNext, ThreadStep, ExecLoad, ExecBegin, CancelSeen,
     WorkerReturns, WorkerRaises, CheckCancelled, RecordOutcome, RecordFailure,
     Unregister, ReleaseLease, UpdateRun, UpdateFails, SetStatus, ThreadTo,
     Terminal, InWorker
<1>3. ASSUME NEW r \in Runs, Cancel(r) \/ SignalCancel(r)
      PROVE  Honoured(q)'
  BY <1>3 DEF Cancel, SignalCancel, UpdateRun, UpdateFails, SetStatus
<1>4. ASSUME NEW w \in Writers, WriterBegin(w) \/ WriterEnd(w)
      PROVE  Honoured(q)'
  BY <1>4 DEF WriterBegin, WriterEnd
<1>5. CASE CloseGate \/ CloseManager \/ Exit \/ Crash
  BY <1>5 DEF CloseGate, CloseManager, Exit, Crash, ProcessEnds
<1>6. CASE Restart
  BY <1>6 DEF Restart, UpdateFails, volatile
<1>7. CASE UNCHANGED vars
  BY <1>7 DEF vars, volatile
<1>. QED
  BY <1>1, <1>2, <1>3, <1>4, <1>5, <1>6, <1>7 DEF Next

(* A cancel acknowledged while the worker runs is honoured for ever: the   *)
(* run is never recorded as Completed.                                     *)
THEOREM CancelsAreHonoured == Spec => AcknowledgedCancelHonoured
<1>1. ASSUME NEW r \in Runs
      PROVE  Spec => [](row[r] = "Cancelling" /\ thread[r] = "working"
                            => [](row[r] # "Completed"))
  <2>1. Inv /\ row[r] = "Cancelling" /\ thread[r] = "working" => Honoured(r)
    BY DEF Inv, GateInv, SpawnInv, HistoryInv, EventInv, Starting, Honoured
  <2>2. Honoured(r) => row[r] # "Completed"
    BY DEF Honoured
  <2>3. Inv /\ Honoured(r) /\ [Next]_vars => Honoured(r)'
    BY NextKeepsHonoured
  <2>. QED
    BY <2>1, <2>2, <2>3, Invariance, PTL DEF Spec
<1>2. Spec => \A r \in Runs : [](row[r] = "Cancelling" /\ thread[r] = "working"
                                    => [](row[r] # "Completed"))
  BY <1>1
<1>. QED
  BY <1>2 DEF AcknowledgedCancelHonoured

-----------------------------------------------------------------------------
(* The manager implements RunContract.                                     *)

(* The first process starts in a state RunContract starts in.              *)
LEMMA InitRefines == Init => Contract!Init
  BY DEF Init, FreshProcess, Mutators, InWorker, Contract!Init

(* A step that leaves the threads and the writers where they are leaves    *)
(* the mutators alone.                                                     *)
LEMMA SameMutators ==
    ASSUME UNCHANGED <<thread, writer>>
    PROVE  Mutators' = Mutators
  BY DEF Mutators

(* A thread that moves within one side of InWorker changes no mutator.     *)
LEMMA SameSide ==
    ASSUME Inv, NEW r \in Runs, NEW s, ThreadTo(r, s), UNCHANGED writer,
           thread[r] \in InWorker <=> s \in InWorker
    PROVE  Mutators' = Mutators
  BY DEF Inv, TypeOK, Mutators, ThreadTo

(* A run whose thread is not in its worker is no mutator.                  *)
LEMMA MutatingRun ==
    ASSUME NEW r \in Runs PROVE r \in Mutators <=> thread[r] \in InWorker
  BY ConstantsAssumption DEF Mutators

(* The gate held by a run leaves room for no mutator but that run.         *)
LEMMA HeldByRun ==
    ASSUME Inv, NEW r \in Runs, gate = r
    PROVE  Mutators = IF thread[r] \in InWorker THEN {r} ELSE {}
  BY ConstantsAssumption
     DEF Inv, GateInv, HolderInv, Mutators, InWorker, LiveThread

AbstractStep == Contract!Next \/ UNCHANGED Contract!cvars

(* A step of start() submits the run, settles it, or is invisible.         *)
LEMMA StarterRefines ==
    ASSUME Inv, NEW r \in Runs, StartAcquire(r) \/ StarterNext(r)
    PROVE  AbstractStep
<1> USE DEF Inv, TypeOK, GateInv, HolderInv, SpawnInv, HistoryInv, RowInv,
        Starting, AbstractStep, Contract!Next, Contract!cvars
<1>1. CASE StartAcquire(r) \/ StartInsertRefused(r) \/ StartReturn(r)
  BY <1>1, SameMutators DEF StartAcquire, StartInsertRefused, StartReturn
<1>2. CASE StartInsert(r)
  <2>1. Contract!Submit(r)
    BY <1>2, SameMutators
       DEF StartInsert, JobActive, SetStatus, Active, Contract!Submit,
           Contract!Becomes, Contract!ActiveStatus
  <2>. QED
    BY <2>1
<1>3. CASE StartSpawn(r)
  BY <1>3, SameSide DEF StartSpawn, InWorker
<1>4. CASE StartSpawnFails(r)
  <2>1. r \notin Mutators /\ Mutators' = Mutators
    BY <1>4, SameMutators, MutatingRun DEF StartSpawnFails, InWorker
  <2>2. Contract!Settle(r) \/ UNCHANGED row
    BY <1>4, <2>1 DEF StartSpawnFails, SetStatus, Contract!Settle,
       Contract!Becomes, Contract!ActiveStatus
  <2>. QED
    BY <2>1, <2>2
<1>. QED
  BY <1>1, <1>2, <1>3, <1>4 DEF StarterNext

(* A thread that leaves InWorker leaves nobody mutating.                   *)
LEMMA LeavingWorker ==
    ASSUME Inv, NEW r \in Runs, NEW s, s \notin InWorker, ThreadTo(r, s),
           UNCHANGED writer, thread[r] \in InWorker
    PROVE  Mutators = {r} /\ Mutators' = {}
<1>1. gate = r /\ thread[r] \in LiveThread
  BY DEF Inv, GateInv, HolderInv, InWorker, LiveThread
<1>2. Mutators = {r}
  BY <1>1, HeldByRun
<1>3. Mutators' = Mutators \ {r}
  BY <1>2, ConstantsAssumption DEF Inv, TypeOK, Mutators, ThreadTo
<1>. QED
  BY <1>2, <1>3

(* A step of a thread begins, finishes or settles its run, or is invisible. *)
LEMMA ThreadRefines ==
    ASSUME Inv, NEW r \in Runs, ThreadNext(r)
    PROVE  AbstractStep
<1> USE DEF AbstractStep, Contract!Next, Contract!cvars, ThreadStep
<1>1. CASE \/ ExecLoad(r) \/ WorkerReturns(r) \/ WorkerRaises(r)
           \/ CheckCancelled(r) \/ Unregister(r) \/ ReleaseLease(r)
  BY <1>1, SameSide
     DEF ExecLoad, WorkerReturns, WorkerRaises, CheckCancelled, Unregister,
         ReleaseLease, InWorker
<1>2. CASE ExecBegin(r)
  <2>1. thread[r] = "loaded" /\ row[r] \in {"Queued", "Cancelling"}
    BY <1>2 DEF ExecBegin, Inv, HistoryInv, RowInv
  <2>2. gate = r
    BY <2>1 DEF Inv, GateInv, HolderInv, LiveThread
  <2>3. Mutators = {}
    BY <2>1, <2>2, HeldByRun DEF InWorker
  <2>4. CASE ThreadTo(r, "working") /\ ~CancelSeen(r) /\ UpdateRun(r, "Running")
    <3>1. row[r] = "Queued"
      BY <2>1, <2>4 DEF CancelSeen, Inv, HistoryInv, EventInv
    <3>2. Mutators' = {r}
      BY <1>2, <2>3, <2>4, ConstantsAssumption
         DEF ExecBegin, Inv, TypeOK, Mutators, ThreadTo, InWorker
    <3>3. Contract!Begin(r)
      BY <2>3, <2>4, <3>1, <3>2
         DEF UpdateRun, SetStatus, Contract!Begin, Contract!Becomes
    <3>. QED
      BY <3>3
  <2>5. CASE ThreadTo(r, "finishing") /\ UpdateRun(r, "Cancelled")
    <3>1. Mutators' = Mutators
      BY <1>2, <2>1, <2>5, SameSide DEF ExecBegin, InWorker
    <3>2. Contract!Settle(r)
      BY <2>1, <2>3, <2>5, <3>1
         DEF UpdateRun, SetStatus, Contract!Settle, Contract!Becomes,
             Contract!ActiveStatus
    <3>. QED
      BY <3>2
  <2>6. CASE ThreadTo(r, "bookkeeping") /\ UpdateFails
    BY <1>2, <2>1, <2>6, SameSide DEF ExecBegin, InWorker, UpdateFails
  <2>. QED
    BY <1>2, <2>4, <2>5, <2>6 DEF ExecBegin
<1>3. CASE RecordOutcome(r)
  <2>1. /\ thread[r] = "closing"
        /\ row[r] \in {"Running", "Cancelling"}
        /\ outcome[r] \in Terminal
    BY <1>3 DEF RecordOutcome, Inv, HistoryInv, RowInv, InWorker
  <2>2. Mutators = {r} /\ Mutators' = {}
    BY <1>3, <2>1, LeavingWorker DEF RecordOutcome, InWorker
  <2>3. Contract!Finish(r)
    BY <1>3, <2>1, <2>2
       DEF RecordOutcome, UpdateRun, UpdateFails, SetStatus, Terminal,
           Contract!Finish, Contract!Becomes, Contract!TerminalStatus
  <2>. QED
    BY <2>3
<1>4. CASE RecordFailure(r)
  <2>1. thread[r] = "bookkeeping" /\ row[r] \in Active
    BY <1>4 DEF RecordFailure, Inv, HistoryInv, RowInv
  <2>2. r \notin Mutators /\ Mutators' = Mutators
    BY <1>4, <2>1, SameSide, MutatingRun DEF RecordFailure, InWorker
  <2>3. Contract!Settle(r) \/ UNCHANGED row
    BY <1>4, <2>1, <2>2
       DEF RecordFailure, UpdateRun, UpdateFails, SetStatus, Active,
           Contract!Settle, Contract!Becomes, Contract!ActiveStatus
  <2>. QED
    BY <2>2, <2>3
<1>. QED
  BY <1>1, <1>2, <1>3, <1>4 DEF ThreadNext

(* A cancel request is one in RunContract, or its UPDATE failed.           *)
LEMMA CancelRefines == ASSUME Inv, NEW r \in Runs, Cancel(r) PROVE AbstractStep
<1>1. Contract!RequestCancel(r) \/ UNCHANGED <<row, Mutators>>
  BY SameMutators
     DEF Cancel, Cancellable, UpdateRun, UpdateFails, SetStatus,
         Contract!RequestCancel, Contract!Becomes
<1>. QED
  BY <1>1 DEF AbstractStep, Contract!Next, Contract!cvars

(* A writer begins and ends its operation alone.                           *)
LEMMA WriterRefines ==
    ASSUME Inv, NEW w \in Writers, WriterBegin(w) \/ WriterEnd(w)
    PROVE  AbstractStep
<1> USE ConstantsAssumption, NoOwnerIsNobody
    DEF Inv, TypeOK, GateInv, HolderInv, Mutators, InWorker, LiveThread
<1>1. CASE WriterBegin(w)
  <2>1. Mutators = {} /\ Mutators' = {w}
    BY <1>1 DEF WriterBegin, Acquire
  <2>. QED
    BY <1>1, <2>1 DEF WriterBegin, AbstractStep, Contract!Next,
       Contract!BeginWrite
<1>2. CASE WriterEnd(w)
  <2>1. Mutators = {w} /\ Mutators' = {}
    BY <1>2 DEF WriterEnd
  <2>. QED
    BY <1>2, <2>1 DEF WriterEnd, AbstractStep, Contract!Next, Contract!EndWrite
<1>. QED
  BY <1>1, <1>2

(* The process stops, or the next one recovers, or nothing is visible.     *)
LEMMA ProcessRefines ==
    ASSUME Inv,
           \/ CloseGate \/ CloseManager \/ Exit \/ Crash \/ Restart
           \/ \E r \in Runs : SignalCancel(r)
    PROVE  AbstractStep
<1> USE DEF AbstractStep, Contract!Next, Contract!cvars
<1>1. CASE CloseGate \/ CloseManager \/ \E r \in Runs : SignalCancel(r)
  BY <1>1, SameMutators DEF CloseGate, CloseManager, SignalCancel
<1>2. CASE Exit \/ Crash
  <2>1. Mutators' = {}
    BY <1>2 DEF Exit, Crash, ProcessEnds, Mutators, InWorker
  <2>. QED
    BY <1>2, <2>1 DEF Exit, Crash, ProcessEnds, Contract!Stop
<1>3. CASE Restart
  <2>1. Mutators = {} /\ Mutators' = Mutators
    BY <1>3 DEF Restart, volatile, Inv, HistoryInv, DownInv, FreshProcess,
       Mutators, InWorker
  <2>. QED
    BY <1>3, <2>1 DEF Restart, UpdateFails, Interrupted, Active,
       Contract!Recover, Contract!ActiveStatus
<1>. QED
  BY <1>1, <1>2, <1>3

(* Every step is a step of RunContract or stutters there.                  *)
LEMMA NextRefines == Inv /\ [Next]_vars => [Contract!Next]_(Contract!cvars)
<1> SUFFICES ASSUME Inv, [Next]_vars PROVE AbstractStep
  BY DEF AbstractStep
<1>1. CASE UNCHANGED vars
  BY <1>1, SameMutators DEF vars, volatile, AbstractStep, Contract!cvars
<1>. QED
  BY <1>1, StarterRefines, ThreadRefines, CancelRefines, WriterRefines,
     ProcessRefines DEF Next

(* Every behaviour of the manager is one RunContract allows.               *)
THEOREM Refinement == Spec => ImplementsContract
  BY InitRefines, NextRefines, Invariance, PTL
     DEF Spec, ImplementsContract, Contract!Spec
=============================================================================
