-------------------------- MODULE MaintenanceRuns --------------------------
(***************************************************************************)
(* The maintenance-run lifecycle of backend/utility_runs.py over the       *)
(* mutation gate of backend/operation_gate.py, in the single backend       *)
(* process of server.py.                                                   *)
(*                                                                         *)
(* A run is one call of UtilityRunManager.start: the caller takes the      *)
(* gate, inserts the run's row and spawns the thread that executes it.     *)
(* API requests and the email digest take the same gate for the length of  *)
(* one operation (writers).  Requests to cancel, the ordered shutdown, a   *)
(* crash of the process and the reconciliation at the next start act on    *)
(* the same rows, events and threads.                                      *)
(*                                                                         *)
(* The manager's lock is re-entrant and every critical section but one is  *)
(* a single step here; start() keeps it over several (lock = its run).     *)
(***************************************************************************)
EXTENDS Naturals, FiniteSets

CONSTANTS
    Runs,        \* run identifiers, one per call of start()
    Writers,     \* operations that take the gate without a run
    JobKeys,     \* maintenance jobs
    JobKeyOf,    \* the job each run is for
    NoOwner,     \* the gate, or the lock, is free
    MaxFaults,   \* bound: failing SQLite statements and thread starts
    MaxCrashes   \* bound: abrupt ends of the process

ASSUME ConstantsAssumption ==
    /\ Runs \cap Writers = {}
    /\ NoOwner \notin Runs \cup Writers
    /\ JobKeyOf \in [Runs -> JobKeys]
    /\ MaxFaults \in Nat
    /\ MaxCrashes \in Nat

VARIABLES
    \* persistent
    row,           \* status of each run in maintenance_job_runs
    \* the process
    phase,         \* serving, or how far the shutdown has come, or down
    gate,          \* MutationGate._active
    gateAccepting, \* MutationGate._accepting
    accepting,     \* UtilityRunManager._accepting
    lock,          \* the start() call holding UtilityRunManager._lock
    registered,    \* keys of _cancel_events and of _threads
    cancelSet,     \* runs whose cancel event is set
    toSignal,      \* events shutdown() has still to set
    starter,       \* where each start() call is
    thread,        \* where each _execute thread is
    outcome,       \* the status a thread is about to record
    writer,        \* where each writer is
    \* bounds
    faults,
    crashes

volatile == <<gate, gateAccepting, accepting, lock, registered, cancelSet,
              toSignal, starter, thread, outcome, writer>>
vars == <<row, phase, volatile, faults, crashes>>

Active   == {"Queued", "Running", "Cancelling"}
Terminal == {"Completed", "Cancelled", "Failed"}
Status   == {"Absent"} \cup Active \cup Terminal

\* start() before it returns; the thread from its first step to its last.
Starting   == {"acquired", "inserted"}
LiveThread == {"spawned", "loaded", "working", "returned", "closing",
               "bookkeeping", "finishing", "unregistered"}

\* The worker is running, or its result is not recorded yet.
InWorker == {"working", "returned", "closing"}

Up == phase # "down"

TypeOK ==
    /\ row \in [Runs -> Status]
    /\ phase \in {"serving", "closed", "draining", "down"}
    /\ gate \in Runs \cup Writers \cup {NoOwner}
    /\ gateAccepting \in BOOLEAN
    /\ accepting \in BOOLEAN
    /\ lock \in Runs \cup {NoOwner}
    /\ registered \subseteq Runs
    /\ cancelSet \subseteq Runs
    /\ toSignal \subseteq Runs
    /\ starter \in [Runs -> Starting \cup {"idle", "rejected", "accepted",
                                           "replied", "errored"}]
    /\ thread \in [Runs -> LiveThread \cup {"none", "done"}]
    /\ outcome \in [Runs -> Terminal \cup {"none"}]
    /\ writer \in [Writers -> {"idle", "writing"}]
    /\ faults \in 0..MaxFaults
    /\ crashes \in 0..MaxCrashes

FreshProcess ==
    /\ gate = NoOwner
    /\ gateAccepting = TRUE
    /\ accepting = TRUE
    /\ lock = NoOwner
    /\ registered = {}
    /\ cancelSet = {}
    /\ toSignal = {}
    /\ starter = [r \in Runs |-> "idle"]
    /\ thread = [r \in Runs |-> "none"]
    /\ outcome = [r \in Runs |-> "none"]
    /\ writer = [w \in Writers |-> "idle"]

Init ==
    /\ row = [r \in Runs |-> "Absent"]
    /\ phase = "serving"
    /\ FreshProcess
    /\ faults = 0
    /\ crashes = 0

-----------------------------------------------------------------------------
(* The mutation gate.                                                      *)

\* acquire() raises unless the gate accepts and nothing is active.
Acquire(op) ==
    /\ gateAccepting
    /\ gate = NoOwner
    /\ gate' = op

\* release() clears the gate only for the operation that holds it.
Release(op) == gate' = IF gate = op THEN NoOwner ELSE gate

\* A SQLite statement, or the start of a thread, fails.
Fault ==
    /\ faults < MaxFaults
    /\ faults' = faults + 1

\* cancel_event.is_set()
CancelSeen(r) == r \in cancelSet

SetStatus(r, s) == row' = [row EXCEPT ![r] = s]
StarterTo(r, s) == starter' = [starter EXCEPT ![r] = s]
ThreadTo(r, s)  == thread' = [thread EXCEPT ![r] = s]

\* _update_run: one UPDATE of the status; a failing statement changes nothing.
UpdateRun(r, s) == SetStatus(r, s) /\ UNCHANGED faults
UpdateFails     == Fault /\ UNCHANGED row

-----------------------------------------------------------------------------
(* start().  A call that is refused at once changes nothing.               *)

StartAcquire(r) ==
    /\ Up
    /\ lock = NoOwner
    /\ accepting
    /\ starter[r] = "idle"
    /\ row[r] = "Absent"
    /\ Acquire(r)
    /\ lock' = r
    /\ StarterTo(r, "acquired")
    /\ UNCHANGED <<row, phase, gateAccepting, accepting, registered, cancelSet,
                   toSignal, thread, outcome, writer, faults, crashes>>

\* Mutant of JobActive: without the partial unique index.
NoUniqueIndex(r) == FALSE

\* Another run of the same job is active: the partial unique index refuses.
JobActive(r) ==
    \E q \in Runs \ {r} : JobKeyOf[q] = JobKeyOf[r] /\ row[q] \in Active

StartInsert(r) ==
    /\ starter[r] = "acquired"
    /\ ~JobActive(r)
    /\ SetStatus(r, "Queued")
    /\ StarterTo(r, "inserted")
    /\ UNCHANGED <<phase, gate, gateAccepting, accepting, lock, registered,
                   cancelSet, toSignal, thread, outcome, writer, faults,
                   crashes>>

StartInsertRefused(r) ==
    /\ starter[r] = "acquired"
    /\ \/ JobActive(r) /\ UNCHANGED faults
       \/ Fault
    /\ Release(r)
    /\ lock' = NoOwner
    /\ StarterTo(r, "rejected")
    /\ UNCHANGED <<row, phase, gateAccepting, accepting, registered, cancelSet,
                   toSignal, thread, outcome, writer, crashes>>

StartSpawn(r) ==
    /\ starter[r] = "inserted"
    /\ registered' = registered \cup {r}
    /\ ThreadTo(r, "spawned")
    /\ lock' = NoOwner
    /\ StarterTo(r, "accepted")
    /\ UNCHANGED <<row, phase, gate, gateAccepting, accepting, cancelSet,
                   toSignal, outcome, writer, faults, crashes>>

\* Thread.start raises; the row is marked Failed if that statement succeeds.
StartSpawnFails(r) ==
    /\ starter[r] = "inserted"
    /\ \/ Fault /\ SetStatus(r, "Failed")
       \/ /\ faults + 1 < MaxFaults
          /\ faults' = faults + 2
          /\ UNCHANGED row
    /\ Release(r)
    /\ lock' = NoOwner
    /\ StarterTo(r, "rejected")
    /\ UNCHANGED <<phase, gateAccepting, accepting, registered, cancelSet,
                   toSignal, thread, outcome, writer, crashes>>

\* The last line of start() reads the row back, outside the lock.
StartReturn(r) ==
    /\ starter[r] = "accepted"
    /\ \/ StarterTo(r, "replied") /\ UNCHANGED faults
       \/ StarterTo(r, "errored") /\ Fault
    /\ UNCHANGED <<row, phase, gate, gateAccepting, accepting, lock, registered,
                   cancelSet, toSignal, thread, outcome, writer, crashes>>

-----------------------------------------------------------------------------
(* _execute()                                                              *)

ThreadStep == UNCHANGED <<phase, gateAccepting, accepting, lock, cancelSet,
                          toSignal, starter, writer, crashes>>

\* Mutant of ExecLoad: the row is loaded before the try whose finally cleans up.
ExecLoadOutsideTry(r) ==
    /\ thread[r] = "spawned"
    /\ \/ ThreadTo(r, "loaded") /\ UNCHANGED faults
       \/ ThreadTo(r, "done") /\ Fault
    /\ ThreadStep
    /\ UNCHANGED <<row, gate, registered, outcome>>

ExecLoad(r) ==
    /\ thread[r] = "spawned"
    /\ \/ ThreadTo(r, "loaded") /\ UNCHANGED faults
       \/ ThreadTo(r, "bookkeeping") /\ Fault
    /\ ThreadStep
    /\ UNCHANGED <<row, gate, registered, outcome>>

\* Under the lock: a run cancelled while queued never reaches its worker.
ExecBegin(r) ==
    /\ thread[r] = "loaded"
    /\ lock = NoOwner
    /\ \/ /\ CancelSeen(r)
          /\ UpdateRun(r, "Cancelled")
          /\ ThreadTo(r, "finishing")
       \/ /\ ~CancelSeen(r)
          /\ UpdateRun(r, "Running")
          /\ ThreadTo(r, "working")
       \/ /\ UpdateFails
          /\ ThreadTo(r, "bookkeeping")
    /\ ThreadStep
    /\ UNCHANGED <<gate, registered, outcome>>

\* The worker returns, raises, or observes its event and gives up.
WorkerReturns(r) ==
    /\ thread[r] = "working"
    /\ ThreadTo(r, "returned")
    /\ ThreadStep
    /\ UNCHANGED <<row, gate, registered, outcome, faults>>

WorkerRaises(r) ==
    /\ thread[r] = "working"
    /\ ThreadTo(r, "closing")
    /\ \/ outcome' = [outcome EXCEPT ![r] = "Failed"]
       \/ CancelSeen(r) /\ outcome' = [outcome EXCEPT ![r] = "Cancelled"]
    /\ ThreadStep
    /\ UNCHANGED <<row, gate, registered, faults>>

\* After a normal return the event is read once more, outside the lock; the
\* summary is then formatted (which may raise) and the callback runs.
CheckCancelled(r) ==
    /\ thread[r] = "returned"
    /\ ThreadTo(r, "closing")
    /\ \/ CancelSeen(r) /\ outcome' = [outcome EXCEPT ![r] = "Cancelled"]
       \/ ~CancelSeen(r)
          /\ \E s \in {"Completed", "Failed"} :
                outcome' = [outcome EXCEPT ![r] = s]
    /\ ThreadStep
    /\ UNCHANGED <<row, gate, registered, faults>>

RecordOutcome(r) ==
    /\ thread[r] = "closing"
    /\ lock = NoOwner
    /\ \/ UpdateRun(r, outcome[r]) /\ ThreadTo(r, "finishing")
       \/ UpdateFails /\ ThreadTo(r, "bookkeeping")
    /\ ThreadStep
    /\ UNCHANGED <<gate, registered, outcome>>

\* The handler of a failed status write tries once to record Failed.
RecordFailure(r) ==
    /\ thread[r] = "bookkeeping"
    /\ lock = NoOwner
    /\ UpdateRun(r, "Failed") \/ UpdateFails
    /\ ThreadTo(r, "finishing")
    /\ ThreadStep
    /\ UNCHANGED <<gate, registered, outcome>>

Unregister(r) ==
    /\ thread[r] = "finishing"
    /\ lock = NoOwner
    /\ registered' = registered \ {r}
    /\ ThreadTo(r, "unregistered")
    /\ ThreadStep
    /\ UNCHANGED <<row, gate, outcome, faults>>

ReleaseLease(r) ==
    /\ thread[r] = "unregistered"
    /\ Release(r)
    /\ ThreadTo(r, "done")
    /\ ThreadStep
    /\ UNCHANGED <<row, registered, outcome, faults>>

-----------------------------------------------------------------------------
(* cancel(), API writers, shutdown(), the end of the process, startup.     *)

\* Mutant of EventsOf: the event is registered under another key.
NoEventFound(r) == {}

\* The event a run is registered under, if it is.
EventsOf(r) == {r} \cap registered

\* cancel() leaves a run alone unless it is queued or running.
Cancellable(r) == row[r] \in {"Queued", "Running"}

\* A row with no event is still moved to Cancelling; nobody will act on it.
\* Requests are served until the shutdown begins.
Cancel(r) ==
    /\ phase = "serving"
    /\ lock = NoOwner
    /\ Cancellable(r)
    /\ cancelSet' = cancelSet \cup EventsOf(r)
    /\ UpdateRun(r, "Cancelling") \/ UpdateFails
    /\ UNCHANGED <<phase, gate, gateAccepting, accepting, lock, registered,
                   toSignal, starter, thread, outcome, writer, crashes>>

\* api_mutation, run_utility and the email scheduler.
WriterBegin(w) ==
    /\ Up
    /\ writer[w] = "idle"
    /\ Acquire(w)
    /\ writer' = [writer EXCEPT ![w] = "writing"]
    /\ UNCHANGED <<row, phase, gateAccepting, accepting, lock, registered,
                   cancelSet, toSignal, starter, thread, outcome, faults,
                   crashes>>

WriterEnd(w) ==
    /\ writer[w] = "writing"
    /\ Release(w)
    /\ writer' = [writer EXCEPT ![w] = "idle"]
    /\ UNCHANGED <<row, phase, gateAccepting, accepting, lock, registered,
                   cancelSet, toSignal, starter, thread, outcome, faults,
                   crashes>>

CloseGate ==
    /\ phase = "serving"
    /\ phase' = "closed"
    /\ gateAccepting' = FALSE
    /\ UNCHANGED <<row, gate, accepting, lock, registered, cancelSet, toSignal,
                   starter, thread, outcome, writer, faults, crashes>>

\* shutdown() copies the events under the lock and sets them after it.
CloseManager ==
    /\ phase = "closed"
    /\ lock = NoOwner
    /\ phase' = "draining"
    /\ accepting' = FALSE
    /\ toSignal' = registered
    /\ UNCHANGED <<row, gate, gateAccepting, lock, registered, cancelSet,
                   starter, thread, outcome, writer, faults, crashes>>

SignalCancel(r) ==
    /\ r \in toSignal
    /\ toSignal' = toSignal \ {r}
    /\ cancelSet' = cancelSet \cup {r}
    /\ UNCHANGED <<row, phase, gate, gateAccepting, accepting, lock, registered,
                   starter, thread, outcome, writer, faults, crashes>>

\* Daemon threads die with the process; only the database remains.
ProcessEnds ==
    /\ phase' = "down"
    /\ gate' = NoOwner
    /\ gateAccepting' = TRUE
    /\ accepting' = TRUE
    /\ lock' = NoOwner
    /\ registered' = {}
    /\ cancelSet' = {}
    /\ toSignal' = {}
    /\ starter' = [r \in Runs |-> "idle"]
    /\ thread' = [r \in Runs |-> "none"]
    /\ outcome' = [r \in Runs |-> "none"]
    /\ writer' = [w \in Writers |-> "idle"]
    /\ UNCHANGED <<row, faults>>

\* The join has a deadline: threads may or may not have finished by then.
Exit ==
    /\ phase = "draining"
    /\ toSignal = {}
    /\ ProcessEnds
    /\ UNCHANGED crashes

Crash ==
    /\ Up
    /\ crashes < MaxCrashes
    /\ crashes' = crashes + 1
    /\ ProcessEnds

\* Mutant of Interrupted: a run being cancelled is overlooked.
InterruptedUncancelled(r) == row[r] \in {"Queued", "Running"}

\* The rows _mark_interrupted_runs selects.
Interrupted(r) == row[r] \in Active

\* reconcile_interrupted_runs() swallows a database error and starts anyway.
Restart ==
    /\ phase = "down"
    /\ phase' = "serving"
    /\ \/ /\ row' = [r \in Runs |->
                        IF Interrupted(r) THEN "Failed" ELSE row[r]]
          /\ UNCHANGED faults
       \/ UpdateFails
    /\ UNCHANGED <<volatile, crashes>>

-----------------------------------------------------------------------------
StarterNext(r) ==
    \/ StartInsert(r) \/ StartInsertRefused(r)
    \/ StartSpawn(r)  \/ StartSpawnFails(r) \/ StartReturn(r)

ThreadNext(r) ==
    \/ ExecLoad(r)       \/ ExecBegin(r)
    \/ WorkerReturns(r)  \/ WorkerRaises(r) \/ CheckCancelled(r)
    \/ RecordOutcome(r)  \/ RecordFailure(r)
    \/ Unregister(r)     \/ ReleaseLease(r)

Next ==
    \/ \E r \in Runs : \/ StartAcquire(r) \/ StarterNext(r) \/ ThreadNext(r)
                       \/ Cancel(r) \/ SignalCancel(r)
    \/ \E w \in Writers : WriterBegin(w) \/ WriterEnd(w)
    \/ CloseGate \/ CloseManager \/ Exit \/ Crash \/ Restart

Spec == Init /\ [][Next]_vars

(* Fairness.  A started call and a started thread take their next step, a  *)
(* writer ends, a shutdown once begun is carried out, and the container    *)
(* runtime starts a stopped backend again.  A worker is not obliged to     *)
(* end: the code watches for a stalled one and never forces it.  Nobody is *)
(* obliged to start a run, to cancel, to shut down or to crash.            *)
Bookkeeping(r) ==
    \/ ExecLoad(r)   \/ ExecBegin(r)     \/ CheckCancelled(r)
    \/ Unregister(r) \/ RecordOutcome(r) \/ RecordFailure(r)
    \/ ReleaseLease(r)

Fairness ==
    /\ \A r \in Runs : /\ WF_vars(StarterNext(r))
                       /\ WF_vars(Bookkeeping(r))
                       /\ WF_vars(SignalCancel(r))
    /\ \A w \in Writers : WF_vars(WriterEnd(w))
    /\ WF_vars(CloseManager) /\ WF_vars(Exit) /\ WF_vars(Restart)

FairSpec == Spec /\ Fairness

-----------------------------------------------------------------------------
(* Safety.                                                                 *)

Mutators == {r \in Runs : thread[r] \in InWorker}
              \cup {w \in Writers : writer[w] = "writing"}

\* "Single-process serialization for shared database and snapshot mutations"
\* (operation_gate.py:100): whatever is between the first and the last of its
\* mutations holds the gate, so there is never a second one.
MutationsSerialized == \A op \in Mutators : gate = op

\* "A dead owner with a held lease is a leaked lease" (operation_gate.py:70):
\* whoever the gate names is still on its way to releasing it, through every
\* refused insert, failed thread start, lost status write and restart.
NoLeakedLease ==
    /\ \A r \in Runs :
          gate = r => starter[r] \in Starting \/ thread[r] \in LiveThread
    /\ \A w \in Writers : gate = w => writer[w] = "writing"

\* A run whose worker runs, or whose result is about to be written, is shown
\* as running or cancelling and never as finished or waiting.
WorkerRowOpen ==
    \A r \in Runs : thread[r] \in InWorker => row[r] \in {"Running", "Cancelling"}

\* Without a failing statement no row is left active with nobody to finish it
\* while the backend is up: the unique index would refuse the job for ever.
ActiveRowHasOwner ==
    faults = 0 /\ Up =>
        \A r \in Runs : row[r] \in Active =>
            starter[r] \in Starting \/ thread[r] \in LiveThread

\* A run recorded as finished keeps that status: a late thread, a late cancel
\* or the reconciliation after a restart never rewrites it.
TerminalIsFinal ==
    [][\A r \in Runs : row[r] \in Terminal => row'[r] = row[r]]_vars

\* A run whose cancel was acknowledged before its worker started never starts
\* it ("was cancelled before it started", utility_runs.py:256).
CancelledBeforeStartNeverWorks ==
    [][\A r \in Runs :
          row[r] = "Cancelling" /\ thread[r] \in {"spawned", "loaded"}
             => thread'[r] # "working"]_vars

\* A cancel acknowledged while the worker still runs is honoured: the run may
\* end Cancelled or Failed, never Completed.
AcknowledgedCancelHonoured ==
    \A r \in Runs :
        [](row[r] = "Cancelling" /\ thread[r] = "working"
              => [](row[r] # "Completed"))

\* A caller told that its run could not be started has no run in progress
\* ("The import could not be started.", server.py:957). No run checks it: TLC
\* refutes it, since start() reads the row back after the run is live
\* (README, "What TLC refutes").
RefusedMeansNotStarted ==
    \A r \in Runs : starter[r] \in {"rejected", "errored"} => thread[r] = "none"

(* The manager implements RunContract: every step is one of its steps or   *)
(* changes neither the history nor who mutates.                            *)
Contract == INSTANCE RunContract WITH status <- row, busy <- Mutators

ImplementsContract == Contract!Spec

(* Liveness.                                                               *)

\* Once no worker is running, the lease of a run comes back: no failure on
\* the way leaves the whole application refusing to write.
LeaseComesBack ==
    \A r \in Runs :
        (gate = r /\ thread[r] # "working")
            ~> (gate # r \/ thread[r] = "working")

\* Unless a statement fails, every active run is settled or its worker runs:
\* by its thread, or by the reconciliation of a later process.
EveryRunSettles ==
    \A r \in Runs :
        (row[r] \in Active /\ thread[r] # "working")
            ~> (row[r] \in Terminal \/ thread[r] = "working" \/ faults > 0)
=============================================================================
