---------------------------- MODULE RunContract -----------------------------
(***************************************************************************)
(* What the maintenance-run manager promises to its users: the history of  *)
(* a run's status, and that at most one operation mutates shared data.     *)
(* Threads, locks, events and leases do not appear.                        *)
(***************************************************************************)
CONSTANTS Runs, Writers, JobKeyOf

VARIABLES
    status, \* what the history shows of each run
    busy    \* the operations mutating shared data

cvars == <<status, busy>>

ActiveStatus   == {"Queued", "Running", "Cancelling"}
TerminalStatus == {"Completed", "Cancelled", "Failed"}

Init ==
    /\ status = [r \in Runs |-> "Absent"]
    /\ busy = {}

Becomes(r, s) == status' = [status EXCEPT ![r] = s]

\* A job is accepted only when no other run of it is active.
Submit(r) ==
    /\ status[r] = "Absent"
    /\ \A q \in Runs : JobKeyOf[q] = JobKeyOf[r] => status[q] \notin ActiveStatus
    /\ Becomes(r, "Queued")
    /\ UNCHANGED busy

\* Work begins on a queued run that nobody cancelled, alone.
Begin(r) ==
    /\ status[r] = "Queued"
    /\ busy = {}
    /\ Becomes(r, "Running")
    /\ busy' = {r}

RequestCancel(r) ==
    /\ status[r] \in {"Queued", "Running"}
    /\ Becomes(r, "Cancelling")
    /\ UNCHANGED busy

\* Only a run that worked can complete; its status write may be lost.
Finish(r) ==
    /\ busy = {r}
    /\ status[r] \in {"Running", "Cancelling"}
    /\ UNCHANGED status \/ \E s \in TerminalStatus : Becomes(r, s)
    /\ busy' = {}

\* A run that is not working is closed as cancelled or failed.
Settle(r) ==
    /\ r \notin busy
    /\ status[r] \in ActiveStatus
    /\ \E s \in {"Cancelled", "Failed"} : Becomes(r, s)
    /\ UNCHANGED busy

BeginWrite(w) == busy = {}  /\ busy' = {w} /\ UNCHANGED status
EndWrite(w)   == busy = {w} /\ busy' = {}  /\ UNCHANGED status

\* The process ends; the next one closes what it left open, if it can.
Stop == busy' = {} /\ UNCHANGED status

Recover ==
    /\ busy = {}
    /\ status' = [r \in Runs |-> IF status[r] \in ActiveStatus
                                   THEN "Failed" ELSE status[r]]
    /\ UNCHANGED busy

Next ==
    \/ \E r \in Runs : \/ Submit(r) \/ Begin(r) \/ RequestCancel(r)
                       \/ Finish(r) \/ Settle(r)
    \/ \E w \in Writers : BeginWrite(w) \/ EndWrite(w)
    \/ Stop \/ Recover

Spec == Init /\ [][Next]_cvars
=============================================================================
