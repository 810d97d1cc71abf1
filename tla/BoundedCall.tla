----------------------------- MODULE BoundedCall -----------------------------
(***************************************************************************)
(* hard_bounded_playwright_call of backend/outbound_security.py: launch,   *)
(* close and stop of one thread, each with a watchdog thread that, when    *)
(* its time is up, has CPython raise BrowserTeardownAbandoned in the       *)
(* calling thread.  CPython delivers it at some later bytecode of that     *)
(* thread, wherever the thread then is.                                    *)
(***************************************************************************)
EXTENDS Naturals

CONSTANTS
    MaxCalls,     \* bound: calls of the thread
    MaxSlow       \* bound: watchdogs that outlast the five seconds of the join

ASSUME BoundedAssumption == MaxCalls \in Nat \ {0} /\ MaxSlow \in Nat

VARIABLES
    thread,      \* where the calling thread is
    calls,       \* the number of the last call it made
    guardian,    \* the watchdog of each call
    fired,       \* its Event of that name
    pending,     \* the exception set for the thread, by the call it is of
    stray,       \* an exception came up outside of the call it is of
    slow

boundedVars == <<thread, calls, guardian, fired, pending, stray, slow>>

Numbers == 1..MaxCalls
NoCall  == 0

BoundedTypeOK ==
    /\ thread \in {"outside", "calling", "wedged", "joining", "absorbing"}
    /\ calls \in 0..MaxCalls
    /\ guardian \in [Numbers -> {"none", "waiting", "expired", "raising", "over"}]
    /\ fired \in [Numbers -> BOOLEAN]
    /\ pending \in Numbers \cup {NoCall}
    /\ stray \in BOOLEAN
    /\ slow \in 0..MaxSlow

BoundedInit ==
    /\ thread = "outside" /\ calls = 0
    /\ guardian = [i \in Numbers |-> "none"]
    /\ fired = [i \in Numbers |-> FALSE]
    /\ pending = NoCall /\ stray = FALSE /\ slow = 0

-----------------------------------------------------------------------------
(* The calling thread.                                                     *)

Enter ==
    /\ thread = "outside" /\ calls < MaxCalls
    /\ calls' = calls + 1
    /\ guardian' = [guardian EXCEPT ![calls + 1] = "waiting"]
    /\ thread' = "calling"
    /\ UNCHANGED <<fired, pending, stray, slow>>

\* The driver has died: the call spins and never returns.
Wedge ==
    /\ thread = "calling"
    /\ thread' = "wedged"
    /\ UNCHANGED <<calls, guardian, fired, pending, stray, slow>>

\* The call returns or raises: finished.set().  A guardian that has not expired
\* sees it and ends.
Leave ==
    /\ guardian' = [guardian EXCEPT ![calls] = IF @ = "waiting" THEN "over" ELSE @]
    /\ thread' = "joining"

Returns ==
    /\ thread = "calling"
    /\ Leave
    /\ UNCHANGED <<calls, fired, pending, stray, slow>>

\* Mutant of AfterJoin: what is still in flight is not waited for.
AfterJoinAtOnce == "outside"

\* A call whose guardian has fired runs a few more bytecodes.
AfterJoin == IF fired[calls] THEN "absorbing" ELSE "outside"

\* thread.join(timeout=5.0)
Joined ==
    /\ thread = "joining"
    /\ guardian[calls] = "over" \/ slow < MaxSlow
    /\ slow' = IF guardian[calls] = "over" THEN slow ELSE slow + 1
    /\ thread' = AfterJoin
    /\ UNCHANGED <<calls, guardian, fired, pending, stray>>

\* An exception that is pending comes up in one of those bytecodes.
Absorbed ==
    /\ thread = "absorbing" /\ pending = NoCall
    /\ thread' = "outside"
    /\ UNCHANGED <<calls, guardian, fired, pending, stray, slow>>

\* The exception comes up: it ends the call, or the join, is absorbed, or hits
\* what the thread does next.
Deliver ==
    /\ pending # NoCall
    /\ pending' = NoCall
    /\ stray' = (stray \/ thread = "outside" \/ pending # calls)
    /\ \/ thread \in {"calling", "wedged"} /\ Leave
       \/ thread \in {"joining", "absorbing"} /\ thread' = "outside" /\ UNCHANGED guardian
       \/ thread = "outside" /\ UNCHANGED <<thread, guardian>>
    /\ UNCHANGED <<calls, fired, slow>>

-----------------------------------------------------------------------------
(* The watchdog thread.                                                    *)

Expire(i) ==
    /\ guardian[i] = "waiting"
    /\ guardian' = [guardian EXCEPT ![i] = "expired"]
    /\ UNCHANGED <<thread, calls, fired, pending, stray, slow>>

\* fired.set() and what is recorded and logged.
Fire(i) ==
    /\ guardian[i] = "expired"
    /\ guardian' = [guardian EXCEPT ![i] = "raising"]
    /\ fired' = [fired EXCEPT ![i] = TRUE]
    /\ UNCHANGED <<thread, calls, pending, stray, slow>>

\* _async_raise_in_thread; a thread has room for one exception.
RaiseInThread(i) ==
    /\ guardian[i] = "raising"
    /\ guardian' = [guardian EXCEPT ![i] = "over"]
    /\ pending' = i
    /\ UNCHANGED <<thread, calls, fired, stray, slow>>

GuardianStep == \E i \in Numbers : Expire(i) \/ Fire(i) \/ RaiseInThread(i)

BoundedNext == Enter \/ Wedge \/ Returns \/ Joined \/ Absorbed \/ Deliver \/ GuardianStep

\* Threads go on and the wait of a guardian has a timeout; a call may wedge.
BoundedFairness ==
    WF_boundedVars(Joined \/ Absorbed \/ Deliver) /\ WF_boundedVars(GuardianStep)

BoundedSpec == BoundedInit /\ [][BoundedNext]_boundedVars /\ BoundedFairness

-----------------------------------------------------------------------------
(* Properties.                                                             *)

\* "Absorb it here rather than let it surface on unrelated work later in this
\* thread" (outbound_security.py): however the return of a call and the end of
\* its time overlap, the exception comes up in the call it is of and nowhere
\* else, provided no guardian outlasts the join.
NoStrayUnwind == slow = 0 => ~stray

\* A call on a dead driver does not hold its thread for good.
WedgedCallEnds == thread = "wedged" ~> thread = "outside"
=============================================================================
