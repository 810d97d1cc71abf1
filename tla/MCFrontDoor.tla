---------------------------- MODULE MCFrontDoor ----------------------------
(* Instances of ReadinessCache and Sessions for TLC.  The two share no state,    *)
(* so a behaviour is one of the first, or one of the second, with the other at   *)
(* rest.                                                                         *)
EXTENDS ReadinessCache, Sessions, TLC

CONSTANTS t1, t2, a1, a2

\* Requests of a signed-in browser; a second sign-in; a first one; two tabs at once.
Starts == {[token |-> t1,   attempts |-> {},       until |-> 4],
           [token |-> t1,   attempts |-> {a1},     until |-> 1],
           [token |-> None, attempts |-> {a1},     until |-> 2],
           [token |-> None, attempts |-> {a1, a2}, until |-> 0]}

VARIABLE part

RestingReadiness ==
    /\ sound = [c \in Components |-> TRUE] /\ watched = "data" /\ steady = 0
    /\ process = "starting" /\ entry = {} /\ flying = FALSE /\ raises = 0
    /\ caller = [c \in Everyone |-> Away]
RestingSessions ==
    /\ now = 0 /\ until = 0 /\ cacheSeconds = 0 /\ portal = <<>> /\ tab = <<>> /\ cache = <<>>
    /\ browser = [token |-> None, handoff |-> None]
    /\ request = [r \in Requests |-> [at |-> "free"]]

Init ==
    \/ part = "readiness" /\ ReadinessInit /\ RestingSessions
    \/ part = "sessions"  /\ SessionInit /\ RestingReadiness

Next ==
    \/ part = "readiness" /\ ReadinessNext /\ UNCHANGED <<part, sessionVars>>
    \/ part = "sessions"  /\ SessionNext /\ UNCHANGED <<part, readinessVars>>

Spec == Init /\ [][Next]_<<part, readinessVars, sessionVars>> /\ ReadinessFairness

TypeOK ==
    /\ part = "readiness" => ReadinessTypeOK
    /\ part = "sessions"  => SessionTypeOK
=============================================================================
