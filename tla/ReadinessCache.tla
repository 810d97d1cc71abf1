--------------------------- MODULE ReadinessCache ---------------------------
(***************************************************************************)
(* Readiness: backend/health.py, asked by the startup of server.py and by  *)
(* GET /api/health.                                                        *)
(*                                                                         *)
(* A check looks at the database, the data directory and the export        *)
(* directory one after the other, while they change.  Its result is kept   *)
(* for a short time, and callers that come during a check wait for it.     *)
(* Time is counted in ticks; a caller that has been woken gets the lock    *)
(* before the next tick.                                                   *)
(***************************************************************************)
EXTENDS Integers, Sequences, FiniteSets

CONSTANTS
    Callers,          \* threads that answer /api/health
    Startup,          \* the thread that starts the application
    Ttl,              \* DEFAULT_CACHE_TTL_SECONDS
    CheckTime,        \* bound: ticks a check takes
    MaxRaises,        \* bound: checks that raise
    RequireExisting   \* REQUIRE_EXISTING_DATABASE

ASSUME ReadinessAssumption ==
    /\ Startup \notin Callers
    /\ {Ttl, CheckTime} \subseteq Nat \ {0} /\ MaxRaises \in Nat
    /\ RequireExisting \in BOOLEAN

VARIABLES
    sound,     \* component -> whether it would pass
    watched,   \* bound: the one component that changes
    steady,    \* ticks since that one changed
    process,   \* "starting", "bare" (without its background services) or "serving"
    entry,     \* _entries[key]: the result and the ticks it is still good for
    flying,    \* key \in _in_flight
    caller,    \* caller -> where it is
    raises

readinessVars == <<sound, watched, steady, process, entry, flying, caller, raises>>

-----------------------------------------------------------------------------
\* The database passes when it is there, has the schema, and lets a row be inserted and
\* rolled back before busy_timeout; a directory when a file can be made in it and removed.
Components == {"database", "data", "exports"}
Required   == {"database", "data"}
Everyone   == Callers \cup {Startup}

Unready(result) == \E part \in Required : ~result[part]

\* Mutant of Fresh: a result once stored is good for ever.
FreshForever == entry # {}

\* The entry is a set of at most one result.
Fresh == \E kept \in entry : kept.left > 0

Away     == [at |-> "away"]
Looking  == [at |-> "looking"]
Waiting  == [at |-> "waiting"]
Checking(seen, spent) == [at |-> "checking", seen |-> seen, spent |-> spent]
Answered(result)      == [at |-> "answered", result |-> result]

Checkers == {c \in Everyone : caller[c].at = "checking"}

ReadinessInit ==
    /\ sound \in [Components -> BOOLEAN] /\ watched \in Components /\ steady = 0
    /\ process = "starting" /\ entry = {} /\ flying = FALSE /\ raises = 0
    /\ caller = [c \in Everyone |-> IF c = Startup THEN Looking ELSE Away]

-----------------------------------------------------------------------------
StorageChanges ==
    /\ sound' = [sound EXCEPT ![watched] = ~@] /\ steady' = 0
    /\ UNCHANGED <<watched, process, entry, flying, caller, raises>>

\* GET /api/health.
AskHealth(c) ==
    /\ process # "starting" /\ c \in Callers /\ caller[c] = Away
    /\ caller' = [caller EXCEPT ![c] = Looking]
    /\ UNCHANGED <<sound, watched, steady, process, entry, flying, raises>>

\* ReadinessCache.get, under the condition: the stored result, or the check is mine, or
\* somebody is at it and I wait.
LookUp(c) ==
    /\ caller[c] = Looking
    /\ entry' = IF Fresh THEN entry ELSE {}
    /\ flying' = (flying \/ ~Fresh)
    /\ caller' = [caller EXCEPT ![c] =
                    IF Fresh THEN Answered((CHOOSE kept \in entry : TRUE).result)
                    ELSE IF flying THEN Waiting
                    ELSE Checking(<<>>, 0)]
    /\ UNCHANGED <<sound, watched, steady, process, raises>>

\* The order of check_readiness.  The database is opened first and written to later.
Steps == <<"database", "database", "data", "exports">>

CheckPart(c) ==
    /\ caller[c].at = "checking" /\ Len(caller[c].seen) < Len(Steps)
    /\ caller' = [caller EXCEPT ![c].seen = Append(@, sound[Steps[Len(@) + 1]])]
    /\ UNCHANGED <<sound, watched, steady, process, entry, flying, raises>>

\* notify_all.
Notified == [c \in Everyone |-> IF caller[c] = Waiting THEN Looking ELSE caller[c]]

\* Mutant of CheckRaises: the key stays in flight.
CheckRaisesInFlight(c) ==
    /\ caller[c].at = "checking" /\ raises < MaxRaises /\ raises' = raises + 1
    /\ caller' = [Notified EXCEPT ![c] = Away]
    /\ UNCHANGED <<sound, watched, steady, process, entry, flying>>

\* The request of the caller fails; whoever waited looks again.  An exception during the
\* startup ends the process.
CheckRaises(c) ==
    /\ caller[c].at = "checking" /\ raises < MaxRaises /\ raises' = raises + 1
    /\ flying' = FALSE
    /\ caller' = [Notified EXCEPT ![c] = IF c = Startup THEN Looking ELSE Away]
    /\ UNCHANGED <<sound, watched, steady, process, entry>>

Result(seen) == [part \in Components |-> \A n \in DOMAIN seen : Steps[n] = part => seen[n]]

CheckEnds(c) ==
    /\ caller[c].at = "checking" /\ Len(caller[c].seen) = Len(Steps)
    /\ LET result == Result(caller[c].seen) IN
          /\ entry' = {[left |-> Ttl, result |-> result]}
          /\ caller' = [Notified EXCEPT ![c] = Answered(result)]
    /\ flying' = FALSE
    /\ UNCHANGED <<sound, watched, steady, process, raises>>

Leave(c) ==
    /\ c \in Callers /\ caller[c].at = "answered"
    /\ caller' = [caller EXCEPT ![c] = Away]
    /\ UNCHANGED <<sound, watched, steady, process, entry, flying, raises>>

\* start_background_services goes by the answer, once: a process that starts unready
\* stays without its services, or ends and is started again.
StartupDecides ==
    /\ process = "starting" /\ caller[Startup].at = "answered"
    /\ IF Unready(caller[Startup].result) /\ RequireExisting
       THEN /\ entry' = {} /\ caller' = [caller EXCEPT ![Startup] = Looking]
            /\ UNCHANGED process
       ELSE /\ process' = IF Unready(caller[Startup].result) THEN "bare" ELSE "serving"
            /\ caller' = [caller EXCEPT ![Startup] = Away]
            /\ UNCHANGED entry
    /\ UNCHANGED <<sound, watched, steady, flying, raises>>

ReadinessRestart ==
    /\ process # "starting"
    /\ process' = "starting" /\ entry' = {} /\ flying' = FALSE
    /\ caller' = [c \in Everyone |-> IF c = Startup THEN Looking ELSE Away]
    /\ UNCHANGED <<sound, watched, steady, raises>>

\* Nobody is kept from the lock for a tick, and no check takes longer than CheckTime.
ReadinessTick ==
    /\ \A c \in Everyone : caller[c] # Looking
    /\ \A c \in Checkers : caller[c].spent < CheckTime
    /\ steady' = IF steady = Ttl + CheckTime THEN steady ELSE steady + 1
    /\ entry' = {[kept EXCEPT !.left = IF @ = 0 THEN 0 ELSE @ - 1] : kept \in entry}
    /\ caller' = [c \in Everyone |-> IF c \in Checkers THEN [caller[c] EXCEPT !.spent = @ + 1]
                                     ELSE caller[c]]
    /\ UNCHANGED <<sound, watched, process, flying, raises>>

ReadinessNext ==
    \/ StorageChanges
    \/ \E c \in Everyone :
           AskHealth(c) \/ LookUp(c) \/ CheckPart(c) \/ CheckRaises(c) \/ CheckEnds(c) \/ Leave(c)
    \/ StartupDecides \/ ReadinessRestart \/ ReadinessTick

\* A thread that can go on does.
ReadinessFairness ==
    \A c \in Everyone : WF_readinessVars(LookUp(c)) /\ WF_readinessVars(CheckPart(c) \/ CheckEnds(c))

ReadinessSpec == ReadinessInit /\ [][ReadinessNext]_readinessVars /\ ReadinessFairness

-----------------------------------------------------------------------------
(* Properties.                                                             *)

\* One check at a time.
ReadinessTypeOK ==
    /\ sound \in [Components -> BOOLEAN] /\ watched \in Components /\ steady \in 0 .. Ttl + CheckTime
    /\ process \in {"starting", "bare", "serving"} /\ flying \in BOOLEAN /\ raises \in 0 .. MaxRaises
    /\ Cardinality(entry) <= 1 /\ \A kept \in entry : kept.left \in 0 .. Ttl
    /\ DOMAIN caller = Everyone
    /\ Cardinality(Checkers) = IF flying THEN 1 ELSE 0

\* Readiness is answered from a cache while the storage changes (health.py:163): still,
\* what has been as it is for a lifetime of the cache and a check is answered as it is.
Current ==
    [][\A c \in Everyone :
          caller'[c].at = "answered" /\ caller[c].at # "answered" /\ steady = Ttl + CheckTime =>
              caller'[c].result[watched] = sound[watched]]_readinessVars

\* Callers that wait for the check of another are answered, or fail by themselves, also
\* when that check raises.
AskersAnswered ==
    \A c \in Everyone : caller[c] = Looking ~> caller[c].at \in {"answered", "away"}
=============================================================================
