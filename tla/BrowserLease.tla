---------------------------- MODULE BrowserLease ----------------------------
(***************************************************************************)
(* The one-Chromium launch lease of backend/outbound_security.py.          *)
(*                                                                         *)
(* A session is one use of a browser by one worker thread: take the lease, *)
(* launch, work, close().  The lease is a plain lock; the module also      *)
(* remembers which browser holds it.  The lease comes back through         *)
(* close(), through the browser's "disconnected" event, through a failed   *)
(* launch, or because a later launch reclaims it from a dead browser.      *)
(*                                                                         *)
(* Playwright delivers "disconnected" on the thread that owns the browser, *)
(* inside one of its own calls.  A process tree is alive, then exiting     *)
(* (its connection is gone, some of its processes are not), then dead;     *)
(* processes are named by pid and start time, so dead is for ever.         *)
(***************************************************************************)
EXTENDS Naturals, FiniteSets

CONSTANTS
    Sessions,
    NoBrowser  \* _current_leased_browser is None

ASSUME LeaseAssumption == NoBrowser \notin Sessions

VARIABLES
    lease,      \* _browser_launch_lease is locked
    current,    \* _current_leased_browser
    pc,         \* where each session is
    victim,     \* the holder a reclaiming session has found dead
    tree,       \* the Chromium process tree of each session
    recorded,   \* its processes were captured (_procs is not empty)
    released,   \* _LeasedBrowser._released
    guard,      \* the _CloseGuard thread of each session
    wound,      \* what guard.finish() returned
    freedBy     \* history: what released the lease of this session

vars == <<lease, current, pc, victim, tree, recorded, released, guard, wound,
          freedBy>>

Running == {"alive", "exiting"}

TypeOK ==
    /\ lease \in BOOLEAN
    /\ current \in Sessions \cup {NoBrowser}
    /\ pc \in [Sessions -> {"idle", "waiting", "expired", "reclaiming",
                            "retrying", "launching", "orphaned", "using",
                            "closing", "winding", "reaping", "proven", "over"}]
    /\ victim \in [Sessions -> Sessions \cup {NoBrowser}]
    /\ tree \in [Sessions -> {"none", "dead"} \cup Running]
    /\ recorded \subseteq Sessions
    /\ released \subseteq Sessions
    /\ guard \in [Sessions -> {"off", "armed", "killed", "spent"}]
    /\ wound \subseteq Sessions
    /\ freedBy \in [Sessions -> {"none", "close", "event", "reclaim"}]

Init ==
    /\ lease = FALSE
    /\ current = NoBrowser
    /\ pc = [s \in Sessions |-> "idle"]
    /\ victim = [s \in Sessions |-> NoBrowser]
    /\ tree = [s \in Sessions |-> "none"]
    /\ recorded = {} /\ released = {} /\ wound = {}
    /\ guard = [s \in Sessions |-> "off"]
    /\ freedBy = [s \in Sessions |-> "none"]

Goto(s, l) == pc' = [pc EXCEPT ![s] = l]

NoChromium == \A s \in Sessions : tree[s] \notin Running

\* Mutant of Release: neither idempotent nor guarded by the holder's identity.
ReleaseAlways(b, how) ==
    /\ released' = released \cup {b}
    /\ lease' = FALSE
    /\ current' = NoBrowser
    /\ freedBy' = [freedBy EXCEPT ![b] = how]

\* _LeasedBrowser._release: once, and only by the browser that is the holder.
Release(b, how) ==
    /\ released' = released \cup {b}
    /\ IF b \notin released /\ current = b
         THEN /\ lease' = FALSE
              /\ current' = NoBrowser
              /\ freedBy' = [freedBy EXCEPT ![b] = how]
         ELSE UNCHANGED <<lease, current, freedBy>>

-----------------------------------------------------------------------------
(* _acquire_browser_launch_lease                                           *)

Ask(s) ==
    /\ pc[s] = "idle"
    /\ Goto(s, "waiting")
    /\ UNCHANGED <<lease, current, victim, tree, recorded, released, guard,
                   wound, freedBy>>

Acquire(s) ==
    /\ pc[s] \in {"waiting", "retrying"}
    /\ ~lease
    /\ lease' = TRUE
    /\ Goto(s, "launching")
    /\ UNCHANGED <<current, victim, tree, recorded, released, guard, wound,
                   freedBy>>

\* Mutant of WaitExpires: a busy lease is final, nothing is reclaimed.
WaitExpiresForGood(s) ==
    /\ pc[s] \in {"waiting", "retrying"}
    /\ lease
    /\ Goto(s, "over")
    /\ UNCHANGED <<lease, current, victim, tree, recorded, released, guard,
                   wound, freedBy>>

WaitExpires(s) ==
    /\ pc[s] \in {"waiting", "retrying"}
    /\ lease
    /\ Goto(s, IF pc[s] = "waiting" THEN "expired" ELSE "over")
    /\ UNCHANGED <<lease, current, victim, tree, recorded, released, guard,
                   wound, freedBy>>

\* The holder's recorded processes are dead and no Chromium runs at all.
ProvablyGone(b) ==
    /\ b \in recorded
    /\ tree[b] = "dead"
    /\ NoChromium

\* _try_reclaim_leaked_browser_lease: look first ...
ReclaimCheck(s) ==
    /\ pc[s] = "expired"
    /\ IF ProvablyGone(current)
         THEN victim' = [victim EXCEPT ![s] = current] /\ Goto(s, "reclaiming")
         ELSE UNCHANGED victim /\ Goto(s, "over")
    /\ UNCHANGED <<lease, current, tree, recorded, released, guard, wound,
                   freedBy>>

\* ... then release in the name of the browser that was found dead.
ReclaimRelease(s) ==
    /\ pc[s] = "reclaiming"
    /\ Release(victim[s], "reclaim")
    /\ Goto(s, "retrying")
    /\ UNCHANGED <<victim, tree, recorded, guard, wound>>

-----------------------------------------------------------------------------
(* _launch_protected_playwright_chromium, after the lease is taken         *)

\* The processes are captured, unless reading /proc failed.
LaunchSucceeds(s) ==
    /\ pc[s] = "launching"
    /\ tree' = [tree EXCEPT ![s] = "alive"]
    /\ recorded' \in {recorded, recorded \cup {s}}
    /\ current' = s
    /\ Goto(s, "using")
    /\ UNCHANGED <<lease, victim, released, guard, wound, freedBy>>

\* A failed or abandoned launch may leave a Chromium behind.
LaunchFails(s) ==
    /\ pc[s] = "launching"
    /\ \E t \in {"none", "alive"} : tree' = [tree EXCEPT ![s] = t]
    /\ Goto(s, "orphaned")
    /\ UNCHANGED <<lease, current, victim, recorded, released, guard, wound,
                   freedBy>>

\* Bounded reap of what can be identified, whose outcome is not consulted;
\* unconditional release.
ReapOrphan(s) ==
    /\ pc[s] = "orphaned"
    /\ tree' \in IF tree[s] \in Running
                   THEN {[tree EXCEPT ![s] = t] :
                            t \in {tree[s], "exiting", "dead"}}
                   ELSE {tree}
    /\ lease' = FALSE
    /\ current' = NoBrowser
    /\ Goto(s, "over")
    /\ UNCHANGED <<victim, recorded, released, guard, wound, freedBy>>

-----------------------------------------------------------------------------
(* The browser in use, and close()                                         *)

\* The tree crashes or is killed; later the last of its processes is gone.
TreeDies(s) ==
    /\ tree[s] \in Running
    /\ tree' = [tree EXCEPT ![s] = IF @ = "alive" THEN "exiting" ELSE "dead"]
    /\ UNCHANGED <<lease, current, pc, victim, recorded, released, guard,
                   wound, freedBy>>

Disconnected(s) ==
    /\ pc[s] \in {"using", "closing"}
    /\ tree[s] # "alive"
    /\ s \notin released
    /\ Release(s, "event")
    /\ UNCHANGED <<pc, victim, tree, recorded, guard, wound>>

CloseBegins(s) ==
    /\ pc[s] = "using"
    /\ Goto(s, "closing")
    /\ guard' = [guard EXCEPT ![s] = IF s \in recorded THEN "armed" ELSE "off"]
    /\ UNCHANGED <<lease, current, victim, tree, recorded, released, wound,
                   freedBy>>

\* The guard kills the tree, then the driver, of a close() that is overdue.
GuardEscalates(s) ==
    /\ guard[s] \in {"armed", "killed"}
    /\ pc[s] = "closing"
    /\ IF guard[s] = "armed"
         THEN /\ guard' = [guard EXCEPT ![s] = "killed"]
              /\ tree' = [tree EXCEPT ![s] = IF @ = "alive" THEN "exiting"
                                                           ELSE @]
         ELSE guard' = [guard EXCEPT ![s] = "spent"] /\ UNCHANGED tree
    /\ UNCHANGED <<lease, current, pc, victim, recorded, released, wound,
                   freedBy>>

\* Browser.close() returns, raises, or is abandoned after its hard bound.
CloseCallEnds(s) ==
    /\ pc[s] = "closing"
    /\ \E t \in {tree[s], "exiting", "dead"} :
          /\ tree[s] # "alive" => t \in {tree[s], "dead"}
          /\ tree' = [tree EXCEPT ![s] = t]
    /\ Goto(s, "winding")
    /\ UNCHANGED <<lease, current, victim, recorded, released, guard, wound,
                   freedBy>>

\* guard.finish() joins the guard thread, for a bounded time.
FinishGuard(s) ==
    /\ pc[s] = "winding"
    /\ \/ guard' = [guard EXCEPT ![s] = "off"] /\ wound' = wound \cup {s}
       \/ guard[s] # "off" /\ UNCHANGED <<guard, wound>>
    /\ Goto(s, "reaping")
    /\ UNCHANGED <<lease, current, victim, tree, recorded, released, freedBy>>

GuardEnds(s) ==
    /\ guard[s] # "off"
    /\ pc[s] \in {"reaping", "proven", "over"}
    /\ guard' = [guard EXCEPT ![s] = "off"]
    /\ UNCHANGED <<lease, current, pc, victim, tree, recorded, released, wound,
                   freedBy>>

\* Mutant of Proof: close() releases after the reap whatever it found.
ProofAssumed(s, t) == TRUE

\* Every recorded process is gone (none was recorded: nothing to wait for)
\* and the guard is wound down.
Proof(s, t) == (s \in recorded => t = "dead") /\ s \in wound

\* _reap_browser_process_tree waits, terminates, kills, and waits again.
Reap(s) ==
    /\ pc[s] = "reaping"
    /\ \E t \in IF s \in recorded /\ tree[s] \in Running
                  THEN {"exiting", "dead"} ELSE {tree[s]} :
          /\ tree' = [tree EXCEPT ![s] = t]
          /\ Goto(s, IF Proof(s, t) THEN "proven" ELSE "over")
    /\ UNCHANGED <<lease, current, victim, recorded, released, guard, wound,
                   freedBy>>

CloseReleases(s) ==
    /\ pc[s] = "proven"
    /\ Release(s, "close")
    /\ Goto(s, "over")
    /\ UNCHANGED <<victim, tree, recorded, guard, wound>>

-----------------------------------------------------------------------------
Launch(s) ==
    \/ Acquire(s) \/ WaitExpires(s) \/ ReclaimCheck(s) \/ ReclaimRelease(s)
    \/ LaunchSucceeds(s) \/ LaunchFails(s) \/ ReapOrphan(s)

Close(s) == CloseCallEnds(s) \/ FinishGuard(s) \/ Reap(s) \/ CloseReleases(s)

Next ==
    \E s \in Sessions :
        \/ Ask(s) \/ Launch(s) \/ TreeDies(s) \/ Disconnected(s)
        \/ CloseBegins(s) \/ GuardEscalates(s) \/ Close(s) \/ GuardEnds(s)

Spec == Init /\ [][Next]_vars

(* Fairness.  Every wait on the way to a launch and in close() is bounded, *)
(* by a timeout or by the hard bound that unwinds the thread.  A browser   *)
(* in use is not obliged to reach close(), nor a tree to die.              *)
Fairness == \A s \in Sessions : WF_vars(Launch(s)) /\ WF_vars(Close(s))

FairSpec == Spec /\ Fairness

-----------------------------------------------------------------------------
(* Properties.                                                             *)

\* The sessions that are entitled to the one Chromium.
Entitled == {s \in Sessions : \/ pc[s] \in {"launching", "orphaned"}
                              \/ current = s}

\* No callback or reclaim takes the lease from a session that is entitled to
\* it, and two sessions never are ("cannot free a lease a newer browser now
\* owns", docs/BROWSER_LEASE_RECOVERY.md).
LeaseMatchesOwner ==
    /\ lease <=> Entitled # {}
    /\ Cardinality(Entitled) <= 1

\* The lease of a browser whose processes are known is given back by close() only when
\* those are gone, and by a reclaim only while no Chromium is running: what was checked is
\* still true when it is acted upon.
ProvenReleaseMeansDead ==
    [][\A s \in Sessions : freedBy'[s] # freedBy[s] =>
          /\ freedBy'[s] = "close" /\ s \in recorded => tree[s] = "dead"
          /\ freedBy'[s] = "reclaim" => NoChromium]_vars

\* A lease stranded by a dead browser, whatever became of its session, is
\* given back when somebody waits for it.
StrandedLeaseRecovers ==
    \A b \in Sessions :
        (current = b /\ ProvablyGone(b) /\ \E s \in Sessions : pc[s] = "waiting")
            ~> current # b

\* "the guard is always wound down before the next browser is admitted"
\* (docs/BROWSER_LEASE_RECOVERY.md:45; _CloseGuard says the same). No run checks
\* it: TLC refutes it at once, a close whose guard outlives the join being
\* followed by a reclaim (README, "What TLC refutes").
GuardWoundDownBeforeNext ==
    \A s, t \in Sessions :
        s # t /\ guard[s] # "off" => pc[t] \notin {"launching", "using"}
=============================================================================
