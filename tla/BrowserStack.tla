---------------------------- MODULE BrowserStack ----------------------------
(***************************************************************************)
(* What stands between the backend and the outside world: the browser and  *)
(* its lease, the bounded calls, the page guard, the requests of a session *)
(* and the egress proxy.  The modules share no state, so a behaviour is    *)
(* one of one of them, with the others at rest and nothing of theirs       *)
(* enabled.                                                                *)
(***************************************************************************)
EXTENDS BrowserLease, BoundedCall, PageGuard, OutboundRequests, BrowserEgress

VARIABLE part       \* the module that is at work

stackVars == <<part, vars, boundedVars, pageVars, requestVars, egressVars>>

RestingLease    == Init
RestingBounded  == BoundedInit
RestingPages    == PageInit
RestingRequests == session = {} /\ call = [at |-> "resting"]
RestingEgress ==
    /\ launch = "resting" /\ checked = FALSE
    /\ proxy = "none" /\ socketFile = "absent" /\ free = MaxSlots
    /\ tunnel = [t \in Tunnels |-> Off]
    /\ runner = "off" /\ watchdog = "off" /\ chromium = "none" /\ breaks = 0

StackInit ==
    \/ /\ part \in {"lease", "bounded", "pages"}
       /\ Init /\ BoundedInit /\ PageInit /\ RestingRequests /\ RestingEgress
    \/ /\ part = "requests"
       /\ RestingLease /\ RestingBounded /\ RestingPages /\ RequestInit /\ RestingEgress
    \/ /\ part = "egress"
       /\ RestingLease /\ RestingBounded /\ RestingPages /\ RestingRequests /\ EgressInit

StackNext ==
    /\ part' = part
    /\ \/ part = "lease"    /\ Next        /\ UNCHANGED <<boundedVars, pageVars, requestVars, egressVars>>
       \/ part = "bounded"  /\ BoundedNext /\ UNCHANGED <<vars, pageVars, requestVars, egressVars>>
       \/ part = "pages"    /\ PageNext    /\ UNCHANGED <<vars, boundedVars, requestVars, egressVars>>
       \/ part = "requests" /\ RequestNext /\ UNCHANGED <<vars, boundedVars, pageVars, egressVars>>
       \/ part = "egress"   /\ EgressNext  /\ UNCHANGED <<vars, boundedVars, pageVars, requestVars>>

StackSpec ==
    /\ StackInit
    /\ [][StackNext]_stackVars
    /\ Fairness /\ BoundedFairness /\ PageFairness /\ EgressFairness

StackTypeOK ==
    /\ TypeOK /\ BoundedTypeOK /\ PageTypeOK
    /\ part = "requests" => RequestTypeOK
    /\ part = "egress"   => EgressTypeOK

\* Whatever DNS answers from one lookup to the next, no connection of a session
\* or of the proxy and no request of a page goes to an address that was not
\* judged and found public.
OnlyApproved ==
    /\ PagesReachOnlyApproved
    /\ part = "requests" => RequestsReachOnlyApproved
    /\ part = "egress"   => TunnelsReachOnlyApproved

\* "Hard-bound a synchronous Playwright call that spins when the driver dies"
\* (outbound_security.py): neither a dead driver nor a page that is gone leaves
\* the thread or a request of the page waiting for good.
NothingHangs == WedgedCallEnds /\ RequestsAreSettled
=============================================================================
