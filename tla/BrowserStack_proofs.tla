------------------------- MODULE BrowserStack_proofs -------------------------
(***************************************************************************)
(* Proofs about the modules of BrowserStack, for every set of sessions,    *)
(* pages, tunnels, origins and addresses and every bound: each module by   *)
(* itself first, then their composition.                                   *)
(***************************************************************************)
EXTENDS BrowserStack, FiniteSetTheorems, WellFoundedInduction, TLAPS

-----------------------------------------------------------------------------
(* BrowserLease: who the one lease is held for.                            *)

\* A session whose launch has begun and not ended, and one whose launch is over.
AtLaunch == {"launching", "orphaned"}
Launched == {"using", "closing", "winding", "reaping", "proven", "over"}

\* Between taking the lease and naming the holder there is one session, and no
\* holder; the holder has launched, and the lease is held for one of the two.
Ownership ==
    /\ \A s \in Sessions : pc[s] \in AtLaunch =>
           /\ lease /\ current = NoBrowser
           /\ \A t \in Sessions : pc[t] \in AtLaunch => t = s
    /\ current # NoBrowser => lease /\ pc[current] \in Launched
    /\ lease => current # NoBrowser \/ \E s \in Sessions : pc[s] \in AtLaunch

\* What a reclaiming session has seen is still so while the holder is the one
\* it saw, and what close() has proven stays proven.
Evidence ==
    /\ \A s \in Sessions : pc[s] = "reclaiming" =>
           /\ victim[s] \in Sessions /\ pc[victim[s]] \in Launched
           /\ current = victim[s] => NoChromium
    /\ \A s \in Sessions : pc[s] = "proven" /\ s \in recorded => tree[s] = "dead"

LeaseInv == TypeOK /\ Ownership /\ Evidence

LEMMA LeaseInvInit == Init => LeaseInv
<1> SUFFICES ASSUME Init PROVE LeaseInv
    OBVIOUS
<1> USE LeaseAssumption DEF Init, Running, AtLaunch, Launched
<1>1. TypeOK      BY DEF TypeOK
<1>2. Ownership   BY DEF Ownership
<1>3. Evidence    BY DEF Evidence
<1> QED           BY <1>1, <1>2, <1>3 DEF LeaseInv

\* Releasing keeps the types.
LEMMA ReleaseTypes ==
    ASSUME TypeOK, NEW b \in Sessions, NEW how \in {"close", "event", "reclaim"}, Release(b, how)
    PROVE  /\ lease' \in BOOLEAN /\ current' \in Sessions \cup {NoBrowser}
           /\ released' \subseteq Sessions
           /\ freedBy' \in [Sessions -> {"none", "close", "event", "reclaim"}]
BY DEF TypeOK, Release

LEMMA LeaseTypes == LeaseInv /\ [Next]_vars => TypeOK'
<1> SUFFICES ASSUME LeaseInv, [Next]_vars PROVE TypeOK'
    OBVIOUS
<1> USE DEF TypeOK, Running, Goto, LeaseInv
<1>1. ASSUME NEW s \in Sessions, Ask(s) PROVE TypeOK'              BY <1>1 DEF Ask
<1>2. ASSUME NEW s \in Sessions, Acquire(s) PROVE TypeOK'          BY <1>2 DEF Acquire
<1>3. ASSUME NEW s \in Sessions, WaitExpires(s) PROVE TypeOK'      BY <1>3 DEF WaitExpires
<1>4. ASSUME NEW s \in Sessions, ReclaimCheck(s) PROVE TypeOK'     BY <1>4 DEF ReclaimCheck
<1>5. ASSUME NEW s \in Sessions, ReclaimRelease(s) PROVE TypeOK'
    <2>1. victim[s] \in Sessions   BY <1>5 DEF ReclaimRelease, Evidence
    <2> QED                        BY <1>5, <2>1, ReleaseTypes DEF ReclaimRelease
<1>6. ASSUME NEW s \in Sessions, LaunchSucceeds(s) PROVE TypeOK'   BY <1>6 DEF LaunchSucceeds
<1>7. ASSUME NEW s \in Sessions, LaunchFails(s) PROVE TypeOK'      BY <1>7 DEF LaunchFails
<1>8. ASSUME NEW s \in Sessions, ReapOrphan(s) PROVE TypeOK'       BY <1>8 DEF ReapOrphan
<1>9. ASSUME NEW s \in Sessions, TreeDies(s) PROVE TypeOK'         BY <1>9 DEF TreeDies
<1>10. ASSUME NEW s \in Sessions, Disconnected(s) PROVE TypeOK'
    BY <1>10, ReleaseTypes DEF Disconnected
<1>11. ASSUME NEW s \in Sessions, CloseBegins(s) PROVE TypeOK'     BY <1>11 DEF CloseBegins
<1>12. ASSUME NEW s \in Sessions, GuardEscalates(s) PROVE TypeOK'  BY <1>12 DEF GuardEscalates
<1>13. ASSUME NEW s \in Sessions, CloseCallEnds(s) PROVE TypeOK'   BY <1>13 DEF CloseCallEnds
<1>14. ASSUME NEW s \in Sessions, FinishGuard(s) PROVE TypeOK'     BY <1>14 DEF FinishGuard
<1>15. ASSUME NEW s \in Sessions, Reap(s) PROVE TypeOK'            BY <1>15 DEF Reap
<1>16. ASSUME NEW s \in Sessions, CloseReleases(s) PROVE TypeOK'
    BY <1>16, ReleaseTypes DEF CloseReleases
<1>17. ASSUME NEW s \in Sessions, GuardEnds(s) PROVE TypeOK'       BY <1>17 DEF GuardEnds
<1>18. CASE UNCHANGED vars                                         BY <1>18 DEF vars
<1> QED
    BY <1>1, <1>2, <1>3, <1>4, <1>5, <1>6, <1>7, <1>8, <1>9, <1>10, <1>11, <1>12, <1>13, <1>14,
       <1>15, <1>16, <1>17, <1>18 DEF Next, Launch, Close

\* The holder gives the lease back, or somebody else's release has no effect.
LEMMA ReleaseKeepsOwnership ==
    ASSUME LeaseInv, NEW b \in Sessions, NEW how, Release(b, how), pc' = pc
    PROVE  Ownership'
<1> USE LeaseAssumption DEF LeaseInv, TypeOK, Ownership, Release, AtLaunch, Launched
<1>1. CASE b \notin released /\ current = b   BY <1>1
<1>2. CASE ~(b \notin released /\ current = b)   BY <1>2
<1> QED BY <1>1, <1>2

\* A session that moves on after its launch, with lease and holder as they are,
\* disturbs neither.
LEMMA MovingOn ==
    ASSUME LeaseInv, NEW s \in Sessions, NEW l \in Launched, Goto(s, l),
           pc[s] \notin AtLaunch, UNCHANGED <<lease, current>>
    PROVE  Ownership'
BY DEF LeaseInv, TypeOK, Ownership, Goto, AtLaunch, Launched

LEMMA OwnershipStep == LeaseInv /\ [Next]_vars => Ownership'
<1> SUFFICES ASSUME LeaseInv, [Next]_vars PROVE Ownership'
    OBVIOUS
<1> USE LeaseAssumption DEF AtLaunch, Launched
<1>1. ASSUME NEW s \in Sessions, Ask(s) PROVE Ownership'
    BY <1>1 DEF Ask, Goto, LeaseInv, TypeOK, Ownership
<1>2. ASSUME NEW s \in Sessions, Acquire(s) PROVE Ownership'
    BY <1>2 DEF Acquire, Goto, LeaseInv, TypeOK, Ownership
<1>3. ASSUME NEW s \in Sessions, WaitExpires(s) PROVE Ownership'
    BY <1>3 DEF WaitExpires, Goto, LeaseInv, TypeOK, Ownership
<1>4. ASSUME NEW s \in Sessions, ReclaimCheck(s) PROVE Ownership'
    BY <1>4 DEF ReclaimCheck, Goto, LeaseInv, TypeOK, Ownership
<1>5. ASSUME NEW s \in Sessions, ReclaimRelease(s) PROVE Ownership'
    <2>1. victim[s] \in Sessions
        BY <1>5 DEF ReclaimRelease, LeaseInv, Evidence
    <2>2. CASE victim[s] \notin released /\ current = victim[s]
        BY <1>5, <2>1, <2>2 DEF ReclaimRelease, Release, Goto, LeaseInv, TypeOK, Ownership
    <2>3. CASE ~(victim[s] \notin released /\ current = victim[s])
        BY <1>5, <2>1, <2>3 DEF ReclaimRelease, Release, Goto, LeaseInv, TypeOK, Ownership
    <2> QED BY <2>2, <2>3
<1>6. ASSUME NEW s \in Sessions, LaunchSucceeds(s) PROVE Ownership'
    BY <1>6 DEF LaunchSucceeds, Goto, LeaseInv, TypeOK, Ownership
<1>7. ASSUME NEW s \in Sessions, LaunchFails(s) PROVE Ownership'
    BY <1>7 DEF LaunchFails, Goto, LeaseInv, TypeOK, Ownership
<1>8. ASSUME NEW s \in Sessions, ReapOrphan(s) PROVE Ownership'
    BY <1>8 DEF ReapOrphan, Goto, LeaseInv, TypeOK, Ownership
<1>9. ASSUME NEW s \in Sessions, TreeDies(s) PROVE Ownership'
    BY <1>9 DEF TreeDies, LeaseInv, Ownership
<1>10. ASSUME NEW s \in Sessions, Disconnected(s) PROVE Ownership'
    BY <1>10, ReleaseKeepsOwnership DEF Disconnected
<1>11. ASSUME NEW s \in Sessions, CloseBegins(s) PROVE Ownership'
    BY <1>11, MovingOn DEF CloseBegins
<1>12. ASSUME NEW s \in Sessions, GuardEscalates(s) PROVE Ownership'
    BY <1>12 DEF GuardEscalates, LeaseInv, Ownership
<1>13. ASSUME NEW s \in Sessions, CloseCallEnds(s) PROVE Ownership'
    BY <1>13, MovingOn DEF CloseCallEnds
<1>14. ASSUME NEW s \in Sessions, FinishGuard(s) PROVE Ownership'
    BY <1>14, MovingOn DEF FinishGuard
<1>15. ASSUME NEW s \in Sessions, Reap(s) PROVE Ownership'
    BY <1>15, MovingOn DEF Reap
<1>16. ASSUME NEW s \in Sessions, CloseReleases(s) PROVE Ownership'
    <2>1. CASE s \notin released /\ current = s
        BY <1>16, <2>1 DEF CloseReleases, Release, Goto, LeaseInv, TypeOK, Ownership
    <2>2. CASE ~(s \notin released /\ current = s)
        BY <1>16, <2>2 DEF CloseReleases, Release, Goto, LeaseInv, TypeOK, Ownership
    <2> QED BY <2>1, <2>2
<1>17. ASSUME NEW s \in Sessions, GuardEnds(s) PROVE Ownership'
    BY <1>17 DEF GuardEnds, LeaseInv, Ownership
<1>18. CASE UNCHANGED vars
    BY <1>18 DEF vars, LeaseInv, Ownership
<1> QED
    BY <1>1, <1>2, <1>3, <1>4, <1>5, <1>6, <1>7, <1>8, <1>9, <1>10, <1>11, <1>12, <1>13, <1>14,
       <1>15, <1>16, <1>17, <1>18 DEF Next, Launch, Close

\* A step that starts no Chromium, revives none and names no new holder leaves
\* what was seen as it is.
LEMMA EvidenceStays ==
    ASSUME LeaseInv, NEW s \in Sessions, NEW l, Goto(s, l) \/ pc' = pc,
           pc[s] \in Launched => l \in Launched, l \notin {"reclaiming", "proven"},
           current' \in {current, NoBrowser}, UNCHANGED <<victim, recorded>>,
           \A t \in Sessions : tree'[t] \in Running => tree[t] \in Running,
           \A t \in Sessions : tree[t] = "dead" => tree'[t] = "dead"
    PROVE  Evidence'
BY LeaseAssumption DEF LeaseInv, TypeOK, Evidence, Goto, NoChromium, Running, Launched

LEMMA EvidenceStep == LeaseInv /\ [Next]_vars => Evidence'
<1> SUFFICES ASSUME LeaseInv, [Next]_vars PROVE Evidence'
    OBVIOUS
<1> USE LeaseAssumption DEF AtLaunch, Launched
<1>0. TypeOK /\ Ownership /\ Evidence
    BY DEF LeaseInv
<1>1. ASSUME NEW s \in Sessions, Ask(s) PROVE Evidence'
    BY <1>1, EvidenceStays DEF Ask
<1>2. ASSUME NEW s \in Sessions, Acquire(s) PROVE Evidence'
    BY <1>2, EvidenceStays DEF Acquire
<1>3. ASSUME NEW s \in Sessions, WaitExpires(s) PROVE Evidence'
    BY <1>3, EvidenceStays DEF WaitExpires
<1>4. ASSUME NEW s \in Sessions, ReclaimCheck(s) PROVE Evidence'
    <2>1. CASE ProvablyGone(current)
        <3>1. current \in Sessions /\ pc[current] \in Launched /\ NoChromium
            BY <1>0, <2>1 DEF ProvablyGone, TypeOK, Ownership
        <3> QED
            BY <1>0, <1>4, <2>1, <3>1 DEF ReclaimCheck, Goto, TypeOK, Evidence, NoChromium
    <2>2. CASE ~ProvablyGone(current)
        BY <1>4, <2>2, EvidenceStays DEF ReclaimCheck
    <2> QED BY <2>1, <2>2
<1>5. ASSUME NEW s \in Sessions, ReclaimRelease(s) PROVE Evidence'
    BY <1>5, EvidenceStays DEF ReclaimRelease, Release
<1>6. ASSUME NEW s \in Sessions, LaunchSucceeds(s) PROVE Evidence'
    BY <1>0, <1>6 DEF LaunchSucceeds, Goto, TypeOK, Ownership, Evidence, NoChromium
<1>7. ASSUME NEW s \in Sessions, LaunchFails(s) PROVE Evidence'
    BY <1>0, <1>7 DEF LaunchFails, Goto, TypeOK, Ownership, Evidence, NoChromium
<1>8. ASSUME NEW s \in Sessions, ReapOrphan(s) PROVE Evidence'
    BY <1>0, <1>8, EvidenceStays DEF ReapOrphan, TypeOK, Running
<1>9. ASSUME NEW s \in Sessions, TreeDies(s) PROVE Evidence'
    BY <1>0, <1>9 DEF TreeDies, TypeOK, Evidence, NoChromium, Running
<1>10. ASSUME NEW s \in Sessions, Disconnected(s) PROVE Evidence'
    BY <1>0, <1>10 DEF Disconnected, Release, TypeOK, Evidence, NoChromium
<1>11. ASSUME NEW s \in Sessions, CloseBegins(s) PROVE Evidence'
    BY <1>11, EvidenceStays DEF CloseBegins
<1>12. ASSUME NEW s \in Sessions, GuardEscalates(s) PROVE Evidence'
    BY <1>0, <1>12 DEF GuardEscalates, TypeOK, Evidence, NoChromium, Running
<1>13. ASSUME NEW s \in Sessions, CloseCallEnds(s) PROVE Evidence'
    BY <1>0, <1>13, EvidenceStays DEF CloseCallEnds, TypeOK, Running
<1>14. ASSUME NEW s \in Sessions, FinishGuard(s) PROVE Evidence'
    BY <1>14, EvidenceStays DEF FinishGuard
<1>15. ASSUME NEW s \in Sessions, Reap(s) PROVE Evidence'
    BY <1>0, <1>15 DEF Reap, Proof, Goto, TypeOK, Evidence, NoChromium, Running
<1>16. ASSUME NEW s \in Sessions, CloseReleases(s) PROVE Evidence'
    BY <1>16, EvidenceStays DEF CloseReleases, Release
<1>17. ASSUME NEW s \in Sessions, GuardEnds(s) PROVE Evidence'
    BY <1>0, <1>17 DEF GuardEnds, Evidence, NoChromium
<1>18. CASE UNCHANGED vars
    BY <1>0, <1>18 DEF vars, Evidence, NoChromium
<1> QED
    BY <1>1, <1>2, <1>3, <1>4, <1>5, <1>6, <1>7, <1>8, <1>9, <1>10, <1>11, <1>12, <1>13, <1>14,
       <1>15, <1>16, <1>17, <1>18 DEF Next, Launch, Close

LEMMA LeaseInvStep == LeaseInv /\ [Next]_vars => LeaseInv'
BY LeaseTypes, OwnershipStep, EvidenceStep DEF LeaseInv

\* The inductive invariant: types, who the lease is held for, and that what a
\* reclaim and close() act upon is still true.
THEOREM LeaseInvariance == Spec => []LeaseInv
BY LeaseInvInit, LeaseInvStep, PTL DEF Spec

-----------------------------------------------------------------------------

\* A set without two different members has at most one.
LEMMA AtMostOne ==
    ASSUME NEW S, \A x, y \in S : x = y
    PROVE  Cardinality(S) <= 1
<1>1. CASE S = {}
    BY <1>1, FS_EmptySet
<1>2. CASE S # {}
    <2>1. PICK x \in S : S = {x}    BY <1>2
    <2> QED                         BY <2>1, FS_Singleton
<1> QED BY <1>1, <1>2

\* The lease is held exactly while one session is entitled to the one Chromium,
\* for any number of sessions and however their launches, closes, callbacks and
\* reclaims interleave.
THEOREM LeaseHasItsOwner == Spec => []LeaseMatchesOwner
<1>1. ASSUME LeaseInv PROVE LeaseMatchesOwner
    <2> USE <1>1, LeaseAssumption DEF LeaseInv, Entitled, AtLaunch, Launched
    <2>1. lease <=> Entitled # {}
        BY DEF TypeOK, Ownership
    <2>2. \A x, y \in Entitled : x = y
        BY DEF Ownership
    <2>3. Cardinality(Entitled) <= 1
        BY <2>2, AtMostOne
    <2> QED BY <2>1, <2>3 DEF LeaseMatchesOwner
<1> QED BY <1>1, LeaseInvariance, PTL

\* Whoever gives a recorded browser's lease back does so when its processes, or
\* for a reclaim every Chromium, are dead in that very step.
THEOREM ReleaseIsProven == Spec => ProvenReleaseMeansDead
<1>1. ASSUME LeaseInv, [Next]_vars, NEW s \in Sessions, freedBy'[s] # freedBy[s]
      PROVE  /\ freedBy'[s] = "close" /\ s \in recorded => tree[s] = "dead"
             /\ freedBy'[s] = "reclaim" => NoChromium
    <2>1. \/ \E r \in Sessions : ReclaimRelease(r) \/ Disconnected(r)
          \/ \E r \in Sessions : CloseReleases(r)
        BY <1>1 DEF Next, Launch, Close, vars, Ask, Acquire, WaitExpires, ReclaimCheck,
           LaunchSucceeds, LaunchFails, ReapOrphan, TreeDies, CloseBegins, GuardEscalates,
           CloseCallEnds, FinishGuard, Reap, GuardEnds
    <2>2. ASSUME NEW r \in Sessions, ReclaimRelease(r) PROVE freedBy'[s] = "reclaim" /\ NoChromium
        BY <1>1, <2>2 DEF LeaseInv, TypeOK, Evidence, ReclaimRelease, Release
    <2>3. ASSUME NEW r \in Sessions, Disconnected(r) PROVE freedBy'[s] = "event"
        BY <1>1, <2>3 DEF LeaseInv, TypeOK, Disconnected, Release
    <2>4. ASSUME NEW r \in Sessions, CloseReleases(r)
          PROVE  freedBy'[s] = "close" /\ (s \in recorded => tree[s] = "dead")
        BY <1>1, <2>4 DEF LeaseInv, TypeOK, Evidence, CloseReleases, Release
    <2> QED BY <2>1, <2>2, <2>3, <2>4
<1>2. LeaseInv /\ [Next]_vars =>
          [\A s \in Sessions : freedBy'[s] # freedBy[s] =>
              /\ freedBy'[s] = "close" /\ s \in recorded => tree[s] = "dead"
              /\ freedBy'[s] = "reclaim" => NoChromium]_vars
    BY <1>1
<1> QED BY <1>2, LeaseInvariance, PTL DEF Spec, ProvenReleaseMeansDead

-----------------------------------------------------------------------------
(* BoundedCall: the watchdogs of bounded calls.                            *)

\* While every join waits for its guardian: what the calls before this one left
\* behind, and where the exception of this one may be.
Settled ==
    /\ \A i \in Numbers : i < calls => guardian[i] = "over"
    /\ \A i \in Numbers : i > calls => guardian[i] = "none"
    /\ thread \in {"outside", "absorbing"} /\ calls # 0 => guardian[calls] = "over"
    /\ thread # "outside" => calls # 0
    /\ \A i \in Numbers : guardian[i] = "raising" => fired[i]

Aimed ==
    pending # NoCall =>
        /\ pending = calls /\ fired[pending] /\ guardian[pending] = "over"
        /\ thread # "outside"

BoundedInv == BoundedTypeOK /\ (slow = 0 => Settled /\ Aimed /\ ~stray)

LEMMA BoundedInvInit == BoundedInit => BoundedInv
<1> SUFFICES ASSUME BoundedInit PROVE BoundedInv
    OBVIOUS
<1> USE BoundedAssumption DEF BoundedInit, Numbers, NoCall
<1>a. guardian \in [Numbers -> {"none", "waiting", "expired", "raising", "over"}]
    OBVIOUS
<1>b. fired \in [Numbers -> BOOLEAN]
    OBVIOUS
<1>c. calls \in 0..MaxCalls /\ slow \in 0..MaxSlow
    OBVIOUS
<1>1. BoundedTypeOK
    BY <1>a, <1>b, <1>c DEF BoundedTypeOK
<1>2. Settled            BY DEF Settled
<1>3. Aimed /\ ~stray    BY DEF Aimed
<1> QED                  BY <1>1, <1>2, <1>3 DEF BoundedInv

\* Every variable keeps its type.
LEMMA BoundedTypes == BoundedTypeOK /\ [BoundedNext]_boundedVars => BoundedTypeOK'
<1> SUFFICES ASSUME BoundedTypeOK, [BoundedNext]_boundedVars PROVE BoundedTypeOK'
    OBVIOUS
<1> USE BoundedAssumption DEF BoundedTypeOK, Numbers, NoCall
<1>1. CASE Enter                    BY <1>1 DEF Enter
<1>2. CASE Wedge                    BY <1>2 DEF Wedge
<1>3. CASE Returns                  BY <1>3 DEF Returns, Leave
<1>4. CASE Joined                   BY <1>4 DEF Joined, AfterJoin
<1>5. CASE Absorbed                 BY <1>5 DEF Absorbed
<1>6. CASE Deliver                  BY <1>6 DEF Deliver, Leave
<1>7. ASSUME NEW i \in Numbers, Expire(i) PROVE BoundedTypeOK'          BY <1>7 DEF Expire
<1>8. ASSUME NEW i \in Numbers, Fire(i) PROVE BoundedTypeOK'            BY <1>8 DEF Fire
<1>9. ASSUME NEW i \in Numbers, RaiseInThread(i) PROVE BoundedTypeOK'   BY <1>9 DEF RaiseInThread
<1>10. CASE UNCHANGED boundedVars   BY <1>10 DEF boundedVars
<1> QED
    BY <1>1, <1>2, <1>3, <1>4, <1>5, <1>6, <1>7, <1>8, <1>9, <1>10 DEF BoundedNext, GuardianStep

LEMMA BoundedInvStep == BoundedInv /\ [BoundedNext]_boundedVars => BoundedInv'
<1> SUFFICES ASSUME BoundedInv, [BoundedNext]_boundedVars PROVE BoundedInv'
    OBVIOUS
<1>t. BoundedTypeOK /\ BoundedTypeOK'
    BY BoundedTypes DEF BoundedInv
<1>m. slow' = 0 => slow = 0
    BY <1>t DEF BoundedTypeOK, BoundedNext, GuardianStep, boundedVars, Enter, Wedge, Returns, Joined,
       Absorbed, Deliver, Expire, Fire, RaiseInThread
<1> SUFFICES ASSUME slow = 0, slow' = 0, Settled, Aimed, ~stray
             PROVE  Settled' /\ Aimed' /\ ~stray'
    BY <1>t, <1>m DEF BoundedInv
<1> USE BoundedAssumption, <1>t DEF BoundedTypeOK, Numbers, NoCall, Settled, Aimed
<1>1. CASE Enter                    BY <1>1 DEF Enter
<1>2. CASE Wedge                    BY <1>2 DEF Wedge
<1>3. CASE Returns                  BY <1>3 DEF Returns, Leave
<1>4. CASE Joined                   BY <1>4 DEF Joined, AfterJoin
<1>5. CASE Absorbed                 BY <1>5 DEF Absorbed
<1>6. CASE Deliver                  BY <1>6 DEF Deliver, Leave
<1>7. ASSUME NEW i \in Numbers, Expire(i) PROVE Settled' /\ Aimed' /\ ~stray'
    BY <1>7 DEF Expire
<1>8. ASSUME NEW i \in Numbers, Fire(i) PROVE Settled' /\ Aimed' /\ ~stray'
    BY <1>8 DEF Fire
<1>9. ASSUME NEW i \in Numbers, RaiseInThread(i) PROVE Settled' /\ Aimed' /\ ~stray'
    BY <1>9 DEF RaiseInThread
<1>10. CASE UNCHANGED boundedVars   BY <1>10 DEF boundedVars
<1> QED
    BY <1>1, <1>2, <1>3, <1>4, <1>5, <1>6, <1>7, <1>8, <1>9, <1>10 DEF BoundedNext, GuardianStep

\* However the return of a call and the end of its time overlap, the exception
\* comes up in the call it is of, for any number of calls.
THEOREM ExceptionStaysInItsCall == BoundedSpec => []NoStrayUnwind
<1>1. BoundedInv => NoStrayUnwind   BY DEF BoundedInv, NoStrayUnwind
<1> QED BY BoundedInvInit, BoundedInvStep, <1>1, PTL DEF BoundedSpec

-----------------------------------------------------------------------------
(* OutboundPolicy and OutboundRequests: the calls of a session.            *)

\* A set of numbers has a least one.
LEMMA LeastOfNumbers ==
    ASSUME NEW S \in SUBSET Nat, S # {}
    PROVE  \E x \in S : \A y \in S : x <= y
<1>1. PICK x \in S : \A y \in S : ~(<<y, x>> \in OpToRel(<, Nat))
    BY WFMin, NatLessThanWellFounded
<1>2. \A y \in S : ~(y < x)
    BY <1>1 DEF OpToRel
<1> QED BY <1>2

\* The first of the answers that were all found routable is routable.
LEMMA PinnedIsRoutable ==
    ASSUME NEW answers \in Answers, Approved(answers)
    PROVE  Pinned(answers) \in Routable
<1>1. \E x \in answers : \A y \in answers : x <= y
    BY LeastOfNumbers, PolicyAssumption DEF Approved, Answers
<1>2. Pinned(answers) \in answers
    BY <1>1 DEF Pinned, Min
<1> QED BY <1>2 DEF Approved

-----------------------------------------------------------------------------

\* What the session holds between two hops is what it held at the start of the
\* call; while a hop is sent, the rest of it is remembered by the call.
Kept ==
    /\ call.at \in {"idle", "checking"} => session = SessionHolds
    /\ call.at \in {"sending", "connected"} =>
           call.original = SessionHolds /\ session = SessionHolds \ Suppressed

\* What a hop is entitled to by the way the chain has gone.
HopEntitled ==
    call.at # "idle" =>
        /\ call.trusted \/ "own" \in call.holds => ~Strayed
        /\ "params" \in call.holds => Hops = 0
        /\ Hops = 0 => call.trusted

\* What is on the wire.
Wire ==
    call.at = "connected" =>
        call.sent = call.holds \cup session /\ call.address \in Routable

RequestInv == RequestTypeOK /\ Kept /\ HopEntitled /\ Wire

LEMMA RequestInvInit == RequestInit => RequestInv
BY DEF RequestInit, RequestInv, RequestTypeOK, Kept, HopEntitled, Wire, Idle, SessionHolds

LEMMA RequestInvStep == RequestInv /\ [RequestNext]_requestVars => RequestInv'
<1> SUFFICES ASSUME RequestInv, [RequestNext]_requestVars PROVE RequestInv'
    OBVIOUS
<1> USE RequestAssumption DEF SessionHolds, CallHolds, Answers
<1>1. CASE Call
    BY <1>1 DEF Call, RequestInv, RequestTypeOK, Calls, Kept, HopEntitled, Wire, Hops, Strayed
<1>2. CASE Check
    BY <1>2 DEF Check, RequestInv, RequestTypeOK, Calls, Kept, HopEntitled, Wire, Hops, Strayed, Suppressed
<1>3. CASE Connect
    <2>1. PICK answers \in Answers :
              /\ Approved(answers)
              /\ call' = [call EXCEPT !.at = "connected", !.address = Pinned(answers),
                                      !.sent = call.holds \cup session]
        BY <1>3 DEF Connect
    <2>2. Pinned(answers) \in Routable
        BY <2>1, PinnedIsRoutable
    <2>3. call.at = "sending" /\ call \in Calls /\ session' = session
        BY <1>3 DEF Connect, RequestInv, RequestTypeOK
    <2> QED
        BY <2>1, <2>2, <2>3, PolicyAssumption
           DEF RequestInv, RequestTypeOK, Calls, Kept, HopEntitled, Wire, Hops, Strayed, Suppressed
<1>4. CASE Refused
    BY <1>4 DEF Refused, Restore, Idle, RequestInv, RequestTypeOK, Calls, Kept, HopEntitled, Wire
<1>5. CASE Fails
    BY <1>5 DEF Fails, Restore, Idle, RequestInv, RequestTypeOK, Calls, Kept, HopEntitled, Wire
<1>6. CASE Answered
    BY <1>6 DEF Answered, Restore, Idle, RequestInv, RequestTypeOK, Calls, Kept, HopEntitled, Wire
<1>7. ASSUME NEW o \in Origins, Redirected(o) PROVE RequestInv'
    <2>1. /\ call.at = "connected" /\ call \in Calls /\ session' = call.original
          /\ call' = [call EXCEPT
                 !.at = "checking",
                 !.origin = o,
                 !.holds = @ \ ({"params"} \cup IF o # call.origin THEN {"own"} ELSE {}),
                 !.trusted = StillTrusted(o),
                 !.history = Append(@, call.origin),
                 !.address = NoAddress,
                 !.sent = {}]
        BY <1>7 DEF Redirected, Restore, RequestInv, RequestTypeOK
    <2>2. call' \in Calls
        <3>1. StillTrusted(o) \in BOOLEAN
            BY <2>1 DEF Calls, StillTrusted
        <3>2. Append(call.history, call.origin) \in Seq(Origins)
            BY <2>1 DEF Calls
        <3> QED
            BY <2>1, <3>1, <3>2 DEF Calls
    <2>3. /\ call.history \in Seq(Origins) /\ call.origin \in Origins
          /\ call'.history = Append(call.history, call.origin)
          /\ call'.origin = o /\ call'.trusted = StillTrusted(o)
          /\ "own" \in call'.holds => "own" \in call.holds /\ o = call.origin
          /\ "params" \notin call'.holds
        BY <2>1 DEF Calls
    <2>4. ASSUME call.trusted \/ "own" \in call.holds, o = call.origin PROVE ~Strayed'
        <3>1. \A i \in 1..Len(call.history) : call.history[i] = call.origin
            BY <2>1, <2>4 DEF RequestInv, HopEntitled, Strayed, Hops
        <3>2. \A i \in 1..Len(call'.history) : call'.history[i] = call'.origin
            BY <2>3, <2>4, <3>1
        <3> QED BY <3>2 DEF Strayed, Hops
    <2>5. HopEntitled'
        <3>1. Hops' # 0
            BY <2>3 DEF Hops
        <3> QED
            BY <2>3, <2>4, <3>1 DEF HopEntitled, StillTrusted
    <2>6. Kept' /\ Wire' /\ RequestTypeOK'
        BY <2>1, <2>2 DEF RequestInv, RequestTypeOK, Kept, Wire
    <2> QED BY <2>5, <2>6 DEF RequestInv
<1>8. CASE UNCHANGED requestVars
    BY <1>8 DEF requestVars, RequestInv, RequestTypeOK, Calls, Kept, HopEntitled, Wire, Hops, Strayed, Suppressed
<1> QED BY <1>1, <1>2, <1>3, <1>4, <1>5, <1>6, <1>7, <1>8 DEF RequestNext

\* Types, what the session holds, what the chain entitles a hop to and what is
\* on the wire, for every number of origins and redirects.
THEOREM RequestInvariance == RequestSpec => []RequestInv
BY RequestInvInit, RequestInvStep, PTL DEF RequestSpec

\* Credentials and query parameters stay with the origin the call was made to,
\* and the session has its own back for the next call.
THEOREM SecretsStay == RequestSpec => []SecretsStayHome
<1>1. ASSUME RequestInv, call.at = "connected"
      PROVE  /\ Strayed => call.sent \cap {"own", "session"} = {}
             /\ Hops > 0 => call.sent \cap {"params", "defaults"} = {}
             /\ Hops = 0 => SessionHolds \subseteq call.sent
    <2>1. /\ call.sent = call.holds \cup (SessionHolds \ Suppressed)
          /\ call.holds \subseteq CallHolds /\ Hops \in Nat
        BY <1>1 DEF RequestInv, RequestTypeOK, Calls, Kept, Wire, Hops
    <2>2. Strayed => ~call.trusted /\ "own" \notin call.holds
        BY <1>1 DEF RequestInv, HopEntitled
    <2>3. Hops # 0 => "params" \notin call.holds
        BY <1>1 DEF RequestInv, HopEntitled
    <2>4. Hops = 0 => call.trusted
        BY <1>1 DEF RequestInv, HopEntitled
    <2> QED
        BY <2>1, <2>2, <2>3, <2>4 DEF Suppressed, SessionHolds, CallHolds
<1>2. RequestInv => SecretsStayHome
    BY <1>1 DEF SecretsStayHome
<1> QED BY <1>2, RequestInvariance, PTL

\* Whatever DNS answers from one lookup to the next, the address a session
\* connects to was found globally routable.
THEOREM ConnectionsAreJudged == RequestSpec => []RequestsReachOnlyApproved
<1>1. RequestInv => RequestsReachOnlyApproved
    BY DEF RequestInv, Wire, RequestsReachOnlyApproved
<1> QED BY <1>1, RequestInvariance, PTL

-----------------------------------------------------------------------------
(* PageGuard: the requests of a page.                                      *)

\* A request that is let through was judged by the answers it is kept with.
Judged ==
    \A r \in PageRequests :
        request[r].at \in {"allowed", "continued"} =>
            Approved(request[r].answers) /\ request[r].depth <= MaxPageRedirects

\* request is a function, and every request keeps its type.
PageTyped == PageTypeOK /\ request = [r \in PageRequests |-> request[r]]

PageInv == PageTyped /\ Judged

\* A request that is intercepted is not let through yet.
LEMMA Interception ==
    ASSUME PageInv, NEW r \in PageRequests, NEW kind \in {"http", "socket"},
           NEW depth \in 0..(MaxPageRedirects + 1), Intercepted(r, kind, depth), page' = page
    PROVE  PageInv'
<1>1. /\ request' = [q \in PageRequests |-> request'[q]]
      /\ request'[r] = [at |-> "intercepted", kind |-> kind, depth |-> depth, answers |-> {}]
      /\ \A q \in PageRequests : q # r => request'[q] = request[q]
    BY DEF Intercepted, PageInv, PageTyped
<1>2. request'[r] \in Requests
    BY <1>1 DEF Requests, Answers
<1> QED
    BY <1>1, <1>2 DEF PageInv, PageTyped, PageTypeOK, Judged

LEMMA PageInvInit == PageInit => PageInv
BY DEF PageInit, PageInv, PageTyped, PageTypeOK, Judged, NotMade

LEMMA PageInvStep == PageInv /\ [PageNext]_pageVars => PageInv'
<1> SUFFICES ASSUME PageInv, [PageNext]_pageVars PROVE PageInv'
    OBVIOUS
<1> USE GuardAssumption DEF PageInv, PageTyped, PageTypeOK, Judged, NotMade
<1>1. CASE PageGone
    BY <1>1 DEF PageGone
<1>2. ASSUME NEW r \in PageRequests, Load(r) PROVE PageInv'
    BY <1>2, Interception DEF Load
<1>3. ASSUME NEW r \in PageRequests, NEW from \in PageRequests, RedirectPage(r, from) PROVE PageInv'
    <2>1. request[from] \in Requests
        BY <1>3 DEF RedirectPage
    <2>2. request[from].depth + 1 \in 0..(MaxPageRedirects + 1)
        BY <1>3, <2>1 DEF RedirectPage, Requests
    <2> QED
        BY <1>3, <2>2, Interception DEF RedirectPage
<1>4. ASSUME NEW r \in PageRequests, Judge(r) PROVE PageInv'
    <2>1. PICK answers \in Answers, raises \in BOOLEAN :
              request' = [request EXCEPT ![r].at = Verdict(r, answers, raises),
                                         ![r].answers = IF raises THEN {} ELSE answers]
        BY <1>4 DEF Judge
    <2>2. request[r] \in Requests /\ page' = page
        BY <1>4 DEF Judge
    <2>3. request'[r] = [request[r] EXCEPT !.at = Verdict(r, answers, raises),
                                           !.answers = IF raises THEN {} ELSE answers]
        BY <2>1
    <2>4. \A q \in PageRequests : q # r => request'[q] = request[q]
        BY <2>1
    <2>5. request'[r] \in Requests
        BY <2>2, <2>3 DEF Requests, Verdict, Answers
    <2>6. request'[r].at = "allowed" =>
              Approved(request'[r].answers) /\ request'[r].depth <= MaxPageRedirects
        BY <2>2, <2>3 DEF Requests, Verdict
    <2>7. request'[r].at # "continued"
        BY <2>2, <2>3 DEF Requests, Verdict
    <2>8. request' = [q \in PageRequests |-> request'[q]]
        BY <2>1
    <2> QED
        BY <2>2, <2>4, <2>5, <2>6, <2>7, <2>8
<1>5. ASSUME NEW r \in PageRequests, Settle(r) PROVE PageInv'
    BY <1>5 DEF Settle, Requests
<1>6. CASE UNCHANGED pageVars
    BY <1>6 DEF pageVars
<1> QED
    BY <1>1, <1>2, <1>3, <1>4, <1>5, <1>6 DEF PageNext

\* No request of a page goes on unless its own lookup approved it, for any
\* number of requests and redirects.
THEOREM PagesAreGuarded == PageSpec => []PagesReachOnlyApproved
<1>1. PageInv => PagesReachOnlyApproved
    BY DEF PageInv, Judged, PagesReachOnlyApproved
<1> QED
    BY PageInvInit, PageInvStep, <1>1, PTL DEF PageSpec

-----------------------------------------------------------------------------
(* BrowserEgress: the tunnels and slots of the proxy.                      *)

Working == {t \in Tunnels : tunnel[t].worker # "off"}

\* The semaphore of a running proxy and its workers add up; without a proxy that
\* serves there are none.
SlotsAccounted ==
    /\ IsFiniteSet(Working)
    /\ proxy \in {"none", "starting", "gone"} => Working = {}
    /\ ProxyRuns => free + Cardinality(Working) = MaxSlots

Tunnel == [relay   : {"off", "dialling", "copying"},
           worker  : {"off", "reading", "connecting", "pumping"},
           client  : BOOLEAN,
           address : Addresses \cup {NoAddress}]

\* A worker connects to judged addresses only, and there is none before the relay's
\* connection is taken.
Sound(c) ==
    /\ c.worker \in {"connecting", "pumping"} => c.address \in Routable
    /\ c.relay = "dialling" => c.worker = "off"

TunnelsSound == \A t \in Tunnels : Sound(tunnel[t])

EgressInv == EgressTypeOK /\ SlotsAccounted /\ TunnelsSound

LEMMA OffIsTunnel == Off \in Tunnel /\ Off.worker = "off"
BY DEF Off, Tunnel

\* What becomes of a tunnel, field by field.
LEMMA TunnelChanges ==
    ASSUME NEW c \in Tunnel
    PROVE  /\ LET d == [c EXCEPT !.worker = "off", !.client = FALSE, !.address = NoAddress]
              IN  d \in Tunnel /\ d.relay = c.relay /\ d.worker = "off"
           /\ LET d == [c EXCEPT !.relay = "off", !.client = FALSE]
              IN  /\ d \in Tunnel /\ d.relay = "off" /\ d.worker = c.worker
                  /\ d.address = c.address
           /\ LET d == [c EXCEPT !.relay = "copying", !.worker = "reading", !.client = TRUE]
              IN  d \in Tunnel /\ d.relay = "copying" /\ d.worker = "reading"
           /\ LET d == [c EXCEPT !.worker = "pumping"]
              IN  /\ d \in Tunnel /\ d.relay = c.relay /\ d.worker = "pumping"
                  /\ d.address = c.address
BY DEF Tunnel

LEMMA TunnelAuthorized ==
    ASSUME NEW c \in Tunnel, NEW a \in Addresses
    PROVE  LET d == [c EXCEPT !.worker = "connecting", !.address = a]
           IN  /\ d \in Tunnel /\ d.relay = c.relay /\ d.worker = "connecting"
               /\ d.address = a
BY DEF Tunnel

LEMMA TunnelDialling ==
    LET d == [Off EXCEPT !.relay = "dialling"] IN d \in Tunnel /\ d.worker = "off"
BY DEF Off, Tunnel

\* One tunnel changes and its worker neither starts nor ends.
LEMMA WorkerStays ==
    ASSUME EgressInv, NEW t \in Tunnels, NEW c \in Tunnel, Sound(c),
           (c.worker = "off") <=> (tunnel[t].worker = "off"),
           TunnelStep(t, c), UNCHANGED free
    PROVE  EgressInv'
<1> USE DEF EgressInv, EgressTypeOK, TunnelStep, Tunnel, browserSide
<1>1. EgressTypeOK'
    OBVIOUS
<1>2. \A q \in Tunnels : tunnel'[q] = IF q = t THEN c ELSE tunnel[q]
    OBVIOUS
<1>3. Working' = Working
    BY <1>2 DEF Working
<1>4. TunnelsSound'
    BY <1>2 DEF TunnelsSound, Sound
<1> QED BY <1>1, <1>3, <1>4 DEF SlotsAccounted, ProxyRuns

\* A worker starts and takes a slot, or ends and gives it back.
LEMMA WorkerStarts ==
    ASSUME EgressInv, NEW t \in Tunnels, NEW c \in Tunnel, Sound(c),
           c.worker # "off", tunnel[t].worker = "off", proxy = "serving",
           TunnelStep(t, c), free > 0, free' = free - 1
    PROVE  EgressInv'
<1> USE EgressAssumption DEF EgressInv, EgressTypeOK, TunnelStep, Tunnel, browserSide
<1>1. EgressTypeOK'
    OBVIOUS
<1>2. \A q \in Tunnels : tunnel'[q] = IF q = t THEN c ELSE tunnel[q]
    OBVIOUS
<1>3. Working' = Working \cup {t} /\ t \notin Working
    BY <1>2 DEF Working
<1>4. /\ IsFiniteSet(Working') /\ Cardinality(Working') = Cardinality(Working) + 1
      /\ Cardinality(Working) \in Nat
    BY <1>3, FS_AddElement, FS_CardinalityType DEF SlotsAccounted
<1>5. TunnelsSound'
    BY <1>2 DEF TunnelsSound, Sound
<1> QED BY <1>1, <1>4, <1>5 DEF SlotsAccounted, ProxyRuns

LEMMA WorkerOver ==
    ASSUME EgressInv, NEW t \in Tunnels, tunnel[t].worker # "off", WorkerEnds(t)
    PROVE  EgressInv'
<1> USE EgressAssumption DEF EgressInv, EgressTypeOK, TunnelStep, browserSide
<1> DEFINE c == [tunnel[t] EXCEPT !.worker = "off", !.client = FALSE, !.address = NoAddress]
<1>1. c \in Tunnel /\ c.worker = "off"
  <2>1. tunnel[t] \in Tunnel
      BY DEF Tunnel
  <2> QED BY <2>1, TunnelChanges
<1>2. tunnel' = [tunnel EXCEPT ![t] = c] /\ free' = free + 1
    BY DEF WorkerEnds
<1> HIDE DEF c
<1>3. \A q \in Tunnels : tunnel'[q] = IF q = t THEN c ELSE tunnel[q]
    BY <1>2
<1>4. Working' = Working \ {t} /\ t \in Working
    BY <1>1, <1>3 DEF Working
<1>5. /\ IsFiniteSet(Working') /\ Cardinality(Working') = Cardinality(Working) - 1
      /\ Cardinality(Working) \in Nat /\ Cardinality(Working') \in Nat
    BY <1>4, FS_RemoveElement, FS_CardinalityType DEF SlotsAccounted
<1>6. proxy \in {"serving", "winding", "broken"} /\ proxy' = proxy
    BY <1>4 DEF SlotsAccounted, WorkerEnds
<1>7. free' \in 0..MaxSlots /\ free' + Cardinality(Working') = MaxSlots
    BY <1>2, <1>5, <1>6 DEF SlotsAccounted, ProxyRuns
<1>8. EgressTypeOK'
    BY <1>1, <1>2, <1>7 DEF WorkerEnds, Tunnel
<1>9. TunnelsSound'
    BY <1>1, <1>3 DEF TunnelsSound, Sound
<1> QED BY <1>5, <1>6, <1>7, <1>8, <1>9 DEF SlotsAccounted

\* The proxy's process ends with all its workers, and with it their slots.
LEMMA AllCut ==
    ASSUME EgressInv, CutWorkers, proxy' = "gone", UNCHANGED <<launch, checked, free, browserSide>>,
           socketFile' \in {"absent", "bound", "stale"}, breaks' \in 0..MaxFaults
    PROVE  EgressInv'
<1>1. \A t \in Tunnels : tunnel'[t] \in Tunnel /\ tunnel'[t].worker = "off"
  <2> TAKE t \in Tunnels
  <2>1. tunnel[t] \in Tunnel
      BY DEF EgressInv, EgressTypeOK, Tunnel
  <2> DEFINE d == [tunnel[t] EXCEPT !.worker = "off", !.client = FALSE, !.address = NoAddress]
  <2>2. d \in Tunnel /\ d.worker = "off"
      BY <2>1, TunnelChanges
  <2>3. tunnel'[t] = d
      BY DEF CutWorkers
  <2> QED BY <2>2, <2>3
<1>2. tunnel' \in [Tunnels -> Tunnel]
    BY <1>1 DEF CutWorkers
<1>3. EgressTypeOK'
    BY <1>2 DEF EgressInv, EgressTypeOK, browserSide, Tunnel
<1>4. Working' = {}
    BY <1>1 DEF Working
<1>5. SlotsAccounted'
    BY <1>4, FS_EmptySet DEF SlotsAccounted, ProxyRuns
<1>6. TunnelsSound'
    BY <1>1 DEF TunnelsSound, Sound
<1> QED BY <1>3, <1>5, <1>6 DEF EgressInv

\* The relay's ends close with the runner; the workers find out later.
LEMMA AllHungUp ==
    ASSUME EgressInv, NEW how \in {"over", "lost"}, RunnerOver(how),
           watchdog' \in {"off", "reading", "told", "gone", "killed", "over"},
           chromium' \in {"none", "alive", "dead"}, breaks' \in 0..MaxFaults
    PROVE  EgressInv'
<1>1. \A t \in Tunnels : /\ tunnel'[t] \in Tunnel /\ tunnel'[t].worker = tunnel[t].worker
                         /\ tunnel'[t].address = tunnel[t].address
                         /\ tunnel'[t].relay = "off"
  <2> TAKE t \in Tunnels
  <2>1. tunnel[t] \in Tunnel
      BY DEF EgressInv, EgressTypeOK, Tunnel
  <2> DEFINE d == [tunnel[t] EXCEPT !.relay = "off", !.client = FALSE]
  <2>2. d \in Tunnel /\ d.relay = "off" /\ d.worker = tunnel[t].worker
        /\ d.address = tunnel[t].address
      BY <2>1, TunnelChanges
  <2>3. tunnel'[t] = d
      BY DEF RunnerOver
  <2> QED BY <2>2, <2>3
<1>2. tunnel' \in [Tunnels -> Tunnel]
    BY <1>1 DEF RunnerOver
<1>3. EgressTypeOK'
    BY <1>2 DEF EgressInv, EgressTypeOK, RunnerOver, BrowserStep, Tunnel
<1>4. Working' = Working
    BY <1>1 DEF Working
<1>5. SlotsAccounted'
    BY <1>4 DEF EgressInv, SlotsAccounted, ProxyRuns, RunnerOver, BrowserStep
<1>6. TunnelsSound'
    BY <1>1 DEF EgressInv, TunnelsSound, Sound
<1> QED BY <1>3, <1>5, <1>6 DEF EgressInv

\* A step that leaves the tunnels, the slots and whether the proxy runs as they are.
LEMMA TunnelsAlone ==
    ASSUME EgressInv, EgressTypeOK', UNCHANGED <<tunnel, free, proxy>>
    PROVE  EgressInv'
BY DEF EgressInv, SlotsAccounted, Working, ProxyRuns, TunnelsSound, Sound

LEMMA EgressInvStep == EgressInv /\ [EgressNext]_egressVars => EgressInv'
<1> SUFFICES ASSUME EgressInv, [EgressNext]_egressVars PROVE EgressInv'
    OBVIOUS
<1> USE EgressAssumption DEF Breaks, browserSide, ProbeStep, BrowserStep
<1>t. EgressTypeOK /\ SlotsAccounted /\ \A t \in Tunnels : tunnel[t] \in Tunnel
    BY DEF EgressInv, EgressTypeOK, Tunnel
<1>r. \A t \in Tunnels : Sound(tunnel[t])
    BY DEF EgressInv, TunnelsSound, Sound
<1>1. CASE \/ AskForBrowser \/ EnsureRunning \/ PollSucceeds \/ RuntimeRefused \/ ProbeNamespace
           \/ ProbeProxy \/ StartRunner \/ LeaseBusy
  <2>1. ASSUME AskForBrowser \/ EnsureRunning \/ PollSucceeds \/ RuntimeRefused
        PROVE  EgressTypeOK'
      BY <1>t, <2>1 DEF EgressTypeOK, AskForBrowser, EnsureRunning, PollSucceeds, RuntimeRefused
  <2>2. ASSUME ProbeNamespace \/ ProbeProxy PROVE EgressTypeOK'
    <3>1. checked' \in BOOLEAN
        BY <1>t, <2>2, Zenon DEF EgressTypeOK, ProbeNamespace, ProbeProxy
    <3>2. launch' \in {"ready", "refused", "ensuring"} /\ breaks' \in 0..MaxFaults
        BY <1>t, <2>2 DEF EgressTypeOK, ProbeNamespace, ProbeProxy
    <3>3. UNCHANGED <<proxy, socketFile, free, tunnel, runner, watchdog, chromium>>
        BY <2>2 DEF ProbeNamespace, ProbeProxy
    <3> QED BY <1>t, <3>1, <3>2, <3>3 DEF EgressTypeOK
  <2>3. ASSUME StartRunner \/ LeaseBusy PROVE EgressTypeOK'
      BY <1>t, <2>3 DEF EgressTypeOK, StartRunner, LeaseBusy
  <2>4. EgressTypeOK'
      BY <1>1, <2>1, <2>2, <2>3
  <2> QED
      BY <1>1, <2>4, TunnelsAlone DEF AskForBrowser, EnsureRunning, PollSucceeds, RuntimeRefused,
         ProbeNamespace, ProbeProxy, StartRunner, LeaseBusy
<1>2. CASE EnsureStarts
  <2>1. Working = {} /\ Working' = Working
      BY <1>2, <1>t DEF EnsureStarts, ProxyRuns, SlotsAccounted, EgressTypeOK, Working
  <2>2. EgressTypeOK'
      BY <1>2, <1>t DEF EnsureStarts, EgressTypeOK
  <2>3. free' = MaxSlots /\ Cardinality(Working') = 0 /\ IsFiniteSet(Working')
      BY <1>2, <2>1, FS_EmptySet DEF EnsureStarts
  <2>4. SlotsAccounted'
      BY <2>1, <2>3 DEF SlotsAccounted
  <2> QED BY <1>2, <2>2, <2>4 DEF EnsureStarts, EgressInv, TunnelsSound, Sound
<1>3. CASE PollFails
  <2>1. Working = {} /\ Working' = Working
      BY <1>3, <1>t DEF PollFails, SlotsAccounted, Working
  <2>2. EgressTypeOK'
      BY <1>3, <1>t DEF PollFails, EgressTypeOK
  <2> QED
      BY <1>3, <1>t, <2>1, <2>2 DEF PollFails, EgressInv, SlotsAccounted, ProxyRuns,
         TunnelsSound, Sound
<1>4. CASE ProxyBinds \/ ProxyLeavesLoop
  <2>1. EgressTypeOK'
      BY <1>4, <1>t DEF ProxyBinds, ProxyLeavesLoop, EgressTypeOK
  <2>2. Working' = Working
      BY <1>4 DEF ProxyBinds, ProxyLeavesLoop, Working
  <2> QED
      BY <1>4, <1>t, <2>1, <2>2 DEF ProxyBinds, ProxyLeavesLoop, EgressInv, SlotsAccounted,
         ProxyRuns, TunnelsSound, Sound
<1>5. CASE ProxyEnds \/ ProxyKilled
  <2>1. breaks' \in 0..MaxFaults /\ socketFile' \in {"absent", "bound", "stale"}
      BY <1>5, <1>t DEF ProxyEnds, ProxyKilled, EgressTypeOK
  <2> QED BY <1>5, <2>1, AllCut DEF ProxyEnds, ProxyKilled
<1>6. ASSUME NEW t \in Tunnels, Open(t) PROVE EgressInv'
  <2> DEFINE c == [Off EXCEPT !.relay = "dialling"]
  <2>1. c \in Tunnel /\ c.worker = "off"
      BY TunnelDialling
  <2>3. tunnel[t].worker = "off" /\ TunnelStep(t, c) /\ UNCHANGED free
      BY <1>6, OffIsTunnel DEF Open
  <2> HIDE DEF c
  <2>2. Sound(c)
      BY <2>1 DEF Sound
  <2> QED BY <2>1, <2>2, <2>3, WorkerStays
<1>7. ASSUME NEW t \in Tunnels, Dial(t) PROVE EgressInv'
  <2>1. tunnel[t].worker = "off"
      BY <1>7, <1>r DEF Dial, Sound
  <2>2. CASE proxy = "serving" /\ free > 0
    <3> DEFINE c == [tunnel[t] EXCEPT !.relay = "copying", !.worker = "reading", !.client = TRUE]
    <3>1. c \in Tunnel /\ Sound(c) /\ c.worker # "off"
        BY <1>t, TunnelChanges DEF Tunnel, Sound
    <3>2. TunnelStep(t, c) /\ free' = free - 1
        BY <1>7, <2>2 DEF Dial
    <3> HIDE DEF c
    <3> QED BY <2>1, <2>2, <3>1, <3>2, WorkerStarts
  <2>3. CASE ~(proxy = "serving" /\ free > 0)
    <3>1. TunnelStep(t, Off) /\ UNCHANGED free
        BY <1>7, <2>3 DEF Dial
    <3> QED BY <2>1, <3>1, OffIsTunnel, WorkerStays DEF Sound
  <2> QED BY <2>2, <2>3
<1>8. ASSUME NEW t \in Tunnels, RelayEnds(t) PROVE EgressInv'
  <2> DEFINE c == [tunnel[t] EXCEPT !.relay = "off", !.client = FALSE]
  <2>1. c \in Tunnel /\ c.relay = "off" /\ c.worker = tunnel[t].worker
        /\ c.address = tunnel[t].address
      BY <1>t, TunnelChanges
  <2>2. TunnelStep(t, c) /\ UNCHANGED free
      BY <1>8 DEF RelayEnds
  <2> HIDE DEF c
  <2>3. Sound(c)
      BY <2>1, <1>r DEF Sound
  <2> QED BY <2>1, <2>2, <2>3, WorkerStays
<1>9. ASSUME NEW t \in Tunnels, Authorize(t) PROVE EgressInv'
  <2>1. PICK answers \in Answers :
            /\ Approved(answers)
            /\ TunnelStep(t, [tunnel[t] EXCEPT !.worker = "connecting",
                                               !.address = Pinned(answers)])
      BY <1>9 DEF Authorize
  <2>2. Pinned(answers) \in Routable
      BY <2>1, PinnedIsRoutable
  <2> DEFINE c == [tunnel[t] EXCEPT !.worker = "connecting", !.address = Pinned(answers)]
  <2>3. c \in Tunnel /\ c.relay = tunnel[t].relay /\ c.worker = "connecting"
        /\ c.address = Pinned(answers)
      BY <2>2, <1>t, TunnelAuthorized, PolicyAssumption
  <2>4. TunnelStep(t, c) /\ UNCHANGED free /\ tunnel[t].worker = "reading"
      BY <1>9, <2>1 DEF Authorize
  <2> HIDE DEF c
  <2>5. Sound(c)
      BY <2>2, <2>3, <2>4, <1>r DEF Sound
  <2> QED BY <2>3, <2>4, <2>5, WorkerStays
<1>10. ASSUME NEW t \in Tunnels, Connected(t) PROVE EgressInv'
  <2> DEFINE c == [tunnel[t] EXCEPT !.worker = "pumping"]
  <2>1. c \in Tunnel /\ c.relay = tunnel[t].relay /\ c.worker = "pumping"
        /\ c.address = tunnel[t].address
      BY <1>t, TunnelChanges
  <2>2. TunnelStep(t, c) /\ UNCHANGED free /\ tunnel[t].worker = "connecting"
      BY <1>10 DEF Connected
  <2> HIDE DEF c
  <2>3. Sound(c)
      BY <2>1, <2>2, <1>r DEF Sound
  <2> QED BY <2>1, <2>2, <2>3, WorkerStays
<1>11. ASSUME NEW t \in Tunnels, NotAuthorized(t) \/ NotConnected(t) \/ PumpEnds(t)
       PROVE  EgressInv'
    BY <1>11, WorkerOver DEF NotAuthorized, NotConnected, PumpEnds
<1>12. CASE SpawnChromium \/ ChromiumEnds \/ WatchdogKilled \/ WatchdogActs \/ BrowserGone
  <2>1. EgressTypeOK'
      BY <1>12, <1>t DEF EgressTypeOK, SpawnChromium, ChromiumEnds, WatchdogKilled,
         WatchdogActs, BrowserGone
  <2> QED
      BY <1>12, <2>1, TunnelsAlone DEF SpawnChromium, ChromiumEnds, WatchdogKilled,
         WatchdogActs, BrowserGone
<1>13. CASE RunnerEnds \/ RunnerKilled
    BY <1>13, <1>t, AllHungUp DEF EgressTypeOK, RunnerEnds, RunnerKilled
<1>14. CASE TellWatchdog
  <2>1. CASE watchdog = "reading"
    <3>1. EgressTypeOK'
        BY <1>14, <2>1, <1>t DEF EgressTypeOK, TellWatchdog
    <3> QED BY <1>14, <2>1, <3>1, TunnelsAlone DEF TellWatchdog
  <2>2. CASE watchdog # "reading"
      BY <1>14, <2>2, <1>t, AllHungUp DEF EgressTypeOK, TellWatchdog
  <2> QED BY <2>1, <2>2
<1>15. CASE UNCHANGED egressVars
    BY <1>15, <1>t, TunnelsAlone DEF egressVars, EgressTypeOK
<1> QED
    BY <1>1, <1>2, <1>3, <1>4, <1>5, <1>6, <1>7, <1>8, <1>9, <1>10, <1>11, <1>12, <1>13, <1>14,
       <1>15 DEF EgressNext, Launching, TunnelNext

LEMMA EgressInvInit == EgressInit => EgressInv
<1> SUFFICES ASSUME EgressInit PROVE EgressInv
    OBVIOUS
<1> USE EgressAssumption DEF EgressInit
<1>1. \A t \in Tunnels : tunnel[t] = Off /\ Off \in Tunnel /\ Off.worker = "off"
    BY OffIsTunnel
<1>2. EgressTypeOK
  <2>1. tunnel \in [Tunnels -> Tunnel]
      BY OffIsTunnel
  <2>2. free \in 0..MaxSlots /\ breaks \in 0..MaxFaults
      OBVIOUS
  <2>3. checked \in BOOLEAN
      OBVIOUS
  <2> QED BY <2>1, <2>2, <2>3 DEF EgressTypeOK, Tunnel
<1>3. Working = {}
    BY <1>1 DEF Working
<1>4. SlotsAccounted
    BY <1>3, FS_EmptySet DEF SlotsAccounted, ProxyRuns
<1>5. TunnelsSound
    BY <1>1 DEF TunnelsSound, Sound, Off
<1> QED BY <1>2, <1>4, <1>5 DEF EgressInv

-----------------------------------------------------------------------------
(* The stack: each module keeps its invariant while it is at work.         *)

StackInv ==
    /\ part \in {"lease", "bounded", "pages", "requests", "egress"}
    /\ LeaseInv /\ BoundedInv /\ PageInv
    /\ part = "requests" => RequestInv
    /\ part = "egress"   => EgressInv

LEMMA StackInvInit == StackInit => StackInv
<1> SUFFICES ASSUME StackInit PROVE StackInv
    OBVIOUS
<1>1. LeaseInv /\ BoundedInv /\ PageInv
    BY LeaseInvInit, BoundedInvInit, PageInvInit
       DEF StackInit, RestingLease, RestingBounded, RestingPages
<1>2. part = "requests" => RequestInv
    BY RequestInvInit DEF StackInit
<1>3. part = "egress" => EgressInv
    BY EgressInvInit DEF StackInit
<1> QED BY <1>1, <1>2, <1>3 DEF StackInit, StackInv

LEMMA StackInvStep == StackInv /\ [StackNext]_stackVars => StackInv'
<1> SUFFICES ASSUME StackInv, [StackNext]_stackVars PROVE StackInv'
    OBVIOUS
<1>1. part' = part
    BY DEF StackNext, stackVars
<1>2. LeaseInv'
  <2>1. [Next]_vars
      BY DEF StackNext, stackVars, StackInv
  <2> QED BY <2>1, LeaseInvStep DEF StackInv
<1>3. BoundedInv'
  <2>1. [BoundedNext]_boundedVars
      BY DEF StackNext, stackVars, StackInv
  <2> QED BY <2>1, BoundedInvStep DEF StackInv
<1>4. PageInv'
  <2>1. [PageNext]_pageVars
      BY DEF StackNext, stackVars, StackInv
  <2> QED BY <2>1, PageInvStep DEF StackInv
<1>5. part = "requests" => RequestInv'
  <2>1. [RequestNext]_requestVars
      BY DEF StackNext, stackVars, StackInv
  <2> QED BY <2>1, RequestInvStep DEF StackInv
<1>6. part = "egress" => EgressInv'
  <2>1. [EgressNext]_egressVars
      BY DEF StackNext, stackVars, StackInv
  <2> QED BY <2>1, EgressInvStep DEF StackInv
<1> QED BY <1>1, <1>2, <1>3, <1>4, <1>5, <1>6 DEF StackInv

\* The invariant of the stack, for any sets of sessions, requests, tunnels,
\* addresses and origins and any of the bounds.
LEMMA StackInvariance == StackSpec => []StackInv
BY StackInvInit, StackInvStep, PTL DEF StackSpec

\* The types, of the module at work and of those at rest.
THEOREM StackTypeCorrect == StackSpec => []StackTypeOK
<1>1. StackInv => StackTypeOK
    BY DEF StackInv, StackTypeOK, LeaseInv, BoundedInv, PageInv, PageTyped, RequestInv,
       EgressInv
<1> QED BY StackInvariance, <1>1, PTL

\* Whatever DNS answers, no connection of a session or of the proxy and no
\* request of a page goes to an address that was not judged and found public.
THEOREM OnlyApprovedAddresses == StackSpec => []OnlyApproved
<1>1. StackInv => OnlyApproved
  <2> SUFFICES ASSUME StackInv PROVE OnlyApproved
      OBVIOUS
  <2>1. PagesReachOnlyApproved
      BY DEF StackInv, PageInv, Judged, PagesReachOnlyApproved
  <2>2. part = "requests" => RequestsReachOnlyApproved
      BY DEF StackInv, RequestInv, Wire, RequestsReachOnlyApproved
  <2>3. part = "egress" => TunnelsReachOnlyApproved
      BY DEF StackInv, EgressInv, TunnelsSound, Sound, TunnelsReachOnlyApproved
  <2> QED BY <2>1, <2>2, <2>3 DEF OnlyApproved
<1> QED BY StackInvariance, <1>1, PTL

\* The semaphore of a proxy that runs and its workers add up, however workers
\* and processes end: no slot is lost and none given back twice.
THEOREM NoSlotIsLost == StackSpec => [](part = "egress" => SlotsAccounted)
<1>1. StackInv => (part = "egress" => SlotsAccounted)
    BY DEF StackInv, EgressInv
<1> QED BY StackInvariance, <1>1, PTL
=============================================================================
