---------------------------- MODULE BrowserEgress ----------------------------
(***************************************************************************)
(* The way of a production browser to the network: Chromium in a namespace *)
(* of its own, the relay that browser_netns_runner.py runs there, and the  *)
(* proxy process of browser_egress_proxy.py, which the backend starts and  *)
(* probes before each launch (outbound_security.py).                       *)
(*                                                                         *)
(* A tunnel is one connection of Chromium through the relay and a worker   *)
(* of the proxy.  Relay and proxy hold a semaphore slot for each.  Bytes   *)
(* are left out; what counts is which ends are open.  Launches follow one  *)
(* another (the lease of BrowserLease); after the probe the proxy may end  *)
(* at any time, and then nothing answers behind the relay.                 *)
(***************************************************************************)
EXTENDS OutboundPolicy

CONSTANTS
    Tunnels,
    MaxSlots,       \* MAX_PROXY_CONNECTIONS, and MAX_RELAY_CONNECTIONS
    MaxFaults       \* bound: processes killed, failing system calls, slow starts

ASSUME EgressAssumption == MaxSlots \in Nat \ {0} /\ MaxFaults \in Nat

VARIABLES
    launch,      \* the launching thread, under _browser_boundary_lock
    checked,     \* validate_browser_runtime_boundary has succeeded (lru_cache)
    proxy,       \* the proxy process
    socketFile,  \* egress.sock: absent, of the running proxy, or left behind
    free,        \* free slots of the proxy
    tunnel,
    runner,      \* the browser_netns_runner process
    watchdog,    \* its watchdog process
    chromium,
    breaks       \* faults so far

egressVars == <<launch, checked, proxy, socketFile, free, tunnel, runner,
                watchdog, chromium, breaks>>
browserSide == <<runner, watchdog, chromium>>

Off == [relay |-> "off", worker |-> "off", client |-> FALSE, address |-> NoAddress]

EgressTypeOK ==
    /\ launch \in {"idle", "ensuring", "polling", "probing", "ready", "refused"}
    /\ checked \in BOOLEAN
    /\ proxy \in {"none", "starting", "serving", "winding", "broken", "gone"}
    /\ socketFile \in {"absent", "bound", "stale"}
    /\ free \in 0..MaxSlots
    /\ tunnel \in [Tunnels -> [relay    : {"off", "dialling", "copying"},
                               worker   : {"off", "reading", "connecting", "pumping"},
                               client   : BOOLEAN,    \* the relay's end is open
                               address  : Addresses \cup {NoAddress}]]
    /\ runner \in {"off", "guarded", "spawned", "waiting", "over", "lost"}
    /\ watchdog \in {"off", "reading", "told", "gone", "killed", "over"}
    /\ chromium \in {"none", "alive", "dead"}
    /\ breaks \in 0..MaxFaults

EgressInit ==
    /\ launch = "idle" /\ checked = FALSE
    /\ proxy = "none" /\ socketFile = "absent" /\ free = MaxSlots
    /\ tunnel = [t \in Tunnels |-> Off]
    /\ runner = "off" /\ watchdog = "off" /\ chromium = "none"
    /\ breaks = 0

Breaks == breaks < MaxFaults /\ breaks' = breaks + 1

-----------------------------------------------------------------------------
(* The launching thread.                                                   *)

AskForBrowser ==
    /\ launch \in {"idle", "refused"}
    /\ launch' = "ensuring"
    /\ UNCHANGED <<checked, proxy, socketFile, free, tunnel, browserSide, breaks>>

\* Mutant of ProxyRuns: a socket file counts as a running proxy.
SocketFileExists == socketFile # "absent"

\* poll() is None
ProxyRuns == proxy \in {"starting", "serving", "winding", "broken"}

\* _ensure_browser_proxy_process: a running proxy must have its socket file.
EnsureRunning ==
    /\ launch = "ensuring"
    /\ ProxyRuns
    /\ launch' = IF socketFile = "absent" THEN "refused" ELSE "probing"
    /\ UNCHANGED <<checked, proxy, socketFile, free, tunnel, browserSide, breaks>>

EnsureStarts ==
    /\ launch = "ensuring"
    /\ ~ProxyRuns
    /\ \/ proxy' = "starting" /\ launch' = "polling" /\ UNCHANGED breaks
       \/ Breaks /\ launch' = "refused" /\ UNCHANGED proxy
    /\ free' = MaxSlots
    /\ UNCHANGED <<checked, socketFile, tunnel, browserSide>>

\* The readiness connection is accepted.
PollSucceeds ==
    /\ launch = "polling"
    /\ proxy = "serving"
    /\ launch' = "probing"
    /\ UNCHANGED <<checked, proxy, socketFile, free, tunnel, browserSide, breaks>>

\* The process has ended, or five seconds have passed and it is stopped.
PollFails ==
    /\ launch = "polling"
    /\ \/ proxy = "gone" /\ UNCHANGED <<socketFile, breaks>>
       \/ /\ proxy = "starting" /\ Breaks
          /\ socketFile' \in {socketFile, "absent"}
    /\ proxy' = "none"
    /\ launch' = "refused"
    /\ UNCHANGED <<checked, free, tunnel, browserSide>>

\* A request for a private address is answered with 403; a full proxy answers
\* 503 and one that has left its loop nothing.
ProxyDenies == proxy = "serving" /\ free > 0

ProbeStep == UNCHANGED <<proxy, socketFile, free, tunnel, browserSide>>

\* The platform, the user or a pinned executable is not the approved one.
RuntimeRefused ==
    /\ launch = "ensuring" /\ ~checked /\ Breaks
    /\ launch' = "refused"
    /\ ProbeStep /\ UNCHANGED checked

\* The first time the proxy is asked from inside a namespace, from where
\* nothing else may be reached.
ProbeNamespace ==
    /\ launch = "probing" /\ ~checked
    /\ \/ /\ ProxyDenies /\ UNCHANGED breaks
          /\ checked' = TRUE /\ launch' = "ensuring"
       \/ /\ Breaks \/ (~ProxyDenies /\ UNCHANGED breaks)
          /\ launch' = "refused" /\ UNCHANGED checked
    /\ ProbeStep

ProbeProxy ==
    /\ launch = "probing" /\ checked
    /\ launch' = IF ProxyDenies THEN "ready" ELSE "refused"
    /\ ProbeStep /\ UNCHANGED <<checked, breaks>>

-----------------------------------------------------------------------------
(* The proxy process.                                                      *)

\* Its workers and their slots end with the process.
CutWorkers ==
    tunnel' = [t \in Tunnels |-> [tunnel[t] EXCEPT
                 !.worker = "off", !.client = FALSE, !.address = NoAddress]]

\* _prepare_socket_path replaces a socket left behind.
ProxyBinds ==
    /\ proxy = "starting"
    /\ proxy' = "serving"
    /\ socketFile' = "bound"
    /\ UNCHANGED <<launch, checked, free, tunnel, browserSide, breaks>>

\* accept or the start of a worker raises, or a signal asks it to stop: the
\* listener is closed and the workers are joined.  A worker that never started
\* cannot be, so the socket file stays ("broken").
ProxyLeavesLoop ==
    /\ proxy = "serving"
    /\ Breaks
    /\ proxy' \in {"winding", "broken"}
    /\ UNCHANGED <<launch, checked, socketFile, free, tunnel, browserSide>>

ProxyEnds ==
    /\ proxy \in {"winding", "broken"}
    /\ socketFile' = IF proxy = "winding" THEN "absent" ELSE "stale"
    /\ proxy' = "gone"
    /\ CutWorkers
    /\ UNCHANGED <<launch, checked, free, browserSide, breaks>>

ProxyKilled ==
    /\ ProxyRuns
    /\ Breaks
    /\ proxy' = "gone"
    /\ socketFile' = IF socketFile = "bound" THEN "stale" ELSE socketFile
    /\ CutWorkers
    /\ UNCHANGED <<launch, checked, free, browserSide>>

-----------------------------------------------------------------------------
(* Tunnels.                                                                *)

Relayed == {t \in Tunnels : tunnel[t].relay # "off"}

TunnelStep(t, new) ==
    /\ tunnel' = [tunnel EXCEPT ![t] = new]
    /\ UNCHANGED <<launch, checked, proxy, socketFile, browserSide, breaks>>

\* _UnixProxyRelay._accept; a connection beyond its slots is closed at once.
Open(t) ==
    /\ chromium = "alive" /\ runner \in {"spawned", "waiting"}
    /\ tunnel[t] = Off
    /\ Cardinality(Relayed) < MaxSlots
    /\ TunnelStep(t, [Off EXCEPT !.relay = "dialling"])
    /\ UNCHANGED free

\* _relay connects to the proxy, whose loop takes a slot for it or answers 503.
Dial(t) ==
    /\ tunnel[t].relay = "dialling"
    /\ IF proxy = "serving" /\ free > 0
         THEN /\ free' = free - 1
              /\ TunnelStep(t, [tunnel[t] EXCEPT !.relay = "copying", !.worker = "reading",
                                                 !.client = TRUE])
         ELSE TunnelStep(t, Off) /\ UNCHANGED free

\* Chromium or the other side closes, ten seconds of silence, or the runner ends.
RelayEnds(t) ==
    /\ tunnel[t].relay = "copying"
    /\ TunnelStep(t, [tunnel[t] EXCEPT !.relay = "off", !.client = FALSE])
    /\ UNCHANGED free

\* Mutant of WorkerEnds: an error ends the worker and keeps its slot.
WorkerEndsKeeping(t) ==
    /\ free' = IF tunnel[t].worker = "pumping" THEN free + 1 ELSE free
    /\ TunnelStep(t, [tunnel[t] EXCEPT !.worker = "off", !.client = FALSE,
                                       !.address = NoAddress])

\* The finally of _handle_client_and_release.
WorkerEnds(t) ==
    /\ free' = free + 1
    /\ TunnelStep(t, [tunnel[t] EXCEPT !.worker = "off", !.client = FALSE,
                                       !.address = NoAddress])

\* A complete header for a destination the proxy has looked up and approved.
Authorize(t) ==
    /\ tunnel[t].worker = "reading" /\ tunnel[t].client
    /\ \E answers \in Answers :
           /\ Approved(answers)
           /\ TunnelStep(t, [tunnel[t] EXCEPT !.worker = "connecting",
                                              !.address = Pinned(answers)])
    /\ UNCHANGED free

\* A bad header or destination (403), no header in time, or nobody there.
NotAuthorized(t) == tunnel[t].worker = "reading" /\ WorkerEnds(t)

Connected(t) ==
    /\ tunnel[t].worker = "connecting"
    /\ TunnelStep(t, [tunnel[t] EXCEPT !.worker = "pumping"])
    /\ UNCHANGED free

\* Refused or timed out (502).
NotConnected(t) == tunnel[t].worker = "connecting" /\ WorkerEnds(t)

\* _pump_bidirectionally returns: both ends are closed, there was silence for
\* thirty seconds, or bytes came for an end that is closed.
PumpEnds(t) == tunnel[t].worker = "pumping" /\ WorkerEnds(t)

TunnelNext(t) ==
    \/ Open(t) \/ Dial(t) \/ RelayEnds(t) \/ Authorize(t) \/ NotAuthorized(t)
    \/ Connected(t) \/ NotConnected(t) \/ PumpEnds(t)

-----------------------------------------------------------------------------
(* The runner, its watchdog and Chromium.                                  *)

BrowserStep ==
    UNCHANGED <<checked, proxy, socketFile, free>>

\* The lease is free: relay and watchdog are started in the new namespace.
StartRunner ==
    /\ launch = "ready" /\ runner = "off"
    /\ \/ /\ launch' = "idle" /\ runner' = "guarded" /\ watchdog' = "reading"
          /\ UNCHANGED breaks
       \/ Breaks /\ launch' = "refused" /\ UNCHANGED <<runner, watchdog>>
    /\ UNCHANGED <<chromium, tunnel>>
    /\ BrowserStep

\* Another browser has the lease for longer than this launch waits.
LeaseBusy ==
    /\ launch = "ready" /\ runner # "off"
    /\ launch' = "refused"
    /\ UNCHANGED <<browserSide, tunnel, breaks>>
    /\ BrowserStep

\* The sockets of the relay close with the runner's process.
RunnerOver(how) ==
    /\ runner' = how
    /\ tunnel' = [t \in Tunnels |-> [tunnel[t] EXCEPT !.relay = "off", !.client = FALSE]]
    /\ UNCHANGED launch
    /\ BrowserStep

SpawnChromium ==
    /\ runner = "guarded"
    /\ runner' = "spawned" /\ chromium' = "alive"
    /\ UNCHANGED <<launch, watchdog, tunnel, breaks>>
    /\ BrowserStep

\* Chromium cannot be started, or all of its processes were there.
RunnerEnds ==
    /\ \/ runner = "guarded" /\ Breaks
       \/ runner = "waiting" /\ chromium = "dead" /\ UNCHANGED breaks
    /\ RunnerOver("over")
    /\ UNCHANGED <<watchdog, chromium>>

\* Mutant of TellWatchdog: a write that fails is not noticed.
TellWatchdogBlindly ==
    /\ runner = "spawned"
    /\ watchdog' = IF watchdog = "reading" THEN "told" ELSE watchdog
    /\ runner' = "waiting"
    /\ UNCHANGED <<launch, chromium, tunnel, breaks>>
    /\ BrowserStep

\* The watchdog is told the process group; if it is gone, Chromium is killed.
TellWatchdog ==
    /\ runner = "spawned"
    /\ IF watchdog = "reading"
         THEN /\ watchdog' = "told" /\ runner' = "waiting"
              /\ UNCHANGED <<launch, chromium, tunnel>>
              /\ BrowserStep
         ELSE chromium' = "dead" /\ RunnerOver("over") /\ UNCHANGED watchdog
    /\ UNCHANGED breaks

\* close(), a crash, or a kill.
ChromiumEnds ==
    /\ chromium = "alive"
    /\ chromium' = "dead"
    /\ UNCHANGED <<launch, runner, watchdog, tunnel, breaks>>
    /\ BrowserStep

\* "lost" before it could tell the watchdog.
RunnerKilled ==
    /\ runner \in {"guarded", "spawned", "waiting"}
    /\ Breaks
    /\ RunnerOver(IF runner = "spawned" THEN "lost" ELSE "over")
    /\ UNCHANGED <<watchdog, chromium>>

WatchdogKilled ==
    /\ watchdog \in {"reading", "told"}
    /\ Breaks
    /\ watchdog' = IF watchdog = "told" THEN "killed" ELSE "gone"
    /\ UNCHANGED <<launch, runner, chromium, tunnel>>
    /\ BrowserStep

\* _watch_process_group: the pipe ends with the runner; a watchdog that has been
\* told a group kills it.
WatchdogActs ==
    /\ runner \in {"over", "lost"}
    /\ watchdog \in {"reading", "told"}
    /\ chromium' = IF watchdog = "told" THEN "dead" ELSE chromium
    /\ watchdog' = "over"
    /\ UNCHANGED <<launch, runner, tunnel, breaks>>
    /\ BrowserStep

\* Nothing is left of the browser and its lease is free again (BrowserLease).
BrowserGone ==
    /\ runner \in {"over", "lost"} /\ watchdog \notin {"reading", "told"}
    /\ chromium # "alive"
    /\ runner' = "off" /\ watchdog' = "off" /\ chromium' = "none"
    /\ UNCHANGED <<launch, tunnel, breaks>>
    /\ BrowserStep

Launching ==
    \/ AskForBrowser \/ EnsureRunning \/ EnsureStarts \/ PollSucceeds \/ PollFails
    \/ RuntimeRefused \/ ProbeNamespace \/ ProbeProxy \/ StartRunner \/ LeaseBusy

EgressNext ==
    \/ Launching
    \/ ProxyBinds \/ ProxyLeavesLoop \/ ProxyEnds \/ ProxyKilled
    \/ \E t \in Tunnels : TunnelNext(t)
    \/ SpawnChromium \/ RunnerEnds \/ TellWatchdog
    \/ ChromiumEnds \/ RunnerKilled \/ WatchdogKilled \/ WatchdogActs \/ BrowserGone

\* Threads go on, waits of the proxy have timeouts, a browser that was launched
\* is closed by the session that uses it, and launches are asked for again.
EgressFairness ==
    /\ WF_egressVars(Launching)
    /\ WF_egressVars(ProxyBinds \/ ProxyEnds)
    /\ WF_egressVars(SpawnChromium \/ TellWatchdog \/ RunnerEnds)
    /\ WF_egressVars(runner = "waiting" /\ ChromiumEnds)
    /\ WF_egressVars(WatchdogActs) /\ WF_egressVars(BrowserGone)
    /\ \A t \in Tunnels :
           /\ WF_egressVars(Dial(t)) /\ WF_egressVars(RelayEnds(t))
           /\ WF_egressVars(NotAuthorized(t) \/ NotConnected(t))
           /\ WF_egressVars(~tunnel[t].client /\ PumpEnds(t))

-----------------------------------------------------------------------------
(* Properties.                                                             *)

\* "connects to the validated numeric address" (docs/PRODUCTION_CONTAINERS.md):
\* the proxy's own lookup decides, whatever was looked up before, and every one
\* of its answers has to be public.
TunnelsReachOnlyApproved ==
    \A t \in Tunnels :
        tunnel[t].worker \in {"connecting", "pumping"} => tunnel[t].address \in Routable

\* However the workers end, a proxy that nobody uses has all its slots again.
SlotsComeBack ==
    (proxy = "serving" /\ Relayed = {})
        ~> (free = MaxSlots \/ Relayed # {} \/ proxy # "serving")

\* A proxy that ended in whatever way, leaving its socket behind or not, is
\* replaced, and a later launch finds it ready.
ProxyRecovers == proxy = "gone" ~> launch = "ready"

\* A runner that ends takes Chromium along, also when the watchdog died before
\* it was told.  Left out are a runner killed between the start of Chromium and
\* the write to the pipe, and a watchdog that is killed later.
ChromiumFollowsRunner ==
    runner = "over" ~> (chromium # "alive" \/ watchdog = "killed")
=============================================================================
