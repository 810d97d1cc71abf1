-------------------------- MODULE OutboundRequests --------------------------
(***************************************************************************)
(* SSRFProtectedSession of backend/outbound_security.py: calls of one      *)
(* session, one at a time under its lock, each following redirects itself. *)
(*                                                                         *)
(* Every hop is looked up twice before it is sent (by the loop and by the  *)
(* adapter that connects) and its successor once more.  Of what a request  *)
(* holds the module keeps "own" and "params", the credentials and query    *)
(* parameters of the call, and "session" and "defaults", those of the      *)
(* session, which requests merges into every hop; methods and bodies are   *)
(* left out.                                                               *)
(***************************************************************************)
EXTENDS OutboundPolicy, Sequences

CONSTANTS
    Origins,       \* scheme, host and port
    MaxRedirects

ASSUME RequestAssumption == MaxRedirects \in Nat

VARIABLES
    session,    \* what the session holds now, of "session" and "defaults"
    call        \* the call under the lock

requestVars == <<session, call>>

SessionHolds == {"session", "defaults"}
CallHolds    == {"own", "params"}

Calls == [at       : {"checking", "sending", "connected"},
          origin   : Origins,
          follow   : BOOLEAN,                       \* allow_redirects
          holds    : SUBSET CallHolds,              \* current_kwargs
          trusted  : BOOLEAN,                       \* session_credentials_allowed
          history  : Seq(Origins),
          original : SUBSET SessionHolds,           \* of _send_requests_hop
          address  : Addresses \cup {NoAddress},
          sent     : SUBSET (SessionHolds \cup CallHolds)]

RequestTypeOK ==
    /\ session \subseteq SessionHolds
    /\ call.at = "idle" \/ call \in Calls

Idle == [at |-> "idle"]

RequestInit == session = SessionHolds /\ call = Idle

Hops == Len(call.history)

-----------------------------------------------------------------------------

Call ==
    /\ call.at = "idle"
    /\ \E o \in Origins, f \in BOOLEAN, h \in SUBSET CallHolds :
           call' = [at |-> "checking", origin |-> o, follow |-> f, holds |-> h,
                    trusted |-> TRUE, history |-> <<>>, original |-> session,
                    address |-> NoAddress, sent |-> {}]
    /\ UNCHANGED session

\* What is taken out of the session for one hop.
Suppressed ==
    (IF Hops > 0 THEN {"defaults"} ELSE {}) \cup (IF call.trusted THEN {} ELSE {"session"})

\* The hop is approved and its session defaults replaced.
Check ==
    /\ call.at = "checking"
    /\ \E answers \in Answers :
           /\ Approved(answers)
           /\ session' = session \ Suppressed
           /\ call' = [call EXCEPT !.at = "sending", !.original = session]

\* Mutant of Connect: the connection is made to the name, not to the address.
ConnectByName ==
    /\ call.at = "sending"
    /\ \E answers, later \in Answers :
           /\ Approved(answers)
           /\ \E a \in later :
                  call' = [call EXCEPT !.at = "connected", !.address = a,
                                       !.sent = call.holds \cup session]
    /\ UNCHANGED session

\* _PinnedHTTPAdapter looks the host up again and connects to the first address.
Connect ==
    /\ call.at = "sending"
    /\ \E answers \in Answers :
           /\ Approved(answers)
           /\ call' = [call EXCEPT !.at = "connected", !.address = Pinned(answers),
                                   !.sent = call.holds \cup session]
    /\ UNCHANGED session

\* The finally of _send_requests_hop.
Restore == session' = call.original

\* A lookup refuses the hop, before or after the defaults were replaced, or the
\* connection fails: the exception ends the call.
Refused ==
    /\ call.at \in {"checking", "sending"}
    /\ \E answers \in Answers : ~Approved(answers)
    /\ IF call.at = "sending" THEN Restore ELSE UNCHANGED session
    /\ call' = Idle

Fails ==
    /\ call.at \in {"sending", "connected"}
    /\ Restore
    /\ call' = Idle

\* The answer is the last one: no redirect, or one that is not to be followed,
\* or one too many or to a refused destination, which raise.
Answered ==
    /\ call.at = "connected"
    /\ Restore
    /\ call' = Idle

CanFollow == call.follow /\ Hops < MaxRedirects

\* Mutant of StillTrusted: credentials are back once the chain has come home.
TrustedAtHome(o) == o = Head(call.history \o <<call.origin>>)

\* session_credentials_allowed: never again after the first cross-origin hop.
StillTrusted(o) == call.trusted /\ o = call.origin

\* _redirect_method_and_kwargs, and the params dropped on every redirect.
Redirected(o) ==
    /\ call.at = "connected"
    /\ CanFollow
    /\ \E answers \in Answers : Approved(answers)
    /\ Restore
    /\ call' = [call EXCEPT
           !.at = "checking",
           !.origin = o,
           !.holds = @ \ ({"params"} \cup IF o # call.origin THEN {"own"} ELSE {}),
           !.trusted = StillTrusted(o),
           !.history = Append(@, call.origin),
           !.address = NoAddress,
           !.sent = {}]

RequestNext ==
    \/ Call \/ Check \/ Connect \/ Refused \/ Fails \/ Answered
    \/ \E o \in Origins : Redirected(o)

RequestSpec == RequestInit /\ [][RequestNext]_requestVars

-----------------------------------------------------------------------------
(* Properties.                                                             *)

\* The chain has been away from the origin the call was made to.
Strayed == \E i \in 1..Hops : call.history[i] # call.origin

\* "cross-origin redirects cannot carry request/session credentials or original
\* query parameters" (docs/PRODUCTION_RUNTIME.md): a hop carries the credentials
\* of the call or of the session only while the chain has never left its first
\* origin, and query parameters only before the first redirect.  The session's
\* own are back for the next call, however the one before it ended.
SecretsStayHome ==
    call.at = "connected" =>
        /\ Strayed => call.sent \cap {"own", "session"} = {}
        /\ Hops > 0 => call.sent \cap {"params", "defaults"} = {}
        /\ Hops = 0 => SessionHolds \subseteq call.sent

\* "Requests connections are pinned to a freshly validated address"
\* (docs/PRODUCTION_RUNTIME.md): whatever DNS answers from one lookup to the
\* next, the address connected to is one that was judged.
RequestsReachOnlyApproved == call.at = "connected" => call.address \in Routable
=============================================================================
