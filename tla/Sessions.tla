------------------------------ MODULE Sessions ------------------------------
(***************************************************************************)
(* Signing in through the Blue Ash Portal, and every request after it:     *)
(* backend/blueash_auth.py, with the middleware and the /api/auth routes   *)
(* of server.py.                                                           *)
(*                                                                         *)
(* One browser with several tabs.  A sign-in is an attempt, bound to the   *)
(* browser by a signed cookie and completed by a callback that exchanges a *)
(* one-time code for a token; the token is the session cookie, and every   *)
(* request asks the Portal about it unless a cached answer is fresh.       *)
(* Answers of the Portal and responses to the browser take time and        *)
(* overtake each other.  The Portal ends sessions at any time.             *)
(***************************************************************************)
EXTENDS Integers, FiniteSets, Functions

CONSTANTS
    Tokens, Attempts,
    Requests,        \* what may be under way at the same time
    None,            \* no cookie; a response that clears one
    Keep,            \* a response that leaves a cookie alone
    CacheSeconds,    \* values of RADAR_INTROSPECTION_CACHE_SECONDS
    HandoffTtl,      \* RADAR_HANDOFF_STATE_TTL_SECONDS
    Idle, Absolute,  \* lifetimes of a session at the Portal
    RoundTrip,       \* bound: ticks until a call of the Portal has come back
    SessionStarts    \* how it begins: signed in or not, with bounds: attempts, clock

ASSUME SessionAssumption ==
    /\ {None, Keep} \cap (Tokens \cup Attempts) = {} /\ None # Keep /\ None \notin Nat
    /\ CacheSeconds \subseteq Nat
    /\ {HandoffTtl, Idle, Absolute, RoundTrip} \subseteq Nat \ {0} /\ Idle <= Absolute
    /\ \A s \in SessionStarts :
          s.token \in Tokens \cup {None} /\ s.attempts \subseteq Attempts /\ s.until \in Nat

VARIABLES
    now,
    cacheSeconds,
    portal,    \* token -> the session at the Portal, for the tokens it has issued
    tab,       \* attempt -> where its tab is
    browser,   \* the cookies
    cache,     \* token -> until when its identity is good
    request,   \* request -> where it is
    until      \* bound: the clock

sessionVars == <<now, until, cacheSeconds, portal, tab, browser, cache, request>>

-----------------------------------------------------------------------------
(* The Portal.  idle and absolute: when the session expires; over: when it *)
(* was ended by a sign-out, a disabled account or a withdrawn assignment.  *)

Session == [idle : Nat, absolute : Nat, over : Nat \cup {None}]

Live(token) == token \in DOMAIN portal /\ portal[token].over = None /\ now < portal[token].idle
Sooner(a, b) == IF a < b THEN a ELSE b

\* f with one more argument.
With(f, x, value) == [y \in DOMAIN f \cup {x} |-> IF y = x THEN value ELSE f[y]]

\* An introspection is activity.
Touched(token) == [portal EXCEPT ![token].idle = Sooner(now + Idle, portal[token].absolute)]
Ended(token)   == [portal EXCEPT ![token].over = now]

-----------------------------------------------------------------------------
(* Requests.  token and handoff: the cookies it came with; late: the token *)
(* was over by then, begun: when.                                          *)

Free(r) == request[r].at = "free"
Sent(kind, state) ==
    LET late == kind = "api" /\ browser.token # None /\ portal[browser.token].over # None IN
    [at |-> "come", kind |-> kind, state |-> state,
     token   |-> IF kind \in {"api", "logout"} THEN browser.token ELSE None,
     handoff |-> IF kind = "callback" THEN browser.handoff ELSE None,
     late |-> late, begun |-> IF late THEN now ELSE 0,
     asked |-> 0, answer |-> "none", expires |-> 0]

At(r, kind, at) == request[r].at = at /\ request[r].kind = kind

\* What a response tells the browser: its result, and what becomes of the cookies.
Responds(r, result, token, handoff) ==
    request' = [request EXCEPT ![r] = [at |-> "back", kind |-> request[r].kind, result |-> result,
                                       state |-> request[r].state, token |-> token, handoff |-> handoff]]
LetIn(r) == Responds(r, "served", Keep, Keep)
Asks(r, at) == request' = [request EXCEPT ![r].at = at, ![r].asked = now, ![r].answer = "none",
                                       ![r].expires = 0]

SessionTypeOK ==
    /\ until \in Nat /\ now \in 0 .. until /\ cacheSeconds \in CacheSeconds
    /\ DOMAIN portal \subseteq Tokens /\ \A t \in DOMAIN portal : portal[t] \in Session
    /\ DOMAIN tab \subseteq Attempts /\ \A a \in DOMAIN tab : tab[a] \in {"new", "started", "portal", "code", "error", "spent"}
    /\ browser.token \in DOMAIN portal \cup {None}
    /\ browser.handoff = None \/ (browser.handoff.attempt \in Attempts /\ browser.handoff.expires \in Nat)
    /\ DOMAIN cache \subseteq DOMAIN portal /\ \A t \in DOMAIN cache : cache[t] \in 1 .. until + Absolute
    /\ DOMAIN request = Requests

SessionInit ==
    \E s \in SessionStarts :
        /\ now = 0 /\ until = s.until /\ cacheSeconds \in CacheSeconds
        /\ portal = [t \in {s.token} \ {None} |-> [idle |-> Idle, absolute |-> Absolute, over |-> None]]
        /\ browser = [token |-> s.token, handoff |-> None]
        /\ tab = [a \in s.attempts |-> "new"]
        /\ cache = <<>> /\ request = [r \in Requests |-> [at |-> "free"]]

-----------------------------------------------------------------------------
(* The browser.                                                            *)

Send(r, kind, state) ==
    /\ Free(r)
    /\ request' = [request EXCEPT ![r] = Sent(kind, state)]
    /\ UNCHANGED <<now, until, cacheSeconds, portal, browser, cache>>

SendApi(r)    == Send(r, "api", None) /\ UNCHANGED tab
SendLogout(r) == Send(r, "logout", None) /\ UNCHANGED tab
SendStart(r, a) == tab[a] = "new" /\ Send(r, "start", a) /\ tab' = [tab EXCEPT ![a] = "started"]

\* The Portal sends the tab back with a code, or with an error; the page may be reloaded.
SendCallback(r, a) == tab[a] \in {"code", "error", "spent"} /\ Send(r, "callback", a) /\ UNCHANGED tab

Arrive(r) ==
    /\ request[r].at = "back"
    /\ browser' = [token   |-> IF request[r].token = Keep THEN browser.token ELSE request[r].token,
                   handoff |-> IF request[r].handoff = Keep THEN browser.handoff ELSE request[r].handoff]
    /\ tab' = IF request[r].result = "redirected" THEN [tab EXCEPT ![request[r].state] = "portal"] ELSE tab
    /\ request' = [request EXCEPT ![r] = [at |-> "free"]]
    /\ UNCHANGED <<now, until, cacheSeconds, portal, cache>>

PortalDecides(a) ==
    /\ tab[a] = "portal"
    /\ tab' \in {[tab EXCEPT ![a] = decision] : decision \in {"code", "error"}}
    /\ UNCHANGED <<now, until, cacheSeconds, portal, browser, cache, request>>

PortalEnds(t) ==
    /\ Live(t)
    /\ portal' = Ended(t)
    /\ UNCHANGED <<now, until, cacheSeconds, tab, browser, cache, request>>

-----------------------------------------------------------------------------
(* Authentication of a request, and of the token of a sign-in.             *)

Quiet == UNCHANGED <<now, until, cacheSeconds, portal, tab, browser>>

Cached(t) == t \in DOMAIN cache /\ cache[t] > now

\* introspect, up to the call.
Authenticate(r) ==
    LET t == request[r].token IN
    /\ At(r, "api", "come")
    /\ \/ t = None /\ Responds(r, "refused", None, Keep) /\ UNCHANGED cache
       \/ t # None /\ Cached(t) /\ LetIn(r) /\ UNCHANGED cache
       \/ t # None /\ ~Cached(t) /\ Asks(r, "introspecting") /\ cache' = Restrict(cache, DOMAIN cache \ {t})
    /\ Quiet

\* The Portal looks at the token, or the call is lost before it gets there.  An answer for
\* another application or with an unknown role is one of "forbidden".
Introspected(r) ==
    LET t == request[r].token IN
    /\ request[r].at = "introspecting" /\ request[r].answer = "none"
    /\ \/ /\ Live(t)
          /\ portal' = Touched(t)
          /\ request' = [request EXCEPT ![r].answer = "active", ![r].expires = portal'[t].idle]
       \/ /\ UNCHANGED portal
          /\ \E answer \in {"inactive", "forbidden"} :
                /\ Live(t) => answer = "forbidden"
                /\ request' = [request EXCEPT ![r].answer = answer]
       \/ UNCHANGED portal /\ request' = [request EXCEPT ![r].answer = "lost"]
    /\ UNCHANGED <<now, until, cacheSeconds, tab, browser, cache>>

\* What the answer comes to when it is read: it may be lost on the way back, and is only
\* good until the session expires.
Outcomes(r) ==
    CASE request[r].answer = "active" ->
            {IF now < request[r].expires THEN "active" ELSE "inactive", "unavailable"}
      [] request[r].answer = "lost" -> {"unavailable"}
      [] OTHER -> {request[r].answer, "unavailable"}

\* Mutant of Lifetime: the session may expire before its cached identity.
LifetimeOfCache(r) == cacheSeconds

\* How long an identity is cached.
Lifetime(r) == Sooner(cacheSeconds, request[r].expires - now)

Stored(r) == IF Lifetime(r) > 0 THEN With(cache, request[r].token, now + Lifetime(r)) ELSE cache

\* The rest of introspect, and the middleware or /api/auth/session: only a token that is
\* over is cleared.
Authenticated(r) ==
    /\ At(r, "api", "introspecting") /\ request[r].answer # "none"
    /\ \E outcome \in Outcomes(r) :
          IF outcome = "active"
          THEN LetIn(r) /\ cache' = Stored(r)
          ELSE /\ Responds(r, outcome, IF outcome = "inactive" THEN None ELSE Keep, Keep)
               /\ UNCHANGED cache
    /\ Quiet

-----------------------------------------------------------------------------
(* Signing in and out.                                                     *)

\* auth_start: the Portal is probed, and the attempt goes into the cookie.
Start(r) ==
    /\ At(r, "start", "come")
    /\ \/ Responds(r, "redirected", Keep, [attempt |-> request[r].state, expires |-> now + HandoffTtl])
       \/ Responds(r, "unavailable", Keep, Keep)
    /\ Quiet /\ UNCHANGED cache

\* consume_handoff_cookie: the attempt is the one this browser began last, and still good.
OwnAttempt(r) ==
    /\ request[r].handoff # None
    /\ request[r].handoff.attempt = request[r].state /\ now <= request[r].handoff.expires

\* auth_callback, up to the exchange; it always clears the handoff cookie.
Callback(r) ==
    /\ At(r, "callback", "come")
    /\ IF OwnAttempt(r) /\ tab[request[r].state] # "error"
       THEN Asks(r, "exchanging")
       ELSE Responds(r, "failed", Keep, None)
    /\ Quiet /\ UNCHANGED cache

\* The Portal takes a code once, and only with the verifier of its attempt.
Exchanged(r, t) ==
    LET a == request[r].state IN
    /\ request[r].at = "exchanging" /\ request[r].answer = "none"
    /\ \/ /\ tab[a] = "code" /\ request[r].handoff.attempt = a
          /\ t \in Tokens \ DOMAIN portal
          /\ portal' = With(portal, t, [idle |-> now + Idle, absolute |-> now + Absolute,
                                        over |-> None])
          /\ tab' = [tab EXCEPT ![a] = "spent"]
          /\ request' = [request EXCEPT ![r].answer = "token", ![r].token = t,
                                        ![r].expires = now + Idle]
       \/ /\ UNCHANGED <<portal, tab>>
          /\ \E answer \in {"forbidden", "lost"} : request' = [request EXCEPT ![r].answer = answer]
    /\ UNCHANGED <<now, until, cacheSeconds, browser, cache>>

\* A token alone is not enough: it is introspected before the cookie is set.
Exchange(r) ==
    /\ request[r].at = "exchanging" /\ request[r].answer # "none"
    /\ \/ /\ request[r].answer = "token" /\ now < request[r].expires
          /\ Asks(r, "introspecting")
       \/ Responds(r, "failed", Keep, None)
    /\ Quiet /\ UNCHANGED cache

\* Mutant of Rejected: the token of a failed sign-in is dropped.
RejectedDropped(r) == Responds(r, "failed", Keep, None)

\* A token that is not going to be used is given back.
Rejected(r) == Asks(r, "revoking")

SignIn(r) ==
    /\ At(r, "callback", "introspecting") /\ request[r].answer # "none"
    /\ \E outcome \in Outcomes(r) :
          IF outcome = "active"
          THEN Responds(r, "signed in", request[r].token, None) /\ cache' = Stored(r)
          ELSE Rejected(r) /\ cache' = Restrict(cache, DOMAIN cache \ {request[r].token})
    /\ Quiet

\* revoke: the cached identity goes first.
Logout(r) ==
    LET t == request[r].token IN
    /\ At(r, "logout", "come")
    /\ IF t = None THEN Responds(r, "signed out", None, None) ELSE Asks(r, "revoking")
    /\ cache' = Restrict(cache, DOMAIN cache \ {t})
    /\ Quiet

Revoked(r) ==
    LET t == request[r].token IN
    /\ request[r].at = "revoking" /\ request[r].answer = "none"
    /\ \/ portal' = (IF Live(t) THEN Ended(t) ELSE portal) /\ request' = [request EXCEPT ![r].answer = "done"]
       \/ UNCHANGED portal /\ request' = [request EXCEPT ![r].answer = "lost"]
    /\ UNCHANGED <<now, until, cacheSeconds, tab, browser, cache>>

\* The cookies are cleared whatever the Portal said; a failed sign-in keeps an older session.
Revoke(r) ==
    /\ request[r].at = "revoking" /\ request[r].answer # "none"
    /\ Responds(r, IF request[r].kind = "logout" THEN "signed out" ELSE "failed",
                IF request[r].kind = "logout" THEN None ELSE Keep, None)
    /\ Quiet /\ UNCHANGED cache

\* The process ends: its requests and its cache are gone.
SessionRestart ==
    /\ cache' = <<>>
    /\ request' = [r \in Requests |-> [at |-> "free"]]
    /\ UNCHANGED <<now, until, cacheSeconds, portal, tab, browser>>

\* Calls of the Portal come back in RoundTrip, and what is to be done in between takes no
\* time that counts.
SessionTick ==
    /\ now < until /\ now' = now + 1
    /\ \A r \in Requests :
          request[r].at \in {"introspecting", "exchanging", "revoking"} => now < request[r].asked + RoundTrip
    /\ UNCHANGED <<until, cacheSeconds, portal, tab, browser, cache, request>>

SessionNext ==
    \/ \E r \in Requests :
          \/ SendApi(r) \/ SendLogout(r)
          \/ \E a \in DOMAIN tab : SendStart(r, a) \/ SendCallback(r, a)
          \/ Arrive(r) \/ Authenticate(r) \/ Introspected(r) \/ Authenticated(r)
          \/ Start(r) \/ Callback(r) \/ Exchange(r) \/ SignIn(r) \/ Logout(r) \/ Revoked(r) \/ Revoke(r)
          \/ \E t \in Tokens : Exchanged(r, t)
    \/ \E a \in DOMAIN tab : PortalDecides(a)
    \/ \E t \in Tokens : PortalEnds(t)
    \/ SessionRestart \/ SessionTick

SessionSpec == SessionInit /\ [][SessionNext]_sessionVars

-----------------------------------------------------------------------------
(* Properties.                                                             *)

\* "Portal logout, disablement, assignment removal, and token revocation take effect on the
\* next request" (docs/BLUEASH_AUTH_INTEGRATION.md:57), or, with a cache of some seconds,
\* on one that comes those seconds and a round trip later, though an answer that was
\* on its way is stored after the fact; and nothing is let in after it expired.
EndedIsOut ==
    [][\A r \in Requests :
          LET session == portal[request[r].token] IN
          request[r].at # "back" /\ request'[r].at = "back" /\ request'[r].result = "served" =>
              /\ now < session.idle
              /\ request[r].late =>
                    cacheSeconds > 0 /\ request[r].begun < session.over + cacheSeconds + RoundTrip]_sessionVars

\* "An exchange is not sufficient by itself" (server.py:516): a sign-in ends with the cookie
\* of a session that lived when the Portal was asked; one that fails with a token in hand
\* leaves the session open only when the Portal could not be told.
SignInSettles ==
    [][\A r \in Requests :
          LET session == portal[request[r].token] IN
          /\ request[r].at \in {"introspecting", "revoking"} /\ request[r].kind = "callback"
          /\ request'[r].at = "back"
          => IF request'[r].result = "signed in"
             THEN now < session.idle /\ (session.over # None => session.over >= request[r].asked)
             ELSE Live(request[r].token) => request[r].answer = "lost"]_sessionVars
=============================================================================
