------------------------------ MODULE PageGuard ------------------------------
(***************************************************************************)
(* install_playwright_url_guard and safe_page_goto of                      *)
(* backend/outbound_security.py: every request of the pages of a context   *)
(* is intercepted, looked up and settled by a handler that runs in         *)
(* Playwright's dispatcher, while the page may crash or close.             *)
(***************************************************************************)
EXTENDS OutboundPolicy

CONSTANTS
    PageRequests,
    MaxPageRedirects

ASSUME GuardAssumption == MaxPageRedirects \in Nat

VARIABLES
    page,       \* "open" or "gone"
    request     \* of each request, what has become of it

pageVars == <<page, request>>

NotMade == [at |-> "none"]

Requests ==
    [at      : {"intercepted", "allowed", "refused", "continued", "aborted", "unsettled"},
     kind    : {"http", "socket"},
     depth   : 0..(MaxPageRedirects + 1),     \* _playwright_redirect_depth
     answers : Answers]                       \* what the handler's lookup found

PageTypeOK ==
    /\ page \in {"open", "gone"}
    /\ \A r \in PageRequests : request[r] = NotMade \/ request[r] \in Requests

PageInit == page = "open" /\ request = [r \in PageRequests |-> NotMade]

Intercepted(r, kind, depth) ==
    request' = [request EXCEPT ![r] =
                   [at |-> "intercepted", kind |-> kind, depth |-> depth, answers |-> {}]]

\* A navigation, which safe_page_goto has looked up before, or a request or
\* socket of a page that is shown.
Load(r) ==
    /\ page = "open" /\ request[r] = NotMade
    /\ \E kind \in {"http", "socket"} : Intercepted(r, kind, 0)
    /\ UNCHANGED page

\* The answer to a request that was let through sends the page on.
RedirectPage(r, from) ==
    /\ page = "open" /\ request[r] = NotMade
    /\ request[from].at = "continued" /\ request[from].depth <= MaxPageRedirects
    /\ Intercepted(r, "http", request[from].depth + 1)
    /\ UNCHANGED page

\* Mutant of Verdict: what the validator did not refuse is let through.
VerdictUnlessRefused(r, answers, raises) ==
    IF request[r].depth > MaxPageRedirects \/ (~raises /\ ~Approved(answers))
      THEN "refused" ELSE "allowed"

\* No socket, no chain too long, no destination that is not approved, and no
\* request for which the validator itself failed.
Verdict(r, answers, raises) ==
    IF \/ request[r].kind = "socket" \/ request[r].depth > MaxPageRedirects
       \/ raises \/ ~Approved(answers)
      THEN "refused" ELSE "allowed"

Judge(r) ==
    /\ request[r].at = "intercepted"
    /\ \E answers \in Answers, raises \in BOOLEAN :
           request' = [request EXCEPT ![r].at = Verdict(r, answers, raises),
                                      ![r].answers = IF raises THEN {} ELSE answers]
    /\ UNCHANGED page

\* Mutant of Settle: a handler is lost with its page.
SettleWhileOpen(r) ==
    /\ page = "open" /\ request[r].at \in {"allowed", "refused"}
    /\ request' = [request EXCEPT ![r].at = IF @ = "allowed" THEN "continued" ELSE "aborted"]
    /\ UNCHANGED page

\* _settle_route: with the page gone nothing can be settled, and nothing raised.
Settle(r) ==
    /\ request[r].at \in {"allowed", "refused"}
    /\ request' = [request EXCEPT ![r].at =
                      IF page = "gone" THEN "unsettled"
                      ELSE IF @ = "allowed" THEN "continued" ELSE "aborted"]
    /\ UNCHANGED page

\* The renderer crashes or the page is closed.
PageGone ==
    /\ page = "open"
    /\ page' = "gone"
    /\ UNCHANGED request

PageNext ==
    \/ PageGone
    \/ \E r \in PageRequests :
           \/ Load(r) \/ Judge(r) \/ Settle(r)
           \/ \E from \in PageRequests : RedirectPage(r, from)

\* The dispatcher runs every handler.
PageFairness == WF_pageVars(\E r \in PageRequests : Judge(r) \/ Settle(r))

PageSpec == PageInit /\ [][PageNext]_pageVars /\ PageFairness

-----------------------------------------------------------------------------
(* Properties.                                                             *)

\* "Validate every HTTP request in a Playwright context, including redirects"
\* (outbound_security.py): a request goes on only if its own lookup approved it
\* and its chain is no longer than allowed.
PagesReachOnlyApproved ==
    \A r \in PageRequests :
        request[r].at = "continued" =>
            Approved(request[r].answers) /\ request[r].depth <= MaxPageRedirects

\* No request is left for the page to wait on.
RequestsAreSettled ==
    \A r \in PageRequests :
        request[r].at = "intercepted" ~> request[r].at \in {"continued", "aborted", "unsettled"}
=============================================================================
