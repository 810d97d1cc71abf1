--------------------------- MODULE OutboundPolicy ---------------------------
(***************************************************************************)
(* validate_outbound_url of backend/outbound_security.py, as what it does  *)
(* with the answers of one lookup.  A URL refused for its form is a lookup *)
(* without answers.  DNS may answer differently at every lookup.           *)
(***************************************************************************)
EXTENDS Naturals, FiniteSetsExt

CONSTANTS
    Addresses,     \* numbered in the order of _address_sort_key
    Routable       \* those _require_globally_routable lets pass

ASSUME PolicyAssumption == Addresses \subseteq Nat \ {0} /\ Routable \subseteq Addresses

NoAddress == 0

Answers == SUBSET Addresses

\* Every answer must be globally routable, and there must be one.
Approved(answers) == answers # {} /\ answers \subseteq Routable

\* The address connected to: the first of the sorted ones.
Pinned(answers) == Min(answers)
=============================================================================
