--------------------------- MODULE MCBrowserStack ---------------------------
(* Instances of BrowserStack for TLC. *)
EXTENDS BrowserStack

CONSTANTS s1, s2, home, other, t1, t2, t3, r1, r2

TwoSessions == {s1, s2}
=============================================================================
