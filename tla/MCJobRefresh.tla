---------------------------- MODULE MCJobRefresh ----------------------------
(* Instances of JobRefresh for TLC: two postings of one company and one of    *)
(* another whose links are cut to one id, the last with the link of the first, *)
(* and an imported job of no company that the collection refuses.            *)
EXTENDS JobRefresh

CONSTANTS a, b, p1, p2, p3, p4

Openings4 == {p1, p2, p3, p4}
Owners == p1 :> a @@ p2 :> a @@ p3 :> b @@ p4 :> Nobody
Links  == p1 :> 1 @@ p2 :> 2 @@ p3 :> 1 @@ p4 :> 2
Ids    == p1 :> 1 @@ p2 :> 1 @@ p3 :> 1 @@ p4 :> 4
Ranks  == p1 :> 2 @@ p2 :> 1 @@ p3 :> 3 @@ p4 :> 4
=============================================================================
