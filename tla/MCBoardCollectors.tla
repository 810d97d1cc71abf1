-------------------------- MODULE MCBoardCollectors --------------------------
(* Instances of BoardCollectors for TLC: seven postings, one with a title that  *)
(* is refused and one without an id.                                         *)
EXTENDS BoardCollectors

CONSTANTS p1, p2, p3, p4, p5, p6, p7

SevenPostings == {p1, p2, p3, p4, p5, p6, p7}
Plain == Permutations({p3, p4, p5, p6, p7})
=============================================================================
