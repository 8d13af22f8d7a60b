------------------------- MODULE MCConditionalReads -------------------------
(***************************************************************************)
(* ConditionalReads on a small instance: three reads of two lists.         *)
(***************************************************************************)
EXTENDS ConditionalReads, TLC

CONSTANTS c1, c2, c3, u1, u2

ThreeCalls == {c1, c2, c3}
TwoUrls == {u1, u2}
Reads == {"GET"}

ReadSymmetry == Permutations(Calls) \cup Permutations(Urls)

=============================================================================
