--------------------------- MODULE MCGenerations ---------------------------
(* TLC instance of Generations. *)
EXTENDS Generations, TLC

CONSTANTS g1, g2, g3, c1, c2, c3, s1, s2, t1

TwoGenerations   == {g1, g2}
ThreeGenerations == {g1, g2, g3}
Credentials      == {c1, c2, c3}
Secrets          == {s1, s2}
Tokens           == {t1}

Symmetric == Permutations(ThreeGenerations) \cup Permutations(Credentials) \cup Permutations(Secrets)
=============================================================================
