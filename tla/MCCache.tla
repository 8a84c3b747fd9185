------------------------------ MODULE MCCache ------------------------------
(***************************************************************************)
(* Small instances of LocalCache for TLC.                                  *)
(***************************************************************************)
EXTENDS LocalCache, TLC

CONSTANTS p1, p2, b1, b2, bad, k1, k2

TwoClients == {p1, p2}
ThreeDisks == {b1, b2, bad}
TwoDisks == {b1, b2}
TwoClusters == {k1, k2}
CacheCommands ==
  [c \in {p1, p2} |->
     IF c = p1 THEN {"disk", "iso", "credentials"} ELSE {"disk"}]
Symmetry == Permutations(TwoDisks) \cup Permutations(TwoClusters)
=============================================================================
