----------------------------- MODULE MCPhotoWall -----------------------------
(***************************************************************************)
(* An instance of MainPage, and the wall in it, for TLC.                   *)
(***************************************************************************)
EXTENDS MainPage, TLC

CONSTANTS f1, f2, f3, f4, cars, food

TwoCategories == <<cars, food>>

TwoEach == [f \in Files |-> IF f \in {f1, f2} THEN cars ELSE food]

Symmetry == Permutations({f1, f2}) \cup Permutations({f3, f4})
=============================================================================
