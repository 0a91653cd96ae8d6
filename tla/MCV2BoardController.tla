----------------------- MODULE MCV2BoardController -------------------------
(* Instances of V2BoardController: two configurations on ports of their own,  *)
(* so a change of users meets its own listener and a change of revision does  *)
(* not.                                                                       *)
EXTENDS V2BoardController, TLC

CONSTANTS r1, r2, u1, u2

TwoRevs == {r1, r2}
NoRev == {}
TwoUsers == {u1, u2}
OneUser == {u1}
\* The two configurations are interchangeable, so one of them is enough to begin with.
OneFirst == {r1} \X SUBSET {u1}
AnyFirst == {r1, r2} \X SUBSET {u1, u2}
OwnPorts == r1 :> 1 @@ r2 :> 2
Sym == Permutations({u1, u2})
=============================================================================
