------------------------------ MODULE MCFakeIP ------------------------------
(* Instances of FakeIP: an IPv4 range of which two addresses are given out    *)
(* and an IPv6 range of which one is.                                         *)
EXTENDS FakeIP, TLC

CONSTANTS d1, d2, q1, q2, w1, w2

TwoFamilies == {"4", "6"}
SixAddresses == 0 .. 5
OneConfig == {[f \in TwoFamilies |-> IF f = "4" THEN [lo |-> 0, addr |-> 0, hi |-> 4]
                                                ELSE [lo |-> 0, addr |-> 0, hi |-> 3]]}
Sym == Permutations({d1, d2}) \cup Permutations({q1, q2})
=============================================================================
