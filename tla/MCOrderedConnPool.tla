------------------------- MODULE MCOrderedConnPool --------------------------
(* An instance of OrderedConnPool: more clients than slots, and enough        *)
(* connections for every client to hold one and a new one to be dialled.      *)
EXTENDS OrderedConnPool

CONSTANTS c1, c2, k1, k2, k3

TwoClients == {c1, c2}
ThreeConns == {k1, k2, k3}
=============================================================================
