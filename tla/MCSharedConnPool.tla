-------------------------- MODULE MCSharedConnPool --------------------------
(* An instance of SharedConnPool: a starter, a client that joins its dial,    *)
(* one connection that can be dialled, and a Reset.                           *)
EXTENDS SharedConnPool

CONSTANTS c1, c2, k1

TwoClients == {c1, c2}
OneConn == {k1}
=============================================================================
