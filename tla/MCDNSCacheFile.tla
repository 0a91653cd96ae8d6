--------------------------- MODULE MCDNSCacheFile ---------------------------
(* Small instances of DNSCacheFile for TLC.                                   *)
EXTENDS DNSCacheFile, TLC

CONSTANTS k1, k2, p1, p2, w1, w2

Sym == Permutations({k1, k2}) \cup Permutations(Callers) \cup Permutations(Writers)
=============================================================================
