-------------------------- MODULE MCV2BoardTracker --------------------------
(* Small instances of V2BoardTracker for TLC.                                *)
EXTENDS V2BoardTracker, TLC

CONSTANTS k1, k2, c1, c2, c3, n1, n2, n3, n4, ip1, ip2, ip3

\* Every list over the keys that gives no user two keys.
MCUserLists ==
    {list \in [Keys -> Uids \cup {0}] :
        \A k, l \in Keys : list[k] = list[l] /\ list[k] # 0 => k = l}

MCNoAlive == {[u \in Uids |-> 0]}
MCNoLimit == {[u \in Uids |-> 0]}

MCAlive == {[u \in Uids |-> n] : n \in {0, 1}}
\* The panel raises and lowers the limit.
MCLimits == {[u \in Uids |-> n] : n \in {1, 2}}

\* Connections and counters are interchangeable, and so are addresses.
Interchange == Permutations(Conns) \cup Permutations(Counters)
InterchangeAll == Interchange \cup Permutations(IPs)
=============================================================================
