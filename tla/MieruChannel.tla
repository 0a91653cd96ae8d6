---------------------------- MODULE MieruChannel ----------------------------
(* What a mieru session promises the two programs that talk through it, in    *)
(* one direction: a stream.  The writer appends to it until its session has   *)
(* closed; the reader reads a growing prefix of it, also after that.          *)
EXTENDS Integers, Sequences

CONSTANT Item   \* what a stream is made of

VARIABLES
    written,    \* what the writer has given to its session
    read,       \* what the reader was given
    closed      \* the writer's session has closed

vars == <<written, read, closed>>

Init == written = <<>> /\ read = <<>> /\ closed = FALSE

IsPrefixOf(s, t) == Len(s) <= Len(t) /\ \A i \in 1..Len(s) : s[i] = t[i]

Write ==
    /\ ~closed
    /\ written' \in Seq(Item)
    /\ Len(written') = Len(written) + 1 /\ IsPrefixOf(written, written')
    /\ UNCHANGED <<read, closed>>

Read ==
    /\ read' \in Seq(Item)
    /\ IsPrefixOf(read, read') /\ IsPrefixOf(read', written)
    /\ UNCHANGED <<written, closed>>

Close == closed' = TRUE /\ UNCHANGED <<written, read>>

Next == Write \/ Read \/ Close

Spec == Init /\ [][Next]_vars
=============================================================================
