--------------------------- MODULE MCMieruStream ----------------------------
(* Small instances of MieruStream for TLC.                                    *)
EXTENDS MieruStream

Extremes == {1, Cap}
=============================================================================
