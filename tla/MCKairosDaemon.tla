--------------------------- MODULE MCKairosDaemon ---------------------------
(* TLC instances of KairosDaemon.                                          *)
EXTENDS KairosDaemon

CONSTANTS p1, p2

OneProject  == {p1}
TwoProjects == {p1, p2}
=============================================================================
