--------------------------- MODULE MCProbeSession ---------------------------
(* TLC instances of ProbeSession: two connections and an HTTP handler that *)
(* want more slots than there are (safety), one connection with more       *)
(* messages (liveness).                                                     *)
EXTENDS ProbeSession, TLC

CONSTANTS c1, c2, h1

MCConns == {c1, c2}
MCOneConn == {c1}
MCHandlers == {h1}
MCSymmetry == Permutations(MCConns)
=============================================================================
