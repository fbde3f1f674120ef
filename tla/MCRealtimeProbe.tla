--------------------------- MODULE MCRealtimeProbe ---------------------------
(* TLC instance of RealtimeProbe: a page that publishes samples and one     *)
(* that does not, three submissions, up to two results each.                *)
EXTENDS RealtimeProbe

MCKinds == {"ping", "portscan"}
=============================================================================
