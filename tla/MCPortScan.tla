----------------------------- MODULE MCPortScan -----------------------------
(* TLC instance of PortScan: three ports, two workers. *)
EXTENDS PortScan
=============================================================================
