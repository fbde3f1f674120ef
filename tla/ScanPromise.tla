----------------------------- MODULE ScanPromise -----------------------------
(***************************************************************************)
(* What a port scan promises its caller: ports are reported one by one,    *)
(* each at most once and with a state of its own; the scan returns without *)
(* error only when every port is reported and none because the scan was    *)
(* canceled.  PortScan implements it.                                      *)
(***************************************************************************)
CONSTANTS Ports, States, Canceled

VARIABLES
  reported,  \* what the caller was told so far: a set of [port, state]
  returned   \* "no", "ok" or "error"

Init == reported = {} /\ returned = "no"

Known == {r.port : r \in reported}

Report(p, s) ==
  /\ returned = "no"
  /\ p \notin Known
  /\ reported' = reported \cup {[port |-> p, state |-> s]}
  /\ UNCHANGED returned

Succeed ==
  /\ returned = "no"
  /\ Known = Ports
  /\ \A r \in reported : r.state # Canceled
  /\ returned' = "ok"
  /\ UNCHANGED reported

Fail ==
  /\ returned = "no"
  /\ returned' = "error"
  /\ UNCHANGED reported

Next ==
  \/ \E p \in Ports, s \in States \cup {Canceled} : Report(p, s)
  \/ Succeed \/ Fail

Spec == Init /\ [][Next]_<<reported, returned>>
=============================================================================
