----------------------------- MODULE MCDashboard -----------------------------
(* TLC instance of Dashboard.  The mixes: one or two rules that are edited *)
(* while nothing is probed; two rules of a target that is probed; a rule    *)
(* whose list fails while the tab is hidden; three targets, one of them     *)
(* with a rule, of which the page follows two; a rule that is edited while  *)
(* it is probed; three rules, also of three targets, that may alert already *)
(* and are never evaluated again.                                           *)
EXTENDS Dashboard

CONSTANTS t1, t2, t3
MCTargets == {t1, t2, t3}

MixOf(targets, ruled, n, w, s, m, f) ==
  [targets |-> targets, ruled |-> ruled, rules |-> n,
   alerts |-> IF w + s = 0 THEN BOOLEAN ELSE {FALSE},
   writes |-> w, probes |-> s, moves |-> m, faults |-> f]
MCMixes ==
  {MixOf({t1}, {t1}, 1, 2, 0, 3, 0), MixOf({t1}, {t1}, 2, 2, 0, 2, 0),
   MixOf({t1}, {t1}, 2, 2, 0, 1, 1), MixOf({t1}, {t1}, 2, 0, 2, 1, 0),
   MixOf({t1}, {t1}, 1, 0, 1, 3, 1), MixOf(MCTargets, {t1}, 1, 0, 2, 1, 0),
   MixOf({t1}, {t1}, 1, 1, 1, 2, 0), MixOf(MCTargets, MCTargets, 3, 0, 0, 2, 0)}
=============================================================================
