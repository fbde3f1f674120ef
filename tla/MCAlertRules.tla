---------------------------- MODULE MCAlertRules ----------------------------
(* TLC instance of AlertRules: one rule, two overlapping evaluations.      *)
EXTENDS AlertRules

CONSTANTS e1, e2
MCEvals == {e1, e2}

(* A latency rule that triggers at the first breach, a rule on both        *)
(* thresholds that needs two, and the same rule switched off.               *)
MCConfigs ==
  {[latency |-> 2, loss |-> Absent, required |-> 1, cooldown |-> 2,
    notify |-> TRUE, enabled |-> TRUE]}
  \cup {[latency |-> 2, loss |-> 50, required |-> 2, cooldown |-> 2,
         notify |-> b, enabled |-> b] : b \in BOOLEAN}

(* Within the thresholds and slow; a run without any reply. *)
MCSamples == {[avg |-> 1, loss |-> 0], [avg |-> 3, loss |-> 0]}
NoReply == [avg |-> Absent, loss |-> 100]
MCAllSamples == MCSamples \cup {NoReply}
=============================================================================
