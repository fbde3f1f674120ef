----------------------------- MODULE OverviewView -----------------------------
(***************************************************************************)
(* What the overview page computes from the data it holds: the targets it  *)
(* follows and the state it shows of each.                                 *)
(*                                                                         *)
(* A rule is [id, target, enabled, alert], target standing for the         *)
(* protocol, the host and the port, alert for last_state = "alert".  A     *)
(* point of the history and a live sample are [target, error].  The order  *)
(* of the rows, their latencies and their age are layout.                  *)
(***************************************************************************)
EXTENDS Naturals, Sequences, FiniteSets, SequencesExt

CONSTANT MaxTracked   \* targets followed; 12 in the code

ASSUME TrackedAssumption == MaxTracked \in Nat \ {0}

HealthStates == {"critical", "warning", "stable", "disabled", "idle"}

(* Where two entries have the same target the first one stays.             *)
AddNew(rules, r) ==
  IF \E i \in DOMAIN rules : rules[i].target = r.target
  THEN rules ELSE Append(rules, r)

AddAll(rules, more) == FoldLeft(AddNew, rules, more)

uniqueAlertTargets(rules) == AddAll(<<>>, rules)

Slice(rules) ==
  SubSeq(rules, 1, IF Len(rules) < MaxTracked THEN Len(rules) ELSE MaxTracked)

(* The rule invented for a target that has none.                           *)
Invented(target, alert) ==
  [id |-> 0, target |-> target, enabled |-> TRUE, alert |-> alert]

mergeTrackedRules(rules, recent) ==
  Slice(AddAll(rules, [i \in DOMAIN recent |-> Invented(recent[i], FALSE)]))

mergeTrackedRulesFromLiveSamples(rules, live) ==
  Slice(AddAll(rules, [i \in DOMAIN live |-> Invented(live[i].target, live[i].error)]))

(* points: the history held of the target of the rule, oldest first        *)
classifyTargetHealthState(rule, points) ==
  CASE ~rule.enabled -> "disabled"
    [] rule.enabled /\ rule.alert -> "critical"
    [] rule.enabled /\ ~rule.alert /\ points = <<>> -> "idle"
    [] OTHER -> IF Last(points).error THEN "warning" ELSE "stable"

(* The last live sample of a target corrects its state.                    *)
SamplesOf(live, target) == SelectSeq(live, LAMBDA s : s.target = target)

OverlayAlways(health, samples) ==
  IF samples = <<>> THEN health
  ELSE IF Last(samples).error THEN "warning"
  ELSE IF health = "idle" THEN "stable" ELSE health

OverlayIfIdle(health, samples) ==
  IF samples = <<>> \/ health # "idle" THEN health
  ELSE IF Last(samples).error THEN "warning" ELSE "stable"

Overlay(health, samples) ==
  CASE samples = <<>> -> health
    [] samples # <<>> /\ Last(samples).error ->
         IF health = "critical" THEN "critical" ELSE "warning"
    [] OTHER -> IF health = "idle" THEN "stable" ELSE health

(* trackedRulesWithLive and targetSnapshots: the rows of the page.         *)
Tracked(rules, recent, live) ==
  mergeTrackedRulesFromLiveSamples(
    mergeTrackedRules(uniqueAlertTargets(rules), recent), live)

Snapshot(rule, points, live) ==
  [target |-> rule.target,
   health |-> Overlay(classifyTargetHealthState(rule, points),
                      SamplesOf(live, rule.target))]

\* history: of each target the points held, <<>> where there are none
Snapshots(tracked, history, live) ==
  [i \in DOMAIN tracked |->
     Snapshot(tracked[i], history[tracked[i].target], live)]

(* The numbers above the table and those of the pie.                       *)
AddEnabled(rules, r) == IF r.enabled THEN Append(rules, r) ELSE rules
EnabledOf(rules) == FoldLeft(AddEnabled, <<>>, rules)

CountOf(rows, healths) == Cardinality({i \in DOMAIN rows : rows[i].health \in healths})

buildOverviewKpis(tracked, rows) ==
  [trackedTargets |->
     Len(uniqueAlertTargets(EnabledOf(tracked))),
   critical |-> CountOf(rows, {"critical"}),
   warning |-> CountOf(rows, {"warning", "idle"}),
   stable |-> CountOf(rows, {"stable"})]

buildOverviewHealthDistribution(rows) ==
  [h \in HealthStates |-> CountOf(rows, {h})]

(* What the panels make of those numbers: the chip of the alert summary,   *)
(* which says Clear for 0, and the number inside the pie.                   *)
OverviewAlertSummary(kpis) == kpis.critical + kpis.warning
OverviewHealthDistributionPanel(pie) == FoldFunction(+, 0, pie)
=============================================================================
