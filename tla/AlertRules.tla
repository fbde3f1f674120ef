---------------------------- MODULE AlertRules -----------------------------
(***************************************************************************)
(* Alert rules of one monitored target (internal/store/alerts.go) and the  *)
(* goroutines that evaluate them after each probe run and then mail the    *)
(* decisions (enqueueAlertEvaluation in cmd/netwatcher/main.go).           *)
(*                                                                         *)
(* An evaluation reads the time, then locks the rows with SELECT .. FOR    *)
(* UPDATE, decides, updates, commits, and only then mails.  Evaluations of *)
(* several runs overlap, and the user saves or deletes rules meanwhile.    *)
(* All rules here have the same user, protocol, target and port; a rule    *)
(* that is edited to another target is one that is no longer enabled.      *)
(***************************************************************************)
EXTENDS Integers

CONSTANTS
  NRules,     \* bound: rules ever created
  Evals,      \* evaluation goroutines that may run at the same time
  Configs,    \* what a user may save, as validateAlertRule leaves it
  Samples,    \* what a probe run may report
  MaxTime,    \* bound: the clock, in the unit of the cooldowns
  MaxRuns,    \* bound: evaluations started
  MaxSaves,   \* bound: edits of existing rules
  Nobody      \* no lock holder

Rules == 1 .. NRules

(* A threshold may be absent, and so is the average of a run without a     *)
(* reply.  A loss threshold of 0 is accepted; every run breaches it.       *)
Absent == -1
Config == [latency : (Nat \ {0}) \cup {Absent}, loss : Nat \cup {Absent},
           required : Nat \ {0}, cooldown : Nat \ {0},
           notify : BOOLEAN, enabled : BOOLEAN]
Sample == [avg : Nat \cup {Absent}, loss : Nat]

ASSUME ConfigAssumption ==
  /\ Configs # {} /\ Configs \subseteq Config
  /\ \A c \in Configs : c.latency # Absent \/ c.loss # Absent
ASSUME SampleAssumption ==
  Samples # {} /\ Samples \subseteq Sample
ASSUME BoundAssumption ==
  /\ NRules \in Nat /\ MaxTime \in Nat \ {0}
  /\ MaxRuns \in Nat /\ MaxSaves \in Nat
ASSUME NobodyAssumption == Nobody \notin Evals

Progress == [state : {"healthy", "alert"}, streak : Nat,
             triggered : Nat, recovered : Nat, evaluated : Nat]
NewProgress == [state |-> "healthy", streak |-> 0,
                triggered |-> 0, recovered |-> 0, evaluated |-> 0]
Decision == [rule : Rules, kind : {"triggered", "recovered"}, run : Nat]

VARIABLES
  time,      \* wall clock, from 1; 0 stands for NULL in a row
  status,    \* of each rule id: "unborn", "live" or "deleted"
  config,    \* what the user chose, per rule
  progress,  \* what evaluations maintain, per rule
  holder,    \* which evaluation holds the row lock
  pc,        \* of each evaluation: "idle", "timed", "locked", "mailing"
  now,       \* time.Now() as the evaluation read it
  sample,    \* the run it evaluates
  run,       \* the number of that run
  seen,      \* the rows it locked, as it read them
  outbox,    \* decisions still to be mailed
  runs,      \* runs evaluated so far
  saves,     \* edits so far
  breaches   \* history: committed breaching evaluations in a row, per rule

rowVars == <<status, config, progress, holder>>
evalVars == <<pc, now, sample, run, seen, outbox, runs>>
vars == <<time, rowVars, evalVars, saves, breaches>>

Live == {r \in Rules : status[r] = "live"}
Matching == {r \in Live : config[r].enabled}

NoSample == CHOOSE s \in Samples : TRUE
NoConfig == CHOOSE c \in Configs : TRUE
NothingSeen == [rows |-> {}, config |-> [r \in Rules |-> NoConfig],
                progress |-> [r \in Rules |-> NewProgress]]

Init ==
  /\ time = 1
  /\ status = [r \in Rules |-> "unborn"]
  /\ config = [r \in Rules |-> NoConfig]
  /\ progress = [r \in Rules |-> NewProgress]
  /\ holder = [r \in Rules |-> Nobody]
  /\ pc = [e \in Evals |-> "idle"]
  /\ now = [e \in Evals |-> 0]
  /\ sample = [e \in Evals |-> NoSample]
  /\ run = [e \in Evals |-> 0]
  /\ seen = [e \in Evals |-> NothingSeen]
  /\ outbox = [e \in Evals |-> {}]
  /\ runs = 0 /\ saves = 0
  /\ breaches = [r \in Rules |-> 0]

-----------------------------------------------------------------------------
(* evaluateAlertThresholds: without a reply there is no latency to compare. *)
Breach(c, s) ==
  \/ c.latency # Absent /\ s.avg # Absent /\ s.avg >= c.latency
  \/ c.loss # Absent /\ s.loss >= c.loss

CooldownElapsed(c, p, t) ==
  p.triggered = 0 \/ t - p.triggered >= c.cooldown

(* Mutant: a streak that is long enough triggers whatever the cooldown. *)
TriggersAgain(c, p, s, t) == Breach(c, s) /\ p.streak + 1 >= c.required

(* The decision of EvaluateAlertRules for one rule, from the row it read. *)
Triggers(c, p, s, t) ==
  /\ Breach(c, s)
  /\ p.streak + 1 >= c.required
  /\ p.state # "alert" \/ CooldownElapsed(c, p, t)

Recovers(c, p, s) ==
  ~Breach(c, s) /\ p.state = "alert" /\ c.notify

(* The UPDATE it runs for that rule. *)
Evaluated(c, p, s, t) ==
  [state     |-> IF Breach(c, s) THEN "alert" ELSE "healthy",
   streak    |-> IF Breach(c, s) THEN p.streak + 1 ELSE 0,
   triggered |-> IF Triggers(c, p, s, t) THEN t ELSE p.triggered,
   recovered |-> IF Recovers(c, p, s) THEN t ELSE p.recovered,
   evaluated |-> t]

-----------------------------------------------------------------------------
(* SaveAlertRule inserts a rule without an id ... *)
CreateRule(r, c) ==
  /\ status[r] = "unborn"
  /\ \A q \in Rules : q < r => status[q] # "unborn"
  /\ status' = [status EXCEPT ![r] = "live"]
  /\ config' = [config EXCEPT ![r] = c]
  /\ UNCHANGED <<time, progress, holder, evalVars, saves, breaches>>

(* Mutant: the save does not wait for the evaluation that locked the row. *)
UpdateRuleUnlocked(r, c) ==
  /\ saves < MaxSaves
  /\ status[r] = "live"
  /\ config' = [config EXCEPT ![r] = c]
  /\ saves' = saves + 1
  /\ UNCHANGED <<time, status, progress, holder, evalVars, breaches>>

(* ... and updates one with an id, waiting for its row lock and leaving   *)
(* the progress of the rule as it is.                                      *)
UpdateRule(r, c) ==
  /\ saves < MaxSaves
  /\ status[r] = "live" /\ holder[r] = Nobody
  /\ config' = [config EXCEPT ![r] = c]
  /\ saves' = saves + 1
  /\ UNCHANGED <<time, status, progress, holder, evalVars, breaches>>

DeleteRule(r) ==
  /\ status[r] = "live" /\ holder[r] = Nobody
  /\ status' = [status EXCEPT ![r] = "deleted"]
  /\ UNCHANGED <<time, config, progress, holder, evalVars, saves, breaches>>

-----------------------------------------------------------------------------
(* A probe run ends, enqueueAlertEvaluation starts a goroutine for it and  *)
(* EvaluateAlertRules reads the time before it opens its transaction.      *)
StartEvaluation(e, s) ==
  /\ runs < MaxRuns
  /\ pc[e] = "idle"
  /\ pc' = [pc EXCEPT ![e] = "timed"]
  /\ now' = [now EXCEPT ![e] = time]
  /\ sample' = [sample EXCEPT ![e] = s]
  /\ run' = [run EXCEPT ![e] = runs + 1]
  /\ runs' = runs + 1
  /\ UNCHANGED <<time, rowVars, seen, outbox, saves, breaches>>

(* Mutant: a plain SELECT, which waits for nobody. *)
LockRowsPlain(e) ==
  /\ pc[e] = "timed"
  /\ seen' = [seen EXCEPT ![e] = [rows |-> Matching,
       config |-> config, progress |-> progress]]
  /\ pc' = [pc EXCEPT ![e] = "locked"]
  /\ UNCHANGED <<time, rowVars, now, sample, run, outbox, runs, saves,
                 breaches>>

(* SELECT .. FOR UPDATE returns once no other transaction holds a row.    *)
LockRows(e) ==
  /\ pc[e] = "timed"
  /\ \A r \in Matching : holder[r] = Nobody
  /\ holder' = [r \in Rules |-> IF r \in Matching THEN e ELSE holder[r]]
  /\ seen' = [seen EXCEPT ![e] = [rows |-> Matching,
       config |-> config, progress |-> progress]]
  /\ pc' = [pc EXCEPT ![e] = "locked"]
  /\ UNCHANGED <<time, status, config, progress, now, sample, run, outbox,
                 runs, saves, breaches>>

Decisions(e) ==
  {[rule |-> r, kind |-> "triggered", run |-> run[e]] :
     r \in {q \in seen[e].rows :
             Triggers(seen[e].config[q], seen[e].progress[q],
                      sample[e], now[e])}}
  \cup
  {[rule |-> r, kind |-> "recovered", run |-> run[e]] :
     r \in {q \in seen[e].rows :
             Recovers(seen[e].config[q], seen[e].progress[q], sample[e])}}

Unlocked(e) == [r \in Rules |-> IF holder[r] = e THEN Nobody ELSE holder[r]]

(* Once it is decided an evaluation needs only its outbox. *)
Forget(e) ==
  /\ now' = [now EXCEPT ![e] = 0]
  /\ sample' = [sample EXCEPT ![e] = NoSample]
  /\ run' = [run EXCEPT ![e] = 0]
  /\ seen' = [seen EXCEPT ![e] = NothingSeen]

Written(e) ==
  /\ progress' = [r \in Rules |->
       IF r \in seen[e].rows
         THEN Evaluated(seen[e].config[r], seen[e].progress[r],
                        sample[e], now[e])
         ELSE progress[r]]
  /\ breaches' = [r \in Rules |->
       IF r \notin seen[e].rows THEN breaches[r]
       ELSE IF Breach(seen[e].config[r], sample[e]) THEN breaches[r] + 1 ELSE 0]
  /\ holder' = Unlocked(e)

CommitEvaluation(e) ==
  /\ pc[e] = "locked"
  /\ Written(e)
  /\ outbox' = [outbox EXCEPT ![e] = Decisions(e)]
  /\ Forget(e)
  /\ pc' = [pc EXCEPT ![e] = "mailing"]
  /\ UNCHANGED <<time, status, config, runs, saves>>

(* The database committed but its answer was lost: no decision is mailed. *)
CommitAnswerLost(e) ==
  /\ pc[e] = "locked"
  /\ Written(e)
  /\ Forget(e)
  /\ pc' = [pc EXCEPT ![e] = "idle"]
  /\ UNCHANGED <<time, status, config, outbox, runs, saves>>

(* Any error before the commit, the ten-second context included. *)
AbortEvaluation(e) ==
  /\ pc[e] \in {"timed", "locked"}
  /\ holder' = Unlocked(e)
  /\ Forget(e)
  /\ pc' = [pc EXCEPT ![e] = "idle"]
  /\ UNCHANGED <<time, status, config, progress, outbox, runs, saves,
                 breaches>>

(* Mutant: a decision is mailed again until the provider takes it, and the *)
(* provider is down.                                                        *)
SendMailRetries(e) ==
  /\ pc[e] = "mailing" /\ outbox[e] # {}
  /\ UNCHANGED vars

(* SendAlert, once per decision in the order of the rows.  Whether the     *)
(* provider takes the mail or not, the decision is not mailed again.       *)
SendMail(e) ==
  /\ pc[e] = "mailing"
  /\ \E d \in outbox[e] :
       /\ \A x \in outbox[e] : d.rule <= x.rule
       /\ outbox' = [outbox EXCEPT ![e] = @ \ {d}]
  /\ UNCHANGED <<time, rowVars, pc, now, sample, run, seen, runs, saves,
                 breaches>>

EndEvaluation(e) ==
  /\ pc[e] = "mailing"
  /\ outbox[e] = {}
  /\ pc' = [pc EXCEPT ![e] = "idle"]
  /\ UNCHANGED <<time, rowVars, now, sample, run, seen, outbox, runs, saves,
                 breaches>>

Tick ==
  /\ time < MaxTime
  /\ time' = time + 1
  /\ UNCHANGED <<rowVars, evalVars, saves, breaches>>

-----------------------------------------------------------------------------
Next ==
  \/ \E r \in Rules, c \in Configs : CreateRule(r, c) \/ UpdateRule(r, c)
  \/ \E r \in Rules : DeleteRule(r)
  \/ \E e \in Evals, s \in Samples : StartEvaluation(e, s)
  \/ \E e \in Evals :
       \/ LockRows(e) \/ CommitEvaluation(e)
       \/ CommitAnswerLost(e) \/ AbortEvaluation(e)
       \/ SendMail(e) \/ EndEvaluation(e)
  \/ Tick

(* The context of ten seconds ends every wait of an evaluation, and the   *)
(* mailer's HTTP client has a timeout of its own.                          *)
Fairness ==
  \A e \in Evals :
    /\ WF_vars(LockRows(e))
    /\ WF_vars(CommitEvaluation(e)) /\ WF_vars(AbortEvaluation(e))
    /\ WF_vars(SendMail(e)) /\ WF_vars(EndEvaluation(e))

Spec == Init /\ [][Next]_vars
FairSpec == Spec /\ Fairness

-----------------------------------------------------------------------------
(* Values of the variables. *)
TypeOK ==
  /\ time \in 1 .. MaxTime
  /\ status \in [Rules -> {"unborn", "live", "deleted"}]
  /\ config \in [Rules -> Configs]
  /\ progress \in [Rules -> Progress]
  /\ holder \in [Rules -> Evals \cup {Nobody}]
  /\ pc \in [Evals -> {"idle", "timed", "locked", "mailing"}]
  /\ now \in [Evals -> 0 .. MaxTime]
  /\ sample \in [Evals -> Samples]
  /\ run \in [Evals -> 0 .. MaxRuns]
  /\ seen \in [Evals -> [rows : SUBSET Rules, config : [Rules -> Configs],
                        progress : [Rules -> Progress]]]
  /\ outbox \in [Evals -> SUBSET Decision]
  /\ runs \in 0 .. MaxRuns /\ saves \in 0 .. MaxSaves
  /\ breaches \in [Rules -> Nat]

(* No evaluation is lost: the stored streak is the number of breaching    *)
(* evaluations committed since the last healthy one, however evaluations,  *)
(* edits and deletions overlap, and the stored state says whether there is *)
(* one.                                                                     *)
StreakCountsBreaches ==
  \A r \in Rules :
    /\ progress[r].streak = breaches[r]
    /\ progress[r].state = "alert" <=> breaches[r] > 0

(* A decision is taken on rows that are still what the evaluation read:   *)
(* no save, deletion or other evaluation changes a rule between the SELECT *)
(* that read it and the UPDATE that overwrites its progress.               *)
SeenIsCurrent ==
  \A e \in Evals : pc[e] = "locked" =>
    \A r \in seen[e].rows :
      /\ r \in Live
      /\ config[r] = seen[e].config[r]
      /\ progress[r] = seen[e].progress[r]

(* A rule that asks for several breaches in a row is never triggered twice *)
(* within its cooldown, not even when it recovered in between or when an   *)
(* evaluation that read the time earlier commits later.                    *)
TriggeredAgain(r) ==
  /\ progress[r].triggered # 0
  /\ progress'[r].triggered # progress[r].triggered

CooldownStep ==
  \A r \in Rules :
    TriggeredAgain(r) /\ config[r].required > 1
      => progress'[r].triggered - progress[r].triggered >= config[r].cooldown
CooldownHolds == [][CooldownStep]_vars

(* Every evaluation ends and gives its locks back. *)
EvaluationEnds == \A e \in Evals : pc[e] # "idle" ~> pc[e] = "idle"

(* What "Rule recovered" in the mail suggests: a rule recovers from an     *)
(* alert it has raised.                                                     *)
RecoversFromAlert ==
  \A r \in Rules : progress[r].recovered # 0 => progress[r].triggered # 0

-----------------------------------------------------------------------------
(* The row locks: an evaluation holds exactly the rows it read, from the   *)
(* SELECT to the end of its transaction.                                   *)
LocksHeld ==
  \A e \in Evals, r \in Rules :
    holder[r] = e <=> pc[e] = "locked" /\ r \in seen[e].rows

IInv == TypeOK /\ LocksHeld /\ SeenIsCurrent /\ StreakCountsBreaches
=============================================================================
