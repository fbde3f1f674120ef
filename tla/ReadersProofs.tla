---------------------------- MODULE ReadersProofs ----------------------------
(***************************************************************************)
(* Theorems about the two readers of what is stored: AlertRules, for any   *)
(* rules, thresholds, samples, cooldowns and any number of evaluations     *)
(* that overlap, and HistoryPage, for any selections, retries and          *)
(* instances of the page.  They share no variable and no constant.         *)
(***************************************************************************)
EXTENDS AlertRules, HistoryPage, TLAPS

Row == [rows : SUBSET Rules, config : [Rules -> Configs],
        progress : [Rules -> Progress]]
Stages == {"idle", "timed", "locked", "mailing"}

LEMMA Defaults ==
  /\ NoConfig \in Configs /\ NoSample \in Samples
  /\ NewProgress \in Progress /\ NothingSeen \in Row
<1>1. NoConfig \in Configs
  BY ConfigAssumption DEF NoConfig
<1>2. NoSample \in Samples
  BY SampleAssumption DEF NoSample
<1>3. NewProgress \in Progress
  BY DEF NewProgress, Progress
<1>4. NothingSeen \in Row
  BY <1>1, <1>3 DEF NothingSeen, Row
<1>5. QED
  BY <1>1, <1>2, <1>3, <1>4

(* The row an evaluation writes is a row.                                  *)
LEMMA EvaluatedType ==
  ASSUME NEW c, NEW p \in Progress, NEW s, NEW t \in Nat
  PROVE  Evaluated(c, p, s, t) \in Progress
<1>1. p.streak + 1 \in Nat /\ p.triggered \in Nat /\ p.recovered \in Nat
  BY DEF Progress
<1>2. QED
  BY <1>1 DEF Evaluated, Progress

LEMMA DecisionsType ==
  ASSUME TypeOK, NEW e \in Evals
  PROVE  Decisions(e) \subseteq Decision
<1>1. seen[e].rows \subseteq Rules /\ run[e] \in Nat
  BY BoundAssumption DEF TypeOK
<1>2. QED
  BY <1>1 DEF Decisions, Decision

-----------------------------------------------------------------------------
LEMMA TypeInit == Init => TypeOK
<1> SUFFICES ASSUME Init PROVE TypeOK
  OBVIOUS
<1>1. /\ config \in [Rules -> Configs] /\ progress \in [Rules -> Progress]
      /\ sample \in [Evals -> Samples] /\ seen \in [Evals -> Row]
  BY Defaults DEF Init
<1>2. /\ status \in [Rules -> {"unborn", "live", "deleted"}]
      /\ holder \in [Rules -> Evals \cup {Nobody}] /\ pc \in [Evals -> Stages]
  BY DEF Init, Stages
<1>3. /\ time \in 1 .. MaxTime /\ now \in [Evals -> 0 .. MaxTime]
      /\ run \in [Evals -> 0 .. MaxRuns] /\ runs \in 0 .. MaxRuns
      /\ saves \in 0 .. MaxSaves
  BY BoundAssumption DEF Init
<1>4. outbox \in [Evals -> SUBSET Decision] /\ breaches \in [Rules -> Nat]
  BY DEF Init
<1>5. QED
  BY <1>1, <1>2, <1>3, <1>4 DEF TypeOK, Row, Stages

(* What the end of an evaluation leaves in its variables.                  *)
LEMMA ForgetType ==
  ASSUME TypeOK, NEW e \in Evals, Forget(e)
  PROVE  /\ now' \in [Evals -> 0 .. MaxTime] /\ sample' \in [Evals -> Samples]
         /\ run' \in [Evals -> 0 .. MaxRuns] /\ seen' \in [Evals -> Row]
<1>1. now' \in [Evals -> 0 .. MaxTime] /\ run' \in [Evals -> 0 .. MaxRuns]
  BY BoundAssumption DEF Forget, TypeOK
<1>2. sample' \in [Evals -> Samples] /\ seen' \in [Evals -> Row]
  BY Defaults DEF Forget, TypeOK, Row
<1>3. QED
  BY <1>1, <1>2

LEMMA UnlockedType ==
  ASSUME TypeOK, NEW e \in Evals
  PROVE  Unlocked(e) \in [Rules -> Evals \cup {Nobody}]
  BY DEF Unlocked, TypeOK

LEMMA WrittenType ==
  ASSUME TypeOK, NEW e \in Evals, Written(e)
  PROVE  /\ progress' \in [Rules -> Progress] /\ breaches' \in [Rules -> Nat]
         /\ holder' \in [Rules -> Evals \cup {Nobody}]
<1>1. ASSUME NEW r \in Rules
      PROVE  Evaluated(seen[e].config[r], seen[e].progress[r], sample[e], now[e])
               \in Progress
  <2>1. seen[e].progress[r] \in Progress /\ now[e] \in Nat
    BY BoundAssumption DEF TypeOK
  <2>2. QED
    BY <2>1, EvaluatedType
<1>2. progress' \in [Rules -> Progress]
  BY <1>1 DEF Written, TypeOK
<1>3. breaches' \in [Rules -> Nat]
  BY DEF Written, TypeOK
<1>4. QED
  BY <1>2, <1>3, UnlockedType DEF Written

LEMMA TypeNext == TypeOK /\ [Next]_vars => TypeOK'
<1> SUFFICES ASSUME TypeOK, [Next]_vars PROVE TypeOK'
  OBVIOUS
<1> USE BoundAssumption
<1>1. ASSUME NEW r \in Rules, NEW c \in Configs, CreateRule(r, c) PROVE TypeOK'
  BY <1>1 DEF CreateRule, evalVars, TypeOK
<1>2. ASSUME NEW r \in Rules, NEW c \in Configs, UpdateRule(r, c) PROVE TypeOK'
  BY <1>2 DEF UpdateRule, evalVars, TypeOK
<1>3. ASSUME NEW r \in Rules, DeleteRule(r) PROVE TypeOK'
  BY <1>3 DEF DeleteRule, evalVars, TypeOK
<1>4. ASSUME NEW e \in Evals, NEW s \in Samples, StartEvaluation(e, s) PROVE TypeOK'
  <2>1. runs + 1 \in 0 .. MaxRuns /\ time \in 0 .. MaxTime
    BY <1>4 DEF StartEvaluation, TypeOK
  <2>2. QED
    BY <1>4, <2>1 DEF StartEvaluation, rowVars, TypeOK
<1>5. ASSUME NEW e \in Evals, LockRows(e) PROVE TypeOK'
  <2>1. [rows |-> Matching, config |-> config, progress |-> progress] \in Row
    BY DEF Matching, Live, TypeOK, Row
  <2>2. seen' \in [Evals -> Row]
    BY <1>5, <2>1 DEF LockRows, TypeOK, Row
  <2>3. holder' \in [Rules -> Evals \cup {Nobody}]
    BY <1>5 DEF LockRows, TypeOK
  <2>4. pc' \in [Evals -> Stages]
    BY <1>5 DEF LockRows, TypeOK, Stages
  <2>5. QED
    BY <1>5, <2>2, <2>3, <2>4 DEF LockRows, TypeOK, Row, Stages
<1>6. ASSUME NEW e \in Evals, CommitEvaluation(e) PROVE TypeOK'
  <2>1. outbox' \in [Evals -> SUBSET Decision]
    BY <1>6, DecisionsType DEF CommitEvaluation, TypeOK
  <2>2. pc' \in [Evals -> Stages]
    BY <1>6 DEF CommitEvaluation, TypeOK, Stages
  <2>3. Written(e) /\ Forget(e)
    BY <1>6 DEF CommitEvaluation
  <2>4. QED
    BY <1>6, <2>1, <2>2, <2>3, WrittenType, ForgetType
       DEF CommitEvaluation, TypeOK, Row, Stages
<1>7. ASSUME NEW e \in Evals, CommitAnswerLost(e) PROVE TypeOK'
  <2>1. pc' \in [Evals -> Stages]
    BY <1>7 DEF CommitAnswerLost, TypeOK, Stages
  <2>2. Written(e) /\ Forget(e)
    BY <1>7 DEF CommitAnswerLost
  <2>3. QED
    BY <1>7, <2>1, <2>2, WrittenType, ForgetType
       DEF CommitAnswerLost, TypeOK, Row, Stages
<1>8. ASSUME NEW e \in Evals, AbortEvaluation(e) PROVE TypeOK'
  <2>1. pc' \in [Evals -> Stages]
    BY <1>8 DEF AbortEvaluation, TypeOK, Stages
  <2>2. holder' \in [Rules -> Evals \cup {Nobody}]
    BY <1>8, UnlockedType DEF AbortEvaluation
  <2>3. Forget(e)
    BY <1>8 DEF AbortEvaluation
  <2>4. QED
    BY <1>8, <2>1, <2>2, <2>3, ForgetType DEF AbortEvaluation, TypeOK, Row, Stages
<1>9. ASSUME NEW e \in Evals, SendMail(e) PROVE TypeOK'
  BY <1>9 DEF SendMail, rowVars, TypeOK
<1>10. ASSUME NEW e \in Evals, EndEvaluation(e) PROVE TypeOK'
  BY <1>10 DEF EndEvaluation, rowVars, TypeOK
<1>11. CASE Tick
  BY <1>11 DEF Tick, rowVars, evalVars, TypeOK
<1>12. CASE UNCHANGED vars
  BY <1>12 DEF vars, rowVars, evalVars, TypeOK
<1>13. QED
  BY <1>1, <1>2, <1>3, <1>4, <1>5, <1>6, <1>7, <1>8, <1>9, <1>10, <1>11, <1>12
     DEF Next

(* Every reachable state is well typed.                                    *)
THEOREM TypeCorrect == Spec => []TypeOK
  BY TypeInit, TypeNext, PTL DEF Spec

-----------------------------------------------------------------------------
LEMMA InvInit == Init => IInv
<1> SUFFICES ASSUME Init PROVE IInv
  OBVIOUS
<1>1. TypeOK
  BY TypeInit
<1>2. LocksHeld /\ SeenIsCurrent
  BY NobodyAssumption DEF Init, LocksHeld, SeenIsCurrent
<1>3. StreakCountsBreaches
  BY DEF Init, NewProgress, StreakCountsBreaches
<1>4. QED
  BY <1>1, <1>2, <1>3 DEF IInv

(* An evaluation that waits or decides has the only hold on its rows.      *)
LEMMA RowsDisjoint ==
  ASSUME IInv, NEW e \in Evals, NEW f \in Evals, e # f,
         pc[e] = "locked", pc[f] = "locked"
  PROVE  seen[e].rows \cap seen[f].rows = {}
<1>1. seen[e].rows \subseteq Rules
  BY DEF IInv, TypeOK
<1>2. ASSUME NEW r \in seen[e].rows, r \in seen[f].rows PROVE FALSE
  BY <1>1, <1>2 DEF IInv, LocksHeld
<1>3. QED
  BY <1>2

(* The user's saves and deletions.                                         *)
LEMMA UserKeeps ==
  ASSUME IInv, NEW r \in Rules, NEW c \in Configs,
         CreateRule(r, c) \/ UpdateRule(r, c) \/ DeleteRule(r)
  PROVE  LocksHeld' /\ SeenIsCurrent' /\ StreakCountsBreaches'
<1>1. /\ progress' = progress /\ breaches' = breaches /\ holder' = holder
      /\ pc' = pc /\ seen' = seen
  BY DEF CreateRule, UpdateRule, DeleteRule, evalVars
<1>2. LocksHeld' /\ StreakCountsBreaches'
  BY <1>1 DEF IInv, LocksHeld, StreakCountsBreaches
<1>3. ASSUME NEW e \in Evals, pc[e] = "locked", NEW q \in seen[e].rows
      PROVE  q \in Live' /\ config'[q] = seen[e].config[q]
  <2>1. /\ q \in Rules /\ holder[q] = e /\ q \in Live
        /\ config[q] = seen[e].config[q]
    BY <1>3 DEF IInv, TypeOK, LocksHeld, SeenIsCurrent
  <2>2. q # r
    BY <2>1, NobodyAssumption DEF CreateRule, UpdateRule, DeleteRule, Live
  <2>3. status'[q] = status[q] /\ config'[q] = config[q]
    BY <2>1, <2>2 DEF CreateRule, UpdateRule, DeleteRule, IInv, TypeOK
  <2>4. QED
    BY <2>1, <2>3 DEF Live
<1>4. SeenIsCurrent'
  BY <1>1, <1>3 DEF IInv, SeenIsCurrent
<1>5. QED
  BY <1>2, <1>4

LEMMA LockKeeps ==
  ASSUME IInv, NEW e \in Evals, LockRows(e)
  PROVE  LocksHeld' /\ SeenIsCurrent' /\ StreakCountsBreaches'
<1>1. /\ pc[e] = "timed" /\ status' = status /\ config' = config
      /\ progress' = progress /\ breaches' = breaches
      /\ \A r \in Matching : holder[r] = Nobody
  BY DEF LockRows
<1>2. /\ pc'[e] = "locked" /\ seen'[e].rows = Matching
      /\ seen'[e].config = config /\ seen'[e].progress = progress
      /\ \A f \in Evals : f # e => pc'[f] = pc[f] /\ seen'[f] = seen[f]
  BY DEF LockRows, IInv, TypeOK
<1>3. \A r \in Rules : holder'[r] = IF r \in Matching THEN e ELSE holder[r]
  BY DEF LockRows
<1>4. ASSUME NEW f \in Evals, NEW r \in Rules
      PROVE  holder'[r] = f <=> pc'[f] = "locked" /\ r \in seen'[f].rows
  <2>1. holder[r] = f <=> pc[f] = "locked" /\ r \in seen[f].rows
    BY DEF IInv, LocksHeld
  <2>2. QED
    BY <1>1, <1>2, <1>3, <2>1, NobodyAssumption
<1>5. ASSUME NEW f \in Evals, pc'[f] = "locked", NEW r \in seen'[f].rows
      PROVE  /\ r \in Live' /\ config'[r] = seen'[f].config[r]
             /\ progress'[r] = seen'[f].progress[r]
  <2>1. CASE f = e
    BY <1>1, <1>2, <1>5, <2>1 DEF Matching, Live
  <2>2. CASE f # e
    BY <1>1, <1>2, <1>5, <2>2 DEF IInv, SeenIsCurrent, Live
  <2>3. QED
    BY <2>1, <2>2
<1>6. QED
  BY <1>1, <1>4, <1>5 DEF IInv, LocksHeld, SeenIsCurrent, StreakCountsBreaches

(* The transaction of e ends, with its update or without.                  *)
LEMMA UnlockKeeps ==
  ASSUME IInv, NEW e \in Evals, holder' = Unlocked(e), Forget(e),
         pc[e] \in {"timed", "locked"},
         \E x \in {"idle", "mailing"} : pc' = [pc EXCEPT ![e] = x]
  PROVE  /\ LocksHeld'
         /\ pc'[e] # "locked"
         /\ \A f \in Evals : f # e => pc'[f] = pc[f] /\ seen'[f] = seen[f]
<1>1. pc'[e] # "locked"
  BY DEF IInv, TypeOK
<1>2. \A f \in Evals : f # e => pc'[f] = pc[f] /\ seen'[f] = seen[f]
  BY DEF Forget, IInv, TypeOK
<1>3. ASSUME NEW f \in Evals, NEW r \in Rules
      PROVE  holder'[r] = f <=> pc'[f] = "locked" /\ r \in seen'[f].rows
  <2>1. holder[r] = f <=> pc[f] = "locked" /\ r \in seen[f].rows
    BY DEF IInv, LocksHeld
  <2>2. holder'[r] = IF holder[r] = e THEN Nobody ELSE holder[r]
    BY DEF Unlocked
  <2>3. QED
    BY <1>1, <1>2, <2>1, <2>2, NobodyAssumption
<1>4. QED
  BY <1>1, <1>2, <1>3 DEF LocksHeld

(* What an update does to a row, and to the rows of others.                *)
LEMMA WrittenRow ==
  ASSUME IInv, NEW e \in Evals, pc[e] = "locked", Written(e), NEW r \in Rules
  PROVE  /\ r \notin seen[e].rows =>
              progress'[r] = progress[r] /\ breaches'[r] = breaches[r]
         /\ r \in seen[e].rows =>
              /\ progress'[r] = Evaluated(config[r], progress[r], sample[e], now[e])
              /\ breaches'[r] = IF Breach(config[r], sample[e])
                                THEN breaches[r] + 1 ELSE 0
<1>1. CASE r \notin seen[e].rows
  BY <1>1 DEF Written
<1>2. CASE r \in seen[e].rows
  <2>1. config[r] = seen[e].config[r] /\ progress[r] = seen[e].progress[r]
    BY <1>2 DEF IInv, SeenIsCurrent
  <2>2. QED
    BY <1>2, <2>1 DEF Written
<1>3. QED
  BY <1>1, <1>2

LEMMA WriteKeepsStreak ==
  ASSUME IInv, NEW e \in Evals, pc[e] = "locked", Written(e)
  PROVE  StreakCountsBreaches'
<1>1. ASSUME NEW r \in Rules
      PROVE  /\ progress'[r].streak = breaches'[r]
             /\ progress'[r].state = "alert" <=> breaches'[r] > 0
  <2>1. /\ progress[r].streak = breaches[r] /\ breaches[r] \in Nat
        /\ progress[r].state = "alert" <=> breaches[r] > 0
    BY DEF IInv, StreakCountsBreaches, TypeOK
  <2>2. CASE r \notin seen[e].rows
    BY <2>1, <2>2, WrittenRow
  <2>3. CASE r \in seen[e].rows
    <3>1. /\ progress'[r] = Evaluated(config[r], progress[r], sample[e], now[e])
          /\ breaches'[r] = IF Breach(config[r], sample[e])
                            THEN breaches[r] + 1 ELSE 0
      BY <2>3, WrittenRow
    <3>2. QED
      BY <2>1, <3>1 DEF Evaluated
  <2>4. QED
    BY <2>2, <2>3
<1>2. QED
  BY <1>1 DEF StreakCountsBreaches

(* The rows other evaluations hold stay as those read them.                *)
LEMMA WriteKeepsSeen ==
  ASSUME IInv, NEW e \in Evals, pc[e] = "locked", Written(e), pc'[e] # "locked",
         status' = status, config' = config,
         \A f \in Evals : f # e => pc'[f] = pc[f] /\ seen'[f] = seen[f]
  PROVE  SeenIsCurrent'
<1>1. ASSUME NEW f \in Evals, pc'[f] = "locked", NEW r \in seen'[f].rows
      PROVE  /\ r \in Live' /\ config'[r] = seen'[f].config[r]
             /\ progress'[r] = seen'[f].progress[r]
  <2>1. f # e /\ pc[f] = "locked" /\ seen'[f] = seen[f] /\ r \in seen[f].rows
    BY <1>1
  <2>2. /\ r \in Live /\ config[r] = seen[f].config[r]
        /\ progress[r] = seen[f].progress[r]
    BY <2>1 DEF IInv, SeenIsCurrent
  <2>3. r \notin seen[e].rows
    BY <2>1, RowsDisjoint
  <2>4. progress'[r] = progress[r]
    BY <2>2, <2>3, WrittenRow DEF Live
  <2>5. QED
    BY <2>1, <2>2, <2>4 DEF Live
<1>2. QED
  BY <1>1 DEF SeenIsCurrent

LEMMA InvNext == IInv /\ [Next]_vars => IInv'
<1> SUFFICES ASSUME IInv, [Next]_vars PROVE IInv'
  OBVIOUS
<1>0. TypeOK'
  BY TypeNext DEF IInv
<1> SUFFICES LocksHeld' /\ SeenIsCurrent' /\ StreakCountsBreaches'
  BY <1>0 DEF IInv
<1>1. ASSUME NEW r \in Rules, NEW c \in Configs, CreateRule(r, c) \/ UpdateRule(r, c)
      PROVE  LocksHeld' /\ SeenIsCurrent' /\ StreakCountsBreaches'
  BY <1>1, UserKeeps
<1>2. ASSUME NEW r \in Rules, DeleteRule(r)
      PROVE  LocksHeld' /\ SeenIsCurrent' /\ StreakCountsBreaches'
  BY <1>2, UserKeeps, ConfigAssumption
<1>3. ASSUME NEW e \in Evals, NEW s \in Samples, StartEvaluation(e, s)
      PROVE  LocksHeld' /\ SeenIsCurrent' /\ StreakCountsBreaches'
  <2>1. /\ \A f \in Evals : pc'[f] = "locked" <=> pc[f] = "locked"
        /\ seen' = seen
    BY <1>3 DEF StartEvaluation, IInv, TypeOK
  <2>2. status' = status /\ config' = config /\ progress' = progress
        /\ holder' = holder /\ breaches' = breaches
    BY <1>3 DEF StartEvaluation, rowVars
  <2>3. QED
    BY <2>1, <2>2 DEF IInv, LocksHeld, SeenIsCurrent, StreakCountsBreaches, Live
<1>4. ASSUME NEW e \in Evals, LockRows(e)
      PROVE  LocksHeld' /\ SeenIsCurrent' /\ StreakCountsBreaches'
  BY <1>4, LockKeeps
<1>5. ASSUME NEW e \in Evals, CommitEvaluation(e) \/ CommitAnswerLost(e)
      PROVE  LocksHeld' /\ SeenIsCurrent' /\ StreakCountsBreaches'
  <2>1. /\ pc[e] = "locked" /\ Written(e) /\ Forget(e) /\ holder' = Unlocked(e)
        /\ status' = status /\ config' = config
        /\ \E x \in {"idle", "mailing"} : pc' = [pc EXCEPT ![e] = x]
    BY <1>5 DEF CommitEvaluation, CommitAnswerLost, Written
  <2>2. /\ LocksHeld' /\ pc'[e] # "locked"
        /\ \A f \in Evals : f # e => pc'[f] = pc[f] /\ seen'[f] = seen[f]
    BY <2>1, UnlockKeeps
  <2>3. QED
    BY <2>1, <2>2, WriteKeepsSeen, WriteKeepsStreak
<1>6. ASSUME NEW e \in Evals, AbortEvaluation(e)
      PROVE  LocksHeld' /\ SeenIsCurrent' /\ StreakCountsBreaches'
  <2>1. /\ pc[e] \in {"timed", "locked"} /\ Forget(e) /\ holder' = Unlocked(e)
        /\ status' = status /\ config' = config /\ progress' = progress
        /\ breaches' = breaches
        /\ \E x \in {"idle", "mailing"} : pc' = [pc EXCEPT ![e] = x]
    BY <1>6 DEF AbortEvaluation
  <2>2. /\ LocksHeld' /\ pc'[e] # "locked"
        /\ \A f \in Evals : f # e => pc'[f] = pc[f] /\ seen'[f] = seen[f]
    BY <2>1, UnlockKeeps
  <2>3. QED
    BY <2>1, <2>2 DEF IInv, SeenIsCurrent, StreakCountsBreaches, Live
<1>7. ASSUME NEW e \in Evals, SendMail(e) \/ EndEvaluation(e)
      PROVE  LocksHeld' /\ SeenIsCurrent' /\ StreakCountsBreaches'
  <2>1. /\ \A f \in Evals : pc'[f] = "locked" <=> pc[f] = "locked"
        /\ seen' = seen /\ status' = status /\ config' = config
        /\ progress' = progress /\ holder' = holder /\ breaches' = breaches
    BY <1>7 DEF SendMail, EndEvaluation, rowVars, IInv, TypeOK
  <2>2. QED
    BY <2>1 DEF IInv, LocksHeld, SeenIsCurrent, StreakCountsBreaches, Live
<1>8. CASE Tick \/ UNCHANGED vars
  BY <1>8 DEF Tick, vars, rowVars, evalVars, IInv, LocksHeld, SeenIsCurrent,
              StreakCountsBreaches, Live
<1>9. QED
  BY <1>1, <1>2, <1>3, <1>4, <1>5, <1>6, <1>7, <1>8 DEF Next

LEMMA InvCorrect == Spec => []IInv
  BY InvInit, InvNext, PTL DEF Spec

-----------------------------------------------------------------------------
(* However many evaluations overlap with each other and with edits, the    *)
(* rows an evaluation decides on are still what it read.                   *)
THEOREM DecidesOnCurrentRows == Spec => []SeenIsCurrent
<1>1. IInv => SeenIsCurrent
  BY DEF IInv
<1>2. QED
  BY <1>1, InvCorrect, PTL

(* No evaluation is lost or counted twice: the streak of a rule is the     *)
(* number of breaching evaluations committed since the last healthy one.   *)
THEOREM StreakIsExact == Spec => []StreakCountsBreaches
<1>1. IInv => StreakCountsBreaches
  BY DEF IInv
<1>2. QED
  BY <1>1, InvCorrect, PTL

(* A rule that asks for several breaches never triggers twice within its   *)
(* cooldown: a streak of two or more means that the rule is in the alert   *)
(* state, where only an elapsed cooldown lets it trigger.                   *)
LEMMA CooldownNext == IInv /\ [Next]_vars => [CooldownStep]_vars
<1> SUFFICES ASSUME IInv, Next,
                    NEW r \in Rules, TriggeredAgain(r), config[r].required > 1
             PROVE  progress'[r].triggered - progress[r].triggered
                      >= config[r].cooldown
  BY DEF CooldownStep
<1>1. PICK e \in Evals : CommitEvaluation(e) \/ CommitAnswerLost(e)
  <2>1. progress' # progress
    BY DEF TriggeredAgain
  <2>2. QED
    BY <2>1 DEF Next, CreateRule, UpdateRule, DeleteRule, StartEvaluation, LockRows,
                AbortEvaluation, SendMail, EndEvaluation, Tick, rowVars
<1>2. pc[e] = "locked" /\ Written(e)
  BY <1>1 DEF CommitEvaluation, CommitAnswerLost
<1>3. progress'[r] = Evaluated(config[r], progress[r], sample[e], now[e])
  BY <1>2, WrittenRow DEF TriggeredAgain
<1>4. Triggers(config[r], progress[r], sample[e], now[e]) /\ progress'[r].triggered = now[e]
  BY <1>3 DEF Evaluated, TriggeredAgain
<1>5. progress[r].state = "alert"
  <2>1. progress[r].streak + 1 >= config[r].required
    BY <1>4 DEF Triggers
  <2>2. /\ progress[r].streak = breaches[r] /\ breaches[r] \in Nat
        /\ progress[r].state = "alert" <=> breaches[r] > 0
    BY DEF IInv, StreakCountsBreaches, TypeOK
  <2>3. config[r].required \in Nat
    BY ConfigAssumption DEF IInv, TypeOK, Config
  <2>4. QED
    BY <2>1, <2>2, <2>3
<1>6. QED
  BY <1>4, <1>5 DEF Triggers, CooldownElapsed, TriggeredAgain

(* For any cooldown and any requirement of two or more breaches, in         *)
(* whatever order overlapping evaluations commit, two triggers of a rule    *)
(* are at least its cooldown apart (EvaluateAlertRules).                    *)
THEOREM CooldownIsKept == Spec => CooldownHolds
  BY InvCorrect, CooldownNext, PTL DEF Spec, CooldownHolds

-----------------------------------------------------------------------------
(* The history page.                                                       *)
LEMMA SizeFacts ==
  MaxPoints \in Nat /\ MaxInstances \in Nat /\ MaxLoads \in Nat /\ MaxRetries \in Nat
  BY PageBoundAssumption, RetryAssumption

LEMMA Empties ==
  /\ NoPoints \in Points /\ NoRefs \in Refs /\ NoRefs.timer = NoSel
  /\ Idle \in Req /\ Idle.stage = "none"
  BY SizeFacts DEF NoPoints, Points, NoRefs, Refs, Idle, Req, Chosen

LEMMA RequestFacts ==
  ASSUME PageTypeOK, NEW s \in Selections
  PROVE  /\ Request(s) \in Req /\ Request(s).stage = "sent" /\ Request(s).sel = s
         /\ Request(s).known = stored[s] /\ Request(s) # Idle
<1>1. stored[s] \in 0 .. MaxPoints /\ 0 \in 0 .. MaxPoints
  BY SizeFacts DEF PageTypeOK
<1>2. QED
  BY <1>1 DEF Request, Req, Idle, Chosen

LEMMA ReqFields ==
  ASSUME NEW r \in Req
  PROVE  /\ r.sel \in Chosen /\ r.count \in 0 .. MaxPoints /\ r.known \in 0 .. MaxPoints
         /\ r.stage \in {"none", "sent", "missed", "read", "answered"}
         /\ r = [stage |-> r.stage, sel |-> r.sel, count |-> r.count, known |-> r.known]
  BY DEF Req

\* The handler of a request changes its stage and perhaps its count.
LEMMA StageChange ==
  ASSUME NEW r \in Req, NEW x \in {"missed", "read", "answered"}, NEW q,
         q = [r EXCEPT !.stage = x]
  PROVE  /\ q \in Req /\ q.stage = x /\ q.count = r.count /\ q.sel = r.sel
         /\ q.known = r.known /\ q # Idle
<1>1. q = [stage |-> x, sel |-> r.sel, count |-> r.count, known |-> r.known]
  BY DEF Req
<1>2. q \in Req
  BY <1>1, ReqFields DEF Req
<1>3. QED
  BY <1>1, <1>2 DEF Idle

LEMMA CountChange ==
  ASSUME NEW r \in Req, NEW n \in 0 .. MaxPoints, NEW q, q = [r EXCEPT !.count = n]
  PROVE  /\ q \in Req /\ q.stage = r.stage /\ q.count = n /\ q.sel = r.sel
         /\ q.known = r.known
<1>1. q = [stage |-> r.stage, sel |-> r.sel, count |-> n, known |-> r.known]
  BY DEF Req
<1>2. q \in Req
  BY <1>1, ReqFields DEF Req
<1>3. QED
  BY <1>1, <1>2

LEMMA TimerChange ==
  ASSUME NEW x \in Refs, NEW s \in Chosen
  PROVE  /\ [x EXCEPT !.timer = s] \in Refs /\ [x EXCEPT !.timer = s].active = x.active
         /\ [x EXCEPT !.timer = s].timer = s
  BY DEF Refs

LEMMA RetriesChange ==
  ASSUME NEW x \in Refs, NEW n \in 0 .. MaxRetries
  PROVE  /\ [x EXCEPT !.retries = n] \in Refs /\ [x EXCEPT !.retries = n].active = x.active
  BY DEF Refs

LEMMA FreshFacts ==
  ASSUME NEW i, NEW s \in Selections
  PROVE  FreshRefs(i, s) \in Refs /\ FreshRefs(i, s).active = s /\ FreshRefs(i, s).timer = NoSel
  BY SizeFacts DEF FreshRefs, Refs, Chosen

\* The refs of an instance whose request is over.
LEMMA StopFacts ==
  ASSUME PageTypeOK, NEW i \in Instances
  PROVE  StopRetrying(i) \in Refs /\ StopRetrying(i).timer = NoSel
<1>1. refs[i] \in Refs /\ NoSel \in Chosen /\ 0 \in 0 .. MaxRetries
  BY SizeFacts DEF PageTypeOK, Chosen
<1>2. QED
  BY <1>1, TimerChange, Empties DEF StopRetrying

LEMMA AfterFacts ==
  ASSUME PageTypeOK, NEW i \in Instances, InstanceInv(i), req[i] # Idle
  PROVE  /\ RefsAfter(i, req[i]) \in Refs
         /\ RefsAfter(i, req[i]).timer # NoSel =>
              RefsAfter(i, req[i]).timer = RefsAfter(i, req[i]).active
<1> DEFINE r == req[i]
<1>1. refs[i] \in Refs /\ r.sel \in Chosen /\ r.sel = refs[i].active
  BY DEF PageTypeOK, InstanceInv, Chosen
<1>2. CASE MayRetry(i, r)
  <2>1. refs[i].retries \in 0 .. MaxRetries
    BY <1>1 DEF Refs
  <2> DEFINE n == IF refs[i].retries < MaxRetries THEN refs[i].retries + 1 ELSE refs[i].retries
  <2>2. n \in 0 .. MaxRetries
    BY <2>1, SizeFacts
  <2>3. RetryLater(i, r) = [[refs[i] EXCEPT !.retries = n] EXCEPT !.timer = r.sel]
    BY DEF RetryLater
  <2> HIDE DEF n, r
  <2>4. /\ RetryLater(i, r) \in Refs /\ RetryLater(i, r).timer = r.sel
        /\ RetryLater(i, r).active = refs[i].active
    <3> DEFINE y == [refs[i] EXCEPT !.retries = n]
    <3>1. y \in Refs /\ y.active = refs[i].active
      BY <1>1, <2>2, RetriesChange
    <3>2. RetryLater(i, r) = [y EXCEPT !.timer = r.sel]
      BY <2>3
    <3> HIDE DEF y
    <3>3. QED
      BY <1>1, <3>1, <3>2, TimerChange
  <2>5. QED
    BY <1>1, <1>2, <2>4 DEF RefsAfter, r
<1>3. CASE ~MayRetry(i, r)
  BY <1>3, StopFacts DEF RefsAfter
<1>4. QED
  BY <1>2, <1>3

-----------------------------------------------------------------------------
(* What a step does to one instance.                                       *)
Same(k) == shown'[k] = shown[k] /\ selection'[k] = selection[k]
ShownFits(k) ==
  /\ k # live' => shown'[k] = NoPoints
  /\ shown'[k] # NoPoints => shown'[k].sel = selection'[k]
Grows == opened' \in Nat /\ opened <= opened' /\ \A s \in Selections :
           stored'[s] \in Nat /\ stored[s] <= stored'[s]

LEMMA Frame ==
  ASSUME PageTypeOK, NEW k \in Instances, InstanceInv(k), Grows, ShownFits(k),
         req'[k] = req[k], refs'[k] = refs[k]
  PROVE  InstanceInv(k)'
<1>1. k <= opened => k <= opened'
  BY SizeFacts DEF PageTypeOK, Grows, Instances
<1>2. req[k] # Idle => req[k].known <= stored'[req[k].sel]
  <2>1. ASSUME req[k] # Idle PROVE req[k].known <= stored'[req[k].sel]
    <3>1. req[k].sel \in Selections /\ req[k].known <= stored[req[k].sel]
      BY <2>1 DEF InstanceInv
    <3>2. req[k].known \in Nat /\ stored[req[k].sel] \in Nat
      BY <3>1, SizeFacts, ReqFields DEF PageTypeOK
    <3>3. stored'[req[k].sel] \in Nat /\ stored[req[k].sel] <= stored'[req[k].sel]
      BY <3>1 DEF Grows
    <3>4. QED
      BY <3>1, <3>2, <3>3
  <2>2. QED
    BY <2>1
<1>3. QED
  BY <1>1, <1>2 DEF InstanceInv, ShownFits

LEMMA Fits ==
  ASSUME NEW k \in Instances, InstanceInv(k), Same(k), live' = live \/ k # live
  PROVE  k # live' => shown'[k] = NoPoints
  BY DEF InstanceInv, Same

LEMMA Served ==
  ASSUME PageTypeOK, NEW k \in Instances, InstanceInv(k), req[k] # Idle,
         UNCHANGED <<stored, route, view, refs>>,
         req'[k].stage \in {"missed", "read", "answered"}, req'[k].sel = req[k].sel,
         req'[k].known = req[k].known, req'[k] # Idle,
         req'[k].stage \in {"read", "answered"} /\ req'[k].count = 0 => req[k].known = 0
  PROVE  InstanceInv(k)'
  BY DEF InstanceInv, view, route

LEMMA Loaded ==
  ASSUME PageTypeOK, NEW k \in Instances, NEW s \in Selections, ShownFits(k), stored' = stored,
         req'[k] = Request(s), refs'[k].active = s, refs'[k].timer = NoSel, k <= opened'
  PROVE  InstanceInv(k)'
<1>1. stored[s] <= stored[s]
  BY SizeFacts DEF PageTypeOK
<1>2. QED
  BY <1>1, RequestFacts DEF InstanceInv, ShownFits

LEMMA Rested ==
  ASSUME NEW k \in Instances, ShownFits(k), req'[k] = Idle,
         refs'[k].timer # NoSel => refs'[k].timer = refs'[k].active /\ k <= opened'
  PROVE  InstanceInv(k)'
  BY DEF InstanceInv, ShownFits

-----------------------------------------------------------------------------
LEMMA PageInvInit == PageInit => PageIInv
<1> SUFFICES ASSUME PageInit PROVE PageIInv
  OBVIOUS
<1>1. /\ stored \in [Selections -> 0 .. MaxPoints]
      /\ cached \in [Selections -> SUBSET (1 .. MaxPoints)]
      /\ opened \in 0 .. MaxInstances /\ live \in 0 .. opened /\ loads \in 0 .. MaxLoads
  BY SizeFacts DEF PageInit, NoInstance
<1>2. /\ selection \in [Instances -> Chosen] /\ shown \in [Instances -> Points]
      /\ error \in [Instances -> BOOLEAN] /\ refs \in [Instances -> Refs]
      /\ req \in [Instances -> Req] /\ export \in [Instances -> Chosen]
  BY Empties DEF PageInit, Chosen
<1>3. \A i \in Instances : InstanceInv(i)
  BY Empties DEF PageInit, InstanceInv
<1>4. RoomInv
  BY DEF PageInit, RoomInv
<1>5. QED
  BY <1>1, <1>2, <1>3, <1>4 DEF PageIInv, PageTypeOK

(* The server: the table grows, the cache holds no empty answer.           *)
LEMMA ServerKeeps ==
  ASSUME PageIInv, NEW s \in Selections, Flush(s) \/ Expire(s)
  PROVE  PageIInv'
<1>1. PageTypeOK /\ RoomInv
  BY DEF PageIInv
<1>2. /\ stored' \in [Selections -> 0 .. MaxPoints]
      /\ cached' \in [Selections -> SUBSET (1 .. MaxPoints)]
  <2>1. CASE Flush(s)
    BY <1>1, <2>1, SizeFacts DEF Flush, PageTypeOK
  <2>2. CASE Expire(s)
    BY <1>1, <2>2 DEF Expire, PageTypeOK
  <2>3. QED
    BY <2>1, <2>2
<1>3. PageTypeOK' /\ RoomInv' /\ UNCHANGED <<route, view, refs, req>>
  BY <1>1, <1>2 DEF Flush, Expire, route, view, PageTypeOK, RoomInv
<1>4. Grows
  <2>1. opened \in Nat /\ opened' = opened
    BY <1>1, <1>3, SizeFacts DEF PageTypeOK, route
  <2>2. ASSUME NEW q \in Selections PROVE stored'[q] \in Nat /\ stored[q] <= stored'[q]
    <3>1. stored[q] \in Nat
      BY <1>1, SizeFacts DEF PageTypeOK
    <3>2. stored'[q] = stored[q] \/ stored'[q] = stored[q] + 1
      BY <1>1 DEF Flush, Expire, PageTypeOK
    <3>3. QED
      BY <3>1, <3>2
  <2>3. QED
    BY <2>1, <2>2 DEF Grows
<1>5. ASSUME NEW k \in Instances PROVE InstanceInv(k)'
  <2>1. InstanceInv(k) /\ ShownFits(k)
    BY <1>3 DEF PageIInv, InstanceInv, ShownFits, route, view
  <2>2. QED
    BY <1>1, <1>3, <1>4, <2>1, Frame
<1>6. QED
  BY <1>3, <1>5 DEF PageIInv

LEMMA StoredSame ==
  ASSUME PageTypeOK, PageTypeOK', stored' = stored, opened <= opened'
  PROVE  Grows
<1>1. opened' \in Nat /\ \A s \in Selections : stored[s] \in Nat
  BY SizeFacts DEF PageTypeOK
<1>2. QED
  BY <1>1 DEF Grows

(* A step that concerns at most the instance i.                            *)
LEMMA OneInstance ==
  ASSUME PageIInv, PageTypeOK', RoomInv', NEW i \in Instances, InstanceInv(i)', stored' = stored,
         opened <= opened', live' = live \/ live' = NoInstance \/ live' = i,
         live = NoInstance \/ live = i \/ live' = live,
         \A k \in Instances : k # i => Same(k) /\ req'[k] = req[k] /\ refs'[k] = refs[k]
  PROVE  PageIInv'
<1>1. PageTypeOK /\ Grows
  BY StoredSame DEF PageIInv
<1>2. ASSUME NEW k \in Instances, k # i PROVE InstanceInv(k)'
  <2>1. InstanceInv(k) /\ k # NoInstance
    BY DEF PageIInv, Instances, NoInstance
  <2>2. ShownFits(k)
    BY <1>2, <2>1 DEF ShownFits, Same, InstanceInv
  <2>3. QED
    BY <1>1, <1>2, <2>1, <2>2, Frame
<1>3. QED
  BY <1>2 DEF PageIInv

LEMMA ServesKeeps ==
  ASSUME PageIInv, NEW p \in Instances, Serves(p)
  PROVE  PageIInv'
<1>1. /\ PageTypeOK /\ RoomInv /\ InstanceInv(p) /\ req[p] \in Req
      /\ req[p] # Idle /\ req[p].sel \in Selections
  BY Empties DEF PageIInv, PageTypeOK, InstanceInv, Serves, CacheGet, Query, CacheSet
<1>2. UNCHANGED <<stored, route, loads, view, refs, export>>
  BY DEF Serves, CacheGet, Query, CacheSet, backend
<1>3. PICK q \in Req :
        /\ req' = [req EXCEPT ![p] = q]
        /\ q.stage \in {"missed", "read", "answered"} /\ q.sel = req[p].sel
        /\ q.known = req[p].known /\ q # Idle
        /\ q.stage \in {"read", "answered"} /\ q.count = 0 => req[p].known = 0
  <2>1. CASE CacheGet(p)
    <3>1. CASE req' = [req EXCEPT ![p].stage = "missed"]
      <4>1. req' = [req EXCEPT ![p] = [req[p] EXCEPT !.stage = "missed"]]
        BY <3>1
      <4>2. QED
        <5> DEFINE q == [req[p] EXCEPT !.stage = "missed"]
        <5>1. /\ q \in Req /\ q.stage = "missed" /\ q.sel = req[p].sel
              /\ q.known = req[p].known /\ q # Idle
          BY <1>1, StageChange
        <5>2. req' = [req EXCEPT ![p] = q]
          BY <4>1
        <5> HIDE DEF q
        <5>3. QED
          BY <5>1, <5>2
    <3>2. CASE \E n \in cached[req[p].sel] :
                 req' = [req EXCEPT ![p].stage = "answered", ![p].count = n]
      <4>1. PICK n \in cached[req[p].sel] :
              req' = [req EXCEPT ![p].stage = "answered", ![p].count = n]
        BY <3>2
      <4>2. n \in 1 .. MaxPoints /\ n \in 0 .. MaxPoints /\ n # 0
        BY <1>1, SizeFacts DEF PageTypeOK
      <4> DEFINE y == [req[p] EXCEPT !.stage = "answered"]
                 q == [y EXCEPT !.count = n]
      <4>3. req' = [req EXCEPT ![p] = q]
        BY <1>1, <4>1 DEF PageTypeOK
      <4>4. /\ q \in Req /\ q.stage = "answered" /\ q.count = n /\ q.sel = req[p].sel
            /\ q.known = req[p].known /\ q # Idle
        <5>1. /\ y \in Req /\ y.stage = "answered" /\ y.sel = req[p].sel
              /\ y.known = req[p].known
          BY <1>1, StageChange
        <5> HIDE DEF y
        <5>2. /\ q \in Req /\ q.stage = "answered" /\ q.count = n /\ q.sel = req[p].sel
              /\ q.known = req[p].known
          BY <4>2, <5>1, CountChange
        <5> HIDE DEF q
        <5>3. QED
          BY <5>2 DEF Idle
      <4> HIDE DEF y, q
      <4>5. QED
        BY <4>2, <4>3, <4>4
    <3>3. QED
      BY <2>1, <3>1, <3>2 DEF CacheGet
  <2>2. CASE Query(p)
    <3> DEFINE n == stored[req[p].sel]
               y == [req[p] EXCEPT !.stage = "read"]
               q == [y EXCEPT !.count = n]
    <3>1. n \in 0 .. MaxPoints /\ req[p].known \in 0 .. MaxPoints /\ req[p].known <= n
      BY <1>1, ReqFields DEF PageTypeOK, InstanceInv
    <3>2. req' = [req EXCEPT ![p] = q]
      BY <1>1, <2>2 DEF Query, PageTypeOK
    <3>3. n = 0 => req[p].known = 0
      BY <3>1, SizeFacts
    <3>4. /\ q \in Req /\ q.stage = "read" /\ q.count = n /\ q.sel = req[p].sel
          /\ q.known = req[p].known /\ q # Idle
      <4>1. /\ y \in Req /\ y.stage = "read" /\ y.sel = req[p].sel
            /\ y.known = req[p].known
        BY <1>1, StageChange
      <4> HIDE DEF y, n
      <4>2. /\ q \in Req /\ q.stage = "read" /\ q.count = n /\ q.sel = req[p].sel
            /\ q.known = req[p].known
        BY <3>1, <4>1, CountChange
      <4> HIDE DEF q
      <4>3. QED
        BY <4>2 DEF Idle
    <3> HIDE DEF y, q, n
    <3>5. QED
      BY <3>2, <3>3, <3>4
  <2>3. CASE CacheSet(p)
    <3>1. req' = [req EXCEPT ![p] = [req[p] EXCEPT !.stage = "answered"]]
      BY <2>3 DEF CacheSet
    <3>2. req[p].count = 0 => req[p].known = 0
      BY <1>1, <2>3 DEF CacheSet, InstanceInv
    <3> DEFINE q == [req[p] EXCEPT !.stage = "answered"]
    <3>3. /\ q \in Req /\ q.stage = "answered" /\ q.sel = req[p].sel
          /\ q.count = req[p].count /\ q.known = req[p].known /\ q # Idle
      BY <1>1, StageChange
    <3>4. req' = [req EXCEPT ![p] = q]
      BY <3>1
    <3> HIDE DEF q
    <3>5. QED
      BY <3>2, <3>3, <3>4
  <2>4. QED
    BY <2>1, <2>2, <2>3 DEF Serves
<1>4. cached' \in [Selections -> SUBSET (1 .. MaxPoints)]
  <2>1. CASE cached' = cached
    BY <1>1, <2>1 DEF PageTypeOK
  <2>2. CASE cached' # cached
    <3>1. /\ req[p].count > 0 /\ cached' = [cached EXCEPT ![req[p].sel] = {req[p].count}]
      BY <2>2 DEF Serves, CacheGet, Query, CacheSet, Caches, backend
    <3>2. req[p].count \in 1 .. MaxPoints
      BY <1>1, <3>1, ReqFields, SizeFacts
    <3>3. QED
      BY <1>1, <3>1, <3>2 DEF PageTypeOK
  <2>3. QED
    BY <2>1, <2>2
<1>5. PageTypeOK' /\ RoomInv'
  BY <1>1, <1>2, <1>3, <1>4 DEF PageTypeOK, RoomInv, route, view
<1>6. InstanceInv(p)'
  <2>1. req'[p] = q
    BY <1>1, <1>3 DEF PageTypeOK
  <2>2. QED
    BY <1>1, <1>2, <1>3, <2>1, Served
<1>7. \A k \in Instances : k # p => Same(k) /\ req'[k] = req[k] /\ refs'[k] = refs[k]
  BY <1>1, <1>2, <1>3 DEF Same, view, PageTypeOK
<1>8. opened <= opened' /\ live' = live
  BY <1>1, <1>2, SizeFacts DEF route, PageTypeOK
<1>9. QED
  BY <1>2, <1>5, <1>6, <1>7, <1>8, OneInstance

-----------------------------------------------------------------------------
(* The page.                                                               *)
LEMMA OpenKeeps ==
  ASSUME PageIInv, NEW s \in Selections \cup {NoSel}, Open(s)
  PROVE  PageIInv'
<1> PICK j \in Instances : j = opened + 1
  BY SizeFacts DEF PageIInv, PageTypeOK, Open, Instances
<1>1. /\ PageTypeOK /\ opened \in Nat /\ j \in 0 .. MaxInstances /\ j # NoInstance
      /\ opened <= j /\ j \in 0 .. j /\ j <= j
  BY SizeFacts DEF PageIInv, PageTypeOK, Open, Instances, NoInstance
<1>2. opened' = j /\ live' = j /\ live = NoInstance /\ UNCHANGED <<backend, view, export>>
  BY DEF Open
<1>3. InstanceInv(j) /\ stored' = stored /\ j # live
      /\ \A k \in Instances : Same(k)
  BY <1>1, <1>2 DEF PageIInv, Same, view, backend
<1>4. ShownFits(j)
  BY <1>1, <1>3 DEF ShownFits, Same, InstanceInv
<1>5. CASE s = NoSel
  <2>1. UNCHANGED <<loads, refs, req>>
    BY <1>5 DEF Open
  <2>2. PageTypeOK' /\ RoomInv'
    BY <1>1, <1>2, <2>1 DEF PageTypeOK, RoomInv, backend, view
  <2>3. Grows
    BY <1>1, <1>2, <1>3, <2>2, StoredSame
  <2>4. req'[j] = req[j] /\ refs'[j] = refs[j]
    BY <2>1
  <2>5. InstanceInv(j)'
    BY <1>1, <1>3, <1>4, <2>3, <2>4, Frame
  <2>6. \A k \in Instances : k # j => Same(k) /\ req'[k] = req[k] /\ refs'[k] = refs[k]
    BY <1>3, <2>1
  <2>7. QED
    BY <1>1, <1>2, <1>3, <2>2, <2>5, <2>6, OneInstance
<1>6. CASE s # NoSel
  <2>1. /\ s \in Selections /\ loads' \in 0 .. MaxLoads
        /\ refs' = [refs EXCEPT ![j] = FreshRefs(j, s)]
        /\ req' = [req EXCEPT ![j] = Request(s)]
    BY <1>1, <1>6, SizeFacts DEF Open, Load, PageTypeOK
  <2>2. refs' \in [Instances -> Refs] /\ req' \in [Instances -> Req]
    BY <1>1, <2>1, FreshFacts, RequestFacts DEF PageTypeOK
  <2>3. PageTypeOK' /\ RoomInv'
    BY <1>1, <1>2, <2>1, <2>2 DEF PageTypeOK, RoomInv, backend, view
  <2>4. /\ req'[j] = Request(s) /\ refs'[j].active = s /\ refs'[j].timer = NoSel
    BY <1>1, <2>1, FreshFacts DEF PageTypeOK
  <2>5. j <= opened'
    BY <1>1, <1>2
  <2>6. InstanceInv(j)'
    BY <1>1, <1>3, <1>4, <2>1, <2>4, <2>5, Loaded
  <2>7. \A k \in Instances : k # j => Same(k) /\ req'[k] = req[k] /\ refs'[k] = refs[k]
    BY <1>1, <1>3, <2>1 DEF PageTypeOK
  <2>8. QED
    BY <1>1, <1>2, <1>3, <2>3, <2>6, <2>7, OneInstance
<1>7. QED
  BY <1>5, <1>6

LEMMA LeaveKeeps ==
  ASSUME PageIInv, Leave
  PROVE  PageIInv'
<1>1. /\ PageTypeOK /\ live \in Instances /\ opened < MaxInstances /\ live' = NoInstance
      /\ opened \in Nat /\ opened <= opened
      /\ UNCHANGED <<backend, opened, loads, req, export>>
  BY SizeFacts DEF PageIInv, PageTypeOK, Leave, Instances, NoInstance
<1>2. /\ selection' = [selection EXCEPT ![live] = NoSel]
      /\ shown' = [shown EXCEPT ![live] = NoPoints]
      /\ error' = [error EXCEPT ![live] = FALSE]
  BY DEF Leave
<1> DEFINE x == IF req[live] = Idle THEN NoRefs ELSE [refs[live] EXCEPT !.timer = NoSel]
<1>3. refs' = [refs EXCEPT ![live] = x]
  BY DEF Leave
<1>4. /\ x \in Refs /\ x.timer = NoSel /\ (req[live] # Idle => x.active = refs[live].active)
  BY <1>1, TimerChange, Empties DEF PageTypeOK, Chosen
<1> HIDE DEF x
<1>5. /\ selection' \in [Instances -> Chosen] /\ shown' \in [Instances -> Points]
      /\ error' \in [Instances -> BOOLEAN] /\ refs' \in [Instances -> Refs]
  BY <1>1, <1>2, <1>3, <1>4, Empties DEF PageTypeOK, Chosen
<1>6. PageTypeOK' /\ RoomInv'
  BY <1>1, <1>5 DEF PageTypeOK, RoomInv, NoInstance, backend
<1>7. InstanceInv(live) /\ stored' = stored /\ req' = req
  BY <1>1 DEF PageIInv, backend
<1>8. /\ shown'[live] = NoPoints /\ refs'[live] = x
  BY <1>1, <1>2, <1>3 DEF PageTypeOK
<1> DEFINE i == live
<1>9. i \in Instances /\ InstanceInv(i) /\ shown'[i] = NoPoints /\ refs'[i] = x
      /\ req'[i] = req[i] /\ (req[i] # Idle => x.active = refs[i].active)
      /\ \A k \in Instances : k # i => Same(k) /\ req'[k] = req[k] /\ refs'[k] = refs[k]
  BY <1>1, <1>2, <1>3, <1>4, <1>7, <1>8 DEF PageTypeOK, Same
<1>10. live = i
  OBVIOUS
<1>11. ASSUME NEW k \in Instances PROVE InstanceInv(k)'
  <2>1. CASE k = i
    BY <1>1, <1>4, <1>7, <1>9, <2>1 DEF InstanceInv
  <2>2. CASE k # i
    <3>1. InstanceInv(k) /\ Same(k) /\ req'[k] = req[k] /\ refs'[k] = refs[k] /\ k # live
      BY <1>9, <1>10, <2>2 DEF PageIInv
    <3>2. ShownFits(k)
      BY <3>1 DEF ShownFits, Same, InstanceInv
    <3>3. Grows
      BY <1>1, <1>6, <1>7, StoredSame
    <3>4. QED
      BY <1>1, <3>1, <3>2, <3>3, Frame
  <2>3. QED
    BY <2>1, <2>2
<1>12. QED
  BY <1>6, <1>11 DEF PageIInv

(* A request for s made by the instance i, with a new state of its refs.   *)
LEMMA AsksKeeps ==
  ASSUME PageIInv, NEW i \in Instances, NEW s \in Selections, NEW x \in Refs,
         x.active = s, x.timer = NoSel, i <= opened, loads' \in 0 .. MaxLoads,
         refs' = [refs EXCEPT ![i] = x], req' = [req EXCEPT ![i] = Request(s)],
         UNCHANGED <<backend, route, view, export>>
  PROVE  PageIInv'
<1>1. PageTypeOK /\ RoomInv /\ InstanceInv(i) /\ opened \in Nat
  BY SizeFacts DEF PageIInv, PageTypeOK
<1>2. /\ UNCHANGED <<stored, cached, opened, live, selection, shown, error, export>>
      /\ \A k \in Instances : Same(k)
  BY DEF backend, route, view, Same
<1>3. refs' \in [Instances -> Refs] /\ req' \in [Instances -> Req]
  BY <1>1, RequestFacts DEF PageTypeOK
<1>4. PageTypeOK' /\ RoomInv'
  BY <1>1, <1>2, <1>3 DEF PageTypeOK, RoomInv
<1>5. req'[i] = Request(s) /\ refs'[i].active = s /\ refs'[i].timer = NoSel /\ i <= opened'
  BY <1>1, <1>2 DEF PageTypeOK
<1>6. ShownFits(i)
  BY <1>1, <1>2 DEF ShownFits, Same, InstanceInv
<1>7. InstanceInv(i)'
  BY <1>1, <1>2, <1>5, <1>6, Loaded
<1>8. \A k \in Instances : k # i => Same(k) /\ req'[k] = req[k] /\ refs'[k] = refs[k]
  BY <1>1, <1>2 DEF PageTypeOK
<1>9. opened <= opened' /\ live' = live
  BY <1>1, <1>2
<1>10. QED
  BY <1>2, <1>4, <1>7, <1>8, <1>9, OneInstance

LEMMA SubmitKeeps ==
  ASSUME PageIInv, NEW s \in Selections, Submit(s)
  PROVE  PageIInv'
<1> PICK i \in Instances : i = live /\ i <= opened
  BY SizeFacts DEF PageIInv, PageTypeOK, Submit, Instances, NoInstance
<1>1. /\ refs' = [refs EXCEPT ![i] = FreshRefs(i, s)]
      /\ req' = [req EXCEPT ![i] = Request(s)]
      /\ UNCHANGED <<backend, route, view, export>>
  BY DEF Submit, Load
<1>2. loads' \in 0 .. MaxLoads
  BY SizeFacts DEF PageIInv, PageTypeOK, Submit
<1>3. QED
  BY <1>1, <1>2, FreshFacts, AsksKeeps

(* The timer is that of the selection loaded last.                         *)
LEMMA TimerKeeps ==
  ASSUME PageIInv, NEW i \in Instances, TimerFires(i)
  PROVE  PageIInv'
<1>1. /\ PageTypeOK /\ refs[i] \in Refs /\ refs[i].timer # NoSel
      /\ refs[i].timer = refs[i].active /\ i <= opened
  BY DEF PageIInv, PageTypeOK, TimerFires, InstanceInv
<1>2. refs[i].timer \in Selections
  BY <1>1 DEF Refs, Chosen
<1> DEFINE s == refs[i].timer
           x == [refs[i] EXCEPT !.timer = NoSel]
<1>3. x \in Refs /\ x.active = s /\ x.timer = NoSel
  BY <1>1, TimerChange DEF Chosen
<1>4. /\ refs' = [refs EXCEPT ![i] = x] /\ req' = [req EXCEPT ![i] = Request(s)]
      /\ UNCHANGED <<backend, route, view, export>> /\ loads' \in 0 .. MaxLoads
  BY <1>1 DEF TimerFires, PageTypeOK
<1> PICK q \in Selections : q = s
  BY <1>2
<1> HIDE DEF x
<1> PICK y \in Refs : y = x
  BY <1>3
<1>5. y.active = q /\ y.timer = NoSel
  BY <1>3
<1>6. refs' = [refs EXCEPT ![i] = y] /\ req' = [req EXCEPT ![i] = Request(q)]
  BY <1>4
<1>7. QED
  BY <1>1, <1>4, <1>5, <1>6, AsksKeeps

(* A request that is over leaves the refs of the selection it was for.     *)
LEMMA EndsKeeps ==
  ASSUME PageIInv, NEW i \in Instances, req[i] # Idle, NEW x \in Refs,
         x.timer # NoSel => x.timer = x.active,
         refs' = [refs EXCEPT ![i] = x], req' = [req EXCEPT ![i] = Idle],
         UNCHANGED <<backend, route, loads, export>>,
         NEW s \in Chosen, NEW z \in Points, NEW e \in BOOLEAN, z # NoPoints => z.sel = s,
         IF live = i THEN /\ selection' = [selection EXCEPT ![i] = s]
                          /\ shown' = [shown EXCEPT ![i] = z]
                          /\ error' = [error EXCEPT ![i] = e]
                     ELSE UNCHANGED view
  PROVE  PageIInv'
<1>1. PageTypeOK /\ RoomInv /\ InstanceInv(i) /\ opened \in Nat /\ i <= opened
  BY SizeFacts DEF PageIInv, PageTypeOK, InstanceInv
<1>2. UNCHANGED <<stored, cached, opened, live, loads, export>>
  BY DEF backend, route
<1>3. refs' \in [Instances -> Refs] /\ req' \in [Instances -> Req]
  BY <1>1, Empties DEF PageTypeOK
<1>4. /\ selection' \in [Instances -> Chosen] /\ shown' \in [Instances -> Points]
      /\ error' \in [Instances -> BOOLEAN]
  BY <1>1 DEF PageTypeOK, view
<1>5. PageTypeOK' /\ RoomInv'
  BY <1>1, <1>2, <1>3, <1>4 DEF PageTypeOK, RoomInv
<1>6. req'[i] = Idle /\ refs'[i] = x /\ i <= opened'
  BY <1>1, <1>2 DEF PageTypeOK
<1>7. ShownFits(i)
  <2>1. CASE live = i
    BY <1>1, <1>2, <2>1 DEF ShownFits, PageTypeOK
  <2>2. CASE live # i
    BY <1>1, <1>2, <2>2 DEF ShownFits, InstanceInv, view
  <2>3. QED
    BY <2>1, <2>2
<1>8. InstanceInv(i)'
  BY <1>6, <1>7, Rested
<1>9. \A k \in Instances : k # i => Same(k) /\ req'[k] = req[k] /\ refs'[k] = refs[k]
  BY <1>1 DEF PageTypeOK, Same, view
<1>10. opened <= opened' /\ live' = live
  BY <1>1, <1>2
<1>11. QED
  BY <1>2, <1>5, <1>8, <1>9, <1>10, OneInstance

LEMMA AnswerKeeps ==
  ASSUME PageIInv, NEW i \in Instances, Answer(i)
  PROVE  PageIInv'
<1>1. /\ PageTypeOK /\ InstanceInv(i) /\ req[i] \in Req /\ req[i] # Idle
  BY Empties DEF PageIInv, PageTypeOK, Answer
<1> PICK x \in Refs : x = RefsAfter(i, req[i]) /\ (x.timer # NoSel => x.timer = x.active)
  BY <1>1, AfterFacts
<1> PICK s \in Chosen, n \in 0 .. MaxPoints : s = req[i].sel /\ n = req[i].count
  BY <1>1, ReqFields
<1> DEFINE z == [sel |-> s, count |-> n]
<1>2. z \in Points /\ z.sel = s
  BY DEF Points
<1>3. /\ refs' = [refs EXCEPT ![i] = x] /\ req' = [req EXCEPT ![i] = Idle]
      /\ UNCHANGED <<backend, route, loads, export>>
  BY DEF Answer, route
<1>4. IF live = i THEN /\ selection' = [selection EXCEPT ![i] = s]
                       /\ shown' = [shown EXCEPT ![i] = z]
                       /\ error' = [error EXCEPT ![i] = FALSE]
                  ELSE UNCHANGED view
  BY DEF Answer, Show
<1> HIDE DEF z
<1> PICK w \in Points : w = z
  BY <1>2
<1>5. IF live = i THEN /\ selection' = [selection EXCEPT ![i] = s]
                       /\ shown' = [shown EXCEPT ![i] = w]
                       /\ error' = [error EXCEPT ![i] = FALSE]
                  ELSE UNCHANGED view
  BY <1>4
<1>6. w # NoPoints => w.sel = s
  BY <1>2
<1>7. QED
  BY <1>1, <1>3, <1>5, <1>6, EndsKeeps

LEMMA FailsKeeps ==
  ASSUME PageIInv, NEW i \in Instances, LoadFails(i)
  PROVE  PageIInv'
<1>1. PageTypeOK /\ req[i] # Idle /\ selection[i] \in Chosen
  BY Empties DEF PageIInv, PageTypeOK, LoadFails
<1> PICK x \in Refs : x = StopRetrying(i) /\ x.timer = NoSel
  BY <1>1, StopFacts
<1> PICK s \in Chosen : s = selection[i]
  BY <1>1
<1>2. /\ refs' = [refs EXCEPT ![i] = x] /\ req' = [req EXCEPT ![i] = Idle]
      /\ UNCHANGED <<backend, route, loads, export>>
  BY DEF LoadFails
<1>3. IF live = i THEN /\ selection' = [selection EXCEPT ![i] = s]
                       /\ shown' = [shown EXCEPT ![i] = NoPoints]
                       /\ error' = [error EXCEPT ![i] = TRUE]
                  ELSE UNCHANGED view
  <2>1. selection' = selection /\ selection = [selection EXCEPT ![i] = s]
    BY <1>1 DEF LoadFails, PageTypeOK
  <2>2. QED
    BY <2>1 DEF LoadFails, view
<1>4. QED
  BY <1>1, <1>2, <1>3, Empties, EndsKeeps

(* The page was left: the instance j that appears asks for what i asked.   *)
LEMMA BringsKeeps ==
  ASSUME PageIInv, NEW i \in Instances, AnswerBringsBack(i)
  PROVE  PageIInv'
<1>1. /\ PageTypeOK /\ RoomInv /\ InstanceInv(i) /\ req[i] \in Req /\ req[i] # Idle
      /\ live = NoInstance /\ opened \in Nat /\ i <= opened /\ i \in Nat
  BY Empties, SizeFacts DEF PageIInv, PageTypeOK, AnswerBringsBack, InstanceInv, Instances
<1>2. opened < MaxInstances
  BY <1>1 DEF RoomInv, Instances
<1> PICK j \in Instances : j = opened + 1
  BY <1>1, <1>2, SizeFacts DEF Instances
<1>3. /\ j # i /\ j \in 0 .. MaxInstances /\ j # NoInstance
      /\ opened <= j /\ j \in 0 .. j /\ j <= j /\ i <= j
  BY <1>1, <1>2, SizeFacts DEF Instances, NoInstance
<1> PICK x \in Refs : x = RefsAfter(i, req[i]) /\ (x.timer # NoSel => x.timer = x.active)
  BY <1>1, AfterFacts
<1> PICK s \in Selections : s = req[i].sel
  BY <1>1 DEF InstanceInv
<1> PICK y \in Refs : y = FreshRefs(j, s) /\ y.active = s /\ y.timer = NoSel
  BY FreshFacts
<1>4. /\ refs' = [refs EXCEPT ![i] = x, ![j] = y]
      /\ req' = [req EXCEPT ![i] = Idle, ![j] = Request(s)]
      /\ opened' = j /\ live' = j /\ UNCHANGED <<backend, loads, view, export>>
  BY DEF AnswerBringsBack
<1>5. Request(s) \in Req
  BY <1>1, RequestFacts
<1>6. /\ refs' \in [Instances -> Refs] /\ refs'[i] = x /\ refs'[j] = y
      /\ \A k \in Instances : k # i /\ k # j => refs'[k] = refs[k]
  BY <1>1, <1>3, <1>4 DEF PageTypeOK
<1>7. /\ req' \in [Instances -> Req] /\ req'[i] = Idle /\ req'[j] = Request(s)
      /\ \A k \in Instances : k # i /\ k # j => req'[k] = req[k]
  BY <1>1, <1>3, <1>4, <1>5, Empties DEF PageTypeOK
<1>8. /\ UNCHANGED <<stored, cached, loads, selection, shown, error, export>>
      /\ \A k \in Instances : Same(k)
  BY <1>4 DEF backend, view, Same
<1>9. PageTypeOK' /\ RoomInv'
  BY <1>1, <1>3, <1>4, <1>6, <1>7, <1>8 DEF PageTypeOK, RoomInv
<1>10. ASSUME NEW k \in Instances PROVE InstanceInv(k)'
  <2>1. InstanceInv(k) /\ k # live
    BY <1>1 DEF PageIInv, Instances, NoInstance
  <2>2. ShownFits(k)
    BY <1>8, <2>1 DEF ShownFits, Same, InstanceInv
  <2>3. CASE k = i
    <3>1. req'[k] = Idle /\ refs'[k] = x /\ k <= opened'
      BY <1>3, <1>4, <1>6, <1>7, <2>3
    <3>2. QED
      BY <2>2, <3>1, Rested
  <2>4. CASE k = j
    <3>1. /\ req'[k] = Request(s) /\ refs'[k].active = s /\ refs'[k].timer = NoSel
          /\ k <= opened' /\ stored' = stored
      BY <1>3, <1>4, <1>6, <1>7, <1>8, <2>4
    <3>2. QED
      BY <1>1, <2>2, <3>1, Loaded
  <2>5. CASE k # i /\ k # j
    <3>1. Grows
      BY <1>1, <1>3, <1>4, <1>8, <1>9, StoredSame
    <3>2. req'[k] = req[k] /\ refs'[k] = refs[k]
      BY <1>6, <1>7, <2>5
    <3>3. QED
      BY <1>1, <2>1, <2>2, <3>1, <3>2, Frame
  <2>6. QED
    BY <2>3, <2>4, <2>5
<1>11. QED
  BY <1>9, <1>10 DEF PageIInv

(* An export reads only.                                                   *)
LEMMA ExportKeeps ==
  ASSUME PageIInv, NEW i \in Instances, StartExport(i) \/ ExportEnds(i)
  PROVE  PageIInv'
<1>1. PageTypeOK /\ selection[i] \in Chosen /\ error[i] \in BOOLEAN
  BY DEF PageIInv, PageTypeOK
<1>2. UNCHANGED <<backend, route, loads, selection, shown, refs, req>>
  BY DEF StartExport, ExportEnds
<1>3. export' \in [Instances -> Chosen]
  <2>1. \E s \in Chosen : export' = [export EXCEPT ![i] = s]
    BY <1>1 DEF StartExport, ExportEnds, Chosen
  <2>2. QED
    BY <1>1, <2>1 DEF PageTypeOK
<1>4. error' \in [Instances -> BOOLEAN]
  <2>1. error' = error \/ \E e \in BOOLEAN : error' = [error EXCEPT ![i] = e]
    BY <1>1 DEF StartExport, ExportEnds
  <2>2. QED
    BY <1>1, <2>1 DEF PageTypeOK
<1>5. UNCHANGED <<stored, cached, opened, live, loads, selection, shown, refs, req>>
  BY <1>2 DEF backend, route
<1>6. PageTypeOK' /\ RoomInv'
  BY <1>1, <1>3, <1>4, <1>5 DEF PageIInv, PageTypeOK, RoomInv
<1>7. \A k \in Instances : InstanceInv(k)'
  BY <1>5 DEF PageIInv, InstanceInv
<1>8. QED
  BY <1>6, <1>7 DEF PageIInv

-----------------------------------------------------------------------------
LEMMA PageInvNext == PageIInv /\ [PageNext]_pageVars => PageIInv'
<1> SUFFICES ASSUME PageIInv, [PageNext]_pageVars PROVE PageIInv'
  OBVIOUS
<1>1. CASE UNCHANGED pageVars
  BY <1>1 DEF pageVars, backend, route, view, PageIInv, PageTypeOK, RoomInv, InstanceInv
<1>2. ASSUME NEW s \in Selections, Flush(s) \/ Expire(s) PROVE PageIInv'
  BY <1>2, ServerKeeps
<1>3. ASSUME NEW s \in Selections, Submit(s) PROVE PageIInv'
  BY <1>3, SubmitKeeps
<1>4. ASSUME NEW s \in Selections \cup {NoSel}, Open(s) PROVE PageIInv'
  BY <1>4, OpenKeeps
<1>5. ASSUME NEW i \in Instances, Serves(i) PROVE PageIInv'
  BY <1>5, ServesKeeps
<1>6. ASSUME NEW i \in Instances, TimerFires(i) PROVE PageIInv'
  BY <1>6, TimerKeeps
<1>7. ASSUME NEW i \in Instances, Settle(i) PROVE PageIInv'
  BY <1>7, AnswerKeeps, BringsKeeps DEF Settle
<1>8. ASSUME NEW i \in Instances, LoadFails(i) PROVE PageIInv'
  BY <1>8, FailsKeeps
<1>9. ASSUME NEW i \in Instances, StartExport(i) \/ ExportEnds(i) PROVE PageIInv'
  BY <1>9, ExportKeeps
<1>10. CASE Leave
  BY <1>10, LeaveKeeps
<1>11. QED
  BY <1>1, <1>2, <1>3, <1>4, <1>5, <1>6, <1>7, <1>8, <1>9, <1>10 DEF PageNext

LEMMA PageInvCorrect == PageSpec => []PageIInv
<1>1. QED
  BY PageInvInit, PageInvNext, PTL DEF PageSpec

(* The variables keep their types: no empty answer is ever in the cache,   *)
(* and the retries never pass their limit (handleHistory, scheduleRetry).  *)
THEOREM PageTypes == PageSpec => []PageTypeOK
<1>1. PageIInv => PageTypeOK
  BY DEF PageIInv
<1>2. QED
  BY PageInvCorrect, <1>1, PTL

(* However often the page is left and brought back by a late answer, what  *)
(* it shows is of the selection it shows it under, and a retry is pending  *)
(* only for the selection loaded last (loadHistory and onSuccess of        *)
(* HistoryWorkspace).                                                      *)
THEOREM ShownIsOfSelection == PageSpec => []ShownIsSelected
<1>1. PageIInv => ShownIsSelected
  BY DEF PageIInv, InstanceInv, ShownIsSelected
<1>2. QED
  BY PageInvCorrect, <1>1, PTL

(* An empty answer is given only where nothing was stored when the page    *)
(* asked, whatever the cache held (handleHistory).                         *)
THEOREM NothingMeansNothing == PageSpec => []EmptyIsTrue
<1>1. PageIInv => EmptyIsTrue
  <2>1. ASSUME PageIInv, NEW p \in Instances, req[p].stage = "answered", req[p].count = 0
        PROVE  req[p].known = 0
    BY <2>1, Empties DEF PageIInv, InstanceInv
  <2>2. QED
    BY <2>1 DEF EmptyIsTrue
<1>2. QED
  BY PageInvCorrect, <1>1, PTL
=============================================================================
