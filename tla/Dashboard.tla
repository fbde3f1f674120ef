------------------------------ MODULE Dashboard ------------------------------
(***************************************************************************)
(* One tab of the dashboard with its two pages about alert rules: the page *)
(* that edits them (AlertRulesWorkspace) and the overview                  *)
(* (OverviewWorkspace), over the query cache they share and the server     *)
(* they ask.  The user is signed in and not in demo mode.                  *)
(*                                                                         *)
(* Nobody else edits the rules; probes of this user run elsewhere, in      *)
(* another tab or from the command line, are flushed to the history in     *)
(* order and make the server evaluate the rules (AlertRules).  Samples of  *)
(* another tab of the browser reach the overview while it is open.         *)
(*                                                                         *)
(* The query ["alert-rules"] is modelled with its request in flight; the   *)
(* queries of the recent targets and of the histories answer in one step   *)
(* with what a request made before may have read.  Notices and the         *)
(* fields of a rule that no evaluation and no view reads are left out.     *)
(***************************************************************************)
EXTENDS OverviewView

CONSTANTS
  Targets,     \* protocol, host and port of what is probed
  MaxRules,    \* bound: rules ever created
  MaxWrites,   \* bound: saves and deletions under way at once
  MaxLive,     \* samples kept by the overview; 96 in the code
  Mixes        \* bounds: what a behaviour may have.  Each is a record of its
               \* targets, the rules at first, what they are of (ruled) and
               \* the states they may be in (alerts), the saves and
               \* deletions, the samples, the changes of the page or the
               \* tab, and the requests and answers lost

Mix == [targets : SUBSET Targets, ruled : SUBSET Targets, alerts : SUBSET BOOLEAN,
        rules : 0 .. MaxRules, writes : Nat, probes : Nat, moves : Nat, faults : Nat]

ASSUME BoundAssumption ==
  {MaxRules, MaxWrites, MaxLive} \subseteq Nat /\ Mixes \subseteq Mix

Ids == 1 .. MaxRules
Slots == 1 .. MaxWrites

VARIABLES
  rules,       \* of each id: {} or {the row of alert_rules}
  created,     \* ids given so far
  probes,      \* samples, in the order of their time
  flushed,     \* how many of them are in the table
  page,        \* "alerts", "overview" or "away"
  hidden,      \* the user looks at another tab
  query,       \* the query ["alert-rules"]
  recent,      \* what ["recent-history-targets"] was read from: as flushed
  history,     \* the same of ["overview-history", target]
  liveSamples, \* of the overview
  editing,     \* editingRule: {} or {a rule as it was listed}
  deletingRuleId,
  writes,      \* runs of saveAlertRuleMutation and deleteAlertRuleMutation
  left,        \* what is left of the mix
  missed       \* the list was read before a change it was not told of

server == <<rules, created, probes, flushed>>
overview == <<recent, history, liveSamples>>
form == <<editing, deletingRuleId, writes>>
vars == <<server, page, hidden, query, overview, form, left, missed>>

NoRule == 0
Rule(i, t, e, a) == [id |-> i, target |-> t, enabled |-> e, alert |-> a]

(* ListAlertRules: newest first; the ids grow with created_at.             *)
ListAlertRules ==
  FoldLeft(LAMBDA list, i :
             list \o SetToSeq(rules[MaxRules + 1 - i]), <<>>,
           [i \in Ids |-> i])

\* gone: the page that runs it was left.  frozen: a later deletion took its
\* place, its callbacks keep the state of that moment; clears: what they
\* then found of the rule that is edited.
NoWrite == [op |-> "none", stage |-> "none", id |-> NoRule, target |-> NoRule,
            enabled |-> FALSE, gone |-> FALSE, frozen |-> FALSE, clears |-> FALSE]

Init ==
  /\ left \in Mixes
  /\ created = left.rules
  /\ \E t \in [1 .. created -> left.ruled], e \in [1 .. created -> BOOLEAN],
        a \in [1 .. created -> left.alerts] :
       rules = [i \in Ids |->
                  IF i > created THEN {} ELSE {Rule(i, t[i], e[i], a[i])}]
  /\ probes = <<>> /\ flushed = 0
  /\ page = "away" /\ hidden = FALSE
  /\ query = [data |-> {}, status |-> "pending", invalid |-> FALSE,
              stage |-> "none", answer |-> <<>>, failures |-> 0]
  /\ recent = 0 /\ history = [t \in Targets |-> 0] /\ liveSamples = <<>>
  /\ editing = {} /\ deletingRuleId = NoRule
  /\ writes = [w \in Slots |-> NoWrite]
  /\ missed = FALSE

(* ------------------------------ the server ---------------------------- *)
Probe(t, error) ==
  /\ left.probes > 0 /\ left' = [left EXCEPT !.probes = @ - 1]
  /\ probes' = Append(probes, [target |-> t, error |-> error])
  /\ UNCHANGED <<rules, created, flushed, page, hidden, query, overview, form,
                 missed>>

Flush ==
  /\ flushed < Len(probes)
  /\ \E n \in flushed + 1 .. Len(probes) : flushed' = n
  /\ UNCHANGED <<rules, created, probes, page, hidden, query, overview, form,
                 left, missed>>

(* EvaluateAlertRules at the end of a run of t: each enabled rule of the   *)
(* target compares the run with its own thresholds.                        *)
Evaluate(t) ==
  /\ \E i \in DOMAIN probes : probes[i].target = t
  /\ \E breached \in SUBSET Ids :
       rules' = [i \in Ids |->
                  {IF r.target = t /\ r.enabled
                   THEN [r EXCEPT !.alert = i \in breached] ELSE r : r \in rules[i]}]
  /\ UNCHANGED <<created, probes, flushed, page, hidden, query, overview, form,
                 left, missed>>

(* --------------------- the query ["alert-rules"] ---------------------- *)
active == page # "away"
HasData == query.data # {}

Fetch == [query EXCEPT !.stage = "sent", !.answer = <<>>, !.failures = 0,
                       !.status = IF HasData THEN @ ELSE "pending"]

(* The pages ask when they appear, unless what they have is fresh.         *)
Show(p) ==
  /\ page # p /\ ~hidden /\ left.moves > 0
  /\ left' = [left EXCEPT !.moves = @ - 1]
  /\ page' = p
  /\ \/ /\ p # "away" /\ query.stage = "none"
        /\ query' = Fetch /\ missed' = FALSE
     \/ /\ p = "away" \/ query.stage # "none" \/ (HasData /\ ~query.invalid)
        /\ UNCHANGED <<query, missed>>
  \* the state of the page that is left is gone, what it asked for goes on
  /\ editing' = {} /\ deletingRuleId' = NoRule
  /\ writes' = [w \in Slots |->
                 IF writes[w] = NoWrite THEN NoWrite
                 ELSE [writes[w] EXCEPT !.gone = TRUE, !.frozen = TRUE,
                                        !.clears = FALSE]]
  /\ liveSamples' = <<>>
  /\ UNCHANGED <<server, hidden, recent, history>>

(* refetchInterval of the overview, which does nothing in a hidden tab:     *)
(* refetchIntervalInBackground is not set.                                 *)
Interval ==
  /\ page = "overview" /\ ~hidden /\ query.stage = "none"
  /\ query' = Fetch /\ missed' = FALSE
  /\ UNCHANGED <<server, page, hidden, overview, form, left>>

ServerLists ==
  /\ query.stage = "sent"
  /\ query' = [query EXCEPT !.stage = "read", !.answer = ListAlertRules]
  /\ UNCHANGED <<server, page, hidden, overview, form, left, missed>>

\* The runs of the mutations in S are over: onSettled of a deletion, and
\* the end of isPending.
Over(S) ==
  /\ writes' = [w \in Slots |-> IF w \in S THEN NoWrite ELSE writes[w]]
  /\ deletingRuleId' = IF \E w \in S : writes[w].op = "delete" /\ ~writes[w].gone
                       THEN NoRule ELSE deletingRuleId

\* the runs whose onSuccess awaits the request of the list
Settling == {w \in Slots : writes[w].stage = "settling"}

ListArrives ==
  /\ query.stage = "read"
  /\ query' = [query EXCEPT !.stage = "none", !.data = {query.answer},
                            !.answer = <<>>, !.failures = 0,
                            !.status = "success", !.invalid = FALSE]
  /\ Over(Settling)
  /\ UNCHANGED <<server, page, hidden, overview, editing, left, missed>>

(* retry: 1, unless nobody watches the query any more.  In a hidden tab the *)
(* retry waits.                                                            *)
Retry == [Fetch EXCEPT !.failures = 1, !.stage = IF hidden THEN "paused" ELSE @]
ListFails ==
  /\ query.stage \in {"sent", "read"}
  /\ left.faults > 0 /\ left' = [left EXCEPT !.faults = @ - 1]
  /\ IF query.failures = 0 /\ active
     THEN query' = Retry /\ UNCHANGED <<writes, deletingRuleId>>
     ELSE /\ query' = [query EXCEPT !.stage = "none", !.answer = <<>>,
                                    !.failures = 0, !.status = "error"]
          /\ Over(Settling)
  /\ UNCHANGED <<server, page, hidden, overview, editing, missed>>

(* The user turns to another tab, and back.                                *)
Hide ==
  /\ ~hidden /\ hidden' = TRUE
  /\ left.moves > 0 /\ left' = [left EXCEPT !.moves = @ - 1]
  /\ UNCHANGED <<server, page, query, overview, form, missed>>

Reveal ==
  /\ hidden /\ hidden' = FALSE
  /\ query' = [query EXCEPT !.stage = IF @ = "paused" THEN "sent" ELSE @]
  /\ UNCHANGED <<server, page, overview, form, left, missed>>

(* invalidateQueries: the query of an open page is asked again; a request  *)
(* in flight is given up for that, unless it is the first one.             *)
InvalidateJoining ==
  /\ query' = IF active /\ query.stage = "none" THEN [Fetch EXCEPT !.invalid = TRUE]
              ELSE [query EXCEPT !.invalid = TRUE]
  /\ missed' = missed

Refetches == active /\ (query.stage = "none" \/ HasData)
Invalidate ==
  /\ query' = [(IF Refetches THEN Fetch ELSE query) EXCEPT !.invalid = TRUE]
  /\ missed' = IF Refetches THEN FALSE ELSE missed \/ query.stage = "read"

(* --------------------------- the rules page --------------------------- *)
Listed == page = "alerts" /\ query.status = "success"
Used == page = "alerts" /\ ~hidden
Rules == UNION {{list[i] : i \in DOMAIN list} : list \in query.data}

EditedId == IF editing = {} THEN NoRule ELSE (CHOOSE r \in editing : TRUE).id
Saving == \E w \in Slots : writes[w].op = "save" /\ ~writes[w].gone

Edit(r) ==
  /\ Used /\ Listed /\ r \in Rules /\ editing # {r}
  /\ editing' = {r}
  /\ UNCHANGED <<server, page, hidden, query, overview, deletingRuleId, writes,
                 left, missed>>

CancelEdit ==
  /\ Used /\ editing # {} /\ ~Saving
  /\ editing' = {}
  /\ UNCHANGED <<server, page, hidden, query, overview, deletingRuleId, writes,
                 left, missed>>

\* the first free slot
Free(w) ==
  writes[w] = NoWrite /\ \A v \in 1 .. w - 1 : writes[v] # NoWrite

\* the rules that are still to be created
Inserting ==
  {w \in Slots : /\ writes[w].op = "save" /\ writes[w].id = NoRule
                 /\ writes[w].stage = "sent"}

(* The form is submitted; it carries the id of the rule that is edited.    *)
Submit(w, t, e) ==
  /\ Used /\ ~Saving /\ Free(w)
  /\ EditedId = NoRule => created + Cardinality(Inserting) < MaxRules
  /\ left.writes > 0 /\ left' = [left EXCEPT !.writes = @ - 1]
  /\ writes' = [writes EXCEPT ![w] =
       [NoWrite EXCEPT !.op = "save", !.stage = "sent", !.id = EditedId,
                       !.target = t, !.enabled = e]]
  /\ UNCHANGED <<server, page, hidden, query, overview, editing,
                 deletingRuleId, missed>>

(* mutate of deleteAlertRuleMutation, which now shows this run.            *)
ClearsEdit(w) ==
  IF writes[w].frozen THEN writes[w].clears
  ELSE editing # {} /\ deletingRuleId = EditedId

Freeze(v) ==
  IF writes[v].op # "delete" \/ writes[v].frozen THEN writes[v]
  ELSE [writes[v] EXCEPT !.frozen = TRUE, !.clears = ClearsEdit(v)]

Delete(w, r) ==
  /\ Used /\ Listed /\ r \in Rules /\ deletingRuleId # r.id /\ Free(w)
  /\ writes' = [v \in Slots |->
       IF v = w THEN [NoWrite EXCEPT !.op = "delete", !.stage = "sent", !.id = r.id]
       ELSE Freeze(v)]
  /\ deletingRuleId' = r.id
  /\ left.writes > 0 /\ left' = [left EXCEPT !.writes = @ - 1]
  /\ UNCHANGED <<server, page, hidden, query, overview, editing, missed>>

(* SaveAlertRule: INSERT, or UPDATE of the row if it is still there; the   *)
(* state of the evaluation stays.  DeleteAlertRule.                        *)
Applied(w) == writes' = [writes EXCEPT ![w].stage = "applied"]

ServerInserts(w) ==
  /\ writes[w].op = "save" /\ writes[w].id = NoRule
  /\ created' = created + 1
  /\ rules' = [rules EXCEPT ![created + 1] =
       {Rule(created + 1, writes[w].target, writes[w].enabled, FALSE)}]
  /\ Applied(w)

ServerUpdates(w) ==
  /\ writes[w].op = "save" /\ writes[w].id # NoRule /\ rules[writes[w].id] # {}
  /\ rules' = [rules EXCEPT ![writes[w].id] =
       {[r EXCEPT !.target = writes[w].target, !.enabled = writes[w].enabled] :
          r \in @}]
  /\ Applied(w)
  /\ UNCHANGED created

ServerDeletes(w) ==
  /\ writes[w].op = "delete" /\ rules[writes[w].id] # {}
  /\ rules' = [rules EXCEPT ![writes[w].id] = {}]
  /\ Applied(w)
  /\ UNCHANGED created

\* ErrAlertRuleNotFound
ServerRefuses(w) ==
  /\ writes[w].id # NoRule /\ rules[writes[w].id] = {}
  /\ writes' = [writes EXCEPT ![w].stage = "refused"]
  /\ UNCHANGED <<rules, created>>

ServerWrites(w) ==
  /\ writes[w].stage = "sent"
  /\ ServerInserts(w) \/ ServerUpdates(w) \/ ServerDeletes(w) \/ ServerRefuses(w)
  /\ UNCHANGED <<probes, flushed, page, hidden, query, overview, editing,
                 deletingRuleId, left, missed>>

(* onSuccess: the page that ran it may leave the form, the query is         *)
(* invalidated, and its request awaited where there is one.                *)
Awaited == active /\ query'.stage # "paused"

Succeeds(w) ==
  /\ writes[w].stage = "applied"
  /\ editing' = IF ~writes[w].gone /\ (writes[w].op = "save" \/ ClearsEdit(w))
                THEN {} ELSE editing
  /\ Invalidate
  /\ IF Awaited
     THEN /\ writes' = [writes EXCEPT ![w].stage = "settling"]
          /\ UNCHANGED deletingRuleId
     ELSE Over({w})
  /\ UNCHANGED <<server, page, hidden, overview, left>>

(* onError: the server refused, or no answer came, be it that the request  *)
(* or that the answer was lost.                                            *)
Fails(w) ==
  /\ \/ writes[w].stage = "refused" /\ UNCHANGED <<left, missed>>
     \/ /\ writes[w].stage \in {"sent", "applied"}
        /\ left.faults > 0 /\ left' = [left EXCEPT !.faults = @ - 1]
        /\ missed' = (missed \/ writes[w].stage = "applied")
  /\ Over({w})
  /\ UNCHANGED <<server, page, hidden, query, overview, editing>>

(* ------------------------------ overview ------------------------------ *)
\* the two queries of what was stored, asked every 20 s
RecentArrives ==
  /\ page = "overview"
  /\ \E n \in recent .. flushed : n # recent /\ recent' = n
  /\ UNCHANGED <<server, page, hidden, query, history, liveSamples, form, left,
                 missed>>

(* trackedRulesWithLive                                                    *)
Pick(sets) == IF sets = {} THEN <<>> ELSE CHOOSE x \in sets : TRUE
RecentTargets == uniqueAlertTargets(Reverse(SubSeq(probes, 1, recent)))
Rows ==
  Tracked(Pick(query.data),
          [i \in DOMAIN RecentTargets |-> RecentTargets[i].target], liveSamples)

(* The history of a row.  The server may answer from its cache with an     *)
(* older state than it answered before (HistoryPage).                      *)
HistoryArrives(t) ==
  /\ page = "overview" /\ \E i \in DOMAIN Rows : Rows[i].target = t
  /\ \E n \in 0 .. flushed : n # history[t] /\ history' = [history EXCEPT ![t] = n]
  /\ UNCHANGED <<server, page, hidden, query, recent, liveSamples, form, left,
                 missed>>

(* A sample reaches the page as it is taken: publishLiveTelemetry and      *)
(* subscribeLiveTelemetry.                                                  *)
Keep(samples) == IF Len(samples) > MaxLive THEN Tail(samples) ELSE samples
ProbeLive(t, error) ==
  /\ page = "overview"
  /\ left.probes > 0 /\ left' = [left EXCEPT !.probes = @ - 1]
  /\ probes' = Append(probes, [target |-> t, error |-> error])
  /\ liveSamples' = Keep(Append(liveSamples, Last(probes')))
  /\ UNCHANGED <<rules, created, flushed, page, hidden, query, recent, history,
                 form, missed>>

HistoryMap ==
  [t \in Targets |-> SelectSeq(SubSeq(probes, 1, history[t]),
                               LAMBDA s : s.target = t)]
Shown == Snapshots(Rows, HistoryMap, liveSamples)

(* --------------------------- the specification ------------------------ *)
ListQuery == ServerLists \/ ListArrives

Next ==
  \/ \E t \in left.targets :
       \/ \E b \in BOOLEAN : Probe(t, b) \/ ProbeLive(t, b)
       \/ Evaluate(t) \/ HistoryArrives(t)
       \/ \E w \in Slots, b \in BOOLEAN : Submit(w, t, b)
  \/ Flush \/ RecentArrives
  \/ \E p \in {"alerts", "overview", "away"} : Show(p)
  \/ Interval \/ ListQuery \/ ListFails \/ Hide \/ Reveal
  \/ CancelEdit
  \/ \E r \in Rules : Edit(r) \/ \E w \in Slots : Delete(w, r)
  \/ \E w \in Slots : ServerWrites(w) \/ Succeeds(w) \/ Fails(w)

Spec == Init /\ [][Next]_vars

(* The interval fires and the server answers.                              *)
FairSpec == Spec /\ WF_vars(Interval) /\ WF_vars(ListQuery)

(* ------------------------------ properties ---------------------------- *)
(* The list on the rules page has exactly the rules of the server, as they *)
(* were last saved, whenever no request of the page is under way: whatever *)
(* saves and deletions overlapped, came back in another order, or ended    *)
(* while another page was open.  Not so after a change whose answer was    *)
(* lost, and after one that met a list request which invalidation does not *)
(* repeat: the first one, and one of a page that was left.                 *)
Config(r) == [id |-> r.id, target |-> r.target, enabled |-> r.enabled]
RulesListed ==
  Listed /\ query.stage = "none" /\ ~missed
  /\ (\A w \in Slots : writes[w] = NoWrite) =>
    {Config(r) : r \in Rules} = {Config(r) : r \in UNION {rules[i] : i \in Ids}}

(* The panels agree with the rows: every row counts in one of the numbers   *)
(* and in one sector of the pie, no target that is monitored is left out of *)
(* both, and the summary is clear only when every row is stable or its      *)
(* rule disabled.                                                           *)
PanelsAgree(tracked, rows) ==
  LET kpis == buildOverviewKpis(tracked, rows)
      pie == buildOverviewHealthDistribution(rows)
      counted == kpis.critical + kpis.warning + kpis.stable
  IN /\ counted + pie["disabled"] = Len(rows)
     /\ OverviewHealthDistributionPanel(pie) = Len(rows)
     /\ kpis.trackedTargets <= counted
     /\ OverviewAlertSummary(kpis) = 0 =>
          \A i \in DOMAIN rows : rows[i].health \in {"stable", "disabled"}
     /\ Len(rows) = Cardinality({rows[i].target : i \in DOMAIN rows})

(* The overview calls a target stable only if the rule it shows it under   *)
(* is enabled and not alerting, and neither the newest point it has of the *)
(* target nor the last live sample is an error; and its panels agree with  *)
(* the rows they summarise.                                                 *)
StableMeansWell ==
  page = "overview" =>
    /\ \A i \in DOMAIN Shown :
         LET t == Shown[i].target
             live == SamplesOf(liveSamples, t)
         IN Shown[i].health = "stable" =>
              /\ Rows[i].enabled /\ ~Rows[i].alert
              /\ live # <<>> \/ HistoryMap[t] # <<>>
              /\ live # <<>> => ~Last(live).error
              /\ HistoryMap[t] # <<>> => ~Last(HistoryMap[t]).error
    /\ PanelsAgree(Rows, Shown)

(* A rule that alerts, and that is the newest one of its target, shows its *)
(* target as critical before long while the overview stays open and the    *)
(* tab is looked at, whatever live samples say of the target.  The page    *)
(* follows MaxTracked targets and prefers those of the newest rules: a rule *)
(* of any other target may alert for ever and never be seen.               *)
NewerTargets(i) == {q.target : q \in UNION {rules[j] : j \in i + 1 .. MaxRules}}
Leading(t) ==
  {r \in UNION {rules[i] : i \in Ids} :
     /\ r.target = t /\ t \notin NewerTargets(r.id)
     /\ Cardinality(NewerTargets(r.id)) < MaxTracked}
Alerting(t) ==
  page = "overview" /\ ~hidden /\ \E r \in Leading(t) : r.enabled /\ r.alert
AlertShows ==
  \A t \in Targets :
    Alerting(t) ~> \/ ~Alerting(t)
                   \/ \E i \in DOMAIN Shown :
                        Shown[i] = [target |-> t, health |-> "critical"]

(* ------------------------- inductive invariant ------------------------ *)
Row == [id : Ids, target : Targets, enabled : BOOLEAN, alert : BOOLEAN]
Point == [target : Targets, error : BOOLEAN]
Mutation == [op : {"none", "save", "delete"},
             stage : {"none", "sent", "applied", "settling", "refused"},
             id : Ids \cup {NoRule}, target : Targets \cup {NoRule},
             enabled : BOOLEAN, gone : BOOLEAN, frozen : BOOLEAN, clears : BOOLEAN]
Query == [data : SUBSET Seq(Row), status : {"pending", "success", "error"},
          invalid : BOOLEAN, stage : {"none", "sent", "read", "paused"},
          answer : Seq(Row), failures : Nat]

TypeOK ==
  /\ rules \in [Ids -> SUBSET Row] /\ created \in 0 .. MaxRules
  /\ probes \in Seq(Point) /\ flushed \in Nat /\ recent \in Nat
  /\ history \in [Targets -> Nat] /\ liveSamples \in Seq(Point)
  /\ page \in {"alerts", "overview", "away"} /\ hidden \in BOOLEAN /\ query \in Query
  /\ editing \in SUBSET Row /\ deletingRuleId \in Ids \cup {NoRule}
  /\ writes \in [Slots -> Mutation] /\ missed \in BOOLEAN
  /\ left \in Mix

(* A row has the id it is stored under; the ids of the rules that are still *)
(* to be created exist.                                                      *)
RowInv ==
  /\ \A i \in Ids : IsFiniteSet(rules[i]) /\ \A r \in rules[i] : r.id = i
  /\ created + Cardinality(Inserting) <= MaxRules
  /\ \A w \in Slots :
       /\ writes[w].op = "save" => writes[w].target \in Targets
       /\ writes[w].op = "delete" => writes[w].id \in Ids
       /\ writes[w].op = "none" <=> writes[w].stage = "none"

(* No query was read from more than is stored.                             *)
ReadInv ==
  /\ flushed <= Len(probes) /\ recent <= flushed
  /\ \A t \in Targets : history[t] <= flushed

(* What tells the page of a change.  A change is owed until the mutation   *)
(* that made it invalidates the query.  Without such a debt, an answer on   *)
(* its way is what the server has, and so is the list that is shown, unless *)
(* it is marked; and on an open page a marked list is asked for again.      *)
Owed == \E w \in Slots : writes[w].stage = "applied"
IsServers(list) ==
  {Config(r) : r \in list} = {Config(r) : r \in UNION {rules[i] : i \in Ids}}
ListInv ==
  /\ query.status = "success" => HasData
  /\ query.stage = "read" /\ ~missed /\ ~Owed
       => IsServers({query.answer[i] : i \in DOMAIN query.answer})
  /\ query.stage = "none" /\ query.status = "success" /\ ~missed /\ ~Owed
       => query.invalid \/ IsServers(Rules)
  /\ active /\ query.stage = "none" /\ query.status = "success" => ~query.invalid

IInv == TypeOK /\ RowInv /\ ReadInv /\ ListInv
=============================================================================
