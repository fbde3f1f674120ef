----------------------------- MODULE HistoryPage -----------------------------
(***************************************************************************)
(* The history page of the dashboard, HistoryWorkspace, over the handlers  *)
(* it calls: handleHistory with its cache of answers, and                  *)
(* handleHistoryExport.  Probe results reach the table some time after the *)
(* probe (ResultStore), so the page asks again when an answer is empty.    *)
(*                                                                         *)
(* The page is opened and left; every time it is opened a new instance of  *)
(* the component with its own refs and state appears.  The callbacks of a  *)
(* mutation belong to the mutation: an answer that arrives after the page  *)
(* was left still runs onSuccess of the instance that asked, which calls   *)
(* router.replace and so opens the page again.  Where the page is open,    *)
(* replace only changes the address, which an instance reads when it       *)
(* appears.  The points of a selection are told apart by their number: the *)
(* table only grows (rows leave it by retention, weeks later).             *)
(*                                                                         *)
(* The names every specification has begin with Page here, so that one     *)
(* module can extend this one and another.                                  *)
(***************************************************************************)
EXTENDS Naturals, FiniteSets

CONSTANTS
  Selections,    \* [type, host, port, limit] as buildHistoryQueryString
                 \* and historyCacheKey tell them apart
  NoSel,         \* no selection
  MaxRetries,    \* retries of an empty answer; 4 in the code
  MaxPoints,     \* bound: points stored of a selection
  MaxInstances,  \* bound: how often the page is opened
  MaxLoads       \* bound: selections loaded by the user

ASSUME SelAssumption == NoSel \notin Selections
ASSUME RetryAssumption == MaxRetries \in Nat
ASSUME PageBoundAssumption == {MaxPoints, MaxInstances, MaxLoads} \subseteq Nat

Instances == 1 .. MaxInstances
NoInstance == 0

VARIABLES
  stored,     \* points in the table, of each selection
  cached,     \* the entry in the cache, of each selection: {} or {points}
  opened,     \* instances so far
  live,       \* the instance on the screen, or NoInstance
  loads,
  selection, shown, error,    \* state of an instance: selection, points,
                              \* requestError
  refs,       \* refs of an instance: activeSelectionKeyRef, the count and
              \* the timer of the retries
  req,        \* the request of an instance
  export      \* the selection an instance exports, or NoSel

backend == <<stored, cached>>
route == <<opened, live>>
view == <<selection, shown, error>>
pageVars == <<backend, route, loads, view, refs, req, export>>

NoRefs == [active |-> NoSel, retries |-> 0, timer |-> NoSel]
NoPoints == [sel |-> NoSel, count |-> 0]
Idle == [stage |-> "none", sel |-> NoSel, count |-> 0, known |-> 0]

PageInit ==
  /\ stored = [s \in Selections |-> 0] /\ cached = [s \in Selections |-> {}]
  /\ opened = 0 /\ live = NoInstance /\ loads = 0
  /\ selection = [i \in Instances |-> NoSel]
  /\ shown = [i \in Instances |-> NoPoints]
  /\ error = [i \in Instances |-> FALSE]
  /\ refs = [i \in Instances |-> NoRefs]
  /\ req = [s \in Instances |-> Idle]
  /\ export = [i \in Instances |-> NoSel]

\* known: what was in the table when the request was made
Request(s) == [stage |-> "sent", sel |-> s, count |-> 0, known |-> stored[s]]

(* ------------------------------ the server ---------------------------- *)
(* A probe result is flushed; a cache entry reaches its TTL.               *)
Flush(s) ==
  /\ stored[s] < MaxPoints
  /\ stored' = [stored EXCEPT ![s] = @ + 1]
  /\ UNCHANGED <<cached, route, loads, view, refs, req, export>>

Expire(s) ==
  /\ cached[s] # {}
  /\ cached' = [cached EXCEPT ![s] = {}]
  /\ UNCHANGED <<stored, route, loads, view, refs, req, export>>

(* handleHistory: the cache is asked; a hit is the answer.                 *)
CacheGet(p) ==
  /\ req[p].stage = "sent"
  /\ \/ \E n \in cached[req[p].sel] :
          req' = [req EXCEPT ![p].stage = "answered", ![p].count = n]
     \/ req' = [req EXCEPT ![p].stage = "missed"]   \* no entry, or an error
  /\ UNCHANGED <<backend, route, loads, view, refs, export>>

(* handleHistory: QueryHistory.                                            *)
Query(p) ==
  /\ req[p].stage = "missed"
  /\ req' = [req EXCEPT ![p].stage = "read", ![p].count = stored[req[p].sel]]
  /\ UNCHANGED <<backend, route, loads, view, refs, export>>

(* handleHistory: an answer that is not empty is cached; a failure of the  *)
(* cache is ignored.                                                        *)
CachesAll(n) == TRUE
Caches(n) == n > 0

CacheSet(p) ==
  /\ req[p].stage = "read"
  /\ req' = [req EXCEPT ![p].stage = "answered"]
  /\ \/ /\ Caches(req[p].count)
        /\ cached' = [cached EXCEPT ![req[p].sel] = {req[p].count}]
     \/ UNCHANGED cached
  /\ UNCHANGED <<stored, route, loads, view, refs, export>>

(* ------------------------------- the page ----------------------------- *)
(* loadHistory: the retry state starts again, then the request is made.    *)
FreshRefsKeepTimer(i, s) == [refs[i] EXCEPT !.active = s, !.retries = 0]
FreshRefs(i, s) == [active |-> s, retries |-> 0, timer |-> NoSel]

Load(i, s) ==
  /\ refs' = [refs EXCEPT ![i] = FreshRefs(i, s)]
  /\ req' = [req EXCEPT ![i] = Request(s)]

(* The user opens the page, by its link or by one that names a selection,  *)
(* which the effect of the new instance loads.                              *)
Open(s) ==
  /\ live = NoInstance /\ opened < MaxInstances
  /\ opened' = opened + 1 /\ live' = opened + 1
  /\ IF s = NoSel
     THEN UNCHANGED <<loads, refs, req>>
     ELSE /\ loads < MaxLoads /\ loads' = loads + 1
          /\ Load(opened + 1, s)
  /\ UNCHANGED <<backend, view, export>>

(* What is left of the refs when no retry follows.  Those of an instance   *)
(* that is gone are forgotten once no callback can read them.              *)
StopRetrying(i) == IF live = i THEN [refs[i] EXCEPT !.timer = NoSel] ELSE NoRefs

(* The user leaves: the state of the instance is gone, the cleanup stops   *)
(* the timer, and the request goes on.                                      *)
Leave ==
  /\ live # NoInstance /\ opened < MaxInstances
  /\ live' = NoInstance
  /\ selection' = [selection EXCEPT ![live] = NoSel]
  /\ shown' = [shown EXCEPT ![live] = NoPoints]
  /\ error' = [error EXCEPT ![live] = FALSE]
  /\ refs' = [refs EXCEPT ![live] = IF req[live] = Idle THEN NoRefs
                                    ELSE [@ EXCEPT !.timer = NoSel]]
  /\ UNCHANGED <<backend, opened, loads, req, export>>

(* The form is submitted; the button is disabled while a request is under  *)
(* way.                                                                     *)
Submit(s) ==
  /\ live # NoInstance /\ req[live] = Idle /\ loads < MaxLoads
  /\ loads' = loads + 1
  /\ Load(live, s)
  /\ UNCHANGED <<backend, route, view, export>>

(* The retry timer calls mutate with the selection it was set for.         *)
TimerFires(i) ==
  /\ refs[i].timer # NoSel
  /\ refs' = [refs EXCEPT ![i].timer = NoSel]
  /\ req' = [req EXCEPT ![i] = Request(refs[i].timer)]
  /\ UNCHANGED <<backend, route, loads, view, export>>

(* onSuccess of the mutation of instance i.                                *)
MayRetryAlways(i, r) == r.count = 0 /\ refs[i].active = r.sel
MayRetry(i, r) ==
  r.count = 0 /\ refs[i].active = r.sel /\ refs[i].retries < MaxRetries

RetryLater(i, r) ==
  [refs[i] EXCEPT !.retries = IF @ < MaxRetries THEN @ + 1 ELSE @,
                  !.timer = r.sel]
RefsAfter(i, r) == IF MayRetry(i, r) THEN RetryLater(i, r) ELSE StopRetrying(i)

(* setPoints and setSelection; the state of a component that is gone is    *)
(* not set.                                                                 *)
Show(i, r) ==
  IF live = i
  THEN /\ error' = [error EXCEPT ![i] = FALSE]
       /\ shown' = [shown EXCEPT ![i] = [sel |-> r.sel, count |-> r.count]]
       /\ selection' = [selection EXCEPT ![i] = r.sel]
  ELSE UNCHANGED view

Answer(i) ==
  LET r == req[i] IN
  /\ r.stage = "answered" /\ live # NoInstance
  /\ Show(i, r)
  /\ refs' = [refs EXCEPT ![i] = RefsAfter(i, r)]
  /\ req' = [req EXCEPT ![i] = Idle]
  /\ UNCHANGED <<backend, opened, live, loads, export>>

(* The same when the page was left: the address is replaced all the same,  *)
(* a new instance appears and loads the selection in it.                   *)
AnswerBringsBack(i) ==
  LET r == req[i]
      j == opened + 1
  IN
  /\ r.stage = "answered" /\ live = NoInstance
  /\ opened' = j /\ live' = j
  /\ refs' = [refs EXCEPT ![i] = RefsAfter(i, r), ![j] = FreshRefs(j, r.sel)]
  /\ req' = [req EXCEPT ![i] = Idle, ![j] = Request(r.sel)]
  /\ UNCHANGED <<backend, loads, view, export>>

(* onError: the message replaces the points, the selection stays.          *)
LoadFails(i) ==
  /\ req[i].stage # "none"
  /\ req' = [req EXCEPT ![i] = Idle]
  /\ refs' = [refs EXCEPT ![i] = StopRetrying(i)]
  /\ IF live = i
     THEN /\ error' = [error EXCEPT ![i] = TRUE]
          /\ shown' = [shown EXCEPT ![i] = NoPoints]
     ELSE UNCHANGED <<error, shown>>
  /\ UNCHANGED <<backend, route, loads, selection, export>>

(* ------------------------------- export ------------------------------- *)
(* handleExport: the selection is that of the click.  handleHistoryExport  *)
(* reads the table, never the cache, and changes nothing.                  *)
MayExport(i) ==
  live = i /\ selection[i] # NoSel /\ export[i] = NoSel /\ req[i] = Idle

StartExport(i) ==
  /\ MayExport(i)
  /\ export' = [export EXCEPT ![i] = selection[i]]
  /\ error' = [error EXCEPT ![i] = FALSE]
  /\ UNCHANGED <<backend, route, loads, selection, shown, refs, req>>

ExportEnds(i) ==
  /\ export[i] # NoSel
  /\ export' = [export EXCEPT ![i] = NoSel]
  /\ \/ UNCHANGED error                                   \* a file is saved
     \/ error' = [error EXCEPT ![i] = IF live = i THEN TRUE ELSE @]
  /\ UNCHANGED <<backend, route, loads, selection, shown, refs, req>>

(* --------------------------- the specification ------------------------ *)
Serves(p) == CacheGet(p) \/ Query(p) \/ CacheSet(p)
Settle(i) == Answer(i) \/ AnswerBringsBack(i)

PageNext ==
  \/ \E s \in Selections : Flush(s) \/ Expire(s) \/ Submit(s)
  \/ \E s \in Selections \cup {NoSel} : Open(s)
  \/ \E i \in Instances :
       \/ Serves(i) \/ TimerFires(i) \/ Settle(i) \/ LoadFails(i)
       \/ StartExport(i) \/ ExportEnds(i)
  \/ Leave

PageSpec == PageInit /\ [][PageNext]_pageVars

(* The handler answers, the browser runs callbacks and timers.  Neither a  *)
(* flush nor the user is fair.                                              *)
Works(i) == Serves(i) \/ Settle(i) \/ TimerFires(i)
PageFairness == \A i \in Instances : WF_pageVars(Works(i))
PageFairSpec == PageSpec /\ PageFairness

(* ------------------------------ properties ---------------------------- *)
(* The points on the screen are those of the selection they are shown      *)
(* under, and no answer of another selection can still replace them: a     *)
(* retry is pending only for the selection loaded last and never beside a  *)
(* request of the same page.                                                *)
ShownIsSelected ==
  \A i \in Instances :
    /\ live = i /\ shown[i] # NoPoints => shown[i].sel = selection[i]
    /\ req[i] # Idle => req[i].sel = refs[i].active
    /\ refs[i].timer # NoSel => refs[i].timer = refs[i].active /\ req[i] = Idle

(* An empty answer of handleHistory is true: no points of the selection    *)
(* were in the table when the page asked, as such an answer does not come  *)
(* from the cache, so that asking again is worth something.  This is about *)
(* answers, not about the screen: while its first load is pending and      *)
(* after a load that failed the page has no points either and says that    *)
(* none are stored, whatever the table holds.                               *)
EmptyIsTrue ==
  \A p \in Instances :
    req[p].stage = "answered" /\ req[p].count = 0 => req[p].known = 0

(* Loading comes to an end: the retries are used up, whether                *)
(* points appear or not, and also for a page that was left.                *)
Quiet(i) == req[i] = Idle /\ refs[i].timer = NoSel
LoadingEnds == \A i \in Instances : ~Quiet(i) ~> Quiet(i)

(* ------------------------- inductive invariant ------------------------ *)
Chosen == Selections \cup {NoSel}
Points == [sel : Chosen, count : 0 .. MaxPoints]
Refs == [active : Chosen, retries : 0 .. MaxRetries, timer : Chosen]
Req == [stage : {"none", "sent", "missed", "read", "answered"}, sel : Chosen,
        count : 0 .. MaxPoints, known : 0 .. MaxPoints]

(* Values of the variables; an answer in the cache is never empty, and the *)
(* retries are counted up to their limit only.                              *)
PageTypeOK ==
  /\ stored \in [Selections -> 0 .. MaxPoints]
  /\ cached \in [Selections -> SUBSET (1 .. MaxPoints)]
  /\ opened \in 0 .. MaxInstances /\ live \in 0 .. opened /\ loads \in 0 .. MaxLoads
  /\ selection \in [Instances -> Chosen] /\ shown \in [Instances -> Points]
  /\ error \in [Instances -> BOOLEAN] /\ refs \in [Instances -> Refs]
  /\ req \in [Instances -> Req] /\ export \in [Instances -> Chosen]

(* What an instance shows and waits for belongs to one selection; only     *)
(* the instance on the screen has state.                                    *)
InstanceInv(i) ==
  /\ i # live => shown[i] = NoPoints
  /\ shown[i] # NoPoints => shown[i].sel = selection[i]
  /\ req[i] # Idle =>
       /\ req[i].stage # "none" /\ req[i].sel \in Selections /\ i <= opened
       /\ req[i].sel = refs[i].active
       /\ req[i].known <= stored[req[i].sel]
       /\ req[i].stage \in {"read", "answered"} /\ req[i].count = 0 => req[i].known = 0
  /\ refs[i].timer # NoSel =>
       refs[i].timer = refs[i].active /\ req[i] = Idle /\ i <= opened

(* A page that was left can be opened again. *)
RoomInv == live = NoInstance => opened < MaxInstances \/ opened = 0

PageIInv == PageTypeOK /\ RoomInv /\ \A i \in Instances : InstanceInv(i)
=============================================================================
