# A formal model of Net-Watcher

Net-Watcher is a Go server (`cmd/netwatcher/main.go`, `internal/`) with a
Next.js dashboard (`frontend/`) that probes hosts (ICMP ping, TCP ping, port
scan, DNS), streams results over WebSocket, stores them in PostgreSQL and
raises alerts by mail. This directory holds TLA+ modules translated from that
source, the TLC configurations that check them, and proofs checked by TLAPS.
`PROJECT.json` is the index: components, runs, the source lines of each
definition, the mutants that break each property, hazards, findings, theorems.

## The system

| Component | Source | State it keeps | Operations |
|---|---|---|---|
| Result store | `internal/store/store.go` | bounded channel, worker's batch, transaction, `results` table | `InsertAsync`, worker select (receive, flush tick, cleanup tick, done), `insertBatch`, `Close` |
| Alert rules | `internal/store/alerts.go`, `enqueueAlertEvaluation` | rule rows: thresholds, streak, state, last triggered / recovered; alert events | save, delete, evaluate (`SELECT .. FOR UPDATE`), mail |
| Rate limiter | `main.go:1402-1427, 3441-3534` | bucket of hits per key, last sweep | `Allow`, `sweep`, Retry-After |
| WebSocket sessions, probe slots | `main.go:1300-1402, 3025-3300` | cancel function per connection, eight slots | read loop, `start`, `stop`, `clear`, `close`, run goroutine |
| Probes | `internal/ping`, `internal/tcpping`, `internal/report` | the current run | probe loop with callback, pause and context |
| Port scan | `internal/portscan/portscan.go` | two channels, worker pool, collected results | producer, workers, closer, collecting caller |
| DNS lookup | `internal/dnslookup` | none after the answer | record queries under one deadline |
| Accounts | `internal/store/auth.go`, `main.go:1429-1970` | users, codes, reset tokens, sessions | sign-up, verify, resend, login, logout, forgot, reset, demo login |
| History and cache | `store.go` queries, `internal/cache`, `main.go:2866-2935` | cached answers with a time to live | query, recent targets |
| Export | `internal/objectstore`, `main.go:2936-3024` | objects in a bucket | upload, presigned link |
| Mailer | `internal/mailer` | none | one HTTP call per mail |
| Serving | `runServe`, `main.go:327-532` | the globals `appStore`, `appCache`, ... | open, serve, signal, deferred closes |
| Realtime hook | `frontend/src/hooks/use-realtime-probe.ts`, the tool pages | run token, socket, abort controller, stop flag, report | run, stop, unmount, socket events, HTTP fallback |
| History page | `frontend/src/features/history` | selection, points, retry count and timer | load, retry, export, leave |
| Auth forms and guards | `frontend/src/components/{forms,auth,app}` | cached session, step and timer of the sign-up form | the forms, `GuestOnly`, `AuthGuard`, log out |
| Rules page and overview | `frontend/src/features/{alert-rules,overview}` | query cache, `editingRule`, `deletingRuleId`, live samples | save, edit, delete, refetch, target states |
| Other pages | `frontend/src` | DNS answer, settings, stored preferences | |

How they interact. A probe arrives over HTTP or as a WebSocket message and
takes one of the eight slots. Its probe package calls back with each result:
the callback hands it to the result store (`storeResult`, never blocking) and
writes it to the client; a write error ends the run. When the run is over, a
goroutine evaluates the alert rules of its target in one transaction and then
mails what was decided. History queries read what the worker committed, through
a cache. Closing the server closes the store, whose worker drains its channel.
In the browser the tool pages drive the WebSocket and publish each result to
the overview of any tab; all pages read the server through one query cache
(TanStack Query), whose invalidation after a write, a sign-in or a log-out is
what makes them show the change.

What is hard. Four kinds of goroutine share state with their requests: the
store's worker, the run goroutine of a connection, the evaluation goroutine and
the port scanner's pool. `select` chooses at random among ready cases, so a
closed `done` or a done context need not win. Contexts carry cancels from the
client, from the user, from a deadline and from inside. Several decisions use a
clock read before a lock is taken (limiter, alert evaluation). Commits may
succeed without the answer arriving. The server retries nothing. In the
browser, callbacks of sockets, requests, mutations and timers outlive the run,
the form or the page that started them, and a request that was under way when
its query is invalidated may be joined instead of repeated.

## Modules

| Module | Models | Extends |
|---|---|---|
| `ResultLog` | abstract: what the store promises | |
| `ResultStore` | the pipeline from the handler's sample to the committed row | implements `ResultLog` |
| `ResultStoreProofs` | theorems about `ResultStore` | `ResultStore`, TLAPS |
| `AlertRules` | rules of one target, overlapping evaluations, their mails | |
| `RateLimiter` | the limiter | |
| `RateLimiterProofs` | theorems about `RateLimiter` | `RateLimiter`, TLAPS |
| `ProbeSession` | connections, runs, slots, HTTP probes | |
| `ProbeSessionProofs` | theorems about `ProbeSession` | `ProbeSession`, TLAPS |
| `ScanPromise` | abstract: what a port scan promises | |
| `PortScan` | producer, workers, closer and caller of a scan | implements `ScanPromise` |
| `PortScanProofs` | theorems about `PortScan` | `PortScan`, TLAPS |
| `RealtimeProbe` | the hook of the tool pages with its socket and its HTTP fallback | |
| `RealtimeProbeProofs` | theorems about `RealtimeProbe` | `RealtimeProbe`, TLAPS |
| `HistoryPage` | the history page, the handlers it calls and their cache | |
| `ReadersProofs` | theorems about the two readers of what is stored, `AlertRules` and `HistoryPage` | `AlertRules`, `HistoryPage`, TLAPS |
| `Accounts` | the account handlers, the forms, the guards and their cached session | |
| `AccountsProofs` | theorems about `Accounts` | `Accounts`, TLAPS |
| `OverviewView` | what the overview computes from its data (operators only) | |
| `Dashboard` | the rules page and the overview over their query cache | `OverviewView` |
| `DashboardProofs` | theorems about `Dashboard` and `OverviewView` | `Dashboard`, TLAPS |
| `MC*` | instances for TLC | the module they instantiate |

Definitions named as mutants in a comment (`SendTwice`, `SeeDoneWithoutDrain`,
...) are not part of any specification. Each is a plausible bug in the
definition that follows it, and the property it is listed with in
`PROJECT.json` fails when it takes that definition's place.

### ResultStore

`InsertAsync` is one step, the whole `select`: send, notice `done`, or drop
when full; with room and `done` closed, either of the first two. The worker's
position (`worker`) is the select, an insert, the drain after `done`, or the
insert that ends it. `ExecRecord` executes one statement of the transaction;
`Commit`, `InsertFails` and `CommitAnswerLost` are the three ways it ends, and
each empties the batch, as `flush` does. `Crash` ends the process at any step
and starts a new one with an empty memory; the database rolls the open
transaction back. Timestamps are the order in which samples are taken.

Properties: no sample is in two rows (`StoredOnce`); the rows of one probe run
are in the order of its samples (`CallerOrderKept`); when `Close` has returned
and no database call failed, all that was accepted before it began is stored
(`CloseKeepsAccepted`); what is accepted does not stay in memory for ever, `Close`
returns, expired rows go; and `ResultLog` is implemented under the mapping
"settled = accepted and no longer in memory". A record that is sent after the
worker has drained the channel is lost: the code allows that, and the property
speaks only of what was accepted before `Close` began.

### AlertRules

An evaluation reads the clock (`StartEvaluation`), then waits for the rows
(`LockRows`, `SELECT .. FOR UPDATE`), decides for each rule, updates and commits
(`CommitEvaluation`), and then mails one decision after the other (`SendMail`).
Each step before the commit may fail (`AbortEvaluation`, the context of ten
seconds included), and a commit's answer may be lost. The rows of an evaluation
are locked in one step: the code locks them in the order of their ids, so
evaluations cannot deadlock over them. A user may save or delete a rule
meanwhile, and waits for the lock. Without a configured mailer nothing is sent;
the model has one.

Properties: the stored streak is the number of committed breaching evaluations
since the last healthy one (`StreakCountsBreaches`), with a history variable
that counts them independently of what the evaluation read; a decision is taken
on rows that are still current (`SeenIsCurrent`); a rule that asks for two or
more breaches in a row never triggers twice within its cooldown
(`CooldownHolds`), also when an evaluation that read the clock earlier commits
later; every evaluation ends. That only committed decisions are mailed holds by
the shape of the code, which fills the list it mails at the commit.

The cooldown is not claimed for a rule that asks for one breach: after a
recovery such a rule triggers at the next breach whatever the cooldown, because
the code applies the cooldown only while the state is "alert". Its
`last_triggered_at` may even go back, as the clock is read before the lock.

### RateLimiter

A request reads the clock (`Arrive`), later takes the mutex, and then does all
of `Allow` in one step (`Grant` or `Refuse`): the sweep when it is due, the
filter of its own bucket, the decision. A bucket is a set of hits numbered in
the order of the mutex, which is the order of `bucket.hits`. The assumption
`Window[k] <= BucketTTL` is what makes the sweep harmless: 30 minutes against at
most 15. The set of keys is fixed; the code does not bound it.

Properties: the window that ends now never contains more than `Limit` grants
(`WindowHolds`); a refused request finds `Limit` grants in its window
(`RefusalJustified`); waiting one second more than the `Retry-After` header is
enough (`RetryAfterWorks`). The header is rounded down, so waiting exactly that
long may not be. Of a window that ended earlier `WindowHolds` says nothing: a
request that read the clock long before it got the mutex can be granted at a
time whose window the limit was already used up in.

### ProbeSession

Of each connection: the client (open or gone), the messages it sent, the reader
goroutine with its read deadline, and the run goroutine. `phase` is "none" when
`wsSession.cancel` is nil, and otherwise says how far the run is; `canceled`
keeps why its context is done. A run is a ping (or tcpping), one probe after
another, or a port scan: `todo` counts the probes not begun, `dialing` those
under way, of which a scan has up to `MaxWorkers`, and `ready` the results in the
scan's channel. A stopped scan ends only when its workers have returned and its
channel is drained, results and all; `PortScan` models the pool itself. When a write
fails, the drain of the scan that follows reports nothing and is one step.
`Release` (the deferred release of the slot) and
`Clear` come after the terminal event was written, in that order, as in the
code. A message of an unknown type is answered with an error and changes
nothing; it is left out. A write fails only when the client is gone or the
connection closed; a client that is merely slow until the write deadline
passes counts as gone.

Properties: the tokens in the limiter are the runs and HTTP probes in progress
(`SlotsConserved`); a client that stays sees each run end exactly once
(`EndsOnce`); after its context is done, a run begins no probe and reports at most
those it had begun, a ping at most one (`StopsSoon`); every run ends; a client
that vanishes leaves nothing behind.

What the model shows besides. Stop is no end of the results of a port scan: all
that is in the channel and, by the select of each worker, any of the dials under
way still reaches the client before its "stopped".

### PortScan

One step per channel operation. A send on the unbuffered jobs channel and its
receive are one step (`Handover`). Where a `select` has two ready cases both
are actions: `Send` and `GiveUp`, `Handover` and `ProducerEnds`. A dial that is
canceled reports a closed port with the error "canceled", as `classifyError`
does; several addresses of a host are one dial. `errCh` of the code is never
written, so its cases are never taken and it is left out.

Properties: a port is in one place only and reported at most once
(`EachPortOnce`); when the scan returns, its workers are gone and the callback
saw exactly the results of the report (`ReturnsLast`); the scan returns and all
goroutines end (`AllEnd`); and `ScanPromise` is implemented: success means that
every port is reported and no dial was canceled.

### RealtimeProbe

Every action is one task of the browser's event loop: a click (`Run`, `Stop`,
`Unmount`), an event of a socket (`Opens`, `ResultArrives`, `RunEnds`,
`SocketFails`, `SocketCloses`) or the end of a request (`HttpAnswers`,
`HttpFails`, `HttpAborted`). Listeners of earlier runs stay registered; all of
them but `open` check token and mount first (`Current`). The promise of an
aborted request settles in the microtasks of the task that aborted it, so no
other event comes between (`Quiet`). `error` and `close` of a socket that fails
are fired in one task. The server is any server that answers "stopped" only to
a stop and a summary only after a result, which is what `ProbeSession` shows.

Properties: the report holds the results of the run it names, in order and
without a gap, and these are the last samples the overview received, after those of
earlier runs (`ReportIsOfRun`); no run
is requested twice, over the socket and over HTTP (`RequestedOnce`); when the
page says a run is over, nothing of it can still arrive (`EndedMeansOver`); while
the page is busy, Stop reaches what is under way (`StopReaches`); the page does
not stay busy for ever (`BusyEnds`).

What the model shows besides. Stop on a socket that is still connecting makes
the browser report an error, and the error listener, which asks only whether
the request was dispatched, then runs the probe over HTTP: the user has to stop
it again. The `finally` of an aborted request clears `abortRef` whatever it
holds (line 145); it can lose the controller of a newer run only in a browser
without WebSocket, which is why `StopReaches` is stated for the others.

### HistoryPage

A load is a request with the stages of the handler (`CacheGet`, `Query`,
`CacheSet`) between the click and the callback. The page may be left and opened
again; each time is a new instance with its own refs, and the mutation of an
instance that is gone still calls its callbacks. An empty answer sets a timer
that asks again. Points are numbers: the table only grows, and a cached answer
is the number that was read.

Properties: what is shown is shown under its own selection, and no retry or
request of an earlier selection is left that could replace it
(`ShownIsSelected`); an empty answer of the server says that nothing was stored
when the page asked (`EmptyIsTrue`, a property of the answers, not of the screen);
retries end (`LoadingEnds`). How old a non-empty answer may
be is bounded only by the time to live of the cache.

What the model shows besides. The screen is not as truthful as the answers: the
table says "No stored points found for this target yet." whenever `points` is
empty, also while the first load of a page is pending (lines 481-523) and after
one that failed (`LoadFails`, lines 284-286), whatever is stored. An answer that
arrives after the page was left calls `router.replace` and brings the user back to it (`AnswerBringsBack`). After
a failed load an export clears the message and leaves the old selection with no
points. The field "Latest Point" shows `points[0]`, the oldest one, as
`QueryHistory` returns them in ascending order.

### Accounts

The tables are `account`, `secret` (a code or a token: none, fresh while the
cooldown runs, or old), `owner` (sessions); a handler is one action per
transaction or check it makes, so that two requests interleave between them.
The browser has the cookie; a tab has its page, the step and the timer of the
sign-up form and the query `["session"]`, from which the guards redirect. A
mutation (`ask`) outlives the form that started it. `Fails` is a refusal, an
error or a lost request or answer at any stage; a mail that fails takes its row
with it or, when the cleanup fails too, does not. A wrong code or password and
and an expired row look alike and are such a refusal. Every form accepts the
address of the demo account as it does any other.

Properties: a session is of a verified account or the demo account
(`SessionsAreVerified`), which is excepted because the demo login takes the
account it finds; the tab that signed in or out last shows that session
once its query is at rest (`SignInShows`); the two guards do not send the tab back
and forth for ever (`ComesToRest`).

What the model shows besides. `handleAuthSignup` (`main.go:1523-1551`) does not
refuse the address of the demo account. Before the first demo login a sign-up
there creates it pending, with the password of whoever asked, and
`getOrCreateDemoUser` (2185-2189) returns it as it is: the demo login then opens a
session of an account nobody verified. A log-out whose `DeleteSession` fails
(1656) clears the cookie all the same, and the session stays until it expires.
The success step of the sign-up form is not seen:
`verify` writes the session into the cache, `GuestOnly` then unmounts the form,
and the redirect of 2.8 s it schedules afterwards belongs to nobody and is not
cleared. A session request that is under way when the tab's first invalidation
comes is joined and may show the session of before (excused in `SignInShows`). A
login that was checked before a password reset gets its session after it. A
reset in one tab does not invalidate the session in the cache. Two resend
requests may both pass the cooldown, and the second code replaces the first;
two first demo logins may both find no demo user, and one of them fails. A mail
whose cleanup fails leaves the cooldown running. The server never sends
`read_only`, so the demo mode of `AuthGuard` and of the pages does not occur.

### OverviewView and Dashboard

`OverviewView` has the pure functions of the overview: which targets it follows
(`uniqueAlertTargets`, `mergeTrackedRules`, live samples), the state of each
(`classifyTargetHealthState`, `Overlay`), and the numbers of the panels.
`Dashboard` gives them their inputs: the query `["alert-rules"]` with its request in
flight, the queries of recent targets and histories, which answer in one step
with any earlier state of the table, and live samples. The rules page edits,
saves and deletes; a save is one mutation, deletions may overlap, and a later
`mutate` freezes the callbacks of the earlier one as TanStack Query does. A mutation
that succeeded is "settling" until the request its `onSuccess` awaits has ended;
only then come `onSettled` and the end of `isPending` (`Over`). The user may turn
to another tab (`Hide`, `Reveal`): a hidden tab does not refetch at its interval,
and its retry is "paused". The server evaluates rules at any time after a probe of their target (`AlertRules`
has the details).

Properties: with nothing under way the list on the rules page is that of the
server (`RulesListed`); a target is called stable only if its rule is enabled and
does not alert and neither its newest stored point nor its last live sample is
an error, and the panels agree with the rows (`StableMeansWell`); the newest rule
of a target, once it alerts, is shown as critical before long, if the target is
one of the `MaxTracked` with the newest rules and as long as the tab is looked at
(`AlertShows`).

What the model shows besides. Both merges keep twelve targets
(`overview-workspace.tsx:84`, `117`), those of the newest rules first, and the rules
of a user are not limited: a thirteenth target may alert for ever and never be
seen (`Leading` without its last conjunct makes `AlertShows` fail in the mix with
rules of three targets). In a hidden tab nothing is refetched, as
`refetchIntervalInBackground` is not set. The list request of the page's first visit is
joined by an invalidation, so a rule saved while it is under way may be missing
(excused as `missed`). `uniqueAlertTargets` keeps the newest rule of a target: an
older rule that alerts is hidden behind it, which is why `AlertShows` speaks of
the newest. A disabled rule's target with a failing live sample is counted as a
warning. `onSettled` of one deletion clears `deletingRuleId` of another. The API
sends `notify_on_recovery` while the page reads `notify_recovery`
(`frontend/src/lib/types.ts:220`), so the form of an edit starts without the
stored choice; the field is left out of the model.

## Runs

| Run | Instance | Distinct states |
|---|---|---|
| `result_store` | two probes, three samples, batch of 2, channel of 2, one failed call, one kill, retention of one sample | 95 thousand |
| `alert_rules` | one rule, three configurations, two evaluations that overlap out of three, one edit, clock to 3, cooldown 2 | 184 thousand |
| `alert_recovery` | the same without edits, with runs that get no reply | violation |
| `rate_limiter` | two keys (2 in 3 ticks, 1 in 2 ticks), two requests, clock to 5, a bucket limit of one | 1.14 million |
| `probe_session` | two connections, an HTTP handler, two slots, two messages each, pings and scans of up to two results, two workers, a deadline that may pass at any time | 1.1 million |
| `probe_session_live` | one connection, one slot, an HTTP handler, four messages, pings and scans | 19 thousand |
| `ws_long_run` | one connection, one message | violation |
| `port_scan` | three ports, two workers | 63 thousand |
| `realtime_probe` | a page that publishes samples and one that does not, with and without WebSocket, three submissions, up to two results each | 182 thousand |
| `history_page` | two selections, the page opened twice, two loads, two retries, one point of each selection | 197 thousand |
| `accounts` | one person and the demo account, one tab, two mutations under way, two in all, one page opened by the user; the tab begins at the login, the sign-up or the forgotten password | 818 thousand |
| `dashboard` | eight mixes of rules, saves and deletions, samples, page changes, a hidden tab and lost requests; three rules, three targets of which two are followed, two writes at once, one live sample kept | 360 thousand |

Why the bounds suffice. In `result_store` three samples fill a batch and leave
one in the channel, or fill the channel while the worker is inside a
transaction; the constants of the channel's size are parameters, so that a
channel of two is full after two samples. In `alert_rules` a cooldown of two
ticks in a clock of three may have elapsed or not; two overlapping evaluations
are what a lock needs, the third makes the streak reach two after a lost one.
In `rate_limiter` a bucket limit of one makes every request sweep once both
keys are in use, and both windows are shorter than the clock. In
`probe_session` three users of two slots must be refused at times; a run is
stopped, asked for twice or replaced, and a scan that is stopped can have one
result in its channel and one dial under way. Starting, stopping and starting
again takes the four messages of `probe_session_live`; what a second run finds
is what the first left, which the invariants of the theorems describe. In `port_scan` one worker has to take two
ports. In `realtime_probe` a run is replaced and replaced again while its socket
connects, runs or closes, and two results can be out of order or doubled. In
`history_page` a second selection or instance meets the timer or the request of
the first; two retries are used up. In `accounts` any two handlers interleave,
and a sign-in meets a log-out, a reset or an expiry; a second tab shares only
the cookie and the tables, so it would add sessions that change behind the
tab's back, as expiry already does. The pages a tab begins with (`Opened`) are those that
lead to the others. In `dashboard` one behaviour with everything
in it is out of reach, so each mix has what one kind of conflict needs: a save
and a deletion of one rule over three page changes, the same of two rules, with
two page changes or with one and a lost request, two rules of one target that
is probed, a rule whose list fails while the tab is hidden, three targets of
which one has a rule, with two followed, so that a stored or a live one is cut, a
rule that is saved while it is probed, and three rules, also of three targets, so
that one with a rule is cut. The rules of the last mix are never evaluated and
may alert from the start. Deadlock is not checked: all systems may come to rest when the
bounded counters are used up or the scan has returned.

Bounds in guards: `MaxClock`, `MaxErrors`, `MaxCrashes` (`ResultStore`),
`NRules`, `MaxTime`, `MaxRuns`, `MaxSaves` (`AlertRules`), `MaxTime`
(`RateLimiter`), `MaxMessages` (`ProbeSession`), `MaxRuns`, `MaxResults`
(`RealtimeProbe`), `MaxPoints`, `MaxInstances`, `MaxLoads` (`HistoryPage`),
`Requests`, `MaxAsks`, `MaxVisits`, `Opened` (`Accounts`; a mutation takes the first
free slot of `Requests`, `Ask`), `MaxRules` (a save is submitted
only while an id is left for it and for those under way, `Inserting`),
`MaxWrites`, `Mixes` (`Dashboard`). `MaxRetries` (4), `MaxTracked` (12) and `MaxLive` (96) are constants of
the code made small.

Symmetry is used for requests (`rate_limiter`) and connections
(`probe_session`), in runs without liveness properties only.

### Fairness

- `ResultStore`: strong fairness for each case of the worker's select, as Go
  chooses uniformly among the ready ones, so a case that is ready again and
  again is taken; weak fairness for the steps of the transaction and the drain.
  None for handlers, `Close`, errors or kills.
- `AlertRules`: weak fairness for each step of an evaluation; its context of
  ten seconds ends every wait. None for users, the clock or new runs.
- `ProbeSession`: weak fairness for the run goroutine (every probe has a
  timeout) and for the reader when there is something to read. None for
  clients, the clock or the HTTP handlers: runs must end without their help.
- `PortScan`: weak fairness for every goroutine. None for the cancel.
- `RealtimeProbe`: weak fairness for a connection attempt and a closing
  handshake to end, for a server that was asked to send on until the run is
  over (`RunsEnd` of `ProbeSession`), for a request to be answered or to fail,
  and for microtasks. None for the user.
- `HistoryPage`: weak fairness, per instance, for handler, callback and timer
  together. None for the user, flushes or the expiry of the cache.
- `Accounts`: weak fairness, per tab, for the session request to be read and to
  arrive, and for the effect of a guard. None for handlers or the user.
- `Dashboard`: weak fairness for the refetch interval of the overview in a tab
  that is looked at, and for the list request, which may still be lost as often
  as the mix allows. None for the user, so a hidden tab may stay hidden, with
  its interval at rest and its retry paused.

## Findings

- `alert_recovery`: a rule that needs two breaches in a row goes to state
  "alert" at the first, without triggering; the next healthy run then records
  and mails "Rule recovered" for an alert nobody was told of.
- `ws_long_run`: the read deadline of 60 seconds is extended by messages and
  pongs only, the server never pings and the dashboard sends nothing during a
  run, so a run that lasts longer is canceled.

## Theorems

`tlapm` proves these for every value of the constants allowed by the
assumptions in the modules. For each component the properties rest on one
inductive invariant, `IInv`: the initial states satisfy it, each action keeps it,
and the properties follow from it. Each was checked by TLC on the instance of its run
before it was proved.

`ResultStoreProofs`: `TypeCorrect`, `NeverStoredTwice`, `StoredInOrder`,
`CloseLosesNothing`, `StoreImplementsLog`. `StoredOnce` and `CallerOrderKept` are
not inductive: they depend on what the worker holds. `OrderInv` says that for
each probe the rows are older than the batch, the batch older than the channel,
and the channel older than the sample in the handler's hands; `TxInv` that the
open transaction holds the executed part of the batch, in order, with fresh
identities; `OwedInv` that what the process owes is in memory until it is
stored, and that the worker leaves only after it has emptied the channel of it.
The refinement is step by step: a sample ticks the log's clock, a send accepts,
the end of a transaction settles a batch, a cleanup expires, a crash settles
what was in memory, all else stutters. Assumed: a positive batch size and queue
factor.

`ReadersProofs`, about `AlertRules`: `TypeCorrect`, `DecidesOnCurrentRows`, `StreakIsExact`,
`CooldownIsKept`, for any number of overlapping evaluations, edits and deletions.
`LocksHeld` says that an evaluation holds exactly the rows it has read, from
`SELECT .. FOR UPDATE` to the end of its transaction. While it holds them nobody
else writes them, so `SeenIsCurrent` is kept, and the streak it writes is that of
the current row plus one or zero, so the history variable of
`StreakCountsBreaches` moves with it. The cooldown is an action property: a
trigger of a rule that asks for two breaches finds a streak of one or more, by
`StreakCountsBreaches` its state is then "alert", and in that state only an
elapsed cooldown lets it trigger. Assumed: the configurations are those
`validateAlertRule` accepts.

`RateLimiterProofs`: `TypeCorrect`, `LimitHolds`, `NoRefusalBelowLimit`,
`RetryAfterIsEnough`. `WindowHolds` is not inductive: it says nothing of what a
bucket forgot. `IInv` adds that a grant missing from its bucket has left the
window (`Forgotten`), for which the clock must only be ahead of every pending
call (`CallsArePast`) and `Window[k] <= BucketTTL` must hold; that a bucket has at
most `Limit` hits; and that grants have different numbers, so that a new one is a
new element. For the header: a refusal finds exactly `Limit` hits, the answer is
computed from the one with the least number, and one second more than the
header, which is rounded down, exceeds the wait until that hit leaves the
window. That a set of numbers has a least one is the well-foundedness of `<`.

`ProbeSessionProofs`: `TypeCorrect`, `SlotsAreKept`, `RunsEndOnce`, `StopIsPrompt`,
for any finite number of connections and HTTP handlers and any number of slots
and messages. For the slots, each start adds one run to `Holding` and each
release takes one away (`SlotsTaken`, `SlotReleased`). `GoodRun` ties the events a
client has got to the phase of its run. For `StopsSoon`, which is not inductive,
`RunInv` says that after the context of a run is done the late results, the
dials under way and the results in the channel together never exceed what there
was at that moment (`due`), and that a ping has one probe under way at most.

`PortScanProofs`: `TypeCorrect`, `PortsAreOnce`, `ScanReturnsLast`,
`ScanImplementsPromise`, for any number of ports and any finite pool.
`EachPortOnce` speaks of cardinalities and is not inductive; `PlaceInv` says
that the producer's next port, the workers' items, the channel and the results
share no port, and the theorem counts afterwards. `NothingLost` says that before
the context is done every port handed out is in one of these places, that
no worker leaves early and that no dial is canceled; `CallerInv` what each stage
of the caller says of the goroutines, such as that the channel is closed only
after the last worker has left. From them the refinement follows step by step: a
received result is reported, a return decides success or an error, and all that
happens inside the pool stutters.

`RealtimeProbeProofs`: `TypeCorrect`, `NeverRequestedTwice`, `EndedIsOver`,
`StopAlwaysReaches`, `ReportIsTrue`, for any number of submissions and results.
None of the properties is inductive alone. `IInv` adds, per run (`RunInv`), that
the flags, the socket and the request of a run stay in step: a run that was
neither dispatched nor fell back has not been sent, the fallback starts only
when the socket is closed, a finished run has a closing or closed socket, a run
still to come has touched nothing. `RefInv` says that with WebSocket the refs
hold every socket that may open or is open and every request in flight,
although the `finally` of an aborted request clears the ref whatever it holds:
only one that was aborted in the same task can do so. `BusyInv` says that a page
is busy only over the run it shows. Without `RefInv` the open listener, which
checks no token, could turn the page busy for a run that Stop cannot reach.
`ReportIsTrue` adds `ShareInv`: nothing was sent of a run whose request was
not taken or is not answered yet (`SentInv`), so the answer of the fallback
never adds its results to some the socket has brought.

`ReadersProofs`, about `HistoryPage`: `PageTypes`, `ShownIsOfSelection`,
`NothingMeansNothing`, for any number of selections, instances, loads, retries and
points. The two components share no state and no constant; so that one module can
extend both, `HistoryPage` calls its specification `PageSpec`, its invariant
`PageIInv`, and so on. `InstanceInv`
says of each instance, gone or not, that its request and its timer are of the
selection it loaded last and never both there, and that an answer read as empty
belongs to a question asked when nothing was stored. Its type says that the
cache holds no empty answer, without which a hit could be one. `RoomInv` is
about the bound: a page that was left can always be opened again, so that a late
answer that brings the user back finds an instance.

`AccountsProofs`: `TypeCorrect`, `OnlyVerifiedEnter`, `ChangerShows`, for any number
of users, tabs and mutations under way. `EntryInv` says that between the check of a
sign-in other than the demo login and its session the account is still verified:
no handler takes a verification back. The demo login checks none, which is why
the statement excepts its account. `IdInv` says
that nobody holds the id of a session still to be issued, so a new session
changes whom no old cookie stands for. `QueryInv` says what the request under
way of the tab that changed the session brings: it left with the present cookie, and
if it was served already, it carries who that cookie stands for.

`DashboardProofs`: `TypeCorrect`, `RulesAreListed`, `StableMeansWellHolds`, for any
targets and any number of rules, writes, samples, page changes and losses.
`RulesListed` speaks of a page at rest; `ListInv` says what holds before that. A
change is owed (`Owed`) from the commit on the server until the mutation that made
it comes back and invalidates the query. While nothing is owed, an answer on its
way has the rules of the server, and so has the list that is shown, unless it is
marked invalid; on an open page a marked list is being asked for again. A commit
therefore makes a debt where it makes a list old, and `Invalidate` pays it in one
of two ways: it repeats the request, or it is joined and the model says so in
`missed`. A mutation that is settling owes nothing: it has invalidated the query
before it awaits the request. `RowInv` says that a row has the id it is stored under, so that lists may
be compared as sets, and that an id is left for every insert under way.

`StableMeansWell` is a statement about functions over lists of any length, and what
a fold computes is induction over data. The theorems for it in the library take
an operator as a parameter, which the provers here cannot use, so the module does
without them. Induction over numbers is the absence of a least counterexample
(`LeastNumber`, `UpTo`, from the well-foundedness of `<`). A fold of the community
modules is a `CHOOSE` among the functions that satisfy its recursion over subsets
of the domain; `RecursionExists` shows that there is one, by induction over
cardinality, so the fold satisfies it, and its values at the growing prefixes are
the steps of the loop (`AddAllSteps`, `EnabledSteps`, `NewestSteps`). From these
follow what the code relies on: `uniqueAlertTargets` and the merges return rules
of different targets (`AddAllFacts`, `TrackedFacts`), the filter of enabled rules
has their number, `ListAlertRules` has exactly the rows of the table (`ListFacts`),
which `ListInv` needs too, and the pie sums to the number of rows (`PieFacts`).

Only model-checked:

- All liveness, and with it everything about fairness and `ENABLED`: that the
  worker, evaluations, runs, scans, loads and pages come to an end, and
  `AlertShows` of `Dashboard`.
- `RecoversFromAlert` and `RunsToTheEnd` are the statements the code does
  not keep (see the findings).

Every safety invariant, action property and refinement a passing run checks is a
theorem. `TypeOK` of `AlertRules`, `ProbeSession`, `PortScan`, `HistoryPage` (there
`PageTypeOK`), `Accounts` and `Dashboard` is proved and not an invariant of a run:
every other property presupposes it.

## Not modelled

Not modelled, though they have behaviour of their own:

- Serving and shutdown: `runServe` runs its deferred closes as soon as
  `ListenAndServe` returns, while handlers may still be working; only `Close` of
  the store racing `InsertAsync` is modelled.
- Concurrent ICMP pings on one raw socket, the identity of replies and the
  limit of foreign packets: `ProbeSession` takes the result of a probe as given.
- DNS lookup: one goroutine per record type, each writing its own fields, and a
  wait for all of them; and its page, which shows one answer at a time.
- `ParsePorts`, the request limits, the summary of a run and `objectKey`, pure
  functions over strings and numbers; the alert thresholds compare the summary
  in `AlertRules`.
- The settings page, the stored preferences and the health panel.

Not planned: page layout, flag parsing and printing of the command
line, method and origin checks, JSON and CSV formats, mail templates, the
schema's statements, deployment files. They are stateless or pure input and
output. What request validation guarantees appears as an assumption on the
constants of the module behind it.
