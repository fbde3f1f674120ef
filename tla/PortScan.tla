------------------------------ MODULE PortScan ------------------------------
(***************************************************************************)
(* RunStreamContext of internal/portscan/portscan.go: a producer goroutine *)
(* hands ports over an unbuffered channel to a pool of workers, the        *)
(* workers dial and put results in a buffered channel, a closer goroutine  *)
(* closes it when the workers are gone, and the caller collects results    *)
(* until then.  The caller's context may be canceled at any moment, and a  *)
(* callback that fails cancels the scan from inside.                       *)
(***************************************************************************)
EXTENDS Naturals, Sequences, FiniteSets

CONSTANTS
  NPorts,    \* len(cfg.Ports), ports being numbered in their order
  Workers,   \* the worker goroutines, cfg.Concurrency of them
  States     \* what a dial finds when it is let finish

Ports == 1 .. NPorts
Canceled == "canceled"  \* the error of a closed result whose dial was canceled

ASSUME PoolAssumption ==
  /\ NPorts \in Nat \ {0}
  /\ IsFiniteSet(Workers) /\ Workers # {}
  /\ Canceled \notin States /\ States # {}

Outcome == [port : Ports, state : States \cup {Canceled}]
NoOutcome == [port |-> 0, state |-> Canceled]

VARIABLES
  parent,     \* the caller's context is done
  runCtx,     \* runCtx is done
  producer,   \* "new", "sending" or "closed" (the jobs channel)
  next,       \* the port the producer offers
  worker,     \* "new", "idle", "check", "dial", "send" or "exited", of each
  item,       \* the port, and later the result, of each worker
  resultsCh,  \* the buffered channel
  closed,     \* resultsCh is closed
  collector,  \* the caller: "resolve", "range", "call" or "returned"
  results,    \* its slice of results
  failed,     \* callbackErr # nil
  callbacks,  \* history: the results passed to onResult
  returned    \* "no", "ok" or "error"

poolVars == <<producer, next, worker, item>>
chanVars == <<resultsCh, closed>>
callerVars == <<collector, results, failed, callbacks, returned>>
vars == <<parent, runCtx, poolVars, chanVars, callerVars>>

Init ==
  /\ parent = FALSE /\ runCtx = FALSE
  /\ producer = "new" /\ next = 1
  /\ worker = [w \in Workers |-> "new"]
  /\ item = [w \in Workers |-> NoOutcome]
  /\ resultsCh = <<>> /\ closed = FALSE
  /\ collector = "resolve"
  /\ results = <<>> /\ failed = FALSE /\ callbacks = <<>>
  /\ returned = "no"

-----------------------------------------------------------------------------
(* The caller cancels: a stop request or a client that is gone. *)
CancelParent ==
  /\ ~parent /\ returned = "no"
  /\ parent' = TRUE /\ runCtx' = TRUE
  /\ UNCHANGED <<poolVars, chanVars, callerVars>>

(* The name is resolved, which a cancel may come too late to prevent, and  *)
(* the goroutines start.                                                   *)
Resolve ==
  /\ collector = "resolve"
  /\ collector' = "range"
  /\ producer' = "sending"
  /\ worker' = [w \in Workers |-> "idle"]
  /\ UNCHANGED <<parent, runCtx, next, item, chanVars>>
  /\ UNCHANGED <<results, failed, callbacks, returned>>

(* The name has no address, or the lookup is canceled: nothing starts. *)
ResolveFails ==
  /\ collector = "resolve"
  /\ collector' = "returned" /\ returned' = "error" /\ runCtx' = TRUE
  /\ UNCHANGED <<parent, poolVars, chanVars, results, failed, callbacks>>

-----------------------------------------------------------------------------
(* The unbuffered channel: the producer's send and a worker's receive are  *)
(* one step.                                                               *)
Handover(w) ==
  /\ producer = "sending" /\ next <= NPorts
  /\ worker[w] = "idle"
  /\ item' = [item EXCEPT ![w] = [port |-> next, state |-> Canceled]]
  /\ worker' = [worker EXCEPT ![w] = "check"]
  /\ next' = next + 1
  /\ UNCHANGED <<parent, runCtx, producer, chanVars, callerVars>>

(* Mutant: the producer goes on waiting for a worker after a cancel. *)
ProducerWaits ==
  /\ producer = "sending"
  /\ next > NPorts
  /\ producer' = "closed"
  /\ UNCHANGED <<parent, runCtx, next, worker, item, chanVars, callerVars>>

(* The deferred close(jobs): after the last port or when runCtx is done. *)
ProducerEnds ==
  /\ producer = "sending"
  /\ next > NPorts \/ runCtx
  /\ producer' = "closed"
  /\ UNCHANGED <<parent, runCtx, next, worker, item, chanVars, callerVars>>

WorkerAt(w, from, to) ==
  worker[w] = from /\ worker' = [worker EXCEPT ![w] = to]

(* The range over jobs ends when the channel is closed. *)
JobsClosed(w) ==
  /\ WorkerAt(w, "idle", "exited") /\ producer = "closed"
  /\ UNCHANGED <<parent, runCtx, producer, next, item, chanVars, callerVars>>

(* Before a dial a worker looks at runCtx, and drops its port. *)
Check(w) ==
  /\ \/ runCtx /\ WorkerAt(w, "check", "exited")
     \/ ~runCtx /\ WorkerAt(w, "check", "dial")
  /\ UNCHANGED <<parent, runCtx, producer, next, item, chanVars, callerVars>>

(* scanAcrossTargets and classifyError: a dial that is canceled reports a  *)
(* closed port whose error says canceled.                                  *)
Dial(w) ==
  /\ WorkerAt(w, "dial", "send")
  /\ \E s \in States \cup (IF runCtx THEN {Canceled} ELSE {}) :
       item' = [item EXCEPT ![w].state = s]
  /\ UNCHANGED <<parent, runCtx, producer, next, chanVars, callerVars>>

(* Mutant: the worker's select is in a loop that may send a result again. *)
SendTwice(w) ==
  /\ worker[w] = "send"
  /\ resultsCh' = Append(resultsCh, item[w])
  /\ worker' \in {worker, [worker EXCEPT ![w] = "idle"]}
  /\ UNCHANGED <<parent, runCtx, producer, next, item, closed, callerVars>>

(* resultsCh has room for every port, so the send never waits; when runCtx *)
(* is done the select may still prefer it.                                 *)
Send(w) ==
  /\ WorkerAt(w, "send", "idle")
  /\ Len(resultsCh) < NPorts
  /\ resultsCh' = Append(resultsCh, item[w])
  /\ UNCHANGED <<parent, runCtx, producer, next, item, closed, callerVars>>

GiveUp(w) ==
  /\ WorkerAt(w, "send", "exited") /\ runCtx
  /\ UNCHANGED <<parent, runCtx, producer, next, item, chanVars, callerVars>>

(* Mutant: the closer waits for the jobs channel, not for the workers. *)
CloseEarly ==
  /\ producer = "closed" /\ ~closed
  /\ closed' = TRUE
  /\ UNCHANGED <<parent, runCtx, poolVars, resultsCh, callerVars>>

(* wg.Wait(); close(resultsCh) *)
CloseResults ==
  /\ ~closed
  /\ \A w \in Workers : worker[w] = "exited"
  /\ closed' = TRUE
  /\ UNCHANGED <<parent, runCtx, poolVars, resultsCh, callerVars>>

-----------------------------------------------------------------------------
(* The caller takes a result; after a callback failed it only drains. *)
Collect ==
  /\ collector = "range" /\ resultsCh # <<>>
  /\ resultsCh' = Tail(resultsCh)
  /\ \/ /\ failed
        /\ UNCHANGED callerVars
     \/ /\ ~failed
        /\ results' = Append(results, Head(resultsCh))
        /\ collector' = "call"
        /\ UNCHANGED <<failed, callbacks, returned>>
  /\ UNCHANGED <<parent, runCtx, poolVars, closed>>

(* onResult: it succeeds, or its error cancels the scan. *)
Callback ==
  /\ collector = "call"
  /\ callbacks' = Append(callbacks, results[Len(results)])
  /\ collector' = "range"
  /\ \/ UNCHANGED <<runCtx, failed>>
     \/ runCtx' = TRUE /\ failed' = TRUE
  /\ UNCHANGED <<parent, poolVars, chanVars, results, returned>>

(* Mutant: the end of the results counts as success. *)
ReturnAlwaysOk ==
  /\ collector = "range" /\ closed /\ resultsCh = <<>>
  /\ returned' = IF failed THEN "error" ELSE "ok"
  /\ collector' = "returned"
  /\ runCtx' = TRUE
  /\ UNCHANGED <<parent, poolVars, chanVars, results, failed, callbacks>>

(* The range ends: an error of the callback or of the context is returned, *)
(* and the deferred cancel releases whoever still waits.                   *)
Return ==
  /\ collector = "range" /\ closed /\ resultsCh = <<>>
  /\ returned' = IF failed \/ runCtx THEN "error" ELSE "ok"
  /\ collector' = "returned"
  /\ runCtx' = TRUE
  /\ UNCHANGED <<parent, poolVars, chanVars, results, failed, callbacks>>

-----------------------------------------------------------------------------
WorkerStep(w) ==
  Handover(w) \/ JobsClosed(w) \/ Check(w) \/ Dial(w) \/ Send(w) \/ GiveUp(w)

CallerStep == Resolve \/ ResolveFails \/ Collect \/ Callback \/ Return

Next ==
  \/ CancelParent
  \/ \E w \in Workers : WorkerStep(w)
  \/ ProducerEnds \/ CloseResults
  \/ CallerStep

(* Every goroutine is scheduled and every dial has a timeout. *)
Fairness ==
  /\ \A w \in Workers : WF_vars(WorkerStep(w))
  /\ WF_vars(ProducerEnds) /\ WF_vars(CloseResults) /\ WF_vars(CallerStep)

Spec == Init /\ [][Next]_vars
FairSpec == Spec /\ Fairness

-----------------------------------------------------------------------------
Elems(s) == {s[i] : i \in DOMAIN s}

(* Values of the variables. *)
TypeOK ==
  /\ parent \in BOOLEAN /\ runCtx \in BOOLEAN /\ closed \in BOOLEAN
  /\ producer \in {"new", "sending", "closed"}
  /\ next \in 1 .. NPorts + 1
  /\ worker \in [Workers -> {"new", "idle", "check", "dial", "send", "exited"}]
  /\ item \in [Workers -> Outcome \cup {NoOutcome}]
  /\ resultsCh \in Seq(Outcome) /\ Len(resultsCh) <= NPorts
  /\ collector \in {"resolve", "range", "call", "returned"}
  /\ results \in Seq(Outcome) /\ callbacks \in Seq(Outcome)
  /\ failed \in BOOLEAN /\ returned \in {"no", "ok", "error"}

(* A port handed out is in one place only: with one worker, in the channel *)
(* or in the results, whatever the scheduling.                             *)
Busy(w) == worker[w] \in {"check", "dial", "send"}
EachPortOnce ==
  LET seen == [i \in DOMAIN results |-> results[i].port]
      held == [i \in DOMAIN resultsCh |-> resultsCh[i].port]
      all == seen \o held
  IN /\ \A i, j \in DOMAIN all : all[i] = all[j] => i = j
     /\ \A w \in Workers : Busy(w) => item[w].port \notin Elems(all)
     /\ \A v, w \in Workers :
          Busy(v) /\ Busy(w) /\ item[v].port = item[w].port => v = w

(* When the scan returns, no worker is left dialing or holding a result,   *)
(* and the callback saw exactly the results of the report, as they came.   *)
ReturnsLast ==
  returned # "no" =>
    /\ \A w \in Workers : worker[w] \in {"new", "exited"}
    /\ resultsCh = <<>>
    /\ callbacks = results

(* A scan returns, and then all its goroutines end. *)
AllEnd ==
  <>(returned # "no") /\
  (producer = "sending" ~> /\ producer = "closed" /\ closed
                           /\ \A w \in Workers : worker[w] = "exited")

(* PortScan implements ScanPromise: no port is reported twice, and a scan   *)
(* that returns without error reported every port and no canceled dial.     *)
Promise == INSTANCE ScanPromise
  WITH reported <- Elems(results)
Implements == Promise!Spec

-----------------------------------------------------------------------------
(* Where the ports are that were handed out. *)
PortsOf(s) == {s[i].port : i \in DOMAIN s}
HeldPorts == {item[w].port : w \in {v \in Workers : Busy(v)}}

(* Every port before next was handed out once: the three places it may be  *)
(* in are disjoint and each holds it once.                                  *)
PlaceInv ==
  /\ \A w \in Workers : Busy(w) => item[w] \in Outcome /\ item[w].port < next
  /\ \A v, w \in Workers :
       Busy(v) /\ Busy(w) /\ item[v].port = item[w].port => v = w
  /\ \A i, j \in DOMAIN resultsCh : resultsCh[i].port = resultsCh[j].port => i = j
  /\ \A i, j \in DOMAIN results : results[i].port = results[j].port => i = j
  /\ \A i \in DOMAIN results : results[i].port < next
  /\ \A i \in DOMAIN resultsCh : resultsCh[i].port < next
  /\ PortsOf(results) \cap PortsOf(resultsCh) = {}
  /\ HeldPorts \cap (PortsOf(results) \cup PortsOf(resultsCh)) = {}

(* Until the context is done nothing is lost, no dial is canceled and no   *)
(* worker leaves before the last port is handed out.                       *)
NothingLost ==
  ~runCtx =>
    /\ ~failed
    /\ \A p \in 1 .. next - 1 :
         p \in HeldPorts \cup PortsOf(resultsCh) \cup PortsOf(results)
    /\ producer = "closed" => next = NPorts + 1
    /\ \A w \in Workers : worker[w] = "exited" => producer = "closed"
    /\ \A w \in Workers : worker[w] = "send" => item[w].state # Canceled
    /\ \A i \in DOMAIN resultsCh : resultsCh[i].state # Canceled
    /\ \A i \in DOMAIN results : results[i].state # Canceled

(* The stages of the caller and what they say of the goroutines.           *)
CallerInv ==
  /\ returned # "no" <=> collector = "returned"
  /\ collector = "resolve" =>
       /\ producer = "new" /\ results = <<>> /\ resultsCh = <<>> /\ ~closed
       /\ \A w \in Workers : worker[w] = "new"
  /\ collector \in {"range", "call"} => \A w \in Workers : worker[w] # "new"
  /\ closed => \A w \in Workers : worker[w] = "exited"
  /\ collector = "returned" =>
       /\ resultsCh = <<>>
       /\ \/ \A w \in Workers : worker[w] = "new"
          \/ \A w \in Workers : worker[w] = "exited"
  /\ collector = "call" =>
       results # <<>> /\ results = Append(callbacks, results[Len(results)])
  /\ collector # "call" => callbacks = results

IInv == TypeOK /\ PlaceInv /\ NothingLost /\ CallerInv
=============================================================================
