---------------------------- MODULE ProbeSession ----------------------------
(***************************************************************************)
(* Live probe runs over WebSocket (handleWS, wsSession, runWSRequest and   *)
(* the stream functions of cmd/netwatcher/main.go, RunStreamContext of     *)
(* internal/ping, internal/tcpping and internal/portscan) and the slots    *)
(* that bound the probes of the whole server (probeLimiter), which the     *)
(* HTTP handlers share.                                                    *)
(*                                                                         *)
(* Each connection has a handler goroutine that reads messages and at most *)
(* one run goroutine; `stop` and the end of the handler cancel the context *)
(* of the run, which notices when it looks at it.  A run pings a host, one *)
(* probe after another, or scans ports with a pool of workers; of the scan *)
(* this module keeps what the session sees, PortScan models the pool.      *)
(* A browser sends no messages during a run and the server no pings, so a  *)
(* handler that reads nothing for ReadTimeout ends.                        *)
(***************************************************************************)
EXTENDS Naturals, Sequences, FiniteSets

CONSTANTS
  Conns,        \* WebSocket connections
  Handlers,     \* HTTP probe handlers
  MaxSlots,     \* maxConcurrentProbes
  MaxCount,     \* results of the longest run the limits accept
  MaxWorkers,   \* cfg.Concurrency of a port scan
  ReadTimeout,  \* wsReadTimeout, in ticks
  MaxMessages   \* bound: messages a client sends

ASSUME SizeAssumption ==
  /\ MaxSlots \in Nat \ {0} /\ MaxCount \in Nat \ {0} /\ MaxWorkers \in Nat \ {0}
  /\ ReadTimeout \in Nat /\ MaxMessages \in Nat
  /\ IsFiniteSet(Conns) /\ IsFiniteSet(Handlers)

Terminal == {"summary", "stopped", "error"}
Event == {"result"} \cup Terminal
Kinds == {"ping", "scan"}
Phases == {"none", "new", "running", "ended", "released"}
Reasons == {"no", "stop", "gone", "timeout"}

VARIABLES
  client,     \* the client's side of each connection: "open" or "gone"
  sent,       \* messages it sent
  inbox,      \* those the handler has not read
  handler,    \* the handler goroutine: "reading" or "returned"
  idle,       \* ticks since the read deadline was set
  phase,      \* the run goroutine; session.cancel is nil in "none" only
  canceled,   \* why the context of the run is done, or "no"
  kind,       \* what the run does: "ping" (or tcpping) or "scan"
  todo,       \* probes it has not begun
  dialing,    \* probes under way
  ready,      \* results in resultsCh of a scan
  used,       \* tokens in probeLimiter
  probing,    \* HTTP handlers that hold a slot
  got,        \* events of the run that reached the client
  due,        \* history: probes begun and not reported when its context was done
  late        \* history: results it produced after its context was done

connVars == <<client, sent, inbox, handler, idle>>
workVars == <<kind, todo, dialing, ready>>
historyVars == <<due, late>>
runVars == <<phase, canceled, workVars, got, historyVars>>
slotVars == <<used, probing>>
vars == <<connVars, runVars, slotVars>>

Init ==
  /\ client = [c \in Conns |-> "open"]
  /\ sent = [c \in Conns |-> 0]
  /\ inbox = [c \in Conns |-> <<>>]
  /\ handler = [c \in Conns |-> "reading"]
  /\ idle = [c \in Conns |-> 0]
  /\ phase = [c \in Conns |-> "none"]
  /\ canceled = [c \in Conns |-> "no"]
  /\ kind = [c \in Conns |-> "ping"]
  /\ todo = [c \in Conns |-> 0]
  /\ dialing = [c \in Conns |-> 0]
  /\ ready = [c \in Conns |-> 0]
  /\ got = [c \in Conns |-> <<>>]
  /\ due = [c \in Conns |-> 0]
  /\ late = [c \in Conns |-> 0]
  /\ used = 0
  /\ probing = {}

-----------------------------------------------------------------------------
(* The client. *)
SendMessage(c, type) ==
  /\ client[c] = "open" /\ handler[c] = "reading"
  /\ sent[c] < MaxMessages
  /\ sent' = [sent EXCEPT ![c] = @ + 1]
  /\ inbox' = [inbox EXCEPT ![c] = Append(@, type)]
  /\ UNCHANGED <<client, handler, idle, runVars, slotVars>>

Disconnect(c) ==
  /\ client[c] = "open"
  /\ client' = [client EXCEPT ![c] = "gone"]
  /\ UNCHANGED <<sent, inbox, handler, idle, runVars, slotVars>>

-----------------------------------------------------------------------------
(* The read loop of handleWS: every message restarts the read deadline. *)
Read(c, type) ==
  /\ handler[c] = "reading"
  /\ inbox[c] # <<>> /\ Head(inbox[c]) = type
  /\ inbox' = [inbox EXCEPT ![c] = Tail(@)]
  /\ idle' = [idle EXCEPT ![c] = 0]
  /\ UNCHANGED <<client, sent, handler, slotVars>>

(* Mutant: a request during a run starts another run. *)
ReadRunOverlaps(c) ==
  /\ Read(c, "run")
  /\ phase' = [phase EXCEPT ![c] = "new"]
  /\ UNCHANGED <<canceled, workVars, got, historyVars>>

(* session.start: one run at a time; another request is answered with an  *)
(* error that belongs to no run.                                           *)
ReadRun(c) ==
  /\ Read(c, "run")
  /\ phase' = [phase EXCEPT ![c] = IF @ = "none" THEN "new" ELSE @]
  /\ UNCHANGED <<canceled, workVars, got, historyVars>>

(* The context of the run that the session has is done from now on. *)
Cancel(c, why) ==
  LET cancels == phase[c] # "none" /\ canceled[c] = "no" IN
  /\ canceled' = [canceled EXCEPT ![c] = IF cancels THEN why ELSE @]
  /\ due' = [due EXCEPT ![c] = IF cancels THEN dialing[c] + ready[c] ELSE @]

(* session.stop cancels the run there is; without one it answers with an  *)
(* error.                                                                  *)
ReadStop(c) ==
  /\ Read(c, "stop")
  /\ Cancel(c, "stop")
  /\ UNCHANGED <<phase, workVars, got, late>>

(* Mutant: the handler notices a client that is gone only by the deadline, *)
(* which has not been set.                                                  *)
ReadEndsByDeadline(c) ==
  /\ handler[c] = "reading"
  /\ idle[c] > ReadTimeout /\ Cancel(c, "timeout")
  /\ handler' = [handler EXCEPT ![c] = "returned"]
  /\ inbox' = [inbox EXCEPT ![c] = <<>>]
  /\ UNCHANGED <<client, sent, idle, phase, workVars, got, late, slotVars>>

(* ReadJSON fails: the client is gone or the deadline has passed.  The     *)
(* deferred calls cancel the run and close the connection, with what it    *)
(* has not read.                                                           *)
ReadEnds(c) ==
  /\ handler[c] = "reading"
  /\ \/ client[c] = "gone" /\ inbox[c] = <<>> /\ Cancel(c, "gone")
     \/ idle[c] >= ReadTimeout /\ Cancel(c, "timeout")
  /\ handler' = [handler EXCEPT ![c] = "returned"]
  /\ inbox' = [inbox EXCEPT ![c] = <<>>]
  /\ UNCHANGED <<client, sent, idle, phase, workVars, got, late, slotVars>>

-----------------------------------------------------------------------------
(* WriteEvent: it reaches the client while both ends are open; a write to  *)
(* a client that is gone may fail or disappear in the socket.              *)
Reaches(c) == client[c] = "open" /\ handler[c] = "reading"
MayFail(c) == client[c] = "gone" \/ handler[c] = "returned"
MaySucceed(c) == handler[c] = "reading"
Emit(c, type) ==
  got' = [got EXCEPT ![c] = IF Reaches(c) THEN Append(@, type) ELSE @]

(* tryAcquireProbeSlot, at the start of the stream function. *)
Acquire(c) ==
  /\ phase[c] = "new"
  /\ used < MaxSlots
  /\ used' = used + 1
  /\ phase' = [phase EXCEPT ![c] = "running"]
  /\ \E k \in Kinds : kind' = [kind EXCEPT ![c] = k]
  /\ \E n \in 1 .. MaxCount : todo' = [todo EXCEPT ![c] = n]
  /\ UNCHANGED <<connVars, canceled, dialing, ready, got, historyVars, probing>>

(* Mutant: a run that found no slot releases one. *)
BusyReleases(c) ==
  /\ phase[c] = "new"
  /\ used = MaxSlots
  /\ Emit(c, "error")
  /\ phase' = [phase EXCEPT ![c] = "ended"]
  /\ UNCHANGED <<connVars, canceled, workVars, historyVars, slotVars>>

Busy(c) ==
  /\ phase[c] = "new"
  /\ used = MaxSlots
  /\ Emit(c, "error")
  /\ phase' = [phase EXCEPT ![c] = "released"]
  /\ UNCHANGED <<connVars, canceled, workVars, historyVars, slotVars>>

(* With a slot in hand the request proves invalid, its host unknown or the *)
(* socket unavailable.                                                      *)
Fails(c) ==
  /\ phase[c] = "new"
  /\ used < MaxSlots
  /\ used' = used + 1
  /\ Emit(c, "error")
  /\ phase' = [phase EXCEPT ![c] = "ended"]
  /\ UNCHANGED <<connVars, canceled, workVars, historyVars, probing>>

(* Probes at a time: one of a ping, one per worker of a scan. *)
Width(c) == IF kind[c] = "scan" THEN MaxWorkers ELSE 1

Begin(c) ==
  /\ phase[c] = "running"
  /\ todo[c] > 0 /\ dialing[c] < Width(c)
  /\ todo' = [todo EXCEPT ![c] = @ - 1]
  /\ dialing' = [dialing EXCEPT ![c] = @ + 1]
  /\ UNCHANGED <<connVars, phase, canceled, kind, ready, got, historyVars, slotVars>>

(* Mutant: neither the loop nor a worker looks at the context. *)
NextProbeBlind(c) == Begin(c)

(* The loop of a ping and every worker of a scan look at the context       *)
(* before each probe; the pause between two pings and the channel of the   *)
(* ports may miss it, but not they.                                        *)
NextProbe(c) == canceled[c] = "no" /\ Begin(c)

(* A dial of a scan ends, and its worker sends the result; once the        *)
(* context is done the worker may return instead.                          *)
DialEnds(c) ==
  /\ kind[c] = "scan" /\ dialing[c] > 0
  /\ dialing' = [dialing EXCEPT ![c] = @ - 1]
  /\ \/ ready' = [ready EXCEPT ![c] = @ + 1]
     \/ canceled[c] # "no" /\ UNCHANGED ready
  /\ UNCHANGED <<connVars, phase, canceled, kind, todo, got, historyVars, slotVars>>

(* A ping that answered or timed out, or a result of the scan's channel,   *)
(* goes to onResult, even when the context was done a moment ago.          *)
Produces(c) ==
  /\ phase[c] = "running"
  /\ IF kind[c] = "scan" THEN ready[c] > 0 ELSE dialing[c] > 0
  /\ late' = [late EXCEPT ![c] = IF canceled[c] # "no" THEN @ + 1 ELSE @]
  /\ UNCHANGED <<connVars, canceled, kind, due, slotVars>>

(* onResult stores and writes the result.  After the last probe of a ping  *)
(* comes the summary.                                                      *)
PingResult(c) ==
  /\ Produces(c) /\ kind[c] = "ping" /\ MaySucceed(c)
  /\ dialing' = [dialing EXCEPT ![c] = @ - 1]
  /\ UNCHANGED <<todo, ready>>
  /\ IF todo[c] > 0
       THEN /\ Emit(c, "result")
            /\ UNCHANGED phase
       ELSE /\ got' = [got EXCEPT ![c] =
                 IF Reaches(c) THEN @ \o <<"result", "summary">> ELSE @]
            /\ phase' = [phase EXCEPT ![c] = "ended"]

ScanResult(c) ==
  /\ Produces(c) /\ kind[c] = "scan" /\ MaySucceed(c)
  /\ ready' = [ready EXCEPT ![c] = @ - 1]
  /\ Emit(c, "result")
  /\ UNCHANGED <<phase, todo, dialing>>

(* onResult returns the error of the write, and the run ends with it; a    *)
(* scan cancels its workers and drops what they still send.                *)
ResultLost(c) ==
  /\ Produces(c) /\ MayFail(c)
  /\ todo' = [todo EXCEPT ![c] = 0]
  /\ dialing' = [dialing EXCEPT ![c] = 0]
  /\ ready' = [ready EXCEPT ![c] = 0]
  /\ phase' = [phase EXCEPT ![c] = "ended"]
  /\ UNCHANGED got

(* resultsCh is closed, after the last worker, and drained. *)
Drained(c) == kind[c] = "scan" /\ dialing[c] = 0 /\ ready[c] = 0

ScanSummary(c) ==
  /\ phase[c] = "running" /\ canceled[c] = "no"
  /\ Drained(c) /\ todo[c] = 0
  /\ Emit(c, "summary")
  /\ phase' = [phase EXCEPT ![c] = "ended"]
  /\ UNCHANGED <<connVars, canceled, workVars, historyVars, slotVars>>

(* A ping ends with the error of its context, at the head of the loop or   *)
(* in the middle of a probe; a scan once its results are drained, even     *)
(* when they are complete.                                                 *)
Stopped(c) ==
  /\ phase[c] = "running" /\ canceled[c] # "no"
  /\ kind[c] = "ping" \/ Drained(c)
  /\ Emit(c, "stopped")
  /\ todo' = [todo EXCEPT ![c] = 0]
  /\ dialing' = [dialing EXCEPT ![c] = 0]
  /\ phase' = [phase EXCEPT ![c] = "ended"]
  /\ UNCHANGED <<connVars, canceled, kind, ready, historyVars, slotVars>>

(* The stream function returns: its deferred release gives the slot back. *)
Release(c) ==
  /\ phase[c] = "ended"
  /\ used' = used - 1
  /\ phase' = [phase EXCEPT ![c] = "released"]
  /\ UNCHANGED <<connVars, canceled, workVars, got, historyVars, probing>>

(* session.clear: only now another run may start. *)
Forget(c) ==
  /\ phase[c] = "released"
  /\ phase' = [phase EXCEPT ![c] = "none"]
  /\ canceled' = [canceled EXCEPT ![c] = "no"]
  /\ kind' = [kind EXCEPT ![c] = "ping"]
  /\ got' = [got EXCEPT ![c] = <<>>]
  /\ due' = [due EXCEPT ![c] = 0]
  /\ late' = [late EXCEPT ![c] = 0]
  /\ UNCHANGED <<connVars, todo, dialing, ready, slotVars>>

(* Mutant: a run that was canceled does not clear the session. *)
ClearUnlessCanceled(c) == canceled[c] = "no" /\ Forget(c)

Clear(c) == Forget(c)

-----------------------------------------------------------------------------
(* handlePing, handleTCPPing and handlePortScan hold a slot for their run *)
(* and answer 429 when there is none.                                      *)
HttpProbe(h) ==
  /\ h \notin probing
  /\ used < MaxSlots
  /\ used' = used + 1
  /\ probing' = probing \cup {h}
  /\ UNCHANGED <<connVars, runVars>>

HttpReply(h) ==
  /\ h \in probing
  /\ used' = used - 1
  /\ probing' = probing \ {h}
  /\ UNCHANGED <<connVars, runVars>>

(* Time passes for the read deadlines while the runs wait for an answer or *)
(* for the pause between two probes to end.                                 *)
Tick ==
  /\ \A c \in Conns : phase[c] \in {"none", "running"}
  /\ \E c \in Conns : handler[c] = "reading" /\ idle[c] < ReadTimeout
  /\ idle' = [c \in Conns |->
       IF handler[c] = "reading" /\ idle[c] < ReadTimeout
         THEN idle[c] + 1 ELSE idle[c]]
  /\ UNCHANGED <<client, sent, inbox, handler, runVars, slotVars>>

RunStep(c) ==
  \/ Acquire(c) \/ Busy(c) \/ Fails(c)
  \/ NextProbe(c) \/ DialEnds(c) \/ PingResult(c) \/ ScanResult(c) \/ ResultLost(c)
  \/ ScanSummary(c) \/ Stopped(c) \/ Release(c) \/ Clear(c)

Next ==
  \/ \E c \in Conns :
       \/ SendMessage(c, "run") \/ SendMessage(c, "stop") \/ Disconnect(c)
       \/ ReadRun(c) \/ ReadStop(c) \/ ReadEnds(c)
       \/ RunStep(c)
  \/ \E h \in Handlers : HttpProbe(h) \/ HttpReply(h)
  \/ Tick

(* Goroutines are scheduled and every probe has a timeout, so a run moves; *)
(* a handler reads what there is; nobody has to send, leave or wait.       *)
Fairness ==
  \A c \in Conns :
    /\ WF_vars(RunStep(c))
    /\ WF_vars(ReadRun(c) \/ ReadStop(c) \/ ReadEnds(c))

Spec == Init /\ [][Next]_vars
FairSpec == Spec /\ Fairness

-----------------------------------------------------------------------------
(* Values of the variables. *)
TypeOK ==
  /\ client \in [Conns -> {"open", "gone"}]
  /\ sent \in [Conns -> 0 .. MaxMessages]
  /\ inbox \in [Conns -> Seq({"run", "stop"})]
  /\ handler \in [Conns -> {"reading", "returned"}]
  /\ idle \in [Conns -> 0 .. ReadTimeout]
  /\ phase \in [Conns -> Phases]
  /\ canceled \in [Conns -> Reasons]
  /\ kind \in [Conns -> Kinds]
  /\ todo \in [Conns -> Nat] /\ dialing \in [Conns -> Nat]
  /\ ready \in [Conns -> Nat]
  /\ got \in [Conns -> Seq(Event)]
  /\ due \in [Conns -> Nat] /\ late \in [Conns -> Nat]
  /\ used \in Nat /\ probing \subseteq Handlers

(* Slots are neither lost nor invented: the tokens in the limiter are the *)
(* runs and HTTP probes in progress, and never more than MaxSlots, however *)
(* runs end - completed, stopped, failed, refused or disconnected.         *)
Holding == {c \in Conns : phase[c] \in {"running", "ended"}}
SlotsConserved ==
  /\ used = Cardinality(Holding) + Cardinality(probing)
  /\ used <= MaxSlots

(* A client that stays sees each run end exactly once: until the run ends  *)
(* only results, and then one summary, stopped or error event, with nothing *)
(* after it.                                                                 *)
Over(c) == phase[c] = "ended" \/ phase[c] = "released"
EndsOnce ==
  \A c \in Conns :
    LET Ends == {i \in DOMAIN got[c] : got[c][i] \in Terminal} IN
    /\ Ends \subseteq {Len(got[c])}
    /\ Reaches(c) /\ Over(c) => Ends # {}
    /\ phase[c] \in {"new", "running"} => Ends = {}

(* Stop is prompt: after its context is done a run begins no probe, so it  *)
(* produces at most the results of the probes it had begun and not yet     *)
(* reported: one of a ping, and of a scan what its workers dial or its     *)
(* channel holds at that moment, which the caller still drains.            *)
StopsSoon ==
  \A c \in Conns :
    /\ late[c] <= due[c]
    /\ kind[c] = "ping" => late[c] <= 1

(* Every run ends and leaves the session free for the next one. *)
RunsEnd == \A c \in Conns : phase[c] # "none" ~> phase[c] = "none"

(* A client that vanishes leaves nothing behind: its handler returns and   *)
(* its run ends.                                                            *)
VanishedEnds ==
  \A c \in Conns :
    client[c] = "gone" ~> handler[c] = "returned" /\ phase[c] = "none"

(* A run that the limits accept ends by itself or because its client wants *)
(* it to: no timeout of the connection cuts it.                             *)
RunsToTheEnd == \A c \in Conns : canceled[c] # "timeout"

-----------------------------------------------------------------------------
(* The probes that began before the context was done are those reported    *)
(* since and those still to be reported; a ping has one probe at a time    *)
(* and one to come; a session without a run has no events.                 *)
RunInv ==
  \A c \in Conns :
    /\ canceled[c] # "no" => late[c] + dialing[c] + ready[c] <= due[c]
    /\ canceled[c] = "no" => due[c] = 0 /\ late[c] = 0
    /\ kind[c] = "ping" => ready[c] = 0 /\ dialing[c] <= 1 /\ due[c] <= 1
    /\ phase[c] # "running" => todo[c] = 0 /\ dialing[c] = 0 /\ ready[c] = 0
    /\ phase[c] \in {"none", "new"} => kind[c] = "ping"
    /\ phase[c] = "none" => got[c] = <<>> /\ canceled[c] = "no"

IInv == TypeOK /\ SlotsConserved /\ EndsOnce /\ StopsSoon /\ RunInv
=============================================================================
