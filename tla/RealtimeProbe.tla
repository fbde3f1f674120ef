---------------------------- MODULE RealtimeProbe ----------------------------
(***************************************************************************)
(* One tool page of the dashboard (ICMP ping, TCP ping or port scan): the  *)
(* hook useRealtimeProbe, its WebSocket with the HTTP request it falls     *)
(* back to, the buttons of the page, and the feed of live samples it       *)
(* publishes for the overview.                                             *)
(*                                                                         *)
(* Every action is one task of the browser's event loop.  The promise of   *)
(* a fetch that was aborted settles in the microtasks of the task that     *)
(* aborted it, so HttpAborted precedes every other event (Quiet).  send of *)
(* an open socket does not throw: the catch of the open listener is not    *)
(* taken.  A run is identified with its token, its socket and its          *)
(* controller, of which it has at most one each.                           *)
(***************************************************************************)
EXTENDS Naturals, Sequences

CONSTANTS
  MaxRuns,      \* bound: how often the form is submitted
  MaxResults,   \* bound: results of one run
  Kinds         \* the config.type of the pages considered

ASSUME RunsAssumption == MaxRuns \in Nat \ {0}
ASSUME ResultsAssumption == MaxResults \in Nat \ {0}

Runs == 1 .. MaxRuns
NoRun == 0

VARIABLES
  kind,           \* config.type
  hasWebSocket,   \* the browser has WebSocket and getRealtimeWebSocketURL
                  \* gives an address
  mounted,        \* mountedRef
  token,          \* runTokenRef
  stopRequested,  \* stopRequestedRef
  socketRef,      \* socketRef: the run whose socket it holds, or NoRun
  abortRef,       \* abortRef: the run whose controller it holds, or NoRun
  runState,
  formError,      \* a message is shown
  report,         \* the run it shows, its results, the summary it ended with
  ready,          \* state of the socket of each run
  dispatched,     \* requestDispatched of each run
  finished,       \* finished of each run
  fallback,       \* fallbackStarted of each run
  http,           \* the HTTP request of each run
  asked,          \* how often each run was sent to the server
  stopAsked,      \* the stop message of a run is on its way
  sent,           \* results the server has sent of each run
  posted          \* live samples published by this page, in order

refs == <<mounted, token, stopRequested, socketRef, abortRef>>
shown == <<runState, formError, report>>
sockets == <<ready, dispatched, finished, fallback>>
server == <<asked, stopAsked, sent>>
vars == <<kind, hasWebSocket, refs, shown, sockets, http, server, posted>>

RunStates ==
  {"idle", "connecting", "running", "stopping", "done", "stopped", "error"}
\* "failing": close() was called before the socket was open
ReadyStates == {"none", "connecting", "open", "failing", "closing", "closed"}
HttpStates == {"none", "flying", "aborted", "settled"}

InitialReport(t) == [run |-> t, results |-> <<>>, summary |-> "none"]

Init ==
  /\ kind \in Kinds
  /\ hasWebSocket \in BOOLEAN
  /\ mounted = TRUE /\ token = NoRun /\ stopRequested = FALSE
  /\ socketRef = NoRun /\ abortRef = NoRun
  /\ runState = "idle" /\ formError = FALSE /\ report = InitialReport(NoRun)
  /\ ready = [t \in Runs |-> "none"]
  /\ dispatched = [t \in Runs |-> FALSE]
  /\ finished = [t \in Runs |-> FALSE]
  /\ fallback = [t \in Runs |-> FALSE]
  /\ http = [t \in Runs |-> "none"]
  /\ asked = [t \in Runs |-> 0]
  /\ stopAsked = [t \in Runs |-> FALSE]
  /\ sent = [t \in Runs |-> 0]
  /\ posted = <<>>

isBusy == runState \in {"connecting", "running", "stopping"}

\* The check every listener but that of open starts with.
CurrentIfMounted(t) == mounted
Current(t) == mounted /\ token = t

\* No microtask is waiting.
Quiet == \A t \in Runs : http[t] # "aborted"

(* socket.close() and controller.abort() of what a ref holds *)
CloseSocket(t) ==
  [r \in Runs |-> IF r # t THEN ready[r]
                  ELSE CASE ready[r] = "connecting" -> "failing"
                         [] ready[r] = "open" -> "closing"
                         [] OTHER -> ready[r]]

AbortRequest(t) ==
  [r \in Runs |-> IF r = t /\ http[r] = "flying" THEN "aborted" ELSE http[r]]

(* mergeStreamEvent, and the sample published for a result *)
MergeResultIntoInitial(x) == [InitialReport(token) EXCEPT !.results = <<x>>]
MergeResult(x) == [report EXCEPT !.results = Append(@, x)]
MergeAnyEnd(e) == [report EXCEPT !.summary = e]
MergeSummary(e) == IF e = "error" THEN report ELSE [report EXCEPT !.summary = e]
Publish(xs) == IF kind = "portscan" THEN posted ELSE posted \o xs

(* ---------------- the buttons and the life of the page ---------------- *)
(* The form may be submitted while a run is under way; the Stop button is  *)
(* disabled unless the page is busy.                                        *)
MaySubmit == mounted /\ Quiet /\ token < MaxRuns
MayStop == mounted /\ Quiet /\ isBusy

(* run: clearActive, a new token, then a socket, or HTTP where there is no *)
(* WebSocket.                                                               *)
Run ==
  /\ MaySubmit
  /\ token' = token + 1
  /\ stopRequested' = FALSE
  /\ formError' = FALSE
  /\ report' = InitialReport(token + 1)
  /\ IF hasWebSocket
     THEN /\ ready' = [CloseSocket(socketRef) EXCEPT ![token + 1] = "connecting"]
          /\ http' = AbortRequest(abortRef)
          /\ socketRef' = token + 1 /\ abortRef' = NoRun
          /\ runState' = "connecting"
          /\ UNCHANGED asked
     ELSE /\ ready' = CloseSocket(socketRef)
          /\ http' = [AbortRequest(abortRef) EXCEPT ![token + 1] = "flying"]
          /\ socketRef' = NoRun /\ abortRef' = token + 1
          /\ runState' = "running"
          /\ asked' = [asked EXCEPT ![token + 1] = @ + 1]
  /\ UNCHANGED <<kind, hasWebSocket, mounted, dispatched, finished, fallback,
                 stopAsked, sent, posted>>

Stop ==
  /\ MayStop
  /\ stopRequested' = TRUE
  /\ runState' = "stopping"
  /\ IF socketRef # NoRun
     THEN /\ IF ready[socketRef] = "open"
             THEN /\ stopAsked' = [stopAsked EXCEPT ![socketRef] = TRUE]
                  /\ UNCHANGED ready
             ELSE /\ ready' = CloseSocket(socketRef)
                  /\ UNCHANGED stopAsked
          /\ UNCHANGED http
     ELSE /\ http' = AbortRequest(abortRef)
          /\ UNCHANGED <<ready, stopAsked>>
  /\ UNCHANGED <<kind, hasWebSocket, mounted, token, socketRef, abortRef,
                 formError, report, dispatched, finished, fallback, asked,
                 sent, posted>>

(* The page is left: the cleanup of the effect runs clearActive.           *)
Unmount ==
  /\ mounted /\ Quiet
  /\ mounted' = FALSE
  /\ ready' = CloseSocket(socketRef) /\ socketRef' = NoRun
  /\ http' = AbortRequest(abortRef) /\ abortRef' = NoRun
  /\ stopRequested' = FALSE
  /\ UNCHANGED <<kind, hasWebSocket, token, shown, dispatched, finished,
                 fallback, server, posted>>

(* --------------------------- the WebSocket ---------------------------- *)
(* The open listener checks neither the token nor that the page is there.  *)
Opens(t) ==
  /\ Quiet /\ ready[t] = "connecting"
  /\ ready' = [ready EXCEPT ![t] = "open"]
  /\ dispatched' = [dispatched EXCEPT ![t] = TRUE]
  /\ asked' = [asked EXCEPT ![t] = @ + 1]
  /\ runState' = "running"
  /\ UNCHANGED <<kind, hasWebSocket, refs, formError, report, finished,
                 fallback, http, stopAsked, sent, posted>>

(* The message listener on a result.                                       *)
ResultArrives(t) ==
  /\ Quiet /\ ready[t] = "open" /\ sent[t] < MaxResults
  /\ sent' = [sent EXCEPT ![t] = @ + 1]
  /\ IF Current(t)
     THEN /\ report' = MergeResult(<<t, sent'[t]>>)
          /\ posted' = Publish(<<(<<t, sent'[t]>>)>>)
     ELSE UNCHANGED <<report, posted>>
  /\ UNCHANGED <<kind, hasWebSocket, refs, runState, formError, sockets, http,
                 asked, stopAsked>>

(* The message listener on the event that ends a run.  The server answers  *)
(* "stopped" to a stop message only, but a stop may come too late.         *)
RunEnds(t, e) ==
  /\ Quiet /\ ready[t] = "open"
  /\ e = "summary" => sent[t] > 0
  /\ e = "stopped" => stopAsked[t]
  /\ Current(t)
  /\ finished' = [finished EXCEPT ![t] = TRUE]
  /\ ready' = CloseSocket(t)
  /\ CASE e = "summary" -> runState' = "done"
       [] e = "stopped" -> runState' = "stopped"
       [] e = "error" -> runState' = "error"
  /\ report' = MergeSummary(e)
  /\ formError' = (formError \/ e = "error")
  /\ UNCHANGED <<kind, hasWebSocket, refs, dispatched, fallback, http, server,
                 posted>>

MayFallBackAgain(t) == ~fallback[t]
MayFallBack(t) == ~dispatched[t] /\ ~fallback[t]

StartFallbackUnreachable(t) ==
  /\ fallback' = [fallback EXCEPT ![t] = TRUE]
  /\ http' = [http EXCEPT ![t] = "flying"]
  /\ abortRef' = abortRef
  /\ runState' = "running"
  /\ asked' = [asked EXCEPT ![t] = @ + 1]
  /\ UNCHANGED <<formError, finished>>

StartFallback(t) ==
  /\ fallback' = [fallback EXCEPT ![t] = TRUE]
  /\ http' = [http EXCEPT ![t] = "flying"]
  /\ abortRef' = t
  /\ runState' = "running"
  /\ asked' = [asked EXCEPT ![t] = @ + 1]
  /\ UNCHANGED <<formError, finished>>

(* The connection cannot be made, was closed before it was made, or        *)
(* breaks: the browser fires error and then, in the same task, close.      *)
SocketFails(t) ==
  /\ Quiet /\ ready[t] \in {"connecting", "failing", "open"}
  /\ ready' = [ready EXCEPT ![t] = "closed"]
  /\ IF Current(t)
     THEN /\ socketRef' = NoRun
          /\ IF MayFallBack(t)
             THEN StartFallback(t)
             ELSE /\ finished' = [finished EXCEPT ![t] = TRUE]
                  /\ formError' = TRUE /\ runState' = "error"
                  /\ UNCHANGED <<fallback, http, abortRef, asked>>
     ELSE UNCHANGED <<socketRef, abortRef, runState, formError, finished,
                      fallback, http, asked>>
  /\ UNCHANGED <<kind, hasWebSocket, mounted, token, stopRequested, report,
                 dispatched, stopAsked, sent, posted>>

(* The socket closes without an error: the closing handshake is over, the  *)
(* server closed the connection, or it was lost.                           *)
SocketCloses(t) ==
  /\ Quiet /\ ready[t] \in {"open", "closing"}
  /\ ready' = [ready EXCEPT ![t] = "closed"]
  /\ IF Current(t)
     THEN /\ socketRef' = IF socketRef = t THEN NoRun ELSE socketRef
          /\ CASE fallback[t] \/ finished[t] -> UNCHANGED <<runState, formError>>
               [] ~fallback[t] /\ ~finished[t] /\ stopRequested ->
                    runState' = "stopped" /\ UNCHANGED formError
               [] ~fallback[t] /\ ~finished[t] /\ ~stopRequested /\ dispatched[t] ->
                    runState' = "error" /\ formError' = TRUE
               [] OTHER -> UNCHANGED <<runState, formError>>
     ELSE UNCHANGED <<socketRef, runState, formError>>
  /\ UNCHANGED <<kind, hasWebSocket, mounted, token, stopRequested, abortRef,
                 report, dispatched, finished, fallback, http, server, posted>>

(* ---------------------------- runViaHTTP ------------------------------ *)
ResultsOf(t, n) == [i \in 1 .. n |-> <<t, i>>]

HttpAnswers(t, n) ==
  /\ Quiet /\ http[t] = "flying"
  /\ http' = [http EXCEPT ![t] = "settled"]
  /\ sent' = [sent EXCEPT ![t] = n]
  /\ IF Current(t)
     THEN /\ posted' = Publish(ResultsOf(t, n))
          /\ report' = [run |-> t, results |-> ResultsOf(t, n),
                        summary |-> "summary"]
          /\ runState' = "done"
     ELSE UNCHANGED <<posted, report, runState>>
  /\ abortRef' = NoRun
  /\ UNCHANGED <<kind, hasWebSocket, mounted, token, stopRequested, socketRef,
                 formError, sockets, asked, stopAsked>>

(* The server answers with an error, or the request fails.                 *)
HttpFails(t) ==
  /\ Quiet /\ http[t] = "flying"
  /\ http' = [http EXCEPT ![t] = "settled"]
  /\ IF Current(t)
     THEN formError' = TRUE /\ runState' = "error"
     ELSE UNCHANGED <<formError, runState>>
  /\ abortRef' = NoRun
  /\ UNCHANGED <<kind, hasWebSocket, mounted, token, stopRequested, socketRef,
                 report, sockets, server, posted>>

HttpAbortedSilently(t) ==
  /\ http[t] = "aborted"
  /\ http' = [http EXCEPT ![t] = "settled"]
  /\ abortRef' = NoRun
  /\ UNCHANGED <<kind, hasWebSocket, mounted, token, stopRequested, socketRef,
                 shown, sockets, server, posted>>

(* AbortError.  The finally clears abortRef whatever it holds by now.      *)
HttpAborted(t) ==
  /\ http[t] = "aborted"
  /\ http' = [http EXCEPT ![t] = "settled"]
  /\ runState' = IF Current(t) THEN "stopped" ELSE runState
  /\ abortRef' = NoRun
  /\ UNCHANGED <<kind, hasWebSocket, mounted, token, stopRequested, socketRef,
                 formError, report, sockets, server, posted>>

(* --------------------------- the specification ------------------------ *)
ServerSends(t) ==
  ResultArrives(t) \/ \E e \in {"summary", "stopped", "error"} : RunEnds(t, e)
HttpSettles(t) ==
  (\E n \in 1 .. MaxResults : HttpAnswers(t, n)) \/ HttpFails(t)

Next ==
  \/ Run \/ Stop \/ Unmount
  \/ \E t \in Runs :
       \/ Opens(t) \/ SocketFails(t) \/ SocketCloses(t)
       \/ ServerSends(t) \/ HttpSettles(t) \/ HttpAborted(t)

Spec == Init /\ [][Next]_vars

(* A connection attempt and a closing handshake come to an end, a server   *)
(* that was asked sends on until the run is over (ProbeSession!RunsEnd),   *)
(* a request is answered or fails, microtasks run.  Nothing is assumed of  *)
(* the user.                                                                *)
Connects(t) ==
  \/ ready[t] \in {"connecting", "failing"} /\ (Opens(t) \/ SocketFails(t))
  \/ ready[t] = "closing" /\ SocketCloses(t)
Fairness ==
  \A t \in Runs :
    /\ WF_vars(Connects(t)) /\ WF_vars(ServerSends(t))
    /\ WF_vars(HttpSettles(t)) /\ WF_vars(HttpAborted(t))
FairSpec == Spec /\ Fairness

(* ------------------------------ properties ---------------------------- *)
TypeOK ==
  /\ kind \in Kinds /\ hasWebSocket \in BOOLEAN
  /\ mounted \in BOOLEAN /\ stopRequested \in BOOLEAN
  /\ token \in 0 .. MaxRuns
  /\ socketRef \in 0 .. MaxRuns /\ abortRef \in 0 .. MaxRuns
  /\ runState \in RunStates /\ formError \in BOOLEAN
  /\ report \in [run : 0 .. MaxRuns, results : Seq(Runs \X Nat),
                 summary : {"none", "summary", "stopped"}]
  /\ ready \in [Runs -> ReadyStates] /\ http \in [Runs -> HttpStates]
  /\ dispatched \in [Runs -> BOOLEAN] /\ finished \in [Runs -> BOOLEAN]
  /\ fallback \in [Runs -> BOOLEAN] /\ stopAsked \in [Runs -> BOOLEAN]
  /\ asked \in [Runs -> Nat] /\ sent \in [Runs -> 0 .. MaxResults]
  /\ posted \in Seq(Runs \X Nat)

(* The last samples posted are the first n of run t, and all before them   *)
(* are of earlier runs.                                                     *)
LastPosted(t, n) ==
  /\ n <= Len(posted)
  /\ \A i \in 1 .. n : posted[Len(posted) - n + i] = <<t, i>>
  /\ \A i \in 1 .. Len(posted) - n : posted[i][1] < t

(* What the page shows is what the server sent of the run that is shown,   *)
(* in order and without a gap, and the overview was sent exactly that:     *)
(* nothing of an earlier run after it, nothing twice, whether the run went *)
(* over the socket, over HTTP, or was submitted over another one.          *)
ReportIsOfRun ==
  /\ report.run = token
  /\ token # NoRun /\ mounted =>
       /\ report.results = ResultsOf(token, sent[token])
       /\ IF kind = "portscan" THEN posted = <<>>
          ELSE LastPosted(token, sent[token])

(* A run is sent to the server once: the fallback never repeats a request  *)
(* the socket has taken.                                                    *)
RequestedOnce == \A t \in Runs : asked[t] <= 1

(* When the page says that a run is over, nothing of it can still arrive;  *)
(* and while something may, the page says it is busy.                      *)
Delivers(t) == ready[t] \in {"connecting", "open", "failing"} \/ http[t] = "flying"
EndedMeansOver ==
  mounted /\ token # NoRun => (Delivers(token) => isBusy)

(* While the page is busy and the browser has WebSocket, the Stop button   *)
(* reaches what is under way: an open socket, one that is still            *)
(* connecting, or the controller of the request in flight.                 *)
StopReaches ==
  mounted /\ Quiet /\ isBusy /\ hasWebSocket =>
    \/ socketRef = token /\ ready[token] \in {"connecting", "open", "failing"}
    \/ socketRef = NoRun /\ abortRef = token /\ http[token] = "flying"

(* No run leaves the page busy for ever: connecting, running and stopping  *)
(* all come to an end, however often it is stopped or submitted again.     *)
BusyEnds == isBusy ~> (~isBusy \/ ~mounted)

(* -------- the invariant that makes the safety properties inductive ----- *)
\* A submission that is still to come has touched nothing.
Untouched(t) ==
  /\ ready[t] = "none" /\ http[t] = "none" /\ asked[t] = 0
  /\ ~dispatched[t] /\ ~fallback[t] /\ ~finished[t]

\* How far the socket, the request and the flags of one run can be apart.
RunInv(t) ==
  /\ asked[t] <= 1
  /\ t > token => Untouched(t)
  /\ ready[t] # "none" => hasWebSocket
  /\ hasWebSocket /\ ~dispatched[t] /\ ~fallback[t] => asked[t] = 0
  /\ ready[t] = "connecting" => ~dispatched[t]
  /\ ready[t] \in {"open", "closing"} => dispatched[t]
  /\ fallback[t] => ready[t] = "closed"
  /\ http[t] # "none" => ready[t] \in {"none", "closed"}
  /\ finished[t] => ready[t] \in {"closing", "closed"}

\* With WebSocket, the refs hold whatever is under way.
RefInv ==
  hasWebSocket =>
    /\ mounted => {socketRef, abortRef} \subseteq {NoRun, token}
    /\ \A t \in Runs :
         /\ ready[t] \in {"connecting", "open"} => socketRef = t
         /\ http[t] = "flying" => abortRef = t
         /\ http[t] = "aborted" => abortRef \in {NoRun, t}

\* A page is busy only over a run that is under way.
BusyInv ==
  mounted /\ hasWebSocket /\ isBusy =>
    /\ token # NoRun /\ ~finished[token]
    /\ \/ socketRef = token /\ ready[token] \in {"connecting", "open", "failing"}
       \/ socketRef = NoRun /\ http[token] \in {"flying", "aborted"}

IInv ==
  /\ TypeOK /\ (\A t \in Runs : RunInv(t)) /\ RefInv /\ BusyInv /\ EndedMeansOver

\* Nothing was sent of a run whose request was not taken, or is not answered.
SentInv(t) ==
  /\ t > token => sent[t] = 0
  /\ ~dispatched[t] /\ http[t] = "none" => sent[t] = 0
  /\ http[t] = "flying" => sent[t] = 0

ShareInv ==
  /\ IInv /\ ReportIsOfRun /\ \A t \in Runs : SentInv(t)
  /\ token = NoRun => posted = <<>>
=============================================================================
