------------------------- MODULE RealtimeProbeProofs -------------------------
(***************************************************************************)
(* Theorems about RealtimeProbe, for any number of submissions and results *)
(* and any kinds of page.                                                  *)
(***************************************************************************)
EXTENDS RealtimeProbe, SequenceTheorems, TLAPS

Ends == {"summary", "stopped", "error"}
Reports == [run : 0 .. MaxRuns, results : Seq(Runs \X Nat),
            summary : {"none", "summary", "stopped"}]

LEMMA RunFacts ==
  ASSUME NEW t \in Runs
  PROVE  t \in Nat /\ t # NoRun /\ t \in 0 .. MaxRuns
  BY RunsAssumption DEF Runs, NoRun

-----------------------------------------------------------------------------
(* Types of what the actions compute.                                      *)
LEMMA CloseSocketType ==
  ASSUME ready \in [Runs -> ReadyStates], NEW t
  PROVE  CloseSocket(t) \in [Runs -> ReadyStates]
  BY DEF CloseSocket, ReadyStates

LEMMA AbortRequestType ==
  ASSUME http \in [Runs -> HttpStates], NEW t
  PROVE  AbortRequest(t) \in [Runs -> HttpStates]
  BY DEF AbortRequest, HttpStates

LEMMA InitialReportType ==
  ASSUME NEW t \in 0 .. MaxRuns
  PROVE  InitialReport(t) \in Reports
  BY DEF InitialReport, Reports

LEMMA ResultsOfType ==
  ASSUME NEW t \in Runs, NEW n \in Nat
  PROVE  ResultsOf(t, n) \in Seq(Runs \X Nat)
<1>1. \A i \in 1 .. n : <<t, i>> \in Runs \X Nat
  OBVIOUS
<1>2. QED
  BY <1>1 DEF ResultsOf

LEMMA MergeResultType ==
  ASSUME TypeOK, NEW x \in Runs \X Nat
  PROVE  MergeResult(x) \in Reports
<1>1. report \in Reports
  BY DEF TypeOK, Reports
<1>2. Append(report.results, x) \in Seq(Runs \X Nat)
  BY <1>1 DEF Reports
<1>3. QED
  BY <1>1, <1>2 DEF MergeResult, Reports

LEMMA MergeSummaryType ==
  ASSUME TypeOK, NEW e \in Ends
  PROVE  MergeSummary(e) \in Reports
  BY DEF TypeOK, Reports, MergeSummary, Ends

LEMMA PublishType ==
  ASSUME TypeOK, NEW xs \in Seq(Runs \X Nat)
  PROVE  Publish(xs) \in Seq(Runs \X Nat)
  BY DEF TypeOK, Publish

-----------------------------------------------------------------------------
LEMMA TypeInit == Init => TypeOK
<1> SUFFICES ASSUME Init PROVE TypeOK
  OBVIOUS
<1>1. report \in Reports
  BY InitialReportType, RunsAssumption DEF Init, NoRun
<1>2. /\ ready \in [Runs -> ReadyStates]
      /\ http \in [Runs -> HttpStates]
  BY DEF Init, ReadyStates, HttpStates
<1>3. posted \in Seq(Runs \X Nat)
  BY DEF Init
<1>4. /\ dispatched \in [Runs -> BOOLEAN] /\ finished \in [Runs -> BOOLEAN]
      /\ fallback \in [Runs -> BOOLEAN] /\ stopAsked \in [Runs -> BOOLEAN]
  BY DEF Init
<1>5. asked \in [Runs -> Nat] /\ sent \in [Runs -> 0 .. MaxResults]
  BY ResultsAssumption DEF Init
<1>6. /\ kind \in Kinds /\ hasWebSocket \in BOOLEAN /\ mounted \in BOOLEAN
      /\ stopRequested \in BOOLEAN /\ formError \in BOOLEAN
      /\ runState \in RunStates
  BY DEF Init, RunStates
<1>7. /\ token \in 0 .. MaxRuns /\ socketRef \in 0 .. MaxRuns
      /\ abortRef \in 0 .. MaxRuns
  BY RunsAssumption DEF Init, NoRun
<1>8. QED
  BY <1>1, <1>2, <1>3, <1>4, <1>5, <1>6, <1>7 DEF TypeOK, Reports

LEMMA TypeNext == TypeOK /\ [Next]_vars => TypeOK'
<1> SUFFICES ASSUME TypeOK, [Next]_vars PROVE TypeOK'
  OBVIOUS
<1> USE RunsAssumption, ResultsAssumption DEF NoRun
<1>0. /\ \A t : CloseSocket(t) \in [Runs -> ReadyStates]
      /\ \A t : AbortRequest(t) \in [Runs -> HttpStates]
  BY CloseSocketType, AbortRequestType DEF TypeOK
<1>1. CASE Run
  <2>1. token + 1 \in Runs /\ token + 1 \in 0 .. MaxRuns
    BY <1>1 DEF Run, MaySubmit, TypeOK, Runs
  <2>2. report' \in Reports
    BY <1>1, <2>1, InitialReportType DEF Run
  <2>3. ready' \in [Runs -> ReadyStates] /\ http' \in [Runs -> HttpStates]
    BY <1>0, <1>1, <2>1 DEF Run, ReadyStates, HttpStates
  <2>4. asked' \in [Runs -> Nat]
    <3>1. asked \in [Runs -> Nat] /\ asked[token + 1] + 1 \in Nat
      BY <2>1 DEF TypeOK
    <3>2. CASE hasWebSocket
      BY <1>1, <3>1, <3>2 DEF Run
    <3>3. CASE ~hasWebSocket
      BY <1>1, <3>1, <3>3 DEF Run
    <3>4. QED
      BY <3>2, <3>3
  <2>5. /\ socketRef' \in 0 .. MaxRuns /\ abortRef' \in 0 .. MaxRuns
        /\ runState' \in RunStates
    BY <1>1, <2>1 DEF Run, RunStates
  <2>6. QED
    BY <1>1, <2>1, <2>2, <2>3, <2>4, <2>5 DEF Run, TypeOK, Reports
<1>2. CASE Stop
  <2>1. ready' \in [Runs -> ReadyStates] /\ http' \in [Runs -> HttpStates]
    BY <1>0, <1>2 DEF Stop, TypeOK
  <2>2. stopAsked' \in [Runs -> BOOLEAN]
    BY <1>2 DEF Stop, TypeOK
  <2>3. stopRequested' \in BOOLEAN /\ runState' \in RunStates
    BY <1>2 DEF Stop, RunStates
  <2>4. QED
    BY <1>2, <2>1, <2>2, <2>3 DEF Stop, TypeOK
<1>3. CASE Unmount
  <2>1. ready' \in [Runs -> ReadyStates] /\ http' \in [Runs -> HttpStates]
    BY <1>0, <1>3 DEF Unmount
  <2>2. socketRef' \in 0 .. MaxRuns /\ abortRef' \in 0 .. MaxRuns
    BY <1>3 DEF Unmount
  <2>3. QED
    BY <1>3, <2>1, <2>2 DEF Unmount, TypeOK, shown, server
<1>4. ASSUME NEW t \in Runs, Opens(t) PROVE TypeOK'
  <2>1. ready' \in [Runs -> ReadyStates]
    BY <1>4 DEF Opens, TypeOK, ReadyStates
  <2>2. runState' \in RunStates
    BY <1>4 DEF Opens, TypeOK, RunStates
  <2>3. QED
    BY SMTT(30), <1>4, <2>1, <2>2 DEF Opens, TypeOK, refs
<1>5. ASSUME NEW t \in Runs, SocketFails(t) PROVE TypeOK'
  <2>1. ready' \in [Runs -> ReadyStates] /\ http' \in [Runs -> HttpStates]
    BY <1>5 DEF SocketFails, StartFallback, TypeOK, ReadyStates, HttpStates
  <2>2. /\ asked' \in [Runs -> Nat] /\ fallback' \in [Runs -> BOOLEAN]
        /\ finished' \in [Runs -> BOOLEAN]
    <3>1. asked \in [Runs -> Nat] /\ asked[t] + 1 \in Nat
      BY DEF TypeOK
    <3>2. CASE Current(t) /\ MayFallBack(t)
      <4>1. /\ asked' = [asked EXCEPT ![t] = @ + 1]
            /\ fallback' = [fallback EXCEPT ![t] = TRUE]
            /\ finished' = finished
        BY <1>5, <3>2 DEF SocketFails, StartFallback
      <4>2. asked' \in [Runs -> Nat]
        BY <3>1, <4>1
      <4>3. QED
        BY <4>1, <4>2 DEF TypeOK
    <3>3. CASE Current(t) /\ ~MayFallBack(t)
      <4>1. /\ asked' = asked /\ fallback' = fallback
            /\ finished' = [finished EXCEPT ![t] = TRUE] \/ finished' = finished
        BY <1>5, <3>3 DEF SocketFails
      <4>2. finished' \in [Runs -> BOOLEAN]
        BY <4>1 DEF TypeOK
      <4>3. QED
        BY <4>1, <4>2 DEF TypeOK
    <3>4. CASE ~Current(t)
      BY <1>5, <3>1, <3>4 DEF SocketFails, TypeOK
    <3>5. QED
      BY <3>2, <3>3, <3>4
  <2>3. /\ socketRef' \in 0 .. MaxRuns /\ abortRef' \in 0 .. MaxRuns
        /\ runState' \in RunStates /\ formError' \in BOOLEAN
    <3>1. t \in 0 .. MaxRuns /\ 0 \in 0 .. MaxRuns
      BY RunFacts
    <3>2. CASE Current(t) /\ MayFallBack(t)
      BY <1>5, <3>1, <3>2 DEF SocketFails, StartFallback, TypeOK, RunStates
    <3>3. CASE Current(t) /\ ~MayFallBack(t)
      BY <1>5, <3>1, <3>3 DEF SocketFails, TypeOK, RunStates
    <3>4. CASE ~Current(t)
      BY <1>5, <3>1, <3>4 DEF SocketFails, TypeOK, RunStates
    <3>5. QED
      BY <3>2, <3>3, <3>4
  <2>4. QED
    BY <1>5, <2>1, <2>2, <2>3 DEF SocketFails, TypeOK
<1>6. ASSUME NEW t \in Runs, SocketCloses(t) PROVE TypeOK'
  <2>1. ready' \in [Runs -> ReadyStates] /\ socketRef' \in 0 .. MaxRuns
    BY <1>6 DEF SocketCloses, TypeOK, ReadyStates
  <2>2. runState' \in RunStates /\ formError' \in BOOLEAN
    BY <1>6 DEF SocketCloses, TypeOK, RunStates
  <2>3. QED
    BY <1>6, <2>1, <2>2 DEF SocketCloses, TypeOK, server
<1>7. ASSUME NEW t \in Runs, ResultArrives(t) PROVE TypeOK'
  <2>1. sent' \in [Runs -> 0 .. MaxResults] /\ sent'[t] \in Nat
    BY <1>7 DEF ResultArrives, TypeOK
  <2>2. <<t, sent'[t]>> \in Runs \X Nat
    BY <2>1
  <2>3. report' \in Reports
    BY SMTT(30), <1>7, <2>2, MergeResultType DEF ResultArrives, TypeOK, Reports
  <2>4. posted' \in Seq(Runs \X Nat)
    <3>1. <<(<<t, sent'[t]>>)>> \in Seq(Runs \X Nat)
      BY <2>2
    <3>2. Publish(<<(<<t, sent'[t]>>)>>) \in Seq(Runs \X Nat)
      BY <3>1, PublishType
    <3>3. posted' \in {posted, Publish(<<(<<t, sent'[t]>>)>>)}
      BY <1>7 DEF ResultArrives
    <3>4. QED
      BY <3>2, <3>3 DEF TypeOK
  <2>5. QED
    BY <1>7, <2>1, <2>3, <2>4 DEF ResultArrives, TypeOK, refs, sockets, Reports
<1>8. ASSUME NEW t \in Runs, NEW e \in Ends, RunEnds(t, e) PROVE TypeOK'
  <2>1. report' \in Reports
    BY <1>8, MergeSummaryType DEF RunEnds
  <2>2. ready' \in [Runs -> ReadyStates] /\ finished' \in [Runs -> BOOLEAN]
    BY <1>0, <1>8 DEF RunEnds, TypeOK
  <2>3. runState' \in RunStates /\ formError' \in BOOLEAN
    BY <1>8 DEF RunEnds, TypeOK, RunStates, Ends
  <2>4. QED
    BY <1>8, <2>1, <2>2, <2>3 DEF RunEnds, TypeOK, refs, server, Reports
<1>9. ASSUME NEW t \in Runs, NEW n \in 1 .. MaxResults, HttpAnswers(t, n)
      PROVE  TypeOK'
  <2>1. n \in Nat /\ n \in 0 .. MaxResults
    OBVIOUS
  <2>2. report' \in Reports /\ posted' \in Seq(Runs \X Nat)
    <3>1. ResultsOf(t, n) \in Seq(Runs \X Nat)
      BY <2>1, ResultsOfType
    <3>2. Publish(ResultsOf(t, n)) \in Seq(Runs \X Nat)
      BY <3>1, PublishType
    <3>3. t \in 0 .. MaxRuns
      BY RunFacts
    <3>4. CASE Current(t)
      BY <1>9, <3>1, <3>2, <3>3, <3>4 DEF HttpAnswers, Reports
    <3>5. CASE ~Current(t)
      BY <1>9, <3>5 DEF HttpAnswers, TypeOK, Reports
    <3>6. QED
      BY <3>4, <3>5
  <2>3. /\ http' \in [Runs -> HttpStates] /\ sent' \in [Runs -> 0 .. MaxResults]
        /\ runState' \in RunStates
    BY <1>9, <2>1 DEF HttpAnswers, TypeOK, RunStates, HttpStates
  <2>4. QED
    BY SMTT(30), <1>9, <2>2, <2>3 DEF HttpAnswers, TypeOK, sockets, Reports
<1>10. ASSUME NEW t \in Runs, HttpFails(t) \/ HttpAborted(t) PROVE TypeOK'
  <2>1. /\ http' \in [Runs -> HttpStates] /\ runState' \in RunStates
        /\ formError' \in BOOLEAN /\ abortRef' \in 0 .. MaxRuns
    <3>1. CASE HttpFails(t)
      <4>1. http' \in [Runs -> HttpStates]
        BY <3>1 DEF HttpFails, TypeOK, HttpStates
      <4>2. runState' \in RunStates /\ formError' \in BOOLEAN
        BY <3>1 DEF HttpFails, TypeOK, RunStates
      <4>3. abortRef' \in 0 .. MaxRuns
        BY <3>1 DEF HttpFails
      <4>4. QED
        BY <4>1, <4>2, <4>3
    <3>2. CASE HttpAborted(t)
      BY <3>2 DEF HttpAborted, TypeOK, RunStates, HttpStates
    <3>3. QED
      BY <1>10, <3>1, <3>2
  <2>2. QED
    BY <1>10, <2>1 DEF HttpFails, HttpAborted, TypeOK, sockets, server
<1>11. CASE UNCHANGED vars
  BY <1>11 DEF TypeOK, vars, refs, shown, sockets, server
<1>12. QED
  BY <1>1, <1>2, <1>3, <1>4, <1>5, <1>6, <1>7, <1>8, <1>9, <1>10, <1>11
     DEF Next, ServerSends, HttpSettles, Ends

(* Every reachable state is well typed, and the report is one of a run of  *)
(* this page.                                                              *)
THEOREM TypeCorrect == Spec => []TypeOK
  BY TypeInit, TypeNext, PTL DEF Spec

-----------------------------------------------------------------------------
(* What the two closing calls do to a run.                                 *)
LEMMA CloseSocketValue ==
  ASSUME NEW r, NEW t \in Runs
  PROVE  /\ t # r => CloseSocket(r)[t] = ready[t]
         /\ ready[t] = "connecting" /\ t = r => CloseSocket(r)[t] = "failing"
         /\ ready[t] = "open" /\ t = r => CloseSocket(r)[t] = "closing"
         /\ ready[t] \notin {"connecting", "open"} => CloseSocket(r)[t] = ready[t]
  BY DEF CloseSocket

LEMMA AbortRequestValue ==
  ASSUME NEW r, NEW t \in Runs
  PROVE  /\ t # r => AbortRequest(r)[t] = http[t]
         /\ http[t] = "flying" /\ t = r => AbortRequest(r)[t] = "aborted"
         /\ http[t] # "flying" => AbortRequest(r)[t] = http[t]
  BY DEF AbortRequest

-----------------------------------------------------------------------------
(* The invariant of a run.                                                 *)
LEMMA RunKept ==
  ASSUME IInv, Next, TypeOK', NEW t \in Runs
  PROVE  RunInv(t)'
<1> USE DEF NoRun
<1>0. /\ TypeOK /\ RunInv(t) /\ RefInv
      /\ t \in Nat /\ t # 0 /\ token \in Nat
  BY SMTT(30), RunFacts, RunsAssumption DEF IInv, TypeOK
<1>1. CASE Run
  <2>1. /\ token' = token + 1
        /\ t > token' => t > token
    BY <1>0, <1>1 DEF Run
  <2>2. CASE t = token + 1
    <3>1. Untouched(t)
      BY <1>0, <2>2 DEF RunInv
    <3>2. /\ dispatched'[t] = dispatched[t] /\ fallback'[t] = fallback[t]
          /\ finished'[t] = finished[t] /\ hasWebSocket' = hasWebSocket
          /\ ~(t > token')
      BY <1>0, <1>1, <2>1, <2>2 DEF Run
    <3>3. CASE hasWebSocket
      <4>1. ready'[t] = "connecting" /\ http'[t] = "none" /\ asked'[t] = 0
        BY <1>0, <1>1, <2>2, <3>1, <3>3, AbortRequestValue, CloseSocketType
           DEF Run, TypeOK, Untouched
      <4>2. QED
        BY <3>1, <3>2, <3>3, <4>1 DEF RunInv, Untouched
    <3>4. CASE ~hasWebSocket
      <4>1. ready'[t] = "none"
        BY <1>1, <3>1, <3>4, CloseSocketValue DEF Run, Untouched
      <4>2. asked'[t] = 1
        BY <1>0, <1>1, <2>2, <3>1, <3>4 DEF Run, TypeOK, Untouched
      <4>3. QED
        BY <3>1, <3>2, <3>4, <4>1, <4>2 DEF RunInv, Untouched
    <3>5. QED
      BY <3>3, <3>4
  <2>3. CASE t # token + 1
    <3>1. /\ ready'[t] = CloseSocket(socketRef)[t]
          /\ http'[t] = AbortRequest(abortRef)[t]
          /\ asked'[t] = asked[t]
      BY <1>0, <1>1, <2>3 DEF Run, TypeOK, CloseSocket, AbortRequest
    <3>2. /\ dispatched'[t] = dispatched[t] /\ fallback'[t] = fallback[t]
          /\ finished'[t] = finished[t] /\ hasWebSocket' = hasWebSocket
      BY <1>1 DEF Run
    <3>3. \/ ready'[t] = ready[t]
          \/ ready[t] = "connecting" /\ ready'[t] = "failing"
          \/ ready[t] = "open" /\ ready'[t] = "closing"
      BY <3>1, CloseSocketValue
    <3>4. http'[t] = http[t] \/ http[t] = "flying"
      BY <3>1, AbortRequestValue
    <3>5. t > token' => Untouched(t)'
      BY <1>0, <2>1, <3>1, <3>2, <3>3, <3>4 DEF RunInv, Untouched
    <3>6. QED
      BY <1>0, <3>1, <3>2, <3>3, <3>4, <3>5 DEF RunInv
  <2>4. QED
    BY <2>2, <2>3
<1>2. CASE Stop \/ Unmount
  <2>1. /\ ready'[t] = ready[t] \/ ready'[t] = CloseSocket(socketRef)[t]
        /\ http'[t] = http[t] \/ http'[t] = AbortRequest(abortRef)[t]
    BY <1>2 DEF Stop, Unmount
  <2>2. /\ dispatched'[t] = dispatched[t] /\ fallback'[t] = fallback[t]
        /\ finished'[t] = finished[t] /\ hasWebSocket' = hasWebSocket
        /\ asked'[t] = asked[t] /\ token' = token
    BY <1>2 DEF Stop, Unmount, server
  <2>3. QED
    BY <1>0, <2>1, <2>2, CloseSocketValue, AbortRequestValue DEF RunInv, Untouched
<1>3. ASSUME NEW r \in Runs, Opens(r) PROVE RunInv(t)'
  <2>1. CASE r = t
    <3>1. ready[t] = "connecting" /\ asked[t] = 0
      BY <1>0, <1>3, <2>1 DEF Opens, RunInv
    <3>2. ready'[t] = "open" /\ dispatched'[t] /\ asked'[t] = 1
      BY <1>0, <1>3, <2>1, <3>1 DEF Opens, TypeOK
    <3>3. QED
      BY <1>0, <1>3, <3>1, <3>2 DEF Opens, refs, RunInv, Untouched
  <2>2. CASE r # t
    <3>1. /\ ready'[t] = ready[t] /\ dispatched'[t] = dispatched[t]
          /\ asked'[t] = asked[t]
      BY <1>0, <1>3, <2>2 DEF Opens, TypeOK
    <3>2. QED
      BY <1>0, <1>3, <3>1 DEF Opens, refs, RunInv, Untouched
  <2>3. QED
    BY <2>1, <2>2
<1>4. ASSUME NEW r \in Runs, SocketFails(r) PROVE RunInv(t)'
  <2>1. CASE r = t
    <3>1. /\ ready[t] \in {"connecting", "failing", "open"} /\ ready'[t] = "closed"
          /\ ~(t > token)
      BY <1>0, <1>4, <2>1 DEF SocketFails, TypeOK, RunInv, Untouched
    <3>2. CASE Current(t) /\ MayFallBack(t)
      <4>1. asked[t] = 0
        BY <1>0, <3>1, <3>2 DEF RunInv, MayFallBack
      <4>2. /\ fallback'[t] /\ asked'[t] = 1 /\ finished'[t] = finished[t]
            /\ dispatched' = dispatched /\ hasWebSocket' = hasWebSocket
            /\ token' = token
        BY <1>0, <1>4, <2>1, <3>2, <4>1 DEF SocketFails, StartFallback, TypeOK
      <4>3. QED
        BY <1>0, <3>1, <4>2 DEF RunInv, Untouched
    <3>3. CASE ~(Current(t) /\ MayFallBack(t))
      <4>1. /\ fallback' = fallback /\ asked' = asked /\ http' = http
            /\ dispatched' = dispatched /\ hasWebSocket' = hasWebSocket
            /\ token' = token
        BY <1>4, <2>1, <3>3 DEF SocketFails
      <4>2. QED
        BY <1>0, <3>1, <4>1 DEF RunInv, Untouched
    <3>4. QED
      BY <3>2, <3>3
  <2>2. CASE r # t
    <3>1. ready'[t] = ready[t] /\ dispatched' = dispatched /\ token' = token
          /\ hasWebSocket' = hasWebSocket
      BY <1>0, <1>4, <2>2 DEF SocketFails, TypeOK
    <3>2. /\ fallback'[t] = fallback[t] /\ finished'[t] = finished[t]
          /\ asked'[t] = asked[t] /\ http'[t] = http[t]
      BY SMTT(30), <1>0, <1>4, <2>2 DEF SocketFails, StartFallback, TypeOK
    <3>3. QED
      BY <1>0, <3>1, <3>2 DEF RunInv, Untouched
  <2>3. QED
    BY <2>1, <2>2
<1>5. ASSUME NEW r \in Runs, SocketCloses(r) PROVE RunInv(t)'
  <2>1. /\ \/ ready'[t] = ready[t]
           \/ ready[t] \in {"open", "closing"} /\ ready'[t] = "closed"
        /\ dispatched' = dispatched /\ fallback' = fallback /\ finished' = finished
        /\ asked' = asked /\ http' = http /\ token' = token
        /\ hasWebSocket' = hasWebSocket
    <3>1. ready' = [ready EXCEPT ![r] = "closed"] /\ ready[r] \in {"open", "closing"}
      BY <1>5 DEF SocketCloses
    <3>2. \/ ready'[t] = ready[t]
          \/ ready[t] \in {"open", "closing"} /\ ready'[t] = "closed"
      BY <1>0, <3>1 DEF TypeOK
    <3>3. QED
      BY <1>5, <3>2 DEF SocketCloses, server
  <2>2. QED
    BY <1>0, <2>1 DEF RunInv, Untouched
<1>6. ASSUME NEW r \in Runs, ServerSends(r) PROVE RunInv(t)'
  <2>1. CASE ResultArrives(r)
    BY <1>0, <2>1 DEF ResultArrives, refs, sockets, RunInv, Untouched
  <2>2. ASSUME NEW e \in Ends, RunEnds(r, e) PROVE RunInv(t)'
    <3>1. /\ dispatched' = dispatched /\ fallback' = fallback /\ asked' = asked
          /\ http' = http /\ token' = token /\ hasWebSocket' = hasWebSocket
      BY <2>2 DEF RunEnds, refs, server
    <3>2. CASE r = t
      <4>1. ready[t] = "open" /\ ready'[t] = "closing"
        BY <2>2, <3>2, CloseSocketValue DEF RunEnds
      <4>2. QED
        BY <1>0, <3>1, <4>1 DEF RunInv, Untouched
    <3>3. CASE r # t
      <4>1. ready'[t] = ready[t] /\ finished'[t] = finished[t]
        BY <1>0, <2>2, <3>3, CloseSocketValue DEF RunEnds, TypeOK
      <4>2. QED
        BY <1>0, <3>1, <4>1 DEF RunInv, Untouched
    <3>4. QED
      BY <3>2, <3>3
  <2>3. QED
    BY <1>6, <2>1, <2>2 DEF ServerSends, Ends
<1>7. ASSUME NEW r \in Runs, HttpSettles(r) \/ HttpAborted(r) PROVE RunInv(t)'
  <2>1. /\ dispatched' = dispatched /\ fallback' = fallback /\ finished' = finished
        /\ asked' = asked /\ ready' = ready /\ token' = token
        /\ hasWebSocket' = hasWebSocket
    BY <1>7 DEF HttpSettles, HttpAnswers, HttpFails, HttpAborted, sockets, server
  <2>2. http'[t] = http[t] \/ (http[t] # "none" /\ http'[t] = "settled")
    <3>1. /\ http' = [http EXCEPT ![r] = "settled"]
          /\ http[r] \in {"flying", "aborted"}
      BY <1>7 DEF HttpSettles, HttpAnswers, HttpFails, HttpAborted
    <3>2. QED
      BY <1>0, <3>1 DEF TypeOK
  <2>3. QED
    BY <1>0, <2>1, <2>2 DEF RunInv, Untouched
<1>8. QED
  BY <1>1, <1>2, <1>3, <1>4, <1>5, <1>6, <1>7 DEF Next

-----------------------------------------------------------------------------
(* The invariant of the refs.  It speaks of pages with WebSocket only.      *)
LEMMA RefKept ==
  ASSUME IInv, Next, TypeOK'
  PROVE  RefInv'
<1> USE DEF NoRun
<1> SUFFICES ASSUME hasWebSocket'
             PROVE  /\ mounted' => {socketRef', abortRef'} \subseteq {0, token'}
                    /\ \A t \in Runs :
                         /\ ready'[t] \in {"connecting", "open"} => socketRef' = t
                         /\ http'[t] = "flying" => abortRef' = t
                         /\ http'[t] = "aborted" => abortRef' \in {0, t}
  BY DEF RefInv
<1>0. /\ TypeOK /\ token \in Nat /\ socketRef \in Nat /\ abortRef \in Nat
      /\ \A t \in Runs : RunInv(t) /\ t \in Nat /\ t # 0
  BY RunFacts, RunsAssumption DEF IInv, TypeOK
<1>1. hasWebSocket
  BY DEF Next, Run, Stop, Unmount, Opens, SocketFails, SocketCloses, ServerSends,
         ResultArrives, RunEnds, HttpSettles, HttpAnswers, HttpFails, HttpAborted
<1>2. /\ mounted => {socketRef, abortRef} \subseteq {0, token}
      /\ \A t \in Runs :
           /\ ready[t] \in {"connecting", "open"} => socketRef = t
           /\ http[t] = "flying" => abortRef = t
           /\ http[t] = "aborted" => abortRef \in {0, t}
  BY <1>1 DEF IInv, RefInv
<1>3. CASE Run
  <2>1. token + 1 \in Runs /\ token' = token + 1 /\ socketRef' = token + 1 /\ abortRef' = 0
    BY <1>0, <1>1, <1>3, RunsAssumption DEF Run, MaySubmit, Runs
  <2>2. ASSUME NEW t \in Runs, t # token + 1
        PROVE  ready'[t] \notin {"connecting", "open"}
    <3>1. ready'[t] = CloseSocket(socketRef)[t]
      BY <1>1, <1>3, <2>2 DEF Run, CloseSocket
    <3>2. QED
      BY <1>2, <2>2, <3>1, CloseSocketValue
  <2>3. ASSUME NEW t \in Runs
        PROVE  http'[t] # "flying"
    <3>1. http'[t] = AbortRequest(abortRef)[t]
      BY <1>1, <1>3 DEF Run
    <3>2. QED
      BY <1>2, <3>1, AbortRequestValue
  <2>4. QED
    BY <2>1, <2>2, <2>3
<1>4. CASE Stop
  <2>1. /\ mounted /\ socketRef' = socketRef /\ abortRef' = abortRef
        /\ token' = token
    BY <1>4 DEF Stop, MayStop
  <2>2. ASSUME NEW t \in Runs, ready'[t] \in {"connecting", "open"}
        PROVE  ready[t] \in {"connecting", "open"}
    BY <1>4, <2>2, CloseSocketValue DEF Stop
  <2>3. ASSUME NEW t \in Runs, http'[t] = "flying"
        PROVE  http[t] = "flying"
    BY <1>4, <2>3, AbortRequestValue DEF Stop
  <2>4. ASSUME NEW t \in Runs, http'[t] = "aborted"
        PROVE  http[t] \in {"flying", "aborted"}
    BY <1>4, <2>4, AbortRequestValue DEF Stop
  <2>5. QED
    BY <1>2, <2>1, <2>2, <2>3, <2>4
<1>5. CASE Unmount
  <2>1. ~mounted' /\ abortRef' = 0
    BY <1>5 DEF Unmount
  <2>2. ASSUME NEW t \in Runs
        PROVE  ready'[t] \notin {"connecting", "open"} /\ http'[t] # "flying"
    BY <1>2, <1>5, CloseSocketValue, AbortRequestValue DEF Unmount
  <2>3. QED
    BY <2>1, <2>2
<1>6. ASSUME NEW r \in Runs, Opens(r) PROVE RefInv'
  <2>1. /\ mounted' = mounted /\ socketRef' = socketRef /\ abortRef' = abortRef
        /\ token' = token /\ http' = http
    BY <1>6 DEF Opens, refs
  <2>2. ASSUME NEW t \in Runs, ready'[t] \in {"connecting", "open"}
        PROVE  ready[t] \in {"connecting", "open"}
    BY <1>0, <1>6, <2>2 DEF Opens, TypeOK
  <2>3. QED
    BY <1>2, <2>1, <2>2 DEF RefInv
<1>7. ASSUME NEW r \in Runs, SocketFails(r) PROVE RefInv'
  <2>1. /\ mounted' = mounted /\ token' = token
        /\ \A t \in Runs : http[t] # "aborted"
        /\ ready' = [ready EXCEPT ![r] = "closed"]
    BY <1>7 DEF SocketFails, Quiet
  <2>2. ASSUME NEW t \in Runs, ready'[t] \in {"connecting", "open"}
        PROVE  ready[t] \in {"connecting", "open"} /\ t # r
    BY <1>0, <2>1, <2>2 DEF TypeOK
  <2>3. CASE ~Current(r)
    <3>1. socketRef' = socketRef /\ abortRef' = abortRef /\ http' = http
      BY <1>7, <2>3 DEF SocketFails
    <3>2. QED
      BY <1>2, <2>1, <2>2, <3>1 DEF RefInv
  <2>4. CASE Current(r)
    <3>1. /\ socketRef' = 0 /\ r = token /\ mounted
      BY <1>7, <2>4 DEF SocketFails, Current
    <3>2. ASSUME NEW t \in Runs
          PROVE  ready'[t] \notin {"connecting", "open"}
      BY <1>0, <1>2, <2>2, <3>1
    <3>3. CASE MayFallBack(r)
      <4>1. abortRef' = r /\ http' = [http EXCEPT ![r] = "flying"]
        BY <1>7, <2>4, <3>3 DEF SocketFails, StartFallback
      <4>2. ASSUME NEW t \in Runs, http'[t] = "flying"
            PROVE  t = r
        BY <1>0, <1>2, <3>1, <4>1, <4>2 DEF TypeOK
      <4>3. \A t \in Runs : http'[t] # "aborted"
        BY <1>0, <2>1, <4>1 DEF TypeOK
      <4>4. QED
        BY <2>1, <3>1, <3>2, <4>1, <4>2, <4>3 DEF RefInv
    <3>4. CASE ~MayFallBack(r)
      <4>1. abortRef' = abortRef /\ http' = http
        BY <1>7, <2>4, <3>4 DEF SocketFails
      <4>2. QED
        BY <1>2, <2>1, <3>1, <3>2, <4>1 DEF RefInv
    <3>5. QED
      BY <3>3, <3>4
  <2>5. QED
    BY <2>3, <2>4
<1>8. ASSUME NEW r \in Runs, SocketCloses(r) PROVE RefInv'
  <2>1. /\ mounted' = mounted /\ token' = token /\ abortRef' = abortRef
        /\ http' = http /\ ready' = [ready EXCEPT ![r] = "closed"]
        /\ socketRef' = socketRef \/ (socketRef' = 0 /\ socketRef = r)
    BY <1>8 DEF SocketCloses
  <2>2. ASSUME NEW t \in Runs, ready'[t] \in {"connecting", "open"}
        PROVE  ready[t] \in {"connecting", "open"} /\ t # r
    BY <1>0, <2>1, <2>2 DEF TypeOK
  <2>3. QED
    BY <1>2, <2>1, <2>2 DEF RefInv
<1>9. ASSUME NEW r \in Runs, ServerSends(r) PROVE RefInv'
  <2>1. /\ mounted' = mounted /\ token' = token /\ abortRef' = abortRef
        /\ http' = http /\ socketRef' = socketRef
        /\ ready' = ready \/ ready' = CloseSocket(r)
    BY <1>9 DEF ServerSends, ResultArrives, RunEnds, refs, sockets
  <2>2. ASSUME NEW t \in Runs, ready'[t] \in {"connecting", "open"}
        PROVE  ready[t] \in {"connecting", "open"}
    BY <2>1, <2>2, CloseSocketValue
  <2>3. QED
    BY <1>2, <2>1, <2>2 DEF RefInv
<1>10. ASSUME NEW r \in Runs, HttpSettles(r) \/ HttpAborted(r) PROVE RefInv'
  <2>1. /\ mounted' = mounted /\ token' = token /\ abortRef' = 0
        /\ ready' = ready /\ socketRef' = socketRef
        /\ http' = [http EXCEPT ![r] = "settled"]
        /\ http[r] \in {"flying", "aborted"}
    BY <1>10 DEF HttpSettles, HttpAnswers, HttpFails, HttpAborted, sockets
  <2>2. ASSUME NEW t \in Runs, http'[t] = "flying"
        PROVE  FALSE
    BY <1>0, <1>2, <2>1, <2>2 DEF TypeOK
  <2>3. QED
    BY <1>2, <2>1, <2>2 DEF RefInv
<1>11. QED
  BY <1>3, <1>4, <1>5, <1>6, <1>7, <1>8, <1>9, <1>10 DEF Next, RefInv

-----------------------------------------------------------------------------
(* The invariant of the state shown: only the buttons, Opens and the        *)
(* fallback turn a page busy, each for a run that is under way.             *)
LEMMA BusyKept ==
  ASSUME IInv, Next, TypeOK'
  PROVE  BusyInv'
<1> USE DEF NoRun
<1> SUFFICES ASSUME mounted', hasWebSocket', isBusy'
             PROVE  /\ token' # 0 /\ ~finished'[token']
                    /\ \/ /\ socketRef' = token'
                          /\ ready'[token'] \in {"connecting", "open", "failing"}
                       \/ socketRef' = 0 /\ http'[token'] \in {"flying", "aborted"}
  BY DEF BusyInv
<1>0. /\ TypeOK /\ token \in Nat /\ socketRef \in Nat /\ abortRef \in Nat
      /\ \A t \in Runs : RunInv(t) /\ t \in Nat /\ t # 0
      /\ token # 0 => token \in Runs
  <2>1. TypeOK /\ \A t \in Runs : RunInv(t)
    BY DEF IInv
  <2>2. /\ token \in 0 .. MaxRuns /\ socketRef \in 0 .. MaxRuns
        /\ abortRef \in 0 .. MaxRuns
    BY <2>1 DEF TypeOK
  <2>3. QED
    BY <2>1, <2>2, RunFacts, RunsAssumption DEF Runs
<1>1. hasWebSocket
  BY DEF Next, Run, Stop, Unmount, Opens, SocketFails, SocketCloses, ServerSends,
         ResultArrives, RunEnds, HttpSettles, HttpAnswers, HttpFails, HttpAborted
<1>2. mounted /\ ~Unmount
  BY DEF Next, Run, Stop, Unmount, Opens, SocketFails, SocketCloses, ServerSends,
         ResultArrives, RunEnds, HttpSettles, HttpAnswers, HttpFails, HttpAborted, refs
<1>3. /\ {socketRef, abortRef} \subseteq {0, token}
      /\ \A t \in Runs :
           /\ ready[t] \in {"connecting", "open"} => socketRef = t
           /\ http[t] = "flying" => abortRef = t
           /\ http[t] = "aborted" => abortRef \in {0, t}
  BY <1>1, <1>2 DEF IInv, RefInv
<1>4. isBusy =>
        /\ token # 0 /\ ~finished[token]
        /\ \/ socketRef = token /\ ready[token] \in {"connecting", "open", "failing"}
           \/ socketRef = 0 /\ http[token] \in {"flying", "aborted"}
  BY <1>1, <1>2 DEF IInv, BusyInv
<1>5. CASE Run
  <2>1. /\ token' = token + 1 /\ token + 1 \in Runs /\ token + 1 > token
        /\ socketRef' = token + 1 /\ finished' = finished
    BY <1>0, <1>1, <1>5, RunsAssumption DEF Run, MaySubmit, Runs
  <2>2. ~finished[token + 1]
    BY <1>0, <2>1 DEF RunInv, Untouched
  <2>3. ready'[token + 1] = "connecting"
    BY <1>0, <1>1, <1>5, <2>1, CloseSocketType DEF Run, TypeOK
  <2>4. QED
    BY <1>0, <2>1, <2>2, <2>3
<1>6. CASE Stop
  <2>1. /\ isBusy /\ token' = token /\ socketRef' = socketRef /\ finished' = finished
        /\ token \in Runs
    BY <1>0, <1>4, <1>6 DEF Stop, MayStop
  <2>2. ready[token] \in {"connecting", "open", "failing"} /\ socketRef = token
          => ready'[token] \in {"connecting", "open", "failing"}
    <3>1. CASE ready[token] = "open" /\ socketRef = token
      BY <1>0, <1>6, <2>1, <3>1 DEF Stop
    <3>2. CASE ready[token] \in {"connecting", "failing"} /\ socketRef = token
      BY <1>0, <1>6, <2>1, <3>2, CloseSocketValue DEF Stop
    <3>3. QED
      BY <3>1, <3>2
  <2>3. http[token] \in {"flying", "aborted"} /\ socketRef = 0
          => http'[token] \in {"flying", "aborted"}
    BY <1>6, <2>1, AbortRequestValue DEF Stop
  <2>4. QED
    BY <1>4, <2>1, <2>2, <2>3
<1>7. ASSUME NEW r \in Runs, Opens(r) PROVE BusyInv'
  <2>1. /\ token' = token /\ socketRef' = socketRef /\ finished' = finished
        /\ ready[r] = "connecting" /\ ready' = [ready EXCEPT ![r] = "open"]
    BY <1>7 DEF Opens, refs
  <2>2. socketRef = r /\ token = r /\ ready'[r] = "open" /\ ~finished[r]
    BY SMTT(30), <1>0, <1>3, <2>1 DEF TypeOK, RunInv
  <2>3. QED
    BY <1>0, <2>1, <2>2 DEF BusyInv
<1>8. ASSUME NEW r \in Runs, SocketFails(r) PROVE BusyInv'
  <2>1. /\ token' = token /\ ready' = [ready EXCEPT ![r] = "closed"]
        /\ ready[r] \in {"connecting", "failing", "open"}
    BY <1>8 DEF SocketFails
  <2>2. CASE ~Current(r)
    <3>1. /\ socketRef' = socketRef /\ http' = http /\ runState' = runState
          /\ finished' = finished /\ r # token
      BY <1>2, <1>8, <2>2 DEF SocketFails, Current
    <3>2. ready'[token] = ready[token] \/ token = 0
      BY <1>0, <2>1, <3>1 DEF TypeOK
    <3>3. QED
      BY <1>4, <2>1, <3>1, <3>2 DEF BusyInv, isBusy
  <2>3. CASE Current(r) /\ MayFallBack(r)
    <3>1. /\ socketRef' = 0 /\ http' = [http EXCEPT ![r] = "flying"]
          /\ finished' = finished /\ r = token
      BY <1>8, <2>3 DEF SocketFails, StartFallback, Current
    <3>2. http'[token] = "flying" /\ ~finished[token]
      BY <1>0, <2>1, <3>1 DEF TypeOK, RunInv
    <3>3. QED
      BY <1>0, <2>1, <3>1, <3>2 DEF BusyInv
  <2>4. CASE Current(r) /\ ~MayFallBack(r)
    BY <1>8, <2>4 DEF SocketFails, BusyInv, isBusy
  <2>5. QED
    BY <2>2, <2>3, <2>4
<1>9. ASSUME NEW r \in Runs, SocketCloses(r) PROVE BusyInv'
  <2>1. /\ token' = token /\ ready' = [ready EXCEPT ![r] = "closed"] /\ http' = http
        /\ ready[r] \in {"open", "closing"} /\ finished' = finished
    BY <1>9 DEF SocketCloses
  <2>2. CASE ~Current(r)
    <3>1. socketRef' = socketRef /\ runState' = runState /\ r # token
      BY <1>2, <1>9, <2>2 DEF SocketCloses, Current
    <3>2. ready'[token] = ready[token] \/ token = 0
      BY <1>0, <2>1, <3>1 DEF TypeOK
    <3>3. QED
      BY <1>4, <2>1, <3>1, <3>2 DEF BusyInv, isBusy
  <2>3. CASE Current(r)
    <3>1. r = token /\ ~fallback[r] /\ dispatched[r]
      BY <1>0, <2>1, <2>3 DEF Current, RunInv
    <3>2. CASE finished[r]
      <4>1. ~isBusy /\ runState' = runState
        BY <1>4, <1>9, <2>3, <3>1, <3>2 DEF SocketCloses
      <4>2. QED
        BY <4>1 DEF isBusy
    <3>3. CASE ~finished[r]
      <4>1. runState' \in {"stopped", "error"}
        BY <1>9, <2>3, <3>1, <3>3 DEF SocketCloses
      <4>2. QED
        BY <4>1 DEF isBusy
    <3>4. QED
      BY <3>2, <3>3
  <2>4. QED
    BY <2>2, <2>3
<1>10. ASSUME NEW r \in Runs, ServerSends(r) PROVE BusyInv'
  <2>1. CASE ResultArrives(r)
    BY <1>4, <2>1 DEF ResultArrives, refs, sockets, BusyInv, isBusy
  <2>2. ASSUME NEW e \in Ends, RunEnds(r, e) PROVE BusyInv'
    <3>1. runState' \in {"done", "stopped", "error"}
      BY <2>2 DEF RunEnds, Ends
    <3>2. QED
      BY <3>1 DEF isBusy
  <2>3. QED
    BY <1>10, <2>1, <2>2 DEF ServerSends, Ends
<1>11. ASSUME NEW r \in Runs, HttpSettles(r) \/ HttpAborted(r) PROVE BusyInv'
  <2>1. /\ token' = token /\ socketRef' = socketRef /\ ready' = ready
        /\ finished' = finished /\ http' = [http EXCEPT ![r] = "settled"]
    BY <1>11 DEF HttpSettles, HttpAnswers, HttpFails, HttpAborted, sockets
  <2>2. CASE Current(r)
    <3>1. runState' \in {"done", "error", "stopped"}
      BY <1>11, <2>2 DEF HttpSettles, HttpAnswers, HttpFails, HttpAborted
    <3>2. QED
      BY <3>1 DEF isBusy
  <2>3. CASE ~Current(r)
    <3>1. runState' = runState /\ r # token
      BY <1>2, <1>11, <2>3
         DEF HttpSettles, HttpAnswers, HttpFails, HttpAborted, Current
    <3>2. http'[token] = http[token] \/ token = 0
      BY <1>0, <2>1, <3>1 DEF TypeOK
    <3>3. QED
      BY <1>4, <2>1, <3>1, <3>2 DEF BusyInv, isBusy
  <2>4. QED
    BY <2>2, <2>3
<1>12. QED
  BY <1>2, <1>5, <1>6, <1>7, <1>8, <1>9, <1>10, <1>11 DEF Next, BusyInv

-----------------------------------------------------------------------------
(* What can still deliver keeps the page busy.                             *)
LEMMA EndedKept ==
  ASSUME IInv, Next, TypeOK'
  PROVE  EndedMeansOver'
<1> USE DEF NoRun
<1> SUFFICES ASSUME mounted', token' # 0,
                    \/ ready'[token'] \in {"connecting", "open", "failing"}
                    \/ http'[token'] = "flying"
             PROVE  isBusy'
  BY DEF EndedMeansOver, Delivers
<1>0. /\ TypeOK /\ token \in Nat
      /\ \A t \in Runs : RunInv(t)
      /\ token # 0 => token \in Runs
  <2>1. TypeOK /\ \A t \in Runs : RunInv(t)
    BY DEF IInv
  <2>2. token \in 0 .. MaxRuns
    BY <2>1 DEF TypeOK
  <2>3. QED
    BY <2>1, <2>2, RunsAssumption DEF Runs
<1>1. mounted /\ ~Unmount
  BY DEF Next, Run, Stop, Unmount, Opens, SocketFails, SocketCloses, ServerSends,
         ResultArrives, RunEnds, HttpSettles, HttpAnswers, HttpFails, HttpAborted, refs
<1>2. token # 0 /\ Delivers(token) => isBusy
  BY <1>1 DEF IInv, EndedMeansOver
<1>3. CASE Run \/ Stop
  BY <1>3 DEF Run, Stop, isBusy
<1>4. ASSUME NEW r \in Runs, Opens(r) PROVE isBusy'
  BY <1>4 DEF Opens, isBusy
<1>5. ASSUME NEW r \in Runs, SocketFails(r) PROVE isBusy'
  <2>1. /\ token' = token /\ ready' = [ready EXCEPT ![r] = "closed"]
        /\ ready[r] \in {"connecting", "failing", "open"}
    BY <1>5 DEF SocketFails
  <2>2. CASE ~Current(r)
    <3>1. http' = http /\ runState' = runState /\ r # token
      BY <1>1, <1>5, <2>2 DEF SocketFails, Current
    <3>2. Delivers(token)
      BY <1>0, <2>1, <3>1 DEF Delivers, TypeOK
    <3>3. QED
      BY <1>2, <2>1, <3>1, <3>2 DEF isBusy
  <2>3. CASE Current(r) /\ MayFallBack(r)
    BY <1>5, <2>3 DEF SocketFails, StartFallback, isBusy
  <2>4. CASE Current(r) /\ ~MayFallBack(r)
    <3>1. http' = http /\ r = token /\ http[r] = "none"
      BY <1>0, <1>5, <2>1, <2>4 DEF SocketFails, Current, RunInv
    <3>2. ready'[token'] = "closed" /\ http'[token'] = "none"
      BY <1>0, <2>1, <3>1 DEF TypeOK
    <3>3. QED
      BY <3>2
  <2>5. QED
    BY <2>2, <2>3, <2>4
<1>6. ASSUME NEW r \in Runs, SocketCloses(r) PROVE isBusy'
  <2>1. /\ token' = token /\ ready' = [ready EXCEPT ![r] = "closed"] /\ http' = http
        /\ ready[r] \in {"open", "closing"}
    BY <1>6 DEF SocketCloses
  <2>2. r # token
    BY <1>0, <2>1 DEF Delivers, TypeOK, RunInv
  <2>3. runState' = runState
    BY <1>6, <2>2 DEF SocketCloses, Current
  <2>4. Delivers(token)
    BY <1>0, <2>1, <2>2 DEF Delivers, TypeOK
  <2>5. QED
    BY <1>2, <2>1, <2>3, <2>4 DEF isBusy
<1>7. ASSUME NEW r \in Runs, ServerSends(r) PROVE isBusy'
  <2>1. CASE ResultArrives(r)
    BY <1>2, <2>1 DEF ResultArrives, refs, sockets, Delivers, isBusy
  <2>2. ASSUME NEW e \in Ends, RunEnds(r, e) PROVE FALSE
    <3>1. r = token /\ token' = token /\ http' = http /\ http[r] = "none"
      BY <1>0, <2>2 DEF RunEnds, refs, Current, RunInv
    <3>2. ready'[r] = "closing"
      BY <2>2, CloseSocketValue DEF RunEnds
    <3>3. QED
      BY <3>1, <3>2
  <2>3. QED
    BY <1>7, <2>1, <2>2 DEF ServerSends, Ends
<1>8. ASSUME NEW r \in Runs, HttpSettles(r) \/ HttpAborted(r) PROVE isBusy'
  <2>1. /\ token' = token /\ ready' = ready /\ http' = [http EXCEPT ![r] = "settled"]
        /\ http[r] \in {"flying", "aborted"}
    BY <1>8 DEF HttpSettles, HttpAnswers, HttpFails, HttpAborted, sockets
  <2>2. r # token
    BY <1>0, <2>1 DEF Delivers, TypeOK, RunInv
  <2>3. runState' = runState
    BY <1>8, <2>2 DEF HttpSettles, HttpAnswers, HttpFails, HttpAborted, Current
  <2>4. Delivers(token)
    BY <1>0, <2>1, <2>2 DEF Delivers, TypeOK
  <2>5. QED
    BY <1>2, <2>1, <2>3, <2>4 DEF isBusy
<1>9. QED
  BY <1>1, <1>3, <1>4, <1>5, <1>6, <1>7, <1>8 DEF Next

-----------------------------------------------------------------------------
LEMMA InvInit == Init => IInv
<1> SUFFICES ASSUME Init PROVE IInv
  OBVIOUS
<1>1. TypeOK
  BY TypeInit
<1>2. ASSUME NEW t \in Runs PROVE RunInv(t)
  BY <1>2 DEF Init, RunInv, Untouched
<1>3. RefInv
  BY DEF Init, RefInv
<1>4. ~isBusy
  BY DEF Init, isBusy
<1>5. token = NoRun
  BY DEF Init
<1>6. QED
  BY <1>1, <1>2, <1>3, <1>4, <1>5 DEF IInv, BusyInv, EndedMeansOver

LEMMA InvNext == IInv /\ [Next]_vars => IInv'
<1> SUFFICES ASSUME IInv, [Next]_vars PROVE IInv'
  OBVIOUS
<1>1. TypeOK'
  BY TypeNext DEF IInv
<1>2. CASE Next
  <2>1. \A t \in Runs : RunInv(t)'
    BY <1>1, <1>2, RunKept
  <2>2. RefInv' /\ BusyInv' /\ EndedMeansOver'
    BY <1>1, <1>2, RefKept, BusyKept, EndedKept
  <2>3. QED
    BY <1>1, <2>1, <2>2 DEF IInv
<1>3. CASE UNCHANGED vars
  <2>1. \A t \in Runs : RunInv(t)'
    BY <1>3 DEF IInv, RunInv, Untouched, vars, refs, sockets, server
  <2>2. RefInv'
    BY <1>3 DEF IInv, RefInv, vars, refs, sockets
  <2>3. BusyInv' /\ EndedMeansOver'
    BY <1>3 DEF IInv, BusyInv, EndedMeansOver, Delivers, isBusy, vars, refs, shown,
                sockets
  <2>4. QED
    BY <1>1, <2>1, <2>2, <2>3 DEF IInv
<1>4. QED
  BY <1>2, <1>3

LEMMA InvCorrect == Spec => []IInv
  BY InvInit, InvNext, PTL DEF Spec

(* However a run is submitted, over a socket that opens, fails or is        *)
(* replaced, it is sent to the server at most once.                         *)
THEOREM NeverRequestedTwice == Spec => []RequestedOnce
<1>1. IInv => RequestedOnce
  BY DEF IInv, RunInv, RequestedOnce
<1>2. QED
  BY <1>1, InvCorrect, PTL

(* A page that says a run is over hears nothing of it any more.            *)
THEOREM EndedIsOver == Spec => []EndedMeansOver
<1>1. IInv => EndedMeansOver
  BY DEF IInv
<1>2. QED
  BY <1>1, InvCorrect, PTL

(* Where the browser has WebSocket, the Stop button of a busy page has a    *)
(* socket to close or a request to abort.                                   *)
THEOREM StopAlwaysReaches == Spec => []StopReaches
<1>1. IInv => StopReaches
  <2> SUFFICES ASSUME IInv, mounted, Quiet, isBusy, hasWebSocket
               PROVE  \/ /\ socketRef = token
                         /\ ready[token] \in {"connecting", "open", "failing"}
                      \/ socketRef = NoRun /\ abortRef = token /\ http[token] = "flying"
    BY DEF StopReaches
  <2>1. token \in Runs
    BY RunsAssumption DEF IInv, BusyInv, TypeOK, Runs, NoRun
  <2>2. http[token] # "aborted"
    BY <2>1 DEF Quiet
  <2>3. http[token] = "flying" => abortRef = token
    BY <2>1 DEF IInv, RefInv
  <2>4. QED
    BY <2>2, <2>3 DEF IInv, BusyInv
<1>2. QED
  BY <1>1, InvCorrect, PTL

-----------------------------------------------------------------------------
(* The report and the samples.                                             *)
LEMMA ResultsOfFacts ==
  ASSUME NEW t \in Runs, NEW n \in Nat
  PROVE  /\ ResultsOf(t, n) \in Seq(Runs \X Nat) /\ Len(ResultsOf(t, n)) = n
         /\ \A i \in 1 .. n : ResultsOf(t, n)[i] = <<t, i>>
         /\ ResultsOf(t, 0) = <<>>
         /\ ResultsOf(t, n + 1) = Append(ResultsOf(t, n), <<t, n + 1>>)
<1>1. ResultsOf(t, n) \in Seq(Runs \X Nat) /\ ResultsOf(t, n + 1) \in Seq(Runs \X Nat)
  BY ResultsOfType
<1>2. /\ Len(ResultsOf(t, n)) = n /\ \A i \in 1 .. n : ResultsOf(t, n)[i] = <<t, i>>
      /\ Len(ResultsOf(t, n + 1)) = n + 1
      /\ \A i \in 1 .. n + 1 : ResultsOf(t, n + 1)[i] = <<t, i>>
  BY DEF ResultsOf
<1>3. ResultsOf(t, 0) = <<>>
  BY DEF ResultsOf
<1>4. ResultsOf(t, n + 1) = Append(ResultsOf(t, n), <<t, n + 1>>)
  BY <1>1, <1>2
<1>5. QED
  BY <1>1, <1>2, <1>3, <1>4

\* A run of which nothing was posted comes after those that were.
LEMMA NextRunPosted ==
  ASSUME posted \in Seq(Runs \X Nat), NEW t \in Nat, NEW n \in Nat, NEW q \in Nat, t < q,
         posted = <<>> \/ LastPosted(t, n)
  PROVE  LastPosted(q, 0)
<1>1. ASSUME NEW i \in 1 .. Len(posted), LastPosted(t, n) PROVE posted[i][1] < q
  <2>1. CASE i <= Len(posted) - n
    BY <1>1, <2>1 DEF LastPosted, Runs
  <2>2. CASE i > Len(posted) - n
    <3> DEFINE j == i - (Len(posted) - n)
    <3>1. j \in 1 .. n /\ Len(posted) - n + j = i
      BY <1>1, <2>2 DEF LastPosted
    <3>2. posted[i] = <<t, j>>
      BY <1>1, <3>1 DEF LastPosted
    <3>3. QED
      BY <3>2
  <2>3. QED
    BY <1>1, <2>1, <2>2
<1>2. \A i \in 1 .. Len(posted) : posted[i][1] < q
  BY <1>1
<1>3. Len(posted) \in Nat /\ Len(posted) - 0 = Len(posted) /\ 1 .. 0 = {}
  OBVIOUS
<1>4. QED
  BY <1>2, <1>3 DEF LastPosted

\* A sample, and all the samples of an answer, follow those before.
LEMMA SamplePosted ==
  ASSUME posted \in Seq(Runs \X Nat), NEW t \in Runs, NEW n \in Nat, LastPosted(t, n),
         posted' = posted \o <<(<<t, n + 1>>)>>
  PROVE  LastPosted(t, n + 1)'
<1>1. /\ posted' = Append(posted, <<t, n + 1>>) /\ <<t, n + 1>> \in Runs \X Nat
      /\ Len(posted') = Len(posted) + 1 /\ Len(posted) \in Nat
      /\ \A i \in 1 .. Len(posted) : posted'[i] = posted[i]
      /\ posted'[Len(posted) + 1] = <<t, n + 1>>
  OBVIOUS
<1>2. ASSUME NEW i \in 1 .. n + 1 PROVE posted'[Len(posted') - (n + 1) + i] = <<t, i>>
  <2>1. CASE i = n + 1
    BY <1>1, <2>1 DEF LastPosted
  <2>2. CASE i # n + 1
    <3>1. i \in 1 .. n /\ Len(posted') - (n + 1) + i = Len(posted) - n + i
          /\ Len(posted) - n + i \in 1 .. Len(posted)
      BY <1>1, <2>2 DEF LastPosted
    <3>2. QED
      BY <1>1, <3>1 DEF LastPosted
  <2>3. QED
    BY <2>1, <2>2
<1>3. ASSUME NEW i \in 1 .. Len(posted') - (n + 1) PROVE posted'[i][1] < t
  <2>1. i \in 1 .. Len(posted) - n /\ i \in 1 .. Len(posted)
    BY <1>1 DEF LastPosted
  <2>2. QED
    BY <1>1, <2>1 DEF LastPosted
<1>4. n + 1 <= Len(posted')
  BY <1>1 DEF LastPosted
<1>5. QED
  BY <1>2, <1>3, <1>4 DEF LastPosted

LEMMA AnswerPosted ==
  ASSUME posted \in Seq(Runs \X Nat), NEW t \in Runs, NEW n \in Nat, LastPosted(t, 0),
         posted' = posted \o ResultsOf(t, n)
  PROVE  LastPosted(t, n)'
<1> DEFINE r == ResultsOf(t, n)
<1>1. r \in Seq(Runs \X Nat) /\ Len(r) = n /\ \A i \in 1 .. n : r[i] = <<t, i>>
  BY ResultsOfFacts
<1>2. posted' = posted \o r
  OBVIOUS
<1> HIDE DEF r
<1>3. /\ Len(posted') = Len(posted) + n /\ Len(posted) \in Nat
      /\ \A i \in 1 .. Len(posted) : posted'[i] = posted[i]
      /\ \A i \in 1 .. n : posted'[Len(posted) + i] = r[i]
  <2>1. /\ Len(posted') = Len(posted) + n /\ Len(posted) \in Nat
        /\ \A i \in 1 .. Len(posted) + n : posted'[i] =
             IF i <= Len(posted) THEN posted[i] ELSE r[i - Len(posted)]
    BY <1>1, <1>2, ConcatProperties
  <2>2. ASSUME NEW i \in 1 .. n PROVE posted'[Len(posted) + i] = r[i]
    <3> PICK k \in Nat : k = Len(posted) + i
      BY <2>1
    <3>1. k \in 1 .. Len(posted) + n /\ ~(k <= Len(posted)) /\ k - Len(posted) = i
      BY <2>1
    <3>2. posted'[k] = r[k - Len(posted)]
      BY <2>1, <3>1
    <3>3. QED
      BY <3>1, <3>2
  <2>3. QED
    BY <2>1, <2>2
<1>4. ASSUME NEW i \in 1 .. n PROVE posted'[Len(posted') - n + i] = <<t, i>>
  <2>1. Len(posted') - n + i = Len(posted) + i
    BY <1>3
  <2>2. posted'[Len(posted) + i] = <<t, i>>
    BY <1>1, <1>3
  <2>3. QED
    BY <2>1, <2>2
<1>5. \A i \in 1 .. Len(posted') - n : posted'[i][1] < t
  BY <1>3 DEF LastPosted
<1>6. n <= Len(posted')
  BY <1>3
<1>7. QED
  BY <1>4, <1>5, <1>6 DEF LastPosted

-----------------------------------------------------------------------------
LEMMA SentKept ==
  ASSUME ShareInv, Next, NEW t \in Runs
  PROVE  SentInv(t)'
<1> USE DEF NoRun
<1>0. /\ TypeOK /\ RunInv(t) /\ SentInv(t) /\ token \in Nat /\ t \in Nat
      /\ sent[t] \in Nat
  <2>1. TypeOK /\ RunInv(t) /\ SentInv(t)
    BY DEF ShareInv, IInv
  <2>2. token \in 0 .. MaxRuns /\ sent[t] \in 0 .. MaxResults
    BY <2>1 DEF TypeOK
  <2>3. QED
    BY <2>1, <2>2, RunFacts, RunsAssumption, ResultsAssumption
<1>1. CASE Run
  <2>1. sent' = sent /\ dispatched' = dispatched /\ token' = token + 1
    BY <1>1 DEF Run
  <2>2. CASE t = token + 1
    BY <1>0, <2>1, <2>2 DEF SentInv
  <2>3. CASE t # token + 1
    <3>1. http'[t] = AbortRequest(abortRef)[t]
      BY <1>0, <1>1, <2>3 DEF Run, TypeOK, AbortRequest
    <3>2. QED
      BY <1>0, <2>1, <2>3, <3>1, AbortRequestValue DEF SentInv
  <2>4. QED
    BY <2>2, <2>3
<1>2. CASE Stop \/ Unmount
  <2>1. /\ sent' = sent /\ dispatched' = dispatched /\ token' = token
        /\ http'[t] = http[t] \/ http'[t] = AbortRequest(abortRef)[t]
    BY <1>2 DEF Stop, Unmount, server
  <2>2. QED
    BY <1>0, <2>1, AbortRequestValue DEF SentInv
<1>3. ASSUME NEW r \in Runs, Opens(r) PROVE SentInv(t)'
  <2>1. /\ sent' = sent /\ http' = http /\ token' = token
        /\ dispatched' = [dispatched EXCEPT ![r] = TRUE]
    BY <1>3 DEF Opens, refs
  <2>2. dispatched[t] => dispatched'[t]
    BY <1>0, <2>1 DEF TypeOK
  <2>3. QED
    BY <1>0, <2>1, <2>2 DEF SentInv
<1>4. ASSUME NEW r \in Runs, SocketFails(r) PROVE SentInv(t)'
  <2>1. /\ sent' = sent /\ dispatched' = dispatched /\ token' = token
        /\ ready[r] \in {"connecting", "failing", "open"}
        /\ \/ http' = http
           \/ ~dispatched[r] /\ http' = [http EXCEPT ![r] = "flying"]
    BY <1>4 DEF SocketFails, StartFallback, MayFallBack
  <2>2. CASE http' = http
    BY <1>0, <2>1, <2>2 DEF SentInv
  <2>3. CASE ~dispatched[r] /\ http' = [http EXCEPT ![r] = "flying"]
    <3>1. CASE r = t
      <4>1. http[t] = "none" /\ sent[t] = 0
        BY <1>0, <2>1, <2>3, <3>1 DEF RunInv, SentInv
      <4>2. QED
        BY <2>1, <4>1 DEF SentInv
    <3>2. CASE r # t
      <4>1. http'[t] = http[t]
        BY <1>0, <2>3, <3>2 DEF TypeOK
      <4>2. QED
        BY <1>0, <2>1, <4>1 DEF SentInv
    <3>3. QED
      BY <3>1, <3>2
  <2>4. QED
    BY <2>1, <2>2, <2>3
<1>5. ASSUME NEW r \in Runs, SocketCloses(r) PROVE SentInv(t)'
  BY <1>0, <1>5 DEF SocketCloses, server, SentInv
<1>6. ASSUME NEW r \in Runs, ServerSends(r) PROVE SentInv(t)'
  <2>1. CASE ResultArrives(r)
    <3>1. /\ dispatched' = dispatched /\ http' = http /\ token' = token
          /\ ready[r] = "open" /\ sent' = [sent EXCEPT ![r] = @ + 1]
      BY <2>1 DEF ResultArrives, sockets, refs
    <3>2. CASE r = t
      BY <1>0, <3>1, <3>2 DEF RunInv, Untouched, SentInv
    <3>3. CASE r # t
      BY <1>0, <3>1, <3>3 DEF TypeOK, SentInv
    <3>4. QED
      BY <3>2, <3>3
  <2>2. ASSUME NEW e \in Ends, RunEnds(r, e) PROVE SentInv(t)'
    BY <1>0, <2>2 DEF RunEnds, refs, server, SentInv
  <2>3. QED
    BY <1>6, <2>1, <2>2 DEF ServerSends, Ends
<1>7. ASSUME NEW r \in Runs, HttpSettles(r) \/ HttpAborted(r) PROVE SentInv(t)'
  <2>1. /\ dispatched' = dispatched /\ token' = token
        /\ http' = [http EXCEPT ![r] = "settled"] /\ http[r] # "none"
        /\ sent' = sent \/ \E n \in 1 .. MaxResults : sent' = [sent EXCEPT ![r] = n]
    BY <1>7 DEF HttpSettles, HttpAnswers, HttpFails, HttpAborted, sockets, server
  <2>2. CASE r = t
    <3>1. http'[t] = "settled" /\ ~(t > token)
      BY <1>0, <2>1, <2>2 DEF TypeOK, RunInv, Untouched
    <3>2. QED
      BY <2>1, <3>1 DEF SentInv
  <2>3. CASE r # t
    <3>1. http'[t] = http[t] /\ sent'[t] = sent[t]
      BY <1>0, <2>1, <2>3 DEF TypeOK
    <3>2. QED
      BY <1>0, <2>1, <3>1 DEF SentInv
  <2>4. QED
    BY <2>2, <2>3
<1>8. QED
  BY <1>1, <1>2, <1>3, <1>4, <1>5, <1>6, <1>7 DEF Next

\* A step that shows and posts nothing.
LEMMA NothingShown ==
  ASSUME ReportIsOfRun, token' = token, report'.run = report.run,
         report'.results = report.results, posted' = posted, kind' = kind,
         mounted' => mounted /\ sent'[token] = sent[token]
  PROVE  ReportIsOfRun'
<1> SUFFICES ASSUME mounted', token # NoRun
             PROVE  /\ report'.results = ResultsOf(token, sent'[token])
                    /\ IF kind = "portscan" THEN posted' = <<>>
                       ELSE LastPosted(token, sent[token])'
  BY DEF ReportIsOfRun
<1>1. /\ report'.results = ResultsOf(token, sent'[token])
      /\ IF kind = "portscan" THEN posted = <<>> ELSE LastPosted(token, sent[token])
  BY DEF ReportIsOfRun
<1>2. LastPosted(token, sent[token]) => LastPosted(token, sent[token])'
  BY DEF LastPosted
<1>3. QED
  BY <1>1, <1>2

LEMMA ReportKept ==
  ASSUME ShareInv, Next
  PROVE  ReportIsOfRun' /\ (token = NoRun => posted = <<>>)'
<1> USE DEF NoRun
<1>0. /\ TypeOK /\ ReportIsOfRun /\ (token = 0 => posted = <<>>)
      /\ token \in Nat /\ (token # 0 => token \in Runs)
      /\ report.run = token /\ posted \in Seq(Runs \X Nat)
      /\ \A t \in Runs : RunInv(t) /\ SentInv(t) /\ sent[t] \in Nat /\ t \in Nat /\ t # 0
  <2>1. TypeOK /\ \A t \in Runs : RunInv(t) /\ SentInv(t)
    BY DEF ShareInv, IInv
  <2>2. token \in 0 .. MaxRuns /\ \A t \in Runs : sent[t] \in 0 .. MaxResults
    BY <2>1 DEF TypeOK
  <2>3. token \in Nat /\ (token # 0 => token \in Runs)
    BY <2>2, RunsAssumption DEF Runs
  <2>4. \A t \in Runs : sent[t] \in Nat /\ t \in Nat /\ t # 0
    BY <2>2, RunFacts, ResultsAssumption
  <2>5. ReportIsOfRun /\ (token = 0 => posted = <<>>)
    BY DEF ShareInv
  <2>6. report.run = token /\ posted \in Seq(Runs \X Nat)
    BY <2>1, <2>5 DEF ReportIsOfRun, TypeOK
  <2>7. QED
    BY <2>1, <2>3, <2>4, <2>5, <2>6
<1>1. mounted /\ token # 0 =>
        /\ report.results = ResultsOf(token, sent[token])
        /\ IF kind = "portscan" THEN posted = <<>> ELSE LastPosted(token, sent[token])
  BY <1>0 DEF ReportIsOfRun
<1>2. CASE Run
  <2>1. /\ mounted /\ token + 1 \in Runs /\ posted' = posted /\ sent' = sent
        /\ kind' = kind /\ token' = token + 1 /\ report' = InitialReport(token + 1)
    BY <1>0, <1>2, RunsAssumption DEF Run, MaySubmit, Runs
  <2> PICK q \in Runs : q = token + 1
    BY <2>1
  <2>2. sent[q] = 0 /\ token < q /\ q # 0
    BY <1>0 DEF SentInv
  <2>3. kind = "portscan" => posted = <<>>
    BY <1>0, <1>1, <2>1
  <2>4. kind # "portscan" => LastPosted(q, 0)
    <3>1. CASE token = 0
      BY <1>0, <2>2, <3>1, NextRunPosted
    <3>2. CASE token # 0 /\ kind # "portscan"
      BY <1>0, <1>1, <2>1, <2>2, <3>2, NextRunPosted
    <3>3. QED
      BY <3>1, <3>2
  <2>5. kind # "portscan" => LastPosted(q, 0)'
    BY <2>1, <2>4 DEF LastPosted
  <2>6. report'.results = <<>> /\ report'.run = q /\ ResultsOf(q, 0) = <<>>
    BY <2>1, ResultsOfFacts DEF InitialReport
  <2>7. token' = q /\ sent'[q] = 0
    BY <2>1, <2>2
  <2>8. ReportIsOfRun'
    BY <2>1, <2>3, <2>5, <2>6, <2>7 DEF ReportIsOfRun
  <2>9. QED
    BY <2>2, <2>7, <2>8
<1>3. ASSUME token' = token, report'.run = report.run, report'.results = report.results,
             posted' = posted, kind' = kind,
             mounted' /\ token # 0 => mounted /\ sent'[token] = sent[token]
      PROVE  ReportIsOfRun' /\ (token' = 0 => posted' = <<>>)
  <2>1. CASE token = 0
    BY <1>0, <1>3, <2>1 DEF ReportIsOfRun
  <2>2. CASE token # 0
    BY <1>0, <1>3, <2>2, NothingShown
  <2>3. QED
    BY <1>0, <1>3, <2>1, <2>2
<1>4. CASE Stop \/ Unmount
  BY <1>3, <1>4 DEF Stop, Unmount, shown, server
<1>5. ASSUME NEW t \in Runs, Opens(t) \/ SocketFails(t) \/ SocketCloses(t)
      PROVE  ReportIsOfRun' /\ (token' = 0 => posted' = <<>>)
  BY <1>3, <1>5 DEF Opens, SocketFails, SocketCloses, refs, server
<1>6. ASSUME NEW t \in Runs, HttpFails(t) \/ HttpAborted(t)
      PROVE  ReportIsOfRun' /\ (token' = 0 => posted' = <<>>)
  BY <1>3, <1>6 DEF HttpFails, HttpAborted, server
<1>7. ASSUME NEW t \in Runs, NEW e \in Ends, RunEnds(t, e)
      PROVE  ReportIsOfRun' /\ (token' = 0 => posted' = <<>>)
  <2>1. /\ token' = token /\ mounted' = mounted /\ posted' = posted /\ kind' = kind
        /\ sent' = sent /\ report' = MergeSummary(e)
    BY <1>7 DEF RunEnds, refs, server
  <2>2. report'.run = report.run /\ report'.results = report.results
    BY <1>0, <2>1 DEF MergeSummary, TypeOK
  <2>3. QED
    BY <1>3, <2>1, <2>2
<1>8. ASSUME NEW t \in Runs, ~Current(t), \/ ResultArrives(t)
                                          \/ \E n \in 1 .. MaxResults : HttpAnswers(t, n)
      PROVE  ReportIsOfRun' /\ (token' = 0 => posted' = <<>>)
  <2>1. /\ token' = token /\ mounted' = mounted /\ posted' = posted /\ kind' = kind
        /\ report' = report /\ \E n : sent' = [sent EXCEPT ![t] = n]
    BY <1>8 DEF ResultArrives, HttpAnswers, refs
  <2>2. mounted /\ token # 0 => sent'[token] = sent[token]
    BY <1>0, <1>8, <2>1 DEF Current, TypeOK
  <2>3. QED
    BY <1>3, <2>1, <2>2
<1>9. ASSUME NEW t \in Runs, Current(t), ResultArrives(t)
      PROVE  ReportIsOfRun' /\ (token' = 0 => posted' = <<>>)
  <2> PICK n \in Nat : n = sent[t]
    BY <1>0
  <2>1. /\ t = token /\ token # 0 /\ mounted /\ token' = token /\ kind' = kind
        /\ sent' = [sent EXCEPT ![t] = n + 1]
    BY <1>0, <1>9 DEF Current, ResultArrives, refs
  <2>2. sent'[t] = n + 1
    BY <1>0, <2>1 DEF TypeOK
  <2>3. /\ report' = MergeResult(<<t, n + 1>>)
        /\ posted' = Publish(<<(<<t, n + 1>>)>>)
    BY <1>9, <2>2 DEF ResultArrives
  <2>4. report'.run = t /\ report'.results = Append(report.results, <<t, n + 1>>)
    BY <1>0, <2>1, <2>3 DEF MergeResult, TypeOK
  <2>5. report'.results = ResultsOf(t, n + 1)
    <3>1. report.results = ResultsOf(t, n)
      BY <1>1, <2>1
    <3>2. QED
      BY <2>4, <3>1, ResultsOfFacts
  <2>6. IF kind = "portscan" THEN posted' = <<>> ELSE LastPosted(t, n + 1)'
    <3>1. CASE kind = "portscan"
      BY <1>1, <2>1, <2>3, <3>1 DEF Publish
    <3>2. CASE kind # "portscan"
      <4>1. LastPosted(t, n) /\ posted' = posted \o <<(<<t, n + 1>>)>>
        BY <1>1, <2>1, <2>3, <3>2 DEF Publish
      <4>2. QED
        BY <1>0, <3>2, <4>1, SamplePosted
    <3>3. QED
      BY <3>1, <3>2
  <2>7. ReportIsOfRun'
    BY <2>1, <2>2, <2>4, <2>5, <2>6 DEF ReportIsOfRun
  <2>8. QED
    BY <2>1, <2>7
<1>10. ASSUME NEW t \in Runs, Current(t), NEW n \in 1 .. MaxResults, HttpAnswers(t, n)
       PROVE  ReportIsOfRun' /\ (token' = 0 => posted' = <<>>)
  <2>1. /\ t = token /\ token # 0 /\ mounted /\ token' = token /\ kind' = kind
        /\ sent' = [sent EXCEPT ![t] = n] /\ sent[t] = 0 /\ n \in Nat
        /\ report'.run = t /\ report'.results = ResultsOf(t, n)
        /\ posted' = Publish(ResultsOf(t, n))
    BY <1>0, <1>10 DEF Current, HttpAnswers, SentInv
  <2>2. sent'[t] = n
    BY <1>0, <2>1 DEF TypeOK
  <2>3. IF kind = "portscan" THEN posted' = <<>> ELSE LastPosted(t, n)'
    <3>1. CASE kind = "portscan"
      BY <1>1, <2>1, <3>1 DEF Publish
    <3>2. CASE kind # "portscan"
      <4>1. LastPosted(t, 0) /\ posted' = posted \o ResultsOf(t, n)
        BY <1>1, <2>1, <3>2 DEF Publish
      <4>2. QED
        BY <1>0, <2>1, <3>2, <4>1, AnswerPosted
    <3>3. QED
      BY <3>1, <3>2
  <2>4. ReportIsOfRun'
    BY <2>1, <2>2, <2>3 DEF ReportIsOfRun
  <2>5. QED
    BY <2>1, <2>4
<1>11. QED
  BY <1>2, <1>4, <1>5, <1>6, <1>7, <1>8, <1>9, <1>10
     DEF Next, ServerSends, HttpSettles, Ends

LEMMA ShareCorrect == Spec => []ShareInv
<1>1. Init => ShareInv
  <2> SUFFICES ASSUME Init PROVE ShareInv
    OBVIOUS
  <2>1. IInv
    BY InvInit
  <2>2. ReportIsOfRun /\ posted = <<>>
    BY DEF Init, ReportIsOfRun, InitialReport
  <2>3. \A t \in Runs : SentInv(t)
    BY DEF Init, SentInv
  <2>4. QED
    BY <2>1, <2>2, <2>3 DEF ShareInv
<1>2. ShareInv /\ [Next]_vars => ShareInv'
  <2> SUFFICES ASSUME ShareInv, [Next]_vars PROVE ShareInv'
    OBVIOUS
  <2>1. IInv'
    BY InvNext DEF ShareInv
  <2>2. CASE Next
    <3>1. \A t \in Runs : SentInv(t)'
      BY <2>2, SentKept
    <3>2. ReportIsOfRun' /\ (token = NoRun => posted = <<>>)'
      BY <2>2, ReportKept
    <3>3. QED
      BY <2>1, <3>1, <3>2 DEF ShareInv
  <2>3. CASE UNCHANGED vars
    <3>1. UNCHANGED <<token, posted, report, kind, mounted, sent, dispatched, http>>
      BY <2>3 DEF vars, refs, shown, sockets, server
    <3>2. ReportIsOfRun'
      BY <3>1 DEF ShareInv, ReportIsOfRun, LastPosted
    <3>3. \A t \in Runs : SentInv(t)'
      BY <3>1 DEF ShareInv, SentInv
    <3>4. QED
      BY <2>1, <3>1, <3>2, <3>3 DEF ShareInv
  <2>4. QED
    BY <2>2, <2>3
<1>3. QED
  BY <1>1, <1>2, PTL DEF Spec

(* Whatever earlier runs still deliver, the page shows the results of its   *)
(* run in order and without a gap, and those are the last samples the       *)
(* overview was sent (the message listener and runViaHTTP).                *)
THEOREM ReportIsTrue == Spec => []ReportIsOfRun
<1>1. ShareInv => ReportIsOfRun
  BY DEF ShareInv
<1>2. QED
  BY <1>1, ShareCorrect, PTL
=============================================================================
