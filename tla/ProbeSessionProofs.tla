------------------------- MODULE ProbeSessionProofs --------------------------
(***************************************************************************)
(* Theorems about ProbeSession, for any connections, HTTP handlers, number *)
(* of slots and lengths of runs.                                           *)
(***************************************************************************)
EXTENDS ProbeSession, FiniteSetTheorems, TLAPS

(* The positions of the events that end a run, as EndsOnce counts them.    *)
EndsOf(s) == {i \in DOMAIN s : s[i] \in Terminal}

LEMMA EventFacts ==
  /\ "result" \in Event /\ "result" \notin Terminal
  /\ Terminal \subseteq Event
  /\ "summary" \in Terminal /\ "stopped" \in Terminal /\ "error" \in Terminal
  BY DEF Event, Terminal

LEMMA AppendResult ==
  ASSUME NEW s \in Seq(Event), EndsOf(s) = {}
  PROVE  EndsOf(Append(s, "result")) = {}
<1>1. ASSUME NEW i \in DOMAIN Append(s, "result")
      PROVE  Append(s, "result")[i] \notin Terminal
  <2>1. CASE i \in DOMAIN s
    BY <2>1, EventFacts DEF EndsOf
  <2>2. CASE i \notin DOMAIN s
    <3>1. Append(s, "result")[i] = "result"
      BY <1>1, <2>2, EventFacts
    <3>2. QED
      BY <3>1, EventFacts
  <2>3. QED
    BY <2>1, <2>2
<1>2. QED
  BY <1>1 DEF EndsOf

LEMMA AppendEnd ==
  ASSUME NEW s \in Seq(Event), EndsOf(s) = {}, NEW x \in Terminal
  PROVE  EndsOf(Append(s, x)) = {Len(Append(s, x))}
<1>1. x \in Event
  BY EventFacts
<1>2. /\ Len(Append(s, x)) = Len(s) + 1 /\ DOMAIN Append(s, x) = 1 .. Len(s) + 1
      /\ Append(s, x)[Len(s) + 1] = x
      /\ Len(s) \in Nat
  BY <1>1
<1>3. ASSUME NEW i \in 1 .. Len(s) PROVE Append(s, x)[i] \notin Terminal
  BY <1>1, <1>3 DEF EndsOf
<1>4. QED
  BY <1>2, <1>3 DEF EndsOf

LEMMA AppendResultAndEnd ==
  ASSUME NEW s \in Seq(Event), EndsOf(s) = {}
  PROVE  /\ s \o <<"result", "summary">> \in Seq(Event)
         /\ EndsOf(s \o <<"result", "summary">>) = {Len(s \o <<"result", "summary">>)}
<1>1. Append(s, "result") \in Seq(Event) /\ EndsOf(Append(s, "result")) = {}
  BY AppendResult, EventFacts
<1>2. Append(Append(s, "result"), "summary") \in Seq(Event)
  BY <1>1, EventFacts
<1>3. s \o <<"result", "summary">> = Append(Append(s, "result"), "summary")
  BY EventFacts
<1>4. QED
  BY <1>1, <1>2, <1>3, AppendEnd, EventFacts

-----------------------------------------------------------------------------
LEMMA TypeInit == Init => TypeOK
<1> SUFFICES ASSUME Init PROVE TypeOK
  OBVIOUS
<1>1. /\ sent \in [Conns -> 0 .. MaxMessages] /\ idle \in [Conns -> 0 .. ReadTimeout]
      /\ todo \in [Conns -> Nat] /\ dialing \in [Conns -> Nat]
      /\ ready \in [Conns -> Nat] /\ due \in [Conns -> Nat] /\ late \in [Conns -> Nat]
  BY SizeAssumption DEF Init
<1>2. inbox \in [Conns -> Seq({"run", "stop"})] /\ got \in [Conns -> Seq(Event)]
  BY DEF Init
<1>3. /\ client \in [Conns -> {"open", "gone"}]
      /\ handler \in [Conns -> {"reading", "returned"}]
      /\ phase \in [Conns -> Phases] /\ canceled \in [Conns -> Reasons]
      /\ kind \in [Conns -> Kinds]
  BY DEF Init, Phases, Reasons, Kinds
<1>4. used \in Nat /\ probing \subseteq Handlers
  BY DEF Init
<1>5. QED
  BY <1>1, <1>2, <1>3, <1>4 DEF TypeOK

(* The handler's actions share Read and Cancel, the run's actions Emit.    *)
LEMMA ReadType ==
  ASSUME TypeOK, NEW c \in Conns, NEW x, Read(c, x)
  PROVE  /\ inbox' \in [Conns -> Seq({"run", "stop"})]
         /\ idle' \in [Conns -> 0 .. ReadTimeout]
<1>1. Tail(inbox[c]) \in Seq({"run", "stop"})
  BY DEF Read, TypeOK
<1>2. QED
  BY <1>1, SizeAssumption DEF Read, TypeOK

LEMMA CancelType ==
  ASSUME TypeOK, NEW c \in Conns, NEW why \in Reasons, Cancel(c, why)
  PROVE  canceled' \in [Conns -> Reasons] /\ due' \in [Conns -> Nat]
<1>1. dialing[c] + ready[c] \in Nat
  BY DEF TypeOK
<1>2. QED
  BY <1>1 DEF Cancel, TypeOK

LEMMA EmitType ==
  ASSUME TypeOK, NEW c \in Conns, NEW x \in Event, Emit(c, x)
  PROVE  got' \in [Conns -> Seq(Event)]
<1>1. Append(got[c], x) \in Seq(Event)
  BY DEF TypeOK
<1>2. QED
  BY <1>1 DEF Emit, TypeOK

LEMMA RunStepType ==
  ASSUME TypeOK, RunInv, SlotsConserved, NEW c \in Conns, RunStep(c)
  PROVE  TypeOK'
<1> USE SizeAssumption, EventFacts
<1>0. /\ client' = client /\ sent' = sent /\ inbox' = inbox /\ handler' = handler
      /\ idle' = idle /\ probing' = probing
  BY DEF RunStep, Acquire, Busy, Fails, NextProbe, Begin, DialEnds, PingResult,
         ScanResult, ResultLost, Produces, ScanSummary, Stopped, Release, Clear, Forget, connVars, slotVars
<1>1. phase' \in [Conns -> Phases]
  <2>1. phase' = phase \/ \E x \in Phases : phase' = [phase EXCEPT ![c] = x]
    BY DEF RunStep, Acquire, Busy, Fails, NextProbe, Begin, DialEnds, PingResult,
         ScanResult, ResultLost, Produces, ScanSummary, Stopped, Release, Clear, Forget, Phases
  <2>2. QED
    BY <2>1 DEF TypeOK
<1>2. canceled' \in [Conns -> Reasons] /\ kind' \in [Conns -> Kinds]
  <2>1. CASE Acquire(c)
    BY <2>1 DEF Acquire, TypeOK
  <2>2. CASE Clear(c)
    BY <2>2 DEF Clear, Forget, TypeOK, Reasons, Kinds
  <2>3. CASE ~(Acquire(c) \/ Clear(c))
    BY <2>3 DEF RunStep, Acquire, Busy, Fails, NextProbe, Begin, DialEnds, PingResult,
         ScanResult, ResultLost, Produces, ScanSummary, Stopped, Release, Clear, Forget, workVars, TypeOK
  <2>4. QED
    BY <2>1, <2>2, <2>3
<1>3. todo' \in [Conns -> Nat] /\ dialing' \in [Conns -> Nat] /\ ready' \in [Conns -> Nat]
  <2>0. todo[c] \in Nat /\ dialing[c] \in Nat /\ ready[c] \in Nat
    BY DEF TypeOK
  <2>1. CASE Acquire(c)
    BY <2>1 DEF Acquire, TypeOK
  <2>2. CASE NextProbe(c)
    BY <2>0, <2>2 DEF NextProbe, Begin, TypeOK
  <2>3. CASE DialEnds(c)
    <3>1. todo' = todo /\ dialing' \in [Conns -> Nat]
      <4>1. dialing[c] - 1 \in Nat /\ dialing' = [dialing EXCEPT ![c] = dialing[c] - 1]
        BY <2>0, <2>3 DEF DialEnds
      <4>2. QED
        BY <2>3, <4>1 DEF DialEnds, TypeOK
    <3>2. ready' \in [Conns -> Nat]
      <4>1. ready[c] + 1 \in Nat
        BY <2>0
      <4>2. \/ ready' = [ready EXCEPT ![c] = ready[c] + 1]
            \/ ready' = ready
        BY <2>3 DEF DialEnds
      <4>3. QED
        BY <4>1, <4>2 DEF TypeOK
    <3>3. QED
      BY <3>1, <3>2 DEF TypeOK
  <2>4. CASE PingResult(c)
    BY <2>0, <2>4 DEF PingResult, Produces, TypeOK
  <2>5. CASE ScanResult(c)
    BY <2>0, <2>5 DEF ScanResult, Produces, TypeOK
  <2>6. CASE ResultLost(c)
    BY <2>6 DEF ResultLost, TypeOK
  <2>7. CASE Stopped(c)
    BY <2>7 DEF Stopped, TypeOK
  <2>8. CASE Busy(c) \/ Fails(c) \/ ScanSummary(c) \/ Release(c) \/ Clear(c)
    BY <2>8 DEF Busy, Fails, ScanSummary, Release, Clear, Forget, workVars, TypeOK
  <2>9. QED
    BY <2>1, <2>2, <2>3, <2>4, <2>5, <2>6, <2>7, <2>8 DEF RunStep
<1>4. got' \in [Conns -> Seq(Event)]
  <2>1. CASE Busy(c) \/ Fails(c) \/ Stopped(c) \/ ScanSummary(c) \/ ScanResult(c)
    <3>1. \E x \in Event : Emit(c, x)
      BY <2>1 DEF Busy, Fails, Stopped, ScanSummary, ScanResult
    <3>2. QED
      BY <3>1, EmitType
  <2>3. CASE PingResult(c)
    <3>1. CASE todo[c] > 0
      BY <2>3, <3>1, EmitType DEF PingResult
    <3>2. CASE ~(todo[c] > 0)
      <4>1. got[c] \o <<"result", "summary">> \in Seq(Event)
        BY DEF TypeOK
      <4>2. got' = [got EXCEPT ![c] =
              IF Reaches(c) THEN got[c] \o <<"result", "summary">> ELSE got[c]]
        BY <2>3, <3>2 DEF PingResult
      <4>3. got \in [Conns -> Seq(Event)]
        BY DEF TypeOK
      <4>4. QED
        BY <4>1, <4>2, <4>3
    <3>3. QED
      BY <3>1, <3>2
  <2>4. CASE Clear(c)
    BY <2>4 DEF Clear, Forget, TypeOK
  <2>5. CASE Acquire(c) \/ NextProbe(c) \/ DialEnds(c) \/ ResultLost(c) \/ Release(c)
    BY <2>5 DEF Acquire, NextProbe, Begin, DialEnds, ResultLost, Release, TypeOK
  <2>6. QED
    BY <2>1, <2>3, <2>4, <2>5 DEF RunStep
<1>5. due' \in [Conns -> Nat] /\ late' \in [Conns -> Nat]
  <2>1. CASE PingResult(c) \/ ScanResult(c) \/ ResultLost(c)
    <3>1. Produces(c)
      BY <2>1 DEF PingResult, ScanResult, ResultLost
    <3>2. QED
      BY <3>1 DEF Produces, TypeOK
  <2>2. CASE Clear(c)
    BY <2>2 DEF Clear, Forget, TypeOK
  <2>3. CASE ~(PingResult(c) \/ ScanResult(c) \/ ResultLost(c) \/ Clear(c))
    BY <2>3 DEF RunStep, Acquire, Busy, Fails, NextProbe, Begin, DialEnds, ScanSummary,
                Stopped, Release, historyVars, TypeOK
  <2>4. QED
    BY <2>1, <2>2, <2>3
<1>6. used' \in Nat
  <2>1. CASE Release(c)
    <3>1. c \in Holding /\ Holding \subseteq Conns /\ IsFiniteSet(Holding)
      BY <2>1, FS_Subset DEF Release, Holding
    <3>2. Cardinality(Holding) \in Nat /\ Cardinality(Holding) # 0
      BY <3>1, FS_CardinalityType, FS_EmptySet
    <3>3. IsFiniteSet(probing) /\ Cardinality(probing) \in Nat
      BY FS_Subset, FS_CardinalityType DEF TypeOK
    <3>4. used > 0
      BY <3>2, <3>3 DEF SlotsConserved
    <3>5. QED
      BY <2>1, <3>4 DEF Release, TypeOK
  <2>2. CASE ~Release(c)
    BY <2>2 DEF RunStep, Acquire, Busy, Fails, NextProbe, Begin, DialEnds, PingResult,
                ScanResult, ResultLost, Produces, ScanSummary, Stopped, Clear, Forget,
                slotVars, TypeOK
  <2>3. QED
    BY <2>1, <2>2
<1>7. QED
  BY <1>0, <1>1, <1>2, <1>3, <1>4, <1>5, <1>6 DEF TypeOK

LEMMA TypeNext == IInv /\ [Next]_vars => TypeOK'
<1> SUFFICES ASSUME IInv, [Next]_vars PROVE TypeOK'
  OBVIOUS
<1> USE SizeAssumption
<1>0. TypeOK /\ RunInv /\ SlotsConserved
  BY DEF IInv
<1>1. ASSUME NEW c \in Conns, NEW x \in {"run", "stop"}, SendMessage(c, x)
      PROVE  TypeOK'
  <2>1. Append(inbox[c], x) \in Seq({"run", "stop"})
    BY <1>0 DEF TypeOK
  <2>2. inbox' \in [Conns -> Seq({"run", "stop"})] /\ sent' \in [Conns -> 0 .. MaxMessages]
    BY <1>0, <1>1, <2>1 DEF SendMessage, TypeOK
  <2>3. QED
    BY <1>0, <1>1, <2>2 DEF SendMessage, runVars, workVars, historyVars, slotVars, TypeOK
<1>2. ASSUME NEW c \in Conns, Disconnect(c) PROVE TypeOK'
  BY <1>0, <1>2 DEF Disconnect, runVars, workVars, historyVars, slotVars, TypeOK
<1>3. ASSUME NEW c \in Conns, ReadRun(c) PROVE TypeOK'
  <2>1. Read(c, "run") /\ UNCHANGED <<client, sent, handler, slotVars>>
    BY <1>3 DEF ReadRun, Read
  <2>2. phase' \in [Conns -> Phases]
    BY <1>0, <1>3 DEF ReadRun, TypeOK, Phases
  <2>3. QED
    BY <1>0, <1>3, <2>1, <2>2, ReadType
    DEF ReadRun, workVars, historyVars, slotVars, TypeOK
<1>4. ASSUME NEW c \in Conns, ReadStop(c) PROVE TypeOK'
  <2>1. Read(c, "stop") /\ Cancel(c, "stop") /\ "stop" \in Reasons
    BY <1>4 DEF ReadStop, Reasons
  <2>2. canceled' \in [Conns -> Reasons] /\ due' \in [Conns -> Nat]
    BY <1>0, <2>1, CancelType
  <2>3. QED
    BY <1>0, <1>4, <2>1, <2>2, ReadType DEF ReadStop, Read, workVars, slotVars, TypeOK
<1>5. ASSUME NEW c \in Conns, ReadEnds(c) PROVE TypeOK'
  <2>1. canceled' \in [Conns -> Reasons] /\ due' \in [Conns -> Nat]
    <3>1. "gone" \in Reasons /\ "timeout" \in Reasons
      BY DEF Reasons
    <3>2. QED
      BY <1>0, <1>5, <3>1, CancelType DEF ReadEnds
  <2>2. inbox' \in [Conns -> Seq({"run", "stop"})]
    BY <1>0, <1>5 DEF ReadEnds, TypeOK
  <2>3. QED
    BY <1>0, <1>5, <2>1, <2>2 DEF ReadEnds, workVars, slotVars, TypeOK
<1>6. ASSUME NEW c \in Conns, RunStep(c) PROVE TypeOK'
  BY <1>0, <1>6, RunStepType
<1>7. ASSUME NEW h \in Handlers, HttpProbe(h) PROVE TypeOK'
  BY <1>0, <1>7 DEF HttpProbe, connVars, runVars, workVars, historyVars, TypeOK
<1>8. ASSUME NEW h \in Handlers, HttpReply(h) PROVE TypeOK'
  <2>1. IsFiniteSet(probing) /\ Cardinality(probing) \in Nat /\ Cardinality(probing) # 0
    BY <1>0, <1>8, FS_Subset, FS_CardinalityType, FS_EmptySet DEF TypeOK, HttpReply
  <2>2. IsFiniteSet(Holding) /\ Cardinality(Holding) \in Nat
    BY FS_Subset, FS_CardinalityType DEF Holding
  <2>3. used > 0
    BY <1>0, <2>1, <2>2 DEF SlotsConserved
  <2>4. QED
    BY <1>0, <1>8, <2>3 DEF HttpReply, connVars, runVars, workVars, historyVars, TypeOK
<1>9. CASE Tick
  <2>1. ASSUME NEW c \in Conns PROVE idle'[c] \in 0 .. ReadTimeout
    <3>1. idle[c] \in 0 .. ReadTimeout
      BY <1>0 DEF TypeOK
    <3>2. QED
      BY <1>9, <3>1 DEF Tick
  <2>2. idle' \in [Conns -> 0 .. ReadTimeout]
    BY <1>9, <2>1 DEF Tick
  <2>3. QED
    BY <1>0, <1>9, <2>2 DEF Tick, runVars, workVars, historyVars, slotVars, TypeOK
<1>10. CASE UNCHANGED vars
  BY <1>0, <1>10 DEF vars, connVars, runVars, workVars, historyVars, slotVars, TypeOK
<1>11. QED
  BY <1>1, <1>2, <1>3, <1>4, <1>5, <1>6, <1>7, <1>8, <1>9, <1>10 DEF Next

-----------------------------------------------------------------------------
(* The slots.                                                              *)
LEMMA SlotFacts ==
  ASSUME IInv
  PROVE  /\ IsFiniteSet(Holding) /\ Cardinality(Holding) \in Nat
         /\ IsFiniteSet(probing) /\ Cardinality(probing) \in Nat
         /\ used = Cardinality(Holding) + Cardinality(probing) /\ used <= MaxSlots
<1>1. Holding \subseteq Conns /\ probing \subseteq Handlers
  BY DEF Holding, IInv, TypeOK
<1>2. QED
  BY <1>1, SizeAssumption, FS_Subset, FS_CardinalityType DEF IInv, SlotsConserved

\* Whether a run holds a slot, after a step that concerns the run of c only.
LEMMA HoldingStep ==
  ASSUME TypeOK, NEW c \in Conns, \E x \in Phases : phase' = [phase EXCEPT ![c] = x]
  PROVE  Holding' = IF phase'[c] \in {"running", "ended"}
                    THEN Holding \cup {c} ELSE Holding \ {c}
<1>1. \A d \in Conns : d # c => phase'[d] = phase[d]
  BY DEF TypeOK
<1>2. QED
  BY <1>1 DEF Holding

LEMMA SlotsTaken ==
  ASSUME IInv, NEW c \in Conns, Acquire(c) \/ Fails(c)
  PROVE  SlotsConserved'
<1>1. /\ phase[c] = "new" /\ used < MaxSlots /\ used' = used + 1 /\ probing' = probing
  BY DEF Acquire, Fails
<1>2. \E x \in {"running", "ended"} : phase' = [phase EXCEPT ![c] = x]
  BY DEF Acquire, Fails
<1>3. phase'[c] \in {"running", "ended"}
  BY <1>2 DEF IInv, TypeOK
<1>4. c \notin Holding /\ Holding' = Holding \cup {c}
  <2>1. \E x \in Phases : phase' = [phase EXCEPT ![c] = x]
    BY <1>2 DEF Phases
  <2>2. QED
    BY <1>1, <1>3, <2>1, HoldingStep DEF IInv, Holding
<1>5. Cardinality(Holding') = Cardinality(Holding) + 1
  BY <1>4, SlotFacts, FS_AddElement
<1>6. QED
  BY <1>1, <1>5, SlotFacts, SizeAssumption DEF SlotsConserved

LEMMA SlotReleased ==
  ASSUME IInv, NEW c \in Conns, Release(c)
  PROVE  SlotsConserved'
<1>1. /\ phase[c] = "ended" /\ used' = used - 1 /\ probing' = probing
      /\ phase' = [phase EXCEPT ![c] = "released"]
  BY DEF Release
<1>2. phase'[c] = "released"
  BY <1>1 DEF IInv, TypeOK
<1>3. c \in Holding /\ Holding' = Holding \ {c}
  <2>1. \E x \in Phases : phase' = [phase EXCEPT ![c] = x]
    BY <1>1 DEF Phases
  <2>2. QED
    BY <1>1, <1>2, <2>1, HoldingStep DEF IInv, Holding
<1>4. Cardinality(Holding') = Cardinality(Holding) - 1
  BY <1>3, SlotFacts, FS_RemoveElement
<1>5. QED
  BY <1>1, <1>4, SlotFacts, SizeAssumption DEF SlotsConserved

\* The other steps of a run keep what it holds.
LEMMA SlotsKept ==
  ASSUME IInv, UNCHANGED slotVars, Holding' = Holding
  PROVE  SlotsConserved'
  BY DEF IInv, SlotsConserved, slotVars

LEMMA SlotsNext == IInv /\ [Next]_vars => SlotsConserved'
<1> SUFFICES ASSUME IInv, [Next]_vars PROVE SlotsConserved'
  OBVIOUS
<1>1. ASSUME NEW c \in Conns, RunStep(c) PROVE SlotsConserved'
  <2>1. CASE Acquire(c) \/ Fails(c)
    BY <2>1, SlotsTaken
  <2>2. CASE Release(c)
    BY <2>2, SlotReleased
  <2>3. CASE NextProbe(c) \/ DialEnds(c) \/ ScanResult(c)
    <3>1. phase' = phase /\ UNCHANGED slotVars
      BY <2>3 DEF NextProbe, Begin, DialEnds, ScanResult, Produces
    <3>2. QED
      BY <3>1, SlotsKept DEF Holding
  <2>4. CASE Busy(c) \/ PingResult(c) \/ ResultLost(c) \/ ScanSummary(c) \/ Stopped(c)
             \/ Clear(c)
    <3>1. UNCHANGED slotVars
      BY <2>4 DEF Busy, PingResult, ResultLost, Produces, ScanSummary, Stopped, Clear, Forget
    <3>2. PICK x \in Phases :
            /\ phase' = [phase EXCEPT ![c] = x]
            /\ x \in {"running", "ended"} <=> phase[c] \in {"running", "ended"}
      <4>1. CASE Busy(c) \/ Clear(c)
        BY <4>1 DEF Busy, Clear, Forget, Phases
      <4>2. CASE ResultLost(c) \/ ScanSummary(c) \/ Stopped(c)
        BY <4>2 DEF ResultLost, Produces, ScanSummary, Stopped, Phases
      <4>3. CASE PingResult(c)
        <5>1. phase[c] = "running" /\ phase = [phase EXCEPT ![c] = phase[c]]
          BY <4>3 DEF PingResult, Produces, IInv, TypeOK
        <5>2. \/ phase' = [phase EXCEPT ![c] = "running"]
              \/ phase' = [phase EXCEPT ![c] = "ended"]
          BY <4>3, <5>1 DEF PingResult
        <5>3. QED
          BY <5>1, <5>2 DEF Phases
      <4>4. QED
        BY <2>4, <4>1, <4>2, <4>3
    <3>3. phase'[c] = x
      BY <3>2 DEF IInv, TypeOK
    <3>4. Holding' = Holding
      BY <3>2, <3>3, HoldingStep DEF IInv, Holding
    <3>5. QED
      BY <3>1, <3>4, SlotsKept
  <2>5. QED
    BY <1>1, <2>1, <2>2, <2>3, <2>4 DEF RunStep
<1>2. ASSUME NEW c \in Conns, ReadRun(c) PROVE SlotsConserved'
  <2>1. UNCHANGED slotVars
    BY <1>2 DEF ReadRun, Read
  <2>2. Holding' = Holding
    <3>1. CASE phase[c] = "none"
      <4>1. phase' = [phase EXCEPT ![c] = "new"] /\ phase'[c] = "new"
        BY <1>2, <3>1 DEF ReadRun, IInv, TypeOK
      <4>2. QED
        BY <3>1, <4>1, HoldingStep DEF IInv, Holding, Phases
    <3>2. CASE phase[c] # "none"
      <4>1. phase' = phase
        BY <1>2, <3>2 DEF ReadRun, IInv, TypeOK
      <4>2. QED
        BY <4>1 DEF Holding
    <3>3. QED
      BY <3>1, <3>2
  <2>3. QED
    BY <2>1, <2>2, SlotsKept
<1>3. ASSUME NEW c \in Conns,
             \/ SendMessage(c, "run") \/ SendMessage(c, "stop") \/ Disconnect(c)
             \/ ReadStop(c) \/ ReadEnds(c)
      PROVE  SlotsConserved'
  <2>1. phase' = phase /\ UNCHANGED slotVars
    BY <1>3 DEF SendMessage, Disconnect, ReadStop, ReadEnds, Read, runVars
  <2>2. QED
    BY <2>1, SlotsKept DEF Holding
<1>4. ASSUME NEW h \in Handlers, HttpProbe(h) PROVE SlotsConserved'
  <2>1. /\ h \notin probing /\ probing' = probing \cup {h} /\ used' = used + 1
        /\ used < MaxSlots /\ Holding' = Holding
    BY <1>4 DEF HttpProbe, runVars, Holding
  <2>2. Cardinality(probing') = Cardinality(probing) + 1
    BY <2>1, SlotFacts, FS_AddElement
  <2>3. QED
    BY <2>1, <2>2, SlotFacts, SizeAssumption DEF SlotsConserved
<1>5. ASSUME NEW h \in Handlers, HttpReply(h) PROVE SlotsConserved'
  <2>1. /\ h \in probing /\ probing' = probing \ {h} /\ used' = used - 1
        /\ Holding' = Holding
    BY <1>5 DEF HttpReply, runVars, Holding
  <2>2. Cardinality(probing') = Cardinality(probing) - 1
    BY <2>1, SlotFacts, FS_RemoveElement
  <2>3. QED
    BY <2>1, <2>2, SlotFacts, SizeAssumption DEF SlotsConserved
<1>6. CASE Tick \/ UNCHANGED vars
  <2>1. phase' = phase /\ UNCHANGED slotVars
    BY <1>6 DEF Tick, vars, runVars
  <2>2. QED
    BY <2>1, SlotsKept DEF Holding
<1>7. QED
  BY <1>1, <1>2, <1>3, <1>4, <1>5, <1>6 DEF Next

-----------------------------------------------------------------------------
(* What EndsOnce, StopsSoon and RunInv say of one connection.              *)
GoodRun(c) ==
  /\ EndsOf(got[c]) \subseteq {Len(got[c])}
  /\ Reaches(c) /\ Over(c) => EndsOf(got[c]) # {}
  /\ phase[c] \in {"new", "running"} => EndsOf(got[c]) = {}
  /\ phase[c] = "none" => got[c] = <<>> /\ canceled[c] = "no"

\* The part of it that concerns the probes of the run.
GoodWork(c) ==
  /\ late[c] <= due[c]
  /\ kind[c] = "ping" => late[c] <= 1
  /\ canceled[c] # "no" => late[c] + dialing[c] + ready[c] <= due[c]
  /\ canceled[c] = "no" => due[c] = 0 /\ late[c] = 0
  /\ kind[c] = "ping" => ready[c] = 0 /\ dialing[c] <= 1 /\ due[c] <= 1
  /\ phase[c] # "running" => todo[c] = 0 /\ dialing[c] = 0 /\ ready[c] = 0
  /\ phase[c] \in {"none", "new"} => kind[c] = "ping"

LEMMA GoodRuns ==
  (EndsOnce /\ StopsSoon /\ RunInv) <=> \A c \in Conns : GoodRun(c) /\ GoodWork(c)
  BY DEF EndsOnce, StopsSoon, RunInv, GoodRun, GoodWork, EndsOf

LEMMA GoodRunsNext ==
  ASSUME \A c \in Conns : GoodRun(c)' /\ GoodWork(c)'
  PROVE  (EndsOnce /\ StopsSoon /\ RunInv)'
  BY DEF EndsOnce, StopsSoon, RunInv, GoodRun, GoodWork, EndsOf

\* The probes of d and their results, as a step leaves them.
SameWork(d) ==
  /\ kind'[d] = kind[d] /\ todo'[d] = todo[d] /\ dialing'[d] = dialing[d]
  /\ ready'[d] = ready[d] /\ late'[d] = late[d]

\* A step that leaves the run of d alone, or cancels it, and lets no more
\* events through.
LEMMA RunUntouched ==
  ASSUME NEW d \in Conns, GoodRun(d), GoodWork(d),
         phase'[d] = phase[d], got'[d] = got[d], SameWork(d),
         canceled'[d] = canceled[d], due'[d] = due[d],
         Reaches(d)' => Reaches(d)
  PROVE  GoodRun(d)' /\ GoodWork(d)'
  BY DEF GoodRun, GoodWork, SameWork, Over

LEMMA RunCanceled ==
  ASSUME TypeOK, NEW d \in Conns, GoodRun(d), GoodWork(d),
         phase'[d] = phase[d], got'[d] = got[d], SameWork(d),
         phase[d] # "none", canceled[d] = "no", canceled'[d] # "no",
         due'[d] = dialing[d] + ready[d],
         Reaches(d)' => Reaches(d)
  PROVE  GoodRun(d)' /\ GoodWork(d)'
<1>1. /\ dialing[d] \in Nat /\ ready[d] \in Nat /\ late[d] = 0
      /\ kind[d] = "ping" => ready[d] = 0 /\ dialing[d] <= 1
  BY DEF TypeOK, GoodWork
<1>2. GoodRun(d)'
  BY DEF GoodRun, Over
<1>3. GoodWork(d)'
  BY <1>1 DEF GoodWork, SameWork
<1>4. QED
  BY <1>2, <1>3

\* A step of the run of c leaves the other connections alone.
LEMMA OtherRuns ==
  ASSUME TypeOK, NEW c \in Conns, RunStep(c), NEW d \in Conns, d # c,
         GoodRun(d), GoodWork(d)
  PROVE  GoodRun(d)' /\ GoodWork(d)'
<1>1. client' = client /\ handler' = handler
  BY DEF RunStep, Acquire, Busy, Fails, NextProbe, Begin, DialEnds, PingResult,
         ScanResult, ResultLost, Produces, ScanSummary, Stopped, Release, Clear, Forget,
         connVars
<1>2. phase'[d] = phase[d] /\ canceled'[d] = canceled[d]
  BY DEF RunStep, Acquire, Busy, Fails, NextProbe, Begin, DialEnds, PingResult,
         ScanResult, ResultLost, Produces, ScanSummary, Stopped, Release, Clear, Forget,
         TypeOK
<1>3. SameWork(d) /\ due'[d] = due[d]
  <2>1. CASE Acquire(c) \/ Busy(c) \/ Fails(c) \/ NextProbe(c) \/ DialEnds(c)
    BY <2>1 DEF Acquire, Busy, Fails, NextProbe, Begin, DialEnds, workVars, historyVars,
                SameWork, TypeOK
  <2>2. CASE PingResult(c) \/ ScanResult(c) \/ ResultLost(c)
    BY <2>2 DEF PingResult, ScanResult, ResultLost, Produces, SameWork, TypeOK
  <2>3. CASE ScanSummary(c) \/ Stopped(c) \/ Release(c) \/ Clear(c)
    BY <2>3 DEF ScanSummary, Stopped, Release, Clear, Forget, workVars, historyVars,
                SameWork, TypeOK
  <2>4. QED
    BY <2>1, <2>2, <2>3 DEF RunStep
<1>4. got'[d] = got[d]
  BY DEF RunStep, Acquire, Busy, Fails, NextProbe, Begin, DialEnds, PingResult,
         ScanResult, ResultLost, Produces, ScanSummary, Stopped, Release, Clear, Forget,
         Emit, TypeOK
<1>5. QED
  BY <1>1, <1>2, <1>3, <1>4, RunUntouched DEF Reaches

\* An event that ends the run, as the client gets it.
LEMMA EmitEnd ==
  ASSUME TypeOK, NEW c \in Conns, EndsOf(got[c]) = {}, NEW x \in Terminal, Emit(c, x)
  PROVE  /\ EndsOf(got'[c]) \subseteq {Len(got'[c])}
         /\ Reaches(c) => EndsOf(got'[c]) # {}
<1>1. got[c] \in Seq(Event)
  BY DEF TypeOK
<1>2. got'[c] = IF Reaches(c) THEN Append(got[c], x) ELSE got[c]
  BY DEF Emit, TypeOK
<1>3. QED
  BY <1>1, <1>2, AppendEnd

\* A result leaves the run without an end.
LEMMA EmitResult ==
  ASSUME TypeOK, NEW c \in Conns, EndsOf(got[c]) = {}, Emit(c, "result")
  PROVE  EndsOf(got'[c]) = {}
<1>1. got[c] \in Seq(Event)
  BY DEF TypeOK
<1>2. got'[c] = Append(got[c], "result") \/ got'[c] = got[c]
  BY DEF Emit, TypeOK
<1>3. QED
  BY <1>1, <1>2, AppendResult

\* The events of a run after one of its steps.
LEMMA OwnRun ==
  ASSUME TypeOK, NEW c \in Conns, GoodRun(c), RunStep(c)
  PROVE  GoodRun(c)'
<1>0. got[c] \in Seq(Event)
  BY DEF TypeOK
<1>1. Reaches(c)' = Reaches(c)
  BY DEF RunStep, Acquire, Busy, Fails, NextProbe, Begin, DialEnds, PingResult,
         ScanResult, ResultLost, Produces, ScanSummary, Stopped, Release, Clear, Forget,
         connVars, Reaches
<1>2. CASE Acquire(c) \/ NextProbe(c) \/ DialEnds(c) \/ Release(c)
  <2>1. got' = got /\ canceled' = canceled
    BY <1>2 DEF Acquire, NextProbe, Begin, DialEnds, Release
  <2>2. \/ phase'[c] = phase[c]
        \/ phase[c] = "new" /\ phase'[c] = "running"
        \/ phase[c] = "ended" /\ phase'[c] = "released"
    BY <1>2 DEF Acquire, NextProbe, Begin, DialEnds, Release, TypeOK
  <2>3. QED
    BY <1>1, <2>1, <2>2 DEF GoodRun, Over
<1>3. CASE Busy(c) \/ Fails(c) \/ Stopped(c) \/ ScanSummary(c)
  <2>1. phase[c] \in {"new", "running"} /\ phase'[c] \in {"released", "ended"}
    BY <1>3 DEF Busy, Fails, Stopped, ScanSummary, TypeOK
  <2>2. \E x \in Terminal : Emit(c, x)
    BY <1>3, EventFacts DEF Busy, Fails, Stopped, ScanSummary
  <2>3. /\ EndsOf(got'[c]) \subseteq {Len(got'[c])}
        /\ Reaches(c) => EndsOf(got'[c]) # {}
    BY <2>1, <2>2, EmitEnd DEF GoodRun
  <2>4. QED
    BY <1>1, <2>1, <2>3 DEF GoodRun
<1>4. CASE ScanResult(c)
  <2>1. phase[c] = "running" /\ phase' = phase /\ Emit(c, "result")
    BY <1>4 DEF ScanResult, Produces
  <2>2. EndsOf(got'[c]) = {}
    BY <2>1, EmitResult DEF GoodRun
  <2>3. QED
    BY <2>1, <2>2 DEF GoodRun, Over
<1>5. CASE PingResult(c)
  <2>1. phase[c] = "running" /\ EndsOf(got[c]) = {}
    BY <1>5 DEF PingResult, Produces, GoodRun
  <2>2. CASE todo[c] > 0
    <3>1. phase' = phase /\ Emit(c, "result")
      BY <1>5, <2>2 DEF PingResult
    <3>2. EndsOf(got'[c]) = {}
      BY <2>1, <3>1, EmitResult
    <3>3. QED
      BY <2>1, <3>1, <3>2 DEF GoodRun, Over
  <2>3. CASE ~(todo[c] > 0)
    <3>1. /\ phase'[c] = "ended"
          /\ got'[c] = IF Reaches(c) THEN got[c] \o <<"result", "summary">> ELSE got[c]
      BY <1>5, <2>3 DEF PingResult, TypeOK
    <3>2. /\ EndsOf(got'[c]) \subseteq {Len(got'[c])}
          /\ Reaches(c) => EndsOf(got'[c]) # {}
      BY <1>0, <2>1, <3>1, AppendResultAndEnd
    <3>3. QED
      BY <1>1, <3>1, <3>2 DEF GoodRun
  <2>4. QED
    BY <2>2, <2>3
<1>6. CASE ResultLost(c)
  <2>1. phase[c] = "running" /\ phase'[c] = "ended" /\ got' = got /\ ~Reaches(c)
    BY <1>6 DEF ResultLost, Produces, MayFail, Reaches, TypeOK
  <2>2. QED
    BY <1>1, <2>1 DEF GoodRun
<1>7. CASE Clear(c)
  <2>1. phase'[c] = "none" /\ got'[c] = <<>> /\ canceled'[c] = "no"
    BY <1>7 DEF Clear, Forget, TypeOK
  <2>2. QED
    BY <2>1 DEF GoodRun, EndsOf, Over
<1>8. QED
  BY <1>2, <1>3, <1>4, <1>5, <1>6, <1>7 DEF RunStep

\* The probes of a run after one of its steps: none begins once the context
\* is done, so what is reported late was under way by then.
LEMMA OwnWork ==
  ASSUME TypeOK, NEW c \in Conns, GoodWork(c), RunStep(c)
  PROVE  GoodWork(c)'
<1>0. /\ todo[c] \in Nat /\ dialing[c] \in Nat /\ ready[c] \in Nat
      /\ due[c] \in Nat /\ late[c] \in Nat /\ kind[c] \in Kinds
  BY DEF TypeOK
<1>1. CASE Acquire(c)
  <2>1. /\ phase[c] = "new" /\ phase'[c] = "running" /\ kind'[c] \in Kinds
        /\ canceled' = canceled /\ dialing' = dialing /\ ready' = ready
        /\ due' = due /\ late' = late
    BY <1>1 DEF Acquire, historyVars, TypeOK
  <2>2. dialing[c] = 0 /\ ready[c] = 0 /\ kind[c] = "ping"
    BY <2>1 DEF GoodWork
  <2>3. QED
    BY <1>0, <2>1, <2>2 DEF GoodWork, Kinds
<1>2. CASE Busy(c) \/ Fails(c) \/ Release(c)
  <2>1. /\ phase[c] \in {"new", "ended"} /\ phase'[c] \in {"released", "ended"}
        /\ UNCHANGED <<canceled, workVars, historyVars>>
    BY <1>2 DEF Busy, Fails, Release, TypeOK
  <2>2. QED
    BY <2>1 DEF GoodWork, workVars, historyVars
<1>3. CASE NextProbe(c)
  <2>1. /\ phase[c] = "running" /\ phase' = phase /\ canceled[c] = "no"
        /\ dialing[c] < Width(c) /\ dialing'[c] = dialing[c] + 1
        /\ UNCHANGED <<canceled, kind, ready, historyVars>>
    BY <1>3 DEF NextProbe, Begin, TypeOK
  <2>2. kind[c] = "ping" => dialing'[c] <= 1
    BY <1>0, <2>1 DEF Width
  <2>3. QED
    BY <2>1, <2>2 DEF GoodWork, historyVars
<1>4. CASE DialEnds(c)
  <2>1. /\ kind[c] = "scan" /\ dialing[c] > 0 /\ dialing'[c] = dialing[c] - 1
        /\ ready'[c] = ready[c] + 1 \/ ready'[c] = ready[c]
        /\ UNCHANGED <<phase, canceled, kind, todo, historyVars>>
    BY <1>4 DEF DialEnds, TypeOK
  <2>2. phase[c] = "running" /\ kind'[c] # "ping"
    BY <1>0, <2>1 DEF GoodWork
  <2>3. late[c] + dialing'[c] + ready'[c] <= late[c] + dialing[c] + ready[c]
    BY <1>0, <2>1
  <2>4. canceled'[c] # "no" => late'[c] + dialing'[c] + ready'[c] <= due'[c]
    BY <1>0, <2>1, <2>3 DEF GoodWork, historyVars
  <2>5. QED
    BY <2>1, <2>2, <2>4 DEF GoodWork, historyVars
<1>5. CASE PingResult(c)
  <2>1. /\ phase[c] = "running" /\ kind[c] = "ping" /\ dialing[c] > 0
        /\ dialing'[c] = dialing[c] - 1
        /\ late'[c] = IF canceled[c] # "no" THEN late[c] + 1 ELSE late[c]
        /\ UNCHANGED <<canceled, kind, todo, ready, due>>
    BY <1>5 DEF PingResult, Produces, TypeOK
  <2>2. phase'[c] = "running" \/ (phase'[c] = "ended" /\ todo[c] = 0)
    BY <1>0, <1>5, <2>1 DEF PingResult, TypeOK
  <2>3. dialing'[c] = 0 /\ ready[c] = 0
    BY <1>0, <2>1 DEF GoodWork
  <2>4. /\ canceled[c] # "no" => late'[c] <= due[c]
        /\ canceled[c] = "no" => late'[c] = 0 /\ due[c] = 0
    BY <1>0, <2>1, <2>3 DEF GoodWork
  <2>5. QED
    BY <1>0, <2>1, <2>2, <2>3, <2>4 DEF GoodWork
<1>6. CASE ScanResult(c)
  <2>1. /\ phase[c] = "running" /\ kind[c] = "scan" /\ ready[c] > 0
        /\ ready'[c] = ready[c] - 1
        /\ late'[c] = IF canceled[c] # "no" THEN late[c] + 1 ELSE late[c]
        /\ UNCHANGED <<phase, canceled, kind, todo, dialing, due>>
    BY <1>6 DEF ScanResult, Produces, TypeOK
  <2>2. /\ canceled[c] # "no" => late'[c] + dialing[c] + ready'[c] <= due[c]
        /\ canceled[c] = "no" => late'[c] = 0 /\ due[c] = 0
    BY <1>0, <2>1 DEF GoodWork
  <2>3. late'[c] <= due[c]
    BY <1>0, <2>1, <2>2
  <2>4. QED
    BY <2>1, <2>2, <2>3 DEF GoodWork
<1>7. CASE ResultLost(c)
  <2>1. /\ phase'[c] = "ended" /\ todo'[c] = 0 /\ dialing'[c] = 0 /\ ready'[c] = 0
        /\ late'[c] = IF canceled[c] # "no" THEN late[c] + 1 ELSE late[c]
        /\ dialing[c] + ready[c] > 0
        /\ UNCHANGED <<canceled, kind, due>>
    BY <1>0, <1>7 DEF ResultLost, Produces, TypeOK
  <2>2. /\ canceled[c] # "no" => late'[c] <= due[c]
        /\ canceled[c] = "no" => late'[c] = 0 /\ due[c] = 0
    BY <1>0, <2>1 DEF GoodWork
  <2>3. QED
    BY <1>0, <2>1, <2>2 DEF GoodWork
<1>8. CASE ScanSummary(c)
  <2>1. /\ phase'[c] = "ended" /\ todo[c] = 0 /\ dialing[c] = 0 /\ ready[c] = 0
        /\ UNCHANGED <<canceled, workVars, historyVars>>
    BY <1>8 DEF ScanSummary, Drained, TypeOK
  <2>2. QED
    BY <2>1 DEF GoodWork, workVars, historyVars
<1>9. CASE Stopped(c)
  <2>1. /\ phase'[c] = "ended" /\ todo'[c] = 0 /\ dialing'[c] = 0
        /\ UNCHANGED <<canceled, kind, ready, historyVars>>
        /\ kind[c] = "ping" \/ ready[c] = 0
    BY <1>9 DEF Stopped, Drained, TypeOK
  <2>2. ready[c] = 0
    BY <2>1 DEF GoodWork
  <2>3. QED
    BY <1>0, <2>1, <2>2 DEF GoodWork, historyVars
<1>10. CASE Clear(c)
  <2>1. /\ phase[c] = "released" /\ phase'[c] = "none" /\ canceled'[c] = "no"
        /\ kind'[c] = "ping" /\ due'[c] = 0 /\ late'[c] = 0
        /\ UNCHANGED <<todo, dialing, ready>>
    BY <1>10 DEF Clear, Forget, TypeOK
  <2>2. QED
    BY <2>1 DEF GoodWork
<1>11. QED
  BY <1>1, <1>2, <1>3, <1>4, <1>5, <1>6, <1>7, <1>8, <1>9, <1>10 DEF RunStep

LEMMA RunsNext == IInv /\ [Next]_vars => (EndsOnce /\ StopsSoon /\ RunInv)'
<1> SUFFICES ASSUME IInv, [Next]_vars, NEW d \in Conns PROVE GoodRun(d)' /\ GoodWork(d)'
  BY GoodRunsNext
<1>0. TypeOK /\ GoodRun(d) /\ GoodWork(d)
  BY GoodRuns DEF IInv
<1>1. ASSUME NEW c \in Conns, RunStep(c) PROVE GoodRun(d)' /\ GoodWork(d)'
  BY <1>0, <1>1, OtherRuns, OwnRun, OwnWork
<1>2. ASSUME NEW c \in Conns,
             SendMessage(c, "run") \/ SendMessage(c, "stop") \/ Disconnect(c)
      PROVE  GoodRun(d)' /\ GoodWork(d)'
  <2>1. UNCHANGED runVars /\ handler' = handler /\ (client'[d] = "open" => client[d] = "open")
    BY <1>0, <1>2 DEF SendMessage, Disconnect, TypeOK
  <2>2. QED
    BY <1>0, <2>1, RunUntouched DEF runVars, workVars, historyVars, SameWork, Reaches
<1>3. ASSUME NEW c \in Conns, ReadRun(c) PROVE GoodRun(d)' /\ GoodWork(d)'
  <2>1. client' = client /\ handler' = handler /\ UNCHANGED <<canceled, workVars, got, historyVars>>
    BY <1>3 DEF ReadRun, Read
  <2>2. CASE phase[c] = "none" /\ d = c
    <3>1. phase'[d] = "new" /\ got[d] = <<>> /\ canceled[d] = "no"
      BY <1>0, <1>3, <2>2 DEF ReadRun, TypeOK, GoodRun
    <3>2. GoodRun(d)'
      BY <2>1, <3>1 DEF GoodRun, EndsOf, Over
    <3>3. GoodWork(d)'
      BY <1>0, <2>1, <2>2, <3>1 DEF GoodWork, workVars, historyVars
    <3>4. QED
      BY <3>2, <3>3
  <2>3. CASE ~(phase[c] = "none" /\ d = c)
    <3>1. phase'[d] = phase[d]
      BY <1>0, <1>3, <2>3 DEF ReadRun, TypeOK
    <3>2. QED
      BY <1>0, <2>1, <3>1, RunUntouched DEF workVars, historyVars, SameWork, Reaches
  <2>4. QED
    BY <2>2, <2>3
<1>4. ASSUME NEW c \in Conns, NEW why \in Reasons \ {"no"}, Cancel(c, why),
             UNCHANGED <<phase, workVars, got, late, client>>,
             handler'[d] = "reading" => handler[d] = "reading"
      PROVE  GoodRun(d)' /\ GoodWork(d)'
  <2>1. phase'[d] = phase[d] /\ got'[d] = got[d] /\ SameWork(d) /\ (Reaches(d)' => Reaches(d))
    BY <1>4 DEF workVars, SameWork, Reaches
  <2>2. CASE d = c /\ phase[c] # "none" /\ canceled[c] = "no"
    <3>1. canceled'[d] # "no" /\ due'[d] = dialing[d] + ready[d]
      BY <1>0, <1>4, <2>2 DEF Cancel, TypeOK
    <3>2. QED
      BY <1>0, <2>1, <2>2, <3>1, RunCanceled
  <2>3. CASE ~(d = c /\ phase[c] # "none" /\ canceled[c] = "no")
    <3>1. canceled'[d] = canceled[d] /\ due'[d] = due[d]
      BY <1>0, <1>4, <2>3 DEF Cancel, TypeOK
    <3>2. QED
      BY <1>0, <2>1, <3>1, RunUntouched
  <2>4. QED
    BY <2>2, <2>3
<1>5. ASSUME NEW c \in Conns, ReadStop(c) PROVE GoodRun(d)' /\ GoodWork(d)'
  BY <1>4, <1>5 DEF ReadStop, Read, Reasons
<1>6. ASSUME NEW c \in Conns, ReadEnds(c) PROVE GoodRun(d)' /\ GoodWork(d)'
  <2>1. \E why \in Reasons \ {"no"} : Cancel(c, why)
    BY <1>6 DEF ReadEnds, Reasons
  <2>2. handler'[d] = "reading" => handler[d] = "reading"
    BY <1>0, <1>6 DEF ReadEnds, TypeOK
  <2>3. UNCHANGED <<phase, workVars, got, late, client>>
    BY <1>6 DEF ReadEnds
  <2>4. QED
    BY <1>4, <2>1, <2>2, <2>3
<1>7. CASE \/ \E h \in Handlers : HttpProbe(h) \/ HttpReply(h)
           \/ Tick \/ UNCHANGED vars
  <2>1. UNCHANGED runVars /\ client' = client /\ handler' = handler
    BY <1>7 DEF HttpProbe, HttpReply, Tick, vars, connVars
  <2>2. QED
    BY <1>0, <2>1, RunUntouched DEF runVars, workVars, historyVars, SameWork, Reaches
<1>8. QED
  BY <1>1, <1>2, <1>3, <1>5, <1>6, <1>7 DEF Next

-----------------------------------------------------------------------------
LEMMA InvInit == Init => IInv
<1> SUFFICES ASSUME Init PROVE IInv
  OBVIOUS
<1>1. SlotsConserved
  <2>1. Holding = {} /\ probing = {} /\ used = 0
    BY DEF Init, Holding
  <2>2. QED
    BY <2>1, FS_EmptySet, SizeAssumption DEF SlotsConserved
<1>2. EndsOnce /\ StopsSoon /\ RunInv
  <2>1. ASSUME NEW c \in Conns PROVE GoodRun(c) /\ GoodWork(c)
    BY DEF Init, GoodRun, GoodWork, EndsOf, Over
  <2>2. QED
    BY <2>1, GoodRuns
<1>3. QED
  BY <1>1, <1>2, TypeInit DEF IInv

LEMMA InvNext == IInv /\ [Next]_vars => IInv'
  BY TypeNext, SlotsNext, RunsNext DEF IInv

LEMMA InvCorrect == Spec => []IInv
<1>1. QED
  BY InvInit, InvNext, PTL DEF Spec

-----------------------------------------------------------------------------
(* Every variable keeps to its type, whatever clients, handlers and runs   *)
(* do (handleWS, wsSession, probeLimiter).                                 *)
THEOREM TypeCorrect == Spec => []TypeOK
<1>1. IInv => TypeOK
  BY DEF IInv
<1>2. QED
  BY InvCorrect, <1>1, PTL

(* However the runs end, the tokens in probeLimiter are those of the runs  *)
(* and HTTP probes in progress, and never more than the limit              *)
(* (tryAcquireProbeSlot, releaseProbeSlot).                                *)
THEOREM SlotsAreKept == Spec => []SlotsConserved
<1>1. IInv => SlotsConserved
  BY DEF IInv
<1>2. QED
  BY InvCorrect, <1>1, PTL

(* A client that stays gets exactly one summary, stopped or error event of *)
(* each of its runs, as the last of them (runWSRequest and the streams).   *)
THEOREM RunsEndOnce == Spec => []EndsOnce
<1>1. IInv => EndsOnce
  BY DEF IInv
<1>2. QED
  BY InvCorrect, <1>1, PTL

(* A run whose context is done reports at most the probes that were under  *)
(* way or in the results channel of its scan at that moment, and a ping at *)
(* most one (the three RunStreamContext functions).                        *)
THEOREM StopIsPrompt == Spec => []StopsSoon
<1>1. IInv => StopsSoon
  BY DEF IInv
<1>2. QED
  BY InvCorrect, <1>1, PTL
=============================================================================
