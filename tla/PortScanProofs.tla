---------------------------- MODULE PortScanProofs ----------------------------
(***************************************************************************)
(* Theorems about PortScan, for any number of ports and any pool of        *)
(* workers: no port is in two places, the scan returns after its workers,  *)
(* and it implements ScanPromise.                                          *)
(***************************************************************************)
EXTENDS PortScan, TLAPS

(* PlaceInv and NothingLost count positions; these are their parts as the  *)
(* proofs use them.                                                        *)
Distinct(s) == \A i, j \in DOMAIN s : s[i].port = s[j].port => i = j
Clean(s) == \A i \in DOMAIN s : s[i].state # Canceled
HeldOnce ==
  \A v, w \in Workers : Busy(v) /\ Busy(w) /\ item[v].port = item[w].port => v = w

PlaceSets ==
  /\ \A w \in Workers : Busy(w) => item[w] \in Outcome
  /\ HeldOnce /\ Distinct(resultsCh) /\ Distinct(results)
  /\ HeldPorts \subseteq 1 .. next - 1
  /\ PortsOf(resultsCh) \subseteq 1 .. next - 1
  /\ PortsOf(results) \subseteq 1 .. next - 1
  /\ PortsOf(results) \cap PortsOf(resultsCh) = {}
  /\ HeldPorts \cap (PortsOf(results) \cup PortsOf(resultsCh)) = {}

Kept ==
  /\ 1 .. next - 1 \subseteq HeldPorts \cup PortsOf(resultsCh) \cup PortsOf(results)
  /\ producer = "closed" => next = NPorts + 1
  /\ \A w \in Workers : worker[w] = "exited" => producer = "closed"
  /\ \A w \in Workers : worker[w] = "send" => item[w].state # Canceled
  /\ Clean(resultsCh) /\ Clean(results)

LEMMA OutcomeFacts ==
  ASSUME NEW r \in Outcome
  PROVE  /\ r.port \in 1 .. NPorts /\ r.state \in States \cup {Canceled}
         /\ r = [port |-> r.port, state |-> r.state]
  BY DEF Outcome, Ports

LEMMA PlaceIsSets ==
  ASSUME TypeOK
  PROVE  PlaceInv <=> PlaceSets
<1> USE PoolAssumption
<1>1. ASSUME NEW s \in Seq(Outcome)
      PROVE  (\A i \in DOMAIN s : s[i].port < next) <=> PortsOf(s) \subseteq 1 .. next - 1
  <2>1. \A i \in DOMAIN s : s[i].port \in 1 .. NPorts
    BY OutcomeFacts
  <2>2. \A i \in DOMAIN s : s[i].port < next <=> s[i].port \in 1 .. next - 1
    BY <2>1 DEF TypeOK
  <2>3. QED
    BY <2>2 DEF PortsOf
<1>2. ASSUME \A w \in Workers : Busy(w) => item[w] \in Outcome
      PROVE  (\A w \in Workers : Busy(w) => item[w].port < next)
                <=> HeldPorts \subseteq 1 .. next - 1
  <2>1. \A w \in Workers : Busy(w) => item[w].port \in 1 .. NPorts
    BY <1>2, OutcomeFacts
  <2>2. next \in Nat
    BY DEF TypeOK
  <2>3. \A w \in Workers : Busy(w) =>
          (item[w].port < next <=> item[w].port \in 1 .. next - 1)
    BY <2>1, <2>2
  <2>4. HeldPorts \subseteq 1 .. next - 1
          <=> \A w \in Workers : Busy(w) => item[w].port \in 1 .. next - 1
    BY DEF HeldPorts
  <2>5. QED
    BY <2>3, <2>4
<1>3. resultsCh \in Seq(Outcome) /\ results \in Seq(Outcome)
  BY DEF TypeOK
<1>4. QED
  BY <1>1, <1>2, <1>3 DEF PlaceInv, PlaceSets, Distinct, HeldOnce

LEMMA NothingLostIsKept ==
  ASSUME TypeOK
  PROVE  NothingLost <=> (~runCtx => ~failed /\ Kept)
  BY DEF NothingLost, Kept, Clean

-----------------------------------------------------------------------------
(* Sequences of outcomes.                                                  *)
LEMMA AppendPorts ==
  ASSUME NEW s \in Seq(Outcome), NEW r \in Outcome
  PROVE  /\ Append(s, r) \in Seq(Outcome) /\ Len(Append(s, r)) = Len(s) + 1
         /\ Append(s, r) # <<>> /\ Append(s, r)[Len(Append(s, r))] = r
         /\ PortsOf(Append(s, r)) = PortsOf(s) \cup {r.port}
         /\ Elems(Append(s, r)) = Elems(s) \cup {r}
         /\ Distinct(s) /\ r.port \notin PortsOf(s) => Distinct(Append(s, r))
         /\ Clean(s) /\ r.state # Canceled => Clean(Append(s, r))
<1>1. /\ DOMAIN Append(s, r) = DOMAIN s \cup {Len(s) + 1} /\ Len(s) + 1 \notin DOMAIN s
      /\ \A i \in DOMAIN s : Append(s, r)[i] = s[i]
      /\ Append(s, r)[Len(s) + 1] = r
  OBVIOUS
<1>2. PortsOf(Append(s, r)) = PortsOf(s) \cup {r.port}
  BY <1>1 DEF PortsOf
<1>3. Elems(Append(s, r)) = Elems(s) \cup {r}
  BY <1>1 DEF Elems
<1>4. Distinct(s) /\ r.port \notin PortsOf(s) => Distinct(Append(s, r))
  BY <1>1 DEF Distinct, PortsOf
<1>5. Clean(s) /\ r.state # Canceled => Clean(Append(s, r))
  BY <1>1 DEF Clean
<1>6. QED
  BY <1>1, <1>2, <1>3, <1>4, <1>5

LEMMA TailPorts ==
  ASSUME NEW s \in Seq(Outcome), s # <<>>
  PROVE  /\ Head(s) \in Outcome /\ Tail(s) \in Seq(Outcome) /\ Len(Tail(s)) = Len(s) - 1
         /\ PortsOf(s) = PortsOf(Tail(s)) \cup {Head(s).port}
         /\ Distinct(s) => Distinct(Tail(s)) /\ Head(s).port \notin PortsOf(Tail(s))
         /\ Clean(s) => Clean(Tail(s)) /\ Head(s).state # Canceled
<1>1. /\ DOMAIN s = 1 .. Len(s) /\ Len(s) \in Nat /\ 1 \in DOMAIN s /\ Head(s) = s[1]
      /\ DOMAIN Tail(s) = 1 .. Len(s) - 1
      /\ \A i \in DOMAIN Tail(s) : i + 1 \in DOMAIN s /\ Tail(s)[i] = s[i + 1]
  OBVIOUS
<1>2. ASSUME NEW i \in DOMAIN s, i # 1
      PROVE  i - 1 \in DOMAIN Tail(s) /\ Tail(s)[i - 1] = s[i]
  <2>1. i - 1 \in DOMAIN Tail(s) /\ (i - 1) + 1 = i
    BY <1>1, <1>2
  <2>2. QED
    BY <1>1, <2>1
<1>3. PortsOf(s) = PortsOf(Tail(s)) \cup {Head(s).port}
  <2>1. ASSUME NEW i \in DOMAIN s PROVE s[i].port \in PortsOf(Tail(s)) \cup {Head(s).port}
    <3>1. CASE i = 1
      BY <1>1, <3>1
    <3>2. CASE i # 1
      BY <1>2, <3>2 DEF PortsOf
    <3>3. QED
      BY <3>1, <3>2
  <2>2. PortsOf(Tail(s)) \cup {Head(s).port} \subseteq PortsOf(s)
    BY <1>1 DEF PortsOf
  <2>3. QED
    BY <2>1, <2>2 DEF PortsOf
<1>4. ASSUME Distinct(s) PROVE Distinct(Tail(s)) /\ Head(s).port \notin PortsOf(Tail(s))
  <2>1. Distinct(Tail(s))
    <3>1. ASSUME NEW i \in DOMAIN Tail(s), NEW j \in DOMAIN Tail(s),
                 Tail(s)[i].port = Tail(s)[j].port
          PROVE  i = j
      <4>1. i + 1 = j + 1
        BY <1>1, <1>4, <3>1 DEF Distinct
      <4>2. QED
        BY <1>1, <4>1
    <3>2. QED
      BY <3>1 DEF Distinct
  <2>2. ASSUME NEW i \in DOMAIN Tail(s), Tail(s)[i].port = Head(s).port PROVE FALSE
    <3>1. i + 1 = 1
      BY <1>1, <1>4, <2>2 DEF Distinct
    <3>2. QED
      BY <1>1, <3>1
  <2>3. QED
    BY <2>1, <2>2 DEF PortsOf
<1>5. Clean(s) => Clean(Tail(s)) /\ Head(s).state # Canceled
  BY <1>1 DEF Clean
<1>6. QED
  BY <1>1, <1>3, <1>4, <1>5

LEMMA EmptySeq ==
  PortsOf(<<>>) = {} /\ Elems(<<>>) = {} /\ Distinct(<<>>) /\ Clean(<<>>)
  BY DEF PortsOf, Elems, Distinct, Clean

-----------------------------------------------------------------------------
(* What the workers hold, after a step of one of them.                     *)
LEMMA Takes ==
  ASSUME TypeOK, NEW w \in Workers, Handover(w), HeldOnce, next \notin HeldPorts
  PROVE  HeldPorts' = HeldPorts \cup {next} /\ HeldOnce'
<1>1. /\ ~Busy(w) /\ Busy(w)' /\ item'[w].port = next
  BY DEF Handover, Busy, TypeOK
<1>2. \A v \in Workers : v # w => Busy(v)' = Busy(v) /\ item'[v] = item[v]
  BY DEF Handover, Busy, TypeOK
<1>3. HeldPorts' = HeldPorts \cup {next}
  BY <1>1, <1>2 DEF HeldPorts
<1>4. ASSUME NEW u \in Workers, NEW v \in Workers,
             Busy(u)', Busy(v)', item'[u].port = item'[v].port
      PROVE  u = v
  BY <1>1, <1>2, <1>4 DEF HeldPorts, HeldOnce
<1>5. QED
  BY <1>3, <1>4 DEF HeldOnce

LEMMA Drops ==
  ASSUME TypeOK, HeldOnce, NEW w \in Workers, Busy(w), item' = item,
         NEW to \in {"idle", "exited"}, worker' = [worker EXCEPT ![w] = to]
  PROVE  HeldPorts' = HeldPorts \ {item[w].port} /\ HeldOnce'
<1>1. ~Busy(w)'
  BY DEF Busy, TypeOK
<1>2. \A v \in Workers : v # w => Busy(v)' = Busy(v)
  BY DEF Busy, TypeOK
<1>3. HeldPorts' = HeldPorts \ {item[w].port}
  BY <1>1, <1>2 DEF HeldPorts, HeldOnce
<1>4. QED
  BY <1>1, <1>2, <1>3 DEF HeldOnce

LEMMA Holds ==
  ASSUME \A w \in Workers : Busy(w)' = Busy(w),
         \A w \in Workers : Busy(w) => item'[w].port = item[w].port
  PROVE  HeldPorts' = HeldPorts /\ (HeldOnce => HeldOnce')
<1>1. HeldPorts' = HeldPorts
  BY DEF HeldPorts
<1>2. QED
  BY <1>1 DEF HeldOnce

-----------------------------------------------------------------------------
LEMMA TypeInit == Init => TypeOK
<1> SUFFICES ASSUME Init PROVE TypeOK
  OBVIOUS
<1>1. /\ item \in [Workers -> Outcome \cup {NoOutcome}]
      /\ worker \in [Workers -> {"new", "idle", "check", "dial", "send", "exited"}]
  BY DEF Init
<1>2. resultsCh \in Seq(Outcome) /\ Len(resultsCh) <= NPorts
  BY PoolAssumption DEF Init
<1>3. results \in Seq(Outcome) /\ callbacks \in Seq(Outcome) /\ next \in 1 .. NPorts + 1
  BY PoolAssumption DEF Init
<1>4. QED
  BY <1>1, <1>2, <1>3 DEF Init, TypeOK

LEMMA HandoverType ==
  ASSUME TypeOK, NEW w \in Workers, Handover(w)
  PROVE  TypeOK'
<1>1. [port |-> next, state |-> Canceled] \in Outcome
  BY PoolAssumption DEF Handover, Outcome, Ports, TypeOK
<1>2. item' \in [Workers -> Outcome \cup {NoOutcome}]
  BY <1>1 DEF Handover, TypeOK
<1>3. worker' \in [Workers -> {"new", "idle", "check", "dial", "send", "exited"}]
  BY DEF Handover, TypeOK
<1>4. next' \in 1 .. NPorts + 1
  BY PoolAssumption DEF Handover, TypeOK
<1>5. QED
  BY <1>2, <1>3, <1>4 DEF Handover, chanVars, callerVars, TypeOK

\* A dial keeps the port of its worker.
LEMMA DialResult ==
  ASSUME TypeOK, NEW w \in Workers, Dial(w), item[w] \in Outcome
  PROVE  /\ item'[w] \in Outcome /\ item'[w].port = item[w].port
         /\ ~runCtx => item'[w].state # Canceled
         /\ \A v \in Workers : v # w => item'[v] = item[v]
         /\ item' \in [Workers -> Outcome \cup {NoOutcome}]
<1>1. PICK s \in States \cup (IF runCtx THEN {Canceled} ELSE {}) :
         item' = [item EXCEPT ![w].state = s]
  BY DEF Dial
<1>2. s \in States \cup {Canceled} /\ (~runCtx => s # Canceled)
  BY PoolAssumption
<1>3. item'[w] = [item[w] EXCEPT !.state = s]
  BY <1>1 DEF TypeOK
<1>4. item'[w] = [port |-> item[w].port, state |-> s]
  BY <1>3 DEF Outcome
<1>5. item'[w] \in Outcome
  BY <1>2, <1>4 DEF Outcome
<1>6. \A v \in Workers : v # w => item'[v] = item[v]
  BY <1>1 DEF TypeOK
<1>7. item' \in [Workers -> Outcome \cup {NoOutcome}]
  BY <1>1, <1>3, <1>5 DEF TypeOK
<1>8. QED
  BY <1>2, <1>4, <1>5, <1>6, <1>7

LEMMA WorkerType ==
  ASSUME TypeOK, PlaceSets, NEW w \in Workers, WorkerStep(w)
  PROVE  TypeOK'
<1> USE PoolAssumption
<1>1. CASE Handover(w)
  BY <1>1, HandoverType
<1>2. ASSUME NEW from, NEW to \in {"dial", "send", "idle", "exited"}, WorkerAt(w, from, to)
      PROVE  worker' \in [Workers -> {"new", "idle", "check", "dial", "send", "exited"}]
  BY <1>2 DEF WorkerAt, TypeOK
<1>3. CASE JobsClosed(w) \/ Check(w) \/ GiveUp(w)
  <2>1. worker' \in [Workers -> {"new", "idle", "check", "dial", "send", "exited"}]
    BY <1>2, <1>3 DEF JobsClosed, Check, GiveUp
  <2>2. QED
    BY <1>3, <2>1 DEF JobsClosed, Check, GiveUp, chanVars, callerVars, TypeOK
<1>4. CASE Dial(w)
  <2>1. item[w] \in Outcome
    BY <1>4 DEF Dial, WorkerAt, PlaceSets, Busy
  <2>2. worker' \in [Workers -> {"new", "idle", "check", "dial", "send", "exited"}]
    BY <1>2, <1>4 DEF Dial
  <2>3. item' \in [Workers -> Outcome \cup {NoOutcome}]
    BY <1>4, <2>1, DialResult
  <2>4. QED
    BY <1>4, <2>2, <2>3 DEF Dial, chanVars, callerVars, TypeOK
<1>5. CASE Send(w)
  <2>1. item[w] \in Outcome
    BY <1>5 DEF Send, WorkerAt, PlaceSets, Busy
  <2>2. worker' \in [Workers -> {"new", "idle", "check", "dial", "send", "exited"}]
    BY <1>2, <1>5 DEF Send
  <2>3. resultsCh' \in Seq(Outcome) /\ Len(resultsCh') = Len(resultsCh) + 1
    BY <1>5, <2>1, AppendPorts DEF Send, TypeOK
  <2>4. Len(resultsCh') <= NPorts
    BY <1>5, <2>3 DEF Send, TypeOK
  <2>5. QED
    BY <1>5, <2>2, <2>3, <2>4 DEF Send, callerVars, TypeOK
<1>6. QED
  BY <1>1, <1>3, <1>4, <1>5 DEF WorkerStep

LEMMA CallerType ==
  ASSUME TypeOK, CallerInv, CallerStep
  PROVE  TypeOK'
<1> USE PoolAssumption
<1>1. CASE Resolve \/ ResolveFails \/ Return
  BY <1>1 DEF Resolve, ResolveFails, Return, poolVars, chanVars, callerVars, TypeOK
<1>2. CASE Collect
  <2>1. /\ Head(resultsCh) \in Outcome /\ resultsCh' \in Seq(Outcome)
        /\ Len(resultsCh') = Len(resultsCh) - 1
    BY <1>2, TailPorts DEF Collect, TypeOK
  <2>2. Len(resultsCh') <= NPorts
    BY <2>1 DEF TypeOK
  <2>3. results' \in Seq(Outcome)
    <3>1. results' = results \/ results' = Append(results, Head(resultsCh))
      BY <1>2 DEF Collect, callerVars
    <3>2. QED
      BY <2>1, <3>1, AppendPorts DEF TypeOK
  <2>4. QED
    BY <1>2, <2>1, <2>2, <2>3 DEF Collect, poolVars, callerVars, TypeOK
<1>3. CASE Callback
  <2>1. results[Len(results)] \in Outcome
    BY <1>3 DEF Callback, CallerInv, TypeOK
  <2>2. callbacks' \in Seq(Outcome)
    BY <1>3, <2>1 DEF Callback, TypeOK
  <2>3. QED
    BY <1>3, <2>2 DEF Callback, poolVars, chanVars, TypeOK
<1>4. QED
  BY <1>1, <1>2, <1>3 DEF CallerStep

LEMMA TypeNext == TypeOK /\ PlaceSets /\ CallerInv /\ [Next]_vars => TypeOK'
<1> SUFFICES ASSUME TypeOK, PlaceSets, CallerInv, [Next]_vars PROVE TypeOK'
  OBVIOUS
<1>1. CASE CancelParent
  BY <1>1 DEF CancelParent, poolVars, chanVars, callerVars, TypeOK
<1>2. CASE ProducerEnds
  BY <1>2 DEF ProducerEnds, poolVars, chanVars, callerVars, TypeOK
<1>3. CASE CloseResults
  BY <1>3 DEF CloseResults, poolVars, chanVars, callerVars, TypeOK
<1>4. CASE UNCHANGED vars
  BY <1>4 DEF vars, poolVars, chanVars, callerVars, TypeOK
<1>5. QED
  BY <1>1, <1>2, <1>3, <1>4, WorkerType, CallerType DEF Next

-----------------------------------------------------------------------------
(* The places of the ports.                                                *)
LEMMA PlaceNext == TypeOK /\ PlaceSets /\ [Next]_vars => PlaceSets'
<1> SUFFICES ASSUME TypeOK, PlaceSets, [Next]_vars PROVE PlaceSets'
  OBVIOUS
<1>0. /\ resultsCh \in Seq(Outcome) /\ results \in Seq(Outcome) /\ next \in Nat \ {0}
      /\ next \notin 1 .. next - 1 /\ 1 .. (next + 1) - 1 = 1 .. next - 1 \cup {next}
  BY PoolAssumption DEF TypeOK
<1>1. ASSUME NEW w \in Workers, Handover(w) PROVE PlaceSets'
  <2>1. HeldPorts' = HeldPorts \cup {next} /\ HeldOnce'
    BY <1>0, <1>1, Takes DEF PlaceSets
  <2>2. next' = next + 1 /\ resultsCh' = resultsCh /\ results' = results
    BY <1>1 DEF Handover, chanVars, callerVars
  <2>3. ASSUME NEW v \in Workers, Busy(v)' PROVE item'[v] \in Outcome
    <3>1. CASE v = w
      BY <1>1, <3>1, PoolAssumption DEF Handover, Outcome, Ports, TypeOK
    <3>2. CASE v # w
      BY <1>1, <2>3, <3>2 DEF Handover, Busy, PlaceSets, TypeOK
    <3>3. QED
      BY <3>1, <3>2
  <2>4. UNCHANGED <<PortsOf(resultsCh), PortsOf(results), Distinct(resultsCh), Distinct(results)>>
    BY <2>2 DEF PortsOf, Distinct
  <2>5. (1 .. next - 1)' = 1 .. next - 1 \cup {next}
    BY <1>0, <2>2
  <2>6. QED
    BY <1>0, <2>1, <2>3, <2>4, <2>5 DEF PlaceSets
<1>2. ASSUME HeldPorts' = HeldPorts, HeldOnce', UNCHANGED <<next, resultsCh, results>>,
             \A v \in Workers : Busy(v)' => item'[v] \in Outcome
      PROVE  PlaceSets'
  BY <1>2 DEF PlaceSets, PortsOf, Distinct
<1>3. ASSUME NEW w \in Workers, Busy(w), item' = item,
             NEW to \in {"idle", "exited"}, worker' = [worker EXCEPT ![w] = to],
             UNCHANGED <<next, resultsCh, results>>
      PROVE  PlaceSets'
  <2>1. HeldPorts' = HeldPorts \ {item[w].port} /\ HeldOnce'
    BY <1>3, Drops DEF PlaceSets
  <2>2. \A v \in Workers : Busy(v)' => Busy(v)
    BY <1>3 DEF Busy, TypeOK
  <2>3. UNCHANGED <<PortsOf(resultsCh), PortsOf(results), Distinct(resultsCh), Distinct(results)>>
    BY <1>3 DEF PortsOf, Distinct
  <2>4. (1 .. next - 1)' = 1 .. next - 1
    BY <1>3
  <2>5. QED
    BY <1>3, <2>1, <2>2, <2>3, <2>4 DEF PlaceSets
<1>4. ASSUME \A v \in Workers : Busy(v)' = Busy(v), item' = item,
             UNCHANGED <<next, resultsCh, results>>
      PROVE  PlaceSets'
  <2>1. HeldPorts' = HeldPorts /\ HeldOnce'
    BY <1>4, Holds DEF PlaceSets
  <2>2. QED
    BY <1>2, <1>4, <2>1 DEF PlaceSets
<1>5. ASSUME NEW w \in Workers, JobsClosed(w) \/ Check(w) \/ GiveUp(w) PROVE PlaceSets'
  <2>1. item' = item /\ UNCHANGED <<next, resultsCh, results>>
    BY <1>5 DEF JobsClosed, Check, GiveUp, chanVars, callerVars
  <2>2. CASE worker' = [worker EXCEPT ![w] = "exited"] /\ Busy(w)
    BY <1>3, <2>1, <2>2
  <2>3. CASE worker' = [worker EXCEPT ![w] = "exited"] /\ ~Busy(w)
    <3>1. \A v \in Workers : Busy(v)' = Busy(v)
      BY <2>3 DEF Busy, TypeOK
    <3>2. QED
      BY <1>4, <2>1, <3>1
  <2>4. CASE worker[w] = "check" /\ worker' = [worker EXCEPT ![w] = "dial"]
    <3>1. \A v \in Workers : Busy(v)' = Busy(v)
      BY <2>4 DEF Busy, TypeOK
    <3>2. QED
      BY <1>4, <2>1, <3>1
  <2>5. QED
    BY <1>5, <2>2, <2>3, <2>4 DEF JobsClosed, Check, GiveUp, WorkerAt
<1>6. ASSUME NEW w \in Workers, Dial(w) PROVE PlaceSets'
  <2>1. item[w] \in Outcome
    BY <1>6 DEF Dial, WorkerAt, PlaceSets, Busy
  <2>2. /\ item'[w] \in Outcome /\ item'[w].port = item[w].port
        /\ \A v \in Workers : v # w => item'[v] = item[v]
    BY <1>6, <2>1, DialResult
  <2>3. \A v \in Workers : Busy(v)' = Busy(v)
    BY <1>6 DEF Dial, WorkerAt, Busy, TypeOK
  <2>4. HeldPorts' = HeldPorts /\ HeldOnce'
    BY <2>2, <2>3, Holds DEF PlaceSets
  <2>5. UNCHANGED <<next, resultsCh, results>>
    BY <1>6 DEF Dial, chanVars, callerVars
  <2>6. QED
    BY <1>2, <2>2, <2>3, <2>4, <2>5 DEF PlaceSets
<1>7. ASSUME NEW w \in Workers, Send(w) PROVE PlaceSets'
  <2>1. /\ Busy(w) /\ item[w] \in Outcome /\ item[w].port \in HeldPorts
        /\ worker' = [worker EXCEPT ![w] = "idle"] /\ item' = item
    BY <1>7 DEF Send, WorkerAt, PlaceSets, Busy, HeldPorts
  <2>2. HeldPorts' = HeldPorts \ {item[w].port} /\ HeldOnce'
    BY <2>1, Drops DEF PlaceSets
  <2>3. resultsCh' = Append(resultsCh, item[w]) /\ UNCHANGED <<next, results>>
    BY <1>7 DEF Send, callerVars
  <2>4. PortsOf(resultsCh') = PortsOf(resultsCh) \cup {item[w].port} /\ Distinct(resultsCh')
    BY <1>0, <2>1, <2>3, AppendPorts DEF PlaceSets
  <2>5. \A v \in Workers : Busy(v)' => Busy(v)
    BY <2>1 DEF Busy, TypeOK
  <2>6. PortsOf(resultsCh)' = PortsOf(resultsCh') /\ PortsOf(results)' = PortsOf(results)
    BY <2>3 DEF PortsOf
  <2>7. Distinct(resultsCh)' /\ Distinct(results)' /\ (1 .. next - 1)' = 1 .. next - 1
    BY <2>3, <2>4 DEF Distinct, PlaceSets
  <2>8. QED
    BY <2>1, <2>2, <2>4, <2>5, <2>6, <2>7 DEF PlaceSets
<1>8. ASSUME Collect PROVE PlaceSets'
  <2>1. /\ resultsCh # <<>> /\ resultsCh' = Tail(resultsCh)
        /\ results' \in {results, Append(results, Head(resultsCh))}
        /\ UNCHANGED <<next, worker, item>>
    BY <1>8 DEF Collect, poolVars, callerVars
  <2>2. HeldPorts' = HeldPorts /\ HeldOnce'
    BY <2>1 DEF HeldPorts, HeldOnce, Busy, PlaceSets
  <2>3. /\ Head(resultsCh) \in Outcome
        /\ PortsOf(resultsCh) = PortsOf(resultsCh') \cup {Head(resultsCh).port}
        /\ Distinct(resultsCh') /\ Head(resultsCh).port \notin PortsOf(resultsCh')
    BY <1>0, <2>1, TailPorts DEF PlaceSets
  <2>4. /\ PortsOf(results') \subseteq PortsOf(results) \cup {Head(resultsCh).port}
        /\ Distinct(results')
    <3>1. CASE results' = results
      BY <3>1 DEF PlaceSets
    <3>2. CASE results' = Append(results, Head(resultsCh))
      <4>1. Head(resultsCh).port \notin PortsOf(results)
        BY <2>3 DEF PlaceSets
      <4>2. QED
        BY <1>0, <2>3, <3>2, <4>1, AppendPorts DEF PlaceSets
    <3>3. QED
      BY <2>1, <3>1, <3>2
  <2>5. \A v \in Workers : Busy(v)' => item'[v] \in Outcome
    BY <2>1 DEF Busy, PlaceSets
  <2>6. PortsOf(resultsCh)' = PortsOf(resultsCh') /\ PortsOf(results)' = PortsOf(results')
    BY DEF PortsOf
  <2>7. Distinct(resultsCh)' /\ Distinct(results)' /\ (1 .. next - 1)' = 1 .. next - 1
    BY <2>1, <2>3, <2>4 DEF Distinct
  <2>8. QED
    BY <2>2, <2>3, <2>4, <2>5, <2>6, <2>7 DEF PlaceSets
<1>9. CASE Resolve
  <2>1. item' = item /\ UNCHANGED <<next, resultsCh, results>>
    BY <1>9 DEF Resolve, chanVars
  <2>2. \A v \in Workers : ~Busy(v)'
    BY <1>9 DEF Resolve, Busy
  <2>3. QED
    BY <2>1, <2>2 DEF PlaceSets, HeldPorts, HeldOnce, PortsOf, Distinct
<1>10. CASE \/ CancelParent \/ ProducerEnds \/ CloseResults \/ ResolveFails \/ Callback
            \/ Return \/ UNCHANGED vars
  <2>1. worker' = worker /\ item' = item /\ UNCHANGED <<next, resultsCh, results>>
    BY <1>10 DEF CancelParent, ProducerEnds, CloseResults, ResolveFails, Callback, Return,
                vars, poolVars, chanVars, callerVars
  <2>2. QED
    BY <1>4, <2>1 DEF Busy
<1>11. QED
  BY <1>1, <1>5, <1>6, <1>7, <1>8, <1>9, <1>10 DEF Next, WorkerStep, CallerStep

-----------------------------------------------------------------------------
(* Nothing is lost while the context of the scan is not done.              *)
LEMMA KeptWorker ==
  ASSUME TypeOK, PlaceSets, Kept, ~runCtx, NEW w \in Workers, WorkerStep(w)
  PROVE  Kept'
<1>0. resultsCh \in Seq(Outcome) /\ next \in Nat \ {0}
      /\ 1 .. (next + 1) - 1 = 1 .. next - 1 \cup {next}
  BY PoolAssumption DEF TypeOK
<1>1. results' = results /\ Clean(results)' = Clean(results)
      /\ PortsOf(results)' = PortsOf(results) /\ producer' = producer
  BY DEF WorkerStep, Handover, JobsClosed, Check, Dial, Send, GiveUp, callerVars, Clean,
         PortsOf
<1>2. ASSUME resultsCh' = resultsCh
      PROVE  Clean(resultsCh)' = Clean(resultsCh) /\ PortsOf(resultsCh)' = PortsOf(resultsCh)
  BY <1>2 DEF Clean, PortsOf
<1>3. CASE Handover(w)
  <2>1. next \notin HeldPorts
    BY <1>0 DEF PlaceSets
  <2>2. HeldPorts' = HeldPorts \cup {next}
    BY <1>3, <2>1, Takes DEF PlaceSets
  <2>3. next' = next + 1 /\ resultsCh' = resultsCh /\ producer = "sending"
    BY <1>3 DEF Handover, chanVars
  <2>4. \A v \in Workers : worker'[v] \notin {"send", "exited"} \/
          (worker'[v] = worker[v] /\ item'[v] = item[v])
    BY <1>3 DEF Handover, TypeOK
  <2>5. (1 .. next - 1)' \subseteq HeldPorts' \cup PortsOf(resultsCh)' \cup PortsOf(results)'
    BY <1>0, <1>1, <1>2, <2>2, <2>3 DEF Kept
  <2>6. QED
    BY <1>1, <1>2, <2>3, <2>4, <2>5 DEF Kept
<1>4. CASE JobsClosed(w) \/ Check(w)
  <2>1. /\ item' = item /\ next' = next /\ resultsCh' = resultsCh
        /\ \/ worker[w] = "idle" /\ producer = "closed"
              /\ worker' = [worker EXCEPT ![w] = "exited"]
           \/ worker[w] = "check" /\ worker' = [worker EXCEPT ![w] = "dial"]
    BY <1>4 DEF JobsClosed, Check, WorkerAt, chanVars
  <2>2. \A v \in Workers : Busy(v)' = Busy(v)
    BY <2>1 DEF Busy, TypeOK
  <2>3. HeldPorts' = HeldPorts
    BY <2>1, <2>2, Holds
  <2>4. \A v \in Workers :
          /\ worker'[v] = "send" => worker[v] = "send"
          /\ worker'[v] = "exited" => worker[v] = "exited" \/ producer = "closed"
    BY <2>1 DEF TypeOK
  <2>5. (1 .. next - 1)' \subseteq HeldPorts' \cup PortsOf(resultsCh)' \cup PortsOf(results)'
    BY <1>1, <1>2, <2>1, <2>3 DEF Kept
  <2>6. QED
    BY <1>1, <1>2, <2>1, <2>4, <2>5 DEF Kept
<1>5. CASE Dial(w)
  <2>1. item[w] \in Outcome
    BY <1>5 DEF Dial, WorkerAt, PlaceSets, Busy
  <2>2. /\ item'[w].port = item[w].port /\ item'[w].state # Canceled
        /\ \A v \in Workers : v # w => item'[v] = item[v]
    BY <1>5, <2>1, DialResult
  <2>3. \A v \in Workers : Busy(v)' = Busy(v)
    BY <1>5 DEF Dial, WorkerAt, Busy, TypeOK
  <2>4. HeldPorts' = HeldPorts
    BY <2>2, <2>3, Holds
  <2>5. next' = next /\ resultsCh' = resultsCh
    BY <1>5 DEF Dial, chanVars
  <2>6. \A v \in Workers : worker'[v] = worker[v] \/ (v = w /\ worker'[v] = "send")
    BY <1>5 DEF Dial, WorkerAt, TypeOK
  <2>7. (1 .. next - 1)' \subseteq HeldPorts' \cup PortsOf(resultsCh)' \cup PortsOf(results)'
    BY <1>1, <1>2, <2>4, <2>5 DEF Kept
  <2>8. QED
    BY <1>1, <1>2, <2>2, <2>5, <2>6, <2>7 DEF Kept
<1>6. CASE Send(w)
  <2>1. /\ worker[w] = "send" /\ Busy(w) /\ item[w] \in Outcome
        /\ worker' = [worker EXCEPT ![w] = "idle"] /\ item' = item /\ next' = next
        /\ resultsCh' = Append(resultsCh, item[w])
    BY <1>6 DEF Send, WorkerAt, PlaceSets, Busy
  <2>2. HeldPorts' = HeldPorts \ {item[w].port}
    BY <2>1, Drops DEF PlaceSets
  <2>3. PortsOf(resultsCh') = PortsOf(resultsCh) \cup {item[w].port} /\ Clean(resultsCh')
    BY <1>0, <2>1, AppendPorts DEF Kept
  <2>4. PortsOf(resultsCh)' = PortsOf(resultsCh') /\ Clean(resultsCh)'
    BY <2>3 DEF PortsOf, Clean
  <2>5. \A v \in Workers : worker'[v] \in {"send", "exited"} => worker'[v] = worker[v]
    BY <2>1 DEF TypeOK
  <2>6. (1 .. next - 1)' \subseteq HeldPorts' \cup PortsOf(resultsCh)' \cup PortsOf(results)'
    BY <1>1, <2>1, <2>2, <2>3, <2>4 DEF Kept
  <2>7. QED
    BY <1>1, <2>1, <2>4, <2>5, <2>6 DEF Kept
<1>7. CASE GiveUp(w)
  BY <1>7 DEF GiveUp
<1>8. QED
  BY <1>3, <1>4, <1>5, <1>6, <1>7 DEF WorkerStep

LEMMA KeptSame ==
  ASSUME Kept, UNCHANGED <<worker, item, next, resultsCh, results>>,
         producer' = producer \/ (producer' = "closed" /\ next > NPorts), TypeOK
  PROVE  Kept'
<1>1. Clean(resultsCh)' /\ Clean(results)'
  BY DEF Clean, Kept
<1>2. (1 .. next - 1)' \subseteq HeldPorts' \cup PortsOf(resultsCh)' \cup PortsOf(results)'
  BY DEF HeldPorts, Busy, PortsOf, Kept
<1>3. producer' = producer \/ (producer' = "closed" /\ next = NPorts + 1)
  BY PoolAssumption DEF TypeOK
<1>4. QED
  BY <1>1, <1>2, <1>3 DEF Kept

LEMMA KeptNext ==
  TypeOK /\ PlaceSets /\ CallerInv /\ NothingLost /\ [Next]_vars => NothingLost'
<1> SUFFICES ASSUME TypeOK, PlaceSets, CallerInv, NothingLost, [Next]_vars, ~runCtx'
             PROVE  ~failed' /\ Kept'
  BY DEF NothingLost, Kept, Clean
<1>1. ~runCtx
  BY DEF Next, CancelParent, WorkerStep, Handover, JobsClosed, Check, Dial, Send, GiveUp,
         ProducerEnds, CloseResults, CallerStep, Resolve, ResolveFails, Collect, Callback,
         Return, vars
<1>2. ~failed /\ Kept
  BY <1>1, NothingLostIsKept
<1>3. ASSUME NEW w \in Workers, WorkerStep(w) PROVE ~failed' /\ Kept'
  <2>1. failed' = failed
    BY <1>3 DEF WorkerStep, Handover, JobsClosed, Check, Dial, Send, GiveUp, callerVars
  <2>2. QED
    BY <1>1, <1>2, <1>3, <2>1, KeptWorker
<1>4. CASE ProducerEnds \/ CloseResults \/ Callback \/ UNCHANGED vars
  <2>1. /\ UNCHANGED <<worker, item, next, resultsCh, results>>
        /\ producer' = producer \/ (producer' = "closed" /\ next > NPorts)
        /\ failed' = failed
    BY <1>1, <1>4 DEF ProducerEnds, CloseResults, Callback, vars, poolVars, chanVars,
                      callerVars
  <2>2. QED
    BY <1>2, <2>1, KeptSame
<1>5. CASE CancelParent \/ ResolveFails \/ Return
  BY <1>5 DEF CancelParent, ResolveFails, Return
<1>6. CASE Resolve
  <2>1. UNCHANGED <<next, resultsCh, results, failed>> /\ producer' = "sending"
    BY <1>6 DEF Resolve, chanVars
  <2>2. HeldPorts = {}
    BY <1>6 DEF Resolve, CallerInv, HeldPorts, Busy
  <2>3. Clean(resultsCh)' /\ Clean(results)'
    BY <1>2, <2>1 DEF Clean, Kept
  <2>4. (1 .. next - 1)' \subseteq HeldPorts' \cup PortsOf(resultsCh)' \cup PortsOf(results)'
    BY <1>2, <2>1, <2>2 DEF PortsOf, Kept
  <2>5. \A w \in Workers : worker'[w] = "idle"
    BY <1>6 DEF Resolve
  <2>6. QED
    BY <1>2, <2>1, <2>3, <2>4, <2>5 DEF Kept
<1>7. CASE Collect
  <2>1. /\ resultsCh # <<>> /\ resultsCh' = Tail(resultsCh)
        /\ results' = Append(results, Head(resultsCh))
        /\ UNCHANGED <<next, worker, item, producer, failed>>
    BY <1>2, <1>7 DEF Collect, poolVars
  <2>2. resultsCh \in Seq(Outcome) /\ results \in Seq(Outcome)
    BY DEF TypeOK
  <2>3. /\ Head(resultsCh) \in Outcome /\ Clean(resultsCh')
        /\ PortsOf(resultsCh) = PortsOf(resultsCh') \cup {Head(resultsCh).port}
        /\ Head(resultsCh).state # Canceled
    BY <1>2, <2>1, <2>2, TailPorts DEF Kept
  <2>4. /\ PortsOf(results') = PortsOf(results) \cup {Head(resultsCh).port}
        /\ Clean(results')
    BY <1>2, <2>1, <2>2, <2>3, AppendPorts DEF Kept
  <2>5. Clean(resultsCh)' /\ Clean(results)'
    BY <2>3, <2>4 DEF Clean
  <2>6. PortsOf(resultsCh)' = PortsOf(resultsCh') /\ PortsOf(results)' = PortsOf(results')
    BY DEF PortsOf
  <2>7. HeldPorts' = HeldPorts
    BY <2>1 DEF HeldPorts, Busy
  <2>8. (1 .. next - 1)' \subseteq HeldPorts' \cup PortsOf(resultsCh)' \cup PortsOf(results)'
    BY <1>2, <2>1, <2>3, <2>4, <2>6, <2>7 DEF Kept
  <2>9. QED
    BY <1>2, <2>1, <2>5, <2>8 DEF Kept
<1>8. QED
  BY <1>3, <1>4, <1>5, <1>6, <1>7 DEF Next, CallerStep

-----------------------------------------------------------------------------
(* The stages of the caller.                                               *)
LEMMA CallerWorker ==
  ASSUME TypeOK, CallerInv, NEW w \in Workers, WorkerStep(w)
  PROVE  CallerInv'
<1>1. worker[w] \notin {"new", "exited"}
  BY DEF WorkerStep, Handover, JobsClosed, Check, Dial, Send, GiveUp, WorkerAt
<1>2. collector \in {"range", "call"} /\ ~closed
  BY <1>1 DEF CallerInv, TypeOK
<1>3. UNCHANGED <<collector, results, callbacks, returned, closed>>
  BY DEF WorkerStep, Handover, JobsClosed, Check, Dial, Send, GiveUp, callerVars, chanVars
<1>4. \A v \in Workers : worker'[v] # "new"
  <2>1. \E x \in {"check", "dial", "send", "idle", "exited"} :
           worker' = [worker EXCEPT ![w] = x]
    BY DEF WorkerStep, Handover, JobsClosed, Check, Dial, Send, GiveUp, WorkerAt
  <2>2. QED
    BY <1>2, <2>1 DEF CallerInv, TypeOK
<1>5. QED
  BY <1>2, <1>3, <1>4 DEF CallerInv

LEMMA CallerNext == TypeOK /\ CallerInv /\ [Next]_vars => CallerInv'
<1> SUFFICES ASSUME TypeOK, CallerInv, [Next]_vars PROVE CallerInv'
  OBVIOUS
<1> USE PoolAssumption
<1>1. CASE CancelParent \/ UNCHANGED vars
  BY <1>1 DEF CancelParent, vars, poolVars, chanVars, callerVars, CallerInv
<1>2. CASE ProducerEnds
  BY <1>2 DEF ProducerEnds, chanVars, callerVars, CallerInv
<1>3. CASE CloseResults
  BY <1>3 DEF CloseResults, poolVars, callerVars, CallerInv
<1>4. CASE Resolve
  BY <1>4 DEF Resolve, chanVars, CallerInv
<1>5. CASE ResolveFails
  BY <1>5 DEF ResolveFails, poolVars, chanVars, CallerInv
<1>6. CASE Collect
  <2>1. collector = "range" /\ callbacks = results /\ UNCHANGED <<worker, closed>>
    BY <1>6 DEF Collect, poolVars, CallerInv
  <2>2. CASE failed
    BY <1>6, <2>1, <2>2 DEF Collect, poolVars, callerVars, CallerInv
  <2>3. CASE ~failed
    <3>1. /\ results' = Append(results, Head(resultsCh)) /\ collector' = "call"
          /\ UNCHANGED <<callbacks, returned>>
      BY <1>6, <2>3 DEF Collect
    <3>2. Head(resultsCh) \in Outcome
      BY <1>6, TailPorts DEF Collect, TypeOK
    <3>3. results' # <<>> /\ results'[Len(results')] = Head(resultsCh)
      BY <3>1, <3>2, AppendPorts DEF TypeOK
    <3>4. results' = Append(callbacks', results'[Len(results')])
      BY <2>1, <3>1, <3>3
    <3>5. QED
      BY <1>6, <2>1, <3>1, <3>3, <3>4 DEF CallerInv
  <2>4. QED
    BY <2>2, <2>3
<1>7. CASE Callback
  BY <1>7 DEF Callback, poolVars, chanVars, CallerInv
<1>8. CASE Return
  BY <1>8 DEF Return, poolVars, chanVars, CallerInv
<1>9. QED
  BY <1>1, <1>2, <1>3, <1>4, <1>5, <1>6, <1>7, <1>8, CallerWorker DEF Next, CallerStep

-----------------------------------------------------------------------------
LEMMA InvInit == Init => IInv
<1> SUFFICES ASSUME Init PROVE IInv
  OBVIOUS
<1>1. \A w \in Workers : ~Busy(w)
  BY DEF Init, Busy
<1>2. PlaceInv
  <2>1. resultsCh = <<>> /\ results = <<>> /\ HeldPorts = {}
    BY <1>1 DEF Init, HeldPorts
  <2>2. QED
    BY <1>1, <2>1, EmptySeq DEF PlaceInv
<1>3. NothingLost
  BY PoolAssumption DEF Init, NothingLost
<1>4. CallerInv
  BY PoolAssumption DEF Init, CallerInv
<1>5. QED
  BY <1>2, <1>3, <1>4, TypeInit DEF IInv

LEMMA InvNext == IInv /\ [Next]_vars => IInv'
<1> SUFFICES ASSUME IInv, [Next]_vars PROVE IInv'
  OBVIOUS
<1>1. TypeOK /\ PlaceSets /\ NothingLost /\ CallerInv
  BY PlaceIsSets DEF IInv
<1>2. TypeOK' /\ PlaceSets' /\ NothingLost' /\ CallerInv'
  BY <1>1, TypeNext, PlaceNext, KeptNext, CallerNext
<1>3. (TypeOK => (PlaceInv <=> PlaceSets))'
  BY PlaceIsSets, PTL
<1>4. QED
  BY <1>2, <1>3 DEF IInv

LEMMA InvCorrect == Spec => []IInv
  BY InvInit, InvNext, PTL DEF Spec

-----------------------------------------------------------------------------
(* Every variable keeps to its type; the results channel never holds more  *)
(* than its capacity (RunStreamContext).                                    *)
THEOREM TypeCorrect == Spec => []TypeOK
<1>1. IInv => TypeOK
  BY DEF IInv
<1>2. QED
  BY InvCorrect, <1>1, PTL

(* A port handed out is with one worker, in the channel or in the results, *)
(* and nowhere twice (the producer and the workers of RunStreamContext).   *)
THEOREM PortsAreOnce == Spec => []EachPortOnce
<1>1. ASSUME IInv PROVE EachPortOnce
  <2> DEFINE seen == [i \in DOMAIN results |-> results[i].port]
             held == [i \in DOMAIN resultsCh |-> resultsCh[i].port]
             all == seen \o held
             n == Len(results)
             m == Len(resultsCh)
  <2>1. TypeOK /\ PlaceSets
    BY <1>1, PlaceIsSets DEF IInv
  <2>2. /\ DOMAIN results = 1 .. n /\ DOMAIN resultsCh = 1 .. m
        /\ n \in Nat /\ m \in Nat
        /\ seen \in Seq(Ports) /\ held \in Seq(Ports) /\ Len(seen) = n /\ Len(held) = m
    <3>1. resultsCh \in Seq(Outcome) /\ results \in Seq(Outcome)
      BY <2>1 DEF TypeOK
    <3>2. /\ \A i \in DOMAIN results : results[i].port \in Ports
          /\ \A i \in DOMAIN resultsCh : resultsCh[i].port \in Ports
      BY <3>1, OutcomeFacts DEF Ports
    <3>3. QED
      BY <3>1, <3>2
  <2>3. /\ DOMAIN all = 1 .. n + m
        /\ \A i \in 1 .. n : all[i] = results[i].port
        /\ \A i \in n + 1 .. n + m : all[i] = resultsCh[i - n].port
    BY <2>2
  <2> HIDE DEF seen, held
  <2>4. ASSUME NEW i \in DOMAIN all
        PROVE  \/ i \in 1 .. n /\ all[i] \in PortsOf(results)
               \/ i \in n + 1 .. n + m /\ all[i] \in PortsOf(resultsCh)
    <3>1. CASE i \in 1 .. n
      BY <2>2, <2>3, <3>1 DEF PortsOf
    <3>2. CASE i \in n + 1 .. n + m
      <4>1. i - n \in DOMAIN resultsCh
        BY <2>2, <3>2
      <4>2. QED
        BY <2>3, <3>2, <4>1 DEF PortsOf
    <3>3. QED
      BY <2>2, <2>3, <2>4, <3>1, <3>2
  <2>5. ASSUME NEW i \in DOMAIN all, NEW j \in DOMAIN all, all[i] = all[j] PROVE i = j
    <3>1. PortsOf(results) \cap PortsOf(resultsCh) = {}
      BY <2>1 DEF PlaceSets
    <3>2. CASE i \in 1 .. n /\ j \in 1 .. n
      BY <2>1, <2>2, <2>3, <2>5, <3>2 DEF PlaceSets, Distinct
    <3>3. CASE i \in n + 1 .. n + m /\ j \in n + 1 .. n + m
      <4>1. i - n \in DOMAIN resultsCh /\ j - n \in DOMAIN resultsCh
        BY <2>2, <3>3
      <4>2. i - n = j - n
        BY <2>1, <2>3, <2>5, <3>3, <4>1 DEF PlaceSets, Distinct
      <4>3. QED
        BY <2>2, <3>3, <4>2
    <3>4. QED
      BY <2>4, <2>5, <3>1, <3>2, <3>3
  <2>6. ASSUME NEW w \in Workers, Busy(w) PROVE item[w].port \notin Elems(all)
    <3>1. item[w].port \in HeldPorts
      BY <2>6 DEF HeldPorts
    <3>2. Elems(all) \subseteq PortsOf(results) \cup PortsOf(resultsCh)
      BY <2>4 DEF Elems
    <3>3. QED
      BY <2>1, <3>1, <3>2 DEF PlaceSets
  <2>7. \A v, w \in Workers :
          Busy(v) /\ Busy(w) /\ item[v].port = item[w].port => v = w
    BY <2>1 DEF PlaceSets, HeldOnce
  <2>8. QED
    BY <2>5, <2>6, <2>7 DEF EachPortOnce, seen, held
<1>2. QED
  BY InvCorrect, <1>1, PTL

(* When the scan returns its workers are gone, its channel is drained and  *)
(* the callback saw exactly the results (the range over resultsCh and the  *)
(* closer of RunStreamContext).                                             *)
THEOREM ScanReturnsLast == Spec => []ReturnsLast
<1>1. IInv => ReturnsLast
  BY DEF IInv, CallerInv, ReturnsLast
<1>2. QED
  BY InvCorrect, <1>1, PTL

-----------------------------------------------------------------------------
(* The refinement, step by step.                                           *)
ScanStep == [Promise!Next]_<<Elems(results), returned>>

LEMMA ReportStep ==
  ASSUME IInv, Collect, ~failed
  PROVE  ScanStep
<1>1. TypeOK /\ PlaceSets /\ returned = "no"
  BY PlaceIsSets DEF IInv, CallerInv, Collect
<1> DEFINE r == Head(resultsCh)
<1>2. r \in Outcome /\ r.port \in PortsOf(resultsCh)
  BY <1>1, TailPorts DEF Collect, TypeOK
<1>3. Elems(results') = Elems(results) \cup {r} /\ returned' = returned
  BY <1>1, <1>2, AppendPorts DEF Collect, TypeOK
<1>4. r.port \notin Promise!Known
  <2>1. Promise!Known \subseteq PortsOf(results)
    BY DEF Promise!Known, Elems, PortsOf
  <2>2. QED
    BY <1>1, <1>2, <2>1 DEF PlaceSets
<1>5. Elems(results)' = Elems(results')
  BY DEF Elems
<1> HIDE DEF r
<1>6. r.port \in Ports /\ r.state \in States \cup {Canceled}
      /\ r = [port |-> r.port, state |-> r.state]
  BY <1>2, OutcomeFacts DEF Ports
<1>7. Promise!Report(r.port, r.state)
  BY <1>1, <1>3, <1>4, <1>5, <1>6 DEF Promise!Report
<1>8. QED
  BY <1>6, <1>7 DEF ScanStep, Promise!Next

LEMMA ReturnStep ==
  ASSUME IInv, Return
  PROVE  ScanStep
<1>1. TypeOK /\ PlaceSets /\ returned = "no"
  BY PlaceIsSets DEF IInv, CallerInv, Return
<1>2. Elems(results)' = Elems(results) /\ returned' \in {"ok", "error"}
  BY DEF Return, Elems
<1>3. CASE returned' = "error"
  BY <1>1, <1>2, <1>3 DEF ScanStep, Promise!Next, Promise!Fail
<1>4. CASE returned' = "ok"
  <2>1. ~runCtx /\ closed /\ resultsCh = <<>>
    BY <1>4 DEF Return
  <2>2. Kept
    BY <1>1, <2>1, NothingLostIsKept DEF IInv
  <2>3. \A w \in Workers : worker[w] = "exited"
    BY <2>1 DEF IInv, CallerInv
  <2>4. next = NPorts + 1
    BY <2>2, <2>3, PoolAssumption DEF Kept
  <2>5. HeldPorts = {} /\ PortsOf(resultsCh) = {}
    BY <2>1, <2>3, EmptySeq DEF HeldPorts, Busy
  <2>6. PortsOf(results) = Ports
    <3>1. 1 .. next - 1 = Ports
      BY <2>4, PoolAssumption DEF Ports
    <3>2. QED
      BY <1>1, <2>2, <2>5, <3>1 DEF Kept, PlaceSets
  <2>7. Promise!Known = PortsOf(results)
    BY DEF Promise!Known, Elems, PortsOf
  <2>8. \A r \in Elems(results) : r.state # Canceled
    BY <2>2 DEF Kept, Clean, Elems
  <2>9. Promise!Succeed
    BY <1>1, <1>2, <1>4, <2>6, <2>7, <2>8 DEF Promise!Succeed
  <2>10. QED
    BY <2>9 DEF ScanStep, Promise!Next
<1>5. QED
  BY <1>2, <1>3, <1>4

LEMMA NextPromise ==
  ASSUME IInv, [Next]_vars
  PROVE  ScanStep
<1>1. ASSUME results' = results, returned' = returned PROVE ScanStep
  <2>1. Elems(results)' = Elems(results)
    BY <1>1 DEF Elems
  <2>2. QED
    BY <1>1, <2>1 DEF ScanStep
<1>2. CASE \/ CancelParent \/ ProducerEnds \/ CloseResults \/ Resolve \/ Callback
           \/ (Collect /\ failed) \/ UNCHANGED vars
  <2>1. results' = results /\ returned' = returned
    BY <1>2 DEF CancelParent, ProducerEnds, CloseResults, Resolve, Callback, Collect,
                callerVars, vars
  <2>2. QED
    BY <1>1, <2>1
<1>3. ASSUME NEW w \in Workers, WorkerStep(w) PROVE ScanStep
  <2>1. results' = results /\ returned' = returned
    BY <1>3 DEF WorkerStep, Handover, JobsClosed, Check, Dial, Send, GiveUp, callerVars
  <2>2. QED
    BY <1>1, <2>1
<1>4. CASE ResolveFails
  <2>1. Elems(results)' = Elems(results)
    BY <1>4 DEF ResolveFails, Elems
  <2>2. returned = "no" /\ returned' = "error"
    BY <1>4 DEF ResolveFails, IInv, CallerInv
  <2>3. QED
    BY <2>1, <2>2 DEF ScanStep, Promise!Next, Promise!Fail
<1>5. QED
  BY <1>2, <1>3, <1>4, ReportStep, ReturnStep DEF Next, CallerStep

(* The scan keeps the promise of ScanPromise: no port is reported twice,   *)
(* and without an error every port is reported and no dial was canceled.   *)
THEOREM ScanImplementsPromise == Spec => Implements
<1>1. Init => Promise!Init
  BY EmptySeq DEF Init, Promise!Init
<1>2. IInv /\ [Next]_vars => [Promise!Next]_<<Elems(results), returned>>
  BY NextPromise DEF ScanStep
<1>3. QED
  BY <1>1, <1>2, InvCorrect, PTL DEF Spec, Implements, Promise!Spec
=============================================================================
