------------------------- MODULE ResultStoreProofs -------------------------
(***************************************************************************)
(* Proofs about ResultStore for every number of probes, every batch size, *)
(* channel capacity and retention, and every bound on samples, failures   *)
(* and crashes.                                                            *)
(***************************************************************************)
EXTENDS ResultStore, TLAPS

-----------------------------------------------------------------------------
(* Sequences as the channel and the batch use them. *)
LEMMA AppendFacts ==
  ASSUME NEW T, NEW s \in Seq(T), NEW e \in T
  PROVE  /\ Append(s, e) \in Seq(T)
         /\ Len(Append(s, e)) = Len(s) + 1
         /\ Append(s, e)[Len(s) + 1] = e
         /\ \A i \in 1 .. Len(s) : Append(s, e)[i] = s[i]
OBVIOUS

LEMMA HeadTailFacts ==
  ASSUME NEW T, NEW s \in Seq(T), s # <<>>
  PROVE  /\ Len(s) \in Nat /\ Len(s) >= 1
         /\ Head(s) = s[1] /\ Head(s) \in T
         /\ Tail(s) \in Seq(T)
         /\ Len(Tail(s)) = Len(s) - 1
         /\ \A i \in 1 .. Len(Tail(s)) : Tail(s)[i] = s[i + 1]
OBVIOUS

LEMMA ElemsAppend ==
  ASSUME NEW T, NEW s \in Seq(T), NEW e \in T
  PROVE  Elems(Append(s, e)) = Elems(s) \cup {e}
<1>1. \A i \in 1 .. Len(s) + 1 : i \in 1 .. Len(s) \/ i = Len(s) + 1
  OBVIOUS
<1>2. QED
  BY <1>1, AppendFacts DEF Elems

LEMMA ElemsHeadTail ==
  ASSUME NEW T, NEW s \in Seq(T), s # <<>>
  PROVE  Elems(s) = {Head(s)} \cup Elems(Tail(s))
<1>1. ASSUME NEW i \in 1 .. Len(s)
      PROVE  s[i] \in {Head(s)} \cup Elems(Tail(s))
  <2>1. CASE i = 1
    BY <2>1, HeadTailFacts
  <2>2. CASE i # 1
    <3>1. i - 1 \in 1 .. Len(Tail(s)) /\ Tail(s)[i - 1] = s[i]
      BY <2>2, HeadTailFacts
    <3>2. QED
      BY <3>1 DEF Elems
  <2>3. QED
    BY <2>1, <2>2
<1>2. ASSUME NEW i \in 1 .. Len(Tail(s))
      PROVE  Tail(s)[i] \in Elems(s)
  <2>1. i + 1 \in 1 .. Len(s) /\ Tail(s)[i] = s[i + 1]
    BY HeadTailFacts
  <2>2. QED
    BY <2>1 DEF Elems
<1>3. Head(s) \in Elems(s)
  BY HeadTailFacts DEF Elems
<1>4. QED
  BY <1>1, <1>2, <1>3 DEF Elems

LEMMA ElemsEmpty == Elems(<<>>) = {}
BY DEF Elems

LEMMA ChSizeNat == ChSize \in Nat
BY SizeAssumption DEF ChSize

-----------------------------------------------------------------------------
(* Type correctness. *)
LEMMA TypeInit == Init => TypeOK
<1> SUFFICES ASSUME Init PROVE TypeOK
  OBVIOUS
<1>1. /\ insertCh \in Seq(Record) /\ Len(insertCh) = 0
      /\ batch \in Seq(Record) /\ Len(batch) = 0
      /\ stamped \in [Callers -> 0 .. MaxClock]
  BY BoundAssumption DEF Init
<1>2. executed \in 0 .. Len(batch) /\ Len(batch) < BatchSize
  BY <1>1, SizeAssumption DEF Init
<1>3. /\ clock \in 0 .. MaxClock /\ errors \in 0 .. MaxErrors
      /\ crashes \in 0 .. MaxCrashes
  BY BoundAssumption DEF Init
<1>4. /\ done = FALSE /\ closer = "idle" /\ worker = "select"
      /\ tx = {} /\ rows = {} /\ nextId = 1 /\ dropped = 0
      /\ taken = {} /\ owed = {}
  BY DEF Init
<1>5. /\ tx \subseteq [id : 1 .. nextId - 1, rec : Record]
      /\ rows \subseteq [id : 1 .. nextId - 1, rec : Record]
      /\ nextId \in Nat \ {0} /\ dropped \in Nat
      /\ taken \subseteq Record /\ owed \subseteq taken
  BY <1>4
<1>6. done \in BOOLEAN
  BY <1>4
<1>7. Len(insertCh) <= ChSize
  BY <1>1, ChSizeNat
<1>8. /\ closer \in {"idle", "waiting", "returned"}
      /\ worker \in {"select", "insert", "drain", "drainInsert", "exited"}
      /\ worker # "insert"
  BY <1>4
<1>9. QED
  BY <1>1, <1>2, <1>3, <1>5, <1>6, <1>7, <1>8 DEF TypeOK

LEMMA TypeNext == TypeOK /\ [Next]_vars => TypeOK'
<1> SUFFICES ASSUME TypeOK, [Next]_vars PROVE TypeOK'
  OBVIOUS
<1> USE ChSizeNat, SizeAssumption, BoundAssumption
<1>1. ASSUME NEW c \in Callers, Sample(c) PROVE TypeOK'
  BY <1>1 DEF TypeOK, Sample, Record, queueVars, workerVars, dbVars,
              countVars, histVars
<1>2. ASSUME NEW c \in Callers, InsertAsync(c) PROVE TypeOK'
  <2> DEFINE r == [by |-> c, ts |-> stamped[c]]
  <2>1. r \in Record
    BY <1>2 DEF InsertAsync, TypeOK, Record
  <2>2. CASE Send(r)
    <3>1. insertCh' \in Seq(Record) /\ Len(insertCh') = Len(insertCh) + 1
      BY <2>1, <2>2, AppendFacts DEF Send, TypeOK
    <3>2. QED
      BY <3>1, <2>1, <2>2, <1>2 DEF Send, InsertAsync, TypeOK, workerVars,
              dbVars, countVars, histVars
  <2>3. CASE SeeClosed
    BY <2>3, <1>2 DEF SeeClosed, InsertAsync, TypeOK, workerVars, dbVars,
              countVars, histVars
  <2>4. CASE DropFull
    BY <2>4, <1>2 DEF DropFull, InsertAsync, TypeOK, workerVars, dbVars,
              countVars, histVars
  <2>5. QED
    BY <1>2, <2>2, <2>3, <2>4 DEF InsertAsync
<1>3. ASSUME Receive \/ DrainReceive PROVE TypeOK'
  <2>1. /\ insertCh # <<>>
        /\ batch' = Append(batch, Head(insertCh))
        /\ insertCh' = Tail(insertCh)
        /\ UNCHANGED <<clock, stamped, done, closer, executed, tx, nextId, rows,
                       dropped, errors, crashes, taken, owed>>
    BY <1>3 DEF Receive, DrainReceive, dbVars, countVars, histVars
  <2>2. /\ insertCh \in Seq(Record) /\ batch \in Seq(Record)
        /\ Len(insertCh) <= ChSize /\ executed \in 0 .. Len(batch)
    BY DEF TypeOK
  <2>3. /\ Head(insertCh) \in Record
        /\ insertCh' \in Seq(Record) /\ Len(insertCh') <= ChSize
    BY <2>1, <2>2, HeadTailFacts
  <2>4. /\ batch' \in Seq(Record) /\ Len(batch') = Len(batch) + 1
        /\ executed' \in 0 .. Len(batch')
    BY <2>1, <2>2, <2>3, AppendFacts
  <2>5. /\ worker' \in {"select", "insert", "drain"}
        /\ worker' = "select" => Len(batch') < BatchSize
        /\ worker' = "insert" => Len(batch') <= BatchSize
    <3>1. CASE Receive
      BY <3>1, <2>4, <2>2 DEF Receive, TypeOK
    <3>2. CASE DrainReceive
      BY <3>2 DEF DrainReceive
    <3>3. QED
      BY <1>3, <3>1, <3>2
  <2>6. QED
    BY <2>1, <2>3, <2>4, <2>5 DEF TypeOK
<1>4. ASSUME FlushTick \/ SeeDone \/ DrainEnd PROVE TypeOK'
  <2>1. /\ worker' \in {"insert", "drain", "drainInsert", "exited"}
        /\ worker' = "insert" => Len(batch) <= BatchSize
        /\ UNCHANGED <<clock, stamped, insertCh, done, closer, batch, executed,
                       tx, nextId, rows, dropped, errors, crashes, taken, owed>>
    BY <1>4 DEF FlushTick, SeeDone, DrainEnd, TypeOK, queueVars, dbVars,
              countVars, histVars
  <2>2. QED
    BY <2>1 DEF TypeOK
<1>5. ASSUME CleanupTick \/ CleanupFails PROVE TypeOK'
  <2>1. /\ rows' \subseteq rows /\ errors' \in 0 .. MaxErrors
        /\ UNCHANGED <<clock, stamped, insertCh, done, closer, worker, batch,
                       executed, tx, nextId, dropped, crashes, taken, owed>>
    BY <1>5 DEF CleanupTick, CleanupFails, TypeOK, queueVars, workerVars,
              dbVars, countVars, histVars
  <2>2. QED
    BY <2>1 DEF TypeOK
<1>6. ASSUME ExecRecord PROVE TypeOK'
  <2>1. executed' \in 1 .. Len(batch) /\ batch[executed'] \in Record
    BY <1>6 DEF ExecRecord, TypeOK
  <2>2. QED
    BY <1>6, <2>1 DEF ExecRecord, TypeOK, queueVars, countVars, histVars
<1>7. ASSUME Commit \/ InsertFails \/ CommitAnswerLost PROVE TypeOK'
  <2>1. batch' = <<>> /\ executed' = 0
    BY <1>7 DEF Commit, InsertFails, CommitAnswerLost, EndFlush
  <2>2. /\ worker' \in {"select", "exited"} /\ tx' = {}
        /\ UNCHANGED <<clock, stamped, insertCh, done, closer, nextId, dropped,
                       crashes, taken, owed>>
    BY <1>7 DEF Commit, InsertFails, CommitAnswerLost, EndFlush, queueVars,
              dbVars, countVars, histVars, Inserting
  <2>3. rows' \in {rows, rows \cup tx} /\ errors' \in 0 .. MaxErrors
    BY <1>7 DEF Commit, InsertFails, CommitAnswerLost, dbVars, countVars,
              TypeOK
  <2>4. /\ batch' \in Seq(Record) /\ Len(batch') = 0
        /\ executed' \in 0 .. Len(batch')
    BY <2>1
  <2>5. QED
    BY <2>2, <2>3, <2>4 DEF TypeOK
<1>8. ASSUME CloseBegin \/ CloseReturn PROVE TypeOK'
  BY <1>8 DEF CloseBegin, CloseReturn, TypeOK, workerVars, dbVars, countVars,
              histVars
<1>9. ASSUME Crash PROVE TypeOK'
  <2>1. /\ stamped' \in [Callers -> 0 .. MaxClock]
        /\ crashes' \in 0 .. MaxCrashes
        /\ errors' \in 0 .. MaxErrors
    BY <1>9 DEF Crash, TypeOK
  <2>2. /\ insertCh' \in Seq(Record) /\ Len(insertCh') <= ChSize
        /\ batch' \in Seq(Record) /\ Len(batch') < BatchSize
        /\ executed' \in 0 .. Len(batch')
    BY <1>9 DEF Crash
  <2>3. QED
    BY <1>9, <2>1, <2>2 DEF Crash, TypeOK, dbVars
<1>10. ASSUME UNCHANGED vars PROVE TypeOK'
  BY <1>10 DEF TypeOK, vars, queueVars, workerVars, dbVars, countVars,
              histVars
<1>11. QED
  BY <1>1, <1>2, <1>3, <1>4, <1>5, <1>6, <1>7, <1>8, <1>9, <1>10 DEF Next

(* Every reachable state is well typed: the channel stays within its      *)
(* capacity and the batch of an open store within BatchSize.              *)
THEOREM TypeCorrect == Spec => []TypeOK
<1>1. QED
  BY TypeInit, TypeNext, PTL DEF Spec

-----------------------------------------------------------------------------
(* What the three kinds of step do to the sequences, as sets. *)
LEMMA SendFacts ==
  ASSUME TypeOK, NEW c \in Callers, InsertAsync(c),
         Send([by |-> c, ts |-> stamped[c]])
  PROVE  LET r == [by |-> c, ts |-> stamped[c]]
         IN  /\ r \in Record /\ stamped[c] # 0
             /\ insertCh' \in Seq(Record)
             /\ Len(insertCh') = Len(insertCh) + 1
             /\ insertCh'[Len(insertCh) + 1] = r
             /\ \A i \in 1 .. Len(insertCh) : insertCh'[i] = insertCh[i]
             /\ Elems(insertCh') = Elems(insertCh) \cup {r}
             /\ InMemory' = InMemory \cup {r}
             /\ stamped' = [stamped EXCEPT ![c] = 0]
             /\ taken' = taken \cup {r}
             /\ UNCHANGED <<clock, batch, rows, worker, closer, done, errors>>
<1> DEFINE r == [by |-> c, ts |-> stamped[c]]
<1>1. r \in Record /\ stamped[c] # 0 /\ insertCh \in Seq(Record)
  BY DEF TypeOK, InsertAsync, Record
<1>2. insertCh' = Append(insertCh, r) /\ taken' = taken \cup {r}
  BY DEF Send
<1>3. Elems(insertCh') = Elems(insertCh) \cup {r}
  BY <1>1, <1>2, ElemsAppend
<1>4. /\ stamped' = [stamped EXCEPT ![c] = 0]
      /\ UNCHANGED <<clock, batch, rows, worker, closer, done, errors>>
  BY DEF InsertAsync, workerVars, dbVars
<1>5. InMemory' = InMemory \cup {r}
  BY <1>3, <1>4 DEF InMemory
<1> HIDE DEF r
<1>6. /\ insertCh' \in Seq(Record) /\ Len(insertCh') = Len(insertCh) + 1
      /\ insertCh'[Len(insertCh) + 1] = r
      /\ \A i \in 1 .. Len(insertCh) : insertCh'[i] = insertCh[i]
  BY <1>1, <1>2, AppendFacts
<1> USE DEF r
<1>7. QED
  BY <1>1, <1>2, <1>3, <1>4, <1>5, <1>6

LEMMA ReceiveFacts ==
  ASSUME TypeOK, Receive \/ DrainReceive
  PROVE  /\ insertCh # <<>> /\ Head(insertCh) \in Record
         /\ Head(insertCh) = insertCh[1] /\ Len(insertCh) >= 1
         /\ Len(insertCh') = Len(insertCh) - 1
         /\ \A i \in 1 .. Len(insertCh') : insertCh'[i] = insertCh[i + 1]
         /\ Len(batch') = Len(batch) + 1
         /\ batch'[Len(batch) + 1] = Head(insertCh)
         /\ \A i \in 1 .. Len(batch) : batch'[i] = batch[i]
         /\ Elems(insertCh) = {Head(insertCh)} \cup Elems(insertCh')
         /\ Elems(batch') = Elems(batch) \cup {Head(insertCh)}
         /\ InMemory' = InMemory
         /\ UNCHANGED <<clock, stamped, done, closer, executed, tx, nextId, rows,
                        dropped, errors, crashes, taken, owed>>
<1>1. /\ insertCh # <<>>
      /\ batch' = Append(batch, Head(insertCh))
      /\ insertCh' = Tail(insertCh)
      /\ UNCHANGED <<clock, stamped, done, closer, executed, tx, nextId, rows,
                     dropped, errors, crashes, taken, owed>>
  BY DEF Receive, DrainReceive, dbVars, countVars, histVars
<1>2. insertCh \in Seq(Record) /\ batch \in Seq(Record)
  BY DEF TypeOK
<1>3. /\ Len(insertCh) >= 1 /\ Len(insertCh') = Len(insertCh) - 1
      /\ Head(insertCh) = insertCh[1] /\ Head(insertCh) \in Record
      /\ \A i \in 1 .. Len(insertCh') : insertCh'[i] = insertCh[i + 1]
  BY <1>1, <1>2, HeadTailFacts
<1>4. /\ Len(batch') = Len(batch) + 1
      /\ batch'[Len(batch) + 1] = Head(insertCh)
      /\ \A i \in 1 .. Len(batch) : batch'[i] = batch[i]
  BY <1>1, <1>2, <1>3, AppendFacts
<1>5. /\ Elems(insertCh) = {Head(insertCh)} \cup Elems(insertCh')
      /\ Elems(batch') = Elems(batch) \cup {Head(insertCh)}
  BY <1>1, <1>2, <1>3, ElemsHeadTail, ElemsAppend
<1>6. InMemory' = InMemory
  BY <1>5 DEF InMemory
<1>7. QED
  BY <1>1, <1>3, <1>4, <1>5, <1>6

LEMMA FlushEndFacts ==
  ASSUME Commit \/ InsertFails \/ CommitAnswerLost
  PROVE  /\ Inserting /\ batch' = <<>> /\ executed' = 0 /\ tx' = {}
         /\ Elems(batch') = {} /\ InMemory' = Elems(insertCh)
         /\ worker' = IF worker = "insert" THEN "select" ELSE "exited"
         /\ \/ rows' = rows /\ errors' = errors + 1
            \/ rows' = rows \cup tx /\ executed = Len(batch)
               /\ errors' \in {errors, errors + 1}
         /\ UNCHANGED <<clock, stamped, insertCh, done, closer, nextId, taken,
                        owed>>
<1>1. /\ Inserting /\ batch' = <<>> /\ executed' = 0 /\ tx' = {}
      /\ worker' = IF worker = "insert" THEN "select" ELSE "exited"
      /\ UNCHANGED <<clock, stamped, insertCh, done, closer, nextId, taken, owed>>
  BY DEF Commit, InsertFails, CommitAnswerLost, EndFlush, queueVars, dbVars,
         histVars
<1>2. \/ rows' = rows /\ errors' = errors + 1
      \/ rows' = rows \cup tx /\ executed = Len(batch)
         /\ errors' \in {errors, errors + 1}
  BY DEF Commit, InsertFails, CommitAnswerLost, dbVars, countVars
<1>3. Elems(batch') = {} /\ InMemory' = Elems(insertCh)
  BY <1>1, ElemsEmpty DEF InMemory
<1>4. QED
  BY <1>1, <1>2, <1>3

LEMMA CrashFacts ==
  ASSUME Crash
  PROVE  /\ insertCh' = <<>> /\ batch' = <<>> /\ InMemory' = {}
         /\ Elems(insertCh') = {} /\ Elems(batch') = {}
         /\ worker' = "select" /\ executed' = 0 /\ tx' = {}
         /\ done' = FALSE /\ closer' = "idle" /\ owed' = {}
         /\ stamped' = [c \in Callers |-> 0]
         /\ UNCHANGED <<clock, rows, nextId, taken>>
BY ElemsEmpty DEF Crash, InMemory, dbVars

(* The steps that touch neither a sequence, a row nor a sample. *)
Quiet ==
  FlushTick \/ CleanupFails \/ SeeDone \/ DrainEnd \/ CloseBegin \/ CloseReturn

LEMMA QuietFacts ==
  ASSUME Quiet
  PROVE  UNCHANGED <<clock, stamped, insertCh, batch, executed, tx, nextId,
                     rows, taken, owed, InMemory, Stored>>
BY DEF Quiet, FlushTick, CleanupFails, SeeDone, DrainEnd, CloseBegin,
       CloseReturn, queueVars, workerVars, dbVars, histVars, InMemory, Stored

-----------------------------------------------------------------------------
(* The order of the samples in memory and in the table. *)
LEMMA SendOrder ==
  ASSUME TypeOK, OrderInv, NEW c \in Callers, InsertAsync(c),
         Send([by |-> c, ts |-> stamped[c]])
  PROVE  OrderInv'
<1> DEFINE r == [by |-> c, ts |-> stamped[c]]
<1>1. /\ r \in Record /\ stamped[c] # 0
      /\ Len(insertCh') = Len(insertCh) + 1
      /\ insertCh'[Len(insertCh) + 1] = r
      /\ \A i \in 1 .. Len(insertCh) : insertCh'[i] = insertCh[i]
      /\ Elems(insertCh') = Elems(insertCh) \cup {r}
      /\ InMemory' = InMemory \cup {r}
      /\ taken' = taken \cup {r}
      /\ UNCHANGED <<clock, batch, rows>>
  BY SendFacts
<1>2. \A q \in taken : Older(q, r)
  <2>1. r.by = c /\ r.ts = stamped[c]
    OBVIOUS
  <2>2. QED
    BY <1>1, <2>1 DEF OrderInv, Older
<1>3. InOrder(insertCh')
  <2> SUFFICES ASSUME NEW i \in 1 .. Len(insertCh'), NEW j \in 1 .. Len(insertCh'),
                      i < j
               PROVE  Older(insertCh'[i], insertCh'[j])
    BY DEF InOrder
  <2>0. Len(insertCh) \in Nat
    BY DEF TypeOK
  <2>1. i \in 1 .. Len(insertCh) /\ insertCh'[i] = insertCh[i]
    BY <1>1, <2>0
  <2>2. insertCh[i] \in taken
    BY <2>1 DEF OrderInv, InMemory, Elems
  <2>3. CASE j \in 1 .. Len(insertCh)
    BY <2>1, <2>3, <1>1 DEF OrderInv, InOrder
  <2>4. CASE j = Len(insertCh) + 1
    BY <2>1, <2>2, <2>4, <1>1, <1>2
  <2>5. QED
    BY <1>1, <2>0, <2>3, <2>4
<1>4. \A q \in Elems(batch'), p \in Elems(insertCh') : Older(q, p)
  BY <1>1, <1>2 DEF OrderInv, InMemory
<1>5. \A x \in rows', q \in InMemory' : Older(x.rec, q)
  <2>1. \A x \in rows : x.rec \in taken
    BY DEF OrderInv, Stored
  <2>2. QED
    BY <1>1, <1>2, <2>1 DEF OrderInv
<1>6. stamped' = [stamped EXCEPT ![c] = 0]
  BY SendFacts
<1>7. /\ \A q \in taken' : q.ts <= clock'
      /\ \A q \in taken' : stamped'[q.by] # 0 => q.ts < stamped'[q.by]
      /\ \A d \in Callers : stamped'[d] <= clock'
  <2>1. \A q \in taken' : q \in Record
    BY <1>1 DEF TypeOK
  <2>2. \A d \in Callers : stamped'[d] = IF d = c THEN 0 ELSE stamped[d]
    BY <1>6 DEF TypeOK
  <2>3. \A q \in Record : q.by \in Callers
    BY DEF Record
  <2>4. r.by = c /\ r.ts = stamped[c]
    OBVIOUS
  <2> HIDE DEF r
  <2>5. \A q \in taken' : q.ts <= clock'
    BY <1>1, <2>4 DEF OrderInv
  <2>6. \A q \in taken' : stamped'[q.by] # 0 => q.ts < stamped'[q.by]
    BY <1>1, <2>1, <2>2, <2>3, <2>4 DEF OrderInv
  <2>7. clock' = clock /\ 0 <= clock /\ \A d \in Callers : stamped[d] <= clock
    BY <1>1 DEF OrderInv, TypeOK
  <2>8. \A d \in Callers : stamped'[d] <= clock'
    BY <2>2, <2>7
  <2>9. QED
    BY <2>5, <2>6, <2>8
<1>8. (InMemory \cup Stored)' \subseteq taken'
  BY <1>1 DEF OrderInv, Stored
<1>9. InOrder(batch)'
  BY <1>1 DEF OrderInv, InOrder
<1>10. QED
  BY <1>3, <1>4, <1>5, <1>7, <1>8, <1>9 DEF OrderInv, InOrder

LEMMA ReceiveOrder ==
  ASSUME TypeOK, OrderInv, Receive \/ DrainReceive
  PROVE  OrderInv'
<1> DEFINE h == Head(insertCh)
<1>1. /\ h = insertCh[1] /\ Len(insertCh) >= 1
      /\ Len(insertCh') = Len(insertCh) - 1
      /\ \A i \in 1 .. Len(insertCh') : insertCh'[i] = insertCh[i + 1]
      /\ Len(batch') = Len(batch) + 1
      /\ batch'[Len(batch) + 1] = h
      /\ \A i \in 1 .. Len(batch) : batch'[i] = batch[i]
      /\ Elems(insertCh) = {h} \cup Elems(insertCh')
      /\ Elems(batch') = Elems(batch) \cup {h}
      /\ InMemory' = InMemory
      /\ UNCHANGED <<clock, stamped, rows, taken>>
  BY ReceiveFacts
<1>2. Len(insertCh) \in Nat /\ Len(batch) \in Nat
  BY DEF TypeOK
<1> HIDE DEF h
<1>3. \A i \in 1 .. Len(insertCh') :
        i + 1 \in 1 .. Len(insertCh) /\ insertCh'[i] = insertCh[i + 1]
  BY <1>1, <1>2
<1>4. InOrder(insertCh')
  BY <1>1, <1>2, <1>3 DEF OrderInv, InOrder
<1>5. \A q \in Elems(insertCh') : Older(h, q)
  BY <1>1, <1>2, <1>3 DEF OrderInv, InOrder, Elems
<1>6. InOrder(batch')
  <2> SUFFICES ASSUME NEW i \in 1 .. Len(batch'), NEW j \in 1 .. Len(batch'),
                      i < j
               PROVE  Older(batch'[i], batch'[j])
    BY DEF InOrder
  <2>1. i \in 1 .. Len(batch) /\ batch'[i] = batch[i]
    BY <1>1, <1>2
  <2>2. CASE j \in 1 .. Len(batch)
    BY <2>1, <2>2, <1>1 DEF OrderInv, InOrder
  <2>3. CASE j = Len(batch) + 1
    BY <2>1, <2>3, <1>1 DEF OrderInv, Elems
  <2>4. j \in 1 .. Len(batch) \/ j = Len(batch) + 1
    <3>1. Len(batch') = Len(batch) + 1 /\ Len(batch) \in Nat
      BY <1>1, <1>2
    <3>2. QED
      BY <3>1
  <2>5. QED
    BY <2>2, <2>3, <2>4
<1>7. \A r \in Elems(batch'), q \in Elems(insertCh') : Older(r, q)
  BY <1>1, <1>5 DEF OrderInv
<1>8. QED
  BY <1>1, <1>4, <1>6, <1>7 DEF OrderInv, InOrder, Stored

LEMMA FlushEndOrder ==
  ASSUME TypeOK, OrderInv, TxInv, Commit \/ InsertFails \/ CommitAnswerLost
  PROVE  OrderInv'
<1>1. /\ batch' = <<>> /\ Elems(batch') = {} /\ InMemory' = Elems(insertCh)
      /\ rows' \in {rows, rows \cup tx}
      /\ UNCHANGED <<clock, stamped, insertCh, taken>>
  BY FlushEndFacts
<1>2. \A x \in tx : x.rec \in Elems(batch)
  <2> SUFFICES ASSUME NEW x \in tx PROVE x.rec \in Elems(batch)
    OBVIOUS
  <2>1. PICK i \in 1 .. executed : x.rec = batch[i]
    BY DEF TxInv
  <2>2. i \in 1 .. Len(batch)
    BY DEF TypeOK
  <2>3. QED
    BY <2>1, <2>2 DEF Elems
<1>3. \A x \in rows', q \in InMemory' : Older(x.rec, q)
  BY <1>1, <1>2 DEF OrderInv, InMemory
<1>4. (InMemory \cup Stored)' \subseteq taken'
  BY <1>1, <1>2 DEF OrderInv, InMemory, Stored
<1>5. InOrder(batch')
  BY <1>1 DEF InOrder
<1>6. QED
  BY <1>1, <1>3, <1>4, <1>5 DEF OrderInv, InOrder

LEMMA OrderNext ==
  ASSUME TypeOK, OrderInv, TxInv, [Next]_vars
  PROVE  OrderInv'
<1>1. ASSUME NEW c \in Callers, Sample(c) PROVE OrderInv'
  <2>1. /\ clock \in Nat /\ clock' = clock + 1
        /\ stamped' = [stamped EXCEPT ![c] = clock']
        /\ UNCHANGED <<insertCh, batch, rows, taken, InMemory, Stored>>
    BY <1>1 DEF Sample, TypeOK, queueVars, workerVars, dbVars, histVars,
              InMemory, Stored
  <2>2. \A d \in Callers : stamped'[d] = IF d = c THEN clock' ELSE stamped[d]
    BY <2>1 DEF TypeOK
  <2>3. \A r \in taken : r \in Record /\ r.by \in Callers /\ r.ts \in Nat
    BY DEF TypeOK, Record
  <2>4. /\ \A r \in taken' : r.ts <= clock'
        /\ \A r \in taken' : stamped'[r.by] # 0 => r.ts < stamped'[r.by]
    BY <2>1, <2>2, <2>3 DEF OrderInv
  <2>5. \A d \in Callers : stamped'[d] <= clock'
    BY <2>1, <2>2 DEF OrderInv, TypeOK
  <2>6. QED
    BY <2>1, <2>4, <2>5 DEF OrderInv, InOrder
<1>2. ASSUME NEW c \in Callers, InsertAsync(c) PROVE OrderInv'
  <2>1. CASE Send([by |-> c, ts |-> stamped[c]])
    BY <1>2, <2>1, SendOrder
  <2>2. CASE SeeClosed \/ DropFull
    <3>1. /\ stamped' = [stamped EXCEPT ![c] = 0]
          /\ UNCHANGED <<clock, insertCh, batch, rows, taken, InMemory, Stored>>
      BY <1>2, <2>2 DEF InsertAsync, SeeClosed, DropFull, workerVars, dbVars,
                InMemory, Stored
    <3>2. \A d \in Callers : stamped'[d] = IF d = c THEN 0 ELSE stamped[d]
      BY <3>1 DEF TypeOK
    <3>3. \A r \in taken : r.by \in Callers
      BY DEF TypeOK, Record
    <3>4. \A d \in Callers : stamped'[d] <= clock'
      BY <3>1, <3>2 DEF OrderInv, TypeOK
    <3>5. QED
      BY <3>1, <3>2, <3>3, <3>4 DEF OrderInv, InOrder
  <2>3. QED
    BY <1>2, <2>1, <2>2 DEF InsertAsync
<1>3. ASSUME Receive \/ DrainReceive PROVE OrderInv'
  BY <1>3, ReceiveOrder
<1>4. ASSUME Quiet PROVE OrderInv'
  BY <1>4, QuietFacts DEF OrderInv, InOrder, Elems
<1>5. ASSUME CleanupTick PROVE OrderInv'
  <2>1. /\ rows' \subseteq rows
        /\ UNCHANGED <<clock, stamped, insertCh, batch, taken, InMemory>>
    BY <1>5 DEF CleanupTick, queueVars, workerVars, histVars, InMemory
  <2>2. QED
    BY <2>1 DEF OrderInv, InOrder, Stored, Elems
<1>6. ASSUME ExecRecord PROVE OrderInv'
  <2>1. UNCHANGED <<clock, stamped, insertCh, batch, rows, taken, InMemory,
                    Stored>>
    BY <1>6 DEF ExecRecord, queueVars, histVars, InMemory, Stored
  <2>2. QED
    BY <2>1 DEF OrderInv, InOrder, Elems
<1>7. ASSUME Commit \/ InsertFails \/ CommitAnswerLost PROVE OrderInv'
  BY <1>7, FlushEndOrder
<1>8. ASSUME Crash PROVE OrderInv'
  <2>1. /\ insertCh' = <<>> /\ batch' = <<>> /\ InMemory' = {}
        /\ Elems(insertCh') = {} /\ Elems(batch') = {}
        /\ stamped' = [c \in Callers |-> 0]
        /\ UNCHANGED <<clock, rows, taken, Stored>>
    BY <1>8, CrashFacts DEF Stored
  <2>2. \A c \in Callers : stamped'[c] = 0 /\ 0 <= clock
    BY <2>1 DEF TypeOK
  <2>3. \A r \in taken : r.by \in Callers
    BY DEF TypeOK, Record
  <2>4. InOrder(<<>>)
    BY DEF InOrder
  <2>5. QED
    BY <2>1, <2>2, <2>3, <2>4 DEF OrderInv, InOrder
<1>9. ASSUME UNCHANGED vars PROVE OrderInv'
  <2>1. UNCHANGED <<clock, stamped, insertCh, batch, rows, taken, InMemory,
                    Stored>>
    BY <1>9 DEF vars, queueVars, workerVars, dbVars, histVars, InMemory, Stored
  <2>2. QED
    BY <2>1 DEF OrderInv, InOrder, Elems
<1>10. QED
  BY <1>1, <1>2, <1>3, <1>4, <1>5, <1>6, <1>7, <1>8, <1>9 DEF Next, Quiet

-----------------------------------------------------------------------------
(* The open transaction. *)
LEMMA TxInBatch ==
  ASSUME TypeOK, TxInv
  PROVE  /\ \A x \in tx : x.rec \in Elems(batch)
         /\ ~Inserting => tx = {}
         /\ executed = Len(batch) => Elems(batch) = {x.rec : x \in tx}
<1>1. 1 .. executed \subseteq 1 .. Len(batch)
  BY DEF TypeOK
<1>2. \A x \in tx : x.rec \in Elems(batch)
  BY <1>1 DEF TxInv, Elems
<1>3. ~Inserting => tx = {}
  BY DEF TxInv
<1>4. ASSUME executed = Len(batch)
      PROVE  Elems(batch) = {x.rec : x \in tx}
  BY <1>2, <1>4 DEF TxInv, Elems
<1>5. QED
  BY <1>2, <1>3, <1>4

LEMMA ExecTx ==
  ASSUME TypeOK, OrderInv, TxInv, ExecRecord
  PROVE  TxInv'
<1> DEFINE e == [id |-> nextId, rec |-> batch[executed + 1]]
<1>1. /\ Inserting /\ executed < Len(batch)
      /\ executed' = executed + 1 /\ tx' = tx \cup {e}
      /\ UNCHANGED <<batch, rows, worker>>
  BY DEF ExecRecord
<1>2. /\ executed \in Nat /\ executed + 1 \in 1 .. Len(batch)
      /\ \A i \in 1 .. executed : i \in 1 .. Len(batch) /\ i < executed + 1
      /\ \A i \in 1 .. executed' : i \in 1 .. executed \/ i = executed + 1
      /\ \A i \in 1 .. executed : i \in 1 .. executed'
      /\ executed + 1 \in 1 .. executed'
  BY <1>1 DEF TypeOK
<1>3. e.id = nextId /\ e.rec = batch[executed + 1] /\ nextId \in Nat
  BY DEF TypeOK
<1> HIDE DEF e
<1>4. \A x \in tx \cup rows : x.id \in Nat /\ x.id < e.id /\ x.rec \in Record
  BY <1>3 DEF TypeOK
<1>5. \A x \in tx : Older(x.rec, e.rec)
  <2> SUFFICES ASSUME NEW x \in tx PROVE Older(x.rec, e.rec)
    OBVIOUS
  <2>1. PICK i \in 1 .. executed : x.rec = batch[i]
    BY DEF TxInv
  <2>2. QED
    BY <1>2, <1>3, <2>1 DEF OrderInv, InOrder
<1>6. e.rec \in Record
  BY <1>2, <1>3 DEF TypeOK
<1>7. \A x \in tx : x.rec # e.rec
                  /\ ~(x.rec.by = e.rec.by /\ e.rec.ts < x.rec.ts)
  BY <1>4, <1>5, <1>6 DEF Older, Record
<1>8. \A i \in 1 .. executed' : \E x \in tx' : x.rec = batch'[i]
  BY <1>1, <1>2, <1>3 DEF TxInv
<1>9. \A x \in tx' : \E i \in 1 .. executed' : x.rec = batch'[i]
  BY <1>1, <1>2, <1>3 DEF TxInv
<1>10. \A x, y \in tx' : x.rec = y.rec => x = y
  BY <1>1, <1>7 DEF TxInv
<1>11. \A x, y \in tx' :
         x.rec.by = y.rec.by /\ x.rec.ts < y.rec.ts => x.id < y.id
  <2>1. e.rec.ts \in Nat /\ ~(e.rec.ts < e.rec.ts)
    BY <1>6 DEF Record
  <2>2. QED
    BY <1>1, <1>4, <1>7, <2>1 DEF TxInv
<1>12. \A x \in rows', y \in tx' : x.id < y.id
  BY <1>1, <1>4 DEF TxInv
<1>13. Inserting' /\ batch' # <<>>
  BY <1>1 DEF Inserting, TxInv
<1>14. QED
  BY <1>8, <1>9, <1>10, <1>11, <1>12, <1>13 DEF TxInv

LEMMA TxNext ==
  ASSUME TypeOK, OrderInv, TxInv, [Next]_vars
  PROVE  TxInv'
<1>1. ASSUME NEW c \in Callers, Sample(c) \/ InsertAsync(c) PROVE TxInv'
  <2>1. UNCHANGED <<worker, batch, executed, tx, rows>>
    BY <1>1 DEF Sample, InsertAsync, workerVars, dbVars
  <2>2. QED
    BY <2>1 DEF TxInv, Inserting
<1>2. ASSUME Receive \/ DrainReceive PROVE TxInv'
  <2>1. ~Inserting
    BY <1>2 DEF Receive, DrainReceive, Inserting
  <2>2. tx' = {} /\ executed' = 0
    BY <1>2, <2>1, TxInBatch, ReceiveFacts DEF TxInv
  <2>3. batch' # <<>>
    <3>1. Len(batch') = Len(batch) + 1 /\ Len(batch) \in Nat
      BY <1>2, ReceiveFacts DEF TypeOK
    <3>2. QED
      BY <3>1
  <2>4. QED
    BY <2>2, <2>3 DEF TxInv
<1>3. ASSUME Quiet PROVE TxInv'
  <2>1. UNCHANGED <<batch, executed, tx, rows>>
    BY <1>3, QuietFacts
  <2>2. /\ Inserting => Inserting'
        /\ Inserting' => batch # <<>>
    BY <1>3 DEF Quiet, FlushTick, CleanupFails, SeeDone, DrainEnd, CloseBegin,
              CloseReturn, Inserting, TxInv, workerVars
  <2>3. QED
    BY <2>1, <2>2 DEF TxInv
<1>4. ASSUME CleanupTick PROVE TxInv'
  <2>1. rows' \subseteq rows /\ UNCHANGED <<worker, batch, executed, tx>>
    BY <1>4 DEF CleanupTick, workerVars
  <2>2. QED
    BY <2>1 DEF TxInv, Inserting
<1>5. ASSUME ExecRecord PROVE TxInv'
  BY <1>5, ExecTx
<1>6. ASSUME Commit \/ InsertFails \/ CommitAnswerLost PROVE TxInv'
  <2>1. tx' = {} /\ executed' = 0 /\ ~Inserting'
    BY <1>6, FlushEndFacts DEF Inserting
  <2>2. QED
    BY <2>1 DEF TxInv
<1>7. ASSUME Crash PROVE TxInv'
  <2>1. tx' = {} /\ executed' = 0 /\ ~Inserting'
    BY <1>7, CrashFacts DEF Inserting
  <2>2. QED
    BY <2>1 DEF TxInv
<1>8. ASSUME UNCHANGED vars PROVE TxInv'
  <2>1. UNCHANGED <<worker, batch, executed, tx, rows>>
    BY <1>8 DEF vars, workerVars, dbVars
  <2>2. QED
    BY <2>1 DEF TxInv, Inserting
<1>9. QED
  BY <1>1, <1>2, <1>3, <1>4, <1>5, <1>6, <1>7, <1>8 DEF Next, Quiet

-----------------------------------------------------------------------------
(* A commit adds rows newer than those of the table. *)
LEMMA RowsNext ==
  ASSUME TypeOK, OrderInv, TxInv, StoredOnce, CallerOrderKept, [Next]_vars
  PROVE  StoredOnce' /\ CallerOrderKept'
<1>1. ASSUME rows' \subseteq rows PROVE StoredOnce' /\ CallerOrderKept'
  BY <1>1 DEF StoredOnce, CallerOrderKept
<1>2. ASSUME rows' = rows \cup tx PROVE StoredOnce' /\ CallerOrderKept'
  <2>1. \A x \in rows, y \in tx : Older(x.rec, y.rec) /\ x.id < y.id
    BY TxInBatch DEF OrderInv, TxInv, InMemory
  <2>2. \A x \in rows \cup tx : x.rec.ts \in Nat
    BY DEF TypeOK, Record
  <2>3. \A x \in rows, y \in tx :
          x.rec # y.rec /\ ~(x.rec.by = y.rec.by /\ y.rec.ts < x.rec.ts)
    BY <2>1, <2>2 DEF Older
  <2>4. StoredOnce'
    BY <1>2, <2>3 DEF StoredOnce, TxInv
  <2>5. CallerOrderKept'
    BY <1>2, <2>1, <2>3 DEF CallerOrderKept, TxInv
  <2>6. QED
    BY <2>4, <2>5
<1>3. rows' \subseteq rows \/ rows' = rows \cup tx
  BY DEF Next, Sample, InsertAsync, Receive, FlushTick, CleanupTick,
         CleanupFails, SeeDone, DrainReceive, DrainEnd, ExecRecord, Commit,
         InsertFails, CommitAnswerLost, CloseBegin, CloseReturn, Crash, vars,
         dbVars
<1>4. QED
  BY <1>1, <1>2, <1>3

-----------------------------------------------------------------------------
(* What the store owes to its callers. *)
Kept(r) == r \in InMemory \/ r \in Stored \/ Expired(r)

LEMMA OwedNext ==
  ASSUME TypeOK, OrderInv, TxInv, OwedInv, [Next]_vars
  PROVE  OwedInv'
<1> USE DEF Kept
<1>1. ASSUME NEW c \in Callers, Sample(c) PROVE OwedInv'
  <2>1. /\ clock' = clock + 1 /\ clock \in Nat /\ Retention \in Nat
        /\ UNCHANGED <<insertCh, done, closer, worker, batch, errors, owed,
                       InMemory, Stored>>
    BY <1>1, BoundAssumption DEF Sample, TypeOK, queueVars, workerVars, dbVars,
              countVars, histVars, InMemory, Stored
  <2>2. \A r \in owed : r.ts \in Nat
    BY DEF TypeOK, Record
  <2>3. \A r \in owed : Expired(r) => Expired(r)'
    BY <2>1, <2>2 DEF Expired
  <2>4. QED
    BY <2>1, <2>3 DEF OwedInv, Elems
<1>2. ASSUME NEW c \in Callers, InsertAsync(c) PROVE OwedInv'
  <2> DEFINE r == [by |-> c, ts |-> stamped[c]]
  <2>0. UNCHANGED <<clock, done, closer, worker, batch, rows, errors, Stored>>
    BY <1>2 DEF InsertAsync, workerVars, dbVars, Stored
  <2>1. CASE Send(r)
    <3>1. /\ Elems(insertCh') = Elems(insertCh) \cup {r}
          /\ InMemory' = InMemory \cup {r}
      BY <1>2, <2>1, SendFacts
    <3>2. owed' = IF done THEN owed ELSE owed \cup {r}
      BY <2>1 DEF Send
    <3>3. r \notin owed
      <4>1. stamped[c] # 0 /\ stamped[c] \in Nat
        BY <1>2 DEF InsertAsync, TypeOK
      <4>2. r \notin taken
        BY <4>1 DEF OrderInv
      <4>3. QED
        BY <4>2 DEF TypeOK
    <3> HIDE DEF r
    <3>4. errors' = 0 => \A q \in owed' : Kept(q)'
      BY <2>0, <3>1, <3>2 DEF OwedInv, Expired
    <3>5. done => \A q \in Elems(insertCh) : q \notin owed
                                            => q \notin owed'
      BY <3>2
    <3>6. QED
      BY <2>0, <3>1, <3>2, <3>3, <3>4 DEF OwedInv
  <2>2. CASE SeeClosed \/ DropFull
    <3>1. UNCHANGED <<insertCh, owed, InMemory>>
      BY <2>0, <2>2 DEF SeeClosed, DropFull, InMemory
    <3>2. QED
      BY <2>0, <3>1 DEF OwedInv, Elems, Expired
  <2>3. QED
    BY <1>2, <2>1, <2>2 DEF InsertAsync
<1>3. ASSUME Receive \/ DrainReceive PROVE OwedInv'
  <2>1. /\ InMemory' = InMemory
        /\ UNCHANGED <<clock, done, closer, rows, errors, owed, Stored>>
    BY <1>3, ReceiveFacts DEF Stored
  <2>2. worker' \in {"select", "insert", "drain"} /\ worker # "exited"
    BY <1>3 DEF Receive, DrainReceive
  <2>3. worker' = "drain" => done
    BY <1>3 DEF Receive, DrainReceive, OwedInv
  <2>4. QED
    BY <2>1, <2>2, <2>3 DEF OwedInv, Expired
<1>4. ASSUME Quiet PROVE OwedInv'
  <2>1. UNCHANGED <<clock, insertCh, batch, owed, InMemory, Stored>>
    BY <1>4, QuietFacts
  <2>2. /\ errors' = 0 => errors = 0
        /\ done => done'
        /\ closer' = "returned" => worker' = "exited"
        /\ worker' \in {"drain", "drainInsert", "exited"} => done'
        /\ worker' = "drainInsert" => worker = "drainInsert" \/ insertCh = <<>>
        /\ worker' = "exited" =>
             batch = <<>> /\ (worker = "exited" \/ insertCh = <<>>)
    BY <1>4 DEF Quiet, FlushTick, CleanupFails, SeeDone, DrainEnd, CloseBegin,
              CloseReturn, OwedInv, TypeOK, queueVars, workerVars, countVars
  <2>3. insertCh = <<>> => Elems(insertCh) = {}
    BY ElemsEmpty
  <2>4. QED
    BY <2>1, <2>2, <2>3 DEF OwedInv, Elems, Expired
<1>5. ASSUME CleanupTick PROVE OwedInv'
  <2>1. /\ UNCHANGED <<clock, insertCh, done, closer, worker, batch, errors,
                       owed, InMemory>>
        /\ Retention > 0
        /\ rows' = {x \in rows : x.rec.ts + Retention >= clock}
    BY <1>5 DEF CleanupTick, queueVars, workerVars, countVars, histVars,
              InMemory
  <2>2. \A r \in Stored : r \in Stored' \/ Expired(r)'
    <3>1. \A x \in rows : x.rec.ts \in Nat
      BY DEF TypeOK, Record
    <3>2. clock \in Nat /\ Retention \in Nat
      BY BoundAssumption DEF TypeOK
    <3>3. QED
      BY <2>1, <3>1, <3>2 DEF Stored, Expired
  <2>3. \A r \in owed : Kept(r) => Kept(r)'
    BY <2>1, <2>2 DEF Expired
  <2>4. QED
    BY <2>1, <2>3 DEF OwedInv, Elems
<1>6. ASSUME ExecRecord PROVE OwedInv'
  <2>1. UNCHANGED <<clock, insertCh, done, closer, worker, batch, errors, owed,
                    InMemory, Stored>>
    BY <1>6 DEF ExecRecord, queueVars, countVars, histVars, InMemory, Stored
  <2>2. QED
    BY <2>1 DEF OwedInv, Elems, Expired
<1>7. ASSUME Commit \/ InsertFails \/ CommitAnswerLost PROVE OwedInv'
  <2>1. /\ Inserting /\ batch' = <<>> /\ InMemory' = Elems(insertCh)
        /\ worker' = IF worker = "insert" THEN "select" ELSE "exited"
        /\ errors' \in {errors, errors + 1} /\ errors \in Nat
        /\ errors' = 0 => executed = Len(batch) /\ rows' = rows \cup tx
        /\ UNCHANGED <<clock, insertCh, done, closer, owed>>
    BY <1>7, FlushEndFacts DEF TypeOK
  <2>2. errors' = 0 => errors = 0 /\ Stored' = Stored \cup Elems(batch)
    BY <2>1, TxInBatch DEF Stored
  <2>3. errors' = 0 => \A r \in owed' : Kept(r)'
    BY <2>1, <2>2 DEF OwedInv, InMemory, Expired
  <2>4. worker' = "exited" =>
          done' /\ batch' = <<>> /\ \A r \in Elems(insertCh') : r \notin owed'
    BY <2>1 DEF OwedInv, Inserting, Elems
  <2>5. /\ worker' \notin {"drain", "drainInsert"}
        /\ closer' = "returned" => worker' = "exited"
    BY <2>1 DEF OwedInv, Inserting
  <2>6. QED
    BY <2>3, <2>4, <2>5 DEF OwedInv
<1>8. ASSUME Crash PROVE OwedInv'
  BY <1>8, CrashFacts DEF OwedInv
<1>9. ASSUME UNCHANGED vars PROVE OwedInv'
  <2>1. UNCHANGED <<clock, insertCh, done, closer, worker, batch, errors, owed,
                    InMemory, Stored>>
    BY <1>9 DEF vars, queueVars, workerVars, dbVars, countVars, histVars,
              InMemory, Stored
  <2>2. QED
    BY <2>1 DEF OwedInv, Elems, Expired
<1>10. QED
  BY <1>1, <1>2, <1>3, <1>4, <1>5, <1>6, <1>7, <1>8, <1>9 DEF Next, Quiet

-----------------------------------------------------------------------------
LEMMA IInvInit == Init => IInv
<1> SUFFICES ASSUME Init PROVE IInv
  OBVIOUS
<1>1. /\ insertCh = <<>> /\ batch = <<>> /\ Elems(<<>>) = {}
      /\ tx = {} /\ rows = {} /\ taken = {} /\ owed = {} /\ executed = 0
      /\ worker = "select" /\ closer = "idle" /\ clock = 0
      /\ \A c \in Callers : stamped[c] = 0
  BY ElemsEmpty DEF Init
<1>2. InMemory = {} /\ Stored = {} /\ InOrder(<<>>)
  BY <1>1 DEF InMemory, Stored, InOrder
<1>3. OrderInv
  BY <1>1, <1>2 DEF OrderInv
<1>4. TxInv
  BY <1>1 DEF TxInv, Inserting
<1>5. OwedInv
  BY <1>1 DEF OwedInv
<1>6. StoredOnce /\ CallerOrderKept
  BY <1>1 DEF StoredOnce, CallerOrderKept
<1>7. QED
  BY <1>3, <1>4, <1>5, <1>6 DEF IInv

LEMMA IInvNext == TypeOK /\ IInv /\ [Next]_vars => IInv'
BY OrderNext, TxNext, RowsNext, OwedNext DEF IInv

LEMMA Invariance == Spec => [](TypeOK /\ IInv)
<1>1. Init => TypeOK /\ IInv
  BY TypeInit, IInvInit
<1>2. TypeOK /\ IInv /\ [Next]_vars => (TypeOK /\ IInv)'
  BY TypeNext, IInvNext
<1>3. QED
  BY <1>1, <1>2, PTL DEF Spec

(* No sample is ever in two rows of the results table, whatever database  *)
(* calls fail or go unanswered, whenever the store is closed and however  *)
(* often the process is killed.                                            *)
THEOREM NeverStoredTwice == Spec => []StoredOnce
<1>1. IInv => StoredOnce
  BY DEF IInv
<1>2. QED
  BY <1>1, Invariance, PTL

(* The table holds every probe's samples in the order they were taken. *)
THEOREM StoredInOrder == Spec => []CallerOrderKept
<1>1. IInv => CallerOrderKept
  BY DEF IInv
<1>2. QED
  BY <1>1, Invariance, PTL

(* A Close that returns without a database error has stored every record  *)
(* that InsertAsync accepted before it began.                              *)
THEOREM CloseLosesNothing == Spec => []CloseKeepsAccepted
<1>1. OwedInv => CloseKeepsAccepted
  <2> SUFFICES ASSUME OwedInv, closer = "returned", errors = 0, NEW r \in owed
               PROVE  r \in Stored \/ Expired(r)
    BY DEF CloseKeepsAccepted
  <2>1. batch = <<>> /\ r \notin Elems(insertCh)
    BY DEF OwedInv
  <2>2. r \notin InMemory
    BY <2>1, ElemsEmpty DEF InMemory
  <2>3. QED
    BY <2>2 DEF OwedInv
<1>2. QED
  BY <1>1, Invariance, PTL DEF IInv

-----------------------------------------------------------------------------
(* Every step of the store is a step of ResultLog or a stuttering step. *)
LogStep == [Log!Next]_<<clock, taken, taken \ InMemory, Stored>>

LEMMA StutterStep ==
  ASSUME UNCHANGED <<clock, taken, InMemory, Stored>>
  PROVE  LogStep
BY DEF LogStep

LEMMA AcceptStep ==
  ASSUME TypeOK, OrderInv, NEW c \in Callers, InsertAsync(c),
         Send([by |-> c, ts |-> stamped[c]])
  PROVE  LogStep
<1> DEFINE r == [by |-> c, ts |-> stamped[c]]
<1>1. /\ r \in Record /\ stamped[c] # 0
      /\ InMemory' = InMemory \cup {r} /\ taken' = taken \cup {r}
      /\ UNCHANGED <<clock, rows>>
  BY SendFacts
<1>2. r.by = c /\ r.ts = stamped[c] /\ r.ts \in Nat
  BY DEF TypeOK
<1> HIDE DEF r
<1>3. /\ r.ts <= clock
      /\ \A q \in taken : q.by = r.by => q.ts < r.ts
  BY <1>1, <1>2 DEF OrderInv
<1>4. r \notin taken
  BY <1>2, <1>3
<1>5. taken' \ InMemory' = taken \ InMemory /\ Stored' = Stored
  BY <1>1, <1>4 DEF Stored
<1>6. Log!Accept(r)
  BY <1>1, <1>3, <1>5 DEF Log!Accept
<1>7. r \in Log!Record
  BY <1>1 DEF Record, Log!Record
<1>8. QED
  BY <1>6, <1>7 DEF LogStep, Log!Next

LEMMA SettleStep ==
  ASSUME NEW S, S # {}, S \subseteq InMemory, InMemory \subseteq taken,
         \A r \in S, q \in InMemory \ S : r.by = q.by => r.ts < q.ts,
         InMemory' = InMemory \ S, Stored' \in {Stored, Stored \cup S},
         UNCHANGED <<clock, taken>>
  PROVE  LogStep
<1>1. taken \ (taken \ InMemory) = InMemory
  OBVIOUS
<1>2. (taken \ InMemory)' = (taken \ InMemory) \cup S
  OBVIOUS
<1>3. \A r \in S, q \in InMemory \ S : q.by = r.by => r.ts < q.ts
  OBVIOUS
<1>4. Log!Settle(S)
  BY <1>1, <1>2, <1>3 DEF Log!Settle
<1>5. S \in SUBSET (taken \ (taken \ InMemory))
  BY <1>1
<1>6. QED
  BY <1>4, <1>5 DEF LogStep, Log!Next

LEMMA FlushEndStep ==
  ASSUME TypeOK, OrderInv, TxInv, Commit \/ InsertFails \/ CommitAnswerLost
  PROVE  LogStep
<1> DEFINE S == Elems(batch)
<1>1. /\ Inserting /\ InMemory' = Elems(insertCh)
      /\ rows' = rows \/ (rows' = rows \cup tx /\ executed = Len(batch))
      /\ UNCHANGED <<clock, taken>>
  BY FlushEndFacts
<1>2. Stored' \in {Stored, Stored \cup S}
  BY <1>1, TxInBatch DEF Stored
<1>3. S # {}
  <2>1. batch # <<>> /\ batch \in Seq(Record)
    BY <1>1 DEF TxInv, TypeOK
  <2>2. 1 \in 1 .. Len(batch)
    BY <2>1, HeadTailFacts
  <2>3. QED
    BY <2>2 DEF Elems
<1>4. S \cap Elems(insertCh) = {}
  <2>1. \A r \in S, q \in Elems(insertCh) : Older(r, q)
    BY DEF OrderInv
  <2>2. \A r \in S : r.ts \in Nat
    BY DEF TypeOK, OrderInv, InMemory, Record
  <2>3. QED
    BY <2>1, <2>2 DEF Older
<1>5. S \subseteq InMemory /\ InMemory' = InMemory \ S
  BY <1>1, <1>4 DEF InMemory
<1>6. \A r \in S, q \in InMemory \ S : r.by = q.by => r.ts < q.ts
  BY DEF OrderInv, InMemory, Older
<1>7. InMemory \subseteq taken
  BY DEF OrderInv
<1> HIDE DEF S
<1>8. QED
  BY <1>1, <1>2, <1>3, <1>5, <1>6, <1>7, SettleStep

LEMMA NextLog ==
  ASSUME TypeOK, OrderInv, TxInv, [Next]_vars
  PROVE  LogStep
<1>1. ASSUME NEW c \in Callers, Sample(c) PROVE LogStep
  <2>1. clock' = clock + 1 /\ UNCHANGED <<taken, taken \ InMemory, Stored>>
    BY <1>1 DEF Sample, queueVars, workerVars, dbVars, histVars, InMemory,
              Stored
  <2>2. QED
    BY <2>1 DEF LogStep, Log!Next, Log!Tick
<1>2. ASSUME NEW c \in Callers, InsertAsync(c) PROVE LogStep
  <2>1. CASE Send([by |-> c, ts |-> stamped[c]])
    BY <1>2, <2>1, AcceptStep
  <2>2. CASE SeeClosed \/ DropFull
    <3>1. UNCHANGED <<clock, taken, InMemory, Stored>>
      BY <1>2, <2>2 DEF InsertAsync, SeeClosed, DropFull, workerVars, dbVars,
                InMemory, Stored
    <3>2. QED
      BY <3>1, StutterStep
  <2>3. QED
    BY <1>2, <2>1, <2>2 DEF InsertAsync
<1>3. ASSUME Receive \/ DrainReceive PROVE LogStep
  <2>1. UNCHANGED <<clock, taken, InMemory, Stored>>
    BY <1>3, ReceiveFacts DEF Stored
  <2>2. QED
    BY <2>1, StutterStep
<1>4. ASSUME Quiet PROVE LogStep
  BY <1>4, QuietFacts, StutterStep
<1>5. ASSUME CleanupTick PROVE LogStep
  <2>1. /\ Retention > 0
        /\ rows' = {x \in rows : x.rec.ts + Retention >= clock}
        /\ UNCHANGED <<clock, taken, taken \ InMemory>>
    BY <1>5 DEF CleanupTick, queueVars, workerVars, histVars, InMemory
  <2>2. Stored' = {r \in Stored : r.ts + Retention >= clock}
    BY <2>1 DEF Stored
  <2>3. QED
    BY <2>1, <2>2 DEF LogStep, Log!Next, Log!Expire
<1>6. ASSUME ExecRecord PROVE LogStep
  <2>1. UNCHANGED <<clock, taken, InMemory, Stored>>
    BY <1>6 DEF ExecRecord, queueVars, histVars, InMemory, Stored
  <2>2. QED
    BY <2>1, StutterStep
<1>7. ASSUME Commit \/ InsertFails \/ CommitAnswerLost PROVE LogStep
  BY <1>7, FlushEndStep
<1>8. ASSUME Crash PROVE LogStep
  <2>1. InMemory' = {} /\ UNCHANGED <<clock, taken, Stored>>
    BY <1>8, CrashFacts DEF Stored
  <2>2. CASE InMemory = {}
    BY <2>1, <2>2, StutterStep
  <2>3. CASE InMemory # {}
    <3>1. InMemory \subseteq taken
      BY DEF OrderInv
    <3>2. QED
      BY <2>1, <2>3, <3>1, SettleStep
  <2>4. QED
    BY <2>2, <2>3
<1>9. ASSUME UNCHANGED vars PROVE LogStep
  <2>1. UNCHANGED <<clock, taken, InMemory, Stored>>
    BY <1>9 DEF vars, queueVars, workerVars, dbVars, histVars, InMemory, Stored
  <2>2. QED
    BY <2>1, StutterStep
<1>10. QED
  BY <1>1, <1>2, <1>3, <1>4, <1>5, <1>6, <1>7, <1>8, <1>9 DEF Next, Quiet

(* The store keeps the promise of ResultLog: each accepted record settled *)
(* once, each probe's oldest first, a batch whole or not at all, and only *)
(* expired rows deleted.                                                   *)
THEOREM StoreImplementsLog == Spec => Implements
<1>1. Init => Log!Init
  <2> SUFFICES ASSUME Init PROVE Log!Init
    OBVIOUS
  <2>1. clock = 0 /\ taken = {} /\ rows = {}
    BY DEF Init
  <2>2. Stored = {} /\ taken \ InMemory = {}
    BY <2>1 DEF Stored
  <2>3. QED
    BY <2>1, <2>2 DEF Log!Init
<1>2. TypeOK /\ IInv /\ [Next]_vars => [Log!Next]_(Log!vars)
  BY NextLog DEF IInv, LogStep, Log!vars
<1>3. QED
  BY <1>1, <1>2, Invariance, PTL DEF Spec, Implements, Log!Spec
=============================================================================
