---------------------------- MODULE ResultStore ----------------------------
(***************************************************************************)
(* The asynchronous result store of internal/store/store.go: probe        *)
(* handlers hand samples to InsertAsync, a bounded channel carries them   *)
(* to one worker goroutine, the worker gathers them in a batch that one   *)
(* SQL transaction inserts, deletes rows past the retention, and drains   *)
(* the channel when Close closes `done`.  The process may be killed at    *)
(* any moment; the next one starts with an empty channel and batch.       *)
(*                                                                         *)
(* Time is the order of the samples: a record's timestamp is the value of *)
(* `clock` when its handler read it.  No two records are the same.        *)
(***************************************************************************)
EXTENDS Naturals, Sequences

CONSTANTS
  Callers,      \* probe runs; each produces its samples one after another
  BatchSize,    \* Config.BatchSize
  QueueFactor,  \* channel capacity in batches, 4 in the code
  MinQueue,     \* least channel capacity, 512 in the code
  Retention,    \* Config.Retention, 0 disables the cleanup
  MaxClock,     \* bound: samples taken in a behaviour
  MaxErrors,    \* bound: failed database calls per process
  MaxCrashes    \* bound: times the process is killed

ASSUME SizeAssumption ==
  /\ BatchSize \in Nat \ {0}
  /\ QueueFactor \in Nat \ {0}
  /\ MinQueue \in Nat
ASSUME BoundAssumption ==
  /\ Retention \in Nat
  /\ MaxClock \in Nat
  /\ MaxErrors \in Nat
  /\ MaxCrashes \in Nat

(* make(chan ResultRecord, chSize) *)
ChSize == IF QueueFactor * BatchSize < MinQueue
            THEN MinQueue ELSE QueueFactor * BatchSize

Record == [by : Callers, ts : 1 .. MaxClock]

VARIABLES
  clock,     \* latest timestamp handed out
  stamped,   \* the timestamp of the sample a handler holds, 0: none
  insertCh,  \* Store.insertCh
  done,      \* Store.done is closed
  closer,    \* the call of Close: "idle", "waiting" (wg.Wait), "returned"
  worker,    \* where the worker is
  batch,     \* the worker's batch
  executed,  \* statements of the open transaction that succeeded
  tx,        \* rows of the open transaction, not yet visible
  nextId,    \* the results table's identity column
  rows,      \* committed rows of the results table
  dropped,   \* Store.dropped
  errors,    \* Store.errors
  crashes,   \* times the process was killed
  taken,     \* history: every record the channel ever accepted
  owed       \* history: those this process accepted before Close began

queueVars == <<insertCh, done, closer>>
workerVars == <<worker, batch, executed, tx>>
dbVars == <<nextId, rows>>
countVars == <<dropped, errors, crashes>>
histVars == <<taken, owed>>
vars == <<clock, stamped, queueVars, workerVars, dbVars, countVars, histVars>>

Elems(s) == {s[i] : i \in 1 .. Len(s)}
Stored == {x.rec : x \in rows}
InMemory == Elems(insertCh) \cup Elems(batch)
Expired(r) == Retention > 0 /\ r.ts + Retention < clock

Init ==
  /\ clock = 0
  /\ stamped = [c \in Callers |-> 0]
  /\ insertCh = <<>> /\ done = FALSE /\ closer = "idle"
  /\ worker = "select" /\ batch = <<>> /\ executed = 0 /\ tx = {}
  /\ nextId = 1 /\ rows = {}
  /\ dropped = 0 /\ errors = 0 /\ crashes = 0
  /\ taken = {} /\ owed = {}

-----------------------------------------------------------------------------
(* A probe handler receives a sample and reads the time for storeResult. *)
Sample(c) ==
  /\ stamped[c] = 0
  /\ clock < MaxClock
  /\ clock' = clock + 1
  /\ stamped' = [stamped EXCEPT ![c] = clock']
  /\ UNCHANGED <<queueVars, workerVars, dbVars, countVars, histVars>>

(* The select of InsertAsync.  With room in the channel and `done` closed *)
(* both cases are ready and either may be chosen; the default case, which *)
(* drops the record, only when neither is.                                *)
Send(r) ==
  /\ Len(insertCh) < ChSize
  /\ insertCh' = Append(insertCh, r)
  /\ taken' = taken \cup {r}
  /\ owed' = IF done THEN owed ELSE owed \cup {r}
  /\ UNCHANGED dropped

SeeClosed ==
  /\ done
  /\ UNCHANGED <<insertCh, dropped, taken, owed>>

DropFull ==
  /\ Len(insertCh) = ChSize
  /\ ~done
  /\ dropped' = dropped + 1
  /\ UNCHANGED <<insertCh, taken, owed>>

InsertAsync(c) ==
  /\ stamped[c] # 0
  /\ stamped' = [stamped EXCEPT ![c] = 0]
  /\ \/ Send([by |-> c, ts |-> stamped[c]])
     \/ SeeClosed
     \/ DropFull
  /\ UNCHANGED <<clock, done, closer, workerVars, dbVars, errors, crashes>>

-----------------------------------------------------------------------------
(* The worker's select.  A batch of BatchSize records is inserted at once; *)
(* a smaller one when the flush ticker fires.                              *)
(* Mutant: the batch is inserted once it is larger than BatchSize. *)
ReceivePastSize ==
  /\ worker = "select"
  /\ insertCh # <<>>
  /\ batch' = Append(batch, Head(insertCh))
  /\ insertCh' = Tail(insertCh)
  /\ worker' = IF Len(batch') > BatchSize THEN "insert" ELSE "select"
  /\ UNCHANGED <<clock, stamped, done, closer, executed, tx, dbVars,
                 countVars, histVars>>

Receive ==
  /\ worker = "select"
  /\ insertCh # <<>>
  /\ batch' = Append(batch, Head(insertCh))
  /\ insertCh' = Tail(insertCh)
  /\ worker' = IF Len(batch') >= BatchSize THEN "insert" ELSE "select"
  /\ UNCHANGED <<clock, stamped, done, closer, executed, tx, dbVars,
                 countVars, histVars>>

(* Mutant: the ticker flushes full batches only. *)
FlushTickWhenFull ==
  /\ worker = "select"
  /\ Len(batch) >= BatchSize
  /\ worker' = "insert"
  /\ UNCHANGED <<clock, stamped, queueVars, batch, executed, tx, dbVars,
                 countVars, histVars>>

FlushTick ==
  /\ worker = "select"
  /\ batch # <<>>
  /\ worker' = "insert"
  /\ UNCHANGED <<clock, stamped, queueVars, batch, executed, tx, dbVars,
                 countVars, histVars>>

(* Mutant: the cutoff is computed once, when the worker starts. *)
CleanupTickStaleCutoff ==
  /\ worker = "select"
  /\ Retention > 0
  /\ UNCHANGED vars

CleanupTick ==
  /\ worker = "select"
  /\ Retention > 0
  /\ rows' = {x \in rows : x.rec.ts + Retention >= clock}
  /\ UNCHANGED <<clock, stamped, queueVars, workerVars, nextId, countVars,
                 histVars>>

CleanupFails ==
  /\ worker = "select"
  /\ Retention > 0
  /\ errors < MaxErrors
  /\ errors' = errors + 1
  /\ UNCHANGED <<clock, stamped, queueVars, workerVars, dbVars, dropped,
                 crashes, histVars>>

(* Mutant: on `done` the worker flushes its batch and leaves the channel. *)
SeeDoneWithoutDrain ==
  /\ worker = "select"
  /\ done
  /\ worker' = IF batch = <<>> THEN "exited" ELSE "drainInsert"
  /\ UNCHANGED <<clock, stamped, queueVars, batch, executed, tx, dbVars,
                 countVars, histVars>>

SeeDone ==
  /\ worker = "select"
  /\ done
  /\ worker' = "drain"
  /\ UNCHANGED <<clock, stamped, queueVars, batch, executed, tx, dbVars,
                 countVars, histVars>>

(* After `done`: take what the channel holds, whatever the batch size, and *)
(* stop the first time the channel is empty.                               *)
DrainReceive ==
  /\ worker = "drain"
  /\ insertCh # <<>>
  /\ batch' = Append(batch, Head(insertCh))
  /\ insertCh' = Tail(insertCh)
  /\ UNCHANGED <<clock, stamped, done, closer, worker, executed, tx, dbVars,
                 countVars, histVars>>

(* Mutant: `break` for `return`, which leaves the select and not the loop. *)
DrainEndBreaks ==
  /\ worker = "drain"
  /\ insertCh = <<>>
  /\ worker' = IF batch = <<>> THEN "drain" ELSE "drainInsert"
  /\ UNCHANGED <<clock, stamped, queueVars, batch, executed, tx, dbVars,
                 countVars, histVars>>

DrainEnd ==
  /\ worker = "drain"
  /\ insertCh = <<>>
  /\ worker' = IF batch = <<>> THEN "exited" ELSE "drainInsert"
  /\ UNCHANGED <<clock, stamped, queueVars, batch, executed, tx, dbVars,
                 countVars, histVars>>

-----------------------------------------------------------------------------
(* insertBatch: one statement per record in one transaction, then commit.  *)
(* Any call may fail; whatever happened, flush empties the batch.          *)
Inserting == worker \in {"insert", "drainInsert"}

(* Mutant: the batch is not emptied after it was inserted. *)
EndFlushKeepsBatch ==
  /\ worker' = IF worker = "insert" THEN "select" ELSE "exited"
  /\ batch' = batch
  /\ executed' = 0
  /\ tx' = {}

EndFlush ==
  /\ worker' = IF worker = "insert" THEN "select" ELSE "exited"
  /\ batch' = <<>>
  /\ executed' = 0
  /\ tx' = {}

(* Mutant: the statement runs outside the transaction. *)
ExecRecordAutocommit ==
  /\ Inserting
  /\ executed < Len(batch)
  /\ executed' = executed + 1
  /\ rows' = rows \cup {[id |-> nextId, rec |-> batch[executed']]}
  /\ nextId' = nextId + 1
  /\ UNCHANGED <<clock, stamped, queueVars, worker, batch, tx, countVars,
                 histVars>>

ExecRecord ==
  /\ Inserting
  /\ executed < Len(batch)
  /\ executed' = executed + 1
  /\ tx' = tx \cup {[id |-> nextId, rec |-> batch[executed']]}
  /\ nextId' = nextId + 1
  /\ UNCHANGED <<clock, stamped, queueVars, worker, batch, rows, countVars,
                 histVars>>

Commit ==
  /\ Inserting
  /\ executed = Len(batch)
  /\ rows' = rows \cup tx
  /\ EndFlush
  /\ UNCHANGED <<clock, stamped, queueVars, nextId, countVars, histVars>>

(* Mutant: a failed batch goes back to the end of the channel. *)
InsertFailsRequeues ==
  /\ Inserting
  /\ errors < MaxErrors
  /\ errors' = errors + 1
  /\ EndFlush
  /\ insertCh' = insertCh \o batch
  /\ UNCHANGED <<clock, stamped, done, closer, dbVars, dropped, crashes,
                 histVars>>

(* Begin, Prepare, Exec or Commit failed and the database kept nothing. *)
InsertFails ==
  /\ Inserting
  /\ errors < MaxErrors
  /\ errors' = errors + 1
  /\ EndFlush
  /\ UNCHANGED <<clock, stamped, queueVars, dbVars, dropped, crashes,
                 histVars>>

(* The database committed but the answer was lost: the worker counts an   *)
(* error for rows that are there.                                          *)
CommitAnswerLost ==
  /\ Inserting
  /\ executed = Len(batch)
  /\ errors < MaxErrors
  /\ errors' = errors + 1
  /\ rows' = rows \cup tx
  /\ EndFlush
  /\ UNCHANGED <<clock, stamped, queueVars, nextId, dropped, crashes,
                 histVars>>

-----------------------------------------------------------------------------
(* Close: close(done), wg.Wait(), db.Close(). *)
CloseBegin ==
  /\ closer = "idle"
  /\ closer' = "waiting"
  /\ done' = TRUE
  /\ UNCHANGED <<clock, stamped, insertCh, workerVars, dbVars, countVars,
                 histVars>>

CloseReturn ==
  /\ closer = "waiting"
  /\ worker = "exited"
  /\ closer' = "returned"
  /\ UNCHANGED <<clock, stamped, insertCh, done, workerVars, dbVars,
                 countVars, histVars>>

(* The process ends, killed or after Close, and a new one opens the store: *)
(* what was in memory is gone and the database rolls the transaction back. *)
Crash ==
  /\ crashes < MaxCrashes
  /\ crashes' = crashes + 1
  /\ stamped' = [c \in Callers |-> 0]
  /\ insertCh' = <<>> /\ done' = FALSE /\ closer' = "idle"
  /\ worker' = "select" /\ batch' = <<>> /\ executed' = 0 /\ tx' = {}
  /\ dropped' = 0 /\ errors' = 0
  /\ owed' = {}
  /\ UNCHANGED <<clock, dbVars, taken>>

-----------------------------------------------------------------------------
Next ==
  \/ \E c \in Callers : Sample(c) \/ InsertAsync(c)
  \/ Receive \/ FlushTick \/ CleanupTick \/ CleanupFails
  \/ SeeDone \/ DrainReceive \/ DrainEnd
  \/ ExecRecord \/ Commit \/ InsertFails \/ CommitAnswerLost
  \/ CloseBegin \/ CloseReturn \/ Crash

(* A select chooses at random among its ready cases, so a case that is     *)
(* ready again and again is taken; a database call returns; wg.Wait wakes. *)
Fairness ==
  /\ SF_vars(Receive) /\ SF_vars(FlushTick) /\ SF_vars(SeeDone)
  /\ SF_vars(CleanupTick)
  /\ WF_vars(DrainReceive) /\ WF_vars(DrainEnd)
  /\ WF_vars(ExecRecord) /\ WF_vars(Commit)
  /\ WF_vars(CloseReturn)

Spec == Init /\ [][Next]_vars
FairSpec == Spec /\ Fairness

-----------------------------------------------------------------------------
(* Values of the variables; the channel never exceeds its capacity and the *)
(* batch its size, except while the closing worker drains the channel.     *)
TypeOK ==
  /\ clock \in 0 .. MaxClock
  /\ stamped \in [Callers -> 0 .. MaxClock]
  /\ insertCh \in Seq(Record) /\ Len(insertCh) <= ChSize
  /\ done \in BOOLEAN
  /\ closer \in {"idle", "waiting", "returned"}
  /\ worker \in {"select", "insert", "drain", "drainInsert", "exited"}
  /\ batch \in Seq(Record)
  /\ worker = "select" => Len(batch) < BatchSize
  /\ worker = "insert" => Len(batch) <= BatchSize
  /\ executed \in 0 .. Len(batch)
  /\ nextId \in Nat \ {0}
  /\ tx \subseteq [id : 1 .. nextId - 1, rec : Record]
  /\ rows \subseteq [id : 1 .. nextId - 1, rec : Record]
  /\ dropped \in Nat /\ errors \in 0 .. MaxErrors /\ crashes \in 0 .. MaxCrashes
  /\ taken \subseteq Record /\ owed \subseteq taken

(* No sample is stored in two rows, although the table has no key on its   *)
(* contents: not after a failed or unacknowledged commit, not across the   *)
(* drain of Close, not across a restart.                                   *)
StoredOnce ==
  \A x, y \in rows : x.rec = y.rec => x = y

(* The rows of one probe run are in the table in the order its samples     *)
(* were taken, whatever batches were lost in between.                      *)
CallerOrderKept ==
  \A x, y \in rows :
    x.rec.by = y.rec.by /\ x.rec.ts < y.rec.ts => x.id < y.id

(* The inductive invariant behind them.  Whatever is in memory is newer   *)
(* than every row of the same probe, the batch is older than the channel, *)
(* the channel older than the sample in the handler's hands.              *)
Older(r, q) == r.by = q.by => r.ts < q.ts
InOrder(s) == \A i, j \in 1 .. Len(s) : i < j => Older(s[i], s[j])

OrderInv ==
  /\ InOrder(insertCh) /\ InOrder(batch)
  /\ \A r \in Elems(batch), q \in Elems(insertCh) : Older(r, q)
  /\ \A x \in rows, q \in InMemory : Older(x.rec, q)
  /\ \A r \in taken : r.ts <= clock
  /\ \A r \in taken : stamped[r.by] # 0 => r.ts < stamped[r.by]
  /\ \A c \in Callers : stamped[c] <= clock
  /\ InMemory \cup Stored \subseteq taken

(* The open transaction holds the first `executed` records of the batch,  *)
(* in order, with fresh identities.                                        *)
TxInv ==
  /\ \A i \in 1 .. executed : \E x \in tx : x.rec = batch[i]
  /\ \A x \in tx : \E i \in 1 .. executed : x.rec = batch[i]
  /\ \A x, y \in tx : x.rec = y.rec => x = y
  /\ \A x, y \in tx : x.rec.by = y.rec.by /\ x.rec.ts < y.rec.ts => x.id < y.id
  /\ \A x \in rows, y \in tx : x.id < y.id
  /\ ~Inserting => executed = 0
  /\ Inserting => batch # <<>>

(* What this process owes is in memory until it is stored, unless a       *)
(* database call failed; a worker that left has nothing of it any more.   *)
OwedInv ==
  /\ errors = 0 =>
       \A r \in owed : r \in InMemory \/ r \in Stored \/ Expired(r)
  /\ closer = "returned" => worker = "exited"
  /\ worker = "exited" =>
       done /\ batch = <<>> /\ \A r \in Elems(insertCh) : r \notin owed
  /\ worker \in {"drain", "drainInsert"} => done
  /\ worker = "drainInsert" => \A r \in Elems(insertCh) : r \notin owed

IInv == StoredOnce /\ CallerOrderKept /\ OrderInv /\ TxInv /\ OwedInv

(* When Close has returned and no database call failed, every record that  *)
(* InsertAsync accepted before Close began is stored (or already expired): *)
(* the worker does not leave before it drained the channel.                *)
CloseKeepsAccepted ==
  closer = "returned" /\ errors = 0
    => \A r \in owed : r \in Stored \/ Expired(r)

(* An accepted record does not stay in the channel or in a half-full batch *)
(* for ever: the ticker flushes it, or the drain of Close does.            *)
Holds(S, t) == \E r \in S : r.ts = t
AcceptedSettles ==
  \A t \in 1 .. MaxClock : Holds(owed, t) ~> ~Holds(InMemory, t)

(* Close does not hang: the worker leaves its loop and wg.Wait returns. *)
CloseReturns == closer = "waiting" ~> closer # "waiting"

(* While the store is open, rows past the retention are deleted. *)
SomeExpired == \E r \in Stored : Expired(r)
ExpiredRowsGo == SomeExpired ~> (~SomeExpired \/ done)

(* The store implements its promise: the records whose fate is decided are *)
(* those it took and holds in memory no more.                              *)
Log == INSTANCE ResultLog WITH
         accepted <- taken, settled <- taken \ InMemory, kept <- Stored
Implements == Log!Spec
=============================================================================
