---------------------------- MODULE RateLimiter ----------------------------
(***************************************************************************)
(* The in-memory limiter of the account endpoints (rateLimiter.Allow in    *)
(* cmd/netwatcher/main.go): one bucket of recent grants per key, where a   *)
(* key is an action with a client and an email, and an occasional sweep of *)
(* all buckets.                                                            *)
(*                                                                         *)
(* A request reads the clock BEFORE it takes the mutex, so requests may    *)
(* decide in another order than their times; the rest of Allow is atomic.  *)
(***************************************************************************)
EXTENDS Integers, FiniteSets

CONSTANTS
  Requests,    \* request handlers that may be in Allow at the same time
  Keys,        \* rate-limit keys
  Limit,       \* rateLimitConfig.Limit of a key's action
  Window,      \* rateLimitConfig.Window of a key's action
  BucketTTL,   \* rateLimitBucketTTL
  SweepEvery,  \* rateLimitSweepEvery
  MaxBuckets,  \* maxRateLimitBuckets
  Second,      \* ticks of the clock in a second
  MaxTime,     \* bound: the clock
  NoCall       \* no request in progress

(* Sweeping is harmless because a bucket outlives every window: 30 minutes *)
(* against 15 at most.                                                     *)
ASSUME LimitAssumption ==
  /\ Limit \in [Keys -> Nat \ {0}]
  /\ Window \in [Keys -> Nat \ {0}]
  /\ \A k \in Keys : Window[k] <= BucketTTL
ASSUME BoundAssumption ==
  /\ BucketTTL \in Nat /\ SweepEvery \in Nat /\ MaxBuckets \in Nat
  /\ Second \in Nat \ {0} /\ MaxTime \in Nat
  /\ IsFiniteSet(Keys)

(* A grant: the time the request read and its number in the order of the  *)
(* mutex, which is the order of bucket.hits.                               *)
Hit == [at : Nat, no : Nat]
Call == [key : Keys, at : Nat]
ASSUME NoCallAssumption == NoCall \notin Call

VARIABLES
  time,       \* monotonic clock
  call,       \* of each request: the call of Allow it is in, or NoCall
  present,    \* keys with a bucket
  hits,       \* bucket.hits
  lastSeen,   \* bucket.lastSeen
  lastSweep,  \* rl.lastSweep
  grants      \* history: every request ever allowed, per key

vars == <<time, call, present, hits, lastSeen, lastSweep, grants>>

Init ==
  /\ time = 0
  /\ call = [r \in Requests |-> NoCall]
  /\ present = {}
  /\ hits = [k \in Keys |-> {}]
  /\ lastSeen = [k \in Keys |-> 0]
  /\ lastSweep = 0
  /\ grants = [k \in Keys |-> {}]

-----------------------------------------------------------------------------
(* The hits that are After(cutoff). *)
After(H, cutoff) == {h \in H : h.at > cutoff}

SweepDue(now) ==
  Cardinality(present) > MaxBuckets \/ now - lastSweep >= SweepEvery

(* Mutant: the sweep keeps only what is newer than now. *)
SweptAll(k, now) ==
  IF SweepDue(now) THEN After(hits[k], now) ELSE hits[k]

(* What the sweep, when it is due, leaves of a bucket, and which buckets  *)
(* it deletes.                                                             *)
Swept(k, now) ==
  IF SweepDue(now) THEN After(hits[k], now - BucketTTL) ELSE hits[k]

Deleted(now) ==
  {k \in present : /\ SweepDue(now)
                   /\ Swept(k, now) = {}
                   /\ lastSeen[k] < now - BucketTTL}

(* Mutant: the hits outside the window are not filtered out. *)
RecentUnfiltered(k, now) == Swept(k, now)

Recent(k, now) == After(Swept(k, now), now - Window[k])

(* Everything Allow does before it decides: sweep, find or make the       *)
(* bucket, filter its hits, note the time.                                 *)
Look(k, now) ==
  /\ present' = (present \ Deleted(now)) \cup {k}
  /\ lastSeen' = [q \in Keys |-> IF q = k THEN now
                                 ELSE IF q \in Deleted(now) THEN 0
                                 ELSE lastSeen[q]]
  /\ lastSweep' = IF SweepDue(now) THEN now ELSE lastSweep

BucketIs(k, now, H) ==
  hits' = [q \in Keys |-> IF q = k THEN H ELSE Swept(q, now)]

(* Mutant: the hits are not shifted by the window. *)
RetryAfterNoWindow(k, now) ==
  LET first == CHOOSE h \in Recent(k, now) :
                 \A x \in Recent(k, now) : h.no <= x.no
      wait == first.at - now
  IN IF wait < Second THEN Second ELSE wait

(* retryAfter: until the first hit of the bucket leaves the window, and   *)
(* one second at least.                                                    *)
RetryAfter(k, now) ==
  LET first == CHOOSE h \in Recent(k, now) :
                 \A x \in Recent(k, now) : h.no <= x.no
      wait == first.at + Window[k] - now
  IN IF wait < Second THEN Second ELSE wait

(* The Retry-After header: whole seconds, rounded down. *)
RetryHeader(k, now) == RetryAfter(k, now) \div Second

-----------------------------------------------------------------------------
(* A handler calls enforceRateLimit, which reads the clock in Allow. *)
Arrive(r, k) ==
  /\ call[r] = NoCall
  /\ call' = [call EXCEPT ![r] = [key |-> k, at |-> time]]
  /\ UNCHANGED <<time, present, hits, lastSeen, lastSweep, grants>>

NewHit(k, now) == [at |-> now, no |-> Cardinality(grants[k])]

Grant(r) ==
  LET k == call[r].key  now == call[r].at IN
  /\ call[r] # NoCall
  /\ Cardinality(Recent(k, now)) < Limit[k]
  /\ Look(k, now)
  /\ BucketIs(k, now, Recent(k, now) \cup {NewHit(k, now)})
  /\ grants' = [grants EXCEPT ![k] = @ \cup {NewHit(k, now)}]
  /\ call' = [call EXCEPT ![r] = NoCall]
  /\ UNCHANGED time

(* Mutant: a refused request counts as well. *)
RefuseCounts(r) ==
  LET k == call[r].key  now == call[r].at IN
  /\ call[r] # NoCall
  /\ Cardinality(Recent(k, now)) >= Limit[k]
  /\ Look(k, now)
  /\ BucketIs(k, now, Recent(k, now) \cup {NewHit(k, now)})
  /\ call' = [call EXCEPT ![r] = NoCall]
  /\ UNCHANGED <<time, grants>>

Refuse(r) ==
  LET k == call[r].key  now == call[r].at IN
  /\ call[r] # NoCall
  /\ Cardinality(Recent(k, now)) >= Limit[k]
  /\ Look(k, now)
  /\ BucketIs(k, now, Recent(k, now))
  /\ call' = [call EXCEPT ![r] = NoCall]
  /\ UNCHANGED <<time, grants>>

Tick ==
  /\ time < MaxTime
  /\ time' = time + 1
  /\ UNCHANGED <<call, present, hits, lastSeen, lastSweep, grants>>

Next ==
  \/ \E r \in Requests : (\E k \in Keys : Arrive(r, k)) \/ Grant(r) \/ Refuse(r)
  \/ Tick

Spec == Init /\ [][Next]_vars

-----------------------------------------------------------------------------
(* Values of the variables; a bucket holds grants, and only a key with a  *)
(* bucket has any.                                                         *)
TypeOK ==
  /\ time \in 0 .. MaxTime
  /\ call \in [Requests -> Call \cup {NoCall}]
  /\ present \subseteq Keys
  /\ hits \in [Keys -> SUBSET Hit]
  /\ lastSeen \in [Keys -> Nat]
  /\ lastSweep \in Nat
  /\ grants \in [Keys -> SUBSET Hit]
  /\ \A k \in Keys : hits[k] \subseteq grants[k]

(* The limit: at no moment have more than Limit requests of a key been     *)
(* allowed whose time lies in the window that ends then, whatever the      *)
(* sweeps forgot and however late a request got the mutex.                 *)
WindowHolds ==
  \A k \in Keys :
    Cardinality(After(grants[k], time - Window[k])) <= Limit[k]

(* Why: a bucket never holds more than Limit hits, no request is ahead of  *)
(* the clock, and a grant that is no longer in its bucket has left the      *)
(* window; and no two grants of a key have the same number.                 *)
BucketBound ==
  \A k \in Keys : /\ IsFiniteSet(grants[k])
                  /\ IsFiniteSet(hits[k])
                  /\ Cardinality(hits[k]) <= Limit[k]
CallsArePast == \A r \in Requests : call[r] # NoCall => call[r].at <= time
Forgotten ==
  \A k \in Keys : \A g \in grants[k] \ hits[k] : g.at <= time - Window[k]
Numbered ==
  \A k \in Keys : \A g \in grants[k] : g.no < Cardinality(grants[k])
IInv == TypeOK /\ BucketBound /\ CallsArePast /\ Forgotten /\ Numbered

(* Nobody is refused for nothing: a refused request finds Limit grants in  *)
(* the window that ends at its own time (or later ones, made by requests   *)
(* that overtook it).                                                      *)
RefusalStep ==
  \A r \in Requests :
    (call[r] # NoCall /\ call'[r] = NoCall /\ grants' = grants) =>
      LET k == call[r].key IN
      Cardinality(After(grants[k], call[r].at - Window[k])) >= Limit[k]
RefusalJustified == [][RefusalStep]_vars

(* A refused client that waits a second more than its Retry-After header   *)
(* says finds room, if nobody else used the key meanwhile.  (The header is *)
(* rounded down, so waiting exactly that long may not be enough.)          *)
RetryStep ==
  \A r \in Requests :
    (call[r] # NoCall /\ call'[r] = NoCall /\ grants' = grants) =>
      LET k == call[r].key
          again == call[r].at + (RetryHeader(k, call[r].at) + 1) * Second
      IN Cardinality(After(hits'[k], again - Window[k])) < Limit[k]
RetryAfterWorks == [][RetryStep]_vars
=============================================================================
