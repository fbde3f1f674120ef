------------------------- MODULE RateLimiterProofs -------------------------
(***************************************************************************)
(* Proofs about RateLimiter: the inductive invariant IInv, from which the  *)
(* limit of every window follows, and that no request is refused below it. *)
(***************************************************************************)
EXTENDS RateLimiter, FiniteSetTheorems, WellFoundedInduction, TLAPS

(* After selects. *)
LEMMA AfterSelects ==
  ASSUME NEW H, NEW t
  PROVE  /\ After(H, t) \subseteq H
         /\ \A h \in H \ After(H, t) : ~(h.at > t)
BY DEF After

(* A sweep removes only hits older than the longest window. *)
LEMMA SweptSelects ==
  ASSUME IInv, NEW k \in Keys, NEW now \in Nat
  PROVE  /\ Swept(k, now) \subseteq hits[k]
         /\ \A h \in hits[k] \ Swept(k, now) : h.at <= now - BucketTTL
<1>1. hits[k] \in SUBSET Hit
  BY DEF IInv, TypeOK
<1>2. CASE SweepDue(now)
  <2>1. Swept(k, now) = After(hits[k], now - BucketTTL)
    BY <1>2 DEF Swept
  <2>2. QED
    BY <1>1, <2>1, BoundAssumption DEF After, Hit
<1>3. CASE ~SweepDue(now)
  BY <1>3 DEF Swept
<1>4. QED
  BY <1>2, <1>3

(* So does the filter of Allow: what it forgets has left the window. *)
LEMMA RecentSelects ==
  ASSUME IInv, NEW k \in Keys, NEW now \in Nat
  PROVE  /\ Recent(k, now) \subseteq hits[k]
         /\ \A h \in hits[k] \ Recent(k, now) : h.at <= now - Window[k]
<1>1. hits[k] \in SUBSET Hit /\ Window[k] \in Nat /\ Window[k] <= BucketTTL
  BY LimitAssumption DEF IInv, TypeOK
<1>2. Recent(k, now) = {h \in Swept(k, now) : h.at > now - Window[k]}
  BY DEF Recent, After
<1>3. /\ Swept(k, now) \subseteq hits[k]
      /\ \A h \in hits[k] \ Swept(k, now) : h.at <= now - BucketTTL
  BY SweptSelects
<1>4. ASSUME NEW h \in hits[k] \ Recent(k, now)
      PROVE  h.at <= now - Window[k]
  <2>1. h.at \in Nat
    BY <1>1 DEF Hit
  <2>2. CASE h \in Swept(k, now)
    BY <1>1, <1>2, <2>1, <2>2
  <2>3. CASE h \notin Swept(k, now)
    BY <1>1, <1>3, <2>1, <2>3, BoundAssumption
  <2>4. QED
    BY <2>2, <2>3
<1>5. QED
  BY <1>2, <1>3, <1>4

(* What a decision of Allow finds: the facts every case below needs. *)
LEMMA LookFacts ==
  ASSUME IInv, NEW r \in Requests, call[r] # NoCall
  PROVE  /\ call[r].key \in Keys /\ call[r].at \in Nat /\ call[r].at <= time
         /\ time \in Nat
         /\ IsFiniteSet(Recent(call[r].key, call[r].at))
         /\ Cardinality(Recent(call[r].key, call[r].at)) \in Nat
         /\ \A k \in Keys : /\ Swept(k, call[r].at) \subseteq hits[k]
                            /\ hits[k] \subseteq grants[k]
                            /\ hits[k] \in SUBSET Hit
                            /\ Window[k] \in Nat /\ Limit[k] \in Nat
<1>1. call[r] \in Call /\ time \in Nat
  BY DEF IInv, TypeOK
<1>2. call[r].key \in Keys /\ call[r].at \in Nat
  BY <1>1 DEF Call
<1>3. call[r].at <= time
  BY DEF IInv, CallsArePast
<1>4. Recent(call[r].key, call[r].at) \subseteq hits[call[r].key]
  BY <1>2, RecentSelects
<1>5. IsFiniteSet(hits[call[r].key])
  BY <1>2 DEF IInv, BucketBound
<1>6. IsFiniteSet(Recent(call[r].key, call[r].at))
  BY <1>4, <1>5, FS_Subset
<1>7. Cardinality(Recent(call[r].key, call[r].at)) \in Nat
  BY <1>6, FS_CardinalityType
<1>8. ASSUME NEW k \in Keys
      PROVE  /\ Swept(k, call[r].at) \subseteq hits[k]
             /\ hits[k] \subseteq grants[k]
             /\ hits[k] \in SUBSET Hit
             /\ Window[k] \in Nat /\ Limit[k] \in Nat
  BY <1>2, SweptSelects, LimitAssumption DEF IInv, TypeOK
<1>9. QED
  BY <1>1, <1>2, <1>3, <1>6, <1>7, <1>8

-----------------------------------------------------------------------------
(* The invariant holds initially. *)
LEMMA InitEstablishes == Init => IInv
<1> SUFFICES ASSUME Init PROVE IInv
  OBVIOUS
<1>1. IsFiniteSet({}) /\ Cardinality({}) = 0
  BY FS_EmptySet
<1>2. TypeOK
  BY BoundAssumption DEF Init, TypeOK
<1>3. BucketBound
  BY <1>1, LimitAssumption DEF Init, BucketBound
<1>4. CallsArePast /\ Forgotten /\ Numbered
  BY DEF Init, CallsArePast, Forgotten, Numbered
<1>5. QED
  BY <1>2, <1>3, <1>4 DEF IInv

(* Reading the clock changes no bucket. *)
LEMMA ArriveKeeps ==
  ASSUME IInv, NEW r \in Requests, NEW k \in Keys, Arrive(r, k)
  PROVE  IInv'
<1> USE DEF Arrive
<1>1. [key |-> k, at |-> time] \in Call /\ time \in Nat
  BY DEF IInv, TypeOK, Call
<1>2. TypeOK'
  BY <1>1 DEF IInv, TypeOK
<1>3. BucketBound'
  BY DEF IInv, BucketBound
<1>4. CallsArePast'
  <2>1. ASSUME NEW q \in Requests, call'[q] # NoCall
        PROVE  call'[q].at <= time'
    BY <1>1, <2>1 DEF IInv, TypeOK, CallsArePast
  <2>2. QED
    BY <2>1 DEF CallsArePast
<1>5. Forgotten' /\ Numbered'
  BY DEF IInv, Forgotten, Numbered
<1>6. QED
  BY <1>2, <1>3, <1>4, <1>5 DEF IInv

(* Time moves windows away from grants, never towards them. *)
LEMMA TickKeeps ==
  ASSUME IInv, Tick
  PROVE  IInv'
<1>1. time \in Nat /\ time' = time + 1 /\ time < MaxTime
  BY DEF IInv, TypeOK, Tick
<1>2. UNCHANGED <<call, present, hits, lastSeen, lastSweep, grants>>
  BY DEF Tick
<1>3. TypeOK'
  BY <1>1, <1>2, BoundAssumption DEF IInv, TypeOK
<1>4. BucketBound'
  BY <1>2 DEF IInv, BucketBound
<1>5. CallsArePast'
  <2>1. ASSUME NEW q \in Requests, call[q] # NoCall
        PROVE  call[q].at \in Nat /\ call[q].at <= time
    BY <2>1 DEF IInv, TypeOK, CallsArePast, Call
  <2>2. QED
    BY <1>1, <1>2, <2>1 DEF CallsArePast
<1>6. Forgotten'
  <2>1. ASSUME NEW k \in Keys, NEW g \in grants[k] \ hits[k]
        PROVE  g.at <= time' - Window[k]
    <3>1. g.at \in Nat /\ Window[k] \in Nat
      BY LimitAssumption DEF IInv, TypeOK, Hit
    <3>2. g.at <= time - Window[k]
      BY DEF IInv, Forgotten
    <3>3. QED
      BY <1>1, <3>1, <3>2
  <2>2. QED
    BY <1>2, <2>1 DEF Forgotten
<1>7. Numbered'
  BY <1>2 DEF IInv, Numbered
<1>8. QED
  BY <1>3, <1>4, <1>5, <1>6, <1>7 DEF IInv

(* A decision: the part of the invariant that does not depend on the       *)
(* answer.  H is the new bucket of the key and G its grants.               *)
LEMMA DecisionKeeps ==
  ASSUME IInv, NEW r \in Requests, call[r] # NoCall,
         NEW H \in SUBSET Hit, NEW G \in SUBSET Hit,
         Look(call[r].key, call[r].at), BucketIs(call[r].key, call[r].at, H),
         grants' = [grants EXCEPT ![call[r].key] = G],
         call' = [call EXCEPT ![r] = NoCall], UNCHANGED time,
         H \subseteq G, IsFiniteSet(G), Cardinality(H) <= Limit[call[r].key],
         G \ H \subseteq
           grants[call[r].key] \ Recent(call[r].key, call[r].at),
         \A g \in G : g.no < Cardinality(G)
  PROVE  IInv'
<1> DEFINE k == call[r].key
           now == call[r].at
<1>0. k \in Keys /\ now \in Nat /\ now <= time /\ time \in Nat
  BY LookFacts
<1>1. \A q \in Keys : /\ Swept(q, now) \subseteq hits[q]
                      /\ hits[q] \subseteq grants[q]
                      /\ hits[q] \in SUBSET Hit
                      /\ Window[q] \in Nat /\ Limit[q] \in Nat
  BY LookFacts
<1>2. /\ hits' = [q \in Keys |-> IF q = k THEN H ELSE Swept(q, now)]
      /\ grants' = [grants EXCEPT ![k] = G]
      /\ grants \in [Keys -> SUBSET Hit]
  BY DEF BucketIs, IInv, TypeOK
<1>3. /\ hits'[k] = H /\ grants'[k] = G
      /\ \A q \in Keys \ {k} : hits'[q] = Swept(q, now) /\ grants'[q] = grants[q]
  BY <1>0, <1>2
<1>4. call' \in [Requests -> Call \cup {NoCall}]
  BY DEF IInv, TypeOK
<1>5. /\ present' \subseteq Keys
      /\ lastSeen' \in [Keys -> Nat]
      /\ lastSweep' \in Nat
  <2>1. present' = (present \ Deleted(now)) \cup {k}
    BY DEF Look
  <2>2. lastSeen' = [q \in Keys |-> IF q = k THEN now
                                    ELSE IF q \in Deleted(now) THEN 0
                                    ELSE lastSeen[q]]
    BY DEF Look
  <2>3. lastSweep' = IF SweepDue(now) THEN now ELSE lastSweep
    BY DEF Look
  <2>4. present \subseteq Keys /\ lastSeen \in [Keys -> Nat] /\ lastSweep \in Nat
    BY DEF IInv, TypeOK
  <2>5. QED
    BY <1>0, <2>1, <2>2, <2>3, <2>4
<1>6. TypeOK'
  <2>1. hits' \in [Keys -> SUBSET Hit] /\ grants' \in [Keys -> SUBSET Hit]
    BY <1>1, <1>2
  <2>2. \A q \in Keys : hits'[q] \subseteq grants'[q]
    BY <1>1, <1>3
  <2>3. time' \in 0 .. MaxTime
    BY DEF IInv, TypeOK
  <2>4. QED
    BY <1>4, <1>5, <2>1, <2>2, <2>3 DEF TypeOK
<1>7. BucketBound'
  <2>1. ASSUME NEW q \in Keys
        PROVE  /\ IsFiniteSet(grants'[q]) /\ IsFiniteSet(hits'[q])
               /\ Cardinality(hits'[q]) <= Limit[q]
    <3>1. CASE q = k
      <4>1. IsFiniteSet(H)
        BY FS_Subset
      <4>2. QED
        BY <1>3, <3>1, <4>1
    <3>2. CASE q # k
      <4>1. /\ IsFiniteSet(grants[q]) /\ IsFiniteSet(hits[q])
            /\ Cardinality(hits[q]) <= Limit[q]
        BY DEF IInv, BucketBound
      <4>2. /\ IsFiniteSet(Swept(q, now))
            /\ Cardinality(Swept(q, now)) <= Cardinality(hits[q])
        BY <1>1, <4>1, FS_Subset
      <4>3. /\ Cardinality(hits[q]) \in Nat
            /\ Cardinality(Swept(q, now)) \in Nat
        BY <4>1, <4>2, FS_CardinalityType
      <4>4. QED
        BY <1>1, <1>3, <3>2, <4>1, <4>2, <4>3
    <3>3. QED
      BY <3>1, <3>2
  <2>2. QED
    BY <2>1 DEF BucketBound
<1>8. CallsArePast'
  BY DEF IInv, TypeOK, CallsArePast
<1>9. Forgotten'
  <2>1. ASSUME NEW q \in Keys, NEW g \in grants'[q] \ hits'[q]
        PROVE  g.at <= time - Window[q]
    <3>1. g.at \in Nat
      BY <1>2, <1>1 DEF Hit
    <3>2. \A x \in grants[q] \ hits[q] : x.at <= time - Window[q]
      BY DEF IInv, Forgotten
    <3>3. CASE q = k
      <4>1. g \in grants[k] \ Recent(k, now)
        BY <1>3, <3>3
      <4>2. CASE g \in hits[k]
        <5>1. g.at <= now - Window[k]
          BY <1>0, <4>1, <4>2, RecentSelects
        <5>2. QED
          BY <1>0, <1>1, <3>1, <3>3, <5>1
      <4>3. CASE g \notin hits[k]
        BY <3>2, <3>3, <4>1, <4>3
      <4>4. QED
        BY <4>2, <4>3
    <3>4. CASE q # k
      <4>1. g \in grants[q] \ Swept(q, now)
        BY <1>3, <3>4
      <4>2. CASE g \in hits[q]
        <5>1. g.at <= now - BucketTTL
          BY <1>0, <4>1, <4>2, SweptSelects
        <5>2. QED
          BY <1>0, <1>1, <3>1, <5>1, LimitAssumption, BoundAssumption
      <4>3. CASE g \notin hits[q]
        BY <3>2, <4>1, <4>3
      <4>4. QED
        BY <4>2, <4>3
    <3>5. QED
      BY <3>3, <3>4
  <2>2. QED
    BY <2>1 DEF Forgotten
<1>10. Numbered'
  BY <1>3 DEF IInv, Numbered
<1>11. QED
  BY <1>6, <1>7, <1>8, <1>9, <1>10 DEF IInv

(* A grant adds one hit to a bucket that had room. *)
LEMMA GrantKeeps ==
  ASSUME IInv, NEW r \in Requests, Grant(r)
  PROVE  IInv'
<1> DEFINE k == call[r].key
           now == call[r].at
           new == NewHit(k, now)
<1>1. /\ call[r] # NoCall
      /\ Cardinality(Recent(k, now)) < Limit[k]
      /\ Look(k, now)
      /\ BucketIs(k, now, Recent(k, now) \cup {new})
      /\ grants' = [grants EXCEPT ![k] = @ \cup {new}]
      /\ call' = [call EXCEPT ![r] = NoCall]
      /\ UNCHANGED time
  BY DEF Grant
<1>2. /\ k \in Keys /\ now \in Nat
      /\ IsFiniteSet(Recent(k, now)) /\ Cardinality(Recent(k, now)) \in Nat
      /\ hits[k] \subseteq grants[k] /\ hits[k] \in SUBSET Hit
      /\ Limit[k] \in Nat
  BY <1>1, LookFacts
<1>3. Recent(k, now) \subseteq hits[k]
  BY <1>2, RecentSelects
<1>4. grants \in [Keys -> SUBSET Hit] /\ IsFiniteSet(grants[k])
  BY <1>2 DEF IInv, TypeOK, BucketBound
<1>5. new \in Hit
  <2>1. Cardinality(grants[k]) \in Nat
    BY <1>4, FS_CardinalityType
  <2>2. QED
    BY <1>2, <2>1 DEF NewHit, Hit
<1>6. IsFiniteSet(grants[k] \cup {new})
  BY <1>4, FS_AddElement
<1>7. Cardinality(Recent(k, now) \cup {new}) <= Limit[k]
  <2>1. \/ Cardinality(Recent(k, now) \cup {new}) = Cardinality(Recent(k, now))
        \/ Cardinality(Recent(k, now) \cup {new}) = Cardinality(Recent(k, now)) + 1
    BY <1>2, FS_AddElement
  <2>2. QED
    BY <1>1, <1>2, <2>1
<1>8. grants' = [grants EXCEPT ![k] = grants[k] \cup {new}]
  BY <1>1
<1>9. ASSUME NEW g \in grants[k] \cup {new}
      PROVE  g.no < Cardinality(grants[k] \cup {new})
  <2>1. \A x \in grants[k] : x.no < Cardinality(grants[k]) /\ x.no \in Nat
    BY <1>2, <1>4 DEF IInv, Numbered, Hit
  <2>2. new.no = Cardinality(grants[k]) /\ Cardinality(grants[k]) \in Nat
    BY <1>4, FS_CardinalityType DEF NewHit
  <2>3. new \notin grants[k]
    BY <2>1, <2>2
  <2>4. Cardinality(grants[k] \cup {new}) = Cardinality(grants[k]) + 1
    BY <1>4, <2>3, FS_AddElement
  <2>5. QED
    BY <2>1, <2>2, <2>4
<1> HIDE DEF new
<1> DEFINE H == Recent(k, now) \cup {new}
           G == grants[k] \cup {new}
<1>10. /\ H \in SUBSET Hit /\ G \in SUBSET Hit /\ H \subseteq G
       /\ G \ H \subseteq grants[k] \ Recent(k, now)
  BY <1>2, <1>3, <1>4, <1>5
<1>11. /\ BucketIs(k, now, H) /\ grants' = [grants EXCEPT ![k] = G]
       /\ IsFiniteSet(G) /\ Cardinality(H) <= Limit[k]
       /\ \A g \in G : g.no < Cardinality(G)
  BY <1>1, <1>6, <1>7, <1>8, <1>9
<1> HIDE DEF H, G
<1>12. QED
  BY <1>1, <1>10, <1>11, DecisionKeeps

(* A refusal only filters. *)
LEMMA RefuseKeeps ==
  ASSUME IInv, NEW r \in Requests, Refuse(r)
  PROVE  IInv'
<1> DEFINE k == call[r].key
           now == call[r].at
<1>1. /\ call[r] # NoCall
      /\ Look(k, now)
      /\ BucketIs(k, now, Recent(k, now))
      /\ call' = [call EXCEPT ![r] = NoCall]
      /\ UNCHANGED <<time, grants>>
  BY DEF Refuse
<1>2. /\ k \in Keys /\ now \in Nat
      /\ IsFiniteSet(Recent(k, now)) /\ Cardinality(Recent(k, now)) \in Nat
      /\ hits[k] \subseteq grants[k] /\ hits[k] \in SUBSET Hit
      /\ Limit[k] \in Nat
  BY <1>1, LookFacts
<1>3. Recent(k, now) \subseteq hits[k]
  BY <1>2, RecentSelects
<1>4. /\ grants \in [Keys -> SUBSET Hit]
      /\ IsFiniteSet(grants[k]) /\ IsFiniteSet(hits[k])
      /\ Cardinality(hits[k]) <= Limit[k]
  BY <1>2 DEF IInv, TypeOK, BucketBound
<1>5. Cardinality(Recent(k, now)) <= Limit[k]
  <2>1. Cardinality(Recent(k, now)) <= Cardinality(hits[k])
    BY <1>3, <1>4, FS_Subset
  <2>2. Cardinality(hits[k]) \in Nat
    BY <1>4, FS_CardinalityType
  <2>3. QED
    BY <1>2, <1>4, <2>1, <2>2
<1>6. grants' = [grants EXCEPT ![k] = grants[k]]
  BY <1>1, <1>2, <1>4
<1>7. grants[k] \in SUBSET Hit /\ Recent(k, now) \in SUBSET Hit
  BY <1>2, <1>3, <1>4
<1>8. \A g \in grants[k] : g.no < Cardinality(grants[k])
  BY <1>2 DEF IInv, Numbered
<1>9. QED
  BY <1>1, <1>2, <1>3, <1>4, <1>5, <1>6, <1>7, <1>8, DecisionKeeps

(* Every step keeps the invariant. *)
LEMMA NextKeeps == IInv /\ [Next]_vars => IInv'
<1> SUFFICES ASSUME IInv, [Next]_vars PROVE IInv'
  OBVIOUS
<1>1. ASSUME NEW r \in Requests, NEW k \in Keys, Arrive(r, k) PROVE IInv'
  BY <1>1, ArriveKeeps
<1>2. ASSUME NEW r \in Requests, Grant(r) PROVE IInv'
  BY <1>2, GrantKeeps
<1>3. ASSUME NEW r \in Requests, Refuse(r) PROVE IInv'
  BY <1>3, RefuseKeeps
<1>4. CASE Tick
  BY <1>4, TickKeeps
<1>5. CASE UNCHANGED vars
  BY <1>5 DEF vars, IInv, TypeOK, BucketBound, CallsArePast, Forgotten, Numbered
<1>6. QED
  BY <1>1, <1>2, <1>3, <1>4, <1>5 DEF Next

(* The invariant implies the limit. *)
LEMMA InvariantLimits == IInv => WindowHolds
<1> SUFFICES ASSUME IInv, NEW k \in Keys
             PROVE  Cardinality(After(grants[k], time - Window[k])) <= Limit[k]
  BY DEF WindowHolds
<1>1. time \in Nat /\ Window[k] \in Nat /\ Limit[k] \in Nat
  BY LimitAssumption DEF IInv, TypeOK
<1>2. IsFiniteSet(hits[k]) /\ Cardinality(hits[k]) <= Limit[k]
  BY DEF IInv, BucketBound
<1>3. After(grants[k], time - Window[k]) \subseteq hits[k]
  <2>1. ASSUME NEW g \in grants[k], g.at > time - Window[k] PROVE g \in hits[k]
    <3>1. g.at \in Nat
      BY DEF IInv, TypeOK, Hit
    <3>2. g \notin hits[k] => g.at <= time - Window[k]
      BY DEF IInv, Forgotten
    <3>3. QED
      BY <1>1, <2>1, <3>1, <3>2
  <2>2. QED
    BY <2>1 DEF After
<1>4. Cardinality(After(grants[k], time - Window[k])) <= Cardinality(hits[k])
  BY <1>2, <1>3, FS_Subset
<1>5. /\ Cardinality(hits[k]) \in Nat
      /\ Cardinality(After(grants[k], time - Window[k])) \in Nat
  BY <1>2, <1>3, FS_Subset, FS_CardinalityType
<1>6. QED
  BY <1>1, <1>2, <1>4, <1>5

-----------------------------------------------------------------------------
(* The variables always have their types, and a bucket holds only grants. *)
THEOREM TypeCorrect == Spec => []TypeOK
<1>1. IInv => TypeOK
  BY DEF IInv
<1>2. QED
  BY <1>1, InitEstablishes, NextKeeps, PTL DEF Spec

(* For every number of requests and keys, all limits, all windows no      *)
(* longer than the buckets live and any delay between the clock and the    *)
(* mutex: at no moment have more than Limit requests been allowed in the   *)
(* window that ends then (rateLimiter.Allow).                              *)
THEOREM LimitHolds == Spec => []WindowHolds
  BY InitEstablishes, NextKeeps, InvariantLimits, PTL DEF Spec

(* A request that leaves Allow without a grant was refused. *)
LEMMA RefusedIsRefuse ==
  ASSUME IInv, Next, NEW r \in Requests,
         call[r] # NoCall, call'[r] = NoCall, grants' = grants
  PROVE  Refuse(r)
<1> DEFINE k == call[r].key
           now == call[r].at
<1>1. k \in Keys
  BY LookFacts
<1>2. call \in [Requests -> Call \cup {NoCall}] /\ grants \in [Keys -> SUBSET Hit]
  BY DEF IInv, TypeOK
<1>3. CASE Grant(r)
  <2>1. grants'[k] = grants[k] \cup {NewHit(k, now)}
    BY <1>1, <1>2, <1>3 DEF Grant
  <2>2. NewHit(k, now) \in grants[k]
    BY <2>1
  <2>3. NewHit(k, now).no = Cardinality(grants[k])
    BY DEF NewHit
  <2>4. Cardinality(grants[k]) \in Nat
    BY <1>1, FS_CardinalityType DEF IInv, BucketBound
  <2>5. NewHit(k, now).no < Cardinality(grants[k])
    BY <1>1, <2>2 DEF IInv, Numbered
  <2>6. QED
    BY <2>3, <2>4, <2>5
<1>4. ASSUME NEW q \in Requests \ {r}, Grant(q) \/ Refuse(q) PROVE FALSE
  BY <1>2, <1>4 DEF Grant, Refuse
<1>5. ASSUME NEW q \in Requests, NEW c \in Keys, Arrive(q, c) PROVE FALSE
  <2>1. call' = [call EXCEPT ![q] = [key |-> c, at |-> time]] /\ call[q] = NoCall
    BY <1>5 DEF Arrive
  <2>2. QED
    BY <1>2, <2>1
<1>6. CASE Tick
  BY <1>6 DEF Tick
<1>7. QED
  BY <1>3, <1>4, <1>5, <1>6 DEF Next

(* A refused request finds Limit grants in the window before its time. *)
LEMMA RefusalNeedsGrants == IInv /\ [Next]_vars => [RefusalStep]_vars
<1> SUFFICES ASSUME IInv, Next, NEW r \in Requests,
                    call[r] # NoCall, call'[r] = NoCall, grants' = grants
             PROVE  LET k == call[r].key IN
                    Cardinality(After(grants[k], call[r].at - Window[k]))
                      >= Limit[k]
  BY DEF RefusalStep
<1> DEFINE k == call[r].key
           now == call[r].at
<1>1. /\ k \in Keys /\ now \in Nat
      /\ Cardinality(Recent(k, now)) \in Nat
      /\ \A q \in Keys : /\ Swept(q, now) \subseteq hits[q]
                         /\ hits[q] \subseteq grants[q]
                         /\ Limit[q] \in Nat
  BY LookFacts
<1>2. IsFiniteSet(After(grants[k], now - Window[k]))
  BY <1>1, AfterSelects, FS_Subset DEF IInv, BucketBound
<1>3. Cardinality(Recent(k, now)) >= Limit[k]
  BY RefusedIsRefuse DEF Refuse
<1>4. Recent(k, now) \subseteq After(grants[k], now - Window[k])
  BY <1>1 DEF Recent, After
<1>5. /\ Cardinality(Recent(k, now))
           <= Cardinality(After(grants[k], now - Window[k]))
      /\ Cardinality(After(grants[k], now - Window[k])) \in Nat
  BY <1>2, <1>4, FS_Subset, FS_CardinalityType
<1>6. QED
  BY <1>1, <1>3, <1>5

(* No request is refused below the limit, for all limits and windows: the *)
(* hits a bucket keeps are grants, and a refusal counts only those after  *)
(* its cutoff.                                                             *)
THEOREM NoRefusalBelowLimit == Spec => RefusalJustified
<1>1. IInv /\ [Next]_vars => [RefusalStep]_vars
  BY RefusalNeedsGrants
<1>2. QED
  BY <1>1, InitEstablishes, NextKeeps, PTL DEF Spec, RefusalJustified

-----------------------------------------------------------------------------
(* A set of numbers has a least one, so a full bucket has a first hit.      *)
LEMMA LeastNumber ==
  ASSUME NEW T \in SUBSET Nat, T # {}
  PROVE  \E x \in T : \A y \in T : x <= y
<1> DEFINE R == {p \in Nat \X Nat : p[1] < p[2]}
<1>1. IsWellFoundedOn(R, Nat)
  BY NatLessThanWellFounded DEF OpToRel
<1>2. PICK x \in T : \A y \in T : <<y, x>> \notin R
  <2> HIDE DEF R
  <2>1. QED
    BY <1>1, WFMin
<1>3. ASSUME NEW y \in T PROVE x <= y
  <2>1. <<y, x>> \in Nat \X Nat /\ <<y, x>>[1] = y /\ <<y, x>>[2] = x
    OBVIOUS
  <2>2. ~(y < x)
    BY <1>2, <2>1
  <2>3. QED
    BY <2>2
<1>4. QED
  BY <1>3

LEMMA WholeSeconds ==
  ASSUME NEW s \in Nat \ {0}, NEW w \in Nat
  PROVE  w \div s \in Nat /\ (w \div s + 1) * s \in Nat /\ w < (w \div s + 1) * s
  OBVIOUS

(* The hit the answer is computed from has left the window by then.         *)
LEMMA RetryFindsRoom == IInv /\ [Next]_vars => [RetryStep]_vars
<1> SUFFICES ASSUME IInv, Next, NEW r \in Requests,
                    call[r] # NoCall, call'[r] = NoCall, grants' = grants
             PROVE  LET k == call[r].key
                        again == call[r].at + (RetryHeader(k, call[r].at) + 1) * Second
                    IN Cardinality(After(hits'[k], again - Window[k])) < Limit[k]
  BY DEF RetryStep
<1> DEFINE k == call[r].key
           now == call[r].at
           R == Recent(k, now)
           first == CHOOSE h \in R : \A x \in R : h.no <= x.no
           wait == first.at + Window[k] - now
           w == RetryAfter(k, now)
           again == now + (RetryHeader(k, now) + 1) * Second
           A == After(hits'[k], again - Window[k])
<1>1. /\ k \in Keys /\ now \in Nat /\ IsFiniteSet(R) /\ Cardinality(R) \in Nat
      /\ Limit[k] \in Nat \ {0} /\ Window[k] \in Nat /\ Second \in Nat \ {0}
  BY LookFacts, LimitAssumption, BoundAssumption
<1>2. Refuse(r)
  BY RefusedIsRefuse
<1>3. R \subseteq hits[k] /\ hits[k] \subseteq Hit
  BY <1>1, RecentSelects DEF IInv, TypeOK
<1>4. Cardinality(R) >= Limit[k] /\ hits'[k] = R
  BY <1>1, <1>2 DEF Refuse, BucketIs
<1>5. Cardinality(R) <= Limit[k]
  <2>1. IsFiniteSet(hits[k]) /\ Cardinality(hits[k]) <= Limit[k]
    BY <1>1 DEF IInv, BucketBound
  <2>2. Cardinality(R) <= Cardinality(hits[k]) /\ Cardinality(hits[k]) \in Nat
    BY <1>3, <2>1, FS_Subset, FS_CardinalityType
  <2>3. QED
    BY <1>1, <2>1, <2>2
<1>6. R # {}
  BY <1>1, <1>4, FS_EmptySet
<1>7. first \in R
  <2> DEFINE T == {h.no : h \in R}
  <2>1. T \in SUBSET Nat /\ T # {}
    BY <1>3, <1>6 DEF Hit
  <2>2. PICK n \in T : \A m \in T : n <= m
    BY <2>1, LeastNumber
  <2>3. \E h \in R : \A x \in R : h.no <= x.no
    BY <2>2
  <2>4. QED
    BY <2>3
<1>8. first.at \in Nat /\ wait \in Int
  BY <1>1, <1>3, <1>7 DEF Hit
<1>9. w \in Nat /\ w >= wait
  <2>1. w = IF wait < Second THEN Second ELSE wait
    BY DEF RetryAfter
  <2> HIDE DEF w, wait
  <2>2. CASE wait < Second
    BY <1>1, <1>8, <2>1, <2>2
  <2>3. CASE ~(wait < Second)
    BY <1>1, <1>8, <2>1, <2>3
  <2>4. QED
    BY <2>2, <2>3
<1>10. RetryHeader(k, now) = w \div Second
  BY DEF RetryHeader
<1> HIDE DEF w, wait, first
<1>11. again \in Nat /\ again > now + w
  <2>1. /\ (w \div Second + 1) * Second \in Nat
        /\ w < (w \div Second + 1) * Second
    BY <1>1, <1>9, WholeSeconds
  <2>2. again = now + (w \div Second + 1) * Second
    BY <1>10
  <2> HIDE DEF again
  <2>3. QED
    BY <1>1, <1>9, <2>1, <2>2
<1> HIDE DEF again
<1>12. ~(first.at > again - Window[k])
  BY <1>1, <1>8, <1>9, <1>11 DEF wait
<1>13. A \subseteq R \ {first}
  BY <1>4, <1>12 DEF After
<1>14. IsFiniteSet(R \ {first}) /\ Cardinality(R \ {first}) = Cardinality(R) - 1
  BY <1>1, <1>7, FS_RemoveElement
<1>15. Cardinality(A) <= Cardinality(R \ {first}) /\ Cardinality(A) \in Nat
  BY <1>13, <1>14, FS_Subset, FS_CardinalityType
<1>16. Cardinality(A) < Limit[k]
  BY <1>1, <1>5, <1>14, <1>15
<1>17. QED
  BY <1>16 DEF again

(* A refused client that waits a second more than its Retry-After header    *)
(* says finds room, for every limit and window, as the oldest hit of its    *)
(* full bucket has left the window by then (rateLimiter.Allow and           *)
(* enforceRateLimit).                                                       *)
THEOREM RetryAfterIsEnough == Spec => RetryAfterWorks
<1>1. IInv /\ [Next]_vars => [RetryStep]_vars
  BY RetryFindsRoom
<1>2. QED
  BY <1>1, InitEstablishes, NextKeeps, PTL DEF Spec, RetryAfterWorks
=============================================================================
