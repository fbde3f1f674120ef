-------------------------- MODULE DashboardProofs --------------------------
(***************************************************************************)
(* Theorems about Dashboard, for any targets, rules, saves, deletions,     *)
(* samples, page changes and lost requests.                                *)
(*                                                                         *)
(* The functions of OverviewView add rules to lists one by one with folds. *)
(* What a fold has after n elements is proved by induction over n, as the  *)
(* absence of a least counterexample (LeastNumber, UpTo); that the fold is *)
(* the function it is defined as follows from RecursionExists.  Then come  *)
(* the facts about the view (up to StableIsWell), the steps of Dashboard   *)
(* against each part of IInv, and the theorems.                            *)
(***************************************************************************)
EXTENDS Dashboard, FiniteSetTheorems, SequenceTheorems, TLAPS

(* A set of numbers has a least one: induction over numbers is the search   *)
(* for the least counterexample.                                             *)
LEMMA LeastNumber ==
  ASSUME NEW T \in SUBSET Nat, T # {}
  PROVE  \E x \in T : \A y \in T : x <= y
<1> DEFINE R == {p \in Nat \X Nat : p[1] < p[2]}
<1>1. IsWellFoundedOn(R, Nat)
  BY NatLessThanWellFounded DEF OpToRel
<1>2. PICK x \in T : \A y \in T : <<y, x>> \notin R
  <2> HIDE DEF R
  <2>1. QED
    BY <1>1, WFMin
<1>3. ASSUME NEW y \in T PROVE x <= y
  <2>1. <<y, x>> \in Nat \X Nat /\ <<y, x>>[1] = y /\ <<y, x>>[2] = x
    OBVIOUS
  <2>2. ~(y < x)
    BY <1>2, <2>1
  <2>3. QED
    BY <2>2
<1>4. QED
  BY <1>3

(* What holds of 0, and of each number up to m when it holds of the one     *)
(* before, holds of all of them.                                             *)
LEMMA UpTo ==
  ASSUME NEW m \in Nat, NEW T \in SUBSET (0 .. m), 0 \in T,
         \A k \in 0 .. m : k > 0 /\ k - 1 \in T => k \in T
  PROVE  T = 0 .. m
<1> DEFINE U == (0 .. m) \ T
<1>1. SUFFICES ASSUME U # {} PROVE FALSE
  OBVIOUS
<1>2. PICK k \in U : \A j \in U : k <= j
  <2>1. U \in SUBSET Nat
    OBVIOUS
  <2> HIDE DEF U
  <2>2. QED
    BY <1>1, <2>1, LeastNumber
<1>3. k > 0 /\ k - 1 \in 0 .. m
  BY <1>2
<1>4. k - 1 \in T
  BY <1>2, <1>3
<1>5. QED
  BY <1>2, <1>3, <1>4

(* A function on the subsets of a finite set may be defined by recursion    *)
(* over smaller subsets.                                                     *)
Recursion(S, D, base, F, p) ==
  /\ IsFiniteSet(S) /\ base \in D
  /\ F \in [(SUBSET S) \X D -> D] /\ p \in [SUBSET S -> SUBSET S]
  /\ \A s \in SUBSET S : s # {} => p[s] \subseteq s /\ p[s] # s
Solves(g, S, D, base, F, p) ==
  /\ g \in [SUBSET S -> D]
  /\ \A s \in SUBSET S : g[s] = IF s = {} THEN base ELSE F[<<s, g[p[s]]>>]

(* A function that is given by recursion over the subsets of a finite set, each *)
(* from a smaller one, exists: by induction over their sizes.               *)
LEMMA RecursionExists ==
  ASSUME NEW S, NEW D, NEW base, NEW F, NEW p, Recursion(S, D, base, F, p)
  PROVE  \E g : Solves(g, S, D, base, F, p)
<1>0. /\ IsFiniteSet(S) /\ base \in D
      /\ F \in [(SUBSET S) \X D -> D] /\ p \in [SUBSET S -> SUBSET S]
      /\ \A s \in SUBSET S : s # {} => p[s] \subseteq s /\ p[s] # s
  BY DEF Recursion
<1> DEFINE Below(n) == {s \in SUBSET S : Cardinality(s) <= n}
           SolvesTo(g, n) == \A s \in Below(n) : g[s] = IF s = {} THEN base ELSE F[<<s, g[p[s]]>>]
           m == Cardinality(S)
           T == {n \in 0 .. m : \E g \in [Below(n) -> D] : SolvesTo(g, n)}
<1>1. /\ m \in Nat /\ Cardinality({}) = 0
      /\ \A s \in SUBSET S : IsFiniteSet(s) /\ Cardinality(s) \in Nat /\ Cardinality(s) <= m
      /\ \A s \in SUBSET S : Cardinality(s) = 0 => s = {}
  BY <1>0, FS_CardinalityType, FS_Subset, FS_EmptySet
<1>2. \A s \in SUBSET S : s # {} => Cardinality(p[s]) < Cardinality(s)
  <2> TAKE s \in SUBSET S
  <2> HAVE s # {}
  <2>1. p[s] \in SUBSET s /\ p[s] # s /\ IsFiniteSet(s)
    BY <1>0, <1>1
  <2>2. Cardinality(p[s]) <= Cardinality(s) /\ Cardinality(p[s]) # Cardinality(s)
    BY <2>1, FS_Subset
  <2>3. Cardinality(s) \in Nat /\ Cardinality(p[s]) \in Nat
    BY <1>0, <1>1
  <2>4. QED
    BY <2>2, <2>3
<1>3. 0 \in T
  <2>1. [s \in Below(0) |-> base] \in [Below(0) -> D]
    BY <1>0
  <2>2. \A s \in Below(0) : s = {}
    BY <1>1
  <2>3. SolvesTo([s \in Below(0) |-> base], 0)
    BY <2>2
  <2> HIDE DEF Below, SolvesTo
  <2>4. QED
    BY <1>1, <2>1, <2>3
<1>4. ASSUME NEW n \in 0 .. m, n > 0, n - 1 \in T PROVE n \in T
  <2>1. PICK h \in [Below(n - 1) -> D] : SolvesTo(h, n - 1)
    BY <1>4
  <2> DEFINE g == [s \in Below(n) |-> IF s = {} THEN base ELSE F[<<s, h[p[s]]>>]]
  <2>2. \A s \in Below(n) : s # {} => p[s] \in Below(n - 1)
    BY <1>0, <1>1, <1>2
  <2>3. g \in [Below(n) -> D]
    BY <1>0, <2>1, <2>2
  <2>4. \A s \in Below(n - 1) : s \in Below(n) /\ g[s] = h[s]
    BY <1>1, <2>1
  <2> HIDE DEF Below
  <2>5. ASSUME NEW s \in Below(n) PROVE g[s] = IF s = {} THEN base ELSE F[<<s, g[p[s]]>>]
    BY <2>2, <2>4
  <2>6. SolvesTo(g, n)
    BY <2>5
  <2> HIDE DEF g, SolvesTo
  <2>7. QED
    BY <2>3, <2>6
<1>5. m \in T
  <2> HIDE DEF m, T
  <2>1. T \in SUBSET (0 .. m)
    BY DEF T
  <2>2. QED
    BY <1>1, <1>3, <1>4, <2>1, UpTo
<1>6. Below(m) = SUBSET S
  BY <1>1
<1>7. PICK g \in [SUBSET S -> D] : SolvesTo(g, m)
  BY <1>5, <1>6
<1>8. Solves(g, S, D, base, F, p)
  BY <1>6, <1>7 DEF Solves
<1>9. QED
  BY <1>8

(* The greatest element, by which FoldLeft chooses the next one.            *)
LEMMA MaxFacts ==
  ASSUME NEW n \in Nat
  PROVE  /\ \A s \in SUBSET (1 .. n) : s # {} => Max(s) \in s
         /\ \A k \in 1 .. n : Max(1 .. k) = k
<1>1. ASSUME NEW s \in SUBSET (1 .. n), s # {} PROVE Max(s) \in s
  <2> DEFINE T == {n - x : x \in s}
  <2>1. T \in SUBSET Nat /\ T # {}
    <3>1. \A y \in s : n - y \in Nat
      BY <1>1
    <3>2. QED
      BY <1>1, <3>1
  <2>2. PICK t \in T : \A u \in T : t <= u
    <3> HIDE DEF T
    <3>1. QED
      BY <2>1, LeastNumber
  <2>3. PICK x \in s : t = n - x
    OBVIOUS
  <2>4. \A y \in s : n - x <= n - y
    BY <2>2, <2>3
  <2>5. \A y \in s : x >= y
    BY <2>4
  <2>6. QED
    BY <2>5 DEF Max
<1>2. ASSUME NEW k \in 1 .. n PROVE Max(1 .. k) = k
  <2>1. 1 .. k \in SUBSET (1 .. n) /\ 1 .. k # {} /\ k \in 1 .. k
    OBVIOUS
  <2>2. \E x \in 1 .. k : \A y \in 1 .. k : x >= y
    BY <2>1
  <2>3. Max(1 .. k) \in 1 .. k /\ \A y \in 1 .. k : Max(1 .. k) >= y
    BY <2>2 DEF Max
  <2>4. QED
    BY <2>1, <2>3
<1>3. QED
  BY <1>1, <1>2

(* The values a fold from the left goes through.                            *)
Stepping(n, D, base, G) ==
  n \in Nat /\ base \in D /\ G \in [(1 .. n) \X D -> D]
Steps(g, n, D, base, G) ==
  /\ g \in [SUBSET (1 .. n) -> D]
  /\ \A s \in SUBSET (1 .. n) :
       g[s] = IF s = {} THEN base ELSE G[<<Max(s), g[s \ {Max(s)}]>>]

(* A fold over 1 .. n exists, taken from the greatest number down.          *)
LEMMA StepsExist ==
  ASSUME NEW n, NEW D, NEW base, NEW G, Stepping(n, D, base, G)
  PROVE  \E g : Steps(g, n, D, base, G)
<1>0. n \in Nat /\ base \in D /\ G \in [(1 .. n) \X D -> D]
  BY DEF Stepping
<1> DEFINE X == 1 .. n
           F == [q \in (SUBSET X) \X D |->
                   IF q[1] = {} THEN base ELSE G[<<Max(q[1]), q[2]>>]]
           p == [s \in SUBSET X |-> s \ {Max(s)}]
<1>1. IsFiniteSet(X)
  BY <1>0, FS_Interval
<1>2. \A s \in SUBSET X : s # {} => Max(s) \in s
  BY <1>0, MaxFacts
<1>3. F \in [(SUBSET X) \X D -> D]
  BY <1>0, <1>2
<1>4. p \in [SUBSET X -> SUBSET X]
      /\ \A s \in SUBSET X : s # {} => p[s] \subseteq s /\ p[s] # s
  BY <1>2
<1>5. PICK g : Solves(g, X, D, base, F, p)
  <2> HIDE DEF F, p, X
  <2>1. Recursion(X, D, base, F, p)
    BY <1>0, <1>1, <1>3, <1>4 DEF Recursion
  <2>2. QED
    BY <2>1, RecursionExists
<1>6. g \in [SUBSET X -> D]
  BY <1>5 DEF Solves
<1>7. ASSUME NEW s \in SUBSET X
      PROVE  g[s] = IF s = {} THEN base ELSE G[<<Max(s), g[s \ {Max(s)}]>>]
  <2>1. g[s] = IF s = {} THEN base ELSE F[<<s, g[p[s]]>>]
    BY <1>5 DEF Solves
  <2>2. s # {} => p[s] = s \ {Max(s)} /\ <<s, g[p[s]]>> \in (SUBSET X) \X D
    BY <1>4, <1>6
  <2>3. QED
    BY <2>1, <2>2
<1>8. QED
  BY <1>6, <1>7 DEF Steps

-----------------------------------------------------------------------------
(* uniqueAlertTargets and the merges.                                       *)
LEMMA AddNewType ==
  ASSUME NEW S, NEW s \in Seq(S), NEW x \in S
  PROVE  AddNew(s, x) \in Seq(S)
  BY DEF AddNew

Adding(h, S, base, f) ==
  /\ h \in [0 .. Len(f) -> Seq(S)]
  /\ h[0] = base /\ h[Len(f)] = AddAll(base, f)
  /\ \A k \in 1 .. Len(f) : h[k] = AddNew(h[k - 1], f[k])

(* AddAll is reached by adding the rules one after the other.               *)
LEMMA AddAllSteps ==
  ASSUME NEW S, NEW base \in Seq(S), NEW f \in Seq(S)
  PROVE  \E h : Adding(h, S, base, f)
<1> DEFINE n == Len(f)
           X == DOMAIN f
           G == [q \in X \X Seq(S) |-> AddNew(q[2], f[q[1]])]
           Rec(g) == [s \in SUBSET X |-> IF s = {} THEN base
                                         ELSE AddNew(g[s \ {Max(s)}], f[Max(s)])]
           iter == CHOOSE g : g = Rec(g)
<1>1. n \in Nat /\ X = 1 .. n /\ \A i \in X : f[i] \in S
  OBVIOUS
<1>2. \E g : g = Rec(g)
  <2>1. G \in [(1 .. n) \X Seq(S) -> Seq(S)]
    BY <1>1, AddNewType
  <2>2. PICK g : Steps(g, n, Seq(S), base, G)
    <3> HIDE DEF G, X, n
    <3>1. Stepping(n, Seq(S), base, G)
      BY <1>1, <2>1 DEF Stepping
    <3>2. QED
      BY <3>1, StepsExist
  <2>3. ASSUME NEW s \in SUBSET X PROVE g[s] = Rec(g)[s]
    <3>1. s # {} => <<Max(s), g[s \ {Max(s)}]>> \in X \X Seq(S)
      BY <1>1, <2>2, MaxFacts DEF Steps
    <3>2. QED
      BY <1>1, <2>2, <3>1 DEF Steps
  <2>4. g = Rec(g)
    BY <1>1, <2>2, <2>3 DEF Steps
  <2>5. QED
    BY <2>4
<1>3. iter = Rec(iter)
  BY <1>2
<1>4. AddAll(base, f) = iter[X]
  BY DEF AddAll, FoldLeft, MapThenFoldSet
<1>5. \A s \in SUBSET X : iter[s] = IF s = {} THEN base
                                       ELSE AddNew(iter[s \ {Max(s)}], f[Max(s)])
  <2> HIDE DEF iter
  <2>1. QED
    BY <1>3
<1> HIDE DEF iter, X, G, Rec
<1> DEFINE h == [k \in 0 .. n |-> iter[1 .. k]]
<1>6. h[0] = base /\ h[n] = AddAll(base, f)
  <2>1. 1 .. 0 = {} /\ {} \in SUBSET X
    OBVIOUS
  <2>2. iter[1 .. 0] = base
    BY <1>5, <2>1
  <2>3. QED
    BY <1>1, <1>4, <2>2
<1>7. ASSUME NEW k \in 1 .. n PROVE h[k] = AddNew(h[k - 1], f[k])
  <2>1. 1 .. k \in SUBSET X /\ 1 .. k # {}
    <3>1. n \in Nat /\ X = 1 .. n /\ k \in 1 .. n
      BY <1>1
    <3> HIDE DEF n
    <3>2. \A i \in 1 .. k : i \in 1 .. n
      BY <3>1
    <3>3. k \in 1 .. k
      BY <3>1
    <3>4. QED
      BY <3>1, <3>2, <3>3
  <2>0. Max(1 .. k) = k
    BY <1>1, MaxFacts
  <2>2. (1 .. k) \ {k} = 1 .. (k - 1)
    OBVIOUS
  <2>3. iter[1 .. k] = AddNew(iter[1 .. (k - 1)], f[k])
    BY <1>5, <2>0, <2>1, <2>2
  <2>4. QED
    BY <1>1, <2>3
<1>8. h \in [0 .. n -> Seq(S)]
  <2> DEFINE T == {k \in 0 .. n : h[k] \in Seq(S)}
  <2>1. T \in SUBSET (0 .. n) /\ 0 \in T
    BY <1>1, <1>6
  <2>2. ASSUME NEW k \in 0 .. n, k > 0, k - 1 \in T PROVE k \in T
    <3>1. k \in 1 .. n /\ f[k] \in S /\ h[k - 1] \in Seq(S)
      BY <1>1, <2>2
    <3>2. AddNew(h[k - 1], f[k]) \in Seq(S)
      BY <3>1, AddNewType
    <3>3. QED
      BY <1>7, <3>1, <3>2
  <2>3. T = 0 .. n
    <3> HIDE DEF T
    <3>1. QED
      BY <1>1, <2>1, <2>2, UpTo
  <2>4. QED
    BY <2>3
<1>9. Adding(h, S, base, f)
  <2> HIDE DEF h
  <2>1. QED
    BY <1>6, <1>7, <1>8 DEF Adding
<1>10. QED
  BY <1>9
(* No two entries have the same target.                                     *)
Distinct(s) == \A i, j \in DOMAIN s : s[i].target = s[j].target => i = j

(* No target comes twice, whatever is added.                                *)
LEMMA AddNewDistinct ==
  ASSUME NEW S, NEW s \in Seq(S), NEW x \in S, Distinct(s)
  PROVE  Distinct(AddNew(s, x)) /\ Len(AddNew(s, x)) <= Len(s) + 1
<1>1. CASE \E i \in DOMAIN s : s[i].target = x.target
  BY <1>1 DEF AddNew
<1>2. CASE ~\E i \in DOMAIN s : s[i].target = x.target
  <2> DEFINE t == Append(s, x)
  <2>1. /\ AddNew(s, x) = t /\ t \in Seq(S) /\ Len(t) = Len(s) + 1
        /\ DOMAIN t = 1 .. Len(s) + 1 /\ DOMAIN s = 1 .. Len(s) /\ Len(s) \in Nat
        /\ t[Len(s) + 1] = x /\ \A i \in 1 .. Len(s) : t[i] = s[i]
    BY <1>2 DEF AddNew
  <2> HIDE DEF t
  <2>2. ASSUME NEW i \in DOMAIN t, NEW j \in DOMAIN t, t[i].target = t[j].target
        PROVE  i = j
    BY <1>2, <2>1, <2>2 DEF Distinct
  <2>3. QED
    BY <2>1, <2>2 DEF Distinct
<1>3. QED
  BY <1>1, <1>2

(* What uniqueAlertTargets and the merges return: rules of different targets. *)
LEMMA AddAllFacts ==
  ASSUME NEW S, NEW base \in Seq(S), NEW f \in Seq(S), Distinct(base)
  PROVE  /\ AddAll(base, f) \in Seq(S) /\ Distinct(AddAll(base, f))
         /\ Len(AddAll(base, f)) <= Len(base) + Len(f)
<1> DEFINE n == Len(f)
<1>0. n \in Nat /\ Len(base) \in Nat /\ \A k \in 1 .. n : f[k] \in S
  OBVIOUS
<1>1. PICK h : Adding(h, S, base, f)
  BY AddAllSteps
<1>2. /\ h \in [0 .. n -> Seq(S)] /\ h[0] = base /\ h[n] = AddAll(base, f)
      /\ \A k \in 1 .. n : h[k] = AddNew(h[k - 1], f[k])
  BY <1>1 DEF Adding
<1> HIDE DEF n
<1> DEFINE T == {k \in 0 .. n : Distinct(h[k]) /\ Len(h[k]) <= Len(base) + k}
<1>3. T \in SUBSET (0 .. n) /\ 0 \in T
  BY <1>0, <1>2
<1>4. ASSUME NEW k \in 0 .. n, k > 0, k - 1 \in T PROVE k \in T
  <2>1. k \in 1 .. n /\ k - 1 \in 0 .. n /\ f[k] \in S /\ h[k - 1] \in Seq(S)
    BY <1>0, <1>2, <1>4
  <2>2. Distinct(h[k]) /\ Len(h[k]) <= Len(h[k - 1]) + 1
    BY <1>2, <1>4, <2>1, AddNewDistinct
  <2>3. Len(h[k - 1]) <= Len(base) + (k - 1) /\ Len(h[k - 1]) \in Nat /\ Len(h[k]) \in Nat
    BY <1>2, <1>4, <2>1
  <2>4. QED
    BY <1>0, <2>2, <2>3
<1>5. T = 0 .. n
  <2> HIDE DEF T
  <2>1. QED
    BY <1>0, <1>3, <1>4, UpTo
<1>6. n \in T
  <2> HIDE DEF T
  <2>1. QED
    BY <1>0, <1>5
<1>7. Distinct(h[n]) /\ Len(h[n]) <= Len(base) + n /\ h[n] \in Seq(S)
  BY <1>0, <1>2, <1>6
<1>8. QED
  BY <1>2, <1>7 DEF n

(* The rules counted as tracked.                                            *)
LEMMA AddEnabledType ==
  ASSUME NEW S, NEW s \in Seq(S), NEW x \in S
  PROVE  AddEnabled(s, x) \in Seq(S)
  BY DEF AddEnabled

(* EnabledOf is reached by looking at the rules one after the other.        *)
LEMMA EnabledSteps ==
  ASSUME NEW S, NEW f \in Seq(S)
  PROVE  \E h \in [0 .. Len(f) -> Seq(S)] :
           /\ h[0] = <<>> /\ h[Len(f)] = EnabledOf(f)
           /\ \A k \in 1 .. Len(f) : h[k] = AddEnabled(h[k - 1], f[k])
<1> DEFINE n == Len(f)
           X == DOMAIN f
           base == <<>>
           G == [q \in X \X Seq(S) |-> AddEnabled(q[2], f[q[1]])]
           Rec(g) == [s \in SUBSET X |-> IF s = {} THEN base
                                         ELSE AddEnabled(g[s \ {Max(s)}], f[Max(s)])]
           iter == CHOOSE g : g = Rec(g)
<1>1. n \in Nat /\ X = 1 .. n /\ base \in Seq(S) /\ \A i \in X : f[i] \in S
  OBVIOUS
<1>2. \E g : g = Rec(g)
  <2>1. G \in [(1 .. n) \X Seq(S) -> Seq(S)]
    BY <1>1, AddEnabledType
  <2>2. PICK g : Steps(g, n, Seq(S), base, G)
    <3> HIDE DEF G, X, n, base
    <3>1. Stepping(n, Seq(S), base, G)
      BY <1>1, <2>1 DEF Stepping
    <3>2. QED
      BY <3>1, StepsExist
  <2>3. ASSUME NEW s \in SUBSET X PROVE g[s] = Rec(g)[s]
    <3>1. s # {} => <<Max(s), g[s \ {Max(s)}]>> \in X \X Seq(S)
      BY <1>1, <2>2, MaxFacts DEF Steps
    <3>2. QED
      BY <1>1, <2>2, <3>1 DEF Steps
  <2>4. g = Rec(g)
    BY <1>1, <2>2, <2>3 DEF Steps
  <2>5. QED
    BY <2>4
<1>3. iter = Rec(iter)
  BY <1>2
<1>4. EnabledOf(f) = iter[X]
  BY DEF EnabledOf, FoldLeft, MapThenFoldSet
<1>5. \A s \in SUBSET X : iter[s] = IF s = {} THEN base
                                       ELSE AddEnabled(iter[s \ {Max(s)}], f[Max(s)])
  <2> HIDE DEF iter
  <2>1. QED
    BY <1>3
<1> HIDE DEF iter, base, X, G, Rec
<1> DEFINE h == [k \in 0 .. n |-> iter[1 .. k]]
<1>6. h[0] = base /\ h[n] = EnabledOf(f)
  <2>1. 1 .. 0 = {} /\ {} \in SUBSET X
    OBVIOUS
  <2>2. iter[1 .. 0] = base
    BY <1>5, <2>1
  <2>3. QED
    BY <1>1, <1>4, <2>2
<1>7. ASSUME NEW k \in 1 .. n PROVE h[k] = AddEnabled(h[k - 1], f[k])
  <2>1. 1 .. k \in SUBSET X /\ 1 .. k # {}
    <3>1. n \in Nat /\ X = 1 .. n /\ k \in 1 .. n
      BY <1>1
    <3> HIDE DEF n
    <3>2. \A i \in 1 .. k : i \in 1 .. n
      BY <3>1
    <3>3. k \in 1 .. k
      BY <3>1
    <3>4. QED
      BY <3>1, <3>2, <3>3
  <2>2. Max(1 .. k) = k
    BY <1>1, MaxFacts
  <2>3. (1 .. k) \ {k} = 1 .. (k - 1)
    OBVIOUS
  <2>4. iter[1 .. k] = AddEnabled(iter[1 .. (k - 1)], f[k])
    BY <1>5, <2>1, <2>2, <2>3
  <2>5. QED
    BY <1>1, <2>4
<1>8. h \in [0 .. n -> Seq(S)]
  <2> DEFINE T == {k \in 0 .. n : h[k] \in Seq(S)}
  <2>1. T \in SUBSET (0 .. n) /\ 0 \in T
    BY <1>1, <1>6
  <2>2. ASSUME NEW k \in 0 .. n, k > 0, k - 1 \in T PROVE k \in T
    <3>1. k \in 1 .. n /\ f[k] \in S /\ h[k - 1] \in Seq(S)
      BY <1>1, <2>2
    <3>2. AddEnabled(h[k - 1], f[k]) \in Seq(S)
      BY <3>1, AddEnabledType
    <3>3. QED
      BY <1>7, <3>1, <3>2
  <2>3. T = 0 .. n
    <3> HIDE DEF T
    <3>1. QED
      BY <1>1, <2>1, <2>2, UpTo
  <2>4. QED
    BY <2>3
<1>9. QED
  <2> HIDE DEF h
  <2>1. QED
    BY <1>6, <1>7, <1>8 DEF base

(* The filter keeps as many rules as are enabled.                           *)
LEMMA EnabledFacts ==
  ASSUME NEW S, NEW f \in Seq(S)
  PROVE  /\ EnabledOf(f) \in Seq(S)
         /\ Len(EnabledOf(f)) = Cardinality({i \in DOMAIN f : f[i].enabled})
<1> DEFINE n == Len(f)
           On(k) == {i \in 1 .. k : f[i].enabled}
<1>0. n \in Nat /\ DOMAIN f = 1 .. n
  OBVIOUS
<1>1. PICK h \in [0 .. n -> Seq(S)] :
        /\ h[0] = <<>> /\ h[n] = EnabledOf(f)
        /\ \A k \in 1 .. n : h[k] = AddEnabled(h[k - 1], f[k])
  BY EnabledSteps, Zenon
<1> HIDE DEF n
<1> DEFINE T == {k \in 0 .. n : Len(h[k]) = Cardinality(On(k))}
<1>2. T \in SUBSET (0 .. n) /\ 0 \in T
  <2>1. On(0) = {}
    OBVIOUS
  <2>2. QED
    BY <1>0, <1>1, <2>1, FS_EmptySet
<1>3. ASSUME NEW k \in 0 .. n, k > 0, k - 1 \in T PROVE k \in T
  <2>1. k \in 1 .. n /\ k - 1 \in 0 .. n /\ h[k - 1] \in Seq(S)
    BY <1>0, <1>1, <1>3
  <2>2. Len(h[k - 1]) = Cardinality(On(k - 1)) /\ h[k] = AddEnabled(h[k - 1], f[k])
    BY <1>1, <1>3, <2>1
  <2>3. CASE f[k].enabled
    <3>1. On(k) = On(k - 1) \cup {k} /\ k \notin On(k - 1)
      BY <2>1, <2>3
    <3>2. IsFiniteSet(On(k - 1))
      <4>1. IsFiniteSet(1 .. k - 1) /\ On(k - 1) \in SUBSET (1 .. k - 1)
        BY <2>1, FS_Interval
      <4> HIDE DEF On
      <4>2. QED
        BY <4>1, FS_Subset
    <3>3. Cardinality(On(k)) = Cardinality(On(k - 1)) + 1
      <4> HIDE DEF On
      <4>1. QED
        BY <3>1, <3>2, FS_AddElement
    <3>4. Len(h[k]) = Len(h[k - 1]) + 1
      BY <2>1, <2>2, <2>3 DEF AddEnabled
    <3>5. QED
      BY <2>2, <3>3, <3>4
  <2>4. CASE ~f[k].enabled
    <3>1. On(k) = On(k - 1)
      BY <2>1, <2>4
    <3>2. h[k] = h[k - 1]
      BY <2>2, <2>4 DEF AddEnabled
    <3>3. QED
      BY <2>2, <3>1, <3>2
  <2>5. QED
    BY <2>3, <2>4
<1>4. T = 0 .. n
  <2> HIDE DEF T
  <2>1. QED
    BY <1>0, <1>2, <1>3, UpTo
<1>5. n \in T
  <2> HIDE DEF T
  <2>1. QED
    BY <1>0, <1>4
<1>6. Len(h[n]) = Cardinality(On(n)) /\ h[n] \in Seq(S)
  BY <1>0, <1>1, <1>5
<1>7. QED
  BY <1>0, <1>1, <1>6

-----------------------------------------------------------------------------
(* ListAlertRules returns the rows that are stored.                         *)
Elems(s) == {s[i] : i \in DOMAIN s}

(* The elements of a finite set put in a sequence, and of two sequences.    *)
LEMMA SetToSeqFacts ==
  ASSUME NEW S, IsFiniteSet(S)
  PROVE  SetToSeq(S) \in Seq(S) /\ Elems(SetToSeq(S)) = S
<1> DEFINE n == Cardinality(S)
           f == SetToSeq(S)
<1>1. n \in Nat /\ ExistsBijection(1 .. n, S)
  BY FS_CardinalityType
<1>2. IsFiniteSet(1 .. n) /\ Cardinality(1 .. n) = n
  <2>1. 1 \in Int /\ n \in Int /\ (n >= 1 \/ n = 0)
    BY <1>1
  <2> HIDE DEF n
  <2>2. QED
    BY <2>1, FS_Interval
<1>3. f \in [1 .. n -> S] /\ IsInjective(f)
  <2>1. \E g \in [1 .. n -> S] : IsInjective(g)
    BY <1>1 DEF ExistsBijection, Bijection, Injection
  <2>2. QED
    BY <2>1 DEF SetToSeq
<1> HIDE DEF n, f
<1>4. f \in Injection(1 .. n, S)
  BY <1>3 DEF Injection
<1>5. f \in Surjection(1 .. n, S)
  BY <1>2, <1>4, FS_Injection DEF n
<1>6. f \in Seq(S) /\ DOMAIN f = 1 .. n
  BY <1>1, <1>3
<1>7. QED
  BY <1>5, <1>6 DEF Surjection, Elems, f

LEMMA ConcatElems ==
  ASSUME NEW S, NEW s \in Seq(S), NEW t \in Seq(S)
  PROVE  s \o t \in Seq(S) /\ Elems(s \o t) = Elems(s) \cup Elems(t)
<1> DEFINE c == s \o t
<1>1. /\ c \in Seq(S) /\ Len(s) \in Nat /\ Len(t) \in Nat
      /\ DOMAIN s = 1 .. Len(s) /\ DOMAIN t = 1 .. Len(t)
      /\ DOMAIN c = 1 .. Len(s) + Len(t)
      /\ \A i \in DOMAIN c : c[i] = IF i <= Len(s) THEN s[i] ELSE t[i - Len(s)]
  OBVIOUS
<1> HIDE DEF c
<1>2. ASSUME NEW x \in Elems(c) PROVE x \in Elems(s) \cup Elems(t)
  <2>1. PICK i \in DOMAIN c : x = c[i]
    BY DEF Elems
  <2>2. CASE i <= Len(s)
    BY <1>1, <2>1, <2>2 DEF Elems
  <2>3. CASE ~(i <= Len(s))
    <3>1. i - Len(s) \in DOMAIN t /\ x = t[i - Len(s)]
      BY <1>1, <2>1, <2>3
    <3>2. QED
      BY <3>1 DEF Elems
  <2>4. QED
    BY <2>2, <2>3
<1>3. ASSUME NEW i \in DOMAIN s PROVE s[i] \in Elems(c)
  <2>1. i \in DOMAIN c /\ c[i] = s[i]
    BY <1>1
  <2>2. QED
    BY <2>1 DEF Elems
<1>4. ASSUME NEW i \in DOMAIN t PROVE t[i] \in Elems(c)
  <2>1. i + Len(s) \in DOMAIN c /\ c[i + Len(s)] = t[i]
    BY <1>1
  <2>2. QED
    BY <2>1 DEF Elems
<1>5. Elems(c) = Elems(s) \cup Elems(t)
  BY <1>2, <1>3, <1>4 DEF Elems
<1>6. QED
  BY <1>1, <1>5 DEF c

Stored == /\ rules \in [Ids -> SUBSET Row] /\ \A i \in Ids : IsFiniteSet(rules[i])

(* ListAlertRules is reached id by id, the newest first.                    *)
LEMMA NewestSteps ==
  ASSUME Stored
  PROVE  \E h \in [0 .. MaxRules -> Seq(Row)] :
           /\ h[0] = <<>> /\ h[MaxRules] = ListAlertRules
           /\ \A k \in 1 .. MaxRules : h[k] = h[k - 1] \o SetToSeq(rules[MaxRules + 1 - k])
<1> DEFINE n == MaxRules
           X == DOMAIN [i \in Ids |-> i]
           base == <<>>
           G == [q \in X \X Seq(Row) |-> q[2] \o SetToSeq(rules[n + 1 - q[1]])]
           Rec(g) == [s \in SUBSET X |->
                        IF s = {} THEN base
                        ELSE g[s \ {Max(s)}]
                             \o SetToSeq(rules[n + 1 - [i \in Ids |-> i][Max(s)]])]
           iter == CHOOSE g : g = Rec(g)
<1>1. n \in Nat /\ X = 1 .. n /\ base \in Seq(Row)
  BY BoundAssumption DEF Ids
<1>2. \A i \in 1 .. n : SetToSeq(rules[n + 1 - i]) \in Seq(Row)
  <2> TAKE i \in 1 .. n
  <2>1. rules[n + 1 - i] \in SUBSET Row /\ IsFiniteSet(rules[n + 1 - i])
    BY <1>1 DEF Stored, Ids
  <2>2. SetToSeq(rules[n + 1 - i]) \in Seq(rules[n + 1 - i])
    BY <2>1, SetToSeqFacts
  <2>3. QED
    BY <2>1, <2>2
<1>3. \E g : g = Rec(g)
  <2>1. G \in [(1 .. n) \X Seq(Row) -> Seq(Row)]
    BY <1>1, <1>2
  <2>2. PICK g : Steps(g, n, Seq(Row), base, G)
    <3> HIDE DEF G, X, n, base
    <3>1. Stepping(n, Seq(Row), base, G)
      BY <1>1, <2>1 DEF Stepping
    <3>2. QED
      BY <3>1, StepsExist
  <2>3. ASSUME NEW s \in SUBSET X PROVE g[s] = Rec(g)[s]
    <3>1. s # {} => /\ <<Max(s), g[s \ {Max(s)}]>> \in X \X Seq(Row)
                    /\ [i \in Ids |-> i][Max(s)] = Max(s)
      BY <1>1, <2>2, MaxFacts DEF Steps, Ids
    <3>2. QED
      BY <1>1, <2>2, <3>1 DEF Steps
  <2>4. g = Rec(g)
    BY <1>1, <2>2, <2>3 DEF Steps
  <2>5. QED
    BY <2>4
<1>4. iter = Rec(iter)
  BY <1>3
<1>5. ListAlertRules = iter[X]
  BY DEF ListAlertRules, FoldLeft, MapThenFoldSet
<1>6. \A s \in SUBSET X : iter[s] = Rec(iter)[s]
  <2> HIDE DEF iter, Rec
  <2>1. QED
    BY <1>4
<1> HIDE DEF iter
<1>7. \A s \in SUBSET X : iter[s] = IF s = {} THEN base
        ELSE iter[s \ {Max(s)}] \o SetToSeq(rules[n + 1 - Max(s)])
  BY <1>1, <1>6, MaxFacts DEF Ids
<1> HIDE DEF X, G, Rec, base
<1> DEFINE h == [k \in 0 .. n |-> iter[1 .. k]]
<1>8. h[0] = base /\ h[n] = ListAlertRules
  <2>1. 1 .. 0 = {} /\ {} \in SUBSET X
    OBVIOUS
  <2>2. iter[1 .. 0] = base
    BY <1>7, <2>1
  <2>3. QED
    BY <1>1, <1>5, <2>2
<1>9. ASSUME NEW k \in 1 .. n
      PROVE  h[k] = h[k - 1] \o SetToSeq(rules[n + 1 - k])
  <2>1. 1 .. k \in SUBSET X /\ 1 .. k # {}
    <3>1. n \in Nat /\ X = 1 .. n /\ k \in 1 .. n
      BY <1>1
    <3> HIDE DEF n
    <3>2. \A i \in 1 .. k : i \in 1 .. n
      BY <3>1
    <3>3. k \in 1 .. k
      BY <3>1
    <3>4. QED
      BY <3>1, <3>2, <3>3
  <2>2. Max(1 .. k) = k
    BY <1>1, MaxFacts
  <2>3. (1 .. k) \ {k} = 1 .. (k - 1)
    OBVIOUS
  <2>4. iter[1 .. k] = iter[1 .. (k - 1)] \o SetToSeq(rules[n + 1 - k])
    BY <1>7, <2>1, <2>2, <2>3
  <2>5. QED
    BY <1>1, <2>4
<1>10. h \in [0 .. n -> Seq(Row)]
  <2> DEFINE T == {k \in 0 .. n : h[k] \in Seq(Row)}
  <2>1. T \in SUBSET (0 .. n) /\ 0 \in T
    BY <1>1, <1>8
  <2>2. ASSUME NEW k \in 0 .. n, k > 0, k - 1 \in T PROVE k \in T
    <3>1. k \in 1 .. n /\ h[k - 1] \in Seq(Row) /\ SetToSeq(rules[n + 1 - k]) \in Seq(Row)
      BY <1>1, <1>2, <2>2
    <3>2. h[k - 1] \o SetToSeq(rules[n + 1 - k]) \in Seq(Row)
      BY <3>1
    <3>3. QED
      BY <1>9, <3>1, <3>2
  <2>3. T = 0 .. n
    <3> HIDE DEF T
    <3>1. QED
      BY <1>1, <2>1, <2>2, UpTo
  <2>4. QED
    BY <2>3
<1>11. QED
  <2> HIDE DEF h
  <2>1. QED
    BY <1>8, <1>9, <1>10 DEF base

(* ListAlertRules has exactly the rows of the table.                        *)
LEMMA ListFacts ==
  ASSUME Stored
  PROVE  /\ ListAlertRules \in Seq(Row)
         /\ Elems(ListAlertRules) = UNION {rules[i] : i \in Ids}
<1> DEFINE n == MaxRules
           Newest(k) == UNION {rules[n + 1 - i] : i \in 1 .. k}
<1>0. n \in Nat
  BY BoundAssumption
<1>1. PICK h \in [0 .. n -> Seq(Row)] :
        /\ h[0] = <<>> /\ h[n] = ListAlertRules
        /\ \A k \in 1 .. n : h[k] = h[k - 1] \o SetToSeq(rules[n + 1 - k])
  BY NewestSteps
<1> DEFINE T == {k \in 0 .. n : Elems(h[k]) = Newest(k)}
<1>2. T \in SUBSET (0 .. n) /\ 0 \in T
  <2>1. Newest(0) = {} /\ Elems(<<>>) = {}
    BY DEF Elems
  <2>2. QED
    BY <1>0, <1>1, <2>1
<1>3. ASSUME NEW k \in 0 .. n, k > 0, k - 1 \in T PROVE k \in T
  <2>1. /\ k \in 1 .. n /\ k - 1 \in 0 .. n /\ h[k - 1] \in Seq(Row)
        /\ Elems(h[k - 1]) = Newest(k - 1)
    BY <1>0, <1>1, <1>3
  <2>2. rules[n + 1 - k] \in SUBSET Row /\ IsFiniteSet(rules[n + 1 - k])
    BY <1>0, <2>1 DEF Stored, Ids
  <2> DEFINE q == SetToSeq(rules[n + 1 - k])
  <2>3. q \in Seq(Row) /\ Elems(q) = rules[n + 1 - k]
    <3>1. q \in Seq(rules[n + 1 - k]) /\ Elems(q) = rules[n + 1 - k]
      BY <2>2, SetToSeqFacts
    <3> HIDE DEF q
    <3>2. QED
      BY <2>2, <3>1
  <2>4. h[k] = h[k - 1] \o q
    BY <1>1, <2>1
  <2> HIDE DEF q
  <2>5. Elems(h[k]) = Newest(k - 1) \cup rules[n + 1 - k]
    BY <2>1, <2>3, <2>4, ConcatElems
  <2>6. Newest(k) = Newest(k - 1) \cup rules[n + 1 - k]
    <3>1. 1 .. k = (1 .. (k - 1)) \cup {k}
      BY <2>1
    <3>2. QED
      BY <3>1
  <2>7. QED
    BY <2>5, <2>6
<1>4. n \in T
  <2> HIDE DEF T, n
  <2>1. T = 0 .. n
    BY <1>0, <1>2, <1>3, UpTo
  <2>2. QED
    BY <1>0, <2>1
<1>5. Newest(n) = UNION {rules[i] : i \in Ids}
  <2>1. \A i \in Ids : n + 1 - i \in 1 .. n /\ n + 1 - (n + 1 - i) = i
    BY <1>0 DEF Ids
  <2>2. \A i \in 1 .. n : n + 1 - i \in Ids
    BY <1>0 DEF Ids
  <2>3. ASSUME NEW i \in Ids PROVE rules[i] \subseteq Newest(n)
    BY <2>1
  <2>4. ASSUME NEW i \in 1 .. n
        PROVE  rules[n + 1 - i] \subseteq UNION {rules[j] : j \in Ids}
    BY <2>2
  <2>5. QED
    BY <2>3, <2>4
<1>6. h[n] \in Seq(Row) /\ Elems(h[n]) = Newest(n)
  BY <1>0, <1>1, <1>4
<1>7. QED
  BY <1>1, <1>5, <1>6

-----------------------------------------------------------------------------
(* The numbers of the panels.                                               *)
LEMMA CountFacts ==
  ASSUME NEW V, NEW rows \in Seq(V), NEW A, NEW B, A \cap B = {}
  PROVE  /\ CountOf(rows, A) \in Nat /\ CountOf(rows, B) \in Nat
         /\ CountOf(rows, A \cup B) = CountOf(rows, A) + CountOf(rows, B)
<1> DEFINE In(C) == {i \in DOMAIN rows : rows[i].health \in C}
<1>1. IsFiniteSet(DOMAIN rows)
  <2>1. DOMAIN rows = 1 .. Len(rows) /\ Len(rows) \in Int /\ 1 \in Int
    OBVIOUS
  <2>2. QED
    BY <2>1, FS_Interval
<1>2. IsFiniteSet(In(A)) /\ IsFiniteSet(In(B))
  <2>1. In(A) \in SUBSET (DOMAIN rows) /\ In(B) \in SUBSET (DOMAIN rows)
    OBVIOUS
  <2> HIDE DEF In
  <2>2. QED
    BY <1>1, <2>1, FS_Subset
<1>3. In(A \cup B) = In(A) \cup In(B) /\ In(A) \cap In(B) = {}
  OBVIOUS
<1>4. /\ Cardinality(In(A)) \in Nat /\ Cardinality(In(B)) \in Nat
      /\ Cardinality(In(A) \cup In(B)) = Cardinality(In(A)) + Cardinality(In(B))
  <2> HIDE DEF In
  <2>1. Cardinality(In(A)) \in Nat /\ Cardinality(In(B)) \in Nat
    BY <1>2, FS_CardinalityType
  <2>2. Cardinality(In(A) \cup In(B)) = Cardinality(In(A)) + Cardinality(In(B))
                                        - Cardinality(In(A) \cap In(B))
    BY <1>2, FS_Union
  <2>3. Cardinality(In(A) \cap In(B)) = 0
    BY <1>3, FS_EmptySet
  <2>4. QED
    BY <2>1, <2>2, <2>3
<1>5. QED
  BY <1>3, <1>4 DEF CountOf

(* A count over all states that occur is the number of rows.                *)
LEMMA CountAll ==
  ASSUME NEW V, NEW rows \in Seq(V), NEW A, \A i \in DOMAIN rows : rows[i].health \in A
  PROVE  CountOf(rows, A) = Len(rows)
<1>1. {i \in DOMAIN rows : rows[i].health \in A} = 1 .. Len(rows) /\ Len(rows) \in Nat
  OBVIOUS
<1>2. Cardinality(1 .. Len(rows)) = Len(rows)
  <2> DEFINE n == Len(rows)
  <2>1. n \in Int /\ 1 \in Int /\ (n >= 1 \/ n = 0)
    BY <1>1
  <2> HIDE DEF n
  <2>2. Cardinality(1 .. n) = n
    BY <2>1, FS_Interval
  <2>3. QED
    BY <2>2 DEF n
<1>3. QED
  BY <1>1, <1>2 DEF CountOf

LEMMA HealthFinite == IsFiniteSet(HealthStates)
<1>1. IsFiniteSet({"critical"})
  BY FS_Singleton
<1>2. IsFiniteSet({"critical"} \cup {"warning"})
  BY <1>1, FS_AddElement
<1>3. IsFiniteSet({"critical"} \cup {"warning"} \cup {"stable"})
  BY <1>2, FS_AddElement
<1>4. IsFiniteSet({"critical"} \cup {"warning"} \cup {"stable"} \cup {"disabled"})
  BY <1>3, FS_AddElement
<1>5. IsFiniteSet({"critical"} \cup {"warning"} \cup {"stable"} \cup {"disabled"}
                  \cup {"idle"})
  BY <1>4, FS_AddElement
<1>6. HealthStates = {"critical"} \cup {"warning"} \cup {"stable"} \cup {"disabled"}
                     \cup {"idle"}
  BY DEF HealthStates
<1>7. QED
  BY <1>5, <1>6

(* The number inside the pie is that of the rows.                           *)
LEMMA PieFacts ==
  ASSUME NEW V, NEW rows \in Seq(V), \A i \in DOMAIN rows : rows[i].health \in HealthStates
  PROVE  OverviewHealthDistributionPanel(buildOverviewHealthDistribution(rows)) = Len(rows)
<1> DEFINE pie == buildOverviewHealthDistribution(rows)
           D == DOMAIN pie
           One(s) == CHOOSE x \in s : TRUE
           Rec(g) == [s \in SUBSET D |-> IF s = {} THEN 0
                                         ELSE pie[One(s)] + g[s \ {One(s)}]]
           iter == CHOOSE g : g = Rec(g)
           F == [q \in (SUBSET D) \X Nat |-> IF q[1] = {} THEN 0 ELSE pie[One(q[1])] + q[2]]
           p == [s \in SUBSET D |-> s \ {One(s)}]
<1>1. D = HealthStates /\ \A x \in D : pie[x] = CountOf(rows, {x})
  BY DEF buildOverviewHealthDistribution
<1>2. \A A : CountOf(rows, A) \in Nat
  <2> TAKE A
  <2>1. A \cap {} = {}
    OBVIOUS
  <2>2. QED
    BY <2>1, CountFacts
<1>3. pie \in [D -> Nat] /\ IsFiniteSet(D)
  <2>1. pie \in [D -> Nat]
    BY <1>1, <1>2 DEF buildOverviewHealthDistribution
  <2>2. QED
    BY <1>1, <2>1, HealthFinite
<1> HIDE DEF pie, D
<1>4. \A s \in SUBSET D : s # {} => One(s) \in s
  OBVIOUS
<1> HIDE DEF One
<1>5. \E g : g = Rec(g)
  <2>1. F \in [(SUBSET D) \X Nat -> Nat]
    BY <1>3, <1>4
  <2>2. p \in [SUBSET D -> SUBSET D]
        /\ \A s \in SUBSET D : s # {} => p[s] \subseteq s /\ p[s] # s
    BY <1>4
  <2>3. PICK g : Solves(g, D, Nat, 0, F, p)
    <3> HIDE DEF F, p
    <3>1. Recursion(D, Nat, 0, F, p)
      BY <1>3, <2>1, <2>2 DEF Recursion
    <3>2. QED
      BY <3>1, RecursionExists
  <2>4. ASSUME NEW s \in SUBSET D PROVE g[s] = Rec(g)[s]
    <3>1. p[s] = s \ {One(s)} /\ <<s, g[p[s]]>> \in (SUBSET D) \X Nat
      BY <2>2, <2>3 DEF Solves
    <3>2. QED
      BY <2>3, <3>1 DEF Solves
  <2>5. g = Rec(g)
    BY <2>3, <2>4 DEF Solves
  <2>6. QED
    BY <2>5
<1>6. iter = Rec(iter)
  BY <1>5
<1>7. OverviewHealthDistributionPanel(pie) = iter[D]
  BY DEF OverviewHealthDistributionPanel, FoldFunction, FoldFunctionOnSet,
         MapThenFoldSet, One, D
<1> HIDE DEF iter
<1>8. \A s \in SUBSET D : iter[s] = IF s = {} THEN 0
                                       ELSE pie[One(s)] + iter[s \ {One(s)}]
  BY <1>6
<1> DEFINE m == Cardinality(D)
           T == {n \in 0 .. m : \A s \in SUBSET D :
                   Cardinality(s) <= n => iter[s] = CountOf(rows, s)}
<1>9. /\ m \in Nat
      /\ \A s \in SUBSET D : IsFiniteSet(s) /\ Cardinality(s) \in Nat /\ Cardinality(s) <= m
      /\ \A s \in SUBSET D : Cardinality(s) = 0 => s = {}
  BY <1>3, FS_CardinalityType, FS_Subset, FS_EmptySet
<1>10. CountOf(rows, {}) = 0
  <2>1. {i \in DOMAIN rows : rows[i].health \in {}} = {}
    OBVIOUS
  <2>2. QED
    BY <2>1, FS_EmptySet DEF CountOf
<1>11. T \in SUBSET (0 .. m) /\ 0 \in T
  <2>1. iter[{}] = CountOf(rows, {})
    BY <1>8, <1>10
  <2>2. \A s \in SUBSET D : Cardinality(s) <= 0 => s = {}
    BY <1>9
  <2>3. \A s \in SUBSET D : Cardinality(s) <= 0 => iter[s] = CountOf(rows, s)
    BY <2>1, <2>2
  <2> HIDE DEF m
  <2>4. QED
    BY <1>9, <2>3
<1>12. ASSUME NEW n \in 0 .. m, n > 0, n - 1 \in T PROVE n \in T
  <2>1. SUFFICES ASSUME NEW s \in SUBSET D, Cardinality(s) <= n
                 PROVE  iter[s] = CountOf(rows, s)
    OBVIOUS
  <2>2. CASE s = {}
    BY <1>8, <1>10, <2>2
  <2>3. CASE s # {}
    <3> DEFINE x == One(s)
               r == s \ {x}
    <3>1. x \in s /\ x \in D /\ r \in SUBSET D
      BY <1>4, <2>3
    <3>2. Cardinality(r) <= n - 1
      <4>1. IsFiniteSet(s)
        BY <1>9
      <4>2. Cardinality(r) = Cardinality(s) - 1
        BY <3>1, <4>1, FS_RemoveElement
      <4>3. QED
        BY <1>9, <2>1, <4>2
    <3>3. iter[r] = CountOf(rows, r)
      BY <1>12, <3>1, <3>2
    <3>4. CountOf(rows, s) = CountOf(rows, {x}) + CountOf(rows, r)
      <4> HIDE DEF x
      <4>1. s = {x} \cup r /\ {x} \cap r = {}
        BY <3>1
      <4> HIDE DEF r
      <4>2. QED
        BY <4>1, CountFacts
    <3>5. QED
      BY <1>1, <1>8, <2>3, <3>1, <3>3, <3>4
  <2>4. QED
    BY <2>2, <2>3
<1>13. m \in T
  <2> HIDE DEF T, m
  <2>1. T = 0 .. m
    BY <1>9, <1>11, <1>12, UpTo
  <2>2. QED
    BY <1>9, <2>1
<1>14. iter[D] = CountOf(rows, D)
  BY <1>9, <1>13
<1>15. QED
  BY <1>1, <1>7, <1>14, CountAll DEF pie

-----------------------------------------------------------------------------
(* The rows of the overview.                                                *)
ShownRule == [id : Nat, target : Targets, enabled : BOOLEAN, alert : BOOLEAN]
View == [target : Targets, health : HealthStates]

(* The cut to MaxTracked rules, and the two merges.                         *)
LEMMA SliceFacts ==
  ASSUME NEW S, NEW s \in Seq(S), Distinct(s)
  PROVE  Slice(s) \in Seq(S) /\ Distinct(Slice(s))
<1> DEFINE m == IF Len(s) < MaxTracked THEN Len(s) ELSE MaxTracked
           t == Slice(s)
<1>1. m \in Nat /\ m <= Len(s) /\ Len(s) \in Nat /\ DOMAIN s = 1 .. Len(s)
  BY TrackedAssumption
<1>2. t = SubSeq(s, 1, m)
  BY DEF Slice
<1> HIDE DEF m
<1>3. t \in Seq(S) /\ DOMAIN t = 1 .. m /\ \A i \in 1 .. m : t[i] = s[i]
  BY <1>1, <1>2
<1> HIDE DEF t
<1>4. \A i, j \in DOMAIN t : t[i].target = t[j].target => i = j
  BY <1>1, <1>3 DEF Distinct
<1>5. QED
  BY <1>3, <1>4 DEF Distinct, t

LEMMA MergeFacts ==
  ASSUME NEW s \in Seq(ShownRule), Distinct(s)
  PROVE  /\ \A recents \in Seq(Targets) : mergeTrackedRules(s, recents) \in Seq(ShownRule)
                                          /\ Distinct(mergeTrackedRules(s, recents))
         /\ \A live \in Seq(Point) :
              mergeTrackedRulesFromLiveSamples(s, live) \in Seq(ShownRule)
              /\ Distinct(mergeTrackedRulesFromLiveSamples(s, live))
<1>1. ASSUME NEW recents \in Seq(Targets)
      PROVE  mergeTrackedRules(s, recents) \in Seq(ShownRule)
             /\ Distinct(mergeTrackedRules(s, recents))
  <2> DEFINE f == [i \in DOMAIN recents |-> Invented(recents[i], FALSE)]
  <2>1. f \in Seq(ShownRule)
    <3>1. DOMAIN recents = 1 .. Len(recents) /\ Len(recents) \in Nat
      OBVIOUS
    <3>2. ASSUME NEW i \in 1 .. Len(recents) PROVE f[i] \in ShownRule
      <4>1. recents[i] \in Targets
        BY <3>1
      <4>2. f[i] = Invented(recents[i], FALSE)
        BY <3>1
      <4> HIDE DEF f
      <4>3. QED
        BY <4>1, <4>2 DEF Invented, ShownRule
    <3>3. f = [i \in 1 .. Len(recents) |-> f[i]]
      BY <3>1
    <3> HIDE DEF f
    <3>4. QED
      BY <3>1, <3>2, <3>3
  <2> HIDE DEF f
  <2>2. AddAll(s, f) \in Seq(ShownRule) /\ Distinct(AddAll(s, f))
    BY <2>1, AddAllFacts
  <2>3. Slice(AddAll(s, f)) \in Seq(ShownRule) /\ Distinct(Slice(AddAll(s, f)))
    BY <2>2, SliceFacts
  <2>4. QED
    BY <2>3 DEF mergeTrackedRules, f
<1>2. ASSUME NEW live \in Seq(Point)
      PROVE  mergeTrackedRulesFromLiveSamples(s, live) \in Seq(ShownRule)
             /\ Distinct(mergeTrackedRulesFromLiveSamples(s, live))
  <2> DEFINE f == [i \in DOMAIN live |-> Invented(live[i].target, live[i].error)]
  <2>1. f \in Seq(ShownRule)
    <3>1. DOMAIN live = 1 .. Len(live) /\ Len(live) \in Nat
      OBVIOUS
    <3>2. ASSUME NEW i \in 1 .. Len(live) PROVE f[i] \in ShownRule
      <4>1. live[i].target \in Targets /\ live[i].error \in BOOLEAN
        <5>1. live[i] \in Point
          BY <3>1
        <5>2. QED
          BY <5>1 DEF Point
      <4>2. f[i] = Invented(live[i].target, live[i].error)
        BY <3>1
      <4> HIDE DEF f
      <4>3. QED
        BY <4>1, <4>2 DEF Invented, ShownRule
    <3>3. f = [i \in 1 .. Len(live) |-> f[i]]
      BY <3>1
    <3> HIDE DEF f
    <3>4. QED
      BY <3>1, <3>2, <3>3
  <2> HIDE DEF f
  <2>2. AddAll(s, f) \in Seq(ShownRule) /\ Distinct(AddAll(s, f))
    BY <2>1, AddAllFacts
  <2>3. Slice(AddAll(s, f)) \in Seq(ShownRule) /\ Distinct(Slice(AddAll(s, f)))
    BY <2>2, SliceFacts
  <2>4. QED
    BY <2>3 DEF mergeTrackedRulesFromLiveSamples, f
<1>3. QED
  BY <1>1, <1>2

(* trackedRulesWithLive has one row of each target.                         *)
LEMMA TrackedFacts ==
  ASSUME NEW list \in Seq(Row), NEW recents \in Seq(Targets), NEW live \in Seq(Point)
  PROVE  /\ Tracked(list, recents, live) \in Seq(ShownRule)
         /\ Distinct(Tracked(list, recents, live))
<1> DEFINE u == uniqueAlertTargets(list)
           w == mergeTrackedRules(u, recents)
<1>1. list \in Seq(ShownRule)
  <2>1. \A i \in 1 .. Len(list) : list[i] \in ShownRule
    <3>1. \A r \in Row : r \in ShownRule
      <4>1. Ids \subseteq Nat
        BY BoundAssumption DEF Ids
      <4>2. QED
        BY <4>1 DEF Row, ShownRule
    <3>2. \A i \in 1 .. Len(list) : list[i] \in Row
      OBVIOUS
    <3>3. QED
      BY <3>1, <3>2
  <2>2. QED
    BY <2>1
<1>2. u \in Seq(ShownRule) /\ Distinct(u)
  <2>1. <<>> \in Seq(ShownRule) /\ Distinct(<<>>)
    BY DEF Distinct
  <2>2. QED
    BY <1>1, <2>1, AddAllFacts DEF uniqueAlertTargets
<1> HIDE DEF u
<1>3. w \in Seq(ShownRule) /\ Distinct(w)
  BY <1>2, MergeFacts
<1> HIDE DEF w
<1>4. /\ mergeTrackedRulesFromLiveSamples(w, live) \in Seq(ShownRule)
      /\ Distinct(mergeTrackedRulesFromLiveSamples(w, live))
  BY <1>3, MergeFacts
<1>5. QED
  BY <1>4 DEF Tracked, u, w

(* What the page shows of a rule: the points and the live samples of its    *)
(* target may be any.                                                        *)
LEMMA HealthFacts ==
  ASSUME NEW rule \in ShownRule, NEW points, NEW samples
  PROVE  LET h == Overlay(classifyTargetHealthState(rule, points), samples)
         IN /\ h \in HealthStates
            /\ rule.enabled => h # "disabled"
            /\ h = "stable" =>
                 /\ rule.enabled /\ ~rule.alert
                 /\ samples # <<>> \/ points # <<>>
                 /\ samples # <<>> => ~Last(samples).error
                 /\ points # <<>> => ~Last(points).error
<1> DEFINE c == classifyTargetHealthState(rule, points)
<1>0. rule.enabled \in BOOLEAN /\ rule.alert \in BOOLEAN
  BY DEF ShownRule
<1>1. /\ ~rule.enabled => c = "disabled"
      /\ rule.enabled /\ rule.alert => c = "critical"
      /\ rule.enabled /\ ~rule.alert /\ points = <<>> => c = "idle"
      /\ rule.enabled /\ ~rule.alert /\ points # <<>> =>
           c = IF Last(points).error THEN "warning" ELSE "stable"
  <2>1. CASE ~rule.enabled
    BY <2>1 DEF classifyTargetHealthState
  <2>2. CASE rule.enabled /\ rule.alert
    BY <2>2 DEF classifyTargetHealthState
  <2>3. CASE rule.enabled /\ ~rule.alert /\ points = <<>>
    BY <2>3 DEF classifyTargetHealthState
  <2>4. CASE rule.enabled /\ ~rule.alert /\ points # <<>>
    BY <2>4 DEF classifyTargetHealthState
  <2>5. QED
    BY <1>0, <2>1, <2>2, <2>3, <2>4
<1> HIDE DEF c
<1> DEFINE h == Overlay(c, samples)
<1>2. /\ samples = <<>> => h = c
      /\ samples # <<>> /\ Last(samples).error =>
           h = IF c = "critical" THEN "critical" ELSE "warning"
      /\ samples # <<>> /\ ~Last(samples).error =>
           h = IF c = "idle" THEN "stable" ELSE c
  <2>1. CASE samples = <<>>
    BY <2>1 DEF Overlay
  <2>2. CASE samples # <<>> /\ Last(samples).error
    BY <2>2 DEF Overlay
  <2>3. CASE samples # <<>> /\ ~Last(samples).error
    BY <2>3 DEF Overlay
  <2>4. QED
    BY <2>1, <2>2, <2>3
<1> HIDE DEF h
<1>3. c \in HealthStates /\ h \in HealthStates
  BY <1>0, <1>1, <1>2 DEF HealthStates
<1>4. rule.enabled => h # "disabled"
  BY <1>0, <1>1, <1>2
<1>5. h = "stable" => /\ rule.enabled /\ ~rule.alert
                      /\ samples # <<>> \/ points # <<>>
                      /\ samples # <<>> => ~Last(samples).error
                      /\ points # <<>> => ~Last(points).error
  BY <1>0, <1>1, <1>2
<1>6. QED
  BY <1>3, <1>4, <1>5 DEF h, c

(* Where rows have different targets and only disabled rules are shown so, the *)
(* panels agree with them.                                                  *)
LEMMA PanelsFacts ==
  ASSUME NEW tracked \in Seq(ShownRule), Distinct(tracked), NEW rows \in Seq(View),
         DOMAIN rows = DOMAIN tracked,
         \A i \in DOMAIN rows : /\ rows[i].target = tracked[i].target
                                /\ tracked[i].enabled => rows[i].health # "disabled"
  PROVE  PanelsAgree(tracked, rows)
<1> DEFINE kpis == buildOverviewKpis(tracked, rows)
           pie == buildOverviewHealthDistribution(rows)
           counted == kpis.critical + kpis.warning + kpis.stable
           On == {"critical", "warning", "idle", "stable"}
           n == Len(rows)
<1>0. n \in Nat /\ DOMAIN rows = 1 .. n /\ DOMAIN tracked = 1 .. n
  OBVIOUS
<1>1. /\ kpis.critical = CountOf(rows, {"critical"})
      /\ kpis.warning = CountOf(rows, {"warning", "idle"})
      /\ kpis.stable = CountOf(rows, {"stable"})
      /\ kpis.trackedTargets = Len(uniqueAlertTargets(EnabledOf(tracked)))
      /\ pie["disabled"] = CountOf(rows, {"disabled"})
  BY DEF buildOverviewKpis, buildOverviewHealthDistribution, HealthStates
<1>2. \A i \in DOMAIN rows : rows[i].health \in HealthStates
  <2> TAKE i \in DOMAIN rows
  <2>1. rows[i] \in View
    BY <1>0
  <2>2. QED
    BY <2>1 DEF View
<1>3. CountOf(rows, HealthStates) = n
  BY <1>2, CountAll
<1>4. /\ CountOf(rows, {"critical"}) \in Nat /\ CountOf(rows, {"warning", "idle"}) \in Nat
      /\ CountOf(rows, {"stable"}) \in Nat /\ CountOf(rows, {"disabled"}) \in Nat
      /\ CountOf(rows, On) = CountOf(rows, {"critical"}) + CountOf(rows, {"warning", "idle"})
                             + CountOf(rows, {"stable"})
      /\ CountOf(rows, HealthStates) = CountOf(rows, On) + CountOf(rows, {"disabled"})
  <2> DEFINE A == {"critical"}
             B == {"warning", "idle"}
             C == {"stable"}
             D == {"disabled"}
             AB == A \cup B
  <2>1. A \cap B = {} /\ AB \cap C = {} /\ On \cap D = {}
    OBVIOUS
  <2>2. AB \cup C = On /\ On \cup D = HealthStates
    BY DEF HealthStates
  <2> HIDE DEF A, B, C, D, On
  <2>3. /\ CountOf(rows, A) \in Nat /\ CountOf(rows, B) \in Nat
        /\ CountOf(rows, AB) = CountOf(rows, A) + CountOf(rows, B)
    BY <2>1, CountFacts
  <2> HIDE DEF AB
  <2>4. /\ CountOf(rows, C) \in Nat
        /\ CountOf(rows, AB \cup C) = CountOf(rows, AB) + CountOf(rows, C)
    BY <2>1, CountFacts
  <2>5. /\ CountOf(rows, D) \in Nat
        /\ CountOf(rows, On \cup D) = CountOf(rows, On) + CountOf(rows, D)
    BY <2>1, CountFacts
  <2>6. /\ CountOf(rows, On) = CountOf(rows, A) + CountOf(rows, B) + CountOf(rows, C)
        /\ CountOf(rows, HealthStates) = CountOf(rows, On) + CountOf(rows, D)
    BY <2>2, <2>3, <2>4, <2>5
  <2>7. QED
    BY <2>3, <2>4, <2>5, <2>6 DEF A, B, C, D
<1>5. counted = CountOf(rows, On) /\ counted + pie["disabled"] = n
  <2> HIDE DEF kpis, pie, On, n
  <2>1. QED
    BY <1>1, <1>3, <1>4
<1>6. OverviewHealthDistributionPanel(pie) = n
  BY <1>2, PieFacts
<1>7. kpis.trackedTargets <= counted
  <2> DEFINE e == EnabledOf(tracked)
             A == {i \in DOMAIN tracked : tracked[i].enabled}
             B == {i \in DOMAIN rows : rows[i].health \in On}
  <2>1. e \in Seq(ShownRule) /\ Len(e) = Cardinality(A)
    BY EnabledFacts
  <2>2. Len(uniqueAlertTargets(e)) <= Len(e) /\ Len(uniqueAlertTargets(e)) \in Nat
    <3>1. <<>> \in Seq(ShownRule) /\ Distinct(<<>>) /\ Len(<<>>) = 0
      BY DEF Distinct
    <3> HIDE DEF e
    <3>2. /\ AddAll(<<>>, e) \in Seq(ShownRule)
          /\ Len(AddAll(<<>>, e)) <= Len(<<>>) + Len(e)
      BY <2>1, <3>1, AddAllFacts
    <3>3. Len(e) \in Nat /\ Len(AddAll(<<>>, e)) \in Nat
      BY <2>1, <3>2
    <3>4. QED
      BY <3>1, <3>2, <3>3 DEF uniqueAlertTargets
  <2>3. Cardinality(A) <= Cardinality(B)
    <3>1. A \in SUBSET B
      BY <1>0, <1>2 DEF HealthStates
    <3>2. IsFiniteSet(B)
      <4>1. IsFiniteSet(1 .. n) /\ B \in SUBSET (1 .. n)
        BY <1>0, FS_Interval
      <4> HIDE DEF B, n
      <4>2. QED
        BY <4>1, FS_Subset
    <3> HIDE DEF A, B
    <3>3. QED
      BY <3>1, <3>2, FS_Subset
  <2>4. Cardinality(B) = counted
    BY <1>5 DEF CountOf
  <2>5. counted \in Nat
    <3> HIDE DEF kpis, On
    <3>1. QED
      BY <1>1, <1>4
  <2>6. kpis.trackedTargets = Len(uniqueAlertTargets(e))
    BY <1>1
  <2>7. Len(e) \in Nat
    <3> HIDE DEF e
    <3>1. QED
      BY <2>1
  <2> HIDE DEF e, A, B, kpis, counted
  <2>8. QED
    BY <2>1, <2>2, <2>3, <2>4, <2>5, <2>6, <2>7
<1>8. ASSUME OverviewAlertSummary(kpis) = 0, NEW i \in DOMAIN rows
      PROVE  rows[i].health \in {"stable", "disabled"}
  <2>1. CountOf(rows, {"critical"}) = 0 /\ CountOf(rows, {"warning", "idle"}) = 0
    <3> HIDE DEF kpis
    <3>1. QED
      BY <1>1, <1>4, <1>8 DEF OverviewAlertSummary
  <2>2. ASSUME NEW C, CountOf(rows, C) = 0 PROVE rows[i].health \notin C
    <3> DEFINE B == {j \in DOMAIN rows : rows[j].health \in C}
    <3>1. IsFiniteSet(B)
      <4>1. IsFiniteSet(1 .. n) /\ B \in SUBSET (1 .. n)
        BY <1>0, FS_Interval
      <4> HIDE DEF B, n
      <4>2. QED
        BY <4>1, FS_Subset
    <3>2. Cardinality(B) = 0
      BY <2>2 DEF CountOf
    <3>3. B = {}
      <4> HIDE DEF B
      <4>1. QED
        BY <3>1, <3>2, FS_EmptySet
    <3>4. QED
      BY <3>3
  <2>3. rows[i].health # "critical" /\ rows[i].health \notin {"warning", "idle"}
    BY <2>1, <2>2
  <2>4. QED
    BY <1>2, <2>3 DEF HealthStates
<1>9. n = Cardinality({rows[i].target : i \in DOMAIN rows})
  <2> DEFINE f == [i \in 1 .. n |-> rows[i].target]
             R == {rows[i].target : i \in DOMAIN rows}
  <2>1. f \in [1 .. n -> R] /\ \A r \in R : \E i \in 1 .. n : f[i] = r
    BY <1>0
  <2>2. \A i, j \in 1 .. n : f[i] = f[j] => i = j
    BY <1>0 DEF Distinct
  <2>3. ExistsBijection(1 .. n, R)
    <3> HIDE DEF f, R, n
    <3>1. f \in Bijection(1 .. n, R)
      BY <2>1, <2>2 DEF Bijection, Injection, Surjection, IsInjective
    <3>2. QED
      BY <3>1 DEF ExistsBijection
  <2>4. QED
    <3> HIDE DEF R, n
    <3>1. QED
      BY <1>0, <2>3, FS_CountingElements DEF R
<1>10. QED
  <2> HIDE DEF kpis, pie, counted, On, n
  <2>1. QED
    BY <1>5, <1>6, <1>7, <1>8, <1>9 DEF PanelsAgree, kpis, pie, counted, n

(* The rows that the page shows now.                                        *)
LEMMA RowsFacts ==
  ASSUME TypeOK, ReadInv
  PROVE  Rows \in Seq(ShownRule) /\ Distinct(Rows)
<1> DEFINE list == Pick(query.data)
           r == SubSeq(probes, 1, recent)
           v == Reverse(r)
           u == RecentTargets
           recents == [i \in DOMAIN u |-> u[i].target]
<1>1. list \in Seq(Row)
  <2>1. query.data \in SUBSET Seq(Row)
    BY DEF TypeOK, Query
  <2>2. <<>> \in Seq(Row)
    OBVIOUS
  <2>3. QED
    BY <2>1, <2>2 DEF Pick
<1>2. r \in Seq(Point)
  BY DEF TypeOK, ReadInv
<1> HIDE DEF r
<1>3. v \in Seq(Point)
  <2>1. Len(r) \in Nat /\ \A i \in 1 .. Len(r) : r[(Len(r) - i) + 1] \in Point
    BY <1>2
  <2>2. QED
    BY <2>1 DEF Reverse
<1> HIDE DEF v
<1>4. u \in Seq(Point)
  <2>1. <<>> \in Seq(Point) /\ Distinct(<<>>)
    BY DEF Distinct
  <2>2. AddAll(<<>>, v) \in Seq(Point)
    BY <1>3, <2>1, AddAllFacts
  <2>3. QED
    BY <2>2 DEF RecentTargets, uniqueAlertTargets, v, r
<1> HIDE DEF u
<1>5. recents \in Seq(Targets)
  <2>1. \A i \in 1 .. Len(u) : u[i] \in Point
    BY <1>4
  <2>2. \A i \in 1 .. Len(u) : u[i].target \in Targets
    BY <2>1 DEF Point
  <2>3. QED
    BY <1>4, <2>2
<1>6. liveSamples \in Seq(Point)
  BY DEF TypeOK
<1>7. Rows = Tracked(list, recents, liveSamples)
  BY DEF Rows, u
<1> HIDE DEF list, recents
<1>8. QED
  BY <1>1, <1>5, <1>6, <1>7, TrackedFacts

LEMMA StableIsWell ==
  ASSUME TypeOK, ReadInv
  PROVE  StableMeansWell
<1>1. Rows \in Seq(ShownRule) /\ Distinct(Rows)
  BY RowsFacts
<1>2. DOMAIN Shown = DOMAIN Rows
  BY DEF Shown, Snapshots
<1>3. ASSUME NEW i \in DOMAIN Rows
      PROVE  LET t == Shown[i].target
                 live == SamplesOf(liveSamples, t)
                 h == Shown[i].health
             IN /\ t = Rows[i].target /\ Shown[i] \in View
                /\ Rows[i].enabled => h # "disabled"
                /\ h = "stable" =>
                     /\ Rows[i].enabled /\ ~Rows[i].alert
                     /\ live # <<>> \/ HistoryMap[t] # <<>>
                     /\ live # <<>> => ~Last(live).error
                     /\ HistoryMap[t] # <<>> => ~Last(HistoryMap[t]).error
  <2> DEFINE r == Rows[i]
             t == r.target
             points == HistoryMap[t]
             live == SamplesOf(liveSamples, t)
             h == Overlay(classifyTargetHealthState(r, points), live)
  <2>1. r \in ShownRule
    BY <1>1
  <2>2. Shown[i].target = t /\ Shown[i].health = h /\ Shown[i] = [target |-> t, health |-> h]
    BY DEF Shown, Snapshots, Snapshot
  <2>3. t \in Targets
    BY <2>1 DEF ShownRule
  <2> HIDE DEF r, points, live
  <2>4. /\ h \in HealthStates
        /\ r.enabled => h # "disabled"
        /\ h = "stable" =>
             /\ r.enabled /\ ~r.alert
             /\ live # <<>> \/ points # <<>>
             /\ live # <<>> => ~Last(live).error
             /\ points # <<>> => ~Last(points).error
    BY <2>1, HealthFacts
  <2> HIDE DEF h
  <2>5. Shown[i] \in View
    BY <2>2, <2>3, <2>4 DEF View
  <2>6. QED
    BY <2>2, <2>4, <2>5 DEF r, points, live
<1>4. Shown \in Seq(View)
  <2>1. Shown = [i \in 1 .. Len(Rows) |-> Shown[i]] /\ Len(Rows) \in Nat
    BY <1>1, <1>2 DEF Shown, Snapshots
  <2>2. \A i \in 1 .. Len(Rows) : Shown[i] \in View
    BY <1>1, <1>3
  <2>3. QED
    BY <2>1, <2>2
<1>5. PanelsAgree(Rows, Shown)
  <2>1. \A i \in DOMAIN Shown : /\ Shown[i].target = Rows[i].target
                                /\ Rows[i].enabled => Shown[i].health # "disabled"
    BY <1>2, <1>3
  <2>2. QED
    BY <1>1, <1>2, <1>4, <2>1, PanelsFacts
<1>6. QED
  BY <1>2, <1>3, <1>5 DEF StableMeansWell

-----------------------------------------------------------------------------
(* Types.                                                                   *)
LEMMA InitType == Init => TypeOK
<1> SUFFICES ASSUME Init PROVE TypeOK
  OBVIOUS
<1>1. left \in Mix
  BY BoundAssumption DEF Init
<1>2. MaxRules \in Nat /\ created \in 0 .. MaxRules
  BY <1>1, BoundAssumption DEF Init, Mix
<1>3. rules \in [Ids -> SUBSET Row]
  <2>1. PICK t \in [1 .. created -> left.ruled], e \in [1 .. created -> BOOLEAN],
             a \in [1 .. created -> left.alerts] :
          rules = [i \in Ids |->
                     IF i > created THEN {} ELSE {Rule(i, t[i], e[i], a[i])}]
    BY DEF Init
  <2>2. ASSUME NEW i \in Ids, ~(i > created) PROVE Rule(i, t[i], e[i], a[i]) \in Row
    <3>1. i \in 1 .. created
      BY <1>2, <2>2 DEF Ids
    <3>2. t[i] \in Targets /\ e[i] \in BOOLEAN /\ a[i] \in BOOLEAN
      BY <1>1, <2>1, <3>1 DEF Mix
    <3>3. QED
      BY <3>2 DEF Rule, Row
  <2>3. QED
    BY <2>1, <2>2
<1>4. query \in Query
  <2>1. {} \in SUBSET Seq(Row) /\ <<>> \in Seq(Row)
    OBVIOUS
  <2>2. QED
    BY <2>1 DEF Init, Query
<1>5. NoWrite \in Mutation
  BY DEF NoWrite, Mutation
<1>6. probes \in Seq(Point) /\ liveSamples \in Seq(Point)
  BY DEF Init
<1>7. /\ flushed \in Nat /\ recent \in Nat /\ history \in [Targets -> Nat]
      /\ page \in {"alerts", "overview", "away"} /\ editing \in SUBSET Row
      /\ deletingRuleId \in Ids \cup {NoRule} /\ writes \in [Slots -> Mutation]
      /\ missed \in BOOLEAN /\ hidden \in BOOLEAN
  BY <1>5 DEF Init
<1>8. QED
  BY <1>1, <1>2, <1>3, <1>4, <1>6, <1>7 DEF TypeOK

(* A request of the list, and an invalidation.                              *)
LEMMA FetchType ==
  ASSUME TypeOK
  PROVE  /\ Fetch \in Query /\ Fetch.stage = "sent" /\ Fetch.data = query.data
         /\ Fetch.invalid = query.invalid
         /\ Fetch.status = IF HasData THEN query.status ELSE "pending"
<1>1. query \in Query /\ <<>> \in Seq(Row)
  BY DEF TypeOK
<1>2. QED
  BY <1>1 DEF Query, Fetch

LEMMA InvalidateType ==
  ASSUME TypeOK, Invalidate
  PROVE  query' \in Query /\ missed' \in BOOLEAN
<1>1. query \in Query /\ Fetch \in Query /\ missed \in BOOLEAN
  BY FetchType DEF TypeOK
<1>2. \A q \in Query : [q EXCEPT !.invalid = TRUE] \in Query
  BY DEF Query
<1>3. QED
  BY <1>1, <1>2 DEF Invalidate

LEMMA ListType ==
  ASSUME TypeOK, RowInv
  PROVE  Stored
  BY DEF TypeOK, RowInv, Stored

LEMMA RulesType ==
  ASSUME TypeOK
  PROVE  Rules \subseteq Row /\ EditedId \in Ids \cup {NoRule}
<1>1. query.data \in SUBSET Seq(Row)
  BY DEF TypeOK, Query
<1>2. Rules \subseteq Row
  BY <1>1 DEF Rules
<1>3. editing \subseteq Row /\ \A r \in Row : r.id \in Ids
  BY DEF TypeOK, Row
<1>4. EditedId \in Ids \cup {NoRule}
  BY <1>3 DEF EditedId
<1>5. QED
  BY <1>2, <1>4

LEMMA KeepType ==
  ASSUME NEW s \in Seq(Point)
  PROVE  Keep(s) \in Seq(Point)
  BY BoundAssumption DEF Keep

(* A sample is taken.                                                       *)
LEMMA ProbeType ==
  ASSUME TypeOK, NEW t \in left.targets, NEW b \in BOOLEAN
  PROVE  /\ [target |-> t, error |-> b] \in Point
         /\ Append(probes, [target |-> t, error |-> b]) \in Seq(Point)
         /\ Len(Append(probes, [target |-> t, error |-> b])) = Len(probes) + 1
         /\ Last(Append(probes, [target |-> t, error |-> b])) \in Point
<1> DEFINE s == [target |-> t, error |-> b]
           q == Append(probes, s)
<1>1. t \in Targets
  BY DEF TypeOK, Mix
<1>2. s \in Point
  BY <1>1 DEF Point
<1>3. probes \in Seq(Point)
  BY DEF TypeOK
<1> HIDE DEF s
<1>4. q \in Seq(Point) /\ Len(q) = Len(probes) + 1 /\ q[Len(q)] = s
  BY <1>2, <1>3
<1>5. Last(q) = s
  BY <1>4 DEF Last
<1> HIDE DEF q
<1>6. QED
  BY <1>2, <1>4, <1>5 DEF s, q

(* A field of the mix is used up by one.                                    *)
LEMMA MixType ==
  ASSUME TypeOK
  PROVE  /\ left.probes > 0 => [left EXCEPT !.probes = @ - 1] \in Mix
         /\ left.moves > 0 => [left EXCEPT !.moves = @ - 1] \in Mix
         /\ left.faults > 0 => [left EXCEPT !.faults = @ - 1] \in Mix
         /\ left.writes > 0 => [left EXCEPT !.writes = @ - 1] \in Mix
<1>1. left \in Mix
  BY DEF TypeOK
<1>2. left.probes > 0 => [left EXCEPT !.probes = @ - 1] \in Mix
  BY <1>1 DEF Mix
<1>3. left.moves > 0 => [left EXCEPT !.moves = @ - 1] \in Mix
  BY <1>1 DEF Mix
<1>4. left.faults > 0 => [left EXCEPT !.faults = @ - 1] \in Mix
  BY <1>1 DEF Mix
<1>5. left.writes > 0 => [left EXCEPT !.writes = @ - 1] \in Mix
  BY <1>1 DEF Mix
<1>6. QED
  BY <1>2, <1>3, <1>4, <1>5

(* What the mutations keep: the fields that only their own run sets.        *)
LEMMA WriteTypes ==
  ASSUME TypeOK
  PROVE  /\ NoWrite \in Mutation
         /\ \A v \in Slots : Freeze(v) \in Mutation
                             /\ Freeze(v).op = writes[v].op
                             /\ Freeze(v).stage = writes[v].stage
                             /\ Freeze(v).id = writes[v].id
                             /\ Freeze(v).target = writes[v].target
         /\ \A v \in Slots, st \in {"none", "sent", "applied", "settling", "refused"} :
              [writes EXCEPT ![v].stage = st] \in [Slots -> Mutation]
         /\ \A v \in Slots : [writes EXCEPT ![v] = NoWrite] \in [Slots -> Mutation]
<1>1. NoWrite \in Mutation
  BY DEF NoWrite, Mutation
<1>2. writes \in [Slots -> Mutation]
  BY DEF TypeOK
<1>3. ASSUME NEW v \in Slots
      PROVE  /\ Freeze(v) \in Mutation
             /\ Freeze(v).op = writes[v].op /\ Freeze(v).stage = writes[v].stage
             /\ Freeze(v).id = writes[v].id /\ Freeze(v).target = writes[v].target
  <2>1. writes[v] \in Mutation
    BY <1>2
  <2>2. CASE writes[v].op # "delete" \/ writes[v].frozen
    BY <2>1, <2>2 DEF Freeze
  <2>3. CASE ~(writes[v].op # "delete" \/ writes[v].frozen)
    <3>1. ClearsEdit(v) \in BOOLEAN
      BY <2>3 DEF ClearsEdit
    <3>2. Freeze(v) = [writes[v] EXCEPT !.frozen = TRUE, !.clears = ClearsEdit(v)]
      BY <2>3 DEF Freeze
    <3>3. QED
      BY <2>1, <3>1, <3>2 DEF Mutation
  <2>4. QED
    BY <2>2, <2>3
<1>4. ASSUME NEW v \in Slots, NEW st \in {"none", "sent", "applied", "settling", "refused"}
      PROVE  [writes EXCEPT ![v].stage = st] \in [Slots -> Mutation]
  <2>1. \A m \in Mutation : [m EXCEPT !.stage = st] \in Mutation
    BY DEF Mutation
  <2>2. QED
    BY <1>2, <2>1
<1>5. QED
  BY <1>1, <1>2, <1>3, <1>4

(* Some mutations end.                                                      *)
LEMMA OverFacts ==
  ASSUME TypeOK, NEW S \in SUBSET Slots, Over(S)
  PROVE  /\ writes' \in [Slots -> Mutation] /\ deletingRuleId' \in Ids \cup {NoRule}
         /\ \A w \in Slots : writes'[w] = IF w \in S THEN NoWrite ELSE writes[w]
<1>1. writes \in [Slots -> Mutation] /\ deletingRuleId \in Ids \cup {NoRule}
  BY DEF TypeOK
<1>2. writes' = [w \in Slots |-> IF w \in S THEN NoWrite ELSE writes[w]]
  BY DEF Over
<1>3. deletingRuleId' \in Ids \cup {NoRule}
  BY <1>1 DEF Over
<1>4. QED
  BY <1>1, <1>2, <1>3, WriteTypes

(* The writes of the server keep all types.                                 *)
LEMMA TypeServer ==
  ASSUME TypeOK, RowInv, NEW w \in Slots, ServerWrites(w)
  PROVE  TypeOK'
<1>1. writes[w].op \in {"none", "save", "delete"} /\ writes[w].id \in Ids \cup {NoRule}
      /\ writes[w].enabled \in BOOLEAN /\ writes[w].stage = "sent"
  <2>1. writes[w] \in Mutation
    BY DEF TypeOK
  <2>2. QED
    BY <2>1 DEF Mutation, ServerWrites
<1>2. rules \in [Ids -> SUBSET Row] /\ created \in 0 .. MaxRules /\ MaxRules \in Nat
  BY BoundAssumption DEF TypeOK
<1>3. rules' \in [Ids -> SUBSET Row] /\ created' \in 0 .. MaxRules
      /\ writes' \in [Slots -> Mutation]
  <2>1. CASE ServerInserts(w)
    <3>1. created + 1 \in Ids
      <4>1. w \in Inserting /\ IsFiniteSet(Inserting)
        <5>1. IsFiniteSet(Slots) /\ Inserting \in SUBSET Slots
          BY BoundAssumption, FS_Interval DEF Slots, Inserting
        <5>2. w \in Inserting
          BY <1>1, <2>1 DEF Inserting, ServerInserts
        <5>3. QED
          BY <5>1, <5>2, FS_Subset
      <4>2. Cardinality(Inserting) \in Nat /\ Cardinality(Inserting) # 0
        BY <4>1, FS_CardinalityType, FS_EmptySet
      <4>3. created + Cardinality(Inserting) <= MaxRules
        BY DEF RowInv
      <4>4. QED
        BY <1>2, <4>2, <4>3 DEF Ids
    <3>2. writes[w].target \in Targets
      BY <2>1 DEF RowInv, ServerInserts
    <3>3. Rule(created + 1, writes[w].target, writes[w].enabled, FALSE) \in Row
      BY <1>1, <3>1, <3>2 DEF Rule, Row
    <3>4. rules' \in [Ids -> SUBSET Row]
      BY <1>2, <2>1, <3>3 DEF ServerInserts
    <3>5. created' \in 0 .. MaxRules
      BY <1>2, <2>1, <3>1 DEF ServerInserts, Ids
    <3>6. QED
      BY <2>1, <3>4, <3>5, WriteTypes DEF ServerInserts, Applied
  <2>2. CASE ServerUpdates(w)
    <3>1. writes[w].id \in Ids /\ writes[w].target \in Targets
      BY <1>1, <2>2 DEF RowInv, ServerUpdates
    <3>2. {[r EXCEPT !.target = writes[w].target, !.enabled = writes[w].enabled] :
             r \in rules[writes[w].id]} \in SUBSET Row
      <4>1. \A r \in Row :
              [r EXCEPT !.target = writes[w].target, !.enabled = writes[w].enabled] \in Row
        BY <1>1, <3>1 DEF Row
      <4>2. rules[writes[w].id] \subseteq Row
        BY <1>2, <3>1
      <4>3. QED
        BY <4>1, <4>2
    <3>3. rules' \in [Ids -> SUBSET Row]
      BY <1>2, <2>2, <3>2 DEF ServerUpdates
    <3>4. QED
      BY <1>2, <2>2, <3>3, WriteTypes DEF ServerUpdates, Applied
  <2>3. CASE ServerDeletes(w)
    BY <1>2, <2>3, WriteTypes DEF ServerDeletes, Applied
  <2>4. CASE ServerRefuses(w)
    BY <1>2, <2>4, WriteTypes DEF ServerRefuses
  <2>5. QED
    BY <2>1, <2>2, <2>3, <2>4 DEF ServerWrites
<1>4. QED
  BY <1>3 DEF TypeOK, ServerWrites, overview

LEMMA NextType ==
  ASSUME TypeOK, RowInv, [Next]_vars
  PROVE  TypeOK'
<1>1. ASSUME NEW t \in left.targets, NEW b \in BOOLEAN, Probe(t, b)
      PROVE  TypeOK'
  <2>1. left' \in Mix /\ probes' \in Seq(Point)
    BY <1>1, MixType, ProbeType DEF Probe
  <2>2. QED
    BY <1>1, <2>1 DEF TypeOK, Probe, overview, form
<1>2. ASSUME NEW t \in left.targets, NEW b \in BOOLEAN, ProbeLive(t, b)
      PROVE  TypeOK'
  <2>1. left' \in Mix /\ probes' \in Seq(Point) /\ Last(probes') \in Point
    BY <1>2, MixType, ProbeType DEF ProbeLive
  <2>2. Append(liveSamples, Last(probes')) \in Seq(Point)
    BY <2>1 DEF TypeOK
  <2>3. liveSamples' \in Seq(Point)
    BY <1>2, <2>2, KeepType DEF ProbeLive
  <2>4. QED
    BY <1>2, <2>1, <2>3 DEF TypeOK, ProbeLive, form
<1>3. ASSUME NEW t \in left.targets, Evaluate(t)
      PROVE  TypeOK'
  <2>1. PICK breached \in SUBSET Ids :
          rules' = [i \in Ids |->
                     {IF r.target = t /\ r.enabled
                      THEN [r EXCEPT !.alert = i \in breached] ELSE r : r \in rules[i]}]
    BY <1>3 DEF Evaluate
  <2>2. ASSUME NEW i \in Ids, NEW r \in Row
        PROVE  (IF r.target = t /\ r.enabled
                THEN [r EXCEPT !.alert = i \in breached] ELSE r) \in Row
    <3>1. (i \in breached) \in BOOLEAN
      OBVIOUS
    <3>2. QED
      BY <3>1 DEF Row
  <2>3. rules \in [Ids -> SUBSET Row]
    BY DEF TypeOK
  <2>4. rules' \in [Ids -> SUBSET Row]
    BY <2>1, <2>2, <2>3
  <2>5. QED
    BY <1>3, <2>4 DEF TypeOK, Evaluate, overview, form
<1>4. ASSUME NEW t \in left.targets, HistoryArrives(t)
      PROVE  TypeOK'
  <2>1. history' \in [Targets -> Nat]
    <3>1. PICK n \in 0 .. flushed : history' = [history EXCEPT ![t] = n]
      BY <1>4 DEF HistoryArrives
    <3>2. n \in Nat /\ history \in [Targets -> Nat]
      BY DEF TypeOK
    <3>3. QED
      BY <3>1, <3>2
  <2>2. QED
    BY <1>4, <2>1 DEF TypeOK, HistoryArrives, server, form
<1>5. ASSUME NEW t \in left.targets, NEW w \in Slots, NEW b \in BOOLEAN, Submit(w, t, b)
      PROVE  TypeOK'
  <2>1. left' \in Mix
    BY <1>5, MixType DEF Submit
  <2>2. t \in Targets
    BY DEF TypeOK, Mix
  <2>3. [NoWrite EXCEPT !.op = "save", !.stage = "sent", !.id = EditedId,
                        !.target = t, !.enabled = b] \in Mutation
    BY <2>2, WriteTypes, RulesType DEF Mutation
  <2>4. writes' \in [Slots -> Mutation]
    BY <1>5, <2>3 DEF TypeOK, Submit
  <2>5. QED
    BY <1>5, <2>1, <2>4 DEF TypeOK, Submit, server, overview
<1>6. CASE Flush
  BY <1>6 DEF TypeOK, Flush, overview, form
<1>7. CASE RecentArrives
  BY <1>7 DEF TypeOK, RecentArrives, server, form
<1>8. ASSUME NEW p \in {"alerts", "overview", "away"}, Show(p)
      PROVE  TypeOK'
  <2>1. left' \in Mix
    BY <1>8, MixType DEF Show
  <2>2. query' \in Query /\ missed' \in BOOLEAN
    BY <1>8, FetchType DEF TypeOK, Show
  <2>3. writes' \in [Slots -> Mutation]
    <3>1. \A m \in Mutation :
            [m EXCEPT !.gone = TRUE, !.frozen = TRUE, !.clears = FALSE] \in Mutation
      BY DEF Mutation
    <3>2. QED
      BY <1>8, <3>1, WriteTypes DEF TypeOK, Show
  <2>4. liveSamples' \in Seq(Point) /\ editing' \in SUBSET Row
        /\ deletingRuleId' \in Ids \cup {NoRule} /\ page' \in {"alerts", "overview", "away"}
    <3>1. /\ liveSamples' = <<>> /\ editing' = {} /\ deletingRuleId' = NoRule
          /\ page' = p
      BY <1>8 DEF Show
    <3>2. QED
      BY <3>1
  <2>5. QED
    BY <1>8, <2>1, <2>2, <2>3, <2>4 DEF TypeOK, Show, server
<1>9. CASE Interval
  BY <1>9, FetchType DEF TypeOK, Interval, server, overview, form
<1>10. CASE ServerLists
  <2>1. ListAlertRules \in Seq(Row)
    BY ListType, ListFacts
  <2>2. \A q \in Query : [q EXCEPT !.stage = "read", !.answer = ListAlertRules] \in Query
    BY <2>1 DEF Query
  <2>3. QED
    BY <1>10, <2>2 DEF TypeOK, ServerLists, server, overview, form
<1>11. CASE ListArrives
  <2>1. query' \in Query
    <3>1. query \in Query /\ query.answer \in Seq(Row) /\ <<>> \in Seq(Row)
      BY DEF TypeOK, Query
    <3>2. {query.answer} \in SUBSET Seq(Row)
      BY <3>1
    <3>3. QED
      BY <1>11, <3>1, <3>2 DEF ListArrives, Query
  <2>2. writes' \in [Slots -> Mutation] /\ deletingRuleId' \in Ids \cup {NoRule}
    <3>1. Settling \in SUBSET Slots
      BY DEF Settling
    <3>2. QED
      BY <1>11, <3>1, OverFacts DEF ListArrives
  <2>3. QED
    BY <1>11, <2>1, <2>2 DEF TypeOK, ListArrives, server, overview
<1>12. CASE ListFails
  <2>1. query' \in Query
    <3>1. query \in Query /\ Fetch \in Query /\ <<>> \in Seq(Row)
      BY FetchType DEF TypeOK
    <3>2. Retry \in Query
      BY <3>1 DEF Query, Retry
    <3>3. [query EXCEPT !.stage = "none", !.answer = <<>>, !.failures = 0,
                        !.status = "error"] \in Query
      BY <3>1 DEF Query
    <3>4. QED
      BY <1>12, <3>2, <3>3 DEF ListFails
  <2>2. left' \in Mix
    BY <1>12, MixType DEF ListFails
  <2>3. writes' \in [Slots -> Mutation] /\ deletingRuleId' \in Ids \cup {NoRule}
    <3>1. Settling \in SUBSET Slots
      BY DEF Settling
    <3>2. CASE Over(Settling)
      BY <3>1, <3>2, OverFacts
    <3>3. CASE UNCHANGED <<writes, deletingRuleId>>
      BY <3>3 DEF TypeOK
    <3>4. QED
      BY <1>12, <3>2, <3>3 DEF ListFails
  <2>4. QED
    BY <1>12, <2>1, <2>2, <2>3 DEF TypeOK, ListFails, server, overview
<1>13. CASE CancelEdit
  BY <1>13 DEF TypeOK, CancelEdit, server, overview
<1>14. ASSUME NEW r \in Rules, Edit(r)
       PROVE  TypeOK'
  <2>1. editing' \in SUBSET Row
    BY <1>14, RulesType DEF Edit
  <2>2. QED
    BY <1>14, <2>1 DEF TypeOK, Edit, server, overview
<1>15. ASSUME NEW r \in Rules, NEW w \in Slots, Delete(w, r)
       PROVE  TypeOK'
  <2>1. left' \in Mix
    BY <1>15, MixType DEF Delete
  <2>2. r \in Row /\ r.id \in Ids
    BY RulesType DEF Row
  <2>3. [NoWrite EXCEPT !.op = "delete", !.stage = "sent", !.id = r.id] \in Mutation
    BY <2>2, WriteTypes DEF Mutation
  <2>4. writes' \in [Slots -> Mutation]
    BY <1>15, <2>3, WriteTypes DEF Delete
  <2>5. deletingRuleId' \in Ids \cup {NoRule}
    BY <1>15, <2>2 DEF Delete
  <2>6. QED
    BY <1>15, <2>1, <2>4, <2>5 DEF TypeOK, Delete, server, overview
<1>16. ASSUME NEW w \in Slots, ServerWrites(w)
       PROVE  TypeOK'
  BY <1>16, TypeServer
<1>17. ASSUME NEW w \in Slots, Succeeds(w)
       PROVE  TypeOK'
  <2>1. query' \in Query /\ missed' \in BOOLEAN
    BY <1>17, InvalidateType DEF Succeeds
  <2>2. writes' \in [Slots -> Mutation] /\ deletingRuleId' \in Ids \cup {NoRule}
    <3>1. CASE Over({w})
      BY <3>1, OverFacts
    <3>2. CASE writes' = [writes EXCEPT ![w].stage = "settling"]
               /\ UNCHANGED deletingRuleId
      BY <3>2, WriteTypes DEF TypeOK
    <3>3. QED
      BY <1>17, <3>1, <3>2 DEF Succeeds
  <2>3. editing' \in SUBSET Row
    BY <1>17 DEF TypeOK, Succeeds
  <2>4. QED
    BY <1>17, <2>1, <2>2, <2>3 DEF TypeOK, Succeeds, server, overview
<1>18. ASSUME NEW w \in Slots, Fails(w)
       PROVE  TypeOK'
  <2>1. left' \in Mix /\ missed' \in BOOLEAN
    BY <1>18, MixType DEF TypeOK, Fails
  <2>2. writes' \in [Slots -> Mutation] /\ deletingRuleId' \in Ids \cup {NoRule}
    BY <1>18, OverFacts DEF Fails
  <2>3. QED
    BY <1>18, <2>1, <2>2 DEF TypeOK, Fails, server, overview
<1>19. CASE Hide
  BY <1>19, MixType DEF TypeOK, Hide, server, overview, form
<1>20. CASE Reveal
  <2>1. query' \in Query
    BY <1>20 DEF TypeOK, Query, Reveal
  <2>2. QED
    BY <1>20, <2>1 DEF TypeOK, Reveal, server, overview, form
<1>21. CASE UNCHANGED vars
  BY <1>21 DEF TypeOK, vars, server, overview, form
<1>22. QED
  BY <1>1, <1>2, <1>3, <1>4, <1>5, <1>6, <1>7, <1>8, <1>9, <1>10, <1>11, <1>12, <1>13,
     <1>14, <1>15, <1>16, <1>17, <1>18, <1>19, <1>20, <1>21 DEF Next, ListQuery

-----------------------------------------------------------------------------
(* Rows and mutations.                                                      *)
LEMMA InsertingFinite ==
  /\ IsFiniteSet(Slots) /\ IsFiniteSet(Inserting) /\ Cardinality(Inserting) \in Nat
  /\ \A T \in SUBSET Inserting : Cardinality(T) \in Nat
                                 /\ Cardinality(T) <= Cardinality(Inserting)
<1>1. IsFiniteSet(Slots) /\ Inserting \in SUBSET Slots
  <2>1. 1 \in Int /\ MaxWrites \in Int
    BY BoundAssumption
  <2>2. IsFiniteSet(Slots)
    BY <2>1, FS_Interval DEF Slots
  <2>3. QED
    BY <2>2 DEF Inserting
<1>2. IsFiniteSet(Inserting) /\ Cardinality(Inserting) \in Nat
  BY <1>1, FS_Subset, FS_CardinalityType
<1>3. \A T \in SUBSET Inserting : IsFiniteSet(T) /\ Cardinality(T) <= Cardinality(Inserting)
  BY <1>2, FS_Subset
<1>4. QED
  BY <1>1, <1>2, <1>3, FS_CardinalityType

(* No insert was added, and no rule.                                        *)
LEMMA NoInsert ==
  ASSUME TypeOK, RowInv, created' = created, Inserting' \subseteq Inserting
  PROVE  created' + Cardinality(Inserting') <= MaxRules
<1>1. created \in Nat /\ MaxRules \in Nat
  BY BoundAssumption DEF TypeOK
<1>2. created + Cardinality(Inserting) <= MaxRules
  BY DEF RowInv
<1>3. Inserting' \in SUBSET Inserting
  OBVIOUS
<1>4. QED
  BY <1>1, <1>2, <1>3, InsertingFinite

RowsHave == \A i \in Ids : IsFiniteSet(rules[i]) /\ \A r \in rules[i] : r.id = i
Written == \A w \in Slots :
             /\ writes[w].op = "save" => writes[w].target \in Targets
             /\ writes[w].op = "delete" => writes[w].id \in Ids
             /\ writes[w].op = "none" <=> writes[w].stage = "none"

LEMMA RowParts == RowInv <=> /\ RowsHave /\ Written
                             /\ created + Cardinality(Inserting) <= MaxRules
  BY DEF RowInv, RowsHave, Written

LEMMA RowPartsNext ==
  ASSUME RowsHave', Written', created' + Cardinality(Inserting') <= MaxRules
  PROVE  RowInv'
  BY DEF RowInv, RowsHave, Written

(* The image of a finite set by a function is finite.                       *)
LEMMA ImageFinite ==
  ASSUME NEW S, IsFiniteSet(S), NEW f, DOMAIN f = S
  PROVE  IsFiniteSet({f[x] : x \in S})
<1> DEFINE T == {f[x] : x \in S}
           g == [x \in S |-> f[x]]
<1>1. g \in [S -> T] /\ \A y \in T : \E x \in S : g[x] = y
  OBVIOUS
<1> HIDE DEF g, T
<1>2. g \in Surjection(S, T)
  BY <1>1 DEF Surjection
<1>3. IsFiniteSet(T)
  BY <1>2, FS_Surjection
<1>4. QED
  BY <1>3 DEF T

LEMMA RowSame ==
  ASSUME RowInv, UNCHANGED <<rules, created, writes>>
  PROVE  RowInv'
  BY DEF RowInv, Inserting

(* Mutations that end leave the rest as it was.                             *)
LEMMA OverRow ==
  ASSUME TypeOK, RowInv, NEW S \in SUBSET Slots, Over(S), UNCHANGED <<rules, created>>
  PROVE  RowInv'
<1>0. RowsHave /\ Written /\ NoWrite.op = "none" /\ NoWrite.stage = "none"
  BY RowParts DEF NoWrite
<1>1. \A w \in Slots : writes'[w] = IF w \in S THEN NoWrite ELSE writes[w]
  BY OverFacts
<1>2. Written'
  BY <1>0, <1>1 DEF Written
<1>3. Inserting' \subseteq Inserting
  BY <1>0, <1>1 DEF Inserting
<1>4. created' + Cardinality(Inserting') <= MaxRules
  BY <1>3, NoInsert
<1>5. QED
  BY <1>0, <1>2, <1>4, RowPartsNext DEF RowsHave

LEMMA InitRow == Init => RowInv
<1> SUFFICES ASSUME Init PROVE RowInv
  OBVIOUS
<1>1. RowsHave
  <2>1. PICK t \in [1 .. created -> left.ruled], e \in [1 .. created -> BOOLEAN],
             a \in [1 .. created -> left.alerts] :
          rules = [i \in Ids |->
                     IF i > created THEN {} ELSE {Rule(i, t[i], e[i], a[i])}]
    BY DEF Init
  <2>2. ASSUME NEW i \in Ids
        PROVE  IsFiniteSet(rules[i]) /\ \A r \in rules[i] : r.id = i
    <3>1. CASE i > created
      BY <2>1, <3>1, FS_EmptySet
    <3>2. CASE ~(i > created)
      <4>1. rules[i] = {Rule(i, t[i], e[i], a[i])}
        BY <2>1, <3>2
      <4>2. IsFiniteSet(rules[i])
        BY <4>1, FS_Singleton
      <4>3. Rule(i, t[i], e[i], a[i]).id = i
        BY DEF Rule
      <4>4. QED
        BY <4>1, <4>2, <4>3
    <3>3. QED
      BY <3>1, <3>2
  <2>3. QED
    BY <2>2 DEF RowsHave
<1>2. Written
  BY DEF Init, Written, NoWrite
<1>3. created + Cardinality(Inserting) <= MaxRules
  <2>1. Inserting = {}
    BY DEF Init, Inserting, NoWrite
  <2>2. Cardinality(Inserting) = 0
    BY <2>1, FS_EmptySet
  <2>3. created \in 0 .. MaxRules /\ MaxRules \in Nat
    BY InitType, BoundAssumption DEF TypeOK
  <2>4. QED
    BY <2>2, <2>3
<1>4. QED
  BY <1>1, <1>2, <1>3, RowParts

LEMMA ServerRow ==
  ASSUME TypeOK, RowInv, NEW w \in Slots, ServerWrites(w)
  PROVE  RowInv'
<1>0. /\ RowsHave /\ Written /\ rules \in [Ids -> SUBSET Row]
      /\ writes \in [Slots -> Mutation] /\ writes[w].stage = "sent"
      /\ created + Cardinality(Inserting) <= MaxRules
  BY RowParts DEF TypeOK, ServerWrites
<1>1. \A st \in {"applied", "refused"} :
        writes' = [writes EXCEPT ![w].stage = st] =>
          /\ Inserting' = Inserting \ {w}
          /\ Written'
  <2> SUFFICES ASSUME NEW st \in {"applied", "refused"},
                      writes' = [writes EXCEPT ![w].stage = st]
               PROVE  Inserting' = Inserting \ {w} /\ Written'
    OBVIOUS
  <2>1. ASSUME NEW v \in Slots
        PROVE  /\ writes'[v].op = writes[v].op /\ writes'[v].id = writes[v].id
               /\ writes'[v].target = writes[v].target
               /\ writes'[v].stage = IF v = w THEN st ELSE writes[v].stage
    <3>1. writes[v] \in Mutation
      BY <1>0
    <3>2. writes'[v] = IF v = w THEN [writes[v] EXCEPT !.stage = st] ELSE writes[v]
      BY <1>0
    <3>3. QED
      BY <3>1, <3>2 DEF Mutation
  <2>2. Inserting' = Inserting \ {w}
    BY <2>1 DEF Inserting
  <2>3. Written'
    BY <1>0, <2>1 DEF Written
  <2>4. QED
    BY <2>2, <2>3
<1>2. CASE ServerInserts(w)
  <2>1. Inserting' = Inserting \ {w} /\ Written' /\ w \in Inserting
    BY <1>0, <1>1, <1>2 DEF ServerInserts, Applied, Inserting
  <2>2. Cardinality(Inserting') = Cardinality(Inserting) - 1
    BY <2>1, InsertingFinite, FS_RemoveElement
  <2>3. created' + Cardinality(Inserting') <= MaxRules
    <3>1. created \in Nat /\ created' = created + 1 /\ MaxRules \in Nat
      BY <1>2, BoundAssumption DEF TypeOK, ServerInserts
    <3>2. QED
      BY <1>0, <2>2, <3>1, InsertingFinite
  <2>4. RowsHave'
    <3> DEFINE r == Rule(created + 1, writes[w].target, writes[w].enabled, FALSE)
    <3>1. rules' = [rules EXCEPT ![created + 1] = {r}]
      BY <1>2 DEF ServerInserts
    <3>2. r.id = created + 1
      BY DEF Rule
    <3> HIDE DEF r
    <3>5. IsFiniteSet({r}) /\ \A q \in {r} : q.id = created + 1
      BY <3>2, FS_Singleton
    <3>3. ASSUME NEW i \in Ids
          PROVE  IsFiniteSet(rules'[i]) /\ \A q \in rules'[i] : q.id = i
      BY <1>0, <3>1, <3>5 DEF RowsHave
    <3>4. QED
      BY <3>3 DEF RowsHave
  <2>5. QED
    BY <2>1, <2>3, <2>4, RowPartsNext
<1>3. CASE ServerUpdates(w)
  <2>1. Inserting' \subseteq Inserting /\ Written' /\ created' = created
    BY <1>1, <1>3 DEF ServerUpdates, Applied
  <2>2. RowsHave'
    <3> DEFINE New(r) == [r EXCEPT !.target = writes[w].target, !.enabled = writes[w].enabled]
               j == writes[w].id
    <3>1. rules' = [rules EXCEPT ![j] = {New(r) : r \in rules[j]}]
      <4>1. j \in Ids
        <5>1. writes[w] \in Mutation
          BY <1>0
        <5>2. QED
          BY <1>3, <5>1 DEF ServerUpdates, Mutation
      <4>2. QED
        BY <1>0, <1>3, <4>1 DEF ServerUpdates
    <3>2. \A r \in Row : New(r).id = r.id
      BY DEF Row
    <3>3. ASSUME NEW i \in Ids PROVE IsFiniteSet({New(r) : r \in rules[i]})
      <4> DEFINE f == [r \in rules[i] |-> New(r)]
      <4>1. {f[r] : r \in rules[i]} = {New(r) : r \in rules[i]}
        OBVIOUS
      <4>2. DOMAIN f = rules[i] /\ IsFiniteSet(rules[i])
        BY <1>0 DEF RowsHave
      <4> HIDE DEF f
      <4>3. IsFiniteSet({f[r] : r \in rules[i]})
        BY <4>2, ImageFinite
      <4>4. QED
        BY <4>1, <4>3
    <3> HIDE DEF New, j
    <3>4. ASSUME NEW i \in Ids
          PROVE  IsFiniteSet(rules'[i]) /\ \A q \in rules'[i] : q.id = i
      BY <1>0, <3>1, <3>2, <3>3 DEF RowsHave
    <3>5. QED
      BY <3>4 DEF RowsHave
  <2>3. QED
    BY <2>1, <2>2, NoInsert, RowPartsNext
<1>4. CASE ServerDeletes(w)
  <2>1. Inserting' \subseteq Inserting /\ Written' /\ created' = created
    BY <1>1, <1>4 DEF ServerDeletes, Applied
  <2>2. RowsHave'
    BY <1>0, <1>4, FS_EmptySet DEF ServerDeletes, RowsHave
  <2>3. QED
    BY <2>1, <2>2, NoInsert, RowPartsNext
<1>5. CASE ServerRefuses(w)
  <2>1. Inserting' \subseteq Inserting /\ Written' /\ created' = created
    BY <1>1, <1>5 DEF ServerRefuses
  <2>2. RowsHave'
    BY <1>0, <1>5 DEF ServerRefuses, RowsHave
  <2>3. QED
    BY <2>1, <2>2, NoInsert, RowPartsNext
<1>6. QED
  BY <1>2, <1>3, <1>4, <1>5 DEF ServerWrites

(* Every step keeps each row under its id, and leaves an id for each insert. *)
LEMMA NextRow ==
  ASSUME TypeOK, RowInv, [Next]_vars
  PROVE  RowInv'
<1>0. /\ RowsHave /\ Written /\ rules \in [Ids -> SUBSET Row]
      /\ writes \in [Slots -> Mutation] /\ MaxRules \in Nat /\ created \in Nat
      /\ created + Cardinality(Inserting) <= MaxRules
  BY BoundAssumption, RowParts DEF TypeOK
<1>1. ASSUME NEW t \in left.targets, NEW b \in BOOLEAN, Probe(t, b) \/ ProbeLive(t, b)
      PROVE  RowInv'
  BY <1>1, RowSame DEF Probe, ProbeLive, form
<1>2. ASSUME NEW t \in left.targets, Evaluate(t)
      PROVE  RowInv'
  <2>1. PICK breached \in SUBSET Ids :
          rules' = [i \in Ids |->
                     {IF r.target = t /\ r.enabled
                      THEN [r EXCEPT !.alert = i \in breached] ELSE r : r \in rules[i]}]
    BY <1>2 DEF Evaluate
  <2> DEFINE New(i, r) == IF r.target = t /\ r.enabled
                          THEN [r EXCEPT !.alert = i \in breached] ELSE r
  <2>2. \A i \in Ids : rules'[i] = {New(i, r) : r \in rules[i]}
    BY <2>1
  <2>3. \A i \in Ids : \A r \in Row : New(i, r).id = r.id
    BY DEF Row
  <2>4. ASSUME NEW i \in Ids PROVE IsFiniteSet({New(i, r) : r \in rules[i]})
    <3> DEFINE f == [r \in rules[i] |-> New(i, r)]
    <3>1. {f[r] : r \in rules[i]} = {New(i, r) : r \in rules[i]}
      OBVIOUS
    <3>2. DOMAIN f = rules[i] /\ IsFiniteSet(rules[i])
      BY <1>0 DEF RowsHave
    <3> HIDE DEF f
    <3>3. IsFiniteSet({f[r] : r \in rules[i]})
      BY <3>2, ImageFinite
    <3>4. QED
      BY <3>1, <3>3
  <2> HIDE DEF New
  <2>5. RowsHave'
    <3>1. ASSUME NEW i \in Ids
          PROVE  IsFiniteSet(rules'[i]) /\ \A q \in rules'[i] : q.id = i
      BY <1>0, <2>2, <2>3, <2>4 DEF RowsHave
    <3>2. QED
      BY <3>1 DEF RowsHave
  <2>6. UNCHANGED <<created, writes>>
    BY <1>2 DEF Evaluate, form
  <2>7. Written' /\ created' + Cardinality(Inserting') <= MaxRules
    BY <1>0, <2>6 DEF Written, Inserting
  <2>8. QED
    BY <2>5, <2>7, RowPartsNext
<1>3. ASSUME NEW t \in left.targets, HistoryArrives(t)
      PROVE  RowInv'
  BY <1>3, RowSame DEF HistoryArrives, server, form
<1>4. ASSUME NEW t \in left.targets, NEW w \in Slots, NEW b \in BOOLEAN, Submit(w, t, b)
      PROVE  RowInv'
  <2> DEFINE m == [NoWrite EXCEPT !.op = "save", !.stage = "sent", !.id = EditedId,
                                  !.target = t, !.enabled = b]
  <2>1. /\ m.op = "save" /\ m.stage = "sent" /\ m.id = EditedId /\ m.target = t
        /\ t \in Targets
    BY DEF NoWrite, TypeOK, Mix
  <2>2. writes' = [writes EXCEPT ![w] = m] /\ UNCHANGED <<rules, created>>
        /\ writes[w] = NoWrite
    BY <1>4 DEF Submit, server, Free
  <2> HIDE DEF m
  <2>3. Written'
    BY <1>0, <2>1, <2>2 DEF Written
  <2>4. CASE EditedId = NoRule
    <3>1. Inserting' = Inserting \cup {w} /\ w \notin Inserting
      BY <1>0, <2>1, <2>2, <2>4 DEF Inserting, NoWrite
    <3>2. Cardinality(Inserting') = Cardinality(Inserting) + 1
      BY <3>1, InsertingFinite, FS_AddElement
    <3>3. created + Cardinality(Inserting) < MaxRules
      BY <1>4, <2>4 DEF Submit
    <3>4. created' + Cardinality(Inserting') <= MaxRules
      BY <1>0, <2>2, <3>2, <3>3, InsertingFinite
    <3>5. QED
      BY <1>0, <2>2, <2>3, <3>4, RowPartsNext DEF RowsHave
  <2>5. CASE EditedId # NoRule
    <3>1. Inserting' \subseteq Inserting
      BY <1>0, <2>1, <2>2, <2>5 DEF Inserting
    <3>2. created' + Cardinality(Inserting') <= MaxRules
      BY <2>2, <3>1, NoInsert
    <3>3. QED
      BY <1>0, <2>2, <2>3, <3>2, RowPartsNext DEF RowsHave
  <2>6. QED
    BY <2>4, <2>5
<1>5. CASE Flush \/ RecentArrives \/ Interval
  BY <1>5, RowSame DEF Flush, RecentArrives, Interval, server, form
<1>6. ASSUME NEW p \in {"alerts", "overview", "away"}, Show(p)
      PROVE  RowInv'
  <2>1. writes' = [w \in Slots |->
                 IF writes[w] = NoWrite THEN NoWrite
                 ELSE [writes[w] EXCEPT !.gone = TRUE, !.frozen = TRUE,
                                        !.clears = FALSE]]
        /\ UNCHANGED <<rules, created>>
    BY <1>6 DEF Show, server
  <2>2. ASSUME NEW v \in Slots
        PROVE  /\ writes'[v].op = writes[v].op /\ writes'[v].id = writes[v].id
               /\ writes'[v].target = writes[v].target
               /\ writes'[v].stage = writes[v].stage
    <3>1. writes[v] \in Mutation
      BY <1>0
    <3>2. QED
      BY <2>1, <3>1 DEF Mutation
  <2>3. Inserting' = Inserting
    BY <2>2 DEF Inserting
  <2>4. Written'
    BY <1>0, <2>2 DEF Written
  <2>5. QED
    BY <1>0, <2>1, <2>3, <2>4, RowPartsNext DEF RowsHave
<1>7. CASE ListQuery \/ ListFails
  <2>1. Settling \in SUBSET Slots
    BY DEF Settling
  <2>2. UNCHANGED <<rules, created>> /\ (Over(Settling) \/ UNCHANGED writes)
    BY <1>7 DEF ListQuery, ServerLists, ListArrives, ListFails, server, form
  <2>3. QED
    BY <2>1, <2>2, OverRow, RowSame
<1>8. CASE CancelEdit
  BY <1>8, RowSame DEF CancelEdit, server
<1>9. ASSUME NEW r \in Rules, Edit(r)
      PROVE  RowInv'
  BY <1>9, RowSame DEF Edit, server
<1>10. ASSUME NEW r \in Rules, NEW w \in Slots, Delete(w, r)
       PROVE  RowInv'
  <2> DEFINE m == [NoWrite EXCEPT !.op = "delete", !.stage = "sent", !.id = r.id]
  <2>1. m.op = "delete" /\ m.stage = "sent" /\ m.id = r.id /\ r.id \in Ids
    BY RulesType DEF NoWrite, Row
  <2>2. writes' = [v \in Slots |-> IF v = w THEN m ELSE Freeze(v)]
        /\ UNCHANGED <<rules, created>>
    BY <1>10 DEF Delete, server
  <2> HIDE DEF m
  <2>3. ASSUME NEW v \in Slots, v # w
        PROVE  /\ writes'[v].op = writes[v].op /\ writes'[v].id = writes[v].id
               /\ writes'[v].target = writes[v].target
               /\ writes'[v].stage = writes[v].stage
    BY <2>2, <2>3, WriteTypes
  <2>4. writes'[w] = m
    BY <2>2
  <2>5. Written'
    BY <1>0, <2>1, <2>3, <2>4 DEF Written
  <2>6. Inserting' \subseteq Inserting
    BY <2>1, <2>3, <2>4 DEF Inserting
  <2>7. created' + Cardinality(Inserting') <= MaxRules
    BY <2>2, <2>6, NoInsert
  <2>8. QED
    BY <1>0, <2>2, <2>5, <2>7, RowPartsNext DEF RowsHave
<1>11. ASSUME NEW w \in Slots, ServerWrites(w)
       PROVE  RowInv'
  BY <1>11, ServerRow
<1>12. ASSUME NEW w \in Slots, Succeeds(w) \/ Fails(w)
       PROVE  RowInv'
  <2>1. UNCHANGED <<rules, created>>
        /\ \/ Over({w})
           \/ /\ writes' = [writes EXCEPT ![w].stage = "settling"]
              /\ writes[w].stage = "applied"
    BY <1>12 DEF Succeeds, Fails, server
  <2>2. CASE Over({w})
    BY <2>1, <2>2, OverRow
  <2>3. CASE writes' = [writes EXCEPT ![w].stage = "settling"]
             /\ writes[w].stage = "applied"
    <3>1. ASSUME NEW v \in Slots
          PROVE  /\ writes'[v].op = writes[v].op /\ writes'[v].id = writes[v].id
                 /\ writes'[v].target = writes[v].target
                 /\ writes'[v].stage = IF v = w THEN "settling" ELSE writes[v].stage
      <4>1. writes[v] \in Mutation
        BY <1>0
      <4>2. writes'[v] = IF v = w THEN [writes[v] EXCEPT !.stage = "settling"]
                         ELSE writes[v]
        BY <1>0, <2>3
      <4>3. QED
        BY <4>1, <4>2 DEF Mutation
    <3>2. Written'
      BY <1>0, <2>3, <3>1 DEF Written
    <3>3. Inserting' \subseteq Inserting
      BY <2>3, <3>1 DEF Inserting
    <3>4. created' + Cardinality(Inserting') <= MaxRules
      BY <2>1, <3>3, NoInsert
    <3>5. QED
      BY <1>0, <2>1, <3>2, <3>4, RowPartsNext DEF RowsHave
  <2>4. QED
    BY <2>1, <2>2, <2>3
<1>13. CASE Hide \/ Reveal
  BY <1>13, RowSame DEF Hide, Reveal, server, form
<1>14. CASE UNCHANGED vars
  BY <1>14, RowSame DEF vars, server, form
<1>15. QED
  BY <1>1, <1>2, <1>3, <1>4, <1>5, <1>6, <1>7, <1>8, <1>9, <1>10, <1>11, <1>12, <1>13,
     <1>14 DEF Next

-----------------------------------------------------------------------------
(* What was read.                                                           *)
LEMMA InitRead == Init => ReadInv
  BY DEF Init, ReadInv

LEMMA ReadSame ==
  ASSUME ReadInv, UNCHANGED <<probes, flushed, recent, history>>
  PROVE  ReadInv'
  BY DEF ReadInv

(* Every step keeps what was read within what is stored.                    *)
LEMMA NextRead ==
  ASSUME TypeOK, ReadInv, [Next]_vars
  PROVE  ReadInv'
<1>0. /\ Len(probes) \in Nat /\ flushed \in Nat /\ recent \in Nat
      /\ history \in [Targets -> Nat]
      /\ flushed <= Len(probes) /\ recent <= flushed
      /\ \A t \in Targets : history[t] <= flushed
  BY DEF TypeOK, ReadInv
<1>1. ASSUME NEW t \in left.targets, NEW b \in BOOLEAN, Probe(t, b) \/ ProbeLive(t, b)
      PROVE  ReadInv'
  <2>1. Len(probes') = Len(probes) + 1 /\ UNCHANGED <<flushed, recent, history>>
    BY <1>1, ProbeType DEF Probe, ProbeLive, overview
  <2>2. QED
    BY <1>0, <2>1 DEF ReadInv
<1>2. ASSUME NEW t \in left.targets, HistoryArrives(t)
      PROVE  ReadInv'
  <2>1. PICK n \in 0 .. flushed : history' = [history EXCEPT ![t] = n]
    BY <1>2 DEF HistoryArrives
  <2>2. UNCHANGED <<probes, flushed, recent>>
    BY <1>2 DEF HistoryArrives, server
  <2>3. QED
    BY <1>0, <2>1, <2>2 DEF ReadInv
<1>3. CASE Flush
  <2>1. PICK n \in flushed + 1 .. Len(probes) : flushed' = n
    BY <1>3 DEF Flush
  <2>2. UNCHANGED <<probes, recent, history>>
    BY <1>3 DEF Flush, overview
  <2>3. QED
    BY <1>0, <2>1, <2>2 DEF ReadInv
<1>4. CASE RecentArrives
  <2>1. PICK n \in recent .. flushed : recent' = n
    BY <1>4 DEF RecentArrives
  <2>2. UNCHANGED <<probes, flushed, history>>
    BY <1>4 DEF RecentArrives, server
  <2>3. QED
    BY <1>0, <2>1, <2>2 DEF ReadInv
<1>5. ASSUME NEW t \in left.targets, NEW w \in Slots, NEW b \in BOOLEAN, Submit(w, t, b)
      PROVE  ReadInv'
  BY <1>5, ReadSame DEF Submit, server, overview
<1>6. ASSUME NEW t \in left.targets, Evaluate(t)
      PROVE  ReadInv'
  BY <1>6, ReadSame DEF Evaluate, overview
<1>7. ASSUME NEW p \in {"alerts", "overview", "away"}, Show(p)
      PROVE  ReadInv'
  BY <1>7, ReadSame DEF Show, server
<1>8. CASE Interval \/ ListQuery \/ ListFails \/ CancelEdit \/ Hide \/ Reveal
  BY <1>8, ReadSame DEF Interval, ListQuery, ServerLists, ListArrives, ListFails,
     CancelEdit, Hide, Reveal, server, overview
<1>9. ASSUME NEW r \in Rules, Edit(r) \/ \E w \in Slots : Delete(w, r)
      PROVE  ReadInv'
  BY <1>9, ReadSame DEF Edit, Delete, server, overview
<1>10. ASSUME NEW w \in Slots, ServerWrites(w)
       PROVE  ReadInv'
  BY <1>10, ReadSame DEF ServerWrites, overview
<1>11. ASSUME NEW w \in Slots, Succeeds(w) \/ Fails(w)
       PROVE  ReadInv'
  BY <1>11, ReadSame DEF Succeeds, Fails, server, overview
<1>12. CASE UNCHANGED vars
  BY <1>12, ReadSame DEF vars, server, overview
<1>13. QED
  BY <1>1, <1>2, <1>3, <1>4, <1>5, <1>6, <1>7, <1>8, <1>9, <1>10, <1>11, <1>12
     DEF Next

-----------------------------------------------------------------------------
(* The list.                                                                *)
Held == {Config(r) : r \in UNION {rules[i] : i \in Ids}}

LEMMA InitList == Init => ListInv
  BY DEF Init, ListInv

(* A step that leaves the query alone leaves the list as it should be if    *)
(* the rules stay, or else somebody owes the page the change.               *)
LEMMA ListKeeps ==
  ASSUME ListInv, UNCHANGED <<query, page>>,
         missed' \/ Owed' \/ (~missed /\ ~Owed /\ Held' = Held)
  PROVE  ListInv'
<1>1. CASE missed' \/ Owed'
  BY <1>1 DEF ListInv, HasData, active
<1>2. CASE ~missed /\ ~Owed /\ Held' = Held /\ ~missed' /\ ~Owed'
  BY <1>2 DEF ListInv, HasData, active, IsServers, Rules, Held
<1>3. QED
  BY <1>1, <1>2

(* Every step keeps what is owed to the list.                               *)
LEMMA NextList ==
  ASSUME TypeOK, RowInv, TypeOK', ListInv, [Next]_vars
  PROVE  ListInv'
<1>0. /\ rules \in [Ids -> SUBSET Row] /\ query \in Query
      /\ writes \in [Slots -> Mutation] /\ missed \in BOOLEAN /\ missed' \in BOOLEAN
  BY DEF TypeOK
<1>1. ASSUME UNCHANGED <<rules, query, page, writes, missed>>
      PROVE  ListInv'
  BY <1>1, ListKeeps DEF Held, Owed
<1>2. ASSUME NEW t \in left.targets, NEW b \in BOOLEAN,
             Probe(t, b) \/ ProbeLive(t, b) \/ HistoryArrives(t)
      PROVE  ListInv'
  BY <1>1, <1>2 DEF Probe, ProbeLive, HistoryArrives, server, form
<1>3. ASSUME NEW t \in left.targets, Evaluate(t)
      PROVE  ListInv'
  <2>1. PICK breached \in SUBSET Ids :
          rules' = [i \in Ids |->
                     {IF r.target = t /\ r.enabled
                      THEN [r EXCEPT !.alert = i \in breached] ELSE r : r \in rules[i]}]
    BY <1>3 DEF Evaluate
  <2> DEFINE New(i, r) == IF r.target = t /\ r.enabled
                          THEN [r EXCEPT !.alert = i \in breached] ELSE r
  <2>2. \A i \in Ids : rules'[i] = {New(i, r) : r \in rules[i]}
    BY <2>1
  <2>3. ASSUME NEW i \in Ids, NEW r \in Row PROVE Config(New(i, r)) = Config(r)
    <3>1. New(i, r).id = r.id /\ New(i, r).target = r.target
          /\ New(i, r).enabled = r.enabled
      BY DEF Row
    <3> HIDE DEF New
    <3>2. QED
      BY <3>1 DEF Config
  <2> HIDE DEF New
  <2>4. \A i \in Ids : \A r \in rules[i] : Config(r) \in Held /\ Config(r) \in Held'
    BY <1>0, <2>2, <2>3 DEF Held
  <2>5. \A i \in Ids : \A q \in rules'[i] : Config(q) \in Held
    BY <1>0, <2>2, <2>3, <2>4
  <2>6. Held' = Held
    BY <2>4, <2>5 DEF Held
  <2>7. UNCHANGED <<query, page, writes, missed>>
    BY <1>3 DEF Evaluate, form
  <2>8. QED
    BY <1>0, <2>6, <2>7, ListKeeps DEF Owed
<1>4. ASSUME NEW t \in left.targets, NEW w \in Slots, NEW b \in BOOLEAN, Submit(w, t, b)
      PROVE  ListInv'
  <2>1. UNCHANGED <<rules, query, page, missed>>
    BY <1>4 DEF Submit, server
  <2>2. Owed' <=> Owed
    <3>1. /\ writes' = [writes EXCEPT ![w] =
               [NoWrite EXCEPT !.op = "save", !.stage = "sent", !.id = EditedId,
                               !.target = t, !.enabled = b]]
          /\ writes[w] = NoWrite
      BY <1>4 DEF Submit, Free
    <3>2. writes'[w].stage = "sent" /\ writes[w].stage = "none"
      BY <1>0, <3>1 DEF NoWrite
    <3>3. \A v \in Slots : v # w => writes'[v] = writes[v]
      BY <1>0, <3>1
    <3>4. QED
      BY <3>2, <3>3 DEF Owed
  <2>3. QED
    BY <1>0, <2>1, <2>2, ListKeeps DEF Held
<1>5. CASE Flush \/ RecentArrives
  BY <1>1, <1>5 DEF Flush, RecentArrives, server, form
<1>6. ASSUME NEW p \in {"alerts", "overview", "away"}, Show(p)
      PROVE  ListInv'
  <2>1. Owed' <=> Owed
    <3>1. \A w \in Slots : writes'[w].stage = writes[w].stage
      <4> TAKE w \in Slots
      <4>1. writes[w] \in Mutation
        BY <1>0
      <4>2. writes'[w] = IF writes[w] = NoWrite THEN NoWrite
                         ELSE [writes[w] EXCEPT !.gone = TRUE, !.frozen = TRUE,
                                                !.clears = FALSE]
        BY <1>6 DEF Show
      <4>3. QED
        BY <4>1, <4>2 DEF Mutation
    <3>2. QED
      BY <3>1 DEF Owed
  <2>2. UNCHANGED rules /\ page' = p
    BY <1>6 DEF Show, server
  <2>3. Held' = Held
    BY <2>2 DEF Held
  <2>4. CASE query' = Fetch /\ missed' = FALSE
    <3>1. query'.stage = "sent" /\ query'.data = query.data
          /\ query'.status = IF HasData THEN query.status ELSE "pending"
      BY <2>4, FetchType
    <3>2. QED
      BY <3>1 DEF ListInv, HasData
  <2>5. CASE UNCHANGED <<query, missed>>
             /\ (p = "away" \/ query.stage # "none" \/ (HasData /\ ~query.invalid))
    BY <2>1, <2>2, <2>3, <2>5 DEF ListInv, HasData, active, IsServers, Rules, Held
  <2>6. QED
    BY <1>6, <2>4, <2>5 DEF Show
<1>7. CASE Interval
  <2>1. query'.stage = "sent" /\ query'.data = query.data
        /\ query'.status = IF HasData THEN query.status ELSE "pending"
    BY <1>7, FetchType DEF Interval
  <2>2. QED
    BY <2>1 DEF ListInv, HasData
<1>8. CASE ServerLists
  <2>1. /\ query'.stage = "read" /\ query'.answer = ListAlertRules
        /\ query'.data = query.data /\ query'.status = query.status
    BY <1>0, <1>8 DEF ServerLists, Query
  <2>2. Elems(ListAlertRules) = UNION {rules[i] : i \in Ids} /\ rules' = rules
    BY <1>8, ListType, ListFacts DEF ServerLists, server
  <2>3. IsServers({query.answer[i] : i \in DOMAIN query.answer})'
    BY <2>1, <2>2 DEF IsServers, Elems
  <2>4. QED
    BY <2>1, <2>3 DEF ListInv, HasData
<1>9. CASE ListArrives
  <2>1. /\ query'.stage = "none" /\ query'.data = {query.answer}
        /\ query'.status = "success" /\ query'.invalid = FALSE
    BY <1>0, <1>9 DEF ListArrives, Query
  <2>2. UNCHANGED <<rules, missed, page>> /\ query.stage = "read" /\ Over(Settling)
    BY <1>9 DEF ListArrives, server
  <2>3. Rules' = {query.answer[i] : i \in DOMAIN query.answer}
    BY <2>1 DEF Rules
  <2>4. ~missed /\ ~Owed => IsServers(Rules)'
    BY <2>2, <2>3 DEF ListInv, IsServers
  <2>5. Owed => Owed'
    <3>1. Settling \in SUBSET Slots
      BY DEF Settling
    <3>2. \A w \in Slots : writes'[w] = IF w \in Settling THEN NoWrite ELSE writes[w]
      BY <2>2, <3>1, OverFacts
    <3>3. QED
      BY <3>2 DEF Owed, Settling
  <2>6. QED
    BY <2>1, <2>2, <2>4, <2>5 DEF ListInv, HasData
<1>10. CASE ListFails
  <2>1. CASE query' = Retry
    <3>1. Fetch \in Query /\ Fetch.stage = "sent" /\ Fetch.data = query.data
          /\ Fetch.status = IF HasData THEN query.status ELSE "pending"
      BY FetchType
    <3>2. query'.stage \in {"sent", "paused"} /\ query'.data = query.data
          /\ query'.status = IF HasData THEN query.status ELSE "pending"
      BY <2>1, <3>1 DEF Query, Retry
    <3>3. QED
      BY <3>2 DEF ListInv, HasData
  <2>2. CASE query' = [query EXCEPT !.stage = "none", !.answer = <<>>,
                                    !.failures = 0, !.status = "error"]
    <3>1. query'.stage = "none" /\ query'.status = "error"
      BY <1>0, <2>2 DEF Query
    <3>2. QED
      BY <3>1 DEF ListInv
  <2>3. QED
    BY <1>10, <2>1, <2>2 DEF ListFails
<1>11. CASE CancelEdit
  BY <1>1, <1>11 DEF CancelEdit, server
<1>12. ASSUME NEW r \in Rules, Edit(r)
       PROVE  ListInv'
  BY <1>1, <1>12 DEF Edit, server
<1>13. ASSUME NEW r \in Rules, NEW w \in Slots, Delete(w, r)
       PROVE  ListInv'
  <2>1. UNCHANGED <<rules, query, page, missed>>
    BY <1>13 DEF Delete, server
  <2>2. Owed' <=> Owed
    <3>1. /\ writes' = [v \in Slots |->
               IF v = w THEN [NoWrite EXCEPT !.op = "delete", !.stage = "sent", !.id = r.id]
               ELSE Freeze(v)]
          /\ writes[w] = NoWrite
      BY <1>13 DEF Delete, Free
    <3> DEFINE m == [NoWrite EXCEPT !.op = "delete", !.stage = "sent", !.id = r.id]
    <3>0. m.stage = "sent" /\ writes'[w] = m
      BY <3>1 DEF NoWrite
    <3>2. writes'[w].stage = "sent" /\ writes[w].stage = "none"
      <4> HIDE DEF m
      <4>1. QED
        BY <3>0, <3>1 DEF NoWrite
    <3>3. \A v \in Slots : v # w => writes'[v].stage = writes[v].stage
      BY <3>1, WriteTypes
    <3>4. QED
      BY <3>2, <3>3 DEF Owed
  <2>3. QED
    BY <1>0, <2>1, <2>2, ListKeeps DEF Held
<1>14. ASSUME NEW w \in Slots, ServerWrites(w)
       PROVE  ListInv'
  <2>1. UNCHANGED <<query, page, missed>> /\ writes[w].stage = "sent"
    BY <1>14 DEF ServerWrites
  <2>2. CASE Applied(w)
    <3>1. writes'[w].stage = "applied"
      BY <1>0, <2>2 DEF Applied, Mutation
    <3>2. QED
      BY <2>1, <3>1, ListKeeps DEF Owed
  <2>3. CASE ServerRefuses(w)
    <3>1. writes'[w].stage = "refused" /\ \A v \in Slots : v # w => writes'[v] = writes[v]
      BY <1>0, <2>3 DEF ServerRefuses, Mutation
    <3>2. Owed' <=> Owed
      BY <2>1, <3>1 DEF Owed
    <3>3. Held' = Held
      BY <2>3 DEF ServerRefuses, Held
    <3>4. QED
      BY <1>0, <2>1, <3>2, <3>3, ListKeeps
  <2>4. QED
    BY <1>14, <2>2, <2>3 DEF ServerWrites, ServerInserts, ServerUpdates, ServerDeletes
<1>15. ASSUME NEW w \in Slots, Succeeds(w)
       PROVE  ListInv'
  <2>1. UNCHANGED <<rules, page>> /\ Invalidate
    BY <1>15 DEF Succeeds, server
  <2>2. CASE Refetches
    <3>1. Fetch \in Query /\ Fetch.stage = "sent" /\ Fetch.data = query.data
          /\ Fetch.status = IF HasData THEN query.status ELSE "pending"
      BY FetchType
    <3>2. query'.stage = "sent" /\ query'.data = query.data
          /\ query'.status = IF HasData THEN query.status ELSE "pending"
      BY <2>1, <2>2, <3>1 DEF Invalidate, Query
    <3>3. QED
      BY <3>2 DEF ListInv, HasData
  <2>3. CASE ~Refetches
    <3>1. /\ query'.stage = query.stage /\ query'.data = query.data
          /\ query'.status = query.status /\ query'.invalid = TRUE
          /\ missed' = (missed \/ query.stage = "read")
      BY <1>0, <2>1, <2>3 DEF Invalidate, Query
    <3>2. ~active \/ query.stage # "none"
      BY <2>3 DEF Refetches
    <3>3. QED
      BY <2>1, <3>1, <3>2 DEF ListInv, HasData, active
  <2>4. QED
    BY <2>2, <2>3
<1>16. ASSUME NEW w \in Slots, Fails(w)
       PROVE  ListInv'
  <2>1. UNCHANGED <<rules, query, page>>
        /\ \A v \in Slots : writes'[v] = IF v = w THEN NoWrite ELSE writes[v]
    BY <1>16, OverFacts DEF Fails, server
  <2>2. Held' = Held
    BY <2>1 DEF Held
  <2>3. CASE writes[w].stage = "applied"
    BY <1>16, <2>1, <2>3, ListKeeps DEF Fails
  <2>4. CASE writes[w].stage # "applied"
    <3>1. missed' = missed
      BY <1>0, <1>16, <2>4 DEF Fails
    <3>2. writes'[w].stage = "none" /\ \A v \in Slots : v # w => writes'[v] = writes[v]
      BY <1>0, <2>1 DEF NoWrite
    <3>3. Owed' <=> Owed
      BY <2>4, <3>2 DEF Owed
    <3>4. QED
      BY <1>0, <2>1, <2>2, <3>1, <3>3, ListKeeps
  <2>5. QED
    BY <2>3, <2>4
<1>17. CASE Hide
  BY <1>1, <1>17 DEF Hide, server, form
<1>18. CASE Reveal
  <2>1. CASE query.stage = "paused"
    <3>1. query'.stage = "sent" /\ query'.data = query.data /\ query'.status = query.status
      BY <1>0, <1>18, <2>1 DEF Reveal, Query
    <3>2. QED
      BY <3>1 DEF ListInv, HasData
  <2>2. CASE query.stage # "paused"
    <3>1. query' = query
      BY <1>0, <1>18, <2>2 DEF Reveal, Query
    <3>2. QED
      BY <1>1, <1>18, <3>1 DEF Reveal, server, form
  <2>3. QED
    BY <2>1, <2>2
<1>19. CASE UNCHANGED vars
  BY <1>1, <1>19 DEF vars, server, form
<1>20. QED
  BY <1>2, <1>3, <1>4, <1>5, <1>6, <1>7, <1>8, <1>9, <1>10, <1>11, <1>12, <1>13,
     <1>14, <1>15, <1>16, <1>17, <1>18, <1>19 DEF Next, ListQuery

-----------------------------------------------------------------------------
(* Whatever the two pages, their mutations and the server do, what is owed *)
(* to the list of rules is known: each part of the inductive invariant is  *)
(* kept by every step.                                                     *)
THEOREM InvariantHolds == Spec => []IInv
<1>1. Init => IInv
  BY InitType, InitRow, InitRead, InitList DEF IInv
<1>2. IInv /\ [Next]_vars => IInv'
  <2> SUFFICES ASSUME IInv, [Next]_vars PROVE IInv'
    OBVIOUS
  <2>1. TypeOK /\ RowInv /\ ReadInv /\ ListInv
    BY DEF IInv
  <2>2. TypeOK'
    BY <2>1, NextType
  <2>3. RowInv'
    BY <2>1, NextRow
  <2>4. ReadInv'
    BY <2>1, NextRead
  <2>5. ListInv'
    BY <2>1, <2>2, NextList
  <2>6. QED
    BY <2>2, <2>3, <2>4, <2>5 DEF IInv
<1>3. QED
  BY <1>1, <1>2, PTL DEF Spec

(* Every variable keeps its type: the refs of AlertRulesWorkspace, the      *)
(* cached answers of its query and of OverviewWorkspace, and the tables.    *)
THEOREM TypeCorrect == Spec => []TypeOK
<1>1. IInv => TypeOK
  BY DEF IInv
<1>2. QED
  BY <1>1, InvariantHolds, PTL

(* The rules page at rest (AlertRulesWorkspace) lists what ListAlertRules   *)
(* would answer: invalidateQueries after each save and deletion, however    *)
(* they overlap and whichever page was open, loses none of the changes.     *)
THEOREM RulesAreListed == Spec => []RulesListed
<1>1. IInv => RulesListed
  <2> SUFFICES ASSUME IInv, Listed, query.stage = "none", ~missed,
                      \A w \in Slots : writes[w] = NoWrite
               PROVE  {Config(r) : r \in Rules}
                        = {Config(r) : r \in UNION {rules[i] : i \in Ids}}
    BY DEF RulesListed
  <2>1. ~Owed
    BY DEF Owed, NoWrite
  <2>2. query.status = "success" /\ active
    BY DEF Listed, active
  <2>3. IsServers(Rules)
    BY <2>1, <2>2 DEF IInv, ListInv
  <2>4. QED
    BY <2>3 DEF IsServers
<1>2. QED
  BY <1>1, InvariantHolds, PTL

(* OverviewWorkspace calls a target stable only if its rule, its newest     *)
(* stored point and its last live sample all say so, and the numbers and    *)
(* the pie count its rows (buildOverviewKpis and the panels), whatever the  *)
(* lists that are merged.                                                   *)
THEOREM StableMeansWellHolds == Spec => []StableMeansWell
<1>1. IInv => StableMeansWell
  BY StableIsWell DEF IInv
<1>2. QED
  BY <1>1, InvariantHolds, PTL
=============================================================================
