---------------------------- MODULE AccountsProofs ----------------------------
(***************************************************************************)
(* Theorems about Accounts, for any people, tabs and requests under way:   *)
(* sessions are of verified accounts, and the tab that signed in or out    *)
(* last shows it.                                                          *)
(***************************************************************************)
EXTENDS Accounts, FiniteSetTheorems, TLAPS

Timers == {"none", "held", "loose"}
Entry == {"sent", "absent", "checked"}   \* stages before a session is issued

(* What most steps do to a mutation: it is over, or goes on as what it was *)
(* and, unless it is the demo login, passes its check only if the account  *)
(* is verified.                                                             *)
MoveOf(b, a) ==
  \/ b.kind = "none" /\ b.sid = 0 /\ b.stage = "none"
  \/ /\ b.kind = a.kind /\ b.who = a.who /\ b.sid = a.sid /\ b.tab = a.tab
     /\ a.stage = "none" => b.stage = "none"
     /\ b.stage = "mailing" => a.stage = "mailing" \/ a.kind \in Mailers
     /\ a.kind \in SignIns /\ b.stage \in Entry =>
          \/ b.stage = a.stage
          \/ /\ a.stage \in Entry
             /\ b.stage = "checked" => a.kind = "demo" \/ account'[a.who] = "verified"
AskMoves ==
  /\ ask' \in [Requests -> Mutation]
  /\ \A r \in Requests : MoveOf(ask'[r], ask[r])

(* What every step does to the accounts.                                   *)
AccountsGrow ==
  \A u \in People : account[u] = "verified" => account'[u] = "verified"

LEMMA IdleType == Idle \in Mutation /\ Idle.kind = "none" /\ Idle.sid = 0 /\ Idle.stage = "none"
  BY DEF Idle, Mutation, Stages, Kinds, NoSession

LEMMA MutationFields ==
  ASSUME NEW a \in Mutation
  PROVE  /\ a.stage \in Stages /\ a.tab \in Tabs \cup {Nobody} /\ a.kind \in Kinds
         /\ a.form \in Guest \cup Protected \cup {"none"} /\ a.who \in People \cup {Nobody}
         /\ a.sid \in Nat /\ a.here \in BOOLEAN
  BY DEF Mutation

LEMMA StageChange ==
  ASSUME NEW a \in Mutation, NEW x \in Stages
  PROVE  /\ [a EXCEPT !.stage = x] \in Mutation
         /\ [a EXCEPT !.stage = x].stage = x /\ [a EXCEPT !.stage = x].kind = a.kind
         /\ [a EXCEPT !.stage = x].who = a.who /\ [a EXCEPT !.stage = x].sid = a.sid
         /\ [a EXCEPT !.stage = x].tab = a.tab
  BY DEF Mutation

LEMMA HereChange ==
  ASSUME NEW a \in Mutation
  PROVE  /\ [a EXCEPT !.here = FALSE] \in Mutation
         /\ [a EXCEPT !.here = FALSE].stage = a.stage
         /\ [a EXCEPT !.here = FALSE].kind = a.kind
         /\ [a EXCEPT !.here = FALSE].who = a.who /\ [a EXCEPT !.here = FALSE].sid = a.sid
         /\ [a EXCEPT !.here = FALSE].tab = a.tab
  BY DEF Mutation

LEMMA StaysPut == ASSUME NEW a PROVE MoveOf(a, a)
  BY DEF MoveOf

\* The stage of one mutation changes.
LEMMA StageMoves ==
  ASSUME TypeOK, NEW r \in Requests, ask[r].stage # "none", NEW x \in Stages,
         x = "mailing" => ask[r].kind \in Mailers,
         ask[r].kind \in SignIns /\ x \in Entry =>
           /\ ask[r].stage \in Entry
           /\ x = "checked" => ask[r].kind = "demo" \/ account'[ask[r].who] = "verified"
  PROVE  /\ Stage(r, x) \in [Requests -> Mutation]
         /\ \A q \in Requests : MoveOf(Stage(r, x)[q], ask[q])
<1>1. ask \in [Requests -> Mutation] /\ ask[r] \in Mutation
  BY DEF TypeOK
<1>2. Stage(r, x) = [ask EXCEPT ![r] = [ask[r] EXCEPT !.stage = x]]
  BY <1>1 DEF Stage
<1>3. MoveOf([ask[r] EXCEPT !.stage = x], ask[r])
  BY <1>1, StageChange DEF MoveOf
<1>4. \A q \in Requests : MoveOf(Stage(r, x)[q], ask[q])
  BY <1>1, <1>2, <1>3, StaysPut
<1>5. QED
  BY <1>1, <1>2, <1>4, StageChange

\* One mutation is over.
LEMMA IdleMoves ==
  ASSUME TypeOK, NEW r \in Requests
  PROVE  /\ [ask EXCEPT ![r] = Idle] \in [Requests -> Mutation]
         /\ \A q \in Requests : MoveOf([ask EXCEPT ![r] = Idle][q], ask[q])
<1>1. ask \in [Requests -> Mutation]
  BY DEF TypeOK
<1>2. MoveOf(Idle, ask[r])
  BY IdleType DEF MoveOf
<1>3. \A q \in Requests : MoveOf([ask EXCEPT ![r] = Idle][q], ask[q])
  BY <1>1, <1>2, StaysPut
<1>4. QED
  BY <1>1, <1>3, IdleType

LEMMA ResumedMoves ==
  ASSUME TypeOK, NEW t \in Tabs
  PROVE  /\ Resumed(t) \in [Requests -> Mutation]
         /\ \A q \in Requests : MoveOf(Resumed(t)[q], ask[q])
<1>1. \A q \in Requests : ask[q] \in Mutation
  BY DEF TypeOK
<1>2. "settled" \in Stages /\ "settled" \notin Entry
  BY DEF Stages, Entry
<1>3. ASSUME NEW q \in Requests
      PROVE  Resumed(t)[q] \in Mutation /\ MoveOf(Resumed(t)[q], ask[q])
  <2>1. CASE Resumed(t)[q] = ask[q]
    BY <1>1, <2>1, StaysPut
  <2>2. CASE Resumed(t)[q] = [ask[q] EXCEPT !.stage = "settled"] /\ ask[q].stage = "settling"
    BY <1>1, <1>2, <2>2, StageChange DEF MoveOf
  <2>3. QED
    BY <2>1, <2>2 DEF Resumed
<1>4. QED
  BY <1>3 DEF Resumed

\* What the screen does to the mutations, the form and the timer.
LEMMA RemountFacts ==
  ASSUME TypeOK, NEW t \in Tabs, NEW a \in [Requests -> Mutation], NEW c \in Timers,
         \A q \in Requests : MoveOf(a[q], ask[q]), Remount(t, a, c)
  PROVE  AskMoves /\ step' \in [Tabs -> 1 .. 4] /\ timer' \in [Tabs -> Timers]
<1>1. \A q \in Requests : ask'[q] = a[q] \/ ask'[q] = [a[q] EXCEPT !.here = FALSE]
  BY DEF Remount
<1>2. ASSUME NEW q \in Requests
      PROVE  ask'[q] \in Mutation /\ MoveOf(ask'[q], ask[q])
  <2>1. a[q] \in Mutation /\ MoveOf(a[q], ask[q])
    OBVIOUS
  <2>2. CASE ask'[q] = a[q]
    BY <2>1, <2>2
  <2>3. CASE ask'[q] = [a[q] EXCEPT !.here = FALSE]
    <3>1. /\ ask'[q] \in Mutation /\ ask'[q].stage = a[q].stage /\ ask'[q].kind = a[q].kind
          /\ ask'[q].who = a[q].who /\ ask'[q].sid = a[q].sid /\ ask'[q].tab = a[q].tab
      BY <2>1, <2>3, HereChange
    <3>2. QED
      BY <2>1, <3>1 DEF MoveOf
  <2>4. QED
    BY <1>1, <2>2, <2>3
<1>3. ask' \in [Requests -> Mutation]
  BY <1>2 DEF Remount
<1>4. step' \in [Tabs -> 1 .. 4]
  <2>1. \E x \in 1 .. 4 : step' = [step EXCEPT ![t] = x]
    <3>1. step[t] \in 1 .. 4 /\ 1 \in 1 .. 4
      BY DEF TypeOK
    <3>2. step' = [step EXCEPT ![t] = step[t]] \/ step' = [step EXCEPT ![t] = 1]
      BY DEF Remount
    <3>3. QED
      BY <3>1, <3>2
  <2>2. QED
    BY <2>1 DEF TypeOK
<1>5. timer' \in [Tabs -> Timers]
  <2>1. \E x \in Timers : timer' = [timer EXCEPT ![t] = x]
    BY DEF Remount, Timers
  <2>2. QED
    BY <2>1 DEF TypeOK, Timers
<1>6. QED
  BY <1>2, <1>3, <1>4, <1>5 DEF AskMoves

-----------------------------------------------------------------------------
(* The query of one tab.                                                   *)
GoodQuery(t) ==
  changer = t /\ ~joined[t] =>
    IF fetch[t] = NoFetch THEN failed[t] \/ data[t] = Who(cookie)
    ELSE /\ fetch[t].sid = cookie
         /\ fetch[t].stage = "read" => fetch[t].who = Who(cookie)

LEMMA RequestType ==
  ASSUME NEW s \in Nat
  PROVE  /\ Request(s) \in Fetch /\ Request(s).sid = s /\ Request(s).stage = "sent"
         /\ Request(s) # NoFetch /\ NoFetch \in Fetch /\ NoFetch.sid = 0
         /\ NoFetch.stage = "none"
  BY DEF Request, NoFetch, Fetch, NoSession

\* What a request of a tab may become, with the other parts of its query.
QueryTypes ==
  /\ data' \in [Tabs -> People \cup {Unknown, SignedOut}]
  /\ failed' \in [Tabs -> BOOLEAN] /\ joined' \in [Tabs -> BOOLEAN]
  /\ fetch' \in [Tabs -> Fetch]

\* The query of t as the screen of t leaves it.
QueryKept(t) ==
  /\ fetch'[t] = fetch[t] /\ joined'[t] = joined[t] /\ data'[t] = data[t]
  /\ failed'[t] = failed[t]

LEMMA ShowFacts ==
  ASSUME TypeOK, cookie' \in Nat, NEW t \in Tabs, NEW p \in Guest \cup Protected,
         NEW a \in [Requests -> Mutation], NEW c \in Timers,
         \A q \in Requests : MoveOf(a[q], ask[q]), Show(t, p, a, c)
  PROVE  /\ AskMoves /\ step' \in [Tabs -> 1 .. 4] /\ timer' \in [Tabs -> Timers]
         /\ page' \in [Tabs -> Guest \cup Protected] /\ QueryTypes
         /\ \A u \in Tabs : QueryKept(u) \/ fetch'[u] = Request(cookie')
<1>1. Remount(t, a, c)
  BY DEF Show
<1>2. page' \in [Tabs -> Guest \cup Protected] /\ data' = data /\ failed' = failed
  BY DEF Show, TypeOK
<1>3. CASE fetch' = fetch /\ joined' = joined
  <2>1. QueryTypes /\ \A u \in Tabs : QueryKept(u)
    BY <1>2, <1>3 DEF QueryTypes, QueryKept, TypeOK
  <2>2. QED
    BY <1>1, <1>2, <2>1, RemountFacts
<1>4. CASE /\ fetch' = [fetch EXCEPT ![t] = Request(cookie')]
           /\ joined' = [joined EXCEPT ![t] = FALSE]
  <2>1. QueryTypes
    BY <1>2, <1>4, RequestType DEF QueryTypes, TypeOK
  <2>2. \A u \in Tabs : QueryKept(u) \/ fetch'[u] = Request(cookie')
    BY <1>2, <1>4 DEF QueryKept, TypeOK
  <2>3. QED
    BY <1>1, <1>2, <2>1, <2>2, RemountFacts
<1>5. QED
  BY <1>3, <1>4 DEF Show

LEMMA InvalidateFacts ==
  ASSUME TypeOK, NEW t \in Tabs, NEW d, NEW s \in Nat, Invalidate(t, d, s)
  PROVE  /\ fetch' \in [Tabs -> Fetch] /\ joined' \in [Tabs -> BOOLEAN]
         /\ joined'[t] \/ fetch'[t] = Request(s)
         /\ fetch'[t] = fetch[t] \/ fetch'[t] = Request(s)
         /\ \A u \in Tabs : u # t => fetch'[u] = fetch[u] /\ joined'[u] = joined[u]
<1>1. PICK f \in {fetch[t], Request(s)} : fetch' = [fetch EXCEPT ![t] = f]
  BY DEF Invalidate, TypeOK
<1>2. PICK b \in BOOLEAN : joined' = [joined EXCEPT ![t] = b]
  BY DEF Invalidate
<1>3. f \in Fetch
  BY <1>1, RequestType DEF TypeOK
<1>4. joined'[t] \/ fetch'[t] = Request(s)
  BY DEF Invalidate, TypeOK
<1>5. QED
  BY <1>1, <1>2, <1>3, <1>4 DEF TypeOK

LEMMA Untouched ==
  ASSUME NEW t \in Tabs, GoodQuery(t), QueryKept(t),
         changer' = t => changer = t /\ cookie' = cookie /\ Who(cookie)' = Who(cookie)
  PROVE  GoodQuery(t)'
  BY DEF GoodQuery, QueryKept

LEMMA Asked ==
  ASSUME NEW t \in Tabs, cookie' \in Nat, fetch'[t] = Request(cookie')
  PROVE  GoodQuery(t)'
<1>1. Request(cookie') # NoFetch /\ fetch'[t].sid = cookie' /\ fetch'[t].stage = "sent"
  BY RequestType
<1>2. QED
  BY <1>1 DEF GoodQuery

LEMMA NotMine == ASSUME NEW t \in Tabs, changer' # t PROVE GoodQuery(t)'
  BY DEF GoodQuery

-----------------------------------------------------------------------------
(* Session ids.                                                            *)
LEMMA IdFacts ==
  ASSUME TypeOK, IdInv
  PROVE  /\ IsFiniteSet(Entering) /\ Cardinality(Entering) \in Nat
         /\ issued \in Nat /\ asks \in Nat /\ issued <= asks /\ asks <= MaxAsks
<1>1. IsFiniteSet(Entering) /\ Cardinality(Entering) \in Nat
  BY AccountAssumption, FS_Subset, FS_CardinalityType DEF Entering
<1>2. QED
  BY <1>1, AccountAssumption DEF TypeOK, IdInv

LEMMA WhoType ==
  ASSUME TypeOK, IdInv, NEW s \in Nat, s <= issued
  PROVE  Who(s) \in People \cup {SignedOut}
<1>1. s # NoSession => s \in SessionIds
  BY IdFacts, AccountAssumption DEF SessionIds, NoSession
<1>2. QED
  BY <1>1 DEF Who, TypeOK

\* Entries only shrink in the steps that AskMoves describes.
LEMMA IdsKept ==
  ASSUME TypeOK, IdInv, AskMoves, issued' = issued, asks' = asks, cookie' <= issued,
         \A t \in Tabs : fetch'[t].sid <= issued
  PROVE  IdInv'
<1>1. Entering' \subseteq Entering
  <2>1. ASSUME NEW r \in Requests, ask'[r].kind \in SignIns, ask'[r].stage \in Entry
        PROVE  r \in Entering
    <3>1. "none" \notin SignIns
      BY DEF SignIns
    <3>2. ask'[r].kind = ask[r].kind /\ (ask'[r].stage = ask[r].stage \/ ask[r].stage \in Entry)
      BY <2>1, <3>1 DEF AskMoves, MoveOf
    <3>3. QED
      BY <2>1, <3>2 DEF Entering, Entry
  <2>2. QED
    BY <2>1 DEF Entering, Entry
<1>2. Cardinality(Entering') <= Cardinality(Entering) /\ Cardinality(Entering') \in Nat
  BY <1>1, IdFacts, FS_Subset, FS_CardinalityType
<1>3. \A r \in Requests : ask'[r].sid <= issued
  BY IdFacts DEF AskMoves, MoveOf, IdInv
<1>4. issued + Cardinality(Entering') <= asks
  BY <1>2, IdFacts DEF IdInv
<1>5. QED
  BY <1>3, <1>4 DEF IdInv

-----------------------------------------------------------------------------
(* The accounts and the mutations that sign in.                            *)
LEMMA EntryKept ==
  ASSUME TypeOK, EntryInv, AskMoves, AccountsGrow
  PROVE  EntryInv'
<1>1. ASSUME NEW r \in Requests
      PROVE  /\ ask'[r].stage # "none" => ask'[r].tab \in Tabs
             /\ ask'[r].stage = "mailing" => ask'[r].kind \in Mailers
             /\ ask'[r].kind \notin {"none", "logout"} => ask'[r].who \in People
             /\ ask'[r].kind = "demo" => ask'[r].who = Demo
             /\ ask'[r].kind \in SignIns \ {"demo"} /\ ask'[r].stage = "checked"
                  => account'[ask'[r].who] = "verified"
  <2>1. CASE ask'[r].kind = "none"
    <3>1. /\ ask'[r].stage # "none" => ask'[r].tab \in Tabs
          /\ ask'[r].stage = "mailing" => ask'[r].kind \in Mailers
      BY <2>1 DEF AskMoves, MoveOf, EntryInv
    <3>2. QED
      BY <2>1, <3>1 DEF SignIns
  <2>2. CASE ask'[r].kind # "none"
    <3>1. ask'[r].kind = ask[r].kind /\ ask'[r].who = ask[r].who
      BY <2>2 DEF AskMoves, MoveOf
    <3>2. ask[r].kind \in SignIns => ask[r].who \in People
      BY DEF EntryInv, SignIns
    <3>3. ask'[r].kind \in SignIns \ {"demo"} /\ ask'[r].stage = "checked"
                  => account'[ask'[r].who] = "verified"
      BY <2>2, <3>1, <3>2 DEF AskMoves, MoveOf, EntryInv, AccountsGrow, Entry
    <3>4. /\ ask'[r].stage # "none" => ask'[r].tab \in Tabs
          /\ ask'[r].stage = "mailing" => ask'[r].kind \in Mailers
      BY <2>2 DEF AskMoves, MoveOf, EntryInv
    <3>5. QED
      BY <3>1, <3>3, <3>4 DEF EntryInv
  <2>3. QED
    BY <2>1, <2>2
<1>2. QED
  BY <1>1 DEF EntryInv

LEMMA VerifiedKept ==
  ASSUME TypeOK, SessionsAreVerified, AccountsGrow,
         \A s \in SessionIds : owner'[s] \in {owner[s], Nobody}
  PROVE  SessionsAreVerified'
<1>1. ASSUME NEW s \in SessionIds, owner'[s] # Nobody
      PROVE  account'[owner'[s]] = "verified" \/ owner'[s] = Demo
  <2>1. owner'[s] = owner[s] /\ owner[s] \in People
    BY <1>1 DEF TypeOK
  <2>2. QED
    BY <1>1, <2>1 DEF SessionsAreVerified, AccountsGrow
<1>2. QED
  BY <1>1 DEF SessionsAreVerified

-----------------------------------------------------------------------------
(* The two kinds of steps: those of the browser leave the tables alone,    *)
(* those of the handlers the browser.                                      *)
ScreenStep ==
  /\ UNCHANGED <<tables, asks>> /\ AskMoves /\ QueryTypes
  /\ page' \in [Tabs -> Guest \cup Protected] /\ step' \in [Tabs -> 1 .. 4]
  /\ timer' \in [Tabs -> Timers]
  /\ cookie' \in Nat /\ cookie' <= issued /\ changer' \in Tabs \cup {Nobody}
  /\ visits' \in 0 .. MaxVisits
  /\ \A t \in Tabs : fetch'[t].sid <= issued /\ GoodQuery(t)'

ServerStep ==
  /\ AskMoves /\ AccountsGrow
  /\ account' \in [People -> {"none", "pending", "verified"}]
  /\ secret' \in [{"code", "token"} -> [People -> {"none", "old", "fresh"}]]
  /\ owner' \in [SessionIds -> People \cup {Nobody}]
  /\ \A s \in SessionIds : owner'[s] \in {owner[s], Nobody}
  /\ changer' \in {changer, Nobody}
  /\ changer' # Nobody => Who(cookie)' = Who(cookie)
  /\ UNCHANGED <<issued, cookie, screen, query, counts>>

LEMMA QueryIsGood == QueryInv <=> \A t \in Tabs : GoodQuery(t)
  BY DEF QueryInv, GoodQuery

LEMMA QueriesGood == ASSUME \A t \in Tabs : GoodQuery(t)' PROVE QueryInv'
  BY DEF QueryInv, GoodQuery

LEMMA Unverify ==
  ASSUME account' = account
  PROVE  AccountsGrow
  BY DEF AccountsGrow

LEMMA ScreenKeeps ==
  ASSUME IInv, ScreenStep
  PROVE  IInv'
<1>1. TypeOK /\ EntryInv /\ IdInv /\ SessionsAreVerified
  BY DEF IInv
<1>2. /\ account' = account /\ secret' = secret /\ owner' = owner /\ issued' = issued
      /\ asks' = asks
  BY DEF ScreenStep, tables
<1>3. TypeOK'
  BY <1>1, <1>2 DEF ScreenStep, AskMoves, QueryTypes, TypeOK, Timers
<1>4. AccountsGrow
  BY <1>1, <1>2, Unverify
<1>5. EntryInv' /\ IdInv' /\ SessionsAreVerified'
  BY <1>1, <1>2, <1>4, EntryKept, IdsKept, VerifiedKept DEF ScreenStep
<1>6. QueryInv'
  BY QueriesGood DEF ScreenStep
<1>7. QED
  BY <1>3, <1>5, <1>6 DEF IInv

LEMMA ServerKeeps ==
  ASSUME IInv, ServerStep
  PROVE  IInv'
<1>1. TypeOK /\ EntryInv /\ IdInv /\ SessionsAreVerified /\ QueryInv
  BY DEF IInv
<1>2. /\ issued' = issued /\ cookie' = cookie /\ UNCHANGED <<page, step, timer>>
      /\ UNCHANGED <<data, failed, fetch, joined, asks, visits>>
  BY DEF ServerStep, screen, query, counts
<1>3. TypeOK'
  BY <1>1, <1>2 DEF ServerStep, AskMoves, TypeOK
<1>4. IdInv'
  BY <1>1, <1>2, IdsKept DEF ServerStep, IdInv
<1>5. EntryInv' /\ SessionsAreVerified'
  BY <1>1, EntryKept, VerifiedKept DEF ServerStep
<1>6. ASSUME NEW t \in Tabs PROVE GoodQuery(t)'
  <2>1. GoodQuery(t) /\ QueryKept(t) /\ t # Nobody
    BY <1>1, <1>2, QueryIsGood, AccountAssumption DEF QueryKept
  <2>2. changer' = t => changer = t /\ cookie' = cookie /\ Who(cookie)' = Who(cookie)
    BY <1>2, <2>1 DEF ServerStep
  <2>3. QED
    BY <2>1, <2>2, Untouched
<1>7. QED
  BY <1>3, <1>4, <1>5, <1>6, QueriesGood DEF IInv

-----------------------------------------------------------------------------
(* The steps of the browser.                                               *)
\* What the step needs to say when the cookie stays.
LEMMA QuietScreen ==
  ASSUME IInv, UNCHANGED <<tables, browser, asks>>, AskMoves, QueryTypes,
         page' \in [Tabs -> Guest \cup Protected], step' \in [Tabs -> 1 .. 4],
         timer' \in [Tabs -> Timers], visits' \in 0 .. MaxVisits,
         \A t \in Tabs : QueryKept(t) \/ fetch'[t] = Request(cookie')
  PROVE  IInv'
<1>1. TypeOK /\ IdInv /\ QueryInv
  BY DEF IInv
<1>2. cookie' = cookie /\ changer' = changer /\ owner' = owner
  BY DEF browser, tables
<1>3. cookie' \in Nat /\ cookie' <= issued /\ changer' \in Tabs \cup {Nobody}
  BY <1>1, <1>2 DEF IdInv, TypeOK
<1>4. ASSUME NEW t \in Tabs PROVE fetch'[t].sid <= issued /\ GoodQuery(t)'
  <2>1. CASE QueryKept(t)
    <3>1. GoodQuery(t)' BY <1>1, <1>2, <2>1, QueryIsGood, Untouched DEF Who
    <3>2. QED
      BY <1>1, <2>1, <3>1 DEF QueryKept, IdInv
  <2>2. CASE fetch'[t] = Request(cookie')
    BY <1>3, <2>2, Asked, RequestType
  <2>3. QED
    BY <1>4, <2>1, <2>2
<1>5. QED
  BY <1>3, <1>4, ScreenKeeps DEF ScreenStep

LEMMA TimersFacts ==
  ASSUME TypeOK, NEW t \in Tabs
  PROVE  timer[t] \in Timers /\ "none" \in Timers
  BY DEF TypeOK, Timers

LEMMA AskItself ==
  ASSUME TypeOK
  PROVE  ask \in [Requests -> Mutation] /\ \A q \in Requests : MoveOf(ask[q], ask[q])
  BY StaysPut DEF TypeOK

\* A page that is shown in a quiet step.
LEMMA ShowKeeps ==
  ASSUME IInv, UNCHANGED <<tables, browser, asks>>, visits' \in 0 .. MaxVisits,
         NEW t \in Tabs, NEW p \in Guest \cup Protected,
         NEW a \in [Requests -> Mutation], NEW c \in Timers,
         \A q \in Requests : MoveOf(a[q], ask[q]), Show(t, p, a, c)
  PROVE  IInv'
<1>1. TypeOK /\ cookie' \in Nat
  BY DEF IInv, TypeOK, browser
<1>2. QED
  BY <1>1, ShowFacts, QuietScreen

LEMMA SessionReadKeeps ==
  ASSUME IInv, NEW t \in Tabs, SessionRead(t)
  PROVE  IInv'
<1>1. TypeOK /\ IdInv /\ QueryInv
  BY DEF IInv
<1>2. /\ UNCHANGED <<tables, browser, screen, data, failed, joined, ask, counts>>
      /\ fetch[t].stage = "sent"
      /\ fetch' = [fetch EXCEPT ![t].stage = "read", ![t].who = Who(fetch[t].sid)]
  BY DEF SessionRead
<1>3. fetch[t] \in Fetch /\ fetch[t].sid \in Nat /\ fetch[t].sid <= issued
  BY <1>1 DEF TypeOK, Fetch, IdInv
<1>4. Who(fetch[t].sid) \in People \cup {SignedOut}
  BY <1>1, <1>3, WhoType
<1> DEFINE f == [stage |-> "read", sid |-> fetch[t].sid, who |-> Who(fetch[t].sid)]
<1>5. fetch'[t] = f /\ fetch' = [fetch EXCEPT ![t] = f] /\ f \in Fetch
  <2>1. [[fetch[t] EXCEPT !.stage = "read"] EXCEPT !.who = Who(fetch[t].sid)] = f
    <3>1. fetch[t] = [stage |-> fetch[t].stage, sid |-> fetch[t].sid, who |-> fetch[t].who]
      BY <1>3 DEF Fetch
    <3>2. [fetch[t] EXCEPT !.stage = "read"]
            = [stage |-> "read", sid |-> fetch[t].sid, who |-> fetch[t].who]
      BY <3>1
    <3>3. [[stage |-> "read", sid |-> fetch[t].sid, who |-> fetch[t].who]
             EXCEPT !.who = Who(fetch[t].sid)] = f
      OBVIOUS
    <3>4. QED
      BY <3>2, <3>3
  <2>2. fetch' = [fetch EXCEPT ![t] = f]
    BY <1>1, <1>2, <2>1 DEF TypeOK
  <2>3. QED
    BY <1>1, <1>3, <1>4, <2>2 DEF TypeOK, Fetch
<1>6. f.stage = "read" /\ f.sid = fetch[t].sid /\ f.who = Who(fetch[t].sid)
  OBVIOUS
<1> HIDE DEF f
<1>7. AskMoves
  BY <1>1, <1>2, AskItself DEF AskMoves
<1>8. QueryTypes
  BY <1>1, <1>2, <1>5 DEF QueryTypes, TypeOK
<1>9. cookie' = cookie /\ changer' = changer /\ Who(cookie)' = Who(cookie)
  BY <1>2 DEF browser, tables, Who
<1>10. ASSUME NEW u \in Tabs PROVE fetch'[u].sid <= issued /\ GoodQuery(u)'
  <2>1. CASE u # t
    <3>1. QueryKept(u)
      BY <1>1, <1>2, <1>5, <2>1 DEF QueryKept, TypeOK
    <3>2. QED
      BY <1>1, <1>9, <3>1, QueryIsGood, Untouched DEF QueryKept, IdInv
  <2>2. CASE u = t
    <3>1. fetch[t] # NoFetch
      BY <1>2 DEF NoFetch
    <3>2. GoodQuery(t)
      BY <1>1, QueryIsGood
    <3>3. changer = t /\ ~joined[t] => fetch[t].sid = cookie
      BY <3>1, <3>2 DEF GoodQuery
    <3>4. f # NoFetch
      BY <1>6 DEF NoFetch
    <3>5. QED
      BY <1>2, <1>3, <1>5, <1>6, <1>9, <2>2, <3>3, <3>4 DEF GoodQuery
  <2>3. QED
    BY <2>1, <2>2
<1>11. ScreenStep
  BY <1>1, <1>2, <1>7, <1>8, <1>9, <1>10 DEF ScreenStep, screen, counts, TypeOK, IdInv, Timers
<1>12. QED
  BY <1>11, ScreenKeeps

\* The request of a tab is over; its data is what it brought or what there was.
LEMMA FetchOver ==
  ASSUME IInv, NEW t \in Tabs, NEW d \in People \cup {Unknown, SignedOut},
         NEW b \in BOOLEAN, fetch' = [fetch EXCEPT ![t] = NoFetch],
         data' = [data EXCEPT ![t] = d], failed' = [failed EXCEPT ![t] = b],
         b \/ (fetch[t].stage = "read" /\ d = fetch[t].who), page' = page,
         Remount(t, Resumed(t), timer[t]), UNCHANGED <<tables, browser, joined, counts>>
  PROVE  IInv'
<1>1. TypeOK /\ IdInv /\ QueryInv
  BY DEF IInv
<1>2. AskMoves /\ step' \in [Tabs -> 1 .. 4] /\ timer' \in [Tabs -> Timers]
  BY <1>1, ResumedMoves, TimersFacts, RemountFacts
<1>3. QueryTypes
  BY <1>1, RequestType DEF QueryTypes, TypeOK
<1>4. cookie' = cookie /\ changer' = changer /\ Who(cookie)' = Who(cookie)
  BY DEF browser, tables, Who
<1>5. ASSUME NEW u \in Tabs PROVE fetch'[u].sid <= issued /\ GoodQuery(u)'
  <2>1. CASE u # t
    <3>1. QueryKept(u)
      BY <1>1, <2>1 DEF QueryKept, TypeOK
    <3>2. QED
      BY <1>1, <1>4, <3>1, QueryIsGood, Untouched DEF QueryKept, IdInv
  <2>2. CASE u = t
    <3>1. fetch'[t] = NoFetch /\ data'[t] = d /\ failed'[t] = b /\ joined' = joined
      BY <1>1 DEF TypeOK
    <3>2. GoodQuery(t)
      BY <1>1, QueryIsGood
    <3>3. changer = t /\ ~joined[t] /\ ~b => d = Who(cookie)
      BY <3>2, RequestType DEF GoodQuery
    <3>4. GoodQuery(t)'
      BY <1>4, <3>1, <3>3 DEF GoodQuery
    <3>5. NoFetch.sid <= issued
      BY <1>1, RequestType, IdFacts
    <3>6. QED
      BY <2>2, <3>1, <3>4, <3>5
  <2>3. QED
    BY <2>1, <2>2
<1>6. ScreenStep
  BY <1>1, <1>2, <1>3, <1>4, <1>5 DEF ScreenStep, counts, TypeOK, IdInv
<1>7. QED
  BY <1>6, ScreenKeeps

LEMMA BrowserKeeps ==
  ASSUME IInv, NEW t \in Tabs, Browser(t) \/ SessionRetried(t) \/ SessionFails(t) \/ TimerFires(t)
  PROVE  IInv'
<1>1. TypeOK /\ visits \in 0 .. MaxVisits
  BY DEF IInv, TypeOK
<1>2. CASE SessionArrives(t)
  <2>1. fetch[t].who \in People \cup {SignedOut}
    BY <1>1 DEF TypeOK, Fetch
  <2>2. QED
    BY <1>2, <2>1, FetchOver DEF SessionArrives
<1>3. CASE SessionFails(t)
  <2>1. data[t] \in People \cup {Unknown, SignedOut} /\ data' = [data EXCEPT ![t] = data[t]]
    BY <1>1, <1>3 DEF SessionFails, TypeOK
  <2>2. QED
    BY <1>3, <2>1, FetchOver DEF SessionFails
<1>4. CASE SessionRetried(t)
  <2>1. /\ UNCHANGED <<tables, browser, screen, data, failed, joined, ask, counts>>
        /\ fetch' = [fetch EXCEPT ![t] = Request(cookie)] /\ cookie' = cookie /\ cookie \in Nat
    BY <1>1, <1>4 DEF SessionRetried, browser, TypeOK
  <2>2. QueryTypes
    BY <1>1, <2>1, RequestType DEF QueryTypes, TypeOK
  <2>3. \A u \in Tabs : QueryKept(u) \/ fetch'[u] = Request(cookie')
    BY <1>1, <2>1 DEF QueryKept, TypeOK
  <2>4. AskMoves
    BY <1>1, <2>1, AskItself DEF AskMoves
  <2>5. /\ page' \in [Tabs -> Guest \cup Protected] /\ step' \in [Tabs -> 1 .. 4]
        /\ timer' \in [Tabs -> Timers] /\ visits' \in 0 .. MaxVisits /\ asks' = asks
    BY <1>1, <2>1 DEF TypeOK, Timers, screen, counts
  <2>6. QED
    BY <2>1, <2>2, <2>3, <2>4, <2>5, QuietScreen
<1>5. CASE Redirect(t)
  <2>1. \E p \in Guest \cup Protected : Show(t, p, ask, timer[t])
    BY <1>5 DEF Redirect, Guest, Protected
  <2>2. UNCHANGED <<tables, browser, counts>>
    BY <1>5 DEF Redirect
  <2>3. QED
    BY <1>1, <2>1, <2>2, AskItself, TimersFacts, ShowKeeps DEF counts
<1>6. CASE TimerFires(t)
  <2>1. "/" \in Guest \cup Protected
    BY DEF Protected
  <2>2. QED
    BY <1>1, <1>6, <2>1, AskItself, TimersFacts, ShowKeeps DEF TimerFires, counts
<1>7. QED
  BY <1>2, <1>3, <1>4, <1>5, <1>6, SessionReadKeeps DEF Browser

\* A step that changes at most the steps of the forms and the mutations.
LEMMA FormKeeps ==
  ASSUME IInv, UNCHANGED <<tables, browser, page, timer, query, counts>>,
         step' \in [Tabs -> 1 .. 4], AskMoves
  PROVE  IInv'
<1>1. TypeOK
  BY DEF IInv
<1>2. QueryTypes /\ \A u \in Tabs : QueryKept(u)
  BY <1>1 DEF QueryTypes, QueryKept, TypeOK, query
<1>3. /\ page' \in [Tabs -> Guest \cup Protected] /\ timer' \in [Tabs -> Timers]
      /\ visits' \in 0 .. MaxVisits /\ asks' = asks
  BY <1>1 DEF TypeOK, Timers, counts
<1>4. QED
  BY <1>2, <1>3, QuietScreen

LEMMA LoadKeeps ==
  ASSUME IInv, NEW t \in Tabs, NEW p \in Guest \cup Protected, Load(t, p)
  PROVE  IInv'
<1>1. TypeOK /\ cookie \in Nat
  BY DEF IInv, TypeOK
<1>2. AskMoves
  <2>1. ASSUME NEW q \in Requests PROVE ask'[q] \in Mutation /\ MoveOf(ask'[q], ask[q])
    <3>1. ask[q] \in Mutation /\ (ask'[q] = ask[q] \/ ask'[q] = Idle)
      BY <1>1 DEF Load, TypeOK
    <3>2. CASE ask'[q] = ask[q]
      BY <3>1, <3>2, StaysPut
    <3>3. CASE ask'[q] = Idle
      BY <3>3, IdleType DEF MoveOf
    <3>4. QED
      BY <3>1, <3>2, <3>3
  <2>2. QED
    BY <2>1 DEF AskMoves, Load
<1>3. /\ QueryTypes
      /\ \A u \in Tabs : QueryKept(u) \/ fetch'[u] = Request(cookie')
  BY <1>1, RequestType DEF Load, QueryTypes, QueryKept, TypeOK, browser
<1>4. /\ page' \in [Tabs -> Guest \cup Protected] /\ step' \in [Tabs -> 1 .. 4]
      /\ timer' \in [Tabs -> Timers]
  BY <1>1, TimersFacts DEF Load, TypeOK, Timers
<1>5. visits' \in 0 .. MaxVisits /\ UNCHANGED <<tables, browser, asks>>
  BY <1>1, AccountAssumption DEF Load, TypeOK
<1>6. QED
  BY <1>2, <1>3, <1>4, <1>5, QuietScreen

(* A new mutation; the form knows whom it is about.                        *)
LEMMA OffersKnown ==
  ASSUME NEW t \in Tabs, page[t] \in Guest \cup Protected, Shown(page[t], data[t], fetch[t]),
         NEW o \in Offers(t)
  PROVE  /\ o[1] \in Kinds \ {"none"} /\ o[2] \in People \cup {Nobody}
         /\ o[1] # "logout" => o[2] \in People
         /\ o[1] = "demo" => o[2] = Demo
<1> USE DEF Kinds, SignIns, Mailers, People
<1>1. CASE page[t] = "/login"
  BY <1>1 DEF Offers, LoginForm
<1>2. CASE page[t] = "/signup"
  <2>1. o \in SignupForm(step[t])
    BY <1>2 DEF Offers
  <2>2. o \in {"signup"} \X People \/ o \in {"verify", "resend"} \X People
    <3>1. CASE step[t] = 2
      BY <2>1, <3>1 DEF SignupForm
    <3>2. CASE step[t] # 2
      BY <2>1, <3>2 DEF SignupForm
    <3>3. QED
      BY <3>1, <3>2
  <2>3. QED
    BY <2>2
<1>3. CASE page[t] = "/verify-email"
  BY <1>3 DEF Offers, VerifyEmailForm
<1>4. CASE page[t] = "/forgot-password"
  BY <1>4 DEF Offers, ForgotPasswordForm
<1>5. CASE page[t] = "/reset-password"
  BY <1>5 DEF Offers, ResetPasswordForm
<1>6. CASE page[t] = "/profile"
  <2>1. data[t] \in People
    BY <1>6 DEF Shown, Guest
  <2>2. QED
    BY <1>6, <2>1 DEF Offers, ProfileWorkspace, Topbar
<1>7. CASE page[t] = "/"
  BY <1>7 DEF Offers, Topbar
<1>8. QED
  BY <1>1, <1>2, <1>3, <1>4, <1>5, <1>6, <1>7 DEF Guest, Protected

LEMMA AskKeeps ==
  ASSUME IInv, NEW t \in Tabs, NEW r \in Requests, Ask(t, r)
  PROVE  IInv'
<1>1. TypeOK /\ EntryInv /\ IdInv /\ SessionsAreVerified /\ QueryInv
  BY DEF IInv
<1>2. /\ ask[r] = Idle /\ asks < MaxAsks /\ asks' = asks + 1
      /\ UNCHANGED <<tables, browser, screen, query, visits>>
  BY DEF Ask
<1>3. PICK o \in Offers(t) :
         ask' = [ask EXCEPT ![r] = [stage |-> "sent", tab |-> t, kind |-> o[1], form |-> page[t],
                                    who |-> o[2], sid |-> cookie, here |-> TRUE]]
  BY DEF Ask
<1> DEFINE b == [stage |-> "sent", tab |-> t, kind |-> o[1], form |-> page[t],
                 who |-> o[2], sid |-> cookie, here |-> TRUE]
<1>4. /\ o[1] \in Kinds \ {"none"} /\ o[2] \in People \cup {Nobody}
      /\ o[1] # "logout" => o[2] \in People
      /\ o[1] = "demo" => o[2] = Demo
  BY <1>1, OffersKnown DEF Ask, TypeOK
<1>5. b \in Mutation
  BY <1>1, <1>4 DEF Mutation, Stages, TypeOK
<1>6. b.stage = "sent" /\ b.kind = o[1] /\ b.who = o[2] /\ b.sid = cookie
  OBVIOUS
<1>7. ask'[r] = b /\ (\A q \in Requests : q # r => ask'[q] = ask[q])
      /\ ask' \in [Requests -> Mutation]
  BY <1>1, <1>3, <1>5 DEF TypeOK
<1> HIDE DEF b
<1>8. TypeOK'
  BY <1>1, <1>2, <1>7, AccountAssumption DEF TypeOK, tables, browser, screen, query
<1>9. EntryInv'
  <2>1. account' = account
    BY <1>2 DEF tables
  <2>2. QED
    <3>1. b.tab \in Tabs
      BY DEF b
    <3>2. QED
      BY <1>1, <1>4, <1>6, <1>7, <2>1, <3>1 DEF EntryInv
<1>10. IdInv'
  <2>1. Entering' \subseteq Entering \cup {r}
    BY <1>7 DEF Entering
  <2>2. IsFiniteSet(Entering \cup {r}) /\ Cardinality(Entering \cup {r}) \in Nat
        /\ Cardinality(Entering \cup {r}) <= Cardinality(Entering) + 1
    <3>1. CASE r \in Entering
      <4>1. Entering \cup {r} = Entering
        BY <3>1
      <4>2. IsFiniteSet(Entering) /\ Cardinality(Entering) \in Nat
        BY <1>1, IdFacts
      <4>3. Cardinality(Entering) <= Cardinality(Entering) + 1
        BY <4>2
      <4>4. QED
        BY <4>1, <4>2, <4>3
    <3>2. CASE r \notin Entering
      BY SMTT(30), <1>1, <3>2, IdFacts, FS_AddElement
    <3>3. QED
      BY <3>1, <3>2
  <2>3. Cardinality(Entering') <= Cardinality(Entering) + 1 /\ Cardinality(Entering') \in Nat
    BY <1>1, <2>1, <2>2, IdFacts, FS_Subset, FS_CardinalityType
  <2>4. issued' = issued /\ cookie' = cookie /\ fetch' = fetch
    BY <1>2 DEF tables, browser, query
  <2>5. issued' + Cardinality(Entering') <= asks'
    BY <1>1, <1>2, <2>3, <2>4, IdFacts DEF IdInv
  <2>6. \A q \in Requests : ask'[q].sid <= issued
    BY <1>1, <1>6, <1>7 DEF IdInv
  <2>7. QED
    BY <1>1, <2>4, <2>5, <2>6 DEF IdInv
<1>11. SessionsAreVerified' /\ QueryInv'
  BY <1>1, <1>2 DEF SessionsAreVerified, QueryInv, Who, tables, browser, query
<1>12. QED
  BY <1>8, <1>9, <1>10, <1>11 DEF IInv

LEMMA UserKeeps ==
  ASSUME IInv, NEW t \in Tabs, User(t)
  PROVE  IInv'
<1>1. TypeOK
  BY DEF IInv
<1>2. ASSUME NEW p \in Guest \cup Protected, Visit(t, p) PROVE IInv'
  <2>1. UNCHANGED <<tables, browser, asks>> /\ visits' \in 0 .. MaxVisits
    BY <1>1, <1>2, AccountAssumption DEF Visit, TypeOK
  <2>2. Show(t, p, ask, timer[t])
    BY <1>2 DEF Visit
  <2>3. QED
    BY <1>1, <2>1, <2>2, AskItself, TimersFacts, ShowKeeps
<1>3. CASE moveToPasswordStep(t) \/ BackToIdentity(t) \/ BackToPassword(t)
  <2>1. \E from, to \in 1 .. 4 : Turn(t, from, to)
    BY <1>3 DEF moveToPasswordStep, BackToIdentity, BackToPassword
  <2>2. PICK from \in 1 .. 4, to \in 1 .. 4 : Turn(t, from, to)
    BY <2>1
  <2>3. step' \in [Tabs -> 1 .. 4] /\ ask' = ask
    BY <1>1, <2>2 DEF Turn, TypeOK
  <2>4. AskMoves
    BY <1>1, <2>3, AskItself DEF AskMoves
  <2>5. QED
    BY <2>2, <2>3, <2>4, FormKeeps DEF Turn
<1>4. QED
  BY <1>2, <1>3, LoadKeeps, AskKeeps DEF User

-----------------------------------------------------------------------------
(* The answers.                                                            *)
\* The step of an answer that changes the cookie and invalidates the session.
LEMMA InvalidateKeeps ==
  ASSUME IInv, NEW t \in Tabs, NEW d, NEW s \in Nat, s <= issued, cookie' = s, changer' = t,
         data' \in [Tabs -> People \cup {Unknown, SignedOut}], failed' = failed,
         Invalidate(t, d, s), UNCHANGED <<tables, page, counts>>,
         NEW a \in [Requests -> Mutation], NEW c \in Timers,
         \A q \in Requests : MoveOf(a[q], ask[q]), Remount(t, a, c)
  PROVE  IInv'
<1>1. TypeOK /\ IdInv
  BY DEF IInv
<1>2. AskMoves /\ step' \in [Tabs -> 1 .. 4] /\ timer' \in [Tabs -> Timers]
  BY <1>1, RemountFacts
<1>3. /\ fetch' \in [Tabs -> Fetch] /\ joined' \in [Tabs -> BOOLEAN]
      /\ joined'[t] \/ fetch'[t] = Request(s)
      /\ fetch'[t] = fetch[t] \/ fetch'[t] = Request(s)
      /\ \A u \in Tabs : u # t => fetch'[u] = fetch[u] /\ joined'[u] = joined[u]
  BY <1>1, InvalidateFacts
<1>4. QueryTypes
  BY <1>1, <1>3 DEF QueryTypes, TypeOK
<1>5. ASSUME NEW u \in Tabs PROVE fetch'[u].sid <= issued /\ GoodQuery(u)'
  <2>1. fetch'[u].sid <= issued
    BY <1>1, <1>3, RequestType DEF IdInv
  <2>2. CASE u # t
    BY <2>1, <2>2, NotMine
  <2>3. CASE u = t /\ joined'[t]
    BY <2>1, <2>3 DEF GoodQuery
  <2>4. CASE u = t /\ fetch'[t] = Request(s)
    BY <2>1, <2>4, Asked
  <2>5. QED
    BY <1>3, <2>2, <2>3, <2>4
<1>6. ScreenStep
  BY <1>1, <1>2, <1>4, <1>5 DEF ScreenStep, counts, TypeOK
<1>7. QED
  BY <1>6, ScreenKeeps

LEMMA SettlingMoves ==
  ASSUME TypeOK, NEW r \in Requests, ask[r].stage # "none"
  PROVE  /\ Stage(r, "settling") \in [Requests -> Mutation]
         /\ \A q \in Requests : MoveOf(Stage(r, "settling")[q], ask[q])
<1>1. "settling" \in Stages /\ "settling" \notin Entry
  BY DEF Stages, Entry
<1>2. QED
  BY <1>1, StageMoves

LEMMA AnswerKeeps ==
  ASSUME IInv, NEW r \in Requests, Answer(r)
  PROVE  IInv'
<1> DEFINE t == ask[r].tab
<1>0. ask[r].stage # "none" /\ t \in Tabs
  BY DEF IInv, EntryInv, Answer, SignedIn, LoggedOut, Settles, PasswordSet, Noticed
<1>1. TypeOK /\ EntryInv /\ IdInv /\ timer[t] \in Timers
  BY <1>0, TimersFacts DEF IInv
<1>2. ask[r] \in Mutation /\ ask[r].sid \in Nat /\ ask[r].sid <= issued
  BY <1>0, <1>1, MutationFields DEF TypeOK, IdInv
<1>3. CASE SignedIn(r)
  <2>1. ask[r].who \in People
    BY <1>0, <1>1, <1>3 DEF SignedIn, EntryInv
  <2> DEFINE d == IF ask[r].form = "/signup" THEN ask[r].who ELSE data[t]
  <2>2. /\ cookie' = ask[r].sid /\ changer' = t /\ data' = [data EXCEPT ![t] = d]
        /\ Invalidate(t, d, ask[r].sid) /\ UNCHANGED <<tables, page, counts>>
        /\ failed' = failed
        /\ Remount(t, Stage(r, "settling"), timer[t])
    BY <1>3 DEF SignedIn
  <2>3. d \in People \cup {Unknown, SignedOut}
    BY <1>0, <1>1, <2>1 DEF TypeOK
  <2>4. data' \in [Tabs -> People \cup {Unknown, SignedOut}]
    BY <1>0, <1>1, <2>2, <2>3 DEF TypeOK
  <2> HIDE DEF d, t
  <2>5. QED
    BY <1>0, <1>1, <1>2, <2>2, <2>4, SettlingMoves, InvalidateKeeps DEF t
<1>4. CASE LoggedOut(r)
  <2>1. /\ cookie' = NoSession /\ changer' = t /\ data' = data /\ failed' = failed
        /\ Invalidate(t, data[t], NoSession) /\ UNCHANGED <<tables, page, counts>>
        /\ Remount(t, Stage(r, "settling"), timer[t])
    BY <1>4 DEF LoggedOut
  <2>2. NoSession \in Nat /\ NoSession <= issued
    BY <1>0, <1>1, IdFacts DEF NoSession
  <2>3. data' \in [Tabs -> People \cup {Unknown, SignedOut}]
    BY <1>0, <1>1, <2>1 DEF TypeOK
  <2> HIDE DEF t
  <2>4. QED
    BY <1>0, <1>1, <2>1, <2>2, <2>3, SettlingMoves, InvalidateKeeps DEF t
<1>5. CASE Settles(r)
  <2>1. UNCHANGED <<tables, browser, counts>>
    BY <1>5 DEF Settles
  <2>2. CASE ask[r].form = "/signup"
    <3>1. /\ step' = [step EXCEPT ![t] = IF ask[r].here THEN 4 ELSE @]
          /\ timer' = [timer EXCEPT ![t] = IF ask[r].here THEN "held" ELSE "loose"]
          /\ ask' = [ask EXCEPT ![r] = Idle] /\ UNCHANGED <<page, query>>
      BY <1>5, <2>2 DEF Settles
    <3>2. AskMoves
      BY <1>0, <1>1, <3>1, IdleMoves DEF AskMoves
    <3>3. step' \in [Tabs -> 1 .. 4]
      <4>1. step' = [step EXCEPT ![t] = 4] \/ step' = [step EXCEPT ![t] = step[t]]
        BY <3>1
      <4>2. QED
        BY <1>0, <1>1, <4>1 DEF TypeOK
    <3>4. timer' \in [Tabs -> Timers] /\ visits' \in 0 .. MaxVisits /\ asks' = asks
          /\ page' \in [Tabs -> Guest \cup Protected]
      BY <1>0, <1>1, <2>1, <3>1 DEF TypeOK, Timers, counts
    <3>5. QueryTypes /\ \A u \in Tabs : QueryKept(u)
      BY <1>0, <1>1, <3>1 DEF QueryTypes, QueryKept, TypeOK, query
    <3>6. QED
      BY <1>0, <2>1, <3>2, <3>3, <3>4, <3>5, QuietScreen
  <2>3. CASE ask[r].form # "/signup"
    <3>1. \E p \in {"/login", "/"} : Show(t, p, [ask EXCEPT ![r] = Idle], timer[t])
      BY <1>5, <2>3 DEF Settles
    <3>2. {"/login", "/"} \subseteq Guest \cup Protected
      BY DEF Guest, Protected
    <3>3. asks' = asks /\ visits' \in 0 .. MaxVisits
      BY <1>0, <1>1, <2>1 DEF counts, TypeOK
    <3> HIDE DEF t
    <3>4. QED
      BY <1>0, <1>1, <2>1, <3>1, <3>2, <3>3, IdleMoves, ShowKeeps DEF t
  <2>4. QED
    BY <2>2, <2>3
<1>6. CASE PasswordSet(r)
  <2>1. /\ cookie' = NoSession /\ changer' = Nobody /\ UNCHANGED <<tables, counts>>
        /\ Show(t, "/login", [ask EXCEPT ![r] = Idle], timer[t])
    BY <1>6 DEF PasswordSet
  <2>2. NoSession \in Nat /\ NoSession <= issued /\ "/login" \in Guest \cup Protected
    BY <1>0, <1>1, IdFacts DEF NoSession, Guest
  <2> HIDE DEF t
  <2>3. /\ AskMoves /\ step' \in [Tabs -> 1 .. 4] /\ timer' \in [Tabs -> Timers]
        /\ page' \in [Tabs -> Guest \cup Protected] /\ QueryTypes
        /\ \A u \in Tabs : QueryKept(u) \/ fetch'[u] = Request(cookie')
    BY <1>0, <1>1, <2>1, <2>2, IdleMoves, ShowFacts DEF t
  <2>4. ASSUME NEW u \in Tabs PROVE fetch'[u].sid <= issued /\ GoodQuery(u)'
    <3>1. GoodQuery(u)'
      BY <2>1, NotMine, AccountAssumption
    <3>2. fetch'[u].sid <= issued
      BY <1>0, <1>1, <2>1, <2>2, <2>3, RequestType DEF QueryKept, IdInv
    <3>3. QED
      BY <3>1, <3>2
  <2>5. ScreenStep
    BY <1>0, <1>1, <2>1, <2>2, <2>3, <2>4 DEF ScreenStep, counts, TypeOK
  <2>6. QED
    BY <2>5, ScreenKeeps
<1>7. CASE Noticed(r)
  <2>1. ask' = [ask EXCEPT ![r] = Idle]
    BY <1>7 DEF Noticed
  <2>2. AskMoves
    BY <1>0, <1>1, <2>1, IdleMoves DEF AskMoves
  <2>3. step' = [step EXCEPT ![t] = 3] \/ step' = [step EXCEPT ![t] = step[t]]
    BY <1>7 DEF Noticed
  <2>4. step' \in [Tabs -> 1 .. 4]
    BY <1>0, <1>1, <2>3 DEF TypeOK
  <2>5. QED
    BY <1>7, <2>2, <2>4, FormKeeps DEF Noticed
<1>8. QED
  BY <1>3, <1>4, <1>5, <1>6, <1>7 DEF Answer

-----------------------------------------------------------------------------
(* The handlers.                                                           *)
\* A handler that leaves the sessions alone.
LEMMA TablesKeep ==
  ASSUME IInv, AskMoves, AccountsGrow, UNCHANGED <<owner, issued, Server>>,
         account' \in [People -> {"none", "pending", "verified"}],
         secret' \in [{"code", "token"} -> [People -> {"none", "old", "fresh"}]]
  PROVE  IInv'
<1>1. /\ owner' \in [SessionIds -> People \cup {Nobody}]
      /\ \A s \in SessionIds : owner'[s] \in {owner[s], Nobody}
  BY DEF IInv, TypeOK
<1>2. Who(cookie)' = Who(cookie) /\ changer' = changer
      /\ UNCHANGED <<issued, cookie, screen, query, counts>>
  BY DEF Who, Server, browser
<1>3. QED
  BY <1>1, <1>2, ServerKeeps DEF ServerStep

LEMMA SecretType ==
  ASSUME TypeOK, NEW k \in {"code", "token"}, NEW u \in People,
         NEW x \in {"none", "old", "fresh"}
  PROVE  [secret EXCEPT ![k][u] = x]
           \in [{"code", "token"} -> [People -> {"none", "old", "fresh"}]]
<1>1. [secret[k] EXCEPT ![u] = x] \in [People -> {"none", "old", "fresh"}]
  BY DEF TypeOK
<1>2. [secret EXCEPT ![k][u] = x] = [secret EXCEPT ![k] = [secret[k] EXCEPT ![u] = x]]
  BY DEF TypeOK
<1>3. QED
  BY <1>1, <1>2 DEF TypeOK

\* The stage of one mutation changes and nothing is checked.
LEMMA HandlerMoves ==
  ASSUME IInv, NEW r \in Requests, ask[r].stage # "none", NEW x \in Stages,
         x = "mailing" => ask[r].kind \in Mailers,
         ask[r].kind \in SignIns /\ x \in Entry =>
           /\ ask[r].stage \in Entry
           /\ x = "checked" => ask[r].kind = "demo" \/ account'[ask[r].who] = "verified",
         ask' = Stage(r, x)
  PROVE  AskMoves
  BY StageMoves DEF AskMoves, IInv

LEMMA AccountSame ==
  ASSUME IInv, account' = account
  PROVE  AccountsGrow /\ account' \in [People -> {"none", "pending", "verified"}]
  BY Unverify DEF IInv, TypeOK

LEMMA SecretSame ==
  ASSUME IInv, secret' = secret
  PROVE  secret' \in [{"code", "token"} -> [People -> {"none", "old", "fresh"}]]
  BY DEF IInv, TypeOK

LEMMA LoginKeeps ==
  ASSUME IInv, NEW r \in Requests, Login(r)
  PROVE  IInv'
<1>1. UNCHANGED <<account, secret, owner, issued, Server>>
  BY DEF Login, tables
<1>2. CASE MayEnter(ask[r].who)
  <2>1. ask' = Stage(r, "checked") /\ ask[r].stage = "sent" /\ account'[ask[r].who] = "verified"
    BY <1>1, <1>2 DEF Login, MayEnter
  <2>2. AskMoves
    BY <2>1, HandlerMoves DEF Stages, Entry
  <2>3. QED
    BY <1>1, <2>2, AccountSame, SecretSame, TablesKeep
<1>3. CASE ~MayEnter(ask[r].who)
  <2>1. ask' = Stage(r, "refused") /\ ask[r].stage = "sent"
    BY <1>3 DEF Login
  <2>2. AskMoves
    BY <2>1, HandlerMoves DEF Stages, Entry
  <2>3. QED
    BY <1>1, <2>2, AccountSame, SecretSame, TablesKeep
<1>4. QED
  BY <1>2, <1>3

LEMMA DemoLoginKeeps ==
  ASSUME IInv, NEW r \in Requests, DemoLogin(r)
  PROVE  IInv'
<1>1. /\ UNCHANGED <<secret, owner, issued, Server>> /\ ask[r].kind = "demo"
      /\ ask[r].stage \in {"sent", "absent"}
  BY DEF DemoLogin
<1>2. TypeOK /\ Demo \in People
  BY DEF IInv, People
<1>3. AskMoves
  <2>1. \E x \in {"absent", "checked", "refused"} : ask' = Stage(r, x)
    BY DEF DemoLogin
  <2>2. QED
    BY <1>1, <2>1, HandlerMoves DEF Stages, Entry
<1>4. CASE account' = account
  BY <1>1, <1>3, <1>4, AccountSame, SecretSame, TablesKeep
<1>5. CASE account' = [account EXCEPT ![Demo] = "verified"]
  <2>1. account' \in [People -> {"none", "pending", "verified"}] /\ AccountsGrow
    BY <1>2, <1>5 DEF TypeOK, AccountsGrow
  <2>2. QED
    BY <1>1, <1>3, <2>1, SecretSame, TablesKeep
<1>6. QED
  BY <1>4, <1>5 DEF DemoLogin

LEMMA VerifyEmailKeeps ==
  ASSUME IInv, NEW r \in Requests, VerifyEmail(r)
  PROVE  IInv'
<1> DEFINE u == ask[r].who
<1>1. /\ ask[r].kind = "verify" /\ ask[r].stage = "sent"
      /\ account' = [account EXCEPT ![u] = "verified"]
      /\ secret' = [secret EXCEPT !["code"][u] = "none"] /\ ask' = Stage(r, "checked")
      /\ UNCHANGED <<owner, issued, Server>>
  BY DEF VerifyEmail
<1>2. TypeOK /\ EntryInv /\ u \in People
  BY <1>1 DEF IInv, EntryInv
<1> HIDE DEF u
<1>3. account'[u] = "verified" /\ account' \in [People -> {"none", "pending", "verified"}]
  BY <1>1, <1>2 DEF TypeOK
<1>4. AccountsGrow
  BY <1>1, <1>2, <1>3 DEF AccountsGrow, TypeOK
<1>5. AskMoves
  BY <1>1, <1>3, HandlerMoves DEF Stages, Entry, u
<1>6. secret' \in [{"code", "token"} -> [People -> {"none", "old", "fresh"}]]
  BY <1>1, <1>2, SecretType
<1>7. QED
  BY <1>1, <1>3, <1>4, <1>5, <1>6, TablesKeep

LEMMA SignupKeeps ==
  ASSUME IInv, NEW r \in Requests, Signup(r)
  PROVE  IInv'
<1>1. /\ ask[r].kind = "signup" /\ ask[r].stage = "sent"
      /\ UNCHANGED <<secret, owner, issued, Server>> /\ "signup" \notin SignIns
  BY DEF Signup, SignIns
<1>2. TypeOK /\ ask[r].who \in People
  BY <1>1 DEF IInv, EntryInv
<1>3. AskMoves
  <2>1. \E x \in {"checked", "refused"} : ask' = Stage(r, x)
    BY DEF Signup
  <2>2. QED
    BY <1>1, <2>1, HandlerMoves DEF Stages
<1>4. CASE account[ask[r].who] = "none"
  <2>1. account' = [account EXCEPT ![ask[r].who] = "pending"]
    BY <1>4 DEF Signup
  <2>2. account' \in [People -> {"none", "pending", "verified"}] /\ AccountsGrow
    BY <1>2, <1>4, <2>1 DEF TypeOK, AccountsGrow
  <2>3. QED
    BY <1>1, <1>3, <2>2, SecretSame, TablesKeep
<1>5. CASE account[ask[r].who] # "none"
  BY <1>1, <1>3, <1>5, AccountSame, SecretSame, TablesKeep DEF Signup
<1>6. QED
  BY <1>4, <1>5

\* The handlers that read, write or mail a secret, and those that fail.
LEMMA SecretKeeps ==
  ASSUME IInv, NEW r \in Requests, ResendOrForgot(r) \/ CreateSecret(r) \/ Mail(r) \/ Fails(r)
  PROVE  IInv'
<1>1. /\ UNCHANGED <<account, owner, issued, Server>> /\ ask[r].stage # "none"
  BY DEF ResendOrForgot, CreateSecret, Mail, Fails, tables
<1>2. AskMoves
  <2>1. CASE ResendOrForgot(r)
    <3>1. ask[r].kind \notin SignIns /\ \E x \in {"checked", "answered"} : ask' = Stage(r, x)
      BY <2>1 DEF ResendOrForgot, SignIns
    <3>2. QED
      BY <1>1, <3>1, HandlerMoves DEF Stages
  <2>2. CASE CreateSecret(r) \/ Mail(r) \/ Fails(r)
    <3>1. \E x \in {"mailing", "answered", "refused"} :
            ask' = Stage(r, x) /\ (x = "mailing" => ask[r].kind \in Mailers)
      BY <2>2 DEF CreateSecret, Mail, Fails, Mailers
    <3>2. QED
      BY <1>1, <3>1, HandlerMoves DEF Stages, Entry
  <2>3. QED
    BY <2>1, <2>2
<1>3. secret' \in [{"code", "token"} -> [People -> {"none", "old", "fresh"}]]
  <2>1. CASE secret' = secret
    BY <2>1, SecretSame
  <2>2. CASE secret' # secret
    <3>1. \/ ask[r].kind \in {"signup", "resend", "forgot"}
          \/ ask[r].stage = "mailing"
      BY <2>2 DEF ResendOrForgot, CreateSecret, Mail, Fails, tables
    <3>2. \E x \in {"fresh", "none"} : secret' = [secret EXCEPT ![Secret(r)][ask[r].who] = x]
      BY <2>2 DEF ResendOrForgot, CreateSecret, Mail, Fails, tables
    <3>3. TypeOK /\ ask[r].who \in People /\ Secret(r) \in {"code", "token"}
      BY <3>1 DEF IInv, EntryInv, Secret, Mailers
    <3>4. QED
      BY <3>2, <3>3, SecretType
  <2>3. QED
    BY <2>1, <2>2
<1>4. QED
  BY <1>1, <1>2, <1>3, AccountSame, TablesKeep

LEMMA IssueKeeps ==
  ASSUME IInv, NEW r \in Requests, IssueSession(r)
  PROVE  IInv'
<1>1. TypeOK /\ EntryInv /\ IdInv /\ SessionsAreVerified /\ QueryInv
  BY DEF IInv
<1>2. /\ ask[r].stage = "checked" /\ ask[r].kind \in SignIns /\ issued' = issued + 1
      /\ owner' = [owner EXCEPT ![issued + 1] = ask[r].who]
      /\ ask' = [ask EXCEPT ![r].stage = "answered", ![r].sid = issued + 1]
      /\ UNCHANGED <<account, secret, Server>>
  BY DEF IssueSession, SignIns
<1>3. /\ cookie' = cookie /\ changer' = changer /\ UNCHANGED <<page, step, timer>>
      /\ UNCHANGED <<data, failed, fetch, joined, asks, visits>>
  BY <1>2 DEF Server, browser, screen, query, counts
<1>4. ask[r].who \in People /\ (account[ask[r].who] = "verified" \/ ask[r].who = Demo)
  BY <1>1, <1>2 DEF EntryInv, SignIns
<1> DEFINE a == ask[r]
           b == [[a EXCEPT !.stage = "answered"] EXCEPT !.sid = issued + 1]
<1>5. /\ b \in Mutation /\ b.kind = a.kind /\ b.who = a.who /\ b.tab = a.tab
      /\ b.stage = "answered" /\ b.sid = issued + 1
  <2>1. a \in Mutation /\ issued + 1 \in Nat /\ "answered" \in Stages
    BY <1>1 DEF TypeOK, Stages
  <2>2. [a EXCEPT !.stage = "answered"] \in Mutation
    BY <2>1, StageChange
  <2>3. ASSUME NEW c \in Mutation, NEW i \in Nat
        PROVE  /\ [c EXCEPT !.sid = i] \in Mutation /\ [c EXCEPT !.sid = i].sid = i
               /\ [c EXCEPT !.sid = i].kind = c.kind /\ [c EXCEPT !.sid = i].who = c.who
               /\ [c EXCEPT !.sid = i].tab = c.tab /\ [c EXCEPT !.sid = i].stage = c.stage
    BY DEF Mutation
  <2> DEFINE c == [a EXCEPT !.stage = "answered"]
  <2>4. c \in Mutation /\ c.stage = "answered" /\ c.kind = a.kind /\ c.who = a.who
        /\ c.tab = a.tab
    BY <2>1, StageChange
  <2> HIDE DEF a, c
  <2>5. /\ [c EXCEPT !.sid = issued + 1] \in Mutation
        /\ [c EXCEPT !.sid = issued + 1].kind = c.kind
        /\ [c EXCEPT !.sid = issued + 1].who = c.who
        /\ [c EXCEPT !.sid = issued + 1].tab = c.tab
        /\ [c EXCEPT !.sid = issued + 1].stage = c.stage
        /\ [c EXCEPT !.sid = issued + 1].sid = issued + 1
    BY <2>1, <2>3, <2>4
  <2>6. QED
    BY <2>4, <2>5 DEF c
<1>6. ask' = [ask EXCEPT ![r] = b]
  BY <1>1, <1>2 DEF TypeOK
<1> HIDE DEF b
<1>7. ask'[r] = b /\ (\A q \in Requests : q # r => ask'[q] = ask[q])
      /\ ask' \in [Requests -> Mutation]
  BY <1>1, <1>5, <1>6 DEF TypeOK
<1>8. TypeOK'
  <2>1. owner' \in [SessionIds -> People \cup {Nobody}]
    <3>1. ask[r].who \in People \cup {Nobody} /\ owner \in [SessionIds -> People \cup {Nobody}]
      BY <1>1, <1>4 DEF TypeOK
    <3>2. QED
      BY <1>2, <3>1
  <2>2. issued' \in Nat
    BY <1>1, <1>2 DEF TypeOK
  <2>3. QED
    BY <1>1, <1>2, <1>3, <1>7, <2>1, <2>2 DEF TypeOK
<1>9. EntryInv'
  <2>1. account' = account /\ b.stage \notin {"none", "mailing", "checked"}
    BY <1>2, <1>5
  <2>2. a.tab \in Tabs
    BY <1>1, <1>2 DEF EntryInv
  <2>3. ASSUME NEW q \in Requests
        PROVE  /\ ask'[q].stage # "none" => ask'[q].tab \in Tabs
               /\ ask'[q].stage = "mailing" => ask'[q].kind \in Mailers
               /\ ask'[q].kind \notin {"none", "logout"} => ask'[q].who \in People
               /\ ask'[q].kind = "demo" => ask'[q].who = Demo
               /\ ask'[q].kind \in SignIns \ {"demo"} /\ ask'[q].stage = "checked"
                    => account'[ask'[q].who] = "verified"
    <3>1. CASE q = r
      BY <1>1, <1>5, <1>7, <2>1, <2>2, <3>1 DEF EntryInv
    <3>2. CASE q # r
      BY <1>1, <1>7, <2>1, <3>2 DEF EntryInv
    <3>3. QED
      BY <3>1, <3>2
  <2>4. QED
    BY <1>1, <2>1, <2>3 DEF EntryInv
<1>10. IdInv'
  <2>1. r \in Entering /\ Entering' = Entering \ {r}
    BY <1>2, <1>5, <1>7 DEF Entering
  <2>2. Cardinality(Entering') = Cardinality(Entering) - 1
    BY <1>1, <2>1, IdFacts, FS_RemoveElement
  <2>3. issued' + Cardinality(Entering') <= asks'
    BY <1>1, <1>2, <1>3, <2>2, IdFacts DEF IdInv
  <2>4. \A q \in Requests : ask'[q].sid <= issued'
    <3>1. ASSUME NEW q \in Requests, q # r PROVE ask'[q].sid <= issued'
      <4>1. ask'[q] = ask[q] /\ ask[q].sid \in Nat /\ ask[q].sid <= issued
        BY <1>1, <1>7, <3>1, MutationFields DEF IdInv, TypeOK
      <4>2. QED
        BY <1>1, <1>2, <4>1, IdFacts
    <3>2. ask'[r].sid <= issued'
      BY <1>1, <1>2, <1>5, <1>7, IdFacts
    <3>3. QED
      BY <3>1, <3>2
  <2>5. \A t \in Tabs : fetch'[t].sid <= issued'
    <3>1. ASSUME NEW t \in Tabs PROVE fetch[t].sid <= issued + 1
      <4>1. fetch[t].sid \in Nat /\ fetch[t].sid <= issued
        BY <1>1 DEF IdInv, TypeOK, Fetch
      <4>2. QED
        BY <1>1, <4>1, IdFacts
    <3>2. QED
      BY <1>2, <1>3, <3>1
  <2>6. cookie' <= issued'
    BY <1>1, <1>2, <1>3, IdFacts DEF IdInv, TypeOK
  <2>7. QED
    BY <2>3, <2>4, <2>5, <2>6 DEF IdInv
<1>11. SessionsAreVerified'
  <2>1. \A s \in SessionIds : owner'[s] = owner[s] \/ owner'[s] = ask[r].who
    BY <1>1, <1>2 DEF TypeOK
  <2>2. QED
    BY <1>1, <1>2, <1>4, <2>1 DEF SessionsAreVerified
<1>12. QueryInv'
  <2>1. Who(cookie)' = Who(cookie)
    <3>1. cookie # issued + 1
      BY <1>1, IdFacts DEF IdInv, TypeOK
    <3>2. CASE cookie = NoSession
      BY <1>3, <3>2 DEF Who
    <3>3. CASE cookie # NoSession
      <4>1. cookie \in SessionIds
        BY <1>1, <3>3, IdFacts, AccountAssumption DEF IdInv, TypeOK, SessionIds, NoSession
      <4>2. owner'[cookie] = owner[cookie]
        BY <1>1, <1>2, <3>1, <4>1 DEF TypeOK
      <4>3. QED
        BY <1>3, <4>2 DEF Who
    <3>4. QED
      BY <3>2, <3>3
  <2>2. ASSUME NEW t \in Tabs PROVE GoodQuery(t)'
    <3>1. GoodQuery(t) /\ QueryKept(t)
      BY <1>1, <1>3, QueryIsGood DEF QueryKept
    <3>2. QED
      BY <1>3, <2>1, <3>1, Untouched
  <2>3. QED
    BY <2>2, QueriesGood
<1>13. QED
  BY <1>8, <1>9, <1>10, <1>11, <1>12 DEF IInv

\* A handler that ends sessions.
LEMMA EndingKeeps ==
  ASSUME IInv, AskMoves, UNCHANGED <<account, issued, cookie, screen, query, counts>>,
         secret' \in [{"code", "token"} -> [People -> {"none", "old", "fresh"}]],
         owner' \in [SessionIds -> People \cup {Nobody}],
         \A s \in SessionIds : owner'[s] \in {owner[s], Nobody},
         changer' \in {changer, Nobody}, changer' # Nobody => Who(cookie)' = Who(cookie)
  PROVE  IInv'
  BY AccountSame, ServerKeeps DEF ServerStep

LEMMA EndsFacts ==
  ASSUME IInv, NEW s, Ends(s), cookie' = cookie
  PROVE  /\ owner' \in [SessionIds -> People \cup {Nobody}]
         /\ \A q \in SessionIds : owner'[q] \in {owner[q], Nobody}
         /\ changer' \in {changer, Nobody}
         /\ changer' # Nobody => Who(cookie)' = Who(cookie)
<1>1. TypeOK /\ IdInv
  BY DEF IInv
<1>2. ASSUME changer' # Nobody PROVE Who(cookie)' = Who(cookie)
  <2>1. s # cookie
    BY <1>2 DEF Ends
  <2>2. CASE cookie = NoSession
    BY <2>2 DEF Who
  <2>3. CASE cookie # NoSession
    <3>1. cookie \in SessionIds
      BY <1>1, <2>3, IdFacts, AccountAssumption DEF IdInv, TypeOK, SessionIds, NoSession
    <3>2. owner'[cookie] = owner[cookie]
      BY <1>1, <2>1, <3>1 DEF Ends, TypeOK
    <3>3. QED
      BY <3>2 DEF Who
  <2>4. QED
    BY <2>2, <2>3
<1>3. QED
  BY <1>1, <1>2 DEF Ends, TypeOK

LEMMA LogoutKeeps ==
  ASSUME IInv, NEW r \in Requests, Logout(r)
  PROVE  IInv'
<1>1. /\ UNCHANGED <<account, secret, issued, cookie, screen, query, counts>>
      /\ ask' = Stage(r, "answered") /\ ask[r].stage = "sent"
  BY DEF Logout
<1>2. AskMoves
  BY <1>1, HandlerMoves DEF Stages, Entry
<1>3. CASE owner' = owner /\ changer' = changer
  <2>1. Who(cookie)' = Who(cookie)
    BY <1>1, <1>3 DEF Who
  <2>2. owner' \in [SessionIds -> People \cup {Nobody}]
    BY <1>3 DEF IInv, TypeOK
  <2>3. QED
    BY <1>1, <1>2, <1>3, <2>1, <2>2, SecretSame, EndingKeeps
<1>4. CASE Ends(ask[r].sid)
  BY <1>1, <1>2, <1>4, EndsFacts, SecretSame, EndingKeeps
<1>5. QED
  BY <1>3, <1>4 DEF Logout

LEMMA ResetKeeps ==
  ASSUME IInv, NEW r \in Requests, ResetPassword(r)
  PROVE  IInv'
<1> DEFINE u == ask[r].who
<1>1. /\ UNCHANGED <<account, issued, cookie, screen, query, counts>>
      /\ ask' = Stage(r, "answered") /\ ask[r].stage = "sent" /\ ask[r].kind = "reset"
      /\ secret' = [secret EXCEPT !["token"][u] = "none"]
      /\ owner' = [s \in SessionIds |-> IF owner[s] = u THEN Nobody ELSE owner[s]]
      /\ changer' = IF Who(cookie) = u THEN Nobody ELSE changer
  BY DEF ResetPassword
<1>2. TypeOK /\ IdInv /\ u \in People
  BY <1>1 DEF IInv, EntryInv
<1>3. AskMoves
  BY <1>1, HandlerMoves DEF Stages, Entry
<1> HIDE DEF u
<1>4. secret' \in [{"code", "token"} -> [People -> {"none", "old", "fresh"}]]
  BY <1>1, <1>2, SecretType
<1>5. /\ owner' \in [SessionIds -> People \cup {Nobody}]
      /\ \A s \in SessionIds : owner'[s] \in {owner[s], Nobody}
  BY <1>1, <1>2 DEF TypeOK
<1>6. ASSUME changer' # Nobody PROVE Who(cookie)' = Who(cookie)
  <2>1. Who(cookie) # u
    BY <1>1, <1>6
  <2>2. CASE cookie = NoSession
    BY <1>1, <2>2 DEF Who
  <2>3. CASE cookie # NoSession
    <3>1. cookie \in SessionIds
      BY <1>2, <2>3, IdFacts, AccountAssumption DEF IdInv, TypeOK, SessionIds, NoSession
    <3>2. owner[cookie] # u
      BY <1>2, <2>1, <2>3, AccountAssumption DEF Who, People
    <3>3. owner'[cookie] = owner[cookie]
      BY <1>1, <3>1, <3>2
    <3>4. QED
      BY <1>1, <3>3 DEF Who
  <2>4. QED
    BY <2>2, <2>3
<1>7. QED
  BY <1>1, <1>3, <1>4, <1>5, <1>6, EndingKeeps

LEMMA HandlerKeeps ==
  ASSUME IInv, NEW r \in Requests, Handler(r)
  PROVE  IInv'
  BY LoginKeeps, DemoLoginKeeps, VerifyEmailKeeps, IssueKeeps, SignupKeeps, SecretKeeps,
     ResetKeeps, LogoutKeeps DEF Handler

LEMMA TimeKeeps ==
  ASSUME IInv, Time
  PROVE  IInv'
<1>1. ASSUME NEW k \in {"code", "token"}, NEW u \in People, Cooled(k, u) PROVE IInv'
  <2>1. secret' \in [{"code", "token"} -> [People -> {"none", "old", "fresh"}]]
    BY <1>1, SecretType DEF Cooled, IInv
  <2>2. AskMoves /\ UNCHANGED <<account, owner, issued, Server>>
    BY <1>1, AskItself DEF AskMoves, Cooled, IInv
  <2>3. QED
    BY <2>1, <2>2, AccountSame, TablesKeep
<1>2. ASSUME NEW s \in SessionIds, SessionExpires(s) PROVE IInv'
  <2>1. AskMoves /\ UNCHANGED <<account, issued, cookie, screen, query, counts>>
    BY <1>2, AskItself DEF AskMoves, SessionExpires, IInv
  <2>2. QED
    BY <1>2, <2>1, EndsFacts, SecretSame, EndingKeeps DEF SessionExpires
<1>3. QED
  BY <1>1, <1>2 DEF Time

-----------------------------------------------------------------------------
LEMMA InvInit == Init => IInv
<1> SUFFICES ASSUME Init PROVE IInv
  OBVIOUS
<1>1. TypeOK
  <2>1. [NoFetch EXCEPT !.stage = "sent"] \in Fetch
    BY DEF NoFetch, Fetch, NoSession
  <2>2. /\ fetch \in [Tabs -> Fetch] /\ ask \in [Requests -> Mutation]
        /\ asks \in 0 .. MaxAsks /\ visits \in 0 .. MaxVisits /\ cookie \in Nat
    BY <2>1, IdleType, AccountAssumption DEF Init, NoSession
  <2>3. /\ page \in [Tabs -> Guest \cup Protected] /\ step \in [Tabs -> 1 .. 4]
        /\ timer \in [Tabs -> {"none", "held", "loose"}]
        /\ data \in [Tabs -> People \cup {Unknown, SignedOut}]
        /\ failed \in [Tabs -> BOOLEAN] /\ joined \in [Tabs -> BOOLEAN]
    BY OpenedAssumption DEF Init
  <2>4. secret \in [{"code", "token"} -> [People -> {"none", "old", "fresh"}]]
    BY DEF Init
  <2>5. QED
    BY <2>2, <2>3, <2>4 DEF Init, TypeOK
<1>2. EntryInv
  BY IdleType DEF Init, EntryInv, SignIns, Idle
<1>3. IdInv
  <2>1. Entering = {}
    BY IdleType DEF Init, Entering, SignIns
  <2>2. \A t \in Tabs : fetch[t].sid = 0
    BY DEF Init, NoFetch, NoSession
  <2>3. issued = 0 /\ asks = 0 /\ cookie = 0 /\ \A r \in Requests : ask[r].sid = 0
    BY IdleType DEF Init, NoSession
  <2>4. Cardinality(Entering) = 0
    BY <2>1, FS_EmptySet
  <2>5. QED
    BY <2>2, <2>3, <2>4 DEF IdInv
<1>4. SessionsAreVerified /\ QueryInv
  BY AccountAssumption DEF Init, SessionsAreVerified, QueryInv
<1>5. QED
  BY <1>1, <1>2, <1>3, <1>4 DEF IInv

LEMMA InvNext == IInv /\ [Next]_vars => IInv'
<1> SUFFICES ASSUME IInv, [Next]_vars PROVE IInv'
  OBVIOUS
<1>1. CASE UNCHANGED vars
  BY <1>1 DEF vars, tables, browser, screen, query, counts, IInv, TypeOK, EntryInv, IdInv,
     Entering, SessionsAreVerified, QueryInv, Who
<1>2. QED
  BY <1>1, BrowserKeeps, UserKeeps, HandlerKeeps, AnswerKeeps, TimeKeeps DEF Next

LEMMA InvCorrect == Spec => []IInv
  BY InvInit, InvNext, PTL DEF Spec

-----------------------------------------------------------------------------
(* Every variable keeps to its type; session ids do not run out.           *)
THEOREM TypeCorrect == Spec => []TypeOK
<1>1. IInv => TypeOK
  BY DEF IInv
<1>2. QED
  BY InvCorrect, <1>1, PTL

(* A session is of a verified account or the demo account, in whatever     *)
(* order requests are served, those for the address of the demo account    *)
(* among them (handleAuthSignup, handleAuthLogin, handleAuthDemoLogin,     *)
(* handleAuthVerifyEmail, issueSession).                                    *)
THEOREM OnlyVerifiedEnter == Spec => []SessionsAreVerified
<1>1. IInv => SessionsAreVerified
  BY DEF IInv
<1>2. QED
  BY InvCorrect, <1>1, PTL

(* The tab that signed in or out last shows who its cookie stands for once *)
(* its query is at rest (the invalidations of the forms and the top bar).  *)
THEOREM ChangerShows == Spec => []SignInShows
<1>1. IInv => SignInShows
  BY DEF IInv, QueryInv, SignInShows
<1>2. QED
  BY InvCorrect, <1>1, PTL
=============================================================================
