------------------------------- MODULE Accounts ------------------------------
(***************************************************************************)
(* Signing up, verifying, signing in and out, and resetting the password:  *)
(* the handlers handleAuth* over the store's tables, and the tabs of one   *)
(* browser, which share its cookie.  A tab holds the answer of             *)
(* /api/auth/session in its query cache; the guards of the pages (GuestOnly *)
(* and AuthGuard) show or replace a page by that answer alone.             *)
(*                                                                         *)
(* A mutation of a form outlives the form: its callbacks run whether the   *)
(* page is still there or not.  A mail, its code and its token are told    *)
(* apart only by whether they are what the table holds: another code is    *)
(* refused as a wrong one is.                                              *)
(***************************************************************************)
EXTENDS Naturals, FiniteSets

CONSTANTS
  Users,      \* people with an email address
  Demo,       \* the shared demo account
  Tabs,
  Requests,   \* bound: mutations under way at a time
  MaxAsks,    \* bound: mutations, and so sessions
  MaxVisits,  \* bound: pages opened by the user
  Opened,     \* bound: the pages tabs begin with
  Nobody

ASSUME AccountAssumption ==
  /\ Demo \notin Users /\ Nobody \notin Users \cup {Demo} \cup Tabs
  /\ IsFiniteSet(Requests) /\ MaxAsks \in Nat /\ MaxVisits \in Nat

People == Users \cup {Demo}
SessionIds == 1 .. MaxAsks
NoSession == 0
Guest == {"/login", "/signup", "/verify-email", "/forgot-password", "/reset-password"}
Protected == {"/", "/profile"}   \* the others are as "/" is

ASSUME OpenedAssumption == Opened \subseteq Guest \cup Protected

VARIABLES
  account,   \* users: "none", "pending" (verification_required) or "verified"
  secret,    \* the row of a user in email_verification_codes ("code") or
             \* password_reset_tokens ("token"): "none", "old", or "fresh"
             \* while the cooldown runs
  owner,     \* sessions: the account of a session
  issued,    \* session ids used
  cookie,    \* the session in the cookie of the browser
  changer,   \* the tab that signed in or out last, Nobody when the session
             \* ended in another way
  page, step, timer,    \* of a tab: the page, the step of the sign-up form;
                        \* its timer, "held" by the form or "loose"
  data, failed, fetch,  \* the query ["session"]: what is cached, whether the
                        \* last request failed, the request under way
  joined,    \* the last invalidation found a first request under way
  ask,       \* the mutations under way
  asks, visits

tables == <<account, secret, owner, issued>>
browser == <<cookie, changer>>
screen == <<page, step, timer>>
query == <<data, failed, fetch, joined>>
counts == <<asks, visits>>
vars == <<tables, browser, screen, query, ask, counts>>

Unknown == "unknown"
SignedOut == "out"
NoFetch == [stage |-> "none", sid |-> NoSession, who |-> SignedOut]
Idle == [stage |-> "none", tab |-> Nobody, kind |-> "none", form |-> "none",
         who |-> Nobody, sid |-> NoSession, here |-> FALSE]

Init ==
  /\ account \in [People -> {"none", "pending", "verified"}]
  /\ secret = [k \in {"code", "token"} |-> [u \in People |-> "none"]]
  /\ owner = [s \in SessionIds |-> Nobody] /\ issued = 0
  /\ cookie = NoSession /\ changer = Nobody
  /\ page \in [Tabs -> Opened] /\ step = [t \in Tabs |-> 1]
  /\ timer = [t \in Tabs |-> "none"]
  /\ data = [t \in Tabs |-> Unknown] /\ failed = [t \in Tabs |-> FALSE]
  /\ fetch = [t \in Tabs |-> [NoFetch EXCEPT !.stage = "sent"]]
  /\ joined = [t \in Tabs |-> FALSE]
  /\ ask = [r \in Requests |-> Idle] /\ asks = 0 /\ visits = 0

(* ------------------------ the session and its query ------------------- *)
(* handleAuthSession: who a cookie stands for.                             *)
Who(s) == IF s # NoSession /\ owner[s] # Nobody THEN owner[s] ELSE SignedOut

Request(s) == [NoFetch EXCEPT !.stage = "sent", !.sid = s]

(* GuestOnly and AuthGuard: whether the page itself is on the screen, for  *)
(* what the query holds (d) and what is under way (f); isLoading means a    *)
(* first request.                                                          *)
Shown(p, d, f) ==
  IF p \in Guest THEN d \notin People /\ ~(d = Unknown /\ f # NoFetch)
                 ELSE d \in People

(* A form that leaves the screen loses its state; the timer it holds is    *)
(* cleared.  To be used after page', data' and fetch' are known; a and c are  *)
(* what the mutations and the timer become otherwise.                      *)
Remount(t, a, c) ==
  LET shown == Shown(page'[t], data'[t], fetch'[t])
      form == shown /\ page'[t] = page[t]
      bar == shown /\ {page[t], page'[t]} \subseteq Protected
  IN
  /\ step' = [step EXCEPT ![t] = IF form THEN @ ELSE 1]
  /\ timer' = [timer EXCEPT ![t] = IF form \/ c # "held" THEN c ELSE "none"]
  /\ ask' = [r \in Requests |->
               IF a[r].tab = t /\ ~(IF a[r].kind = "logout" THEN bar ELSE form)
               THEN [a[r] EXCEPT !.here = FALSE] ELSE a[r]]

(* invalidateQueries: the query is active on every page.  A request under  *)
(* way is cancelled if there is data (d), joined if there is none; s is     *)
(* the cookie by now.                                                       *)
InvalidateJoining(t, d, s) ==
  /\ fetch' = [fetch EXCEPT ![t] = IF @ # NoFetch THEN @ ELSE Request(s)]
  /\ joined' = [joined EXCEPT ![t] = fetch[t] # NoFetch /\ d = Unknown]
Invalidate(t, d, s) ==
  LET joins == fetch[t] # NoFetch /\ d = Unknown IN
  /\ fetch' = [fetch EXCEPT ![t] = IF joins THEN @ ELSE Request(s)]
  /\ joined' = [joined EXCEPT ![t] = joins]

(* What the mutations of t become that awaited the request.                *)
Resumed(t) ==
  [r \in Requests |-> IF ask[r].tab = t /\ ask[r].stage = "settling"
                      THEN [ask[r] EXCEPT !.stage = "settled"] ELSE ask[r]]

SessionRead(t) ==
  /\ fetch[t].stage = "sent"
  /\ fetch' = [fetch EXCEPT ![t].stage = "read", ![t].who = Who(fetch[t].sid)]
  /\ UNCHANGED <<tables, browser, screen, data, failed, joined, ask, counts>>

SessionArrives(t) ==
  /\ fetch[t].stage = "read"
  /\ data' = [data EXCEPT ![t] = fetch[t].who]
  /\ failed' = [failed EXCEPT ![t] = FALSE]
  /\ fetch' = [fetch EXCEPT ![t] = NoFetch]
  /\ UNCHANGED page
  /\ Remount(t, Resumed(t), timer[t])
  /\ UNCHANGED <<tables, browser, joined, counts>>

(* retry: 1.  The second request has the cookie of its time, and is the    *)
(* same request if that did not change.                                    *)
SessionRetried(t) ==
  /\ fetch[t] # NoFetch /\ fetch[t].sid # cookie
  /\ fetch' = [fetch EXCEPT ![t] = Request(cookie)]
  /\ UNCHANGED <<tables, browser, screen, data, failed, joined, ask, counts>>

(* Both fail.  What was cached stays cached.                               *)
SessionFails(t) ==
  /\ fetch[t] # NoFetch
  /\ failed' = [failed EXCEPT ![t] = TRUE]
  /\ fetch' = [fetch EXCEPT ![t] = NoFetch]
  /\ UNCHANGED <<page, data>>
  /\ Remount(t, Resumed(t), timer[t])
  /\ UNCHANGED <<tables, browser, joined, counts>>

(* ------------------------------- the pages ---------------------------- *)
(* router.replace or a link: the guard of the new page asks for the        *)
(* session if there is none, and may if what it has is 15 seconds old.     *)
Show(t, p, a, c) ==
  LET mounts == p # page[t] /\ ({p, page[t]} \subseteq Protected => p = "/profile")
  IN
  /\ page' = [page EXCEPT ![t] = p]
  /\ \/ /\ mounts /\ fetch[t] = NoFetch
        /\ fetch' = [fetch EXCEPT ![t] = Request(cookie')]
        /\ joined' = [joined EXCEPT ![t] = FALSE]
     \/ /\ mounts => fetch[t] # NoFetch \/ data[t] # Unknown
        /\ UNCHANGED <<fetch, joined>>
  /\ UNCHANGED <<data, failed>>
  /\ Remount(t, a, c)

(* The user follows a link of the page on the screen.                      *)
Links(p) == IF p \in Guest THEN Guest \ {"/reset-password"} ELSE Protected

Visit(t, p) ==
  /\ visits < MaxVisits /\ visits' = visits + 1
  /\ Shown(page[t], data[t], fetch[t])
  /\ p \in Links(page[t]) \ {page[t]}
  /\ UNCHANGED <<tables, browser, asks>>
  /\ Show(t, p, ask, timer[t])

(* The user opens an address: everything in the tab starts again, and the  *)
(* requests it has under way are given up.                                 *)
Load(t, p) ==
  /\ visits < MaxVisits /\ visits' = visits + 1
  /\ page' = [page EXCEPT ![t] = p]
  /\ step' = [step EXCEPT ![t] = 1] /\ timer' = [timer EXCEPT ![t] = "none"]
  /\ data' = [data EXCEPT ![t] = Unknown] /\ failed' = [failed EXCEPT ![t] = FALSE]
  /\ fetch' = [fetch EXCEPT ![t] = Request(cookie)]
  /\ joined' = [joined EXCEPT ![t] = FALSE]
  /\ ask' = [r \in Requests |-> IF ask[r].tab = t THEN Idle ELSE ask[r]]
  /\ UNCHANGED <<tables, browser, asks>>

(* The effects of the guards.                                              *)
SendsHomeUnlessOut(d) == d # SignedOut
SendsHome(d) == d \in People

Redirect(t) ==
  /\ data[t] # Unknown \/ fetch[t] = NoFetch
  /\ UNCHANGED <<tables, browser, counts>>
  /\ \/ page[t] \in Guest /\ SendsHome(data[t]) /\ Show(t, "/", ask, timer[t])
     \/ page[t] \in Protected /\ data[t] \notin People /\ Show(t, "/login", ask, timer[t])

(* The steps of the sign-up form.                                          *)
Turn(t, from, to) ==
  /\ page[t] = "/signup" /\ Shown(page[t], data[t], fetch[t]) /\ step[t] = from
  /\ step' = [step EXCEPT ![t] = to]
  /\ UNCHANGED <<tables, browser, page, timer, query, ask, counts>>

Busy(t, k) == \E r \in Requests : ask[r].tab = t /\ ask[r].kind = k /\ ask[r].here

moveToPasswordStep(t) == Turn(t, 1, 2)
BackToIdentity(t) == Turn(t, 2, 1)
BackToPassword(t) == ~Busy(t, "verify") /\ ~Busy(t, "resend") /\ Turn(t, 3, 2)

(* The redirect the sign-up form scheduled.                                *)
TimerFires(t) ==
  /\ timer[t] # "none"
  /\ UNCHANGED <<tables, browser, counts>>
  /\ Show(t, "/", ask, "none")

(* --------------------------- asking the server ------------------------ *)
(* What the forms let the user ask for, and of whom.  No handler treats    *)
(* the address of the demo account in a way of its own.                    *)
LoginForm == {"login"} \X People \cup {<<"demo", Demo>>}
SignupForm(s) == CASE s = 2 -> {"signup"} \X People
                   [] s = 3 -> {"verify", "resend"} \X People
                   [] OTHER -> {}
VerifyEmailForm == {"verify", "resend"} \X People
ForgotPasswordForm == {"forgot"} \X People
ResetPasswordForm == {"reset"} \X People
ProfileWorkspace(t) == {"forgot"} \X {data[t]}
Topbar == {<<"logout", Nobody>>}

Offers(t) ==
  CASE page[t] = "/login" -> LoginForm
    [] page[t] = "/signup" -> SignupForm(step[t])
    [] page[t] = "/verify-email" -> VerifyEmailForm
    [] page[t] = "/forgot-password" -> ForgotPasswordForm
    [] page[t] = "/reset-password" -> ResetPasswordForm
    [] page[t] = "/profile" -> ProfileWorkspace(t) \cup Topbar
    [] page[t] = "/" -> Topbar

\* Which of the free slots a mutation takes makes no difference.
Ask(t, r) ==
  /\ ask[r] = Idle /\ r = (CHOOSE q \in Requests : ask[q] = Idle) /\ asks < MaxAsks /\ Shown(page[t], data[t], fetch[t])
  /\ \E o \in Offers(t) :
       /\ ~Busy(t, o[1])
       /\ ask' = [ask EXCEPT ![r] =
            [stage |-> "sent", tab |-> t, kind |-> o[1], form |-> page[t],
             who |-> o[2], sid |-> cookie, here |-> TRUE]]
  /\ asks' = asks + 1
  /\ UNCHANGED <<tables, browser, screen, query, visits>>

Stage(r, x) == [ask EXCEPT ![r].stage = x]
Server == <<browser, screen, query, counts>>

(* ------------------------------ the handlers -------------------------- *)
(* A session that ends in another way than by the tab that began it.       *)
Ends(s) ==
  /\ owner' = [owner EXCEPT ![s] = Nobody]
  /\ changer' = IF s = cookie THEN Nobody ELSE changer

(* handleAuthLogin: the account is read, the password compared (another    *)
(* outcome is a refusal), then verification.                               *)
MayEnterUnverified(u) == account[u] # "none"
MayEnter(u) == account[u] = "verified"

Login(r) ==
  /\ ask[r].kind = "login" /\ ask[r].stage = "sent"
  /\ ask' = Stage(r, IF MayEnter(ask[r].who) THEN "checked" ELSE "refused")
  /\ UNCHANGED <<tables, Server>>

(* getOrCreateDemoUser: found, whether or not it was verified (somebody may *)
(* have signed up at its address), or to be created; the second of two that *)
(* create it gets the error of the unique index.                           *)
DemoLogin(r) ==
  /\ ask[r].kind = "demo"
  /\ \/ /\ ask[r].stage = "sent"
        /\ ask' = Stage(r, IF account[Demo] = "none" THEN "absent" ELSE "checked")
        /\ UNCHANGED account
     \/ /\ ask[r].stage = "absent" /\ account[Demo] = "none"
        /\ account' = [account EXCEPT ![Demo] = "verified"]
        /\ ask' = Stage(r, "checked")
     \/ /\ ask[r].stage = "absent" /\ account[Demo] # "none"
        /\ ask' = Stage(r, "refused")
        /\ UNCHANGED account
  /\ UNCHANGED <<secret, owner, issued, Server>>

(* VerifyUserEmailCode: one transaction, which a code that is not the one  *)
(* stored, or an account that waits for none, does not pass.               *)
VerifyEmail(r) ==
  LET u == ask[r].who IN
  /\ ask[r].kind = "verify" /\ ask[r].stage = "sent"
  /\ account[u] = "pending" /\ secret["code"][u] # "none"
  /\ account' = [account EXCEPT ![u] = "verified"]
  /\ secret' = [secret EXCEPT !["code"][u] = "none"]
  /\ ask' = Stage(r, "checked")
  /\ UNCHANGED <<owner, issued, Server>>

(* issueSession.                                                           *)
IssueSession(r) ==
  /\ ask[r].stage = "checked" /\ ask[r].kind \in {"login", "demo", "verify"}
  /\ issued' = issued + 1
  /\ owner' = [owner EXCEPT ![issued'] = ask[r].who]
  /\ ask' = [ask EXCEPT ![r].stage = "answered", ![r].sid = issued']
  /\ UNCHANGED <<account, secret, Server>>

(* handleAuthSignup: CreateUser.                                           *)
Signup(r) ==
  /\ ask[r].kind = "signup" /\ ask[r].stage = "sent"
  /\ IF account[ask[r].who] = "none"
     THEN /\ account' = [account EXCEPT ![ask[r].who] = "pending"]
          /\ ask' = Stage(r, "checked")
     ELSE UNCHANGED account /\ ask' = Stage(r, "refused")
  /\ UNCHANGED <<secret, owner, issued, Server>>

(* handleAuthResendVerification, handleAuthForgotPassword: nothing is sent *)
(* for an unknown or verified account, or during the cooldown, and the     *)
(* answer does not tell.                                                    *)
Secret(r) == IF ask[r].kind = "forgot" THEN "token" ELSE "code"
Sends(r) ==
  /\ secret[Secret(r)][ask[r].who] # "fresh"
  /\ account[ask[r].who] \in (IF ask[r].kind = "forgot" THEN {"pending", "verified"}
                                                        ELSE {"pending"})

ResendOrForgot(r) ==
  /\ ask[r].kind \in {"resend", "forgot"} /\ ask[r].stage = "sent"
  /\ ask' = Stage(r, IF Sends(r) THEN "checked" ELSE "answered")
  /\ UNCHANGED <<tables, Server>>

(* CreateEmailVerificationCode, CreatePasswordResetToken: the row of the   *)
(* user is replaced.  A mail that cannot be sent takes the row with it.    *)
CreateSecret(r) ==
  /\ ask[r].stage = "checked" /\ ask[r].kind \in {"signup", "resend", "forgot"}
  /\ secret' = [secret EXCEPT ![Secret(r)][ask[r].who] = "fresh"]
  /\ ask' = Stage(r, "mailing")
  /\ UNCHANGED <<account, owner, issued, Server>>

Mail(r) ==
  /\ ask[r].stage = "mailing"
  /\ \/ UNCHANGED secret /\ ask' = Stage(r, "answered")
     \/ /\ secret' = [secret EXCEPT ![Secret(r)][ask[r].who] = "none"]
        /\ ask' = Stage(r, IF ask[r].kind = "forgot" THEN "refused" ELSE "answered")
  /\ UNCHANGED <<account, owner, issued, Server>>

(* ResetPasswordWithToken: the token is used up and every session of the   *)
(* user ends.                                                               *)
ResetPassword(r) ==
  LET u == ask[r].who IN
  /\ ask[r].kind = "reset" /\ ask[r].stage = "sent"
  /\ secret["token"][u] # "none"
  /\ secret' = [secret EXCEPT !["token"][u] = "none"]
  /\ owner' = [s \in SessionIds |-> IF owner[s] = u THEN Nobody ELSE owner[s]]
  /\ changer' = IF Who(cookie) = u THEN Nobody ELSE changer
  /\ ask' = Stage(r, "answered")
  /\ UNCHANGED <<account, issued, cookie, screen, query, counts>>

(* handleAuthLogout: the session of the request ends, unless the database   *)
(* fails, which the answer does not tell.                                  *)
Logout(r) ==
  /\ ask[r].kind = "logout" /\ ask[r].stage = "sent"
  /\ \/ ask[r].sid # NoSession /\ Ends(ask[r].sid)
     \/ UNCHANGED <<owner, changer>>
  /\ ask' = Stage(r, "answered")
  /\ UNCHANGED <<account, secret, issued, cookie, screen, query, counts>>

(* Refused by validation, the rate limiter, a wrong password or code, the  *)
(* database; or lost, and the handler's context with it.                   *)
Fails(r) ==
  /\ ask[r].stage \notin {"none", "refused", "settling", "settled"}
  /\ ask' = Stage(r, "refused")
  /\ UNCHANGED <<tables, Server>>

(* Time passes.  A row that expires is from then on as a wrong code is.    *)
Cooled(k, u) ==
  /\ secret[k][u] = "fresh"
  /\ secret' = [secret EXCEPT ![k][u] = "old"]
  /\ UNCHANGED <<account, owner, issued, Server, ask>>
SessionExpires(s) ==
  /\ owner[s] # Nobody
  /\ Ends(s)
  /\ UNCHANGED <<account, secret, issued, cookie, screen, query, ask, counts>>

(* ------------------------------ the answers --------------------------- *)
(* The answer of a sign-in brings the cookie; onSuccess invalidates the    *)
(* session and waits.  The sign-up form first writes the session itself.   *)
SignedIn(r) ==
  LET t == ask[r].tab
      d == IF ask[r].form = "/signup" THEN ask[r].who ELSE data[t]
  IN
  /\ ask[r].stage = "answered" /\ ask[r].kind \in {"login", "demo", "verify"}
  /\ cookie' = ask[r].sid /\ changer' = t
  /\ data' = [data EXCEPT ![t] = d]
  /\ Invalidate(t, d, cookie')
  /\ UNCHANGED <<tables, page, failed, counts>>
  /\ Remount(t, Stage(r, "settling"), timer[t])

LoggedOut(r) ==
  LET t == ask[r].tab IN
  /\ ask[r].stage = "answered" /\ ask[r].kind = "logout"
  /\ cookie' = NoSession /\ changer' = t
  /\ Invalidate(t, data[t], NoSession)
  /\ UNCHANGED <<tables, page, data, failed, counts>>
  /\ Remount(t, Stage(r, "settling"), timer[t])

(* The rest of those two, after the wait: router.replace, or the success   *)
(* step of the sign-up form and its timer.                                 *)
Settles(r) ==
  LET t == ask[r].tab
      done == [ask EXCEPT ![r] = Idle]
  IN
  /\ ask[r].stage = "settled"
  /\ UNCHANGED <<tables, browser, counts>>
  /\ IF ask[r].form = "/signup"
     THEN /\ step' = [step EXCEPT ![t] = IF ask[r].here THEN 4 ELSE @]
          /\ timer' = [timer EXCEPT ![t] = IF ask[r].here THEN "held" ELSE "loose"]
          /\ ask' = done
          /\ UNCHANGED <<page, query>>
     ELSE Show(t, IF ask[r].kind = "logout" THEN "/login" ELSE "/", done, timer[t])

(* ResetPasswordForm: the cookie is cleared, whoever signed in meanwhile;  *)
(* the cached session is left alone.                                       *)
PasswordSet(r) ==
  LET t == ask[r].tab IN
  /\ ask[r].stage = "answered" /\ ask[r].kind = "reset"
  /\ cookie' = NoSession
  /\ changer' = Nobody
  /\ UNCHANGED <<tables, counts>>
  /\ Show(t, "/login", [ask EXCEPT ![r] = Idle], timer[t])

(* The others show a message; signing up goes on to the code.              *)
Noticed(r) ==
  LET t == ask[r].tab IN
  /\ \/ ask[r].stage = "refused"
     \/ ask[r].stage = "answered" /\ ask[r].kind \in {"signup", "resend", "forgot"}
  /\ step' = [step EXCEPT ![t] =
       IF ask[r].kind = "signup" /\ ask[r].stage = "answered" /\ ask[r].here
       THEN 3 ELSE @]
  /\ ask' = [ask EXCEPT ![r] = Idle]
  /\ UNCHANGED <<tables, browser, page, timer, query, counts>>

(* --------------------------- the specification ------------------------ *)
Handler(r) ==
  \/ Login(r) \/ DemoLogin(r) \/ VerifyEmail(r) \/ IssueSession(r) \/ Signup(r)
  \/ ResendOrForgot(r) \/ CreateSecret(r) \/ Mail(r) \/ ResetPassword(r)
  \/ Logout(r) \/ Fails(r)
Answer(r) == SignedIn(r) \/ LoggedOut(r) \/ Settles(r) \/ PasswordSet(r) \/ Noticed(r)
Browser(t) == SessionRead(t) \/ SessionArrives(t) \/ Redirect(t)
Time == \/ \E k \in {"code", "token"}, u \in People : Cooled(k, u)
        \/ \E s \in SessionIds : SessionExpires(s)
User(t) ==
  \/ \E p \in Guest \cup Protected : Visit(t, p) \/ Load(t, p)
  \/ moveToPasswordStep(t) \/ BackToIdentity(t) \/ BackToPassword(t)
  \/ \E r \in Requests : Ask(t, r)

Next ==
  \/ \E t \in Tabs : Browser(t) \/ SessionRetried(t) \/ SessionFails(t) \/ TimerFires(t) \/ User(t)
  \/ \E r \in Requests : Handler(r) \/ Answer(r)
  \/ Time

Spec == Init /\ [][Next]_vars

(* The backend answers and the browser renders; nothing else is fair.      *)
FairSpec == Spec /\ \A t \in Tabs : WF_vars(Browser(t))

(* ------------------------------ properties ---------------------------- *)
(* A session is of an account that was verified, in whatever order the     *)
(* requests of the tabs were served, and also when someone signs up at the *)
(* address of the demo account.  That account alone may be entered without *)
(* it: the demo login takes the account it finds.                          *)
SessionsAreVerified ==
  \A s \in SessionIds :
    owner[s] # Nobody => account[owner[s]] = "verified" \/ owner[s] = Demo

(* The tab that signed in or out last shows it: once its query is at rest  *)
(* it holds who the cookie stands for.  Excused are a request that failed  *)
(* twice, and an invalidation that joined the tab's very first request,    *)
(* which may have been served before the sign-in.                          *)
SignInShows ==
  \A t \in Tabs :
    changer = t /\ fetch[t] = NoFetch /\ ~failed[t] /\ ~joined[t]
      => data[t] = Who(cookie)

(* A tab does not change for ever between the two guards: it comes to rest *)
(* on a page of the session it holds.                                      *)
Fits(t) == IF page[t] \in Guest THEN data[t] \notin People ELSE data[t] \in People
ComesToRest == \A t \in Tabs : <>[]Fits(t)

(* ------------------------- inductive invariant ------------------------ *)
Stages == {"none", "sent", "absent", "checked", "mailing", "answered", "refused",
           "settling", "settled"}
SignIns == {"login", "demo", "verify"}
Mailers == {"signup", "resend", "forgot"}
Kinds == SignIns \cup Mailers \cup {"none", "reset", "logout"}
Mutation ==
  [stage : Stages, tab : Tabs \cup {Nobody}, kind : Kinds,
   form : Guest \cup Protected \cup {"none"}, who : People \cup {Nobody}, sid : Nat,
   here : BOOLEAN]
Fetch == [stage : {"none", "sent", "read"}, sid : Nat, who : People \cup {SignedOut}]

(* Values of the variables. *)
TypeOK ==
  /\ account \in [People -> {"none", "pending", "verified"}]
  /\ secret \in [{"code", "token"} -> [People -> {"none", "old", "fresh"}]]
  /\ owner \in [SessionIds -> People \cup {Nobody}] /\ issued \in Nat
  /\ cookie \in Nat /\ changer \in Tabs \cup {Nobody}
  /\ page \in [Tabs -> Guest \cup Protected] /\ step \in [Tabs -> 1 .. 4]
  /\ timer \in [Tabs -> {"none", "held", "loose"}]
  /\ data \in [Tabs -> People \cup {Unknown, SignedOut}]
  /\ failed \in [Tabs -> BOOLEAN] /\ joined \in [Tabs -> BOOLEAN]
  /\ fetch \in [Tabs -> Fetch] /\ ask \in [Requests -> Mutation]
  /\ asks \in 0 .. MaxAsks /\ visits \in 0 .. MaxVisits

(* A sign-in that passed its check is of a verified account, unless it is  *)
(* the demo login, and no account is verified and then is not.             *)
EntryInv ==
  \A r \in Requests :
    /\ ask[r].stage # "none" => ask[r].tab \in Tabs
    /\ ask[r].stage = "mailing" => ask[r].kind \in Mailers
    /\ ask[r].kind \notin {"none", "logout"} => ask[r].who \in People
    /\ ask[r].kind = "demo" => ask[r].who = Demo
    /\ ask[r].kind \in SignIns \ {"demo"} /\ ask[r].stage = "checked"
         => account[ask[r].who] = "verified"

(* The ids of sessions do not run out, and no cookie, mutation or request  *)
(* holds one that is still to be issued.                                    *)
Entering ==
  {r \in Requests : /\ ask[r].kind \in SignIns
                    /\ ask[r].stage \in {"sent", "absent", "checked"}}
IdInv ==
  /\ issued + Cardinality(Entering) <= asks
  /\ cookie <= issued
  /\ \A r \in Requests : ask[r].sid <= issued
  /\ \A t \in Tabs : fetch[t].sid <= issued

(* What the request under way of the tab that changed the session brings.  *)
QueryInv ==
  \A t \in Tabs :
    changer = t /\ ~joined[t] =>
      IF fetch[t] = NoFetch THEN failed[t] \/ data[t] = Who(cookie)
      ELSE /\ fetch[t].sid = cookie
           /\ fetch[t].stage = "read" => fetch[t].who = Who(cookie)

IInv == TypeOK /\ EntryInv /\ IdInv /\ SessionsAreVerified /\ QueryInv
=============================================================================
