------------------------------ MODULE Session ------------------------------
(***************************************************************************)
(* Signing in and out and registering on one device: the account the       *)
(* device is signed in as, the account whose tabs are shown, and the       *)
(* screens over the tabs.                                                  *)
(*                                                                         *)
(* The tabs are made for an account when a fetch of its document is        *)
(* answered, and stay until another fetch is: signing out or in does not   *)
(* change them.  A registration is a chain of callbacks (two images, the   *)
(* account, its document) that goes on when its screen is left, and it     *)
(* signs the new account in half-way.                                      *)
(***************************************************************************)
EXTENDS Firestore

CONSTANTS
    NoOne,          \* nobody is signed in; no tabs are shown
    NoView,         \* the view that shows the progress indicator: none
    Known,          \* the accounts that exist from the start
    MaxViews,       \* bound: login and registration screens opened
    MaxLogins,      \* bound: logins tapped
    MaxRegisters,   \* bound: registrations tapped
    MaxFails,       \* bound: calls and reads that fail, writes refused
    MaxRestarts     \* bound: ends of the process

ASSUME SessionAssumption ==
    /\ NoOne \notin User
    /\ Known \subseteq User
    /\ MaxViews \in Nat \ {0}
    /\ \A bound \in {MaxLogins, MaxRegisters, MaxFails, MaxRestarts} : bound \in Nat

VARIABLES
    auth,       \* the account signed in
    accounts,   \* the accounts the authentication service knows
    shown,      \* the account whose tabs are shown
    fetches,    \* fetches[a]: fetches of a's document under way
    at,         \* the screen on top: "root", "login" or "register"
    login,      \* the number of the last login screen
    register,   \* the number of the last registration screen
    views,      \* screens opened; numbers name them
    alert,      \* the alert on top of that screen
    loader,     \* the view that shows the progress indicator
    logins,     \* logins under way
    regs,       \* regs[n]: the registration of the n-th tap
    taps,       \* logins tapped
    fails,      \* failures
    restarts,   \* ends of the process
    \* History, read by the properties only:
    astray,     \* the fetch that should make the tabs was lost or is contended
    torn        \* accounts whose registration was cut in the middle

screenVars == <<at, login, register, views, alert>>
tabVars == <<shown, fetches, astray>>
boundVars == <<taps, fails, restarts>>
sessionVars == <<auth, accounts, tabVars, screenVars, loader, logins, regs, boundVars, torn>>
vars == <<firestoreVars, sessionVars>>

UserDoc(a) == <<"users", a>>
Docs == {UserDoc(a) : a \in User}
Profile == [profile |-> TRUE]

ASSUME AbsentAssumption ==
    /\ NoDoc # Profile
    /\ NoView \notin {"login", "register"} \X (1..MaxViews)

LoginView == <<"login", login>>
RegisterView == <<"register", register>>

Fetching == \E a \in User : fetches[a] > 0

-----------------------------------------------------------------------------
(* The fetch of the account and the tabs                                   *)

\* fetchUserData, when it is account a that is signed in.
StartFetch(a) ==
    IF a = NoOne THEN UNCHANGED <<fetches, astray>>
    ELSE /\ fetches' = [fetches EXCEPT ![a] = @ + 1]
         /\ astray' = Fetching

\* viewDidLoad of the tab bar controller, with nothing under way yet: a login
\* is presented or the account is fetched.
Launch(a) ==
    /\ shown' = NoOne
    /\ fetches' = [u \in User |-> IF u = a THEN 1 ELSE 0]
    /\ at' = IF a = NoOne THEN "login" ELSE "root"
    /\ login' = 1 /\ register' = 0 /\ views' = 1
    /\ alert' = "none"
    /\ loader' = NoView
    /\ logins' = {}
    /\ astray' = FALSE

Init ==
    /\ FirestoreInit([d \in Docs |-> IF \E a \in Known : d = UserDoc(a) THEN Profile ELSE NoDoc])
    /\ accounts = Known
    /\ auth \in Known \cup {NoOne}
    /\ shown = NoOne
    /\ fetches = [u \in User |-> IF u = auth THEN 1 ELSE 0]
    /\ at = IF auth = NoOne THEN "login" ELSE "root"
    /\ login = 1 /\ register = 0 /\ views = 1
    /\ alert = "none" /\ loader = NoView
    /\ logins = {} /\ regs = << >>
    /\ taps = 0 /\ fails = 0 /\ restarts = 0
    /\ astray = FALSE /\ torn = {}

\* The document a read on this device finds.
Found(a) == (IF auth = NoOne THEN db ELSE View(auth))[UserDoc(a)] # NoDoc

\* A plausible slip: tabs that are there are kept.
FetchAnsweredOnce(a) ==
    /\ fetches[a] > 0
    /\ fetches' = [fetches EXCEPT ![a] = @ - 1]
    /\ IF Found(a)
       THEN shown' = (IF shown = NoOne THEN a ELSE shown) /\ UNCHANGED astray
       ELSE astray' = TRUE /\ UNCHANGED shown
    /\ UNCHANGED <<firestoreVars, auth, accounts, screenVars, loader, logins, regs, boundVars, torn>>

\* A fetch is answered: the tabs are made for the account, under whatever
\* screen is on top.  Without a document the guard returns.
FetchAnswered(a) ==
    /\ fetches[a] > 0
    /\ fetches' = [fetches EXCEPT ![a] = @ - 1]
    /\ IF Found(a) THEN shown' = a /\ UNCHANGED astray ELSE astray' = TRUE /\ UNCHANGED shown
    /\ UNCHANGED <<firestoreVars, auth, accounts, screenVars, loader, logins, regs, boundVars, torn>>

\* A fetch fails, and nobody tries again.
FetchFails(a) ==
    /\ fails < MaxFails
    /\ fails' = fails + 1
    /\ fetches[a] > 0
    /\ fetches' = [fetches EXCEPT ![a] = @ - 1]
    /\ astray' = TRUE
    /\ UNCHANGED <<firestoreVars, auth, accounts, shown, screenVars, loader, logins, regs,
                   taps, restarts, torn>>

-----------------------------------------------------------------------------
(* The progress indicator, one for all screens                             *)

Running(n) == regs[n].step \notin {"done", "cut"}

\* It refers to its view weakly: a view lives while its screen is open or a
\* call it waits for is under way.
Alive(view) ==
    \/ view = LoginView /\ at # "root"
    \/ view = RegisterView /\ at = "register"
    \/ \E call \in logins : view = <<"login", call.view>>
    \/ \E n \in DOMAIN regs : view = <<"register", regs[n].view>> /\ Running(n)

ShowLoader(view) == loader' = IF loader # NoView /\ Alive(loader) THEN loader ELSE view
HideLoader == loader' = NoView

\* The account signed in becomes a.
SignIn(a) ==
    /\ auth' = a
    /\ ChangeCredential

-----------------------------------------------------------------------------
(* Signing out and in                                                      *)

\* The profile tab's menu.
LogOut ==
    /\ at = "root" /\ shown # NoOne
    /\ views < MaxViews
    /\ SignIn(NoOne)
    /\ at' = "login"
    /\ views' = views + 1
    /\ login' = views + 1
    /\ UNCHANGED <<db, pending, main, accounts, tabVars, register, alert, loader, logins, regs,
                   boundVars, torn>>

\* didTapSignIn, unless the indicator covers the form.
TapLogIn(a) ==
    /\ at = "login" /\ alert = "none" /\ loader # LoginView
    /\ taps < MaxLogins
    /\ taps' = taps + 1
    /\ ShowLoader(LoginView)
    /\ logins' = logins \cup {[view |-> login, account |-> a]}
    /\ UNCHANGED <<firestoreVars, auth, accounts, tabVars, screenVars, regs, fails, restarts, torn>>

\* A plausible slip: an alert is shown whatever is on top by now.
PresentAnywhere(what, screen, visible) == alert' = what

\* An alert is shown by a screen on top that shows none yet.
Present(what, screen, visible) ==
    IF at = screen /\ visible /\ alert = "none" THEN alert' = what ELSE UNCHANGED alert

LogInSucceeds(call) ==
    /\ call \in logins /\ call.account \in accounts
    /\ logins' = logins \ {call}
    /\ SignIn(call.account)
    /\ HideLoader
    /\ Present("success", "login", call.view = login)
    /\ astray' = (astray \/ at = "root")
    /\ UNCHANGED <<db, pending, main, accounts, shown, fetches, at, login, register, views, regs,
                   boundVars, torn>>

\* A plausible slip: the indicator is not hidden before the alert.
LogInFailsShown(call) ==
    /\ call \in logins
    /\ logins' = logins \ {call}
    /\ Present("fail", "login", call.view = login)
    /\ UNCHANGED <<firestoreVars, auth, accounts, tabVars, at, login, register, views, loader,
                   regs, boundVars, torn>>

\* A wrong password, an unknown account or no network.
LogInFails(call) ==
    /\ call \in logins
    /\ logins' = logins \ {call}
    /\ HideLoader
    /\ Present("fail", "login", call.view = login)
    /\ UNCHANGED <<firestoreVars, auth, accounts, tabVars, at, login, register, views, regs,
                   boundVars, torn>>

CloseAlert ==
    /\ alert = "fail"
    /\ alert' = "none"
    /\ UNCHANGED <<firestoreVars, auth, accounts, tabVars, at, login, register, views, loader,
                   logins, regs, boundVars, torn>>

\* A plausible slip: the screens are dismissed and that is all.
AuthCompleteDismissing ==
    /\ alert = "success"
    /\ alert' = "none"
    /\ at' = "root"
    /\ UNCHANGED <<firestoreVars, auth, accounts, tabVars, login, register, views, loader,
                   logins, regs, boundVars, torn>>

\* The alert of a success is confirmed: authComplete fetches the account that
\* is signed in by now and dismisses the screens over the tabs.
AuthComplete ==
    /\ alert = "success"
    /\ alert' = "none"
    /\ StartFetch(auth)
    /\ at' = "root"
    /\ UNCHANGED <<firestoreVars, auth, accounts, shown, login, register, views, loader,
                   logins, regs, boundVars, torn>>

-----------------------------------------------------------------------------
(* Registration                                                            *)

OpenRegister ==
    /\ at = "login" /\ alert = "none" /\ loader # LoginView
    /\ views < MaxViews
    /\ at' = "register"
    /\ views' = views + 1
    /\ register' = views + 1
    /\ UNCHANGED <<firestoreVars, auth, accounts, tabVars, login, alert, loader, logins, regs,
                   boundVars, torn>>

\* The navigation bar's back button, which the indicator does not cover.
Back ==
    /\ at = "register" /\ alert = "none"
    /\ at' = "login"
    /\ UNCHANGED <<firestoreVars, auth, accounts, tabVars, login, register, views, alert, loader,
                   logins, regs, boundVars, torn>>

\* didTapSignUp without a picture: the guard returns, the indicator stays.
TapSignUpIncomplete ==
    /\ at = "register" /\ alert = "none" /\ loader # RegisterView
    /\ ShowLoader(RegisterView)
    /\ UNCHANGED <<firestoreVars, auth, accounts, tabVars, screenVars, logins, regs, boundVars, torn>>

\* didTapSignUp: the chain starts with the two images.
TapSignUp(a) ==
    /\ at = "register" /\ alert = "none" /\ loader # RegisterView
    /\ Len(regs) < MaxRegisters
    /\ ShowLoader(RegisterView)
    /\ regs' = Append(regs, [view |-> register, account |-> a, step |-> "images"])
    /\ UNCHANGED <<firestoreVars, auth, accounts, tabVars, screenVars, logins, boundVars, torn>>

Stands(n, step) == n \in DOMAIN regs /\ regs[n].step = step
GoTo(n, step) == regs' = [regs EXCEPT ![n].step = step]

\* Both images are stored and their links known: createUser is called.
ImagesStored(n) ==
    /\ Stands(n, "images")
    /\ GoTo(n, "creating")
    /\ UNCHANGED <<firestoreVars, auth, accounts, tabVars, screenVars, loader, logins, boundVars, torn>>

\* The service makes the account; its answer is on the way.
AccountMade(n) ==
    /\ Stands(n, "creating") /\ regs[n].account \notin accounts
    /\ accounts' = accounts \cup {regs[n].account}
    /\ GoTo(n, "created")
    /\ UNCHANGED <<firestoreVars, auth, tabVars, screenVars, loader, logins, boundVars, torn>>

\* The answer arrives: the new account is signed in and its document queued.
AccountCreated(n) ==
    /\ Stands(n, "created")
    /\ GoTo(n, "document")
    /\ SignIn(regs[n].account)
    /\ Issue(regs[n].account, << SetData(UserDoc(regs[n].account), Profile,
                                         [do |-> "registered", reg |-> n]) >>)
    /\ astray' = (astray \/ at = "root")
    /\ UNCHANGED <<db, main, accounts, shown, fetches, screenVars, loader, logins, boundVars, torn>>

\* An image is not stored, the account exists already, or an answer is lost:
\* the error is not passed on, and nothing happens any more.
RegistrationCut(n) ==
    /\ \/ Stands(n, "creating") /\ regs[n].account \in accounts /\ UNCHANGED fails
       \/ /\ fails < MaxFails
          /\ fails' = fails + 1
          /\ n \in DOMAIN regs /\ regs[n].step \in {"images", "creating", "created"}
    /\ GoTo(n, "cut")
    /\ torn' = IF Stands(n, "created") THEN torn \cup {regs[n].account} ELSE torn
    /\ UNCHANGED <<firestoreVars, auth, accounts, tabVars, screenVars, loader, logins,
                   taps, restarts>>

\* The server refuses the document of the account that is signed in.
Refuse ==
    /\ fails < MaxFails
    /\ fails' = fails + 1
    /\ auth # NoOne /\ Reject(auth)
    /\ torn' = torn \cup {auth}
    /\ UNCHANGED <<auth, accounts, tabVars, screenVars, loader, logins, regs, taps, restarts>>

\* The completion of the document, with or without an error.
Registered(u) ==
    /\ \E outcome \in {"registered", "refused"} :
          /\ Due(u, outcome)
          /\ LET n == Head(main[u]).reg
             IN  /\ GoTo(n, "done")
                 /\ Present(IF outcome = "registered" THEN "success" ELSE "fail",
                            "register", regs[n].view = register)
    /\ main' = [main EXCEPT ![u] = Tail(@)]
    /\ HideLoader
    /\ UNCHANGED <<db, pending, sent, auth, accounts, tabVars, at, login, register, views, logins,
                   boundVars, torn>>

-----------------------------------------------------------------------------
(* The process and the client                                              *)

\* A plausible slip: the queues are lost with the process.
LoseQueues == pending' = [u \in User |-> << >>]

\* The queues of writes survive the process without their handlers.
KeepQueues ==
    pending' = [u \in User |->
                   [i \in DOMAIN pending[u] |-> [pending[u][i] EXCEPT !.then = Nothing]]]

\* The process ends and starts again.  The session and the queues of writes
\* are on disk; the screens, and who waited on them, are not (view 0).
Restart ==
    /\ restarts < MaxRestarts
    /\ restarts' = restarts + 1
    /\ KeepQueues
    /\ main' = [u \in User |-> << >>]
    /\ ChangeCredential
    /\ Launch(auth)
    /\ regs' = [n \in DOMAIN regs |-> [regs[n] EXCEPT !.step = IF Running(n) THEN "cut" ELSE @,
                                                     !.view = 0]]
    /\ torn' = torn \cup {regs[n].account : n \in {m \in DOMAIN regs : Stands(m, "created")}}
    /\ UNCHANGED <<db, auth, accounts, taps, fails>>

\* The client serves the queue of the account that is signed in.
Client(u) ==
    /\ u = auth
    /\ Transmit(u) \/ Acknowledge(u) \/ Reconnect(u)
    /\ UNCHANGED sessionVars

Next ==
    \/ LogOut \/ CloseAlert \/ AuthComplete \/ OpenRegister \/ Back
    \/ TapSignUpIncomplete \/ Refuse \/ Restart
    \/ \E a \in User : \/ FetchAnswered(a) \/ FetchFails(a) \/ TapLogIn(a) \/ TapSignUp(a)
                       \/ Registered(a) \/ Client(a)
    \/ \E call \in logins : LogInSucceeds(call) \/ LogInFails(call)
    \/ \E n \in 1..MaxRegisters : \/ ImagesStored(n) \/ AccountMade(n) \/ AccountCreated(n)
                                  \/ RegistrationCut(n)

Spec == Init /\ [][Next]_vars

\* Calls and fetches are answered, the main thread runs what is due, and the
\* client serves the account that is signed in.
Fairness ==
    /\ \A a \in User : /\ WF_vars(FetchAnswered(a))
                       /\ WF_vars(Registered(a))
                       /\ WF_vars(a = auth /\ Transmit(a) /\ UNCHANGED sessionVars)
                       /\ SF_vars(a = auth /\ Acknowledge(a) /\ UNCHANGED sessionVars)
    /\ \A n \in 1..MaxRegisters :
          WF_vars(ImagesStored(n) \/ AccountMade(n) \/ AccountCreated(n) \/ RegistrationCut(n))

FairSpec == Spec /\ Fairness

-----------------------------------------------------------------------------
(* Properties                                                              *)

Call == [view : 1..MaxViews, account : User]
Registration == [view : 0..MaxViews, account : User,
                 step : {"images", "creating", "created", "document", "done", "cut"}]

AccountsOK ==
    /\ auth \in accounts \cup {NoOne} /\ Known \subseteq accounts /\ accounts \subseteq User
    /\ shown \in accounts \cup {NoOne}
    /\ fetches \in [User -> Nat]
    /\ astray \in BOOLEAN /\ torn \subseteq accounts

ScreensOK ==
    /\ at \in {"root", "login", "register"}
    /\ views \in 1..MaxViews /\ login \in 1..views /\ register \in 0..views
    /\ alert \in {"none", "fail", "success"} /\ (at = "root" => alert = "none")
    /\ loader \in {NoView} \cup ({"login", "register"} \X (1..MaxViews))

CallsOK == logins \subseteq Call /\ regs \in Seq(Registration) /\ Len(regs) <= MaxRegisters

CountsOK == taps \in 0..MaxLogins /\ fails \in 0..MaxFails /\ restarts \in 0..MaxRestarts

\* Every variable holds a value of its kind; at the tabs no alert is shown.
TypeOK == AccountsOK /\ ScreensOK /\ CallsOK /\ CountsOK

\* Once no fetch is under way, the tabs nobody covers are those of the account
\* that is signed in.  This is what authComplete is for.  It takes that no
\* fetch was lost or found no document, that no two fetches overlapped, and
\* that no registration whose screen was left signed its account in behind the
\* tabs; the code does nothing about these.
TabsFollow ==
    at = "root" /\ ~Fetching /\ ~astray => shown = auth

\* An account that exists has its document, in the server or in the device's
\* queue for it, or its registration is about to write it; unless that
\* registration was cut between the two.
AccountDocumented ==
    \A a \in accounts \ torn :
        \/ View(a)[UserDoc(a)] # NoDoc
        \/ \E n \in DOMAIN regs : Stands(n, "created") /\ regs[n].account = a

\* The indicator covers a login form only while a login from that form is
\* being answered: every path of didTapSignIn hides it.
LoginExplained ==
    loader = LoginView /\ at # "root" => \E call \in logins : call.view = login

\* With fair scheduling the account that was fetched gets its tabs, unless
\* the fetch is lost, or another account or screen comes first.
TabsArrive ==
    \A a \in User :
        at = "root" /\ auth = a /\ fetches[a] > 0 ~> shown = a \/ astray \/ auth # a \/ at # "root"

\* With fair scheduling a registration ends: its chain is cut or its document
\* is answered, unless the account is signed out again before.
RegistrationEnds ==
    \A n \in 1..MaxRegisters :
        n \in DOMAIN regs ~>
            \/ n \in DOMAIN regs /\ ~Running(n)
            \/ Stands(n, "document") /\ auth # regs[n].account
=============================================================================
