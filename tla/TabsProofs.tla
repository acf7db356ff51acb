----------------------------- MODULE TabsProofs -----------------------------
(***************************************************************************)
(* Proofs about Session and Home, which share no state: the tab bar        *)
(* controller with the login, and the home screen, its first tab.          *)
(*                                                                         *)
(* Session, for every set of accounts and every bound: its types, that the *)
(* tabs follow the account (TabsFollow), that an indicator over a login    *)
(* form is explained (LoginExplained) and that an account has its document *)
(* (AccountDocumented).                                                    *)
(*                                                                         *)
(* TabsFollow compares the tabs with the account only while no fetch is    *)
(* under way; what makes it inductive is what happens before (Follow): at  *)
(* the tabs somebody is signed in, and the one fetch under way, if any, is *)
(* that account's.  Somebody is signed in because an alert of a success,   *)
(* the only way back to the tabs, is shown for a login or for the document *)
(* of a registration that signed its account in, by a screen opened since  *)
(* the last log out (SignedIn); and a completion handler that comes due    *)
(* belongs to such a registration (Owed).                                  *)
(*                                                                         *)
(* The last two have invariants of their own: Explained, the same also     *)
(* while the tabs are on top; and Documented, where an account's document  *)
(* is while it is on its way.                                              *)
(*                                                                         *)
(* Home, for all types and all bounds: the list of ALL and those           *)
(* of the categories agree (KindsCorrect), and they are well typed, free   *)
(* of repeats and fed newest first (ListsCorrect).                         *)
(*                                                                         *)
(* Placing one cartoon keeps the lists sound, so placing a whole fetch     *)
(* does (PlacedKeeps).  That a fetch's own list is strictly ordered needs  *)
(* more: each cartoon of it was asked for once, so an id is either asked   *)
(* for, waiting for the main thread or collected, never two of them        *)
(* (AskedOnce).                                                            *)
(***************************************************************************)
EXTENDS Session, Home, FirestoreProofs

-----------------------------------------------------------------------------
(* Session: the inductive invariant                                        *)

Handler == [do : {"registered", "refused"}, reg : 1..MaxRegisters]
Write == [op : {"set"}, doc : Docs, val : {Profile}, then : {Nothing} \cup Handler]

\* The registrations that signed their account in.
Entered(n) == n \in DOMAIN regs /\ regs[n].step \in {"document", "done"}

\* The queues hold registrations' documents and their handlers.
QueuesOK ==
    /\ pending \in [User -> Seq(Write)]
    /\ main \in [User -> Seq(Handler)]
    /\ sent \in [User -> Nat]
    /\ \A u \in User : sent[u] <= Len(pending[u])

\* A handler that is due, or that hangs on a write, is that of a registration
\* that signed its account in.
Owed ==
    /\ \A u \in User : \A i \in 1..Len(main[u]) : Entered(main[u][i].reg)
    /\ \A u \in User : \A i \in 1..Len(pending[u]) :
          pending[u][i].then # Nothing => Entered(pending[u][i].then.reg)

\* Accounts that are fetched, or whose creation is answered, exist.
Made ==
    /\ \A a \in User : fetches[a] > 0 => a \in accounts
    /\ \A n \in DOMAIN regs : regs[n].step = "created" => regs[n].account \in accounts

\* Screens are numbered as they are opened.
Opened ==
    /\ at = "register" => register > 0
    /\ \A n \in DOMAIN regs : regs[n].view <= views

\* Somebody is signed in when the alert of a success is on top, or will be.
SignedIn ==
    /\ alert = "success" => auth # NoOne
    /\ \A n \in DOMAIN regs :
          at = "register" /\ regs[n].view = register /\ Entered(n) => auth # NoOne

\* At the tabs somebody is signed in; unless something went astray, either the
\* tabs are there or the one fetch under way is that of the account.
Follow ==
    at = "root" =>
        /\ auth # NoOne
        /\ ~astray => \/ shown = auth /\ \A a \in User : fetches[a] = 0
                      \/ \A a \in User : fetches[a] = IF a = auth THEN 1 ELSE 0

IInv == TypeOK /\ QueuesOK /\ Owed /\ Made /\ Opened /\ SignedIn /\ Follow

-----------------------------------------------------------------------------
(* Lemmas about registrations and queues                                   *)

\* What GoTo makes of the registrations: one step changes, all else stays.
LEMMA GoToType ==
    ASSUME regs \in Seq(Registration), NEW n \in DOMAIN regs,
           NEW step \in {"images", "creating", "created", "document", "done", "cut"},
           GoTo(n, step)
    PROVE  /\ regs' \in Seq(Registration)
           /\ Len(regs') = Len(regs)
           /\ DOMAIN regs' = DOMAIN regs
           /\ \A m \in DOMAIN regs : /\ regs'[m].view = regs[m].view
                                     /\ regs'[m].account = regs[m].account
                                     /\ regs'[m].step = IF m = n THEN step ELSE regs[m].step
<1>1. regs[n] \in Registration
  OBVIOUS
<1>2. [regs[n] EXCEPT !.step = step] \in Registration
  BY <1>1 DEF Registration
<1>3. regs' = [regs EXCEPT ![n] = [regs[n] EXCEPT !.step = step]]
  BY DEF GoTo
<1>4. regs' \in Seq(Registration) /\ Len(regs') = Len(regs) /\ DOMAIN regs' = DOMAIN regs
  BY <1>2, <1>3
<1>5. ASSUME NEW m \in DOMAIN regs
      PROVE  /\ regs'[m].view = regs[m].view
             /\ regs'[m].account = regs[m].account
             /\ regs'[m].step = IF m = n THEN step ELSE regs[m].step
  <2>1. CASE m = n
    BY <1>1, <1>3, <2>1 DEF Registration
  <2>2. CASE m # n
    BY <1>3, <2>2
  <2> QED BY <2>1, <2>2
<1> QED BY <1>4, <1>5

\* A tap appends a registration and changes no other.
LEMMA TapType ==
    ASSUME regs \in Seq(Registration), NEW r \in Registration, regs' = Append(regs, r)
    PROVE  /\ regs' \in Seq(Registration)
           /\ Len(regs') = Len(regs) + 1
           /\ DOMAIN regs \subseteq DOMAIN regs'
           /\ \A m \in DOMAIN regs : regs'[m] = regs[m]
           /\ \A m \in DOMAIN regs' \ DOMAIN regs : regs'[m] = r
OBVIOUS

\* A restart cuts what runs and forgets the screens.
LEMMA RestartType ==
    ASSUME regs \in Seq(Registration), Restart
    PROVE  /\ regs' \in Seq(Registration)
           /\ Len(regs') = Len(regs)
           /\ DOMAIN regs' = DOMAIN regs
           /\ \A m \in DOMAIN regs : regs'[m].view = 0 /\ regs'[m].step \in {"done", "cut"}
<1>1. ASSUME NEW m \in DOMAIN regs
      PROVE  /\ regs'[m] \in Registration
             /\ regs'[m].view = 0
             /\ regs'[m].step \in {"done", "cut"}
  <2>1. regs[m] \in Registration
    OBVIOUS
  <2>2. regs'[m] = [regs[m] EXCEPT !.step = IF Running(m) THEN "cut" ELSE @, !.view = 0]
    BY DEF Restart
  <2>3. 0 \in 0..MaxViews
    BY SessionAssumption
  <2>4. CASE Running(m)
    <3>1. regs'[m] = [regs[m] EXCEPT !.step = "cut", !.view = 0]
      BY <2>2, <2>4
    <3> QED BY <2>1, <2>3, <2>4, <3>1 DEF Registration, Running
  <2>5. CASE ~Running(m)
    <3>1. regs'[m] = [regs[m] EXCEPT !.view = 0]
      BY <2>1, <2>2, <2>5 DEF Registration
    <3> QED BY <2>1, <2>3, <2>5, <3>1 DEF Registration, Running
  <2> QED BY <2>4, <2>5
<1>2. DOMAIN regs' = DOMAIN regs
  BY DEF Restart
<1>3. regs' \in Seq(Registration) /\ Len(regs') = Len(regs)
  <2> DEFINE Cut(m) == [regs[m] EXCEPT !.step = IF Running(m) THEN "cut" ELSE @, !.view = 0]
  <2>1. DOMAIN regs = 1..Len(regs)
    OBVIOUS
  <2>2. regs' = [m \in DOMAIN regs |-> Cut(m)]
    BY DEF Restart
  <2>3. \A m \in DOMAIN regs : Cut(m) \in Registration
    BY <1>1, <2>2
  <2> HIDE DEF Cut
  <2> QED BY <2>1, <2>2, <2>3
<1> QED BY <1>1, <1>2, <1>3

-----------------------------------------------------------------------------
(* Types                                                                   *)

\* Types, and the accounts and screens they rest on, hold at the start ...
LEMMA InitType == Init => TypeOK /\ Made /\ Opened
<1> SUFFICES ASSUME Init PROVE TypeOK /\ Made /\ Opened
  OBVIOUS
<1> USE SessionAssumption DEF Init
<1>1. AccountsOK
  BY DEF AccountsOK
<1>2. ScreensOK
  BY DEF ScreensOK
<1>3. CallsOK /\ CountsOK
  BY DEF CallsOK, CountsOK
<1>4. Made /\ Opened
  BY DEF Made, Opened
<1> QED BY <1>1, <1>2, <1>3, <1>4 DEF TypeOK

\* ... and are kept by every step.
LEMMA TypeStep == IInv /\ [Next]_vars => TypeOK' /\ Made' /\ Opened'
<1> SUFFICES ASSUME IInv, [Next]_vars PROVE TypeOK' /\ Made' /\ Opened'
  OBVIOUS
<1> USE SessionAssumption DEF IInv, TypeOK, AccountsOK, ScreensOK, CallsOK, CountsOK,
                              Made, Opened, screenVars, tabVars, boundVars
<1>0. \A n \in DOMAIN regs : regs[n].view \in 0..MaxViews /\ regs[n].account \in User
  <2>1. \A n \in DOMAIN regs : regs[n] \in Registration
    OBVIOUS
  <2> QED BY <2>1 DEF Registration
<1>1. CASE LogOut
  <2>1. AccountsOK' /\ CallsOK' /\ CountsOK'
    BY <1>1 DEF LogOut, SignIn
  <2>2. ScreensOK'
    BY <1>1 DEF LogOut
  <2>3. Made' /\ Opened'
    BY <1>0, <1>1 DEF LogOut
  <2> QED BY <2>1, <2>2, <2>3
<1>2. CASE CloseAlert
  BY <1>2 DEF CloseAlert
<1>3. CASE AuthComplete
  BY <1>3 DEF AuthComplete, StartFetch, Fetching, SignedIn
<1>4. CASE OpenRegister
  <2>1. AccountsOK' /\ CallsOK' /\ CountsOK'
    BY <1>4 DEF OpenRegister
  <2>2. ScreensOK'
    BY <1>4 DEF OpenRegister
  <2>3. Made' /\ Opened'
    BY <1>0, <1>4 DEF OpenRegister
  <2> QED BY <2>1, <2>2, <2>3
<1>5. CASE Back
  BY <1>5 DEF Back
<1>6. CASE TapSignUpIncomplete
  BY <1>6 DEF TapSignUpIncomplete, ShowLoader, RegisterView
<1>7. CASE Refuse
  BY <1>7 DEF Refuse
<1>8. CASE Restart
  <2>1. /\ CallsOK' /\ Len(regs') = Len(regs)
        /\ \A n \in DOMAIN regs' : regs'[n].view = 0 /\ regs'[n].step \in {"done", "cut"}
    BY <1>8, RestartType DEF Restart, Launch
  <2>2. torn' \subseteq accounts
    <3>1. torn' = torn \cup {regs[n].account : n \in {m \in DOMAIN regs : Stands(m, "created")}}
      BY <1>8 DEF Restart
    <3> QED BY <3>1 DEF Stands
  <2>3. /\ auth' = auth /\ accounts' = accounts /\ shown' = NoOne /\ astray' = FALSE
        /\ fetches' = [u \in User |-> IF u = auth THEN 1 ELSE 0]
    BY <1>8 DEF Restart, Launch
  <2>4. AccountsOK' /\ Made'
    <3>1. fetches' \in [User -> Nat] /\ \A a \in User : fetches'[a] > 0 => a = auth
      BY <2>3
    <3>2. AccountsOK'
      BY <2>2, <2>3, <3>1
    <3> QED BY <2>1, <2>3, <3>1, <3>2
  <2>5. /\ at' = (IF auth = NoOne THEN "login" ELSE "root")
        /\ views' = 1 /\ login' = 1 /\ register' = 0 /\ alert' = "none" /\ loader' = NoView
    BY <1>8 DEF Restart, Launch
  <2>6. ScreensOK' /\ Opened'
    BY <2>1, <2>5
  <2>7. CountsOK'
    <3>1. restarts < MaxRestarts /\ restarts' = restarts + 1 /\ taps' = taps /\ fails' = fails
      BY <1>8 DEF Restart
    <3> QED BY <3>1
  <2> QED BY <2>1, <2>4, <2>6, <2>7
<1>9. ASSUME NEW a \in User, FetchAnswered(a) PROVE TypeOK' /\ Made' /\ Opened'
  <2>1. shown' \in accounts \cup {NoOne} /\ astray' \in BOOLEAN
    BY <1>9 DEF FetchAnswered
  <2>2. fetches' \in [User -> Nat] /\ \A b \in User : fetches'[b] > 0 => b \in accounts
    BY <1>9 DEF FetchAnswered
  <2>3. AccountsOK' /\ CallsOK' /\ CountsOK' /\ ScreensOK'
    BY <1>9, <2>1, <2>2 DEF FetchAnswered
  <2>4. Made' /\ Opened'
    BY <1>9, <2>2 DEF FetchAnswered
  <2> QED BY <2>1, <2>2, <2>3, <2>4
<1>10. ASSUME NEW a \in User, FetchFails(a) PROVE TypeOK' /\ Made' /\ Opened'
  BY <1>10 DEF FetchFails
<1>11. ASSUME NEW a \in User, TapLogIn(a) PROVE TypeOK' /\ Made' /\ Opened'
  BY <1>11 DEF TapLogIn, ShowLoader, LoginView, Call
<1>12. ASSUME NEW a \in User, TapSignUp(a) PROVE TypeOK' /\ Made' /\ Opened'
  <2>1. [view |-> register, account |-> a, step |-> "images"] \in Registration
    BY <1>12 DEF TapSignUp, Registration
  <2>2. AccountsOK' /\ CountsOK'
    BY <1>12 DEF TapSignUp
  <2>3. CallsOK'
    BY <1>12, <2>1, TapType DEF TapSignUp
  <2>4. ScreensOK'
    BY <1>12 DEF TapSignUp, ShowLoader, RegisterView
  <2>5. Made' /\ Opened'
    <3>1. Made'
      BY <1>12, <2>1, TapType DEF TapSignUp
    <3>2. Opened'
      BY <1>12, <2>1, TapType DEF TapSignUp
    <3> QED BY <3>1, <3>2
  <2> QED BY <2>1, <2>2, <2>3, <2>4, <2>5
<1>13. ASSUME NEW u \in User, Registered(u) PROVE TypeOK' /\ Made' /\ Opened'
  <2>1. PICK n \in DOMAIN regs : GoTo(n, "done")
    <3>1. main[u] \in Seq(Handler) /\ main[u] # << >>
      BY <1>13 DEF Registered, QueuesOK, Due
    <3>2. Entered(Head(main[u]).reg)
      BY <3>1 DEF Owed
    <3> QED BY <1>13, <3>2 DEF Registered, Entered
  <2>2. AccountsOK' /\ CountsOK'
    BY <1>13 DEF Registered
  <2>3. CallsOK'
    BY <1>13, <2>1, GoToType DEF Registered
  <2>4. ScreensOK'
    BY <1>13 DEF Registered, Present, HideLoader
  <2>5. Made' /\ Opened'
    <3>1. Made'
      <4>1. \A m \in DOMAIN regs : /\ regs'[m].account = regs[m].account
                                   /\ regs'[m].step = IF m = n THEN "done" ELSE regs[m].step
        BY <2>1, GoToType
      <4>2. DOMAIN regs' = DOMAIN regs
        BY <2>1, GoToType
      <4>3. UNCHANGED <<fetches, accounts>>
        BY <1>13 DEF Registered, tabVars
      <4>4. \A m \in DOMAIN regs' : regs'[m].step = "created" => regs'[m].account \in accounts'
        BY <4>1, <4>2, <4>3 DEF Made
      <4>5. \A a \in User : fetches'[a] > 0 => a \in accounts'
        BY <4>3 DEF Made
      <4> QED BY <4>4, <4>5 DEF Made
    <3>2. Opened'
      BY <1>0, <1>13, <2>1, GoToType DEF Registered
    <3> QED BY <3>1, <3>2
  <2> QED BY <2>1, <2>2, <2>3, <2>4, <2>5
<1>14. ASSUME NEW u \in User, Client(u) PROVE TypeOK' /\ Made' /\ Opened'
  BY <1>14 DEF Client, sessionVars
<1>15. ASSUME NEW call \in logins, LogInSucceeds(call) PROVE TypeOK' /\ Made' /\ Opened'
  BY <1>15 DEF LogInSucceeds, SignIn, HideLoader, Present
<1>16. ASSUME NEW call \in logins, LogInFails(call) PROVE TypeOK' /\ Made' /\ Opened'
  BY <1>16 DEF LogInFails, HideLoader, Present
<1>17. ASSUME NEW n \in 1..MaxRegisters, ImagesStored(n) PROVE TypeOK' /\ Made' /\ Opened'
  BY <1>17, GoToType DEF ImagesStored, Stands
<1>18. ASSUME NEW n \in 1..MaxRegisters, AccountMade(n) PROVE TypeOK' /\ Made' /\ Opened'
  <2>1. n \in DOMAIN regs /\ regs[n].account \in User
    BY <1>0, <1>18 DEF AccountMade, Stands
  <2>2. AccountsOK' /\ CountsOK' /\ ScreensOK'
    BY <1>18, <2>1 DEF AccountMade
  <2>3. CallsOK'
    BY <1>18, <2>1, GoToType DEF AccountMade
  <2>4. Made' /\ Opened'
    <3>1. Made'
      <4>1. \A m \in DOMAIN regs : /\ regs'[m].account = regs[m].account
                                   /\ regs'[m].step = IF m = n THEN "created" ELSE regs[m].step
        BY <2>1, <1>18, GoToType DEF AccountMade
      <4>2. DOMAIN regs' = DOMAIN regs
        BY <2>1, <1>18, GoToType DEF AccountMade
      <4>3. fetches' = fetches /\ accounts' = accounts \cup {regs[n].account}
        BY <1>18 DEF AccountMade, tabVars
      <4>4. \A m \in DOMAIN regs' : regs'[m].step = "created" => regs'[m].account \in accounts'
        BY <4>1, <4>2, <4>3 DEF Made
      <4>5. \A a \in User : fetches'[a] > 0 => a \in accounts'
        BY <4>3 DEF Made
      <4> QED BY <4>4, <4>5 DEF Made
    <3>2. Opened'
      BY <1>18, <2>1, GoToType DEF AccountMade
    <3> QED BY <3>1, <3>2
  <2> QED BY <2>1, <2>2, <2>3, <2>4
<1>19. ASSUME NEW n \in 1..MaxRegisters, AccountCreated(n) PROVE TypeOK' /\ Made' /\ Opened'
  BY <1>19, GoToType DEF AccountCreated, SignIn, Stands
<1>20. ASSUME NEW n \in 1..MaxRegisters, RegistrationCut(n) PROVE TypeOK' /\ Made' /\ Opened'
  <2>1. n \in DOMAIN regs
    BY <1>20 DEF RegistrationCut, Stands
  <2>2. AccountsOK' /\ CountsOK' /\ ScreensOK'
    <3>1. AccountsOK'
      BY <1>20, <2>1 DEF RegistrationCut, Stands
    <3>2. CountsOK'
      BY <1>20, <2>1 DEF RegistrationCut
    <3>3. ScreensOK'
      BY <1>20, <2>1 DEF RegistrationCut
    <3> QED BY <3>1, <3>2, <3>3
  <2>3. CallsOK'
    BY <1>20, <2>1, GoToType DEF RegistrationCut
  <2>4. Made' /\ Opened'
    BY <1>20, <2>1, GoToType DEF RegistrationCut
  <2> QED BY <2>1, <2>2, <2>3, <2>4
<1>21. CASE UNCHANGED vars
  BY <1>21 DEF vars, sessionVars
<1> QED
  BY <1>1, <1>2, <1>3, <1>4, <1>5, <1>6, <1>7, <1>8, <1>9, <1>10, <1>11, <1>12, <1>13, <1>14,
     <1>15, <1>16, <1>17, <1>18, <1>19, <1>20, <1>21 DEF Next

-----------------------------------------------------------------------------
(* Queues and the handlers they owe                                        *)

\* What is left of a queue without its oldest element.
LEMMA TailType ==
    ASSUME NEW S, NEW q \in Seq(S), q # << >>
    PROVE  /\ Head(q) \in S /\ Head(q) = q[1] /\ 1 \in 1..Len(q)
           /\ Tail(q) \in Seq(S) /\ Len(Tail(q)) = Len(q) - 1
           /\ \A i \in 1..Len(Tail(q)) : i + 1 \in 1..Len(q) /\ Tail(q)[i] = q[i + 1]
OBVIOUS

\* A step that leaves the queues alone and cuts no registration that signed
\* its account in, whether the streams start afresh or not.
LEMMA QueuesStay ==
    ASSUME QueuesOK, Owed, UNCHANGED <<pending, main>>,
           UNCHANGED sent \/ sent' = [u \in User |-> 0],
           \A n : Entered(n) => Entered(n)'
    PROVE  QueuesOK' /\ Owed'
<1>1. QueuesOK'
  <2>1. CASE UNCHANGED sent
    BY <2>1 DEF QueuesOK
  <2>2. CASE sent' = [u \in User |-> 0]
    BY <2>2 DEF QueuesOK
  <2> QED BY <2>1, <2>2
<1>2. Owed'
  BY DEF Owed, Entered
<1> QED BY <1>1, <1>2

\* A write that is answered leaves the queue, and what hung on it comes due:
\* done is its completion handler, whether it succeeded or not.
LEMMA Answered ==
    ASSUME QueuesOK, Owed, UNCHANGED regs, NEW u \in User, pending[u] # << >>,
           pending' = [pending EXCEPT ![u] = Tail(@)],
           sent' \in [User -> Nat], \A v \in User : sent'[v] <= Len(pending'[v]),
           NEW done,
           Head(pending[u]).then # Nothing =>
               done \in Handler /\ done.reg = Head(pending[u]).then.reg,
           main' = IF Head(pending[u]).then = Nothing THEN main
                   ELSE [main EXCEPT ![u] = Append(@, done)]
    PROVE  QueuesOK' /\ Owed'
<1>1. /\ pending[u] \in Seq(Write) /\ main[u] \in Seq(Handler)
      /\ Tail(pending[u]) \in Seq(Write)
      /\ \A i \in 1..Len(Tail(pending[u])) :
            i + 1 \in 1..Len(pending[u]) /\ Tail(pending[u])[i] = pending[u][i + 1]
      /\ Head(pending[u]) = pending[u][1] /\ 1 \in 1..Len(pending[u])
  BY TailType DEF QueuesOK
<1>2. pending' \in [User -> Seq(Write)]
  BY <1>1 DEF QueuesOK
<1>3. ASSUME NEW v \in User, NEW i \in 1..Len(pending'[v]), pending'[v][i].then # Nothing
      PROVE  Entered(pending'[v][i].then.reg)
  <2>1. CASE v = u
    <3>1. pending'[v] = Tail(pending[u])
      BY <2>1 DEF QueuesOK
    <3> QED BY <1>1, <1>3, <3>1 DEF Owed
  <2>2. CASE v # u
    BY <1>3, <2>2 DEF Owed, QueuesOK
  <2> QED BY <2>1, <2>2
<1>4. CASE Head(pending[u]).then = Nothing
  BY <1>2, <1>3, <1>4 DEF QueuesOK, Owed, Entered
<1>5. CASE Head(pending[u]).then # Nothing
  <2>1. done \in Handler /\ Entered(done.reg)
    BY <1>1, <1>5 DEF Owed
  <2>2. main' = [main EXCEPT ![u] = Append(main[u], done)]
    BY <1>5
  <2>3. main' \in [User -> Seq(Handler)]
    BY <1>1, <2>1, <2>2 DEF QueuesOK
  <2>4. ASSUME NEW v \in User, NEW i \in 1..Len(main'[v]) PROVE Entered(main'[v][i].reg)
    <3>1. CASE v # u
      BY <2>2, <2>4, <3>1 DEF Owed, QueuesOK
    <3>2. CASE v = u
      <4>1. main'[v] = Append(main[u], done)
        BY <2>2, <3>2 DEF QueuesOK
      <4>2. CASE i \in 1..Len(main[u])
        BY <1>1, <4>1, <4>2 DEF Owed
      <4>3. CASE i = Len(main[u]) + 1
        BY <1>1, <2>1, <4>1, <4>3
      <4> QED BY <1>1, <2>1, <4>1, <4>2, <4>3
    <3> QED BY <3>1, <3>2
  <2> QED BY <1>2, <1>3, <2>3, <2>4 DEF QueuesOK, Owed, Entered
<1> QED BY <1>4, <1>5

\* The queues start empty ...
LEMMA InitQueues == Init => QueuesOK /\ Owed
BY DEF Init, FirestoreInit, QueuesOK, Owed

\* ... and keep to the registrations that signed their account in.
LEMMA QueueStep == IInv /\ [Next]_vars => QueuesOK' /\ Owed'
<1> SUFFICES ASSUME IInv, [Next]_vars PROVE QueuesOK' /\ Owed'
  OBVIOUS
<1> DEFINE Same == UNCHANGED regs /\ UNCHANGED <<pending, main>>
                   /\ (UNCHANGED sent \/ sent' = [u \in User |-> 0])
<1>0. QueuesOK /\ Owed /\ regs \in Seq(Registration)
  BY DEF IInv, TypeOK, CallsOK
<1>1. CASE Same
  BY <1>0, <1>1, QueuesStay DEF Entered
<1>2. CASE \/ LogOut \/ CloseAlert \/ AuthComplete \/ OpenRegister \/ Back \/ TapSignUpIncomplete
  <2>1. Same
    BY <1>2 DEF LogOut, CloseAlert, AuthComplete, OpenRegister, Back, TapSignUpIncomplete,
                SignIn, ChangeCredential, firestoreVars
  <2> QED BY <1>1, <2>1
<1>3. CASE \E a \in User : FetchAnswered(a) \/ FetchFails(a) \/ TapLogIn(a)
  <2>1. Same
    BY <1>3 DEF FetchAnswered, FetchFails, TapLogIn, firestoreVars
  <2> QED BY <1>1, <2>1
<1>4. CASE \E call \in logins : LogInSucceeds(call) \/ LogInFails(call)
  <2>1. Same
    BY <1>4 DEF LogInSucceeds, LogInFails, SignIn, ChangeCredential, firestoreVars
  <2> QED BY <1>1, <2>1
<1>5. CASE Refuse
  <2>1. auth \in User /\ Reject(auth) /\ UNCHANGED regs
    BY <1>5 DEF Refuse, IInv, TypeOK, AccountsOK
  <2> DEFINE then == Head(pending[auth]).then
  <2>2. pending[auth] \in Seq(Write) /\ pending[auth] # << >> /\ then \in {Nothing} \cup Handler
    <3>1. pending[auth] \in Seq(Write) /\ pending[auth] # << >>
      BY <1>0, <2>1 DEF QueuesOK, Reject
    <3>2. Head(pending[auth]) \in Write
      BY <3>1, TailType
    <3> QED BY <3>1, <3>2 DEF Write
  <2>3. then # Nothing => /\ [then EXCEPT !.do = "refused"] \in Handler
                          /\ [then EXCEPT !.do = "refused"].reg = then.reg
    BY <2>2 DEF Handler
  <2>4. /\ pending' = [pending EXCEPT ![auth] = Tail(@)]
        /\ main' = IF then = Nothing THEN main
                   ELSE [main EXCEPT ![auth] = Append(@, [then EXCEPT !.do = "refused"])]
        /\ sent' = sent /\ sent[auth] = 0
    BY <2>1 DEF Reject
  <2>5. sent' \in [User -> Nat] /\ \A v \in User : sent'[v] <= Len(pending'[v])
    BY <1>0, <2>1, <2>2, <2>4 DEF QueuesOK
  <2> HIDE DEF then
  <2> QED BY <1>0, <2>1, <2>2, <2>3, <2>4, <2>5, Answered DEF then
<1>6. CASE Restart
  <2>1. /\ pending' = [u \in User |-> [i \in DOMAIN pending[u] |->
                                         [pending[u][i] EXCEPT !.then = Nothing]]]
        /\ main' = [u \in User |-> << >>]
        /\ sent' = [u \in User |-> 0]
    BY <1>6 DEF Restart, KeepQueues, ChangeCredential
  <2>2. ASSUME NEW u \in User
        PROVE  pending'[u] \in Seq(Write) /\ \A i \in 1..Len(pending'[u]) : pending'[u][i].then = Nothing
    <3> DEFINE Kept(i) == [pending[u][i] EXCEPT !.then = Nothing]
    <3>1. pending[u] \in Seq(Write) /\ DOMAIN pending[u] = 1..Len(pending[u])
      BY <1>0 DEF QueuesOK
    <3>2. \A i \in DOMAIN pending[u] : Kept(i) \in Write /\ Kept(i).then = Nothing
      <4> TAKE i \in DOMAIN pending[u]
      <4>1. pending[u][i] \in Write
        BY <3>1
      <4> QED BY <4>1 DEF Write
    <3>3. pending'[u] = [i \in DOMAIN pending[u] |-> Kept(i)]
      BY <2>1
    <3> HIDE DEF Kept
    <3> QED BY <3>1, <3>2, <3>3
  <2>3. pending' \in [User -> Seq(Write)]
    BY <2>1, <2>2
  <2>4. \A u \in User : sent'[u] <= Len(pending'[u])
    BY <2>1, <2>2
  <2> QED BY <2>1, <2>2, <2>3, <2>4 DEF QueuesOK, Owed
<1>7. ASSUME NEW a \in User, TapSignUp(a) PROVE QueuesOK' /\ Owed'
  <2>1. UNCHANGED <<pending, main, sent>>
    BY <1>7 DEF TapSignUp, firestoreVars
  <2>2. /\ DOMAIN regs \subseteq DOMAIN regs'
        /\ \A n \in DOMAIN regs : regs'[n] = regs[n]
    BY <1>0, <1>7 DEF TapSignUp
  <2> QED BY <1>0, <2>1, <2>2, QueuesStay DEF Entered
<1>8. ASSUME NEW u \in User, Registered(u) PROVE QueuesOK' /\ Owed'
  <2>1. /\ main[u] \in Seq(Handler) /\ main[u] # << >>
        /\ main' = [main EXCEPT ![u] = Tail(@)]
        /\ UNCHANGED <<pending, sent>>
    BY <1>0, <1>8 DEF Registered, Due, QueuesOK
  <2>2. Entered(Head(main[u]).reg)
    BY <1>0, <2>1, TailType DEF Owed
  <2>3. \A n : Entered(n) => Entered(n)'
    BY <1>0, <1>8, <2>2, GoToType DEF Registered, Entered
  <2>4. \A v \in User : /\ main'[v] \in Seq(Handler)
                         /\ \A i \in 1..Len(main'[v]) : Entered(main'[v][i].reg)
    <3> TAKE v \in User
    <3>1. CASE v = u
      BY <1>0, <2>1, <3>1, TailType DEF Owed, QueuesOK
    <3>2. CASE v # u
      BY <1>0, <2>1, <3>2 DEF Owed, QueuesOK
    <3> QED BY <3>1, <3>2
  <2>5. main' \in [User -> Seq(Handler)]
    BY <1>0, <2>1, <2>4 DEF QueuesOK
  <2>6. QueuesOK'
    BY <1>0, <2>1, <2>5 DEF QueuesOK
  <2> QED BY <1>0, <2>1, <2>3, <2>4, <2>6 DEF Owed, Entered
<1>9. ASSUME NEW u \in User, Client(u) PROVE QueuesOK' /\ Owed'
  <2>1. UNCHANGED regs
    BY <1>9 DEF Client, sessionVars
  <2>2. CASE Transmit(u)
    <3>1. UNCHANGED <<pending, main>> /\ sent[u] < Len(pending[u]) /\ sent' = [sent EXCEPT ![u] = @ + 1]
      BY <2>2 DEF Transmit
    <3>2. sent' \in [User -> Nat] /\ \A v \in User : sent'[v] <= Len(pending[v])
      BY <1>0, <3>1 DEF QueuesOK
    <3> QED BY <1>0, <2>1, <3>1, <3>2 DEF QueuesOK, Owed, Entered
  <2>3. CASE Acknowledge(u)
    <3> DEFINE then == Head(pending[u]).then
    <3>1. /\ sent[u] > 0
          /\ pending' = [pending EXCEPT ![u] = Tail(@)]
          /\ sent' = [sent EXCEPT ![u] = @ - 1]
          /\ main' = IF then = Nothing THEN main ELSE [main EXCEPT ![u] = Append(@, then)]
      BY <2>3 DEF Acknowledge
    <3>2. pending[u] \in Seq(Write) /\ pending[u] # << >>
      BY <1>0, <3>1 DEF QueuesOK
    <3>3. then # Nothing => then \in Handler
      <4>1. Head(pending[u]) \in Write
        BY <3>2, TailType
      <4> QED BY <4>1 DEF Write
    <3>4. Len(Tail(pending[u])) = Len(pending[u]) - 1
      BY <3>2, TailType
    <3>5. sent' \in [User -> Nat] /\ \A v \in User : sent'[v] <= Len(pending'[v])
      <4>1. sent' \in [User -> Nat]
        BY <1>0, <3>1 DEF QueuesOK
      <4>2. ASSUME NEW v \in User PROVE sent'[v] <= Len(pending'[v])
        <5>1. CASE v = u
          BY <1>0, <3>1, <3>2, <3>4, <5>1 DEF QueuesOK
        <5>2. CASE v # u
          BY <1>0, <3>1, <5>2 DEF QueuesOK
        <5> QED BY <5>1, <5>2
      <4> QED BY <4>1, <4>2
    <3> HIDE DEF then
    <3> QED BY <1>0, <2>1, <3>1, <3>2, <3>3, <3>5, Answered DEF then
  <2>4. CASE Reconnect(u)
    <3>1. UNCHANGED <<pending, main>> /\ sent' = [sent EXCEPT ![u] = 0]
      BY <2>4 DEF Reconnect
    <3> QED BY <1>0, <2>1, <3>1 DEF QueuesOK, Owed, Entered
  <2> QED BY <1>9, <2>2, <2>3, <2>4 DEF Client
<1>10. ASSUME NEW n \in 1..MaxRegisters, ImagesStored(n) \/ AccountMade(n) \/ RegistrationCut(n)
       PROVE  QueuesOK' /\ Owed'
  <2>1. /\ UNCHANGED <<pending, main, sent>>
        /\ n \in DOMAIN regs /\ ~Entered(n)
        /\ \E step \in {"creating", "created", "cut"} : GoTo(n, step)
    BY <1>10 DEF ImagesStored, AccountMade, RegistrationCut, Stands, Entered, firestoreVars
  <2>2. \A m : Entered(m) => Entered(m)'
    BY <1>0, <2>1, GoToType DEF Entered
  <2> QED BY <1>0, <2>1, <2>2, QueuesStay
<1>11. ASSUME NEW n \in 1..MaxRegisters, AccountCreated(n) PROVE QueuesOK' /\ Owed'
  <2> DEFINE a == regs[n].account
             w == SetData(UserDoc(a), Profile, [do |-> "registered", reg |-> n])
  <2>1. /\ n \in DOMAIN regs /\ regs[n].step = "created" /\ GoTo(n, "document")
        /\ pending' = [pending EXCEPT ![a] = @ \o << w >>]
        /\ sent' = [u \in User |-> 0] /\ UNCHANGED main
    BY <1>11 DEF AccountCreated, Stands, Issue, SignIn, ChangeCredential
  <2>2. a \in User
    <3>1. regs[n] \in Registration
      BY <1>0, <2>1
    <3> QED BY <3>1 DEF Registration
  <2>3. w \in Write /\ w.then.reg = n
    BY <2>2 DEF SetData, Write, Handler, Docs
  <2>4. Entered(n)' /\ \A m : Entered(m) => Entered(m)'
    BY <1>0, <2>1, GoToType DEF Entered
  <2> HIDE DEF a, w
  <2>5. \A v \in User : /\ pending'[v] \in Seq(Write)
                         /\ \A i \in 1..Len(pending'[v]) :
                               \/ pending'[v][i] = w
                               \/ i \in 1..Len(pending[v]) /\ pending'[v][i] = pending[v][i]
    <3> TAKE v \in User
    <3>1. pending[v] \in Seq(Write)
      BY <1>0 DEF QueuesOK
    <3>2. CASE v = a
      <4>1. pending'[v] = pending[v] \o << w >>
        BY <1>0, <2>1, <3>2 DEF QueuesOK
      <4> QED BY <2>3, <3>1, <4>1
    <3>3. CASE v # a
      <4>1. pending'[v] = pending[v]
        BY <1>0, <2>1, <3>3 DEF QueuesOK
      <4> QED BY <3>1, <4>1
    <3> QED BY <3>2, <3>3
  <2>6. pending' \in [User -> Seq(Write)]
    BY <1>0, <2>1, <2>5 DEF QueuesOK
  <2>7. QueuesOK'
    BY <1>0, <2>1, <2>5, <2>6 DEF QueuesOK
  <2>8. \A m : Entered(m) => m \in DOMAIN regs' /\ regs'[m].step \in {"document", "done"}
    BY <2>4 DEF Entered
  <2>9. n \in DOMAIN regs' /\ regs'[n].step \in {"document", "done"}
    BY <2>4 DEF Entered
  <2>10. Owed'
    <3>1. ASSUME NEW v \in User, NEW i \in 1..Len(main[v])
          PROVE  LET m == main[v][i].reg IN m \in DOMAIN regs' /\ regs'[m].step \in {"document", "done"}
      BY <1>0, <2>8, <3>1 DEF Owed
    <3>2. ASSUME NEW v \in User, NEW i \in 1..Len(pending'[v]), pending'[v][i].then # Nothing
          PROVE  LET m == pending'[v][i].then.reg
                 IN  m \in DOMAIN regs' /\ regs'[m].step \in {"document", "done"}
      <4>1. CASE pending'[v][i] = w
        BY <2>3, <2>9, <4>1
      <4>2. CASE i \in 1..Len(pending[v]) /\ pending'[v][i] = pending[v][i]
        BY <1>0, <2>8, <3>2, <4>2 DEF Owed
      <4> QED BY <2>5, <4>1, <4>2
    <3> QED BY <2>1, <3>1, <3>2 DEF Owed, Entered
  <2> QED BY <2>7, <2>10
<1>12. CASE UNCHANGED vars
  BY <1>1, <1>12 DEF vars, sessionVars, firestoreVars
<1> QED
  BY <1>2, <1>3, <1>4, <1>5, <1>6, <1>7, <1>8, <1>9, <1>10, <1>11, <1>12 DEF Next

-----------------------------------------------------------------------------
(* The tabs and the account                                                *)

\* The device starts at the tabs with its account's fetch, or at the login ...
LEMMA InitFollow == Init => SignedIn /\ Follow
BY SessionAssumption DEF Init, SignedIn, Follow

\* ... and comes back to the tabs with a fetch for whoever is signed in.
LEMMA FollowStep == IInv /\ [Next]_vars => SignedIn' /\ Follow'
<1> SUFFICES ASSUME IInv, [Next]_vars PROVE SignedIn' /\ Follow'
  OBVIOUS
<1> USE SessionAssumption DEF screenVars, tabVars, boundVars
<1>0. /\ AccountsOK /\ ScreensOK /\ Opened /\ SignedIn /\ Follow
      /\ regs \in Seq(Registration)
      /\ \A n \in DOMAIN regs : regs[n] \in Registration
  BY DEF IInv, TypeOK, CallsOK
<1>1. \A n \in DOMAIN regs : regs[n].view \in 0..MaxViews /\ regs[n].account \in User
  BY <1>0 DEF Registration
<1>2. CASE LogOut
  <2>1. at' = "login" /\ at = "root" /\ UNCHANGED <<alert, regs>>
    BY <1>2 DEF LogOut
  <2> QED BY <1>0, <2>1 DEF SignedIn, Follow, ScreensOK
<1>3. CASE CloseAlert
  BY <1>0, <1>3 DEF CloseAlert, SignedIn, Follow, ScreensOK, Entered
<1>4. CASE AuthComplete
  <2>1. auth \in User /\ auth' = auth /\ alert' = "none" /\ at' = "root" /\ UNCHANGED <<shown, regs>>
    BY <1>0, <1>4 DEF AuthComplete, SignedIn, AccountsOK
  <2>2. fetches' = [fetches EXCEPT ![auth] = @ + 1] /\ astray' = Fetching
    BY <1>4, <2>1 DEF AuthComplete, StartFetch
  <2>3. ~Fetching => \A a \in User : fetches[a] = 0
    BY <1>0 DEF Fetching, AccountsOK
  <2>4. ~astray' => \A a \in User : fetches'[a] = IF a = auth THEN 1 ELSE 0
    BY <1>0, <2>2, <2>3 DEF AccountsOK
  <2> QED BY <2>1, <2>4 DEF SignedIn, Follow
<1>5. CASE OpenRegister
  <2>1. /\ at = "login" /\ at' = "register" /\ register' = views + 1
        /\ UNCHANGED <<auth, alert, regs>>
    BY <1>5 DEF OpenRegister
  <2>2. \A n \in DOMAIN regs : regs[n].view # register'
    BY <1>0, <1>1, <2>1 DEF Opened, ScreensOK
  <2> QED BY <1>0, <2>1, <2>2 DEF SignedIn, Follow
<1>6. CASE Back
  BY <1>0, <1>6 DEF Back, SignedIn, Follow
<1>7. CASE TapSignUpIncomplete \/ Refuse
  <2>1. UNCHANGED <<auth, tabVars, screenVars, regs>>
    BY <1>7 DEF TapSignUpIncomplete, Refuse
  <2> QED BY <1>0, <2>1 DEF SignedIn, Follow, Entered
<1>8. CASE Restart
  <2>1. /\ auth' = auth /\ alert' = "none" /\ at' \in {"root", "login"}
        /\ at' = "root" => auth # NoOne
        /\ fetches' = [u \in User |-> IF u = auth THEN 1 ELSE 0]
    BY <1>8 DEF Restart, Launch
  <2> QED BY <2>1 DEF SignedIn, Follow
<1>9. ASSUME NEW a \in User, FetchAnswered(a) PROVE SignedIn' /\ Follow'
  <2>1. UNCHANGED <<auth, screenVars, regs>>
    BY <1>9 DEF FetchAnswered
  <2>2. SignedIn'
    BY <1>0, <2>1 DEF SignedIn, Entered
  <2>3. /\ fetches[a] > 0
        /\ fetches' = [fetches EXCEPT ![a] = @ - 1]
        /\ (shown' = a /\ UNCHANGED astray) \/ astray'
    BY <1>9 DEF FetchAnswered
  <2>4. CASE at = "root" /\ ~astray'
    <3>1. a = auth /\ \A b \in User : fetches[b] = IF b = auth THEN 1 ELSE 0
      BY <1>0, <2>3, <2>4 DEF Follow
    <3>2. shown' = auth /\ \A b \in User : fetches'[b] = 0
      BY <1>0, <2>3, <2>4, <3>1 DEF AccountsOK
    <3> QED BY <1>0, <2>1, <2>2, <2>4, <3>2 DEF Follow
  <2>5. CASE ~(at = "root" /\ ~astray')
    BY <1>0, <2>1, <2>2, <2>5 DEF Follow
  <2> QED BY <2>4, <2>5
<1>10. ASSUME NEW a \in User, FetchFails(a) PROVE SignedIn' /\ Follow'
  BY <1>0, <1>10 DEF FetchFails, SignedIn, Follow, Entered
<1>11. ASSUME NEW a \in User, TapLogIn(a) PROVE SignedIn' /\ Follow'
  BY <1>0, <1>11 DEF TapLogIn, SignedIn, Follow, Entered
<1>12. ASSUME NEW a \in User, TapSignUp(a) PROVE SignedIn' /\ Follow'
  <2> DEFINE tap == [view |-> register, account |-> a, step |-> "images"]
  <2>1. /\ UNCHANGED <<auth, tabVars, screenVars>>
        /\ at # "root" /\ alert = "none"
        /\ regs' = Append(regs, tap)
    BY <1>12 DEF TapSignUp
  <2>2. tap.step = "images"
    OBVIOUS
  <2> HIDE DEF tap
  <2>3. \A n \in DOMAIN regs' : regs'[n] = tap \/ (n \in DOMAIN regs /\ regs'[n] = regs[n])
    BY <1>0, <2>1
  <2> QED BY <1>0, <2>1, <2>2, <2>3 DEF SignedIn, Follow, Entered
<1>13. ASSUME NEW u \in User, Registered(u) PROVE SignedIn' /\ Follow'
  <2>1. PICK n \in DOMAIN regs :
            /\ Entered(n) /\ GoTo(n, "done")
            /\ \/ UNCHANGED alert \/ alert' = "fail"
               \/ alert' = "success" /\ at = "register" /\ regs[n].view = register
    <3>1. main[u] \in Seq(Handler) /\ main[u] # << >>
      BY <1>13 DEF Registered, Due, IInv, QueuesOK
    <3>2. Entered(Head(main[u]).reg)
      BY <3>1, TailType DEF IInv, Owed
    <3> QED BY <1>13, <3>2 DEF Registered, Present, Entered
  <2>2. UNCHANGED <<auth, shown, fetches, astray, at, register>>
    BY <1>13 DEF Registered
  <2>3. alert' = "success" => auth # NoOne
    BY <1>0, <2>1 DEF SignedIn
  <2>4. /\ DOMAIN regs' = DOMAIN regs
        /\ \A m \in DOMAIN regs : regs'[m].view = regs[m].view /\ (Entered(m)' => Entered(m))
    BY <1>0, <2>1, GoToType DEF Entered
  <2> QED BY <1>0, <2>2, <2>3, <2>4 DEF SignedIn, Follow
<1>14. ASSUME NEW u \in User, Client(u) PROVE SignedIn' /\ Follow'
  BY <1>0, <1>14 DEF Client, sessionVars, SignedIn, Follow, Entered
<1>15. ASSUME NEW call \in logins, LogInSucceeds(call) PROVE SignedIn' /\ Follow'
  <2>1. /\ auth' = call.account /\ call.account \in accounts
        /\ astray' = (astray \/ at = "root") /\ UNCHANGED <<at, register, regs>>
    BY <1>15 DEF LogInSucceeds, SignIn
  <2>2. auth' # NoOne
    BY <1>0, <2>1 DEF AccountsOK
  <2> QED BY <1>0, <2>1, <2>2 DEF SignedIn, Follow
<1>16. ASSUME NEW call \in logins, LogInFails(call) PROVE SignedIn' /\ Follow'
  BY <1>0, <1>16 DEF LogInFails, Present, SignedIn, Follow, Entered
<1>17. ASSUME NEW n \in 1..MaxRegisters, ImagesStored(n) \/ AccountMade(n) \/ RegistrationCut(n)
       PROVE  SignedIn' /\ Follow'
  <2>1. /\ UNCHANGED <<auth, tabVars, screenVars>>
        /\ n \in DOMAIN regs /\ \E step \in {"creating", "created", "cut"} : GoTo(n, step)
    BY <1>17 DEF ImagesStored, AccountMade, RegistrationCut, Stands
  <2>2. /\ DOMAIN regs' = DOMAIN regs
        /\ \A m \in DOMAIN regs : regs'[m].view = regs[m].view /\ (Entered(m)' => Entered(m))
    BY <1>0, <2>1, GoToType DEF Entered
  <2> QED BY <1>0, <2>1, <2>2 DEF SignedIn, Follow
<1>18. ASSUME NEW n \in 1..MaxRegisters, AccountCreated(n) PROVE SignedIn' /\ Follow'
  <2>1. /\ n \in DOMAIN regs /\ auth' = regs[n].account
        /\ astray' = (astray \/ at = "root") /\ UNCHANGED at
    BY <1>18 DEF AccountCreated, Stands, SignIn
  <2>2. auth' # NoOne
    BY <1>1, <2>1
  <2> QED BY <2>1, <2>2 DEF SignedIn, Follow
<1>19. CASE UNCHANGED vars
  BY <1>0, <1>19 DEF vars, sessionVars, SignedIn, Follow, Entered
<1> QED
  BY <1>2, <1>3, <1>4, <1>5, <1>6, <1>7, <1>8, <1>9, <1>10, <1>11, <1>12, <1>13, <1>14,
     <1>15, <1>16, <1>17, <1>18, <1>19 DEF Next

-----------------------------------------------------------------------------
(* The indicator over a login                                              *)

\* No indicator is on a login screen that is not yet open, and one on the last
\* is there for a call.
Explained ==
    /\ \A k \in 1..MaxViews : loader = <<"login", k>> => k <= views
    /\ loader = LoginView => \E call \in logins : call.view = login

\* Every step keeps that: whatever answers a call hides the indicator, and a
\* new login screen has a new number.
LEMMA ExplainedStep == TypeOK /\ TypeOK' /\ Explained /\ [Next]_vars => Explained'
<1> SUFFICES ASSUME TypeOK, TypeOK', Explained, [Next]_vars PROVE Explained'
  OBVIOUS
<1> USE SessionAssumption, AbsentAssumption DEF screenVars, tabVars, boundVars
<1>0. ScreensOK /\ ScreensOK' /\ logins \subseteq Call
  BY DEF TypeOK, CallsOK
<1>1. ASSUME UNCHANGED <<loader, login, logins>>, views' >= views PROVE Explained'
  BY <1>0, <1>1 DEF Explained, LoginView, ScreensOK
<1>2. ASSUME HideLoader PROVE Explained'
  BY <1>0, <1>2 DEF Explained, HideLoader, LoginView, ScreensOK
<1>3. CASE CloseAlert \/ AuthComplete \/ OpenRegister \/ Back \/ Refuse
  <2>1. UNCHANGED <<loader, login, logins>> /\ views' >= views
    BY <1>0, <1>3 DEF CloseAlert, AuthComplete, OpenRegister, Back, Refuse, ScreensOK
  <2> QED BY <1>1, <2>1
<1>4. CASE \E a \in User : FetchAnswered(a) \/ FetchFails(a) \/ Client(a)
  <2>1. UNCHANGED <<loader, login, logins>> /\ views' >= views
    BY <1>0, <1>4 DEF FetchAnswered, FetchFails, Client, sessionVars, ScreensOK
  <2> QED BY <1>1, <2>1
<1>5. CASE \E n \in 1..MaxRegisters : \/ ImagesStored(n) \/ AccountMade(n) \/ AccountCreated(n)
                                      \/ RegistrationCut(n)
  <2>1. UNCHANGED <<loader, login, logins>> /\ views' >= views
    BY <1>0, <1>5 DEF ImagesStored, AccountMade, AccountCreated, RegistrationCut, ScreensOK
  <2> QED BY <1>1, <2>1
<1>6. CASE \/ \E a \in User : Registered(a)
           \/ \E call \in logins : LogInSucceeds(call) \/ LogInFails(call)
  BY <1>2, <1>6 DEF Registered, LogInSucceeds, LogInFails
<1>7. CASE Restart
  <2>1. HideLoader
    BY <1>7 DEF Restart, Launch, HideLoader
  <2> QED BY <1>2, <2>1
<1>8. CASE LogOut
  <2>1. login' = views + 1 /\ views' = views + 1 /\ UNCHANGED <<loader, logins>>
    BY <1>8 DEF LogOut
  <2> QED BY <1>0, <2>1 DEF Explained, LoginView, ScreensOK
<1>9. ASSUME NEW a \in User, TapLogIn(a) PROVE Explained'
  <2>1. UNCHANGED <<login, views>> /\ logins' = logins \cup {[view |-> login, account |-> a]}
    BY <1>9 DEF TapLogIn
  <2>2. loader' = loader \/ loader' = LoginView
    BY <1>9 DEF TapLogIn, ShowLoader
  <2>3. login <= views
    BY <1>0 DEF ScreensOK
  <2> DEFINE call == [view |-> login, account |-> a]
  <2>4. call \in logins' /\ call.view = login'
    BY <2>1
  <2> HIDE DEF call
  <2>5. \A k \in 1..MaxViews : loader' = <<"login", k>> => k <= views'
    BY <2>1, <2>2, <2>3 DEF Explained, LoginView
  <2> QED BY <2>4, <2>5 DEF Explained
<1>10. CASE TapSignUpIncomplete \/ \E a \in User : TapSignUp(a)
  <2>1. UNCHANGED <<login, views, logins>> /\ (loader' = loader \/ loader' = RegisterView)
    BY <1>10 DEF TapSignUpIncomplete, TapSignUp, ShowLoader
  <2> QED BY <2>1 DEF Explained, LoginView, RegisterView
<1>11. CASE UNCHANGED vars
  <2>1. UNCHANGED <<loader, login, logins>> /\ views' >= views
    BY <1>0, <1>11 DEF vars, sessionVars, ScreensOK
  <2> QED BY <1>1, <2>1
<1> QED BY <1>3, <1>4, <1>5, <1>6, <1>7, <1>8, <1>9, <1>10, <1>11 DEF Next

-----------------------------------------------------------------------------
(* The documents of the accounts                                           *)

\* Documents and queues hold profiles, each queue its own account's; what a
\* stream has delivered is at the server; and an account that exists has its
\* document there or queued, or is about to.
Sound(data) == data \in [Docs -> {NoDoc, Profile}]
Own(u) == \A i \in 1..Len(pending[u]) : pending[u][i].doc = UserDoc(u)
Coming(a) ==
    \/ db[UserDoc(a)] = Profile
    \/ pending[a] # << >>
    \/ \E n \in DOMAIN regs : Stands(n, "created") /\ regs[n].account = a
Documented ==
    /\ Sound(db)
    /\ \A u \in User : Own(u) /\ (sent[u] > 0 => db[UserDoc(u)] = Profile)
    /\ \A a \in accounts \ torn : Coming(a)

\* A registration's write makes its document a profile and leaves the others.
LEMMA ApplyProfile ==
    ASSUME NEW data, Sound(data), NEW w \in Write
    PROVE  /\ Sound(Apply(data, w))
           /\ Apply(data, w)[w.doc] = Profile
           /\ \A d \in Docs : data[d] = Profile => Apply(data, w)[d] = Profile
<1>1. w.op = "set" /\ w.doc \in Docs /\ w.val = Profile
  BY DEF Write
<1>2. AfterWrite(data[w.doc], w) = Profile
  BY <1>1 DEF AfterWrite
<1>3. Apply(data, w) = [data EXCEPT ![w.doc] = Profile]
  BY <1>2 DEF Apply
<1> QED BY <1>1, <1>3 DEF Sound

\* So a device sees the document of the account that is stored or queued.
LEMMA ViewProfile ==
    ASSUME QueuesOK, Documented, NEW a \in User, db[UserDoc(a)] = Profile \/ pending[a] # << >>
    PROVE  View(a)[UserDoc(a)] = Profile
<1> DEFINE queue == pending[a]
<1>0. /\ queue \in Seq(Write) /\ Len(queue) \in Nat /\ Sound(db)
      /\ \A i \in 1..Len(queue) : queue[i] \in Write /\ queue[i].doc = UserDoc(a)
  BY DEF QueuesOK, Documented, Own
<1> HIDE DEF queue
<1>1. PICK after :
         /\ after[0] = db
         /\ \A n \in 1..Len(queue) : after[n] = Apply(after[n - 1], queue[n])
         /\ Overlay(db, queue) = after[Len(queue)]
  BY <1>0, OverlaySteps
<1> DEFINE Good(n) == Sound(after[n]) /\ (n > 0 => after[n][UserDoc(a)] = Profile)
           Bad == {n \in 0..Len(queue) : ~Good(n)}
<1>2. Bad = {}
  <2> SUFFICES ASSUME Bad # {} PROVE FALSE
    OBVIOUS
  <2>1. PICK m \in Bad : \A k \in Bad : m <= k
    <3>1. Bad \in SUBSET Nat
      OBVIOUS
    <3> HIDE DEF Bad
    <3> QED BY <3>1, Least
  <2>2. m \in 1..Len(queue)
    BY <1>0, <1>1, <2>1
  <2>3. m - 1 \in 0..Len(queue) /\ m - 1 < m
    BY <1>0, <2>2
  <2>4. Good(m - 1)
    <3> HIDE DEF Good
    <3> QED BY <2>1, <2>2, <2>3
  <2>5. after[m] = Apply(after[m - 1], queue[m]) /\ queue[m] \in Write /\ queue[m].doc = UserDoc(a)
    BY <1>0, <1>1, <2>2
  <2>6. Good(m)
    BY <2>4, <2>5, ApplyProfile
  <2> QED BY <2>1, <2>6
<1>3. Good(Len(queue))
  <2>1. Len(queue) \in 0..Len(queue)
    BY <1>0
  <2> HIDE DEF Good
  <2> QED BY <1>2, <2>1
<1>4. CASE Len(queue) > 0
  BY <1>1, <1>3, <1>4 DEF View, queue
<1>5. CASE Len(queue) = 0
  BY <1>0, <1>1, <1>5 DEF View, queue
<1> QED BY <1>0, <1>4, <1>5

\* The queues, the streams and the documents stay, and so do the accounts and
\* the registrations that are about to write, except for those that are torn.
LEMMA DocumentsStay ==
    ASSUME QueuesOK, Documented, UNCHANGED <<db, pending>>,
           UNCHANGED sent \/ sent' = [u \in User |-> 0],
           accounts' = accounts, torn \subseteq torn',
           \A n \in DOMAIN regs : Stands(n, "created") /\ regs[n].account \notin torn' =>
               n \in DOMAIN regs' /\ Stands(n, "created")' /\ regs'[n].account = regs[n].account
    PROVE  Documented'
<1>1. \A u \in User : sent'[u] > 0 => db[UserDoc(u)] = Profile
  BY DEF Documented
<1>2. ASSUME NEW a \in accounts' \ torn' PROVE Coming(a)'
  <2>1. Coming(a)
    BY DEF Documented
  <2> QED BY <2>1 DEF Coming
<1> QED BY <1>1, <1>2 DEF Documented, Own

\* At first the known accounts are stored.
LEMMA InitDocumented == Init => Documented
<1> SUFFICES ASSUME Init PROVE Documented
  OBVIOUS
<1> DEFINE At(d) == IF \E a \in Known : d = UserDoc(a) THEN Profile ELSE NoDoc
<1>1. db = [d \in Docs |-> At(d)]
  BY DEF Init, FirestoreInit
<1>2. \A d \in Docs : At(d) \in {NoDoc, Profile}
  OBVIOUS
<1>3. \A a \in Known : UserDoc(a) \in Docs /\ At(UserDoc(a)) = Profile
  BY SessionAssumption DEF Docs
<1> HIDE DEF At
<1>4. Sound(db) /\ \A a \in Known : db[UserDoc(a)] = Profile
  BY <1>1, <1>2, <1>3 DEF Sound
<1>5. \A u \in User : pending[u] = << >> /\ sent[u] = 0
  BY DEF Init, FirestoreInit
<1>6. \A u \in User : Own(u)
  BY <1>5 DEF Own
<1> QED BY <1>4, <1>5, <1>6 DEF Init, Documented, Coming

\* The client: a write that is delivered is stored, one that is acknowledged
\* was, and one that is refused tears its account.
LEMMA ClientDocumented ==
    ASSUME IInv, Documented, (\E u \in User : Client(u)) \/ Refuse
    PROVE  Documented'
<1>0. QueuesOK /\ auth \in User \cup {NoOne} /\ accounts \subseteq User
  BY DEF IInv, TypeOK, AccountsOK
<1>1. PICK u \in User :
         /\ UNCHANGED <<accounts, regs>>
         /\ \/ Transmit(u) /\ UNCHANGED torn
            \/ Acknowledge(u) /\ UNCHANGED torn
            \/ Reconnect(u) /\ UNCHANGED torn
            \/ Reject(u) /\ torn' = torn \cup {u}
  BY <1>0 DEF Client, Refuse, sessionVars
<1>2. pending[u] \in Seq(Write) /\ sent[u] \in Nat /\ sent[u] <= Len(pending[u])
  BY <1>0 DEF QueuesOK
<1>3. CASE Transmit(u) /\ UNCHANGED torn
  <2> DEFINE w == pending[u][sent[u] + 1]
  <2>1. w \in Write /\ w.doc = UserDoc(u)
    BY <1>2, <1>3 DEF Transmit, Documented, Own
  <2>2. db' = Apply(db, w) /\ UNCHANGED pending /\ \A v \in User \ {u} : sent'[v] = sent[v]
    BY <1>0, <1>3 DEF Transmit, QueuesOK
  <2> HIDE DEF w
  <2>3. /\ Sound(db') /\ db'[UserDoc(u)] = Profile
        /\ \A v \in User : db[UserDoc(v)] = Profile => db'[UserDoc(v)] = Profile
    BY <2>1, <2>2, ApplyProfile DEF Documented, Docs
  <2>4. \A a \in accounts \ torn : Coming(a)'
    BY <1>0, <1>1, <2>2, <2>3 DEF Documented, Coming, Stands
  <2> QED BY <1>1, <1>3, <2>2, <2>3, <2>4 DEF Documented, Own
<1>4. CASE (Acknowledge(u) /\ UNCHANGED torn) \/ (Reject(u) /\ torn' = torn \cup {u})
  <2>1. /\ pending[u] # << >> /\ pending' = [pending EXCEPT ![u] = Tail(@)] /\ db' = db
        /\ sent[u] > 0 \/ u \in torn'
        /\ torn \subseteq torn'
        /\ sent' = sent \/ sent' = [sent EXCEPT ![u] = @ - 1]
    <3>1. CASE Acknowledge(u) /\ UNCHANGED torn
      BY <1>2, <3>1 DEF Acknowledge
    <3>2. CASE Reject(u) /\ torn' = torn \cup {u}
      BY <3>2 DEF Reject
    <3> QED BY <1>4, <3>1, <3>2
  <2>0. \A v \in User : sent'[v] > 0 => sent[v] > 0
    <3> SUFFICES ASSUME NEW v \in User, sent'[v] > 0 PROVE sent[v] > 0
      OBVIOUS
    <3>1. sent \in [User -> Nat]
      BY <1>0 DEF QueuesOK
    <3>2. sent'[v] = sent[v] \/ sent'[v] = sent[v] - 1
      BY <2>1, <3>1
    <3> QED BY <3>1, <3>2
  <2>2. \A v \in User : pending'[v] = IF v = u THEN Tail(pending[u]) ELSE pending[v]
    BY <1>0, <2>1 DEF QueuesOK
  <2>3. \A v \in User : Own(v)'
    BY <1>2, <2>1, <2>2, TailType DEF Documented, Own
  <2>4. ASSUME NEW a \in accounts' \ torn' PROVE Coming(a)'
    <3>1. Coming(a) /\ a \in User
      BY <1>0, <1>1, <2>1 DEF Documented
    <3>2. CASE a = u
      BY <2>1, <2>4, <3>2 DEF Documented, Coming
    <3>3. CASE a # u
      BY <1>1, <2>1, <2>2, <3>1, <3>3 DEF Coming, Stands
    <3> QED BY <3>2, <3>3
  <2> QED BY <2>0, <2>1, <2>3, <2>4 DEF Documented
<1>5. CASE Reconnect(u) /\ UNCHANGED torn
  <2>1. UNCHANGED <<db, pending>> /\ \A v \in User : sent'[v] > 0 => sent[v] > 0
    BY <1>0, <1>5 DEF Reconnect, QueuesOK
  <2> QED BY <1>1, <1>5, <2>1 DEF Documented, Own, Coming, Stands
<1> QED BY <1>1, <1>3, <1>4, <1>5

\* A registration: an account that is made is about to be documented, its
\* document is queued when the answer arrives, a chain cut between tears it.
LEMMA RegistrationDocumented ==
    ASSUME IInv, Documented, NEW n \in 1..MaxRegisters,
           ImagesStored(n) \/ AccountMade(n) \/ AccountCreated(n) \/ RegistrationCut(n)
    PROVE  Documented'
<1>0. QueuesOK /\ accounts \subseteq User /\ regs \in Seq(Registration)
  BY DEF IInv, TypeOK, AccountsOK, CallsOK
<1>1. n \in DOMAIN regs /\ regs[n].account \in User
  <2>1. n \in DOMAIN regs
    BY DEF ImagesStored, AccountMade, AccountCreated, RegistrationCut, Stands
  <2>2. regs[n] \in Registration
    BY <1>0, <2>1
  <2> QED BY <2>1, <2>2 DEF Registration
<1>2. CASE ImagesStored(n) \/ RegistrationCut(n)
  <2>1. /\ UNCHANGED <<db, pending, sent, accounts>> /\ torn \subseteq torn'
        /\ Stands(n, "created") => regs[n].account \in torn'
        /\ \E step \in {"creating", "cut"} : GoTo(n, step)
    BY <1>2 DEF ImagesStored, RegistrationCut, Stands, firestoreVars
  <2>2. \A m \in DOMAIN regs : Stands(m, "created") /\ regs[m].account \notin torn' =>
            m \in DOMAIN regs' /\ Stands(m, "created")' /\ regs'[m].account = regs[m].account
    BY <1>0, <1>1, <2>1, GoToType DEF Stands
  <2> QED BY <1>0, <2>1, <2>2, DocumentsStay
<1>3. CASE AccountMade(n)
  <2>1. /\ UNCHANGED <<db, pending, sent, torn>> /\ accounts' = accounts \cup {regs[n].account}
        /\ GoTo(n, "created") /\ ~Stands(n, "created")
    BY <1>3 DEF AccountMade, Stands, firestoreVars
  <2>2. /\ DOMAIN regs' = DOMAIN regs /\ Stands(n, "created")'
        /\ \A m \in DOMAIN regs : regs'[m].account = regs[m].account
        /\ \A m \in DOMAIN regs : Stands(m, "created") => Stands(m, "created")'
    BY <1>0, <1>1, <2>1, GoToType DEF Stands
  <2>3. ASSUME NEW a \in accounts' \ torn' PROVE Coming(a)'
    <3>1. CASE a = regs[n].account
      BY <1>1, <2>2, <3>1 DEF Coming
    <3>2. CASE a # regs[n].account
      <4>1. Coming(a)
        BY <2>1, <2>3, <3>2 DEF Documented
      <4> QED BY <2>1, <2>2, <4>1 DEF Coming
    <3> QED BY <3>1, <3>2
  <2> QED BY <2>1, <2>3 DEF Documented, Own
<1>4. CASE AccountCreated(n)
  <2> DEFINE a == regs[n].account
             w == SetData(UserDoc(a), Profile, [do |-> "registered", reg |-> n])
  <2>1. /\ UNCHANGED <<db, accounts, torn>> /\ GoTo(n, "document")
        /\ pending' = [pending EXCEPT ![a] = @ \o << w >>]
        /\ sent' = [u \in User |-> 0]
    BY <1>4 DEF AccountCreated, Issue, SignIn, ChangeCredential
  <2>2. w.doc = UserDoc(a)
    BY DEF SetData
  <2> HIDE DEF w
  <2>3. \A v \in User : /\ v # a => pending'[v] = pending[v]
                         /\ pending[v] \in Seq(Write)
    BY <1>0, <1>1, <2>1 DEF QueuesOK
  <2>4. pending'[a] = pending[a] \o << w >>
    BY <1>0, <1>1, <2>1 DEF QueuesOK
  <2>5. /\ pending'[a] # << >>
        /\ \A i \in 1..Len(pending'[a]) : \/ pending'[a][i] = w
                                          \/ i \in 1..Len(pending[a]) /\ pending'[a][i] = pending[a][i]
    BY <1>1, <2>3, <2>4
  <2>6. \A v \in User : Own(v)'
    <3> TAKE v \in User
    <3>1. CASE v = a
      BY <2>2, <2>5, <3>1 DEF Documented, Own
    <3>2. CASE v # a
      BY <2>3, <3>2 DEF Documented, Own
    <3> QED BY <3>1, <3>2
  <2>7. /\ DOMAIN regs' = DOMAIN regs
        /\ \A m \in DOMAIN regs : regs'[m].account = regs[m].account
        /\ \A m \in DOMAIN regs \ {n} : Stands(m, "created") => Stands(m, "created")'
    BY <1>0, <1>1, <2>1, GoToType DEF Stands
  <2>8. ASSUME NEW b \in accounts' \ torn' PROVE Coming(b)'
    <3>1. CASE b = a
      BY <2>5, <3>1 DEF Coming
    <3>2. CASE b # a
      <4>1. Coming(b) /\ b \in User
        BY <1>0, <2>1 DEF Documented
      <4> QED BY <2>1, <2>3, <2>7, <3>2, <4>1 DEF Coming
    <3> QED BY <3>1, <3>2
  <2> QED BY <2>1, <2>6, <2>8 DEF Documented
<1> QED BY <1>2, <1>3, <1>4

\* A restart keeps the writes and tears the accounts about to be documented.
LEMMA RestartDocumented ==
    ASSUME IInv, Documented, Restart
    PROVE  Documented'
<1>0. QueuesOK /\ accounts \subseteq User
  BY DEF IInv, TypeOK, AccountsOK
<1>1. /\ UNCHANGED <<db, accounts>>
      /\ pending' = [u \in User |-> [i \in DOMAIN pending[u] |->
                                       [pending[u][i] EXCEPT !.then = Nothing]]]
      /\ sent' = [u \in User |-> 0]
      /\ torn' = torn \cup {regs[n].account : n \in {m \in DOMAIN regs : Stands(m, "created")}}
  BY DEF Restart, KeepQueues, ChangeCredential
<1>2. ASSUME NEW u \in User
      PROVE  Own(u)' /\ (pending[u] # << >> => pending'[u] # << >>)
  <2> DEFINE Kept(i) == [pending[u][i] EXCEPT !.then = Nothing]
  <2>1. pending[u] \in Seq(Write) /\ DOMAIN pending[u] = 1..Len(pending[u])
    BY <1>0 DEF QueuesOK
  <2>2. \A i \in DOMAIN pending[u] : Kept(i).doc = UserDoc(u)
    <3> TAKE i \in DOMAIN pending[u]
    <3>1. pending[u][i] \in Write /\ pending[u][i].doc = UserDoc(u)
      BY <2>1 DEF Documented, Own
    <3> QED BY <3>1 DEF Write
  <2>3. pending'[u] = [i \in DOMAIN pending[u] |-> Kept(i)]
    BY <1>1
  <2> HIDE DEF Kept
  <2>4. Len(pending'[u]) = Len(pending[u]) /\ Len(pending[u]) \in Nat
    BY <2>1, <2>3
  <2>5. Own(u)'
    BY <2>1, <2>2, <2>3, <2>4 DEF Own
  <2>6. pending[u] # << >> => Len(pending[u]) # 0
    BY <2>1
  <2> QED BY <2>4, <2>5, <2>6
<1>3. ASSUME NEW a \in accounts' \ torn' PROVE Coming(a)'
  <2>1. Coming(a) /\ a \in User
    BY <1>0, <1>1 DEF Documented
  <2>2. ~ \E n \in DOMAIN regs : Stands(n, "created") /\ regs[n].account = a
    BY <1>1, <1>3
  <2> QED BY <1>1, <1>2, <2>1, <2>2 DEF Coming
<1>4. \A u \in User : ~(sent'[u] > 0)
  BY <1>1
<1>5. Sound(db')
  BY <1>1 DEF Documented
<1> QED BY <1>2, <1>3, <1>4, <1>5 DEF Documented

\* Every step keeps the documents.
LEMMA DocumentedStep == IInv /\ Documented /\ [Next]_vars => Documented'
<1> SUFFICES ASSUME IInv, Documented, [Next]_vars PROVE Documented'
  OBVIOUS
<1>0. QueuesOK /\ regs \in Seq(Registration)
  BY DEF IInv, TypeOK, CallsOK
<1>1. ASSUME UNCHANGED <<db, pending, regs, accounts, torn>>,
             UNCHANGED sent \/ sent' = [u \in User |-> 0]
      PROVE  Documented'
  BY <1>0, <1>1, DocumentsStay DEF Stands
<1>2. CASE \/ LogOut \/ CloseAlert \/ AuthComplete \/ OpenRegister \/ Back \/ TapSignUpIncomplete
  BY <1>1, <1>2 DEF LogOut, CloseAlert, AuthComplete, OpenRegister, Back, TapSignUpIncomplete,
                    SignIn, ChangeCredential, firestoreVars
<1>3. CASE \E a \in User : FetchAnswered(a) \/ FetchFails(a) \/ TapLogIn(a)
  BY <1>1, <1>3 DEF FetchAnswered, FetchFails, TapLogIn, firestoreVars
<1>4. CASE \E call \in logins : LogInSucceeds(call) \/ LogInFails(call)
  BY <1>1, <1>4 DEF LogInSucceeds, LogInFails, SignIn, ChangeCredential, firestoreVars
<1>5. CASE Refuse \/ \E u \in User : Client(u)
  BY <1>5, ClientDocumented
<1>6. CASE \E n \in 1..MaxRegisters : \/ ImagesStored(n) \/ AccountMade(n) \/ AccountCreated(n)
                                      \/ RegistrationCut(n)
  BY <1>6, RegistrationDocumented
<1>7. CASE Restart
  BY <1>7, RestartDocumented
<1>8. ASSUME NEW a \in User, TapSignUp(a) PROVE Documented'
  <2>1. UNCHANGED <<db, pending, sent, accounts, torn>>
    BY <1>8 DEF TapSignUp, firestoreVars
  <2>2. \A m \in DOMAIN regs : m \in DOMAIN regs' /\ regs'[m] = regs[m]
    BY <1>0, <1>8 DEF TapSignUp
  <2> QED BY <1>0, <2>1, <2>2, DocumentsStay DEF Stands
<1>9. ASSUME NEW u \in User, Registered(u) PROVE Documented'
  <2>1. UNCHANGED <<db, pending, sent, accounts, torn>>
    BY <1>9 DEF Registered, boundVars
  <2>2. PICK n \in DOMAIN regs : Entered(n) /\ GoTo(n, "done")
    <3>1. main[u] \in Seq(Handler) /\ main[u] # << >>
      BY <1>0, <1>9 DEF Registered, Due, QueuesOK
    <3>2. Entered(Head(main[u]).reg)
      BY <3>1, TailType DEF IInv, Owed
    <3> QED BY <1>9, <3>2 DEF Registered, Entered
  <2>3. \A m \in DOMAIN regs : Stands(m, "created") =>
            m \in DOMAIN regs' /\ Stands(m, "created")' /\ regs'[m].account = regs[m].account
    BY <1>0, <2>2, GoToType DEF Stands, Entered
  <2> QED BY <1>0, <2>1, <2>3, DocumentsStay
<1>10. CASE UNCHANGED vars
  BY <1>1, <1>10 DEF vars, sessionVars, firestoreVars
<1> QED
  BY <1>2, <1>3, <1>4, <1>5, <1>6, <1>7, <1>8, <1>9, <1>10 DEF Next

-----------------------------------------------------------------------------
(* The theorems                                                            *)

\* The invariant is inductive.
LEMMA Inductive == Spec => []IInv
<1>1. Init => IInv
  BY InitType, InitQueues, InitFollow DEF IInv
<1>2. IInv /\ [Next]_vars => IInv'
  BY TypeStep, QueueStep, FollowStep DEF IInv
<1> QED BY <1>1, <1>2, PTL DEF Spec

\* Every variable of the session keeps to its kind: the account signed in and
\* those whose tabs are shown exist, screens are numbered as they open, and no
\* alert is left over the tabs.
THEOREM TypeCorrect == Spec => []TypeOK
<1>1. IInv => TypeOK
  BY DEF IInv
<1> QED BY <1>1, Inductive, PTL

\* Once no fetch is under way the tabs nobody covers are those of the account
\* that is signed in, unless a fetch or a registration went astray: what
\* authComplete is for, for any accounts, screens, logins and registrations.
THEOREM TabsFollowAccount == Spec => []TabsFollow
<1>1. IInv => TabsFollow
  <2> SUFFICES ASSUME IInv, at = "root", ~Fetching, ~astray PROVE shown = auth
    BY DEF TabsFollow
  <2>1. auth \in User /\ (\/ shown = auth
                         \/ \A a \in User : fetches[a] = IF a = auth THEN 1 ELSE 0)
    BY DEF IInv, TypeOK, AccountsOK, Follow
  <2>2. ~(fetches[auth] > 0)
    BY <2>1 DEF Fetching
  <2> QED BY <2>1, <2>2
<1> QED BY <1>1, Inductive, PTL

\* The indicator covers a login form only while a login from that form is
\* being answered: no path of didTapSignIn, nor a registration that runs behind
\* another screen, leaves it there.
THEOREM LoginCovered == Spec => []LoginExplained
<1>1. Init => Explained
  BY SessionAssumption, AbsentAssumption DEF Init, Explained, LoginView
<1>2. Explained => LoginExplained
  BY DEF Explained, LoginExplained
<1> QED BY <1>1, <1>2, TypeCorrect, ExplainedStep, PTL DEF Spec

\* An account that exists comes to have its document, whatever the server,
\* the stream and the device do in between, unless its registration was cut or
\* its document refused (createUser, then setData from the device).
THEOREM Documents == Spec => []AccountDocumented
<1>1. IInv /\ Documented => AccountDocumented
  <2> SUFFICES ASSUME IInv, Documented, NEW a \in accounts \ torn
               PROVE  \/ View(a)[UserDoc(a)] # NoDoc
                      \/ \E n \in DOMAIN regs : Stands(n, "created") /\ regs[n].account = a
    BY DEF AccountDocumented
  <2>1. Coming(a) /\ a \in User /\ QueuesOK
    BY DEF IInv, TypeOK, AccountsOK, Documented
  <2> QED BY <2>1, ViewProfile, AbsentAssumption DEF Coming
<1> QED BY <1>1, Inductive, InitDocumented, DocumentedStep, PTL DEF Spec

-----------------------------------------------------------------------------
(* Home: the inductive invariant                                           *)

OfKind(k) == {c \in Value : KindOf(c) = k}

\* Ids are given in the order of the uploads, and so are times.
Dated == {c \in Value : c.time = c.id}

\* What the lists keep through every merge and refresh.
ListsAreSound(display) ==
    /\ display.all \in Seq(Value)
    /\ display.kinds \in [Kind -> Seq(Value)]
    /\ \A k \in Kind : display.kinds[k] \in Seq(OfKind(k))
    /\ IsInjective(display.all)
    /\ \A k \in Kind : IsInjective(display.kinds[k])
    /\ \A i \in DOMAIN display.all :
          Contains(display.kinds[KindOf(display.all[i])], display.all[i])

\* What they keep until ALL is cleared by a refresh.
Covers(display) ==
    /\ \A i \in DOMAIN display.all : KindOf(display.all[i]) # "RECOM"
    /\ \A k \in Kind \ {"RECOM"} : \A i \in DOMAIN display.kinds[k] :
          Contains(display.all, display.kinds[k][i])

OnDisplay == [kinds |-> kinds, all |-> all]

ListsInv == ListsAreSound(OnDisplay) /\ (rounds = 1 => Covers(OnDisplay))

\* The stored cartoons, and the counters they depend on.
StoredInv ==
    /\ DOMAIN stored = Toon
    /\ changes \in Nat /\ misses \in Nat /\ changes + misses <= MaxMishaps
    /\ \A t \in Toon : Stored(t) => stored[t] \in [type : Type, like : 0..changes, time : {t}]

IsGot(m) == m.do = "got"

Message == [do : {"got"}, fetch : 1..rounds, cartoon : Dated] \cup [do : {"uploaded"}]

\* What a fetch asks for, has been answered and has collected.
FetchTypes ==
    /\ rounds \in 1..MaxFetches
    /\ listing \subseteq 1..rounds
    /\ gets \subseteq (1..rounds) \X Toon
    /\ due \in Seq(Message)
    /\ found \in [1..MaxFetches -> Seq(Dated)]

\* A cartoon of a fetch is asked for, waiting for the main thread or
\* collected, and at most one of the three.
AskedOnce ==
    /\ \A g \in gets : g[1] \notin listing
    /\ \A i \in DOMAIN due : IsGot(due[i]) =>
          /\ due[i].fetch \notin listing
          /\ <<due[i].fetch, due[i].cartoon.id>> \notin gets
    /\ \A i, j \in DOMAIN due :
          IsGot(due[i]) /\ IsGot(due[j]) /\ i < j /\ due[i].fetch = due[j].fetch
            => due[i].cartoon.id # due[j].cartoon.id
    /\ \A n \in 1..MaxFetches : \A m \in DOMAIN found[n] :
          /\ n \in 1..rounds /\ n \notin listing
          /\ <<n, found[n][m].id>> \notin gets
          /\ \A i \in DOMAIN due :
                IsGot(due[i]) /\ due[i].fetch = n => due[i].cartoon.id # found[n][m].id

\* An upload whose completion is still to run has its cartoon already.
DueUploads == IF screen \in {"sending", "sent"} THEN 1 ELSE 0

UploadInv ==
    /\ clock \in 0..MaxToons
    /\ mine \subseteq 1..clock
    /\ spinning \in BOOLEAN
    /\ screen \in {"tabs", "setup", "upload", "sending", "sent"}
    /\ uploads \in Nat /\ uploads + DueUploads <= Cardinality(mine)
    /\ \A i \in DOMAIN due : due[i].do = "uploaded" =>
          /\ screen = "sent"
          /\ \A j \in DOMAIN due : due[j].do = "uploaded" => i = j

FetchInv == FetchTypes /\ AskedOnce /\ NewestFirst

HomeInv == StoredInv /\ FetchInv /\ ListsInv /\ UploadInv

-----------------------------------------------------------------------------
(* Sequences                                                               *)

\* What a sequence is after one more element.
LEMMA AppendFacts ==
    ASSUME NEW S, NEW s \in Seq(S), NEW e \in S
    PROVE  /\ Append(s, e) \in Seq(S)
           /\ Len(Append(s, e)) = Len(s) + 1
           /\ \A i \in 1..Len(s) : Append(s, e)[i] = s[i]
           /\ Append(s, e)[Len(s) + 1] = e
           /\ DOMAIN s = 1..Len(s) /\ DOMAIN Append(s, e) = 1..Len(s) + 1
OBVIOUS

\* What a sequence is after its first element has been taken.
LEMMA TailFacts ==
    ASSUME NEW S, NEW s \in Seq(S), s # << >>
    PROVE  /\ Head(s) = s[1] /\ Head(s) \in S /\ 1 \in DOMAIN s
           /\ Tail(s) \in Seq(S)
           /\ DOMAIN s = 1..Len(s) /\ DOMAIN Tail(s) = 1..Len(s) - 1
           /\ \A i \in DOMAIN Tail(s) : i + 1 \in DOMAIN s /\ Tail(s)[i] = s[i + 1]
OBVIOUS

\* Contains asks for an element at some place.
LEMMA ContainsMeans ==
    ASSUME NEW S, NEW s \in Seq(S), NEW e
    PROVE  Contains(s, e) <=> \E i \in DOMAIN s : s[i] = e
BY DEF Contains

\* An appended element is contained, and all that were.
LEMMA AppendContains ==
    ASSUME NEW S, NEW s \in Seq(S), NEW e \in S
    PROVE  /\ Contains(Append(s, e), e)
           /\ \A x : Contains(s, x) => Contains(Append(s, e), x)
<1>1. /\ Append(s, e) \in Seq(S) /\ Len(s) \in Nat
      /\ Len(Append(s, e)) = Len(s) + 1
      /\ \A i \in 1..Len(s) : Append(s, e)[i] = s[i]
      /\ Append(s, e)[Len(s) + 1] = e
  OBVIOUS
<1>2. Contains(Append(s, e), e)
  BY <1>1 DEF Contains
<1>3. ASSUME NEW x, Contains(s, x) PROVE Contains(Append(s, e), x)
  <2>1. PICK i \in 1..Len(s) : s[i] = x
    BY <1>3 DEF Contains
  <2>2. i \in 1..Len(s) + 1
    BY <1>1
  <2> QED BY <1>1, <2>1, <2>2 DEF Contains
<1> QED BY <1>2, <1>3

\* Appending what is not contained repeats nothing.
LEMMA AppendNew ==
    ASSUME NEW S, NEW s \in Seq(S), NEW e \in S, IsInjective(s), ~Contains(s, e)
    PROVE  IsInjective(Append(s, e))
<1>1. /\ DOMAIN Append(s, e) = 1..Len(s) + 1 /\ DOMAIN s = 1..Len(s) /\ Len(s) \in Nat
      /\ \A i \in 1..Len(s) : Append(s, e)[i] = s[i] /\ s[i] # e
      /\ Append(s, e)[Len(s) + 1] = e
  BY AppendFacts DEF Contains
<1>2. SUFFICES ASSUME NEW i \in DOMAIN Append(s, e), NEW j \in DOMAIN Append(s, e),
                      Append(s, e)[i] = Append(s, e)[j]
               PROVE  i = j
  BY DEF IsInjective
<1>3. CASE i \in 1..Len(s) /\ j \in 1..Len(s)
  BY <1>1, <1>2, <1>3 DEF IsInjective
<1>4. CASE i = Len(s) + 1 \/ j = Len(s) + 1
  BY <1>1, <1>2, <1>4
<1> QED BY <1>1, <1>3, <1>4

-----------------------------------------------------------------------------
(* The order of a fetch's list                                             *)

Descending(s) == \A i, j \in DOMAIN s : i < j => s[i].time > s[j].time

\* An order of the places, as Sorted chooses one.
Orders(p, s) ==
    /\ p \in [DOMAIN s -> DOMAIN s]
    /\ \A i, j \in DOMAIN s : i < j => p[i] # p[j] /\ s[p[i]].time >= s[p[j]].time

\* A descending list with one more cartoon, of another time, can be ordered:
\* the new one goes before the first older one.
LEMMA OrderExists ==
    ASSUME NEW s \in Seq(Value), Descending(s), NEW c \in Value,
           \A i \in DOMAIN s : s[i].time # c.time
    PROVE  \E p : Orders(p, Append(s, c))
<1> DEFINE n == Len(s)
           r == Append(s, c)
           Older == {i \in 1..n + 1 : i = n + 1 \/ s[i].time < c.time}
<1>1. /\ n \in Nat /\ DOMAIN s = 1..n /\ DOMAIN r = 1..n + 1 /\ r[n + 1] = c
      /\ \A i \in 1..n : r[i] = s[i] /\ s[i] \in Value
  BY AppendFacts
<1>2. PICK q \in Older : \A k \in Older : q <= k
  <2>1. Older \in SUBSET Nat /\ n + 1 \in Older
    BY <1>1
  <2> HIDE DEF Older
  <2> QED BY <2>1, Least
<1>3. c.time \in Nat /\ \A i \in 1..n : s[i].time \in Nat
  BY <1>1 DEF Value, Toon
<1>4. q \in 1..n + 1 /\ \A i \in 1..n : i < q => s[i].time > c.time
  <2>0. q \in 1..n + 1
    BY <1>2
  <2>1. ASSUME NEW i \in 1..n, i < q PROVE s[i].time > c.time
    <3>1. i \notin Older
      <4>1. ~(q <= i)
        BY <1>1, <2>0, <2>1
      <4> HIDE DEF Older
      <4> QED BY <1>2, <4>1
    <3>2. ~(s[i].time < c.time)
      BY <1>1, <3>1
    <3> QED BY <1>1, <1>3, <3>2
  <2> QED BY <2>0, <2>1
<1>5. \A i \in 1..n : i >= q => s[i].time < c.time
  <2>1. ASSUME NEW i \in 1..n, i >= q PROVE s[i].time < c.time
    <3>1. q \in 1..n /\ s[q].time < c.time
      BY <1>1, <1>2, <1>4, <2>1
    <3>2. i = q \/ s[q].time > s[i].time
      BY <1>1, <2>1, <3>1 DEF Descending
    <3> QED BY <1>3, <3>1, <3>2
  <2> QED BY <2>1
<1> DEFINE p == [i \in 1..n + 1 |-> IF i < q THEN i ELSE IF i = q THEN n + 1 ELSE i - 1]
<1>6. \A i \in 1..n + 1 :
         /\ p[i] \in 1..n + 1
         /\ i < q => p[i] = i /\ i \in 1..n
         /\ i = q => p[i] = n + 1
         /\ i > q => p[i] = i - 1 /\ i - 1 \in 1..n /\ i - 1 >= q
  BY <1>1, <1>4
<1> HIDE DEF p, r, n, Older
<1>7. ASSUME NEW i \in 1..n + 1, NEW j \in 1..n + 1, i < j
      PROVE  p[i] # p[j] /\ r[p[i]].time >= r[p[j]].time
  <2>1. CASE j < q
    <3>1. i < q /\ p[i] = i /\ p[j] = j /\ i \in 1..n /\ j \in 1..n
      BY <1>1, <1>4, <1>6, <1>7, <2>1
    <3>2. s[i].time > s[j].time
      BY <1>1, <1>7, <3>1 DEF Descending
    <3> QED BY <1>1, <1>3, <1>7, <3>1, <3>2
  <2>2. CASE j = q
    <3>1. i < q /\ p[i] = i /\ p[j] = n + 1 /\ i \in 1..n
      BY <1>1, <1>4, <1>6, <1>7, <2>2
    <3> QED BY <1>1, <1>3, <1>4, <3>1
  <2>3. CASE j > q /\ i = q
    <3>1. p[i] = n + 1 /\ p[j] = j - 1 /\ j - 1 \in 1..n /\ j - 1 >= q
      BY <1>6, <2>3
    <3> QED BY <1>1, <1>3, <1>5, <3>1
  <2>4. CASE j > q /\ i < q
    <3>1. p[i] = i /\ i \in 1..n /\ p[j] = j - 1 /\ j - 1 \in 1..n /\ i < j - 1
      BY <1>1, <1>4, <1>6, <2>4
    <3>2. s[i].time > s[j - 1].time
      BY <1>1, <3>1 DEF Descending
    <3> QED BY <1>1, <1>3, <3>1, <3>2
  <2>5. CASE j > q /\ i > q
    <3>1. /\ p[i] = i - 1 /\ i - 1 \in 1..n /\ p[j] = j - 1 /\ j - 1 \in 1..n
          /\ i - 1 < j - 1
      BY <1>1, <1>4, <1>6, <1>7, <2>5
    <3>2. s[i - 1].time > s[j - 1].time
      BY <1>1, <3>1 DEF Descending
    <3> QED BY <1>1, <1>3, <3>1, <3>2
  <2> QED BY <1>4, <2>1, <2>2, <2>3, <2>4, <2>5
<1>8. p \in [1..n + 1 -> 1..n + 1]
  BY <1>6 DEF p
<1>9. Orders(p, r)
  BY <1>1, <1>7, <1>8 DEF Orders
<1> QED BY <1>9 DEF r

\* Collecting a cartoon of another time keeps a fetch's list descending, and
\* adds nothing else to it.
LEMMA CollectSorts ==
    ASSUME NEW s \in Seq(Dated), Descending(s), NEW c \in Dated,
           \A i \in DOMAIN s : s[i].time # c.time
    PROVE  /\ Collect(s, c) \in Seq(Dated)
           /\ Descending(Collect(s, c))
           /\ \A i \in DOMAIN Collect(s, c) :
                 \/ Collect(s, c)[i] = c
                 \/ \E j \in DOMAIN s : Collect(s, c)[i] = s[j]
<1>1. CASE Contains(s, c)
  BY <1>1 DEF Collect
<1>2. CASE ~Contains(s, c)
  <2> DEFINE r == Append(s, c)
             Good(p) == /\ p \in [DOMAIN r -> DOMAIN r]
                        /\ \A i, j \in DOMAIN r :
                              i < j => p[i] # p[j] /\ r[p[i]].time >= r[p[j]].time
             order == CHOOSE p : Good(p)
  <2>1. /\ r \in Seq(Dated) /\ Len(s) \in Nat /\ DOMAIN s = 1..Len(s)
        /\ DOMAIN r = 1..Len(s) + 1 /\ r[Len(s) + 1] = c
        /\ \A i \in 1..Len(s) : r[i] = s[i]
    BY AppendFacts
  <2>2. \E p : Good(p)
    <3>1. s \in Seq(Value) /\ c \in Value
      BY DEF Dated
    <3>2. PICK p : Orders(p, r)
      BY <3>1, OrderExists
    <3>3. Good(p)
      BY <3>2 DEF Orders
    <3> QED BY <3>3
  <2>3. Good(order)
    <3> HIDE DEF Good
    <3> QED BY <2>2
  <2>4. Collect(s, c) = [i \in DOMAIN r |-> r[order[i]]]
    <3>1. Collect(s, c) = Sorted(r)
      BY <1>2 DEF Collect
    <3>2. (CHOOSE p \in [DOMAIN r -> DOMAIN r] :
              \A i, j \in DOMAIN r :
                 i < j => p[i] # p[j] /\ r[p[i]].time >= r[p[j]].time) = order
      OBVIOUS
    <3> HIDE DEF r, order
    <3> QED BY <3>1, <3>2 DEF Sorted
  <2> DEFINE q == Collect(s, c)
  <2>5. /\ order \in [1..Len(s) + 1 -> 1..Len(s) + 1]
        /\ DOMAIN q = 1..Len(s) + 1 /\ \A i \in 1..Len(s) + 1 : q[i] = r[order[i]]
        /\ \A i, j \in 1..Len(s) + 1 :
              i < j => order[i] # order[j] /\ r[order[i]].time >= r[order[j]].time
    <3> HIDE DEF order
    <3> QED BY <2>1, <2>3, <2>4
  <2> HIDE DEF order, q
  <2>6. \A i, j \in 1..Len(s) + 1 : i # j => r[i].time # r[j].time
    <3>1. ASSUME NEW i \in 1..Len(s), NEW j \in 1..Len(s), i # j
          PROVE  s[i].time # s[j].time
      <4>1. s[i].time \in Nat /\ s[j].time \in Nat
        BY <2>1 DEF Dated, Value, Toon
      <4>2. i < j \/ j < i
        BY <3>1
      <4> QED BY <2>1, <4>1, <4>2 DEF Descending
    <3>2. \A i \in 1..Len(s) : s[i].time # c.time
      BY <2>1
    <3>3. \A i \in 1..Len(s) + 1 : i \in 1..Len(s) \/ i = Len(s) + 1
      BY <2>1
    <3> HIDE DEF r
    <3> QED BY <2>1, <3>1, <3>2, <3>3
  <2>7. \A i \in 1..Len(s) + 1 : r[i] \in Dated /\ r[i].time \in Nat
    <3>1. \A i \in 1..Len(s) + 1 : r[i] \in Dated
      <4> HIDE DEF r
      <4> QED BY <2>1
    <3>2. \A x \in Dated : x.time \in Nat
      BY DEF Dated, Value, Toon
    <3> QED BY <3>1, <3>2
  <2> HIDE DEF r
  <2>8. q \in Seq(Dated)
    <3>1. q \in [1..Len(s) + 1 -> Dated]
      <4>1. q = [i \in 1..Len(s) + 1 |-> r[order[i]]]
        BY <2>1, <2>4 DEF q
      <4> QED BY <2>5, <2>7, <4>1
    <3> QED BY <2>1, <3>1
  <2>9. Descending(q)
    <3>1. ASSUME NEW i \in 1..Len(s) + 1, NEW j \in 1..Len(s) + 1, i < j
          PROVE  q[i].time > q[j].time
      <4>1. /\ order[i] \in 1..Len(s) + 1 /\ order[j] \in 1..Len(s) + 1
            /\ order[i] # order[j] /\ r[order[i]].time >= r[order[j]].time
        BY <2>5, <3>1
      <4>2. r[order[i]].time # r[order[j]].time
        BY <2>6, <4>1
      <4>3. r[order[i]].time \in Nat /\ r[order[j]].time \in Nat
        BY <2>7, <4>1
      <4>4. r[order[i]].time > r[order[j]].time
        BY <4>1, <4>2, <4>3
      <4> QED BY <2>5, <4>4
    <3> QED BY <2>5, <3>1 DEF Descending
  <2>10. \A i \in DOMAIN q : q[i] = c \/ \E j \in DOMAIN s : q[i] = s[j]
    <3>1. ASSUME NEW i \in 1..Len(s) + 1
          PROVE  q[i] = c \/ \E j \in DOMAIN s : q[i] = s[j]
      <4>1. order[i] \in 1..Len(s) + 1 /\ q[i] = r[order[i]]
        BY <2>5
      <4>2. order[i] \in 1..Len(s) \/ order[i] = Len(s) + 1
        BY <2>1, <4>1
      <4> QED BY <2>1, <4>1, <4>2
    <3> QED BY <2>5, <3>1
  <2> QED BY <2>8, <2>9, <2>10 DEF q
<1> QED BY <1>1, <1>2

-----------------------------------------------------------------------------
(* Placing cartoons in the lists                                           *)

\* Every type is listed under a category.
LEMMA KindOfKind ==
    ASSUME NEW c PROVE KindOf(c) \in Kind
BY DEF KindOf, Kind

\* Place keeps the lists sound, and ALL complete.
LEMMA PlaceKeeps ==
    ASSUME NEW display, ListsAreSound(display), NEW c \in Value
    PROVE  /\ ListsAreSound(Place(display, c))
           /\ Covers(display) => Covers(Place(display, c))
<1> DEFINE k == KindOf(c)
           new == Place(display, c)
<1>1. k \in Kind /\ c \in OfKind(k)
  BY KindOfKind DEF OfKind
<1>2. CASE Contains(display.kinds[k], c)
  BY <1>2 DEF Place
<1>3. CASE ~Contains(display.kinds[k], c)
  <2>1. /\ new.kinds = [display.kinds EXCEPT ![k] = Append(display.kinds[k], c)]
        /\ new.all = IF k = "RECOM" THEN display.all ELSE Append(display.all, c)
    BY <1>3 DEF Place
  <2> HIDE DEF k, new
  <2>2. /\ display.all \in Seq(Value) /\ IsInjective(display.all)
        /\ display.kinds \in [Kind -> Seq(Value)]
        /\ \A j \in Kind : display.kinds[j] \in Seq(OfKind(j)) /\ IsInjective(display.kinds[j])
        /\ \A i \in DOMAIN display.all : Contains(display.kinds[KindOf(display.all[i])], display.all[i])
    BY DEF ListsAreSound
  <2>3. /\ new.kinds \in [Kind -> Seq(Value)]
        /\ new.kinds[k] = Append(display.kinds[k], c)
        /\ \A j \in Kind : j # k => new.kinds[j] = display.kinds[j]
    <3>1. Append(display.kinds[k], c) \in Seq(Value)
      BY <1>1, <2>2
    <3> QED BY <1>1, <2>1, <2>2, <3>1
  <2>4. ASSUME NEW j \in Kind
        PROVE  /\ new.kinds[j] \in Seq(OfKind(j)) /\ IsInjective(new.kinds[j])
               /\ \A x : Contains(display.kinds[j], x) => Contains(new.kinds[j], x)
    <3>1. CASE j = k
      <4>1. /\ display.kinds[k] \in Seq(OfKind(k)) /\ IsInjective(display.kinds[k])
            /\ c \in OfKind(k) /\ new.kinds[k] = Append(display.kinds[k], c)
        BY <1>1, <2>2, <2>3
      <4>2. new.kinds[k] \in Seq(OfKind(k))
        BY <4>1, AppendFacts
      <4>3. IsInjective(new.kinds[k])
        BY <1>3, <4>1, AppendNew DEF k
      <4>4. \A x : Contains(display.kinds[k], x) => Contains(new.kinds[k], x)
        BY <4>1, AppendContains
      <4> QED BY <3>1, <4>2, <4>3, <4>4
    <3>2. CASE j # k
      BY <2>2, <2>3, <3>2
    <3> QED BY <3>1, <3>2
  <2>5. Contains(new.kinds[k], c)
    BY <1>1, <2>2, <2>3, AppendContains
  <2>6. CASE k = "RECOM"
    <3>1. new.all = display.all
      BY <2>1, <2>6
    <3>2. \A i \in DOMAIN display.all : Contains(new.kinds[KindOf(display.all[i])], display.all[i])
      BY <2>2, <2>4, KindOfKind
    <3>3. ListsAreSound(new)
      BY <2>2, <2>3, <2>4, <3>1, <3>2 DEF ListsAreSound
    <3>4. Covers(display) => Covers(new)
      BY <2>3, <2>6, <3>1 DEF Covers
    <3> QED BY <3>3, <3>4 DEF new
  <2>7. CASE k # "RECOM"
    <3>1. new.all = Append(display.all, c)
      BY <2>1, <2>7
    <3>2. ~Contains(display.all, c)
      <4>1. ASSUME Contains(display.all, c) PROVE FALSE
        <5>1. PICK i \in DOMAIN display.all : display.all[i] = c
          BY <2>2, <4>1, ContainsMeans
        <5> QED BY <1>3, <2>2, <5>1 DEF k
      <4> QED BY <4>1
    <3>3. new.all \in Seq(Value) /\ IsInjective(new.all)
      BY <2>2, <3>1, <3>2, AppendFacts, AppendNew
    <3>4. \A i \in DOMAIN new.all :
             \/ i \in DOMAIN display.all /\ new.all[i] = display.all[i]
             \/ new.all[i] = c
      <4>1. /\ DOMAIN new.all = 1..Len(display.all) + 1 /\ DOMAIN display.all = 1..Len(display.all)
            /\ \A i \in 1..Len(display.all) : new.all[i] = display.all[i]
            /\ new.all[Len(display.all) + 1] = c /\ Len(display.all) \in Nat
        BY <2>2, <3>1, AppendFacts
      <4>2. \A i \in 1..Len(display.all) + 1 : i \in 1..Len(display.all) \/ i = Len(display.all) + 1
        BY <4>1
      <4> QED BY <4>1, <4>2
    <3>5. \A i \in DOMAIN new.all : Contains(new.kinds[KindOf(new.all[i])], new.all[i])
      BY <2>2, <2>4, <2>5, <3>4, KindOfKind DEF k
    <3>6. ListsAreSound(new)
      BY <2>3, <2>4, <3>3, <3>5 DEF ListsAreSound
    <3>7. ASSUME Covers(display) PROVE Covers(new)
      <4>1. \A i \in DOMAIN new.all : KindOf(new.all[i]) # "RECOM"
        BY <2>7, <3>4, <3>7 DEF Covers, k
      <4>2. \A x : Contains(display.all, x) \/ x = c => Contains(new.all, x)
        BY <2>2, <3>1, AppendContains
      <4>3. ASSUME NEW j \in Kind \ {"RECOM"}, NEW i \in DOMAIN new.kinds[j]
            PROVE  Contains(new.all, new.kinds[j][i])
        <5>1. CASE j # k
          BY <2>3, <3>7, <4>2, <5>1 DEF Covers
        <5>2. CASE j = k
          <6> DEFINE s == display.kinds[k]
          <6>1. /\ DOMAIN new.kinds[k] = 1..Len(s) + 1 /\ DOMAIN s = 1..Len(s) /\ Len(s) \in Nat
                /\ \A m \in 1..Len(s) : new.kinds[k][m] = s[m]
                /\ new.kinds[k][Len(s) + 1] = c
            BY <1>1, <2>2, <2>3, AppendFacts
          <6> HIDE DEF s
          <6>2. i \in 1..Len(s) \/ i = Len(s) + 1
            BY <5>2, <6>1
          <6>3. \A m \in 1..Len(s) : Contains(display.all, s[m])
            BY <3>7, <5>2, <6>1 DEF Covers, s
          <6> QED BY <4>2, <5>2, <6>1, <6>2, <6>3
        <5> QED BY <5>1, <5>2
      <4> QED BY <4>1, <4>3 DEF Covers
    <3> QED BY <3>6, <3>7 DEF new
  <2> QED BY <2>6, <2>7
<1> QED BY <1>2, <1>3

\* The recursive function of Placed exists, so it is what its equation says:
\* the cartoons are placed one by one.
LEMMA PlacedSteps ==
    ASSUME NEW collected, Len(collected) \in Nat
    PROVE  \E after :
              /\ after[0] = OnDisplay
              /\ \A n \in 1..Len(collected) : after[n] = Place(after[n - 1], collected[n])
              /\ Placed(collected) = after[Len(collected)]
<1> DEFINE top == Len(collected)
           Next1(v, n) == Place(v, collected[n])
           Step(f, n) == IF n = 0 THEN OnDisplay ELSE Next1(f[n - 1], n)
           Upto(f, m) == f = [n \in 0..m |-> Step(f, n)]
           Bad == {m \in 0..top : ~ \E f : Upto(f, m)}
<1> HIDE DEF Next1
<1>1. Bad = {}
  <2> SUFFICES ASSUME Bad # {} PROVE FALSE
    OBVIOUS
  <2>0. Bad \in SUBSET Nat
    OBVIOUS
  <2>1. PICK m \in Bad : \A k \in Bad : m <= k
    <3> HIDE DEF Bad
    <3> QED BY <2>0, Least
  <2>2. m # 0
    <3>1. Upto([n \in 0..0 |-> OnDisplay], 0)
      OBVIOUS
    <3> QED BY <2>1, <3>1
  <2>3. PICK g : Upto(g, m - 1)
    <3>1. m \in 0..top
      OBVIOUS
    <3>2. m - 1 \in 0..top /\ m - 1 \in Nat /\ m - 1 < m
      BY <2>2, <3>1
    <3>3. m - 1 \notin Bad
      <4> HIDE DEF Bad
      <4> QED BY <2>1, <3>1, <3>2
    <3> QED BY <3>2, <3>3
  <2> DEFINE f == [n \in 0..m |-> IF n = m THEN Step(g, m) ELSE g[n]]
  <2>4. Upto(f, m)
    <3>1. ASSUME NEW n \in 0..m PROVE f[n] = Step(f, n)
      BY <2>1, <2>2, <2>3
    <3> QED BY <3>1
  <2> QED BY <2>1, <2>4
<1> DEFINE after == CHOOSE f : Upto(f, top)
<1>2. Upto(after, top)
  <2>1. top \notin Bad /\ top \in 0..top
    <3> HIDE DEF Bad
    <3> QED BY <1>1
  <2>2. \E f : Upto(f, top)
    BY <2>1
  <2> HIDE DEF Upto
  <2> QED BY <2>2
<1>3. Placed(collected) = after[top]
  BY DEF Placed, Next1, OnDisplay
<1> HIDE DEF after
<1>4. after[0] = OnDisplay
  BY <1>2
<1>5. ASSUME NEW n \in 1..top PROVE after[n] = Place(after[n - 1], collected[n])
  <2>1. after[n] = Next1(after[n - 1], n)
    BY <1>2, <1>5
  <2> QED BY <2>1 DEF Next1
<1> QED BY <1>3, <1>4, <1>5

\* Placing what a fetch has collected keeps the lists sound, and ALL complete.
LEMMA PlacedKeeps ==
    ASSUME NEW collected \in Seq(Value), ListsAreSound(OnDisplay)
    PROVE  /\ ListsAreSound(Placed(collected))
           /\ Covers(OnDisplay) => Covers(Placed(collected))
<1>1. Len(collected) \in Nat /\ \A n \in 1..Len(collected) : collected[n] \in Value
  OBVIOUS
<1>2. PICK after :
         /\ after[0] = OnDisplay
         /\ \A n \in 1..Len(collected) : after[n] = Place(after[n - 1], collected[n])
         /\ Placed(collected) = after[Len(collected)]
  BY <1>1, PlacedSteps
<1> DEFINE top == Len(collected)
           Right == {n \in 0..top : /\ ListsAreSound(after[n])
                                    /\ Covers(OnDisplay) => Covers(after[n])}
<1>3. 0 \in Right
  BY <1>1, <1>2
<1>4. ASSUME NEW n \in 0..top - 1, n \in Right PROVE n + 1 \in Right
  <2>1. n + 1 \in 1..top /\ (n + 1) - 1 = n /\ n + 1 \in 0..top
    BY <1>1
  <2>2. after[n + 1] = Place(after[n], collected[n + 1]) /\ collected[n + 1] \in Value
    BY <1>1, <1>2, <2>1
  <2>3. ListsAreSound(after[n]) /\ (Covers(OnDisplay) => Covers(after[n]))
    BY <1>4
  <2>4. /\ ListsAreSound(after[n + 1])
        /\ Covers(after[n]) => Covers(after[n + 1])
    BY <2>2, <2>3, PlaceKeeps
  <2> QED BY <2>1, <2>3, <2>4
<1>5. top \in Right
  <2> HIDE DEF Right
  <2>1. \A n \in 0..top : n \in Right
    BY <1>1, <1>3, <1>4, Climb
  <2> QED BY <1>1, <2>1
<1> QED BY <1>2, <1>5

\* After a merge the lists are as sound and complete as before it.
LEMMA MergeListsKeeps ==
    ASSUME NEW collected, collected \in Seq(Value), ListsInv, MergeLists(collected), rounds' = rounds
    PROVE  ListsInv'
<1>1. ListsAreSound(OnDisplay) /\ (rounds = 1 => Covers(OnDisplay))
  BY DEF ListsInv
<1>2. /\ ListsAreSound(Placed(collected))
      /\ rounds = 1 => Covers(Placed(collected))
  BY <1>1, PlacedKeeps
<1>3. kinds' = Placed(collected).kinds /\ all' = Placed(collected).all
  BY DEF MergeLists
<1>4. ListsAreSound([kinds |-> kinds', all |-> all'])
  BY <1>2, <1>3 DEF ListsAreSound
<1>5. rounds = 1 => Covers([kinds |-> kinds', all |-> all'])
  BY <1>2, <1>3 DEF Covers
<1> QED BY <1>4, <1>5 DEF ListsInv, OnDisplay, ListsAreSound, Covers

-----------------------------------------------------------------------------
(* What an action leaves alone                                             *)

\* The bounds are numbers, and a first fetch is allowed.
LEMMA Bounds ==
    MaxToons \in Nat /\ MaxFetches \in Nat \ {0} /\ MaxMishaps \in Nat /\ MaxUploads \in Nat
BY HomeBoundsAssumption

\* The four parts of the invariant, each while its own variables stay.
LEMMA StoredKept ==
    ASSUME StoredInv, UNCHANGED <<stored, changes, misses>> PROVE StoredInv'
BY DEF StoredInv, Stored

\* The fetches.
LEMMA FetchKept ==
    ASSUME FetchInv, UNCHANGED <<reads, due, rounds>> PROVE FetchInv'
BY DEF FetchInv, FetchTypes, AskedOnce, NewestFirst, Message, IsGot, reads

\* The lists.
LEMMA ListsKept ==
    ASSUME ListsInv, UNCHANGED <<lists, rounds>> PROVE ListsInv'
<1>1. OnDisplay' = OnDisplay
  BY DEF OnDisplay, lists
<1> QED BY <1>1 DEF ListsInv, ListsAreSound, Covers

\* The screens and uploads; the refresh control is free to turn or stop.
LEMMA UploadKept ==
    ASSUME UploadInv, UNCHANGED <<clock, mine, screen, uploads, due>>, spinning' \in BOOLEAN
    PROVE  UploadInv'
BY DEF UploadInv, DueUploads

\* What is handed over of a stored cartoon carries its id and its time.
LEMMA CopyDated ==
    ASSUME StoredInv, NEW t \in Toon, Stored(t)
    PROVE  Copy(t) \in Dated /\ Copy(t).id = t
<1>1. stored[t].type \in Type /\ stored[t].like \in 0..changes /\ stored[t].time = t
  BY DEF StoredInv
<1>2. stored[t].like \in 0..MaxMishaps
  BY <1>1, Bounds DEF StoredInv
<1> QED BY <1>1, <1>2 DEF Copy, Value, Dated

-----------------------------------------------------------------------------
(* The initial state                                                       *)

\* Nothing is fetched yet, and the first list of ids is asked for.
LEMMA InitHolds == HomeInit => HomeInv
<1> SUFFICES ASSUME HomeInit PROVE HomeInv
  OBVIOUS
<1>1. StoredInv
  BY Bounds DEF HomeInit, StoredInv, Stored
<1>2. FetchTypes
  BY Bounds DEF HomeInit, FetchTypes
<1>3. AskedOnce /\ NewestFirst
  BY DEF HomeInit, AskedOnce, NewestFirst
<1>4. ListsInv
  <2>1. \A S : << >> \in Seq(S) /\ DOMAIN << >> = {}
    OBVIOUS
  <2>2. /\ OnDisplay.all = << >> /\ OnDisplay.kinds \in [Kind -> Seq(Value)]
        /\ \A k \in Kind : OnDisplay.kinds[k] = << >>
    BY <2>1 DEF HomeInit, OnDisplay
  <2>3. IsInjective(<< >>)
    BY <2>1 DEF IsInjective
  <2>4. ListsAreSound(OnDisplay)
    BY <2>1, <2>2, <2>3 DEF ListsAreSound
  <2>5. Covers(OnDisplay)
    BY <2>1, <2>2 DEF Covers
  <2> QED BY <2>4, <2>5 DEF ListsInv
<1>5. UploadInv
  <2>1. Cardinality({}) = 0
    BY FS_EmptySet
  <2>2. mine = {} /\ uploads = 0 /\ DueUploads = 0
    BY DEF HomeInit, DueUploads
  <2>3. uploads + DueUploads <= Cardinality(mine)
    BY <2>1, <2>2
  <2>4. /\ clock = 0 /\ 0 \in 0..MaxToons /\ spinning = FALSE /\ screen = "tabs"
        /\ due = << >> /\ DOMAIN << >> = {}
    BY Bounds DEF HomeInit
  <2> QED BY <2>2, <2>3, <2>4 DEF UploadInv
<1> QED BY <1>1, <1>2, <1>3, <1>4, <1>5 DEF HomeInv, FetchInv

-----------------------------------------------------------------------------
(* The steps of a fetch                                                    *)

\* Another fetch is started: nothing of it is asked for, answered or collected.
LEMMA FetchFeedKeeps ==
    ASSUME FetchInv, FetchFeed, rounds < MaxFetches, UNCHANGED <<gets, found, due>>
    PROVE  FetchInv'
<1>0. /\ FetchTypes /\ AskedOnce /\ NewestFirst
      /\ rounds \in Nat /\ rounds' = rounds + 1 /\ listing' = listing \cup {rounds + 1}
      /\ MaxFetches \in Nat
  BY Bounds DEF FetchInv, FetchTypes, FetchFeed
<1>1. FetchTypes'
  <2>1. 1..rounds \subseteq 1..rounds'
    BY <1>0
  <2>2. Message \subseteq Message'
    <3>1. Message' = [do : {"got"}, fetch : 1..rounds', cartoon : Dated] \cup [do : {"uploaded"}]
      BY DEF Message
    <3>2. ASSUME NEW m \in [do : {"got"}, fetch : 1..rounds, cartoon : Dated]
          PROVE  m \in [do : {"got"}, fetch : 1..rounds', cartoon : Dated]
      BY <2>1
    <3> QED BY <3>1, <3>2 DEF Message
  <2>3. due' \in Seq(Message')
    <3>1. due \in Seq(Message)
      BY <1>0 DEF FetchTypes
    <3>2. \A S, T : S \subseteq T => Seq(S) \subseteq Seq(T)
      OBVIOUS
    <3> QED BY <2>2, <3>1, <3>2
  <2>4. listing' \subseteq 1..rounds' /\ gets' \subseteq (1..rounds') \X Toon
    BY <1>0, <2>1 DEF FetchTypes
  <2> QED BY <1>0, <2>3, <2>4 DEF FetchTypes
<1>2. AskedOnce'
  <2>1. rounds + 1 \notin 1..rounds /\ 1..rounds \subseteq 1..rounds'
    BY <1>0
  <2>2. \A g \in gets : g[1] \in 1..rounds
    BY <1>0 DEF FetchTypes
  <2>3. \A i \in DOMAIN due : IsGot(due[i]) => due[i].fetch \in 1..rounds
    <3>1. \A i \in DOMAIN due : due[i] \in Message
      BY <1>0 DEF FetchTypes
    <3>2. ASSUME NEW m \in Message, IsGot(m) PROVE m.fetch \in 1..rounds
      BY <3>2 DEF Message, IsGot
    <3> QED BY <3>1, <3>2
  <2>4. \A g \in gets' : g[1] \notin listing'
    BY <1>0, <2>1, <2>2 DEF AskedOnce
  <2>5. \A i \in DOMAIN due' : IsGot(due'[i]) =>
           due'[i].fetch \notin listing' /\ <<due'[i].fetch, due'[i].cartoon.id>> \notin gets'
    BY <1>0, <2>1, <2>3 DEF AskedOnce
  <2>6. \A f \in 1..MaxFetches : \A m \in DOMAIN found'[f] :
           f \in 1..rounds' /\ f \notin listing' /\ <<f, found'[f][m].id>> \notin gets'
    BY <1>0, <2>1 DEF AskedOnce
  <2> QED BY <1>0, <2>4, <2>5, <2>6 DEF AskedOnce
<1>3. NewestFirst'
  BY <1>0 DEF NewestFirst
<1> QED BY <1>1, <1>2, <1>3 DEF FetchInv

\* The ids are answered once, so nothing of this fetch was asked for before.
LEMMA ListedKeeps ==
    ASSUME HomeInv, NEW n \in 1..MaxFetches, Listed(n) PROVE HomeInv'
<1>0. /\ StoredInv /\ FetchTypes /\ AskedOnce /\ NewestFirst /\ ListsInv /\ UploadInv
      /\ n \in listing /\ listing' = listing \ {n}
      /\ gets' = gets \cup {<<n, t>> : t \in {s \in Toon : Stored(s)}}
      /\ UNCHANGED <<found, due, rounds>>
  BY DEF HomeInv, FetchInv, Listed
<1>1. FetchTypes'
  <2>1. rounds \in 1..MaxFetches /\ listing \subseteq 1..rounds /\ gets \subseteq (1..rounds) \X Toon
    BY <1>0 DEF FetchTypes
  <2>2. n \in 1..rounds /\ listing' \subseteq 1..rounds
    BY <1>0, <2>1
  <2>3. gets' \subseteq (1..rounds) \X Toon
    BY <1>0, <2>1, <2>2
  <2>4. UNCHANGED due
    BY DEF Listed
  <2> QED BY <1>0, <2>1, <2>2, <2>3, <2>4 DEF FetchTypes, Message
<1>2. AskedOnce'
  <2>1. \A g \in gets' : g \in gets \/ g[1] = n
    BY <1>0
  <2>2. \A f, t : <<f, t>> \in gets' => <<f, t>> \in gets \/ f = n
    BY <1>0
  <2>3. \A f : f \in listing' => f \in listing /\ f # n
    BY <1>0
  <2>4. \A g \in gets' : g[1] \notin listing'
    BY <1>0, <2>1, <2>3 DEF AskedOnce
  <2>5. \A i \in DOMAIN due : IsGot(due[i]) =>
           due[i].fetch \notin listing' /\ <<due[i].fetch, due[i].cartoon.id>> \notin gets'
    BY <1>0, <2>2, <2>3 DEF AskedOnce
  <2>6. \A f \in 1..MaxFetches : \A m \in DOMAIN found[f] :
           f \notin listing' /\ <<f, found[f][m].id>> \notin gets'
    BY <1>0, <2>2, <2>3 DEF AskedOnce
  <2> QED BY <1>0, <2>4, <2>5, <2>6 DEF AskedOnce, IsGot
<1>3. NewestFirst'
  BY <1>0 DEF NewestFirst
<1>4. StoredInv' /\ ListsInv' /\ UploadInv'
  <2>1. UNCHANGED <<stored, changes, misses, lists, rounds, clock, mine, screen, uploads, due, spinning>>
    BY DEF Listed
  <2>2. spinning' \in BOOLEAN
    BY <1>0, <2>1 DEF UploadInv
  <2> QED BY <1>0, <2>1, <2>2, StoredKept, ListsKept, UploadKept
<1> QED BY <1>1, <1>2, <1>3, <1>4 DEF HomeInv, FetchInv

\* A failed read only takes something away.
LEMMA ReadFailsKeeps ==
    ASSUME HomeInv, ReadFails PROVE HomeInv'
<1>0. /\ StoredInv /\ FetchTypes /\ AskedOnce /\ NewestFirst /\ ListsInv /\ UploadInv
      /\ listing' \subseteq listing /\ gets' \subseteq gets
      /\ UNCHANGED <<found, due, rounds>>
  BY DEF HomeInv, FetchInv, ReadFails
<1>1. FetchTypes'
  BY <1>0 DEF FetchTypes, Message
<1>2. AskedOnce'
  BY <1>0 DEF AskedOnce, IsGot
<1>3. NewestFirst'
  BY <1>0 DEF NewestFirst
<1>4. StoredInv'
  <2>1. UNCHANGED <<stored, changes>> /\ misses' = misses + 1 /\ changes + misses < MaxMishaps
    BY DEF ReadFails
  <2>2. changes' \in Nat /\ misses' \in Nat /\ changes' + misses' <= MaxMishaps
    BY <1>0, <2>1, Bounds DEF StoredInv
  <2> QED BY <1>0, <2>1, <2>2 DEF StoredInv, Stored
<1>5. ListsInv' /\ UploadInv'
  <2>1. UNCHANGED <<lists, rounds, clock, mine, screen, uploads, due, spinning>>
    BY DEF ReadFails
  <2>2. spinning' \in BOOLEAN
    BY <1>0, <2>1 DEF UploadInv
  <2> QED BY <1>0, <2>1, <2>2, ListsKept, UploadKept
<1> QED BY <1>1, <1>2, <1>3, <1>4, <1>5 DEF HomeInv, FetchInv

\* A message is appended to the main thread's queue.
LEMMA AppendMain ==
    ASSUME FetchTypes, NEW m \in Message, due' = Append(due, m), UNCHANGED rounds
    PROVE  /\ due' \in Seq(Message')
           /\ DOMAIN due' = 1..Len(due) + 1 /\ DOMAIN due = 1..Len(due) /\ Len(due) \in Nat
           /\ \A i \in DOMAIN due' :
                 \/ i \in DOMAIN due /\ due'[i] = due[i]
                 \/ i = Len(due) + 1 /\ due'[i] = m
<1>1. Message' = Message
  BY DEF Message
<1>2. /\ due' \in Seq(Message) /\ Len(due) \in Nat
      /\ DOMAIN due' = 1..Len(due) + 1 /\ DOMAIN due = 1..Len(due)
      /\ \A i \in 1..Len(due) : due'[i] = due[i]
      /\ due'[Len(due) + 1] = m
  BY AppendFacts DEF FetchTypes
<1>3. \A i \in 1..Len(due) + 1 : i \in 1..Len(due) \/ i = Len(due) + 1
  BY <1>2
<1> QED BY <1>1, <1>2, <1>3

\* An answer joins the queue, and is no longer asked for.
LEMMA AnswerGetKeeps ==
    ASSUME HomeInv, NEW n \in 1..MaxFetches, NEW t \in Toon, AnswerGet(n, t) PROVE HomeInv'
<1>0. /\ StoredInv /\ FetchTypes /\ AskedOnce /\ NewestFirst /\ ListsInv /\ UploadInv
      /\ <<n, t>> \in gets /\ gets' = gets \ {<<n, t>>}
      /\ UNCHANGED <<stored, listing, found, rounds>>
  BY DEF HomeInv, FetchInv, AnswerGet
<1>1. StoredInv' /\ ListsInv'
  <2>1. UNCHANGED <<stored, changes, misses, lists, rounds>>
    BY DEF AnswerGet
  <2> QED BY <1>0, <2>1, StoredKept, ListsKept
<1>2. NewestFirst'
  BY <1>0 DEF NewestFirst
<1>3. UNCHANGED <<clock, mine, screen, uploads, spinning>> /\ spinning' \in BOOLEAN
  BY <1>0 DEF AnswerGet, UploadInv
<1>4. CASE ~Stored(t)
  <2>1. due' = due
    BY <1>4 DEF AnswerGet
  <2>2. FetchTypes'
    BY <1>0, <2>1 DEF FetchTypes, Message
  <2>3. AskedOnce'
    BY <1>0, <2>1 DEF AskedOnce, IsGot
  <2>4. UploadInv'
    BY <1>0, <1>3, <2>1, UploadKept
  <2> QED BY <1>1, <1>2, <2>2, <2>3, <2>4 DEF HomeInv, FetchInv
<1>5. CASE Stored(t)
  <2> DEFINE m == [do |-> "got", fetch |-> n, cartoon |-> Copy(t)]
  <2>1. due' = Append(due, m)
    BY <1>5 DEF AnswerGet
  <2>2. Copy(t) \in Dated /\ Copy(t).id = t
    BY <1>0, <1>5, CopyDated
  <2>3. n \in 1..rounds /\ n \notin listing
    BY <1>0 DEF FetchTypes, AskedOnce
  <2>4. m \in Message /\ m.do = "got" /\ m.fetch = n /\ m.cartoon.id = t
    BY <2>2, <2>3 DEF Message
  <2> HIDE DEF m
  <2>5. /\ due' \in Seq(Message')
        /\ DOMAIN due' = 1..Len(due) + 1 /\ DOMAIN due = 1..Len(due) /\ Len(due) \in Nat
        /\ \A i \in DOMAIN due' :
              \/ i \in DOMAIN due /\ due'[i] = due[i]
              \/ i = Len(due) + 1 /\ due'[i] = m
    BY <1>0, <2>1, <2>4, AppendMain
  <2>6. FetchTypes'
    BY <1>0, <2>5 DEF FetchTypes
  <2>7. AskedOnce'
    <3>1. \A g \in gets' : g[1] \notin listing'
      BY <1>0 DEF AskedOnce
    <3>2. ASSUME NEW i \in DOMAIN due', IsGot(due'[i])
          PROVE  /\ due'[i].fetch \notin listing'
                 /\ <<due'[i].fetch, due'[i].cartoon.id>> \notin gets'
      BY <1>0, <2>3, <2>4, <2>5, <3>2 DEF AskedOnce
    <3>3. ASSUME NEW i \in DOMAIN due', NEW j \in DOMAIN due', IsGot(due'[i]),
                 IsGot(due'[j]), i < j, due'[i].fetch = due'[j].fetch
          PROVE  due'[i].cartoon.id # due'[j].cartoon.id
      <4>1. i \in DOMAIN due /\ due'[i] = due[i]
        BY <2>5, <3>3
      <4>2. CASE j \in DOMAIN due /\ due'[j] = due[j]
        BY <1>0, <3>3, <4>1, <4>2 DEF AskedOnce
      <4>3. CASE due'[j] = m
        <5>1. due[i].fetch = n /\ <<due[i].fetch, due[i].cartoon.id>> \notin gets
          BY <1>0, <2>4, <3>3, <4>1, <4>3 DEF AskedOnce
        <5> QED BY <1>0, <2>4, <4>1, <4>3, <5>1
      <4> QED BY <2>5, <4>2, <4>3
    <3>4. ASSUME NEW f \in 1..MaxFetches, NEW k \in DOMAIN found[f]
          PROVE  /\ f \in 1..rounds /\ f \notin listing
                 /\ <<f, found[f][k].id>> \notin gets'
                 /\ \A i \in DOMAIN due' : IsGot(due'[i]) /\ due'[i].fetch = f =>
                       due'[i].cartoon.id # found[f][k].id
      <4>1. /\ f \in 1..rounds /\ f \notin listing /\ <<f, found[f][k].id>> \notin gets
            /\ \A i \in DOMAIN due : IsGot(due[i]) /\ due[i].fetch = f =>
                  due[i].cartoon.id # found[f][k].id
        BY <1>0 DEF AskedOnce
      <4>2. f = n => found[f][k].id # t
        BY <1>0, <4>1
      <4> QED BY <1>0, <2>4, <2>5, <4>1, <4>2
    <3> QED BY <1>0, <3>1, <3>2, <3>3, <3>4 DEF AskedOnce, IsGot
  <2>8. UploadInv'
    <3>1. \A i \in DOMAIN due' : due'[i].do = "uploaded" => i \in DOMAIN due /\ due'[i] = due[i]
      BY <2>4, <2>5
    <3> QED BY <1>0, <1>3, <3>1 DEF UploadInv, DueUploads
  <2> QED BY <1>1, <1>2, <2>6, <2>7, <2>8 DEF HomeInv, FetchInv
<1> QED BY <1>4, <1>5

\* The first message is taken from the queue: the others and what they say of
\* each other stay.
LEMMA TailMain ==
    ASSUME FetchTypes, AskedOnce, due # << >>, due' = Tail(due), UNCHANGED <<rounds, listing, gets>>
    PROVE  /\ Head(due) = due[1] /\ due[1] \in Message /\ 1 \in DOMAIN due
           /\ due' \in Seq(Message')
           /\ \A i \in DOMAIN due' : i \in Nat /\ i + 1 \in DOMAIN due /\ i + 1 # 1 /\ due'[i] = due[i + 1]
           /\ \A i \in DOMAIN due' : IsGot(due'[i]) =>
                 /\ due'[i].fetch \notin listing
                 /\ <<due'[i].fetch, due'[i].cartoon.id>> \notin gets
                 /\ IsGot(due[1]) /\ due[1].fetch = due'[i].fetch
                       => due[1].cartoon.id # due'[i].cartoon.id
           /\ \A i, j \in DOMAIN due' :
                 IsGot(due'[i]) /\ IsGot(due'[j]) /\ i < j /\ due'[i].fetch = due'[j].fetch
                    => due'[i].cartoon.id # due'[j].cartoon.id
<1>1. Message' = Message
  BY DEF Message
<1>2. /\ Head(due) = due[1] /\ due[1] \in Message /\ 1 \in DOMAIN due
      /\ due' \in Seq(Message)
      /\ DOMAIN due = 1..Len(due) /\ DOMAIN due' = 1..Len(due) - 1 /\ Len(due) \in Nat
      /\ \A i \in DOMAIN due' : i + 1 \in DOMAIN due /\ due'[i] = due[i + 1]
  BY TailFacts DEF FetchTypes
<1>3. \A i \in DOMAIN due' : i \in Nat /\ i + 1 # 1 /\ 1 < i + 1
  BY <1>2
<1>4. ASSUME NEW i \in DOMAIN due', IsGot(due'[i])
      PROVE  /\ due'[i].fetch \notin listing
             /\ <<due'[i].fetch, due'[i].cartoon.id>> \notin gets
             /\ IsGot(due[1]) /\ due[1].fetch = due'[i].fetch
                   => due[1].cartoon.id # due'[i].cartoon.id
  BY <1>2, <1>3, <1>4 DEF AskedOnce
<1>5. ASSUME NEW i \in DOMAIN due', NEW j \in DOMAIN due', IsGot(due'[i]), IsGot(due'[j]),
             i < j, due'[i].fetch = due'[j].fetch
      PROVE  due'[i].cartoon.id # due'[j].cartoon.id
  <2>1. i + 1 < j + 1
    BY <1>3, <1>5
  <2> QED BY <1>2, <1>5, <2>1 DEF AskedOnce
<1> QED BY <1>1, <1>2, <1>3, <1>4, <1>5

\* The callback: the answer joins the fetch's list, and the list is shown.
LEMMA GotKeeps ==
    ASSUME HomeInv, Got PROVE HomeInv'
<1> DEFINE m == due[1]
           n == m.fetch
           c == m.cartoon
           collected == Collect(found[n], c)
<1>0. /\ StoredInv /\ FetchTypes /\ AskedOnce /\ NewestFirst /\ ListsInv /\ UploadInv
      /\ due # << >> /\ Head(due).do = "got" /\ due' = Tail(due)
      /\ UNCHANGED <<stored, listing, gets, rounds, screen, uploads, changes, misses, clock, mine>>
      /\ spinning' = FALSE
  BY DEF HomeInv, FetchInv, Got
<1>1. /\ Head(due) = due[1] /\ due[1] \in Message /\ 1 \in DOMAIN due
      /\ due' \in Seq(Message')
      /\ \A i \in DOMAIN due' : i \in Nat /\ i + 1 \in DOMAIN due /\ i + 1 # 1 /\ due'[i] = due[i + 1]
      /\ \A i \in DOMAIN due' : IsGot(due'[i]) =>
            /\ due'[i].fetch \notin listing
            /\ <<due'[i].fetch, due'[i].cartoon.id>> \notin gets
            /\ IsGot(due[1]) /\ due[1].fetch = due'[i].fetch
                  => due[1].cartoon.id # due'[i].cartoon.id
      /\ \A i, j \in DOMAIN due' :
            IsGot(due'[i]) /\ IsGot(due'[j]) /\ i < j /\ due'[i].fetch = due'[j].fetch
               => due'[i].cartoon.id # due'[j].cartoon.id
  BY <1>0, TailMain
<1>2. /\ m.do = "got" /\ IsGot(m) /\ n \in 1..rounds /\ n \in 1..MaxFetches /\ c \in Dated
      /\ n \notin listing /\ <<n, c.id>> \notin gets
  <2>1. m.do = "got" /\ IsGot(m)
    BY <1>0, <1>1 DEF IsGot
  <2>2. n \in 1..rounds /\ c \in Dated
    BY <1>1, <2>1 DEF Message
  <2>3. n \in 1..MaxFetches
    BY <1>0, <2>2, Bounds DEF FetchTypes
  <2> QED BY <1>0, <1>1, <2>1, <2>2, <2>3 DEF AskedOnce
<1>3. /\ found[n] \in Seq(Dated) /\ Descending(found[n])
      /\ \A k \in DOMAIN found[n] : found[n][k].id # c.id /\ found[n][k].time # c.time
  <2>1. found[n] \in Seq(Dated)
    BY <1>0, <1>2 DEF FetchTypes
  <2>2. Descending(found[n])
    BY <1>0, <1>2 DEF NewestFirst, Descending
  <2>3. \A k \in DOMAIN found[n] : found[n][k].id # c.id
    BY <1>0, <1>1, <1>2 DEF AskedOnce
  <2>4. c.time = c.id /\ \A k \in DOMAIN found[n] : found[n][k].time = found[n][k].id
    BY <1>2, <2>1 DEF Dated
  <2> QED BY <2>1, <2>2, <2>3, <2>4
<1>4. /\ collected \in Seq(Dated) /\ Descending(collected)
      /\ \A k \in DOMAIN collected :
            collected[k] = c \/ \E j \in DOMAIN found[n] : collected[k] = found[n][j]
  BY <1>2, <1>3, CollectSorts
<1>5. found' = [found EXCEPT ![n] = collected] /\ MergeLists(collected)
  BY <1>0, <1>1 DEF Got
<1>6. /\ found' \in [1..MaxFetches -> Seq(Dated)]
      /\ found'[n] = collected
      /\ \A f \in 1..MaxFetches : f # n => found'[f] = found[f]
  <2>1. found \in [1..MaxFetches -> Seq(Dated)]
    BY <1>0 DEF FetchTypes
  <2> HIDE DEF collected, n
  <2> QED BY <1>2, <1>4, <1>5, <2>1
<1>7. FetchTypes'
  BY <1>0, <1>1, <1>6 DEF FetchTypes
<1> HIDE DEF collected, m, n, c
<1>8. NewestFirst'
  <2>1. ASSUME NEW f \in 1..MaxFetches PROVE Descending(found'[f])
    <3>1. CASE f = n
      BY <1>4, <1>6, <3>1
    <3>2. CASE f # n
      BY <1>0, <1>6, <3>2 DEF NewestFirst, Descending
    <3> QED BY <3>1, <3>2
  <2> QED BY <2>1 DEF NewestFirst, Descending
<1>9. AskedOnce'
  <2>1. \A g \in gets' : g[1] \notin listing'
    BY <1>0 DEF AskedOnce
  <2>2. \A i \in DOMAIN due' : IsGot(due'[i]) =>
           due'[i].fetch \notin listing' /\ <<due'[i].fetch, due'[i].cartoon.id>> \notin gets'
    BY <1>0, <1>1
  <2>3. ASSUME NEW f \in 1..MaxFetches, NEW k \in DOMAIN found[f]
        PROVE  /\ f \in 1..rounds /\ f \notin listing /\ <<f, found[f][k].id>> \notin gets
               /\ \A i \in DOMAIN due' : IsGot(due'[i]) /\ due'[i].fetch = f =>
                     due'[i].cartoon.id # found[f][k].id
    <3>1. /\ f \in 1..rounds /\ f \notin listing /\ <<f, found[f][k].id>> \notin gets
          /\ \A i \in DOMAIN due : IsGot(due[i]) /\ due[i].fetch = f =>
                due[i].cartoon.id # found[f][k].id
      BY <1>0 DEF AskedOnce
    <3>2. \A i \in DOMAIN due' : i + 1 \in DOMAIN due /\ due'[i] = due[i + 1]
      BY <1>1
    <3> QED BY <3>1, <3>2
  <2>4. ASSUME NEW f \in 1..MaxFetches, NEW k \in DOMAIN found'[f]
        PROVE  /\ f \in 1..rounds /\ f \notin listing /\ <<f, found'[f][k].id>> \notin gets
               /\ \A i \in DOMAIN due' : IsGot(due'[i]) /\ due'[i].fetch = f =>
                     due'[i].cartoon.id # found'[f][k].id
    <3>1. CASE f # n
      <4>1. found'[f] = found[f] /\ k \in DOMAIN found[f]
        BY <1>6, <3>1
      <4> QED BY <2>3, <4>1
    <3>2. CASE f = n
      <4>1. k \in DOMAIN collected /\ found'[f][k] = collected[k]
        BY <1>6, <3>2
      <4>2. CASE \E j \in DOMAIN found[n] : collected[k] = found[n][j]
        <5>1. PICK j \in DOMAIN found[f] : found'[f][k] = found[f][j]
          BY <3>2, <4>1, <4>2
        <5> QED BY <2>3, <5>1
      <4>3. CASE collected[k] = c
        <5>1. \A i \in DOMAIN due' : IsGot(due'[i]) /\ due'[i].fetch = n => due'[i].cartoon.id # c.id
          BY <1>1, <1>2 DEF m, n, c
        <5> QED BY <1>2, <3>2, <4>1, <4>3, <5>1
      <4> QED BY <1>4, <4>1, <4>2, <4>3
    <3> QED BY <3>1, <3>2
  <2> QED BY <1>0, <1>1, <2>1, <2>2, <2>4 DEF AskedOnce, IsGot
<1>10. ListsInv'
  <2>1. collected \in Seq(Value)
    <3>1. Dated \subseteq Value
      BY DEF Dated
    <3>2. \A S, T : S \subseteq T => Seq(S) \subseteq Seq(T)
      OBVIOUS
    <3> QED BY <1>4, <3>1, <3>2
  <2>2. rounds' = rounds
    BY <1>0
  <2> QED BY <1>0, <1>5, <2>1, <2>2, MergeListsKeeps
<1>11. StoredInv'
  BY <1>0, StoredKept
<1>12. UploadInv'
  <2>1. \A i \in DOMAIN due' : i \in Nat /\ i + 1 \in DOMAIN due /\ due'[i] = due[i + 1]
    BY <1>1
  <2>2. ASSUME NEW i \in DOMAIN due', due'[i].do = "uploaded"
        PROVE  screen' = "sent" /\ \A j \in DOMAIN due' : due'[j].do = "uploaded" => i = j
    <3>1. due[i + 1].do = "uploaded" /\ i + 1 \in DOMAIN due /\ i \in Nat
      BY <2>1, <2>2
    <3>2. /\ screen = "sent"
          /\ \A j \in DOMAIN due : due[j].do = "uploaded" => i + 1 = j
      BY <1>0, <3>1 DEF UploadInv
    <3>3. ASSUME NEW j \in DOMAIN due', due'[j].do = "uploaded" PROVE i = j
      <4>1. j \in Nat /\ i + 1 = j + 1
        BY <2>1, <3>2, <3>3
      <4> QED BY <3>1, <4>1
    <3> QED BY <1>0, <3>2, <3>3
  <2>3. /\ clock' \in 0..MaxToons /\ mine' \subseteq 1..clock' /\ spinning' \in BOOLEAN
        /\ screen' \in {"tabs", "setup", "upload", "sending", "sent"}
        /\ uploads' \in Nat /\ uploads' + DueUploads' <= Cardinality(mine')
    BY <1>0 DEF UploadInv, DueUploads
  <2> QED BY <2>2, <2>3 DEF UploadInv
<1> QED BY <1>7, <1>8, <1>9, <1>10, <1>11, <1>12 DEF HomeInv, FetchInv

-----------------------------------------------------------------------------
(* Refreshes                                                               *)

\* A refresh clears ALL and starts another fetch.
LEMMA WantRefreshKeeps ==
    ASSUME FetchInv, ListsInv, WantRefresh, UNCHANGED <<gets, found, due>>
    PROVE  FetchInv' /\ ListsInv'
<1>1. FetchFeed /\ rounds < MaxFetches /\ all' = << >> /\ kinds' = kinds
  BY DEF WantRefresh
<1>2. FetchInv'
  BY <1>1, FetchFeedKeeps
<1>3. OnDisplay'.all = << >> /\ OnDisplay'.kinds = OnDisplay.kinds
  BY <1>1 DEF OnDisplay
<1>4. ListsAreSound(OnDisplay')
  <2>1. << >> \in Seq(Value) /\ DOMAIN << >> = {}
    OBVIOUS
  <2>2. IsInjective(<< >>)
    BY <2>1 DEF IsInjective
  <2>3. ListsAreSound(OnDisplay)
    BY DEF ListsInv
  <2> HIDE DEF OnDisplay
  <2> QED BY <1>3, <2>1, <2>2, <2>3 DEF ListsAreSound
<1>5. rounds' # 1
  BY <1>1, Bounds DEF FetchFeed, FetchInv, FetchTypes
<1>6. ListsInv'
  BY <1>4, <1>5 DEF ListsInv, ListsAreSound, Covers
<1> QED BY <1>2, <1>6

\* Both ways to refresh.
LEMMA RefreshKeeps ==
    ASSUME HomeInv, PullRefresh \/ CancelSetUp PROVE HomeInv'
<1>0. StoredInv /\ FetchInv /\ ListsInv /\ UploadInv
  BY DEF HomeInv
<1>1. WantRefresh /\ UNCHANGED <<stored, gets, found, due, uploads, changes, misses, clock, mine>>
  BY DEF PullRefresh, CancelSetUp
<1>2. StoredInv' /\ FetchInv' /\ ListsInv'
  BY <1>0, <1>1, StoredKept, WantRefreshKeeps
<1>3. UploadInv'
  <2>1. CASE PullRefresh
    <3>1. UNCHANGED screen /\ spinning' \in BOOLEAN
      BY <2>1 DEF PullRefresh
    <3> QED BY <1>0, <1>1, <3>1, UploadKept
  <2>2. CASE CancelSetUp
    <3>1. screen = "setup" /\ screen' = "tabs" /\ UNCHANGED spinning
      BY <2>2 DEF CancelSetUp
    <3> QED BY <1>0, <1>1, <3>1 DEF UploadInv, DueUploads
  <2> QED BY <2>1, <2>2
<1> QED BY <1>2, <1>3 DEF HomeInv

\* The other screens are put over the tabs, and taken back.
LEMMA ScreenKeeps ==
    ASSUME HomeInv, OpenSetUp \/ OpenUpload \/ CancelUpload PROVE HomeInv'
<1>0. StoredInv /\ FetchInv /\ ListsInv /\ UploadInv
  BY DEF HomeInv
<1>1. /\ UNCHANGED <<stored, reads, due, rounds, lists, spinning, uploads, changes, misses, clock, mine>>
      /\ screen \in {"tabs", "setup", "upload"} /\ screen' \in {"setup", "upload"}
  BY DEF OpenSetUp, OpenUpload, CancelUpload
<1>2. StoredInv' /\ FetchInv' /\ ListsInv'
  BY <1>0, <1>1, StoredKept, FetchKept, ListsKept
<1>3. UploadInv'
  BY <1>0, <1>1 DEF UploadInv, DueUploads
<1> QED BY <1>2, <1>3 DEF HomeInv

-----------------------------------------------------------------------------
(* Uploads                                                                 *)

\* A new document of anyone's: another id, another time.
LEMMA NewCartoonKeeps ==
    ASSUME StoredInv, UploadInv, NEW t \in Toon, NEW type \in Type, NewCartoon(t, type),
           UNCHANGED <<changes, misses>>
    PROVE  /\ StoredInv'
           /\ t = clock + 1 /\ clock' = clock + 1 /\ clock' \in 0..MaxToons
           /\ t \notin mine /\ mine \subseteq 1..clock'
<1>1. /\ t = clock + 1 /\ clock' = clock + 1
      /\ stored' = [stored EXCEPT ![t] = [type |-> type, like |-> 0, time |-> clock + 1]]
      /\ clock \in 0..MaxToons /\ mine \subseteq 1..clock /\ t \in 1..MaxToons
  BY DEF NewCartoon, UploadInv, Toon
<1>2. /\ clock' \in 0..MaxToons /\ t \notin mine /\ mine \subseteq 1..clock'
  BY <1>1, Bounds
<1>3. StoredInv'
  <2>1. DOMAIN stored' = Toon /\ stored'[t] = [type |-> type, like |-> 0, time |-> t]
    BY <1>1 DEF StoredInv
  <2>2. \A s \in Toon : s # t => stored'[s] = stored[s]
    BY <1>1 DEF StoredInv
  <2>3. stored'[t] \in [type : Type, like : 0..changes, time : {t}]
    BY <2>1 DEF StoredInv
  <2>4. ASSUME NEW s \in Toon, Stored(s)'
        PROVE  stored'[s] \in [type : Type, like : 0..changes, time : {s}]
    <3>1. CASE s = t
      BY <2>3, <3>1
    <3>2. CASE s # t
      BY <2>2, <2>4, <3>2 DEF StoredInv, Stored
    <3> QED BY <3>1, <3>2
  <2> QED BY <2>1, <2>4 DEF StoredInv, Stored
<1> QED BY <1>1, <1>2, <1>3

\* The own upload: its id is new, so one more completion may become due.
LEMMA UploadKeeps ==
    ASSUME HomeInv, NEW t \in Toon, NEW type \in Type, Upload(t, type) PROVE HomeInv'
<1>0. /\ StoredInv /\ FetchInv /\ ListsInv /\ UploadInv
      /\ screen = "upload" /\ NewCartoon(t, type) /\ mine' = mine \cup {t} /\ screen' = "sending"
      /\ UNCHANGED <<reads, due, rounds, lists, spinning, uploads, changes, misses>>
  BY DEF HomeInv, Upload
<1>1. /\ StoredInv' /\ t = clock + 1 /\ clock' = clock + 1 /\ clock' \in 0..MaxToons
      /\ t \notin mine /\ mine \subseteq 1..clock'
  BY <1>0, NewCartoonKeeps
<1>2. FetchInv' /\ ListsInv'
  BY <1>0, FetchKept, ListsKept
<1>3. UploadInv'
  <2>1. clock \in 0..MaxToons /\ mine \subseteq 1..clock /\ uploads \in Nat /\ uploads + DueUploads <= Cardinality(mine)
    BY <1>0 DEF UploadInv
  <2>2. IsFiniteSet(mine)
    <3>1. IsFiniteSet(1..clock)
      BY <2>1, Bounds, FS_Interval
    <3> QED BY <2>1, <3>1, FS_Subset
  <2>3. Cardinality(mine') = Cardinality(mine) + 1 /\ Cardinality(mine) \in Nat
    BY <1>0, <1>1, <2>2, FS_AddElement, FS_CardinalityType
  <2>4. DueUploads = 0 /\ DueUploads' = 1
    BY <1>0 DEF DueUploads
  <2>5. uploads' + DueUploads' <= Cardinality(mine') /\ uploads' \in Nat
    BY <1>0, <2>1, <2>3, <2>4
  <2>6. mine' \subseteq 1..clock'
    BY <1>0, <1>1, <2>1
  <2>7. \A i \in DOMAIN due' : due'[i].do # "uploaded"
    BY <1>0 DEF UploadInv
  <2>8. spinning' \in BOOLEAN
    BY <1>0 DEF UploadInv
  <2> QED BY <1>0, <1>1, <2>5, <2>6, <2>7, <2>8 DEF UploadInv
<1> QED BY <1>1, <1>2, <1>3 DEF HomeInv

\* Another account's upload.
LEMMA OthersUploadKeeps ==
    ASSUME HomeInv, NEW t \in Toon, NEW type \in Type, OthersUpload(t, type) PROVE HomeInv'
<1>0. /\ StoredInv /\ FetchInv /\ ListsInv /\ UploadInv /\ NewCartoon(t, type)
      /\ UNCHANGED <<reads, due, rounds, lists, spinning, screen, uploads, changes, misses, mine>>
  BY DEF HomeInv, OthersUpload
<1>1. StoredInv' /\ clock' \in 0..MaxToons /\ mine \subseteq 1..clock'
  BY <1>0, NewCartoonKeeps
<1>2. FetchInv' /\ ListsInv'
  BY <1>0, FetchKept, ListsKept
<1>3. UploadInv'
  BY <1>0, <1>1 DEF UploadInv, DueUploads
<1> QED BY <1>1, <1>2, <1>3 DEF HomeInv

\* Another account's like, edit or deletion.
LEMMA OthersChangeKeeps ==
    ASSUME HomeInv, NEW t \in Toon, OthersChange(t) PROVE HomeInv'
<1>0. /\ StoredInv /\ FetchInv /\ ListsInv /\ UploadInv
      /\ changes + misses < MaxMishaps /\ changes' = changes + 1 /\ Stored(t)
      /\ UNCHANGED <<reads, due, rounds, lists, spinning, screen, uploads, misses, clock, mine>>
  BY DEF HomeInv, OthersChange
<1>1. FetchInv' /\ ListsInv'
  BY <1>0, FetchKept, ListsKept
<1>2. UploadInv'
  BY <1>0, UploadKept DEF UploadInv
<1>3. StoredInv'
  <2>1. /\ DOMAIN stored = Toon /\ changes \in Nat /\ misses \in Nat
        /\ stored[t] \in [type : Type, like : 0..changes, time : {t}]
    BY <1>0 DEF StoredInv
  <2>2. changes' \in Nat /\ changes' + misses' <= MaxMishaps
    BY <1>0, <2>1, Bounds
  <2>3. \E v : /\ stored' = [stored EXCEPT ![t] = v]
               /\ v = Deleted \/ v \in [type : Type, like : 0..changes + 1, time : {t}]
    <3>1. CASE stored' = [stored EXCEPT ![t].like = @ + 1]
      <4> DEFINE v == [stored[t] EXCEPT !.like = @ + 1]
      <4>1. stored' = [stored EXCEPT ![t] = v]
        BY <3>1
      <4>2. v \in [type : Type, like : 0..changes + 1, time : {t}]
        BY <2>1
      <4> QED BY <4>1, <4>2
    <3>2. CASE \E type \in Type \ {stored[t].type} : stored' = [stored EXCEPT ![t].type = type]
      <4>1. PICK type \in Type : stored' = [stored EXCEPT ![t].type = type]
        BY <3>2
      <4> DEFINE v == [stored[t] EXCEPT !.type = type]
      <4>2. stored' = [stored EXCEPT ![t] = v]
        BY <4>1
      <4>3. v \in [type : Type, like : 0..changes + 1, time : {t}]
        BY <2>1
      <4> QED BY <4>2, <4>3
    <3>3. CASE stored' = [stored EXCEPT ![t] = Deleted]
      BY <3>3
    <3> QED BY <3>1, <3>2, <3>3 DEF OthersChange
  <2>4. PICK v : /\ stored' = [stored EXCEPT ![t] = v]
                 /\ v = Deleted \/ v \in [type : Type, like : 0..changes + 1, time : {t}]
    BY <2>3
  <2>5. ASSUME NEW s \in Toon, Stored(s)'
        PROVE  stored'[s] \in [type : Type, like : 0..changes + 1, time : {s}]
    <3>1. CASE s = t
      BY <2>1, <2>4, <2>5, <3>1 DEF Stored
    <3>2. CASE s # t
      <4>1. stored'[s] = stored[s] /\ Stored(s)
        BY <2>1, <2>4, <2>5, <3>2 DEF Stored
      <4>2. stored[s] \in [type : Type, like : 0..changes, time : {s}]
        BY <1>0, <4>1 DEF StoredInv
      <4>3. 0..changes \subseteq 0..changes + 1
        BY <2>1
      <4> QED BY <4>1, <4>2, <4>3
    <3> QED BY <3>1, <3>2
  <2>6. DOMAIN stored' = Toon
    BY <2>1, <2>4
  <2> QED BY <1>0, <2>1, <2>2, <2>5, <2>6 DEF StoredInv, Stored
<1> QED BY <1>1, <1>2, <1>3 DEF HomeInv

\* The completion of an upload joins the queue, the only one there.
LEMMA AcknowledgeUploadKeeps ==
    ASSUME HomeInv, AcknowledgeUpload PROVE HomeInv'
<1> DEFINE m == [do |-> "uploaded"]
<1>0. /\ StoredInv /\ FetchTypes /\ AskedOnce /\ NewestFirst /\ ListsInv /\ UploadInv
      /\ screen = "sending" /\ screen' = "sent" /\ due' = Append(due, m)
      /\ UNCHANGED <<stored, reads, rounds, lists, spinning, uploads, changes, misses, clock, mine>>
      /\ UNCHANGED <<listing, gets, found>>
  BY DEF HomeInv, FetchInv, AcknowledgeUpload, reads
<1>1. StoredInv' /\ ListsInv'
  BY <1>0, StoredKept, ListsKept
<1>2. m \in Message /\ m.do = "uploaded" /\ ~IsGot(m)
  BY DEF Message, IsGot
<1> HIDE DEF m
<1>3. /\ due' \in Seq(Message')
      /\ DOMAIN due' = 1..Len(due) + 1 /\ DOMAIN due = 1..Len(due) /\ Len(due) \in Nat
      /\ \A i \in DOMAIN due' :
            \/ i \in DOMAIN due /\ due'[i] = due[i]
            \/ i = Len(due) + 1 /\ due'[i] = m
  BY <1>0, <1>2, AppendMain
<1>4. FetchTypes'
  BY <1>0, <1>3 DEF FetchTypes
<1>5. NewestFirst'
  BY <1>0 DEF NewestFirst
<1>6. AskedOnce'
  <2>1. \A i \in DOMAIN due' : IsGot(due'[i]) => i \in DOMAIN due /\ due'[i] = due[i]
    BY <1>2, <1>3
  <2> QED BY <1>0, <2>1 DEF AskedOnce, IsGot
<1>7. UploadInv'
  <2>1. \A i \in DOMAIN due : due[i].do # "uploaded"
    BY <1>0 DEF UploadInv
  <2>2. \A i \in DOMAIN due' : due'[i].do = "uploaded" => i = Len(due) + 1
    BY <1>3, <2>1
  <2>3. DueUploads = 1 /\ DueUploads' = 1
    BY <1>0 DEF DueUploads
  <2> QED BY <1>0, <2>2, <2>3 DEF UploadInv
<1> QED BY <1>1, <1>4, <1>5, <1>6, <1>7 DEF HomeInv, FetchInv

\* The completion runs: the upload counts, and no other is due.
LEMMA UploadedKeeps ==
    ASSUME HomeInv, Uploaded PROVE HomeInv'
<1>0. /\ StoredInv /\ FetchTypes /\ AskedOnce /\ NewestFirst /\ ListsInv /\ UploadInv
      /\ due # << >> /\ Head(due).do = "uploaded" /\ due' = Tail(due)
      /\ uploads' = uploads + 1 /\ screen' \in {"tabs", "setup"}
      /\ UNCHANGED <<stored, reads, rounds, lists, spinning, changes, misses, clock, mine>>
      /\ UNCHANGED <<listing, gets, found>>
  BY DEF HomeInv, FetchInv, Uploaded, reads
<1>1. StoredInv' /\ ListsInv'
  BY <1>0, StoredKept, ListsKept
<1>2. /\ Head(due) = due[1] /\ due[1] \in Message /\ 1 \in DOMAIN due
      /\ due' \in Seq(Message')
      /\ \A i \in DOMAIN due' : i \in Nat /\ i + 1 \in DOMAIN due /\ i + 1 # 1 /\ due'[i] = due[i + 1]
      /\ \A i \in DOMAIN due' : IsGot(due'[i]) =>
            /\ due'[i].fetch \notin listing
            /\ <<due'[i].fetch, due'[i].cartoon.id>> \notin gets
            /\ IsGot(due[1]) /\ due[1].fetch = due'[i].fetch
                  => due[1].cartoon.id # due'[i].cartoon.id
      /\ \A i, j \in DOMAIN due' :
            IsGot(due'[i]) /\ IsGot(due'[j]) /\ i < j /\ due'[i].fetch = due'[j].fetch
               => due'[i].cartoon.id # due'[j].cartoon.id
  BY <1>0, TailMain
<1>3. FetchTypes'
  BY <1>0, <1>2 DEF FetchTypes
<1>4. NewestFirst'
  BY <1>0 DEF NewestFirst
<1>5. AskedOnce'
  <2>1. ASSUME NEW f \in 1..MaxFetches, NEW k \in DOMAIN found[f]
        PROVE  /\ f \in 1..rounds /\ f \notin listing /\ <<f, found[f][k].id>> \notin gets
               /\ \A i \in DOMAIN due' : IsGot(due'[i]) /\ due'[i].fetch = f =>
                     due'[i].cartoon.id # found[f][k].id
    <3>1. /\ f \in 1..rounds /\ f \notin listing /\ <<f, found[f][k].id>> \notin gets
          /\ \A i \in DOMAIN due : IsGot(due[i]) /\ due[i].fetch = f =>
                due[i].cartoon.id # found[f][k].id
      BY <1>0 DEF AskedOnce
    <3>2. \A i \in DOMAIN due' : i + 1 \in DOMAIN due /\ due'[i] = due[i + 1]
      BY <1>2
    <3> QED BY <3>1, <3>2
  <2>2. \A g \in gets : g[1] \notin listing
    BY <1>0 DEF AskedOnce
  <2>3. /\ \A i \in DOMAIN due' : IsGot(due'[i]) =>
              due'[i].fetch \notin listing /\ <<due'[i].fetch, due'[i].cartoon.id>> \notin gets
        /\ \A i, j \in DOMAIN due' :
              IsGot(due'[i]) /\ IsGot(due'[j]) /\ i < j /\ due'[i].fetch = due'[j].fetch
                 => due'[i].cartoon.id # due'[j].cartoon.id
    BY <1>2
  <2> QED BY <1>0, <2>1, <2>2, <2>3 DEF AskedOnce, IsGot
<1>6. UploadInv'
  <2>1. screen = "sent" /\ \A j \in DOMAIN due : due[j].do = "uploaded" => 1 = j
    BY <1>0, <1>2 DEF UploadInv
  <2>2. \A i \in DOMAIN due' : due'[i].do # "uploaded"
    BY <1>2, <2>1
  <2>3. DueUploads = 1 /\ DueUploads' = 0
    BY <1>0, <2>1 DEF DueUploads
  <2>4. IsFiniteSet(mine)
    <3>1. clock \in 0..MaxToons /\ mine \subseteq 1..clock
      BY <1>0 DEF UploadInv
    <3>2. IsFiniteSet(1..clock)
      BY <3>1, Bounds, FS_Interval
    <3> QED BY <3>1, <3>2, FS_Subset
  <2>5. Cardinality(mine) \in Nat
    BY <2>4, FS_CardinalityType
  <2>6. uploads' \in Nat /\ uploads' + DueUploads' <= Cardinality(mine')
    BY <1>0, <2>3, <2>5 DEF UploadInv
  <2> QED BY <1>0, <2>2, <2>6 DEF UploadInv
<1> QED BY <1>1, <1>3, <1>4, <1>5, <1>6 DEF HomeInv, FetchInv

-----------------------------------------------------------------------------
(* The theorems                                                            *)

\* One step, by its action.
LEMMA StepHolds == HomeInv /\ [HomeNext]_homeVars => HomeInv'
<1> SUFFICES ASSUME HomeInv, [HomeNext]_homeVars PROVE HomeInv'
  OBVIOUS
<1>1. CASE ReadAnswered
  BY <1>1, ListedKeeps, AnswerGetKeeps DEF ReadAnswered
<1>2. CASE ReadFails
  BY <1>2, ReadFailsKeeps
<1>3. CASE Got
  BY <1>3, GotKeeps
<1>4. CASE AcknowledgeUpload
  BY <1>4, AcknowledgeUploadKeeps
<1>5. CASE Uploaded
  BY <1>5, UploadedKeeps
<1>6. CASE PullRefresh \/ CancelSetUp
  BY <1>6, RefreshKeeps
<1>7. CASE OpenSetUp \/ OpenUpload \/ CancelUpload
  BY <1>7, ScreenKeeps
<1>8. CASE \E t \in Toon, type \in Type : Upload(t, type) \/ OthersUpload(t, type)
  BY <1>8, UploadKeeps, OthersUploadKeeps
<1>9. CASE \E t \in Toon : OthersChange(t)
  BY <1>9, OthersChangeKeeps
<1>10. CASE UNCHANGED homeVars
  <2>1. /\ UNCHANGED <<stored, changes, misses>> /\ UNCHANGED <<reads, due, rounds>>
        /\ UNCHANGED <<lists, rounds>> /\ UNCHANGED <<clock, mine, screen, uploads, due>>
        /\ UNCHANGED spinning
    BY <1>10 DEF homeVars
  <2> QED BY <2>1, StoredKept, FetchKept, ListsKept, UploadKept DEF HomeInv, UploadInv
<1> QED BY <1>1, <1>2, <1>3, <1>4, <1>5, <1>6, <1>7, <1>8, <1>9, <1>10 DEF HomeNext

\* The invariant holds of every behaviour.
LEMMA HomeInvHolds == HomeSpec => []HomeInv
<1> QED BY InitHolds, StepHolds, PTL DEF HomeSpec

\* ALL and the lists of the categories agree, for all types and bounds: what
\* ALL shows its category lists too, and until a refresh clears ALL it shows
\* all that the three categories list (fetchCartoon's branches).
THEOREM KindsCorrect == HomeSpec => []KindsAgree
<1>1. HomeInv => KindsAgree
  <2> SUFFICES ASSUME HomeInv PROVE KindsAgree
    OBVIOUS
  <2>1. ListsAreSound(OnDisplay) /\ (rounds = 1 => Covers(OnDisplay))
    BY DEF HomeInv, ListsInv
  <2>2. AllWithinKinds
    BY <2>1 DEF AllWithinKinds, ListsAreSound, OnDisplay
  <2>3. ASSUME rounds = 1
        PROVE  ToSet(all) = UNION {ToSet(kinds[k]) : k \in Kind \ {"RECOM"}}
    <3>1. /\ \A i \in DOMAIN all : KindOf(all[i]) # "RECOM"
          /\ \A k \in Kind \ {"RECOM"} : \A i \in DOMAIN kinds[k] : Contains(all, kinds[k][i])
      BY <2>1, <2>3 DEF Covers, OnDisplay
    <3>2. all \in Seq(Value) /\ \A k \in Kind : kinds[k] \in Seq(OfKind(k))
      BY <2>1 DEF ListsAreSound, OnDisplay
    <3>3. ASSUME NEW i \in DOMAIN all
          PROVE  \E k \in Kind \ {"RECOM"} : all[i] \in ToSet(kinds[k])
      <4>1. KindOf(all[i]) \in Kind \ {"RECOM"} /\ Contains(kinds[KindOf(all[i])], all[i])
        BY <2>2, <3>1, KindOfKind DEF AllWithinKinds
      <4>2. PICK j \in DOMAIN kinds[KindOf(all[i])] : kinds[KindOf(all[i])][j] = all[i]
        BY <3>2, <4>1, ContainsMeans
      <4>3. all[i] \in ToSet(kinds[KindOf(all[i])])
        BY <4>2 DEF ToSet
      <4> QED BY <4>1, <4>3
    <3>4. ASSUME NEW k \in Kind \ {"RECOM"}, NEW i \in DOMAIN kinds[k]
          PROVE  kinds[k][i] \in ToSet(all)
      <4>1. PICK j \in DOMAIN all : all[j] = kinds[k][i]
        BY <3>1, <3>2, ContainsMeans
      <4> QED BY <4>1 DEF ToSet
    <3> QED BY <3>3, <3>4 DEF ToSet
  <2> QED BY <2>2, <2>3 DEF KindsAgree, AllCoversKinds
<1> QED BY <1>1, HomeInvHolds, PTL

\* The state is well typed, in particular each cartoon is listed under its own
\* category, no list shows a cartoon twice and each fetch hands its cartoons
\* over newest first, for all types and bounds (fetchCartoonFeed's sort,
\* fetchCartoon's contains).
THEOREM ListsCorrect == HomeSpec => []ListsSound
<1>1. HomeInv => ListsSound
  <2> SUFFICES ASSUME HomeInv PROVE ListsSound
    OBVIOUS
  <2>0. StoredInv /\ FetchTypes /\ NewestFirst /\ UploadInv /\ ListsAreSound(OnDisplay)
    BY DEF HomeInv, FetchInv, ListsInv
  <2>1. NoRepeats
    BY <2>0 DEF NoRepeats, ListsAreSound, OnDisplay
  <2>2. HomeTypeOK
    <3>1. \A t \in Toon : Stored(t) => Copy(t) \in Value
      BY <2>0, CopyDated DEF Dated
    <3>2. \A n \in 1..MaxFetches : found[n] \in Seq(Value)
      <4>1. Dated \subseteq Value
        BY DEF Dated
      <4>2. \A S, T : S \subseteq T => Seq(S) \subseteq Seq(T)
        OBVIOUS
      <4> QED BY <2>0, <4>1, <4>2 DEF FetchTypes
    <3>3. all \in Seq(Value) /\ \A k \in Kind : kinds[k] \in Seq({c \in Value : KindOf(c) = k})
      BY <2>0 DEF ListsAreSound, OnDisplay, OfKind
    <3>4. uploads \in 0..Cardinality(mine) /\ mine \subseteq Toon
      <4>1. /\ clock \in 0..MaxToons /\ mine \subseteq 1..clock
            /\ uploads \in Nat /\ uploads + DueUploads <= Cardinality(mine)
        BY <2>0 DEF UploadInv
      <4>2. DueUploads \in {0, 1}
        BY DEF DueUploads
      <4>3. mine \subseteq Toon
        BY <4>1, Bounds DEF Toon
      <4>4. Cardinality(mine) \in Nat
        <5>1. IsFiniteSet(1..clock)
          BY <4>1, Bounds, FS_Interval
        <5>2. IsFiniteSet(mine)
          BY <4>1, <5>1, FS_Subset
        <5> QED BY <5>2, FS_CardinalityType
      <4> QED BY <4>1, <4>2, <4>3, <4>4
    <3>5. /\ listing \subseteq 1..rounds /\ gets \subseteq (1..rounds) \X Toon
          /\ rounds \in 1..MaxFetches /\ spinning \in BOOLEAN
          /\ screen \in {"tabs", "setup", "upload", "sending", "sent"}
      BY <2>0 DEF FetchTypes, UploadInv
    <3> QED BY <3>1, <3>2, <3>3, <3>4, <3>5 DEF HomeTypeOK
  <2> QED BY <2>0, <2>1, <2>2 DEF ListsSound
<1> QED BY <1>1, HomeInvHolds, PTL
=============================================================================
