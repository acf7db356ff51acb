-------------------------------- MODULE Likes --------------------------------
(***************************************************************************)
(* One cartoon, the accounts that like and unlike it from their cartoon    *)
(* screens, and its author, who may also edit and delete it.               *)
(*                                                                         *)
(* A tap on the heart writes a new value of the cartoon's counter and the  *)
(* document cartoons/c/cartoon-likes/u; when that second write is          *)
(* acknowledged its handler writes the mirror users/u/user-likes/c; when a *)
(* like's mirror is acknowledged the author is notified.  The screen keeps *)
(* two copies of the cartoon: the controller's (vc) and the cell's (cell). *)
(***************************************************************************)
EXTENDS Firestore

CONSTANTS
    Author,       \* the account that uploaded the cartoon
    Closed,       \* the screen's content while it is not open
    Unfetched,    \* the home list's snapshot before the cartoon was fetched
    MaxTaps,      \* bound: taps on the heart, per account
    MaxVisits,    \* bound: times an account opens the cartoon
    MaxEdits,     \* bound: edits by the author
    MaxDeletes,   \* bound: deletions the author confirms
    MaxRestarts   \* bound: restarts of the application, per device

ASSUME AuthorAssumption == Author \in User
ASSUME BoundsAssumption ==
    /\ MaxTaps \in Nat /\ MaxVisits \in Nat
    /\ MaxEdits \in Nat /\ MaxDeletes \in Nat /\ MaxRestarts \in Nat

\* The fields of the cartoon's document that a like or an edit changes, and a
\* screen's copy of them: didLike is not stored; checked is history, it says
\* that the check for didLike has answered.
CartoonDoc == [like : Nat, text : Nat]
Copy == [like : Nat, text : Nat, didLike : BOOLEAN, checked : BOOLEAN]

ASSUME AbsentAssumption == NoDoc # EmptyDoc /\ Closed \notin Copy

VARIABLES
    listed,     \* listed[u]: the cartoon as u's home list last fetched it
    vc,         \* vc[u]: the controller's cartoon while the screen is open
    cell,       \* cell[u]: the copy in the heart's cell
    visits,     \* visits[u]: how often u opened the screen; names the visit
    reads,      \* reads[u]: getDocument calls that have not been answered
    edits,      \* edits the author issued; the number stands for the text
    deletes,    \* deletions the author confirmed
    taps,       \* taps[u]: taps on the heart that reached the controller
    restarts,   \* restarts[u]: restarts of u's application
    \* History, read by the properties only:
    want,       \* want[u]: whether u's last issued tap was a like
    liked,      \* liked[u]: the taps of u that issued a like
    likes,      \* how many likes were issued in all
    torn,       \* torn[u]: a restart dropped a handler since that tap
    untouched   \* untouched[u]: settled when the visit began, no tap since

likesVars == <<listed, vc, cell, visits, reads, edits, deletes, taps, restarts,
               want, liked, likes, torn, untouched>>
vars == <<firestoreVars, likesVars>>

-----------------------------------------------------------------------------
(* Documents                                                               *)

Cartoon == <<"cartoons">>
CartoonLike(u) == <<"cartoon-likes", u>>
UserLike(u) == <<"user-likes", u>>
Notice(u, tap) == <<"user-feedback", u, tap>>

Docs == {Cartoon} \cup {CartoonLike(u) : u \in User}
        \cup {UserLike(u) : u \in User}
        \cup {Notice(u, i) : u \in User, i \in 1..MaxTaps}

Exists(d) == db[d] # NoDoc

\* A screen's copy of the cartoon: the initialiser makes didLike FALSE.
NewCopy(data) == [like |-> data.like, text |-> data.text,
                  didLike |-> FALSE, checked |-> FALSE]

-----------------------------------------------------------------------------
Init ==
    /\ FirestoreInit([d \in Docs |-> IF d = Cartoon THEN [like |-> 0, text |-> 0]
                                     ELSE NoDoc])
    /\ listed = [u \in User |-> Unfetched]
    /\ vc = [u \in User |-> Closed]
    /\ cell = [u \in User |-> Closed]
    /\ visits = [u \in User |-> 0]
    /\ reads = [u \in User |-> {}]
    /\ edits = 0
    /\ deletes = 0
    /\ taps = [u \in User |-> 0]
    /\ restarts = [u \in User |-> 0]
    /\ want = [u \in User |-> FALSE]
    /\ liked = [u \in User |-> {}]
    /\ likes = 0
    /\ torn = [u \in User |-> FALSE]
    /\ untouched = [u \in User |-> FALSE]

-----------------------------------------------------------------------------
(* The screen                                                              *)

\* The home list fetches the cartoon; it keeps the snapshot as it is.  (No
\* fetch after the last visit of the bound: only Open reads the snapshot.)
FetchList(u) ==
    LET seen == View(u)[Cartoon] IN
    /\ visits[u] < MaxVisits
    /\ listed' = [listed EXCEPT ![u] = IF seen = NoDoc THEN Unfetched ELSE seen]
    /\ UNCHANGED <<db, pending, sent, main, vc, cell, visits, reads, edits, deletes,
                   taps, restarts, want, liked, likes, torn, untouched>>

\* Selecting the cartoon opens its screen on the list's snapshot and asks
\* whether the account likes it (viewDidLoad, checkUserLikeCartoon).
Open(u) ==
    /\ vc[u] = Closed
    /\ listed[u] # Unfetched
    /\ visits[u] < MaxVisits
    /\ vc' = [vc EXCEPT ![u] = NewCopy(listed[u])]
    /\ cell' = [cell EXCEPT ![u] = NewCopy(listed[u])]
    /\ visits' = [visits EXCEPT ![u] = @ + 1]
    /\ reads' = [reads EXCEPT ![u] = @ \cup {[what |-> "like", visit |-> visits[u] + 1]}]
    /\ untouched' = [untouched EXCEPT ![u] = Settled(u)]
    /\ UNCHANGED <<db, pending, sent, main, listed, edits, deletes, taps, restarts,
                   want, liked, likes, torn>>

Leave(u) ==
    /\ vc' = [vc EXCEPT ![u] = Closed]
    /\ cell' = [cell EXCEPT ![u] = Closed]

Close(u) ==
    /\ vc[u] # Closed
    /\ Leave(u)
    /\ UNCHANGED <<db, pending, sent, main, listed, visits, reads, edits, deletes,
                   taps, restarts, want, liked, likes, torn, untouched>>

\* The layout asks for the heart's cell again: it gets the controller's copy.
Redisplay(u) ==
    /\ vc[u] # Closed
    /\ cell[u] # vc[u]
    /\ cell' = [cell EXCEPT ![u] = vc[u]]
    /\ UNCHANGED <<db, pending, sent, main, listed, vc, visits, reads, edits, deletes,
                   taps, restarts, want, liked, likes, torn, untouched>>

-----------------------------------------------------------------------------
(* Taps on the heart                                                       *)

StoreLike(u, tap) ==
    SetData(CartoonLike(u), EmptyDoc, [do |-> "likeStored", tap |-> tap])
StoreUnlike(u, tap) ==
    DeleteDoc(CartoonLike(u), [do |-> "unlikeStored", tap |-> tap])

\* A plausible slip: the counter is written with setData, which creates.
LikeCartoonSet(u, snapshot, tap) ==
    Issue(u, << SetData(Cartoon, [like |-> snapshot.like + 1, text |-> snapshot.text], Nothing),
                StoreLike(u, tap) >>)

\* A plausible slip: the counter is written before and after the like.
LikeCartoonTwice(u, snapshot, tap) ==
    Issue(u, << UpdateData(Cartoon, [like |-> snapshot.like + 1], Nothing),
                StoreLike(u, tap),
                UpdateData(Cartoon, [like |-> snapshot.like + 2], Nothing) >>)

\* likeCartoon: the counter becomes the tapped snapshot's value plus one.
LikeCartoon(u, snapshot, tap) ==
    Issue(u, << UpdateData(Cartoon, [like |-> snapshot.like + 1], Nothing),
                StoreLike(u, tap) >>)

\* unLikeCartoon, past its guard on the tapped snapshot.
UnLikeCartoon(u, snapshot, tap) ==
    Issue(u, << UpdateData(Cartoon, [like |-> snapshot.like - 1], Nothing),
                StoreUnlike(u, tap) >>)

\* A plausible slip: a snapshot may count zero likes and be unliked.
MayUnLikeAlways(snapshot) == TRUE

\* unLikeCartoon's guard.
MayUnLike(snapshot) == snapshot.like > 0

\* Every tap that reaches the controller flips the cell's copy, and only it.
Tap(u) ==
    /\ vc[u] # Closed
    /\ taps[u] < MaxTaps
    /\ taps' = [taps EXCEPT ![u] = @ + 1]
    /\ cell' = [cell EXCEPT ![u].didLike = ~@]
    /\ untouched' = [untouched EXCEPT ![u] = FALSE]

TapLike(u) ==
    /\ Tap(u)
    /\ ~cell[u].didLike
    /\ LikeCartoon(u, cell[u], taps[u] + 1)
    /\ want' = [want EXCEPT ![u] = TRUE]
    /\ liked' = [liked EXCEPT ![u] = @ \cup {taps[u] + 1}]
    /\ likes' = likes + 1
    /\ torn' = [torn EXCEPT ![u] = FALSE]
    /\ UNCHANGED <<db, sent, main, listed, vc, visits, reads, edits, deletes, restarts>>

TapUnlike(u) ==
    /\ Tap(u)
    /\ cell[u].didLike
    /\ MayUnLike(cell[u])
    /\ UnLikeCartoon(u, cell[u], taps[u] + 1)
    /\ want' = [want EXCEPT ![u] = FALSE]
    /\ torn' = [torn EXCEPT ![u] = FALSE]
    /\ UNCHANGED <<db, sent, main, listed, vc, visits, reads, edits, deletes,
                   restarts, liked, likes>>

\* The guard of unLikeCartoon fails: the heart flipped, nothing is written.
TapUnlikeRefused(u) ==
    /\ Tap(u)
    /\ cell[u].didLike
    /\ ~MayUnLike(cell[u])
    /\ UNCHANGED <<db, pending, sent, main, listed, vc, visits, reads, edits, deletes,
                   restarts, want, liked, likes, torn>>

-----------------------------------------------------------------------------
(* Completion handlers, each at the head of the main queue                 *)

\* The handler of likeCartoon's setData, which ignores its error.
LikeStored(u) ==
    /\ Due(u, "likeStored")
    /\ main' = [main EXCEPT ![u] = Tail(@)]
    /\ Issue(u, << SetData(UserLike(u), EmptyDoc,
                           [do |-> "likeMirrored", tap |-> Head(main[u]).tap]) >>)
    /\ UNCHANGED <<db, sent, likesVars>>

\* A plausible slip: the unlike's handler writes where it should delete.
UnlikeStoredSet(u) ==
    /\ Due(u, "unlikeStored")
    /\ main' = [main EXCEPT ![u] = Tail(@)]
    /\ Issue(u, << SetData(UserLike(u), EmptyDoc, Nothing) >>)
    /\ UNCHANGED <<db, sent, likesVars>>

\* The handler of unLikeCartoon's delete; the last handler only redraws.
UnlikeStored(u) ==
    /\ Due(u, "unlikeStored")
    /\ main' = [main EXCEPT ![u] = Tail(@)]
    /\ Issue(u, << DeleteDoc(UserLike(u), Nothing) >>)
    /\ UNCHANGED <<db, sent, likesVars>>

\* A plausible slip: the notice goes out without asking whose cartoon it is.
UploadFeedBackToAll(u, tap) ==
    Issue(u, << SetData(Notice(u, tap), EmptyDoc, Nothing) >>)

\* uploadFeedBack: a fresh document for the author, none from the author.
UploadFeedBack(u, tap) ==
    IF u = Author THEN UNCHANGED pending
    ELSE Issue(u, << SetData(Notice(u, tap), EmptyDoc, Nothing) >>)

\* The completion of the like's tap: the author is notified.  (The code hops
\* through DispatchQueue.main.async once more; nothing can tell the hop.)
LikeMirrored(u) ==
    /\ Due(u, "likeMirrored")
    /\ main' = [main EXCEPT ![u] = Tail(@)]
    /\ UploadFeedBack(u, Head(main[u]).tap)
    /\ UNCHANGED <<db, sent, likesVars>>

-----------------------------------------------------------------------------
(* Reads: asked, answered from the device's view, delivered on main        *)

Post(u, handler) == main' = [main EXCEPT ![u] = Append(@, handler)]

\* A plausible slip: an answer, whatever it says, counts as a like.
AnswerLikeCheckAlways(u) ==
    \E r \in reads[u] :
        /\ r.what = "like"
        /\ reads' = [reads EXCEPT ![u] = @ \ {r}]
        /\ Post(u, [do |-> "checked", visit |-> r.visit, exists |-> TRUE])
        /\ UNCHANGED <<db, pending, sent, listed, vc, cell, visits, edits, deletes, taps,
                       restarts, want, liked, likes, torn, untouched>>

\* checkUserLikeCartoon's getDocument is answered.
AnswerLikeCheck(u) ==
    \E r \in reads[u] :
        /\ r.what = "like"
        /\ reads' = [reads EXCEPT ![u] = @ \ {r}]
        /\ Post(u, [do |-> "checked", visit |-> r.visit,
                    exists |-> View(u)[UserLike(u)] # NoDoc])
        /\ UNCHANGED <<db, pending, sent, listed, vc, cell, visits, edits, deletes, taps,
                       restarts, want, liked, likes, torn, untouched>>

\* fetchCartoon's getDocument is answered; a missing document ends it.
AnswerEdited(u) ==
    \E r \in reads[u] :
        LET seen == View(u)[Cartoon] IN
        /\ r.what = "cartoon"
        /\ reads' = [reads EXCEPT ![u] = @ \ {r}]
        /\ IF seen = NoDoc THEN UNCHANGED main
           ELSE Post(u, [do |-> "edited", visit |-> r.visit,
                           edit |-> r.edit, cartoon |-> seen])
        /\ UNCHANGED <<db, pending, sent, listed, vc, cell, visits, edits, deletes, taps,
                       restarts, want, liked, likes, torn, untouched>>

\* Offline the read ends in an error, and the guards drop it.
ReadFails(u) ==
    \E r \in reads[u] :
        /\ reads' = [reads EXCEPT ![u] = @ \ {r}]
        /\ UNCHANGED <<db, pending, sent, main, listed, vc, cell, visits, edits, deletes, taps,
                       restarts, want, liked, likes, torn, untouched>>

\* A controller that was left keeps its answer to itself.
Current(u) == vc[u] # Closed /\ Head(main[u]).visit = visits[u]

\* Setting the controller's cartoon reloads the cell with the same copy.
Show(u, copy) ==
    IF Current(u)
    THEN /\ vc' = [vc EXCEPT ![u] = copy]
         /\ cell' = [cell EXCEPT ![u] = copy]
    ELSE UNCHANGED <<vc, cell>>

Checked(u) ==
    /\ Due(u, "checked")
    /\ main' = [main EXCEPT ![u] = Tail(@)]
    /\ Show(u, [vc[u] EXCEPT !.didLike = Head(main[u]).exists, !.checked = TRUE])
    /\ UNCHANGED <<db, pending, sent, listed, visits, reads, edits, deletes, taps,
                   restarts, want, liked, likes, torn, untouched>>

\* EditViewController's delegate: the screen shows the fetched cartoon.
Edited(u) ==
    /\ Due(u, "edited")
    /\ main' = [main EXCEPT ![u] = Tail(@)]
    /\ Show(u, NewCopy(Head(main[u]).cartoon))
    /\ UNCHANGED <<db, pending, sent, listed, visits, reads, edits, deletes, taps,
                   restarts, want, liked, likes, torn, untouched>>

-----------------------------------------------------------------------------
(* The author's menu                                                       *)

\* editCartoon: the update is not awaited, the fetch follows at once.
TapEdit(u) ==
    /\ u = Author
    /\ vc[u] # Closed
    /\ edits < MaxEdits
    /\ edits' = edits + 1
    /\ Issue(u, << UpdateData(Cartoon, [text |-> edits + 1], Nothing) >>)
    /\ reads' = [reads EXCEPT ![u] = @ \cup {[what |-> "cartoon", visit |-> visits[u],
                                               edit |-> edits + 1]}]
    /\ UNCHANGED <<db, sent, main, listed, vc, cell, visits, deletes, taps, restarts,
                   want, liked, likes, torn, untouched>>

TapDelete(u) ==
    /\ u = Author
    /\ vc[u] # Closed
    /\ Issue(u, << DeleteDoc(Cartoon, [do |-> "deleted", visit |-> visits[u]]) >>)
    /\ deletes < MaxDeletes
    /\ deletes' = deletes + 1
    /\ UNCHANGED <<db, sent, main, listed, vc, cell, visits, reads, edits, taps,
                   restarts, want, liked, likes, torn, untouched>>

\* Deleted: a new root controller, with a home list that fetches afresh, is
\* pushed over the screen, if that is still there; the account stays with the
\* new controller or goes back to the screen below it.
Deleted(u) ==
    /\ Due(u, "deleted")
    /\ main' = [main EXCEPT ![u] = Tail(@)]
    /\ \/ Current(u) /\ Leave(u) /\ listed' = [listed EXCEPT ![u] = Unfetched]
       \/ UNCHANGED <<vc, cell, listed>>
    /\ UNCHANGED <<db, pending, sent, visits, reads, edits, deletes, taps, restarts,
                   want, liked, likes, torn, untouched>>

-----------------------------------------------------------------------------
(* Restarts of the application                                             *)

\* A handler whose loss leaves the two places of a like apart.
Owes(then) == then # Nothing /\ then.do \in {"likeStored", "unlikeStored"}

Owing(u) == \/ \E i \in DOMAIN pending[u] : Owes(pending[u][i].then)
            \/ \E i \in DOMAIN main[u] : Owes(main[u][i])

Restart(u) ==
    /\ restarts[u] < MaxRestarts
    /\ restarts' = [restarts EXCEPT ![u] = @ + 1]
    /\ RestartClient(u)
    /\ Leave(u)
    /\ listed' = [listed EXCEPT ![u] = Unfetched]
    /\ reads' = [reads EXCEPT ![u] = {}]
    /\ torn' = [torn EXCEPT ![u] = @ \/ Owing(u)]
    /\ UNCHANGED <<db, visits, edits, deletes, taps, want, liked, likes, untouched>>

-----------------------------------------------------------------------------
RunHandler(u) == \/ LikeStored(u) \/ UnlikeStored(u) \/ LikeMirrored(u)
                 \/ Checked(u) \/ Edited(u) \/ Deleted(u)

Client(u) == /\ Transmit(u) \/ Acknowledge(u) \/ Reconnect(u)
             /\ UNCHANGED likesVars

Screen(u) == \/ FetchList(u) \/ Open(u) \/ Close(u) \/ Redisplay(u)
             \/ TapLike(u) \/ TapUnlike(u) \/ TapUnlikeRefused(u)
             \/ TapEdit(u) \/ TapDelete(u)

Answer(u) == AnswerLikeCheck(u) \/ AnswerEdited(u) \/ ReadFails(u)

Next == \E u \in User : Screen(u) \/ RunHandler(u) \/ Answer(u) \/ Client(u) \/ Restart(u)

Spec == Init /\ [][Next]_vars

\* The main thread runs what is due, and the client keeps the stream up long
\* enough, again and again, for an answer to arrive.
Fairness ==
    \A u \in User : /\ WF_vars(RunHandler(u))
                    /\ WF_vars(Transmit(u) /\ UNCHANGED likesVars)
                    /\ SF_vars(Acknowledge(u) /\ UNCHANGED likesVars)

FairSpec == Spec /\ Fairness
-----------------------------------------------------------------------------
(* Types                                                                   *)

\* Handlers by what they carry.
TapHandler(do) == [do : {do}, tap : 1..MaxTaps]
Handler ==
    TapHandler("likeStored") \cup TapHandler("unlikeStored")
    \cup TapHandler("likeMirrored")
    \cup [do : {"checked"}, visit : Nat, exists : BOOLEAN]
    \cup [do : {"edited"}, visit : Nat, edit : Nat, cartoon : CartoonDoc]
    \cup [do : {"deleted"}, visit : Nat]

ASSUME NothingAssumption == Nothing \notin Handler

\* The writes of u's device: each path with the operations the code uses on
\* it and the handler that may hang on it.
WriteOf(op, doc, vals, thens) ==
    [op : {op}, doc : {doc}, val : vals, then : {Nothing} \cup thens]
Write(u) ==
    WriteOf("update", Cartoon, [like : Nat] \cup [text : Nat], {})
    \cup WriteOf("delete", Cartoon, {EmptyDoc}, [do : {"deleted"}, visit : Nat])
    \cup WriteOf("set", CartoonLike(u), {EmptyDoc}, TapHandler("likeStored"))
    \cup WriteOf("delete", CartoonLike(u), {EmptyDoc}, TapHandler("unlikeStored"))
    \cup WriteOf("set", UserLike(u), {EmptyDoc}, TapHandler("likeMirrored"))
    \cup WriteOf("delete", UserLike(u), {EmptyDoc}, {})
    \cup UNION {WriteOf("set", Notice(u, i), {EmptyDoc}, {}) : i \in 1..MaxTaps}

Read == [what : {"like"}, visit : Nat] \cup [what : {"cartoon"}, visit : Nat, edit : Nat]

DocsType(data) ==
    /\ DOMAIN data = Docs
    /\ data[Cartoon] \in CartoonDoc \cup {NoDoc}
    /\ \A d \in Docs \ {Cartoon} : data[d] \in {EmptyDoc, NoDoc}
DocsOK == DocsType(db)

QueuesOK ==
    /\ DOMAIN pending = User
    /\ \A u \in User : pending[u] \in Seq(Write(u))
    /\ sent \in [User -> Nat]
    /\ \A u \in User : sent[u] <= Len(pending[u])
    /\ main \in [User -> Seq(Handler)]

ScreensOK ==
    /\ listed \in [User -> CartoonDoc \cup {Unfetched}]
    /\ vc \in [User -> Copy \cup {Closed}]
    /\ cell \in [User -> Copy \cup {Closed}]
    /\ \A u \in User : (vc[u] = Closed) <=> (cell[u] = Closed)
    /\ reads \in [User -> SUBSET Read]

CountsOK ==
    /\ visits \in [User -> 0..MaxVisits]
    /\ edits \in 0..MaxEdits
    /\ deletes \in 0..MaxDeletes
    /\ taps \in [User -> 0..MaxTaps]
    /\ restarts \in [User -> 0..MaxRestarts]

HistoryOK ==
    /\ want \in [User -> BOOLEAN]
    /\ liked \in [User -> SUBSET (1..MaxTaps)]
    /\ likes \in Nat
    /\ torn \in [User -> BOOLEAN]
    /\ untouched \in [User -> BOOLEAN]

\* Every variable has its type: in particular no write for another account's
\* documents is ever on a device's queue, and no counter is below zero.
TypeOK == DocsOK /\ QueuesOK /\ ScreensOK /\ CountsOK /\ HistoryOK

-----------------------------------------------------------------------------
(* Safety                                                                  *)

\* Once u's queue has drained, the cartoon's record of u's like is what u's
\* last issued tap asked for, whatever was resent or restarted in between
\* (likeCartoon, unLikeCartoon: the first of the two places).
LikeRecorded ==
    \A u \in User : pending[u] = << >> => (Exists(CartoonLike(u)) <=> want[u])

\* Once u's device is settled, u's own list of likes agrees too, unless a
\* restart dropped a handler after the last tap (the second place, written by
\* the first one's completion handler).
MirrorAgrees ==
    \A u \in User : Settled(u) /\ ~torn[u] => (Exists(UserLike(u)) <=> want[u])

\* The counter never shows more likes than were ever issued, however stale
\* the snapshots it is computed from (cartoon.like + 1 on a list's copy).
LikeBounded == Exists(Cartoon) => db[Cartoon].like <= likes

\* A deleted cartoon does not come back through a like, an unlike or an edit
\* that was still on its way (updateData requires the document).
NoResurrection == [][~Exists(Cartoon) => db'[Cartoon] = NoDoc]_vars

\* Likes and unlikes computed from old snapshots do not undo the author's
\* last edit (each write names only the fields it changes).
EditStands ==
    pending[Author] = << >> /\ Exists(Cartoon) => db[Cartoon].text = edits

\* The cartoon fetched right after an edit, while that edit's write is not
\* awaited, already carries it (editCartoon's updateData and fetchCartoon).
EditShown ==
    \A u \in User : \A i \in DOMAIN main[u] :
        main[u][i].do = "edited" => main[u][i].cartoon.text >= main[u][i].edit

\* An edit is neither undone on the server nor missing from what its author
\* is shown (editCartoon against likeCartoon's and unLikeCartoon's copies).
EditKept == EditStands /\ EditShown

\* The author hears only of likes that were issued by others, and of each of
\* them once on a device that was never restarted (uploadFeedBack at the end
\* of the like's chain of handlers).
NoticesMatchLikes ==
    \A u \in User :
        LET noticed == {i \in 1..MaxTaps : Exists(Notice(u, i))}
            due     == IF u = Author THEN {} ELSE liked[u]
        IN  /\ noticed \subseteq due
            /\ Settled(u) /\ restarts[u] = 0 => noticed = due

\* On a visit that began settled and saw no tap, the checked heart shows what
\* the account last asked for (checkUserLikeCartoon in viewDidLoad).
CheckTruthful ==
    \A u \in User :
        vc[u] # Closed /\ untouched[u] /\ ~torn[u]
            => (vc[u].checked => vc[u].didLike = want[u])

\* The comment above likeCartoon: since checkUserLikeCartoon is run first,
\* unLike takes effect; a tap on a checked, filled heart issues the unlike.
CheckedHeartUnlikes ==
    [][\A u \in User :
          taps'[u] # taps[u] /\ cell[u].didLike /\ cell[u].checked
              => pending'[u] # pending[u]]_vars

-----------------------------------------------------------------------------
(* Liveness                                                                *)

\* What the last tap asked for reaches the account's own list, unless the
\* account changes its mind or a restart drops the handler.
LikeArrives ==
    \A u \in User : \A b \in BOOLEAN :
        want[u] = b /\ ~torn[u]
            ~> torn[u] \/ want[u] # b \/ (Exists(UserLike(u)) <=> b)
=============================================================================
