------------------------------- MODULE Notices -------------------------------
(***************************************************************************)
(* The feedback tab of one account: the table of its notices, newest       *)
(* first, and the fan button of a notice that says somebody became a fan.  *)
(*                                                                         *)
(* There are three copies of "I am a fan of this account": the documents   *)
(* of the service, the row (feedbacks[i].userFan, set by a check that is   *)
(* answered late) and the view model of the cell that shows the row, which *)
(* is all a tap changes, in its last handler.  Cells are reused: scrolling *)
(* and every change of the rows hand them other notices.  The progress     *)
(* indicator blocks the buttons of the screen it is shown on, but not the  *)
(* table's own gestures, and there is one indicator for all screens.       *)
(***************************************************************************)
EXTENDS Firestore, FiniteSetsExt, SequencesExt

CONSTANTS
    Me,           \* the signed-in account
    Sender,       \* the accounts whose notices the table shows
    Cell,         \* the table's cells; as many rows are visible at a time
    First,        \* the notices that are there at first, oldest first
    None,         \* the count of taps that a copy of userFan never saw
    MaxNotices,   \* bound: notices, those included
    MaxFetches,   \* bound: fetches of the notices
    MaxTaps,      \* bound: taps on fan buttons
    MaxEvents     \* bound: new notices, fetches, other calls and failures in
                  \* all, after the first fetch

\* A notice of the service.  Comments are shown like likes.
Notice == [uid : Sender, type : {"fan", "like"}]

ASSUME NoticesAssumption ==
    /\ Me \in User
    /\ IsFiniteSet(Cell) /\ Cell # {}
    /\ First \in Seq(Notice)
    /\ None \notin Nat
    /\ \A bound \in {MaxNotices, MaxFetches, MaxTaps, MaxEvents} : bound \in Nat
    /\ Len(First) <= MaxNotices /\ MaxFetches > 0

VARIABLES
    notices,    \* the service's notices for Me, oldest first
    cached,     \* how many of them the device has seen
    feedbacks,  \* the table's rows, newest notice first
    cells,      \* cells[c]: the row's copy in the cell and the row it is at, 0: none
    fetching,   \* fetches of the notices that are not answered
    fetches,    \* fetches started; the number names the fetch
    checks,     \* checks for a row's userFan that are not answered
    looking,    \* reads of a profile or a cartoon that are not answered
    looks,      \* such reads started
    loader,     \* the screen the indicator is shown on: "none", "here", "other"
    others,     \* calls of other screens so far
    busy,       \* one of them is under way
    fails,      \* failures so far
    \* History, read by the properties and to bound the taps:
    taps,       \* taps[s]: taps on fan buttons for s
    tapped      \* taps on fan buttons in all

tableVars == <<feedbacks, cells>>
readVars == <<notices, cached, fetching, fetches, checks, looking, looks>>
loaderVars == <<loader, others, busy>>
historyVars == <<taps, tapped>>
noticesVars == <<tableVars, readVars, loaderVars, fails, historyVars>>
vars == <<firestoreVars, noticesVars>>

Star(s) == <<"user_star", s>>
Fan(s) == <<"user_fan", s>>
Docs == {Star(s) : s \in Sender} \cup {Fan(s) : s \in Sender}
Sees(d) == View(Me)[d] # NoDoc

\* The bound on everything but taps.
MayHappen ==
    (Len(notices) - Len(First)) + (fetches - 1) + looks + others + fails < MaxEvents

-----------------------------------------------------------------------------
(* Rows and cells                                                          *)

\* A notice as a fetch delivers it: userFan is FALSE until its check is
\* answered.  seen is history: how many taps for the account this copy of
\* userFan knows of.
RowOf(id) == [id |-> id, uid |-> notices[id].uid, type |-> notices[id].type,
              userFan |-> FALSE, seen |-> None]
RowsOf(n) == [i \in 1..n |-> RowOf(n + 1 - i)]

NoRow == [id |-> 0, type |-> "like", userFan |-> FALSE, seen |-> None]
\* A cell in no row; nothing ever shows what it keeps.
Spare == [row |-> NoRow, at |-> 0]
Visible(c) == cells[c].at # 0

\* The rows in sight start at the first, or as far down as they did before.
Offset(rows) ==
    LET shown == {cells[c].at : c \in {c \in Cell : Visible(c)}}
        last  == IF Len(rows) > Cardinality(Cell) THEN Len(rows) - Cardinality(Cell) ELSE 0
    IN  IF shown = {} THEN 0 ELSE Min({Min(shown) - 1, last})

\* Setting the rows reloads the table: each row in sight gets some cell, and
\* its copy of the row.
SetFeedbacks(rows) ==
    LET inSight == (Offset(rows) + 1)..Min({Len(rows), Offset(rows) + Cardinality(Cell)})
    IN  /\ feedbacks' = rows
        /\ \E cellOf \in [inSight -> Cell] :
              /\ \A i, j \in inSight : cellOf[i] = cellOf[j] => i = j
              /\ cells' = [c \in Cell |->
                    IF \E i \in inSight : cellOf[i] = c
                    THEN LET i == CHOOSE i \in inSight : cellOf[i] = c
                         IN  [row |-> rows[i], at |-> i]
                    ELSE Spare]

\* Scrolling by a row: the cell that leaves is handed the row that comes in.
Scroll(c, i) ==
    /\ \A d \in Cell : Visible(d)
    /\ i \in DOMAIN feedbacks
    /\ LET shown == {cells[d].at : d \in Cell}
       IN  \/ cells[c].at = Min(shown) /\ i = Max(shown) + 1
           \/ cells[c].at = Max(shown) /\ i = Min(shown) - 1
    /\ cells' = [cells EXCEPT ![c] = [row |-> feedbacks[i], at |-> i]]
    /\ UNCHANGED <<firestoreVars, feedbacks, readVars, loaderVars, fails, historyVars>>

-----------------------------------------------------------------------------
(* fetchFeedback and checkFeedBack                                         *)

Post(handler) == main' = [main EXCEPT ![Me] = Append(@, handler)]
RunHead == main' = [main EXCEPT ![Me] = Tail(@)]
Handled == Head(main[Me])

Init ==
    /\ FirestoreInit([d \in Docs |-> NoDoc])
    /\ notices = First /\ cached = 0
    /\ feedbacks = << >>
    /\ cells = [c \in Cell |-> Spare]
    /\ fetching = 1 /\ fetches = 1
    /\ checks = {} /\ looking = {} /\ looks = 0
    /\ loader = "none" /\ others = 0 /\ busy = FALSE
    /\ fails = 0
    /\ taps = [s \in Sender |-> 0] /\ tapped = 0

\* refreshView: the rows go at once, and another fetch starts.
RefreshView ==
    /\ MayHappen /\ fetches < MaxFetches
    /\ SetFeedbacks(<< >>)
    /\ fetches' = fetches + 1
    /\ fetching' = fetching + 1
    /\ UNCHANGED <<firestoreVars, notices, cached, checks, looking, looks, loaderVars,
                   fails, historyVars>>

\* The query is answered with all the notices, or offline with those that
\* are in the cache.
Answer(n) ==
    /\ fetching > 0
    /\ fetching' = fetching - 1
    /\ cached' = Max({cached, n})
    /\ Post([do |-> "fetched", fetch |-> fetches - fetching + 1, rows |-> RowsOf(n)])
    /\ UNCHANGED <<db, pending, sent, notices, tableVars, fetches, checks, looking, looks,
                   loaderVars, historyVars>>

AnswerFetch == Answer(Len(notices)) /\ UNCHANGED fails
AnswerFromCache == MayHappen /\ fails' = fails + 1 /\ Answer(cached)

\* The rows are replaced, and those of fans are checked.
Fetched ==
    /\ Due(Me, "fetched")
    /\ RunHead
    /\ SetFeedbacks(Handled.rows)
    /\ checks' = checks \cup {[fetch |-> Handled.fetch, id |-> row.id, uid |-> row.uid] :
                                 row \in {row \in ToSet(Handled.rows) : row.type = "fan"}}
    /\ UNCHANGED <<db, pending, sent, notices, cached, fetching, fetches, looking, looks,
                   loaderVars, fails, historyVars>>

AnswerCheck ==
    \E check \in checks :
        /\ checks' = checks \ {check}
        /\ Post([do |-> "checked", id |-> check.id,
                 fan |-> Sees(Star(check.uid)), seen |-> taps[check.uid]])
        /\ UNCHANGED <<db, pending, sent, notices, cached, tableVars, fetching, fetches,
                       looking, looks, loaderVars, fails, historyVars>>

\* Offline the check ends in an error, and its guard drops it.
CheckFails ==
    /\ MayHappen /\ fails' = fails + 1
    /\ \E check \in checks : checks' = checks \ {check}
    /\ UNCHANGED <<firestoreVars, notices, cached, tableVars, fetching, fetches, looking,
                   looks, loaderVars, historyVars>>

\* A plausible slip: the answer goes to the row the notice had when asked,
\* which is its number from the end.
CheckedByIndex ==
    /\ Due(Me, "checked")
    /\ RunHead
    /\ LET i == Handled.id
       IN  IF i \in DOMAIN feedbacks
           THEN SetFeedbacks([feedbacks EXCEPT ![i].userFan = Handled.fan,
                                               ![i].seen = Handled.seen])
           ELSE UNCHANGED tableVars
    /\ UNCHANGED <<db, pending, sent, readVars, loaderVars, fails, historyVars>>

\* The answer goes to the row that shows the notice by now, if one does;
\* that sets the rows, so the table is loaded again.
Checked ==
    /\ Due(Me, "checked")
    /\ RunHead
    /\ LET at == {i \in DOMAIN feedbacks : feedbacks[i].id = Handled.id}
       IN  IF at = {} THEN UNCHANGED tableVars
           ELSE SetFeedbacks([feedbacks EXCEPT ![Min(at)].userFan = Handled.fan,
                                               ![Min(at)].seen = Handled.seen])
    /\ UNCHANGED <<db, pending, sent, readVars, loaderVars, fails, historyVars>>

-----------------------------------------------------------------------------
(* The indicator                                                           *)

ShowLoader(screen) == loader' = IF loader = "none" THEN screen ELSE loader
HideLoader == loader' = "none"

\* A call of a screen in another tab, from its start to its completion.
OtherCall ==
    /\ MayHappen /\ ~busy
    /\ busy' = TRUE /\ others' = others + 1
    /\ ShowLoader("other")
    /\ UNCHANGED <<firestoreVars, tableVars, readVars, fails, historyVars>>

OtherReturns ==
    /\ busy
    /\ busy' = FALSE
    /\ HideLoader
    /\ UNCHANGED <<firestoreVars, tableVars, readVars, others, fails, historyVars>>

-----------------------------------------------------------------------------
(* The fan button (FeedBackCell.didTapFan and its delegate)                *)

\* A tap on the button of a visible cell.  If the cell's copy knew of all
\* taps so far, it will be right again when it is flipped for this one.
TapButton(c) ==
    /\ Visible(c) /\ loader # "here"
    /\ cells[c].row.type = "fan"
    /\ tapped < MaxTaps /\ tapped' = tapped + 1
    /\ taps' = [taps EXCEPT ![cells[c].row.uid] = @ + 1]
    /\ ShowLoader("here")
    /\ UNCHANGED <<db, sent, main, tableVars, readVars, others, busy, fails>>

Then(do, c) ==
    LET row == cells[c].row
    IN  [do |-> do, cell |-> c, uid |-> row.uid, id |-> row.id,
         from |-> IF row.seen = taps[row.uid] THEN row.seen ELSE None]

\* fanUsers.
TapFan(c) ==
    /\ TapButton(c)
    /\ ~cells[c].row.userFan
    /\ Issue(Me, << SetData(Star(cells[c].row.uid), EmptyDoc, Then("starStored", c)) >>)

\* antiFanUser.
TapUnfan(c) ==
    /\ TapButton(c)
    /\ cells[c].row.userFan
    /\ Issue(Me, << DeleteDoc(Star(cells[c].row.uid), Then("starDeleted", c)) >>)

StarStored ==
    /\ Due(Me, "starStored")
    /\ RunHead
    /\ Issue(Me, << SetData(Fan(Handled.uid), EmptyDoc, [Handled EXCEPT !.do = "toggle"]) >>)
    /\ UNCHANGED <<db, sent, noticesVars>>

StarDeleted ==
    /\ Due(Me, "starDeleted")
    /\ RunHead
    /\ Issue(Me, << DeleteDoc(Fan(Handled.uid), [Handled EXCEPT !.do = "toggle"]) >>)
    /\ UNCHANGED <<db, sent, noticesVars>>

\* The copy in a cell, flipped by the completion of a tap.
Flipped(row) ==
    [row EXCEPT !.userFan = ~@,
                !.seen = IF row.id = Handled.id /\ row.seen = Handled.from /\ row.seen # None
                         THEN row.seen + 1 ELSE None]

\* A plausible slip: either completion shows the account as a fan.
ToggleToFan ==
    /\ Due(Me, "toggle")
    /\ RunHead
    /\ HideLoader
    /\ cells' = [cells EXCEPT ![Handled.cell].row =
                    IF Visible(Handled.cell) THEN [Flipped(@) EXCEPT !.userFan = TRUE] ELSE @]
    /\ UNCHANGED <<db, pending, sent, feedbacks, readVars, others, busy, fails, historyVars>>

\* The completion flips whatever the cell shows by now, and only the cell.
Toggle ==
    /\ Due(Me, "toggle")
    /\ RunHead
    /\ HideLoader
    /\ cells' = [cells EXCEPT ![Handled.cell].row =
                    IF Visible(Handled.cell) THEN Flipped(@) ELSE @]
    /\ UNCHANGED <<db, pending, sent, feedbacks, readVars, others, busy, fails, historyVars>>

-----------------------------------------------------------------------------
(* The profile of a row's account, the cartoon of a notice                 *)

\* didSelectRowAt and viewCartoon ask for a document.
Look(c) ==
    /\ Visible(c) /\ loader # "here"
    /\ MayHappen
    /\ looks' = looks + 1
    /\ looking' = looking \cup {looks + 1}
    /\ ShowLoader("here")
    /\ UNCHANGED <<firestoreVars, tableVars, notices, cached, fetching, fetches, checks,
                   others, busy, fails, historyVars>>

LookAnswered ==
    \E n \in looking :
        /\ looking' = looking \ {n}
        /\ Post([do |-> "found"])
        /\ UNCHANGED <<db, pending, sent, tableVars, notices, cached, fetching, fetches,
                       checks, looks, loaderVars, fails, historyVars>>

\* Offline, or for a cartoon that is deleted: the guard drops it, and the
\* indicator stays.
LookFails ==
    /\ MayHappen /\ fails' = fails + 1
    /\ \E n \in looking : looking' = looking \ {n}
    /\ UNCHANGED <<firestoreVars, tableVars, notices, cached, fetching, fetches, checks,
                   looks, loaderVars, historyVars>>

\* A plausible slip: the profile is pushed and the indicator forgotten.
FoundShown ==
    /\ Due(Me, "found")
    /\ RunHead
    /\ UNCHANGED <<db, pending, sent, tableVars, readVars, loaderVars, fails, historyVars>>

\* The profile, or the home, is pushed over the table and left again.
Found ==
    /\ Due(Me, "found")
    /\ RunHead
    /\ HideLoader
    /\ UNCHANGED <<db, pending, sent, tableVars, readVars, others, busy, fails, historyVars>>

-----------------------------------------------------------------------------
\* Somebody likes a cartoon of Me's, or becomes a fan: also one who was before.
NoticeArrives(notice) ==
    /\ MayHappen /\ Len(notices) < MaxNotices
    /\ notices' = Append(notices, notice)
    /\ UNCHANGED <<firestoreVars, tableVars, cached, fetching, fetches, checks, looking,
                   looks, loaderVars, fails, historyVars>>

RunHandler == \/ Fetched \/ Checked \/ StarStored \/ StarDeleted \/ Toggle \/ Found
Answered == AnswerFetch \/ AnswerCheck \/ LookAnswered
Client == /\ Transmit(Me) \/ Acknowledge(Me) \/ Reconnect(Me)
          /\ UNCHANGED noticesVars

Next ==
    \/ RunHandler \/ Answered \/ Client
    \/ RefreshView \/ AnswerFromCache \/ CheckFails \/ LookFails \/ OtherCall \/ OtherReturns
    \/ \E c \in Cell : \/ TapFan(c) \/ TapUnfan(c) \/ Look(c)
                       \/ \E i \in 1..MaxNotices : Scroll(c, i)
    \/ \E notice \in Notice : NoticeArrives(notice)

Spec == Init /\ [][Next]_vars
-----------------------------------------------------------------------------
(* Properties                                                              *)

RowType == [id : 1..MaxNotices, uid : Sender, type : {"fan", "like"}, userFan : BOOLEAN,
            seen : 0..MaxTaps \cup {None}]
TapHandler == [do : {"starStored", "starDeleted", "toggle"}, cell : Cell, uid : Sender,
               id : 1..MaxNotices, from : 0..MaxTaps \cup {None}]
ASSUME AbsentAssumption == NoDoc # EmptyDoc /\ Nothing \notin TapHandler

Handler ==
    TapHandler \cup [do : {"fetched"}, fetch : 1..MaxFetches, rows : Seq(RowType)]
    \cup [do : {"checked"}, id : 1..MaxNotices, fan : BOOLEAN, seen : 0..MaxTaps]
    \cup [do : {"found"}]

\* Every variable holds a value of its kind; in particular a cell in sight is
\* at a row of the table, and shows that row's notice.
TypeOK ==
    /\ db \in [Docs -> {EmptyDoc, NoDoc}]
    /\ pending[Me] \in Seq([op : {"set", "delete"}, doc : Docs, val : {EmptyDoc},
                            then : TapHandler])
    /\ main[Me] \in Seq(Handler)
    /\ notices \in Seq(Notice) /\ cached \in 0..Len(notices)
    /\ feedbacks \in Seq(RowType)
    /\ \A c \in Cell :
          /\ cells[c].row \in RowType \cup {NoRow}
          /\ Visible(c) => /\ cells[c].at \in DOMAIN feedbacks
                           /\ cells[c].row.id = feedbacks[cells[c].at].id
    /\ fetches \in 1..MaxFetches /\ fetching \in 0..fetches
    /\ checks \subseteq [fetch : 1..fetches, id : 1..Len(notices), uid : Sender]
    /\ looks \in 0..MaxEvents /\ looking \subseteq 1..looks
    /\ loader \in {"none", "here", "other"} /\ busy \in BOOLEAN /\ others \in 0..MaxEvents
    /\ taps \in [Sender -> 0..MaxTaps] /\ tapped \in 0..MaxTaps /\ fails \in 0..MaxEvents

\* What a row says of its account is right as soon as its check is answered,
\* and until the account is next tapped, whichever fetch the check belongs to
\* and however often the rows were replaced since it was asked (checkFeedBack
\* looks the notice up when the answer comes).
RowTruthful ==
    \A i \in DOMAIN feedbacks :
        LET row == feedbacks[i]
        IN  row.seen # None /\ row.seen = taps[row.uid] => row.userFan = Sees(Star(row.uid))

\* The state is well typed, in particular each cell in sight is at the row it
\* shows, and the rows are right.
RowsTruthful == TypeOK /\ RowTruthful

\* A button in sight is right, also after it was tapped, if its copy was right
\* before the tap and the cell was not handed another notice, or an older
\* copy, while the tap was under way.  Both happen: see seen.
ButtonTruthful ==
    \A c \in Cell :
        LET row == cells[c].row
        IN  Visible(c) /\ row.seen # None /\ row.seen = taps[row.uid]
                => row.userFan = Sees(Star(row.uid))

Underway == \/ looking # {}
            \/ \E i \in DOMAIN pending[Me] : pending[Me][i].then # Nothing
            \/ \E i \in DOMAIN main[Me] :
                  main[Me][i].do \in {"starStored", "starDeleted", "toggle", "found"}

\* The indicator covers the table only while a call of this screen is under
\* way whose end will hide it, whatever other calls of this and of the other
\* screens show and hide it meanwhile, unless a read failed: nothing ever
\* hides it for that.
LoaderExplained == loader = "here" /\ fails = 0 => Underway
=============================================================================
