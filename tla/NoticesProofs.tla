---------------------------- MODULE NoticesProofs ----------------------------
(***************************************************************************)
(* Proofs about Notices, for every set of accounts and cells and for all   *)
(* bounds: its types and rows (RowsCorrect), the button of a row in sight  *)
(* (ButtonCorrect) and the indicator (LoaderCorrect).                      *)
(*                                                                         *)
(* The argument goes by what an account's star was to be after each of the *)
(* taps for it so far (said[s][k], after k of them).  Every copy of        *)
(* userFan that remembers how many taps it knew of says what the star was  *)
(* to be after that many, wherever it is: in the rows, in a cell, in the   *)
(* answer of a check.  A tap under way that remembers where its copy stood *)
(* reverses the star at just that tap, so flipping a copy that still       *)
(* stands there makes it right for the next.  What the device sees is what *)
(* the last tap asked for (OverlayEnds).                                   *)
(***************************************************************************)
EXTENDS Notices, FirestoreProofs

-----------------------------------------------------------------------------
(* The inductive invariant                                                 *)

\* A copy of userFan is right for the taps it knows of: of a row of the
\* table or of a cell, ...
GoodRow(all, times, said) ==
    {row \in RowType :
        /\ row.id \in 1..Len(all)
        /\ row.uid = all[row.id].uid /\ row.type = all[row.id].type
        /\ row.seen # None => /\ row.seen <= times[row.uid]
                              /\ row.userFan = said[row.uid][row.seen]}

\* ... and of the answer of a check.
GoodAnswer(all, times, said) ==
    {h \in [do : {"checked"}, id : 1..Len(all), fan : BOOLEAN, seen : 0..MaxTaps] :
        LET uid == all[h.id].uid
        IN  h.id <= MaxNotices /\ h.seen <= times[uid] /\ h.fan = said[uid][h.seen]}

\* A tap reverses the star as of the copy it went by.
GoodTap(all, times, said) ==
    {h \in TapHandler :
        /\ h.id \in 1..Len(all) /\ h.uid = all[h.id].uid
        /\ h.from # None => /\ h.from < times[h.uid]
                            /\ said[h.uid][h.from + 1] = ~said[h.uid][h.from]}

GoodHandler(all, times, said, upto) ==
    GoodTap(all, times, said) \cup GoodAnswer(all, times, said)
    \cup [do : {"fetched"}, fetch : 1..upto, rows : Seq(GoodRow(all, times, said))]
    \cup [do : {"found"}]

GoodWrite(all, times, said) ==
    [op : {"set", "delete"}, doc : Docs, val : {EmptyDoc}, then : GoodTap(all, times, said)]

\* The rows and the cells: a cell in sight shows the notice of its row.
RowsGood(said) ==
    LET good == GoodRow(notices, taps, said)
    IN  /\ feedbacks \in Seq(good)
        /\ DOMAIN cells = Cell
        /\ \A c \in Cell : \/ cells[c] = Spare
                           \/ /\ cells[c] \in [row : good, at : DOMAIN feedbacks]
                              /\ cells[c].row.id = feedbacks[cells[c].at].id

\* What is on its way to the server and on the main queue.
QueuesGood(said) ==
    /\ main[Me] \in Seq(GoodHandler(notices, taps, said, fetches))
    /\ pending[Me] \in Seq(GoodWrite(notices, taps, said))

\* The last tap for an account decides its star.
StarsGood(said) ==
    \A s \in Sender : /\ Ends(db, pending[Me], Star(s), said[s][taps[s]])
                      /\ Reached(db, pending[Me], sent[Me], Star(s))

Sayings == [Sender -> [0..MaxTaps -> BOOLEAN]]

\* Every copy says what the star was to be, and the last tap decides it.
Right(said) == RowsGood(said) /\ QueuesGood(said) /\ StarsGood(said)

Told == \E said \in Sayings : Right(said)

\* The documents and the shape of the queues.
ClientOK ==
    /\ db \in [Docs -> {EmptyDoc, NoDoc}]
    /\ DOMAIN pending = User /\ DOMAIN main = User /\ DOMAIN sent = User
    /\ sent[Me] \in 0..Len(pending[Me])

\* The reads, the calls of other screens and the counts that are bounded.
CountsOK ==
    /\ notices \in Seq(Notice) /\ Len(First) <= Len(notices) /\ Len(notices) <= MaxNotices
    /\ cached \in 0..Len(notices)
    /\ fetches \in 1..MaxFetches /\ fetching \in 0..fetches
    /\ checks \subseteq {check \in [fetch : 1..fetches, id : 1..Len(notices), uid : Sender] :
                            check.uid = notices[check.id].uid}
    /\ looks \in 0..MaxEvents /\ looking \subseteq 1..looks
    /\ loader \in {"none", "here", "other"} /\ busy \in BOOLEAN /\ others \in 0..MaxEvents
    /\ taps \in [Sender -> 0..MaxTaps] /\ tapped \in 0..MaxTaps /\ fails \in 0..MaxEvents
    /\ \A s \in Sender : taps[s] <= tapped

NoticesInv == ClientOK /\ CountsOK /\ Told /\ LoaderExplained

-----------------------------------------------------------------------------
(* Operators of the model                                                  *)

\* The least and the greatest of two numbers, and the least of a set of them.
LEMMA MinMaxFacts ==
    /\ \A a, b \in Int : Min({a, b}) = IF a <= b THEN a ELSE b
    /\ \A a, b \in Int : Max({a, b}) = IF a <= b THEN b ELSE a
    /\ \A S \in SUBSET Nat : S # {} => Min(S) \in S /\ \A k \in S : Min(S) <= k
<1>1. ASSUME NEW a \in Int, NEW b \in Int PROVE Min({a, b}) = IF a <= b THEN a ELSE b
  <2> DEFINE m == IF a <= b THEN a ELSE b
  <2>1. \A x : x \in {a, b} /\ (\A y \in {a, b} : x <= y) <=> x = m
    OBVIOUS
  <2> QED BY <2>1 DEF Min
<1>2. ASSUME NEW a \in Int, NEW b \in Int PROVE Max({a, b}) = IF a <= b THEN b ELSE a
  <2> DEFINE m == IF a <= b THEN b ELSE a
  <2>1. \A x : x \in {a, b} /\ (\A y \in {a, b} : x >= y) <=> x = m
    OBVIOUS
  <2> QED BY <2>1 DEF Max
<1>3. ASSUME NEW S \in SUBSET Nat, S # {}
      PROVE  Min(S) \in S /\ \A k \in S : Min(S) <= k
  <2>1. \E m \in S : \A k \in S : m <= k
    BY <1>3, Least
  <2> QED BY <2>1 DEF Min
<1> QED BY <1>1, <1>2, <1>3

\* Sequences over a set are sequences over a larger one.
LEMMA SeqWidens == \A S, T : S \subseteq T => Seq(S) \subseteq Seq(T)
OBVIOUS

\* The paths of the two places of a fan are apart.
LEMMA DocsApart ==
    \A s, t : (Star(s) = Star(t) => s = t) /\ Star(s) # Fan(t)
BY DEF Star, Fan

\* Time passes: more notices, more taps, and what was said of the taps so
\* far stays said.
Later(all, times, said, more, now, new) ==
    /\ Len(all) <= Len(more) /\ \A i \in 1..Len(all) : more[i] = all[i]
    /\ \A s \in Sender : /\ times[s] <= now[s]
                         /\ \A k \in 0..times[s] : new[s][k] = said[s][k]

\* What was right stays right.
LEMMA Stays ==
    ASSUME NEW all \in Seq(Notice), NEW more \in Seq(Notice),
           NEW times \in [Sender -> 0..MaxTaps], NEW now \in [Sender -> 0..MaxTaps],
           NEW said \in Sayings, NEW new \in Sayings,
           NEW upto \in Nat, NEW beyond \in Nat, upto <= beyond,
           Later(all, times, said, more, now, new)
    PROVE  /\ GoodRow(all, times, said) \subseteq GoodRow(more, now, new)
           /\ GoodHandler(all, times, said, upto) \subseteq GoodHandler(more, now, new, beyond)
           /\ GoodWrite(all, times, said) \subseteq GoodWrite(more, now, new)
<1> USE NoticesAssumption
<1>0. /\ Len(all) \in Nat /\ Len(more) \in Nat
      /\ \A i \in 1..Len(all) : i \in 1..Len(more) /\ more[i] = all[i] /\ all[i].uid \in Sender
  <2>1. Len(all) \in Nat /\ Len(more) \in Nat
    OBVIOUS
  <2>2. ASSUME NEW i \in 1..Len(all)
        PROVE  i \in 1..Len(more) /\ more[i] = all[i] /\ all[i].uid \in Sender
    <3>1. all[i] \in Notice
      OBVIOUS
    <3>2. all[i].uid \in Sender
      BY <3>1 DEF Notice
    <3>3. i \in 1..Len(more) /\ more[i] = all[i]
      BY <2>1 DEF Later
    <3> QED BY <3>2, <3>3
  <2> QED BY <2>1, <2>2
<1>1. GoodRow(all, times, said) \subseteq GoodRow(more, now, new)
  <2> SUFFICES ASSUME NEW row \in GoodRow(all, times, said)
               PROVE  row \in GoodRow(more, now, new)
    OBVIOUS
  <2>1. /\ row \in RowType /\ row.id \in 1..Len(all) /\ row.uid \in Sender
        /\ row.uid = all[row.id].uid /\ row.type = all[row.id].type
        /\ row.seen # None => row.seen \in 0..MaxTaps
    BY DEF GoodRow, RowType
  <2>2. ASSUME row.seen # None
        PROVE  row.seen <= now[row.uid] /\ row.userFan = new[row.uid][row.seen]
    <3>1. row.seen <= times[row.uid] /\ row.userFan = said[row.uid][row.seen]
      BY <2>2 DEF GoodRow
    <3> QED BY <2>1, <2>2, <3>1 DEF Later
  <2> QED BY <1>0, <2>1, <2>2 DEF GoodRow
<1>2. GoodTap(all, times, said) \subseteq GoodTap(more, now, new)
  <2> SUFFICES ASSUME NEW h \in GoodTap(all, times, said)
               PROVE  h \in GoodTap(more, now, new)
    OBVIOUS
  <2>1. /\ h \in TapHandler /\ h.id \in 1..Len(all) /\ h.uid \in Sender
        /\ h.uid = all[h.id].uid
        /\ h.from # None => h.from \in 0..MaxTaps
    BY DEF GoodTap, TapHandler
  <2>2. ASSUME h.from # None
        PROVE  h.from < now[h.uid] /\ new[h.uid][h.from + 1] = ~new[h.uid][h.from]
    <3>1. h.from < times[h.uid] /\ said[h.uid][h.from + 1] = ~said[h.uid][h.from]
      BY <2>2 DEF GoodTap
    <3>2. h.from \in 0..times[h.uid] /\ h.from + 1 \in 0..times[h.uid]
      <4>1. times[h.uid] \in Nat
        BY <2>1 DEF Later
      <4>2. h.from \in Nat
        BY <2>1, <2>2
      <4> QED BY <3>1, <4>1, <4>2
    <3>3. times[h.uid] <= now[h.uid] /\ times[h.uid] \in Nat /\ now[h.uid] \in Nat
      BY <2>1 DEF Later
    <3>4. new[h.uid][h.from] = said[h.uid][h.from]
          /\ new[h.uid][h.from + 1] = said[h.uid][h.from + 1]
      BY <2>1, <3>2 DEF Later
    <3> QED BY <2>1, <2>2, <3>1, <3>3, <3>4
  <2> QED BY <1>0, <2>1, <2>2 DEF GoodTap
<1>3. GoodAnswer(all, times, said) \subseteq GoodAnswer(more, now, new)
  <2> SUFFICES ASSUME NEW h \in GoodAnswer(all, times, said)
               PROVE  h \in GoodAnswer(more, now, new)
    OBVIOUS
  <2>1. /\ h \in [do : {"checked"}, id : 1..Len(all), fan : BOOLEAN, seen : 0..MaxTaps]
        /\ h.id <= MaxNotices
        /\ h.seen <= times[all[h.id].uid] /\ h.fan = said[all[h.id].uid][h.seen]
    BY DEF GoodAnswer
  <2>2. h.id \in 1..Len(more) /\ more[h.id] = all[h.id] /\ all[h.id].uid \in Sender
    BY <1>0, <2>1
  <2>3. h.seen <= now[all[h.id].uid] /\ h.fan = new[all[h.id].uid][h.seen]
    BY <2>1, <2>2 DEF Later
  <2>4. h \in [do : {"checked"}, id : 1..Len(more), fan : BOOLEAN, seen : 0..MaxTaps]
    BY <2>1, <2>2
  <2> QED BY <2>1, <2>2, <2>3, <2>4 DEF GoodAnswer
<1>4. Seq(GoodRow(all, times, said)) \subseteq Seq(GoodRow(more, now, new))
  BY <1>1, SeqWidens
<1>5. GoodHandler(all, times, said, upto) \subseteq GoodHandler(more, now, new, beyond)
  <2>1. 1..upto \subseteq 1..beyond
    OBVIOUS
  <2> QED BY <1>2, <1>3, <1>4, <2>1 DEF GoodHandler
<1>6. GoodWrite(all, times, said) \subseteq GoodWrite(more, now, new)
  BY <1>2 DEF GoodWrite
<1> QED BY <1>1, <1>5, <1>6

\* The rows of an answer are right: they know of no taps.
LEMMA RowsOfFacts ==
    ASSUME CountsOK, NEW said \in Sayings, NEW n \in 0..Len(notices)
    PROVE  RowsOf(n) \in Seq(GoodRow(notices, taps, said))
<1> USE NoticesAssumption
<1>1. Len(notices) \in Nat /\ Len(notices) <= MaxNotices
  BY DEF CountsOK
<1>2. ASSUME NEW i \in 1..n PROVE RowOf(n + 1 - i) \in GoodRow(notices, taps, said)
  <2>1. n + 1 - i \in 1..Len(notices) /\ n + 1 - i \in 1..MaxNotices
    BY <1>1
  <2>2. notices[n + 1 - i] \in Notice
    BY <2>1 DEF CountsOK
  <2> QED BY <2>1, <2>2 DEF RowOf, GoodRow, RowType, Notice
<1> QED BY <1>2 DEF RowsOf

\* A cell is in sight just in case it is at a row.
LEMMA InSight ==
    ASSUME NEW said \in Sayings, RowsGood(said), NEW c \in Cell
    PROVE  /\ Visible(c) => /\ cells[c].row \in GoodRow(notices, taps, said)
                            /\ cells[c].at \in DOMAIN feedbacks
                            /\ cells[c].row.id = feedbacks[cells[c].at].id
                            /\ cells[c] = [row |-> cells[c].row, at |-> cells[c].at]
           /\ ~Visible(c) => cells[c] = Spare
           /\ cells[c].at \in Nat
BY DEF RowsGood, Visible, Spare

\* Setting the rows hands each cell in sight a copy of its row.
LEMMA SetFeedbacksDoes ==
    ASSUME NEW said \in Sayings, RowsGood(said), NEW S, NEW rows \in Seq(S),
           SetFeedbacks(rows)
    PROVE  /\ feedbacks' = rows /\ DOMAIN cells' = Cell
           /\ \A c \in Cell : \/ cells'[c] = Spare
                              \/ \E i \in DOMAIN rows : cells'[c] = [row |-> rows[i], at |-> i]
<1> USE NoticesAssumption
<1> DEFINE shown == {cells[c].at : c \in {c \in Cell : Visible(c)}}
           last == IF Len(rows) > Cardinality(Cell) THEN Len(rows) - Cardinality(Cell) ELSE 0
           inSight == (Offset(rows) + 1)..Min({Len(rows), Offset(rows) + Cardinality(Cell)})
<1>1. Cardinality(Cell) \in Nat /\ Len(rows) \in Nat /\ last \in Nat
  BY FS_CardinalityType
<1>2. Offset(rows) \in Nat
  <2>1. CASE shown = {}
    BY <2>1 DEF Offset
  <2>2. CASE shown # {}
    <3>1. shown \in SUBSET Nat /\ \A k \in shown : k # 0
      BY InSight DEF Visible
    <3>2. Min(shown) \in Nat /\ Min(shown) # 0
      <4> HIDE DEF shown
      <4> QED BY <2>2, <3>1, MinMaxFacts
    <3>3. Min(shown) - 1 \in Nat
      BY <3>2
    <3>4. Offset(rows) = Min({Min(shown) - 1, last})
      BY <2>2 DEF Offset
    <3> HIDE DEF shown, last
    <3> QED BY <1>1, <3>3, <3>4, MinMaxFacts
  <2> QED BY <2>1, <2>2
<1>3. inSight \subseteq 1..Len(rows)
  <2> DEFINE end == Offset(rows) + Cardinality(Cell)
  <2>1. end \in Int /\ Len(rows) \in Int
    BY <1>1, <1>2
  <2> HIDE DEF end
  <2>2. Min({Len(rows), end}) = IF Len(rows) <= end THEN Len(rows) ELSE end
    BY <2>1, MinMaxFacts
  <2>3. Min({Len(rows), end}) \in Int /\ Min({Len(rows), end}) <= Len(rows)
    BY <2>1, <2>2
  <2> QED BY <1>1, <1>2, <2>3 DEF end
<1>4. feedbacks' = rows
  BY DEF SetFeedbacks
<1> DEFINE RowFor(cellOf, c) == CHOOSE i \in inSight : cellOf[i] = c
           Copy(cellOf, c) == IF \E i \in inSight : cellOf[i] = c
                              THEN [row |-> rows[RowFor(cellOf, c)], at |-> RowFor(cellOf, c)]
                              ELSE Spare
<1>5. PICK cellOf \in [inSight -> Cell] : cells' = [c \in Cell |-> Copy(cellOf, c)]
  BY DEF SetFeedbacks
<1> HIDE DEF inSight, Copy, RowFor
<1>6. ASSUME NEW c \in Cell
      PROVE  \/ cells'[c] = Spare
             \/ \E i \in DOMAIN rows : cells'[c] = [row |-> rows[i], at |-> i]
  <2>1. CASE \E i \in inSight : cellOf[i] = c
    <3>1. RowFor(cellOf, c) \in inSight
      BY <2>1 DEF RowFor
    <3>2. cells'[c] = [row |-> rows[RowFor(cellOf, c)], at |-> RowFor(cellOf, c)]
      BY <1>5, <2>1 DEF Copy
    <3> QED BY <1>3, <3>1, <3>2
  <2>2. CASE ~ \E i \in inSight : cellOf[i] = c
    BY <1>5, <2>2 DEF Copy
  <2> QED BY <2>1, <2>2
<1> QED BY <1>4, <1>5, <1>6

\* So rows that are right stay right in the cells.
LEMMA SetFeedbacksGood ==
    ASSUME NEW said \in Sayings, RowsGood(said), notices' = notices, taps' = taps,
           NEW rows \in Seq(GoodRow(notices, taps, said)), SetFeedbacks(rows)
    PROVE  RowsGood(said)'
<1> DEFINE good == GoodRow(notices, taps, said)
<1>1. /\ feedbacks' = rows /\ DOMAIN cells' = Cell
      /\ \A c \in Cell : \/ cells'[c] = Spare
                         \/ \E i \in DOMAIN rows : cells'[c] = [row |-> rows[i], at |-> i]
  BY SetFeedbacksDoes
<1>2. \A i \in DOMAIN rows : rows[i] \in good
  OBVIOUS
<1>3. GoodRow(notices', taps', said) = good
  OBVIOUS
<1> HIDE DEF good
<1>4. ASSUME NEW c \in Cell
      PROVE  \/ cells'[c] = Spare
             \/ /\ cells'[c] \in [row : good, at : DOMAIN feedbacks']
                /\ cells'[c].row.id = feedbacks'[cells'[c].at].id
  BY <1>1, <1>2
<1> QED BY <1>1, <1>3, <1>4 DEF RowsGood, good

-----------------------------------------------------------------------------
(* What the device sees, and what the steps do to the queues               *)

\* The device sees the star that the last tap asked for.
LEMMA SeesSaid ==
    ASSUME NEW said \in Sayings, ClientOK, CountsOK, QueuesGood(said), StarsGood(said),
           NEW s \in Sender
    PROVE  said[s][taps[s]] \in BOOLEAN /\ (Sees(Star(s)) <=> said[s][taps[s]])
<1>1. said[s][taps[s]] \in BOOLEAN
  BY DEF CountsOK, Sayings
<1>2. Star(s) \in DOMAIN db
  BY DEF ClientOK, Docs
<1>3. /\ Len(pending[Me]) \in Nat
      /\ \A i \in 1..Len(pending[Me]) :
            pending[Me][i].op \in {"set", "delete"} /\ pending[Me][i].val = EmptyDoc
  <2>1. pending[Me] \in Seq(GoodWrite(notices, taps, said))
    BY DEF QueuesGood
  <2>2. \A i \in 1..Len(pending[Me]) : pending[Me][i] \in GoodWrite(notices, taps, said)
    BY <2>1
  <2>3. \A w \in GoodWrite(notices, taps, said) : w.op \in {"set", "delete"} /\ w.val = EmptyDoc
    BY DEF GoodWrite
  <2> QED BY <2>1, <2>2, <2>3
<1>4. Ends(db, pending[Me], Star(s), said[s][taps[s]])
  BY DEF StarsGood
<1>5. Overlay(db, pending[Me])[Star(s)] # NoDoc <=> said[s][taps[s]]
  <2> DEFINE b == said[s][taps[s]]
             q == pending[Me]
             d == Star(s)
  <2>1. /\ b \in BOOLEAN /\ d \in DOMAIN db /\ Len(q) \in Nat /\ Ends(db, q, d, b)
        /\ \A i \in 1..Len(q) :
              q[i].doc = d => q[i].op \in {"set", "delete"} /\ q[i].val = EmptyDoc
    BY <1>1, <1>2, <1>3, <1>4
  <2> HIDE DEF b, q, d
  <2>2. Overlay(db, q)[d] # NoDoc <=> b
    BY <2>1, AbsentAssumption, OverlayEnds
  <2> QED BY <2>2 DEF b, q, d
<1> QED BY <1>1, <1>5 DEF Sees, View

\* What does not change leaves the parts of Told as they are.
LEMMA PartsStay ==
    ASSUME NEW said \in Sayings, UNCHANGED <<notices, taps, fetches>>
    PROVE  /\ UNCHANGED tableVars /\ RowsGood(said) => RowsGood(said)'
           /\ UNCHANGED <<main, pending>> /\ QueuesGood(said) => QueuesGood(said)'
           /\ UNCHANGED <<db, pending, sent>> /\ StarsGood(said) => StarsGood(said)'
<1>1. ASSUME UNCHANGED tableVars, RowsGood(said) PROVE RowsGood(said)'
  BY <1>1 DEF tableVars, RowsGood
<1>2. ASSUME UNCHANGED <<main, pending>>, QueuesGood(said) PROVE QueuesGood(said)'
  BY <1>2 DEF QueuesGood
<1>3. ASSUME UNCHANGED <<db, pending, sent>>, StarsGood(said) PROVE StarsGood(said)'
  BY <1>3 DEF StarsGood
<1> QED BY <1>1, <1>2, <1>3

\* A handler that came due is right, and so are those behind it.
LEMMA DueFacts ==
    ASSUME NEW said \in Sayings, ClientOK, QueuesGood(said), NEW do, Due(Me, do), RunHead
    PROVE  /\ main'[Me] \in Seq(GoodHandler(notices, taps, said, fetches)) /\ DOMAIN main' = User
           /\ Popped(main[Me], main'[Me], Handled)
           /\ do \in {"starStored", "starDeleted", "toggle"}
                => Handled \in GoodTap(notices, taps, said)
           /\ do = "checked" => Handled \in GoodAnswer(notices, taps, said)
           /\ do = "fetched" => /\ Handled.fetch \in 1..fetches
                                /\ Handled.rows \in Seq(GoodRow(notices, taps, said))
           /\ Handled.do = do
<1> DEFINE h == Handled
<1>1. main[Me] \in Seq(GoodHandler(notices, taps, said, fetches)) /\ main[Me] # << >>
  BY DEF QueuesGood, Due
<1>2. /\ Popped(main[Me], Tail(main[Me]), h)
      /\ Tail(main[Me]) \in Seq(GoodHandler(notices, taps, said, fetches))
      /\ h \in GoodHandler(notices, taps, said, fetches)
  BY <1>1, TailPops DEF Handled
<1>3. main'[Me] = Tail(main[Me]) /\ DOMAIN main' = User
  BY NoticesAssumption DEF RunHead, ClientOK
<1>4. h.do = do
  BY DEF Due, Handled
<1> HIDE DEF h
<1>5. /\ \A g \in GoodTap(notices, taps, said) : g.do \in {"starStored", "starDeleted", "toggle"}
      /\ \A g \in GoodAnswer(notices, taps, said) : g.do = "checked"
  BY DEF GoodTap, TapHandler, GoodAnswer
<1>6. /\ do \in {"starStored", "starDeleted", "toggle"} => h \in GoodTap(notices, taps, said)
      /\ do = "checked" => h \in GoodAnswer(notices, taps, said)
      /\ do = "fetched" => /\ h.fetch \in 1..fetches
                           /\ h.rows \in Seq(GoodRow(notices, taps, said))
  BY <1>2, <1>4, <1>5 DEF GoodHandler
<1> QED BY <1>2, <1>3, <1>4, <1>6 DEF h

\* An answer puts a handler at the end of the main queue.
LEMMA PostDoes ==
    ASSUME NEW said \in Sayings, ClientOK, QueuesGood(said), UNCHANGED <<notices, taps, fetches, pending>>,
           NEW h \in GoodHandler(notices, taps, said, fetches), Post(h)
    PROVE  /\ QueuesGood(said)' /\ DOMAIN main' = User
           /\ Grows(main[Me], main'[Me]) /\ main'[Me][Len(main[Me]) + 1] = h
<1>1. main[Me] \in Seq(GoodHandler(notices, taps, said, fetches))
  BY DEF QueuesGood
<1>2. main'[Me] = Append(main[Me], h) /\ DOMAIN main' = User
  BY NoticesAssumption DEF Post, ClientOK
<1>3. /\ Grows(main[Me], main'[Me]) /\ main'[Me][Len(main[Me]) + 1] = h
      /\ main'[Me] \in Seq(GoodHandler(notices, taps, said, fetches))
  BY <1>1, <1>2, AppendGrows
<1> QED BY <1>2, <1>3 DEF QueuesGood

\* A write joins the queue.
LEMMA IssueDoes ==
    ASSUME ClientOK, NEW S, pending[Me] \in Seq(S), NEW w \in S, Issue(Me, <<w>>),
           UNCHANGED <<db, sent>>
    PROVE  /\ pending'[Me] \in Seq(S) /\ DOMAIN pending' = User
           /\ Grows(pending[Me], pending'[Me]) /\ pending'[Me][Len(pending'[Me])] = w
           /\ sent'[Me] \in 0..Len(pending'[Me])
           /\ \A s \in Sender, b \in BOOLEAN :
                 /\ w.doc # Star(s) /\ Ends(db, pending[Me], Star(s), b)
                      => Ends(db', pending'[Me], Star(s), b)
                 /\ w.doc = Star(s) => Ends(db', pending'[Me], Star(s), w.op = "set")
                 /\ Reached(db, pending[Me], sent[Me], Star(s))
                      => Reached(db', pending'[Me], sent'[Me], Star(s))
<1>1. pending'[Me] = pending[Me] \o <<w>> /\ DOMAIN pending' = User
  BY NoticesAssumption DEF Issue, ClientOK
<1>2. /\ Grows(pending[Me], pending'[Me]) /\ pending'[Me][Len(pending[Me]) + 1] = w
      /\ pending'[Me] \in Seq(S)
  <2> DEFINE q == pending[Me]
  <2>1. q \in Seq(S) /\ pending'[Me] = q \o <<w>>
    BY <1>1
  <2> HIDE DEF q
  <2>2. /\ Grows(q, Append(q, w)) /\ Append(q, w)[Len(q) + 1] = w
        /\ Append(q, w) \in Seq(S) /\ pending'[Me] = Append(q, w)
    BY <2>1, AppendGrows
  <2> QED BY <2>2 DEF q
<1>3. /\ Len(pending[Me]) \in Nat /\ Len(pending'[Me]) = Len(pending[Me]) + 1
      /\ sent'[Me] = sent[Me] /\ sent[Me] \in 0..Len(pending[Me])
  BY <1>2 DEF Grows, ClientOK
<1>4. pending'[Me][Len(pending'[Me])] = w
  BY <1>2, <1>3
<1>5. ASSUME NEW s \in Sender, NEW b \in BOOLEAN
      PROVE  /\ w.doc # Star(s) /\ Ends(db, pending[Me], Star(s), b)
                  => Ends(db', pending'[Me], Star(s), b)
             /\ w.doc = Star(s) => Ends(db', pending'[Me], Star(s), w.op = "set")
  BY <1>2, <1>4, EndsGrows
<1>6. ASSUME NEW s \in Sender, Reached(db, pending[Me], sent[Me], Star(s))
      PROVE  Reached(db', pending'[Me], sent'[Me], Star(s))
  <2>1. \A i \in 1..sent[Me] : pending'[Me][i] = pending[Me][i]
    BY <1>2, <1>3 DEF Grows
  <2>2. db' = db /\ sent'[Me] = sent[Me] /\ sent[Me] \in Nat
    BY <1>3
  <2> QED BY <1>6, <2>1, <2>2 DEF Reached
<1> QED BY <1>1, <1>2, <1>3, <1>4, <1>5, <1>6

-----------------------------------------------------------------------------
(* The steps keep the copies right                                         *)

\* A write reaches the server: its document is as the write left it.
LEMMA TransmitKeeps ==
    ASSUME NEW said \in Sayings, ClientOK, CountsOK, Right(said), Transmit(Me),
           UNCHANGED noticesVars
    PROVE  ClientOK' /\ Right(said)'
<1> USE NoticesAssumption
<1> DEFINE q == pending[Me]
           n == sent[Me]
           w == q[n + 1]
<1>1. /\ n \in Nat /\ n < Len(q) /\ Len(q) \in Nat /\ n + 1 \in 1..Len(q)
      /\ db' = Apply(db, w) /\ sent' = [sent EXCEPT ![Me] = @ + 1]
      /\ UNCHANGED <<pending, main>> /\ UNCHANGED <<notices, taps, fetches>>
      /\ UNCHANGED tableVars
      /\ q \in Seq(GoodWrite(notices, taps, said))
  <2>1. q \in Seq(GoodWrite(notices, taps, said))
    BY DEF Right, QueuesGood
  <2>2. Len(q) \in Nat /\ n \in 0..Len(q)
    BY <2>1 DEF ClientOK
  <2>3. n < Len(q) /\ db' = Apply(db, w) /\ sent' = [sent EXCEPT ![Me] = @ + 1]
        /\ UNCHANGED <<pending, main>>
    BY DEF Transmit
  <2>4. UNCHANGED <<notices, taps, fetches>> /\ UNCHANGED tableVars
    BY DEF noticesVars, readVars, historyVars
  <2> QED BY <2>1, <2>2, <2>3, <2>4
<1>2. w \in GoodWrite(notices, taps, said)
  BY <1>1
<1>3. w.op \in {"set", "delete"} /\ w.doc \in Docs /\ w.val = EmptyDoc
  <2> HIDE DEF w
  <2> QED BY <1>2 DEF GoodWrite
<1> HIDE DEF w
<1>4. /\ db' \in [Docs -> {EmptyDoc, NoDoc}]
      /\ \A d \in Docs : /\ w.doc # d => db'[d] = db[d]
                         /\ w.doc = d => (db'[d] # NoDoc <=> w.op = "set")
  BY <1>1, <1>3, AbsentAssumption DEF Apply, AfterWrite, ClientOK
<1>5. sent'[Me] = n + 1 /\ DOMAIN sent' = User
  BY <1>1 DEF ClientOK
<1>6. ClientOK'
  BY <1>1, <1>4, <1>5 DEF ClientOK
<1>7. RowsGood(said)' /\ QueuesGood(said)'
  BY <1>1, PartsStay DEF Right
<1>8. ASSUME NEW s \in Sender
      PROVE  /\ Ends(db', q, Star(s), said[s][taps[s]])
             /\ Reached(db', q, n + 1, Star(s))
  <2>1. Star(s) \in Docs
    BY DEF Docs
  <2>2. Ends(db, q, Star(s), said[s][taps[s]]) /\ Reached(db, q, n, Star(s))
    BY DEF Right, StarsGood
  <2>3. Reached(db', q, n + 1, Star(s))
    <3> HIDE DEF q, n
    <3>1. /\ q[n + 1].doc # Star(s) => db'[Star(s)] = db[Star(s)]
          /\ q[n + 1].doc = Star(s) => (db'[Star(s)] # NoDoc <=> q[n + 1].op = "set")
      BY <1>4, <2>1 DEF w
    <3> QED BY <1>1, <2>2, <3>1, TransmitStep
  <2>4. Ends(db', q, Star(s), said[s][taps[s]])
    <3>1. ASSUME \A i \in 1..Len(q) : q[i].doc # Star(s)
          PROVE  db'[Star(s)] = db[Star(s)]
      BY <1>1, <1>4, <2>1, <3>1 DEF w
    <3> HIDE DEF q, n
    <3> QED BY <2>2, <3>1 DEF Ends
  <2> QED BY <2>3, <2>4
<1>9. StarsGood(said)'
  BY <1>1, <1>5, <1>8 DEF StarsGood
<1> QED BY <1>6, <1>7, <1>9 DEF Right

\* The oldest write is acknowledged, and its handler comes due.
LEMMA AcknowledgeKeeps ==
    ASSUME NEW said \in Sayings, ClientOK, CountsOK, Right(said), Acknowledge(Me),
           UNCHANGED noticesVars
    PROVE  /\ ClientOK' /\ Right(said)'
           /\ Popped(pending[Me], pending'[Me], Head(pending[Me]))
           /\ Head(pending[Me]).then \in TapHandler
           /\ Grows(main[Me], main'[Me])
           /\ main'[Me][Len(main[Me]) + 1] = Head(pending[Me]).then
<1> USE NoticesAssumption
<1> DEFINE q == pending[Me]
           r == pending'[Me]
           n == sent[Me]
           then == Head(q).then
           Writes == GoodWrite(notices, taps, said)
           Handlers == GoodHandler(notices, taps, said, fetches)
<1>1. /\ q \in Seq(Writes) /\ main[Me] \in Seq(Handlers)
      /\ n \in Nat /\ n > 0 /\ n <= Len(q) /\ q # << >>
  BY DEF Right, QueuesGood, ClientOK, Acknowledge
<1>2. /\ pending' = [pending EXCEPT ![Me] = Tail(q)] /\ sent' = [sent EXCEPT ![Me] = n - 1]
      /\ main' = IF then = Nothing THEN main ELSE [main EXCEPT ![Me] = Append(@, then)]
      /\ db' = db
  BY DEF Acknowledge
<1>3. UNCHANGED <<notices, taps, fetches>> /\ UNCHANGED tableVars
  BY DEF noticesVars, readVars, historyVars
<1>4. r = Tail(q) /\ sent'[Me] = n - 1 /\ DOMAIN pending' = User /\ DOMAIN sent' = User
  BY <1>2 DEF ClientOK
<1>5. Popped(q, Tail(q), Head(q)) /\ Tail(q) \in Seq(Writes) /\ Head(q) \in Writes
  <2> HIDE DEF q, Writes
  <2> QED BY <1>1, TailPops
<1>6. then \in GoodTap(notices, taps, said) /\ then \in TapHandler /\ then # Nothing
  <2>1. \A w \in Writes : w.then \in GoodTap(notices, taps, said)
    BY DEF GoodWrite
  <2> QED BY <1>5, <2>1, AbsentAssumption DEF GoodTap
<1>7. /\ main'[Me] = Append(main[Me], then) /\ DOMAIN main' = User
      /\ then \in Handlers
  BY <1>2, <1>6 DEF ClientOK, GoodHandler
<1>8. /\ Grows(main[Me], main'[Me]) /\ main'[Me][Len(main[Me]) + 1] = then
      /\ main'[Me] \in Seq(Handlers)
  <2> HIDE DEF then, Handlers
  <2> QED BY <1>1, <1>7, AppendGrows
<1>9. Len(r) = Len(q) - 1 /\ Len(q) \in Nat /\ \A i \in 1..Len(r) : r[i] = q[i + 1]
  BY <1>4, <1>5 DEF Popped
<1>10. ClientOK'
  BY <1>1, <1>2, <1>4, <1>7, <1>9 DEF ClientOK
<1>11. RowsGood(said)'
  BY <1>3, PartsStay DEF Right
<1>12. QueuesGood(said)'
  BY <1>3, <1>4, <1>5, <1>8 DEF QueuesGood
<1>13. ASSUME NEW s \in Sender
       PROVE  /\ Ends(db, r, Star(s), said[s][taps[s]])
              /\ Reached(db, r, n - 1, Star(s))
  <2> DEFINE b == said[s][taps[s]]
  <2>1. Ends(db, q, Star(s), b) /\ Reached(db, q, n, Star(s)) /\ b \in BOOLEAN
    BY DEF Right, StarsGood, CountsOK, Sayings
  <2> HIDE DEF q, r, n, b
  <2>2. Reached(db, r, n - 1, Star(s)) /\ Ends(db, r, Star(s), b)
    BY <1>1, <1>9, <2>1, AcknowledgeStep
  <2> QED BY <2>2 DEF b
<1>14. StarsGood(said)'
  BY <1>2, <1>3, <1>4, <1>13 DEF StarsGood
<1> QED BY <1>4, <1>5, <1>6, <1>8, <1>10, <1>11, <1>12, <1>14 DEF Right

\* The stream breaks: nothing counts as delivered.
LEMMA ReconnectKeeps ==
    ASSUME NEW said \in Sayings, ClientOK, CountsOK, Right(said), Reconnect(Me),
           UNCHANGED noticesVars
    PROVE  ClientOK' /\ Right(said)'
<1> USE NoticesAssumption
<1>1. UNCHANGED <<notices, taps, fetches>> /\ UNCHANGED tableVars /\ UNCHANGED <<db, pending, main>>
  BY DEF noticesVars, readVars, historyVars, Reconnect
<1>2. sent'[Me] = 0 /\ DOMAIN sent' = User
  BY DEF Reconnect, ClientOK
<1>3. Len(pending[Me]) \in Nat
  BY DEF Right, QueuesGood
<1>4. ClientOK'
  BY <1>1, <1>2, <1>3 DEF ClientOK
<1>5. RowsGood(said)' /\ QueuesGood(said)'
  BY <1>1, PartsStay DEF Right
<1>6. StarsGood(said)'
  BY <1>1, <1>2 DEF StarsGood, Right, Reached
<1> QED BY <1>4, <1>5, <1>6 DEF Right

\* An answer is right when it is given: rows know of no taps, and a check
\* says what the device sees.
LEMMA AnswersKeep ==
    ASSUME NEW said \in Sayings, ClientOK, CountsOK, Right(said), Answered \/ AnswerFromCache
    PROVE  /\ ClientOK' /\ Right(said)'
           /\ UNCHANGED <<db, pending, sent>> /\ UNCHANGED loaderVars
           /\ Grows(main[Me], main'[Me])
           /\ (\E n \in looking : looking' = looking \ {n})
                => main'[Me][Len(main[Me]) + 1].do = "found"
<1> USE NoticesAssumption
<1> DEFINE Handlers == GoodHandler(notices, taps, said, fetches)
           Done(h) == /\ h \in Handlers /\ Post(h)
                      /\ UNCHANGED <<db, pending, sent>> /\ UNCHANGED loaderVars
                      /\ UNCHANGED <<notices, taps, fetches>> /\ UNCHANGED tableVars
                      /\ (\E n \in looking : looking' = looking \ {n}) => h.do = "found"
<1>1. ASSUME NEW n \in 0..Len(notices), Answer(n) PROVE \E h : Done(h)
  <2> DEFINE h == [do |-> "fetched", fetch |-> fetches - fetching + 1, rows |-> RowsOf(n)]
  <2>1. fetches - fetching + 1 \in 1..fetches
    BY <1>1 DEF Answer, CountsOK
  <2>2. RowsOf(n) \in Seq(GoodRow(notices, taps, said))
    BY RowsOfFacts
  <2>3. h \in Handlers
    BY <2>1, <2>2 DEF GoodHandler
  <2>4. /\ Post(h) /\ UNCHANGED <<db, pending, sent>> /\ UNCHANGED loaderVars
        /\ UNCHANGED <<notices, taps, fetches>> /\ UNCHANGED tableVars /\ looking' = looking
    BY <1>1 DEF Answer, historyVars
  <2>5. ~ \E m \in looking : looking' = looking \ {m}
    BY <2>4
  <2> HIDE DEF h
  <2> QED BY <2>3, <2>4, <2>5
<1>2. CASE AnswerFetch
  <2>1. Len(notices) \in 0..Len(notices)
    BY DEF CountsOK
  <2>2. \E h : Done(h)
    <3> HIDE DEF Done
    <3> QED BY <1>1, <1>2, <2>1 DEF AnswerFetch
  <2> QED BY <2>2, PostDoes, PartsStay DEF Right, ClientOK
<1>3. CASE AnswerFromCache
  <2>1. cached \in 0..Len(notices)
    BY DEF CountsOK
  <2>2. \E h : Done(h)
    <3> HIDE DEF Done
    <3> QED BY <1>1, <1>3, <2>1 DEF AnswerFromCache
  <2> QED BY <2>2, PostDoes, PartsStay DEF Right, ClientOK
<1>4. CASE AnswerCheck
  <2>1. PICK check \in checks :
           /\ Post([do |-> "checked", id |-> check.id,
                    fan |-> Sees(Star(check.uid)), seen |-> taps[check.uid]])
           /\ UNCHANGED <<db, pending, sent>> /\ UNCHANGED loaderVars
           /\ UNCHANGED <<notices, taps, fetches>> /\ UNCHANGED tableVars /\ looking' = looking
    BY <1>4 DEF AnswerCheck, historyVars
  <2> DEFINE h == [do |-> "checked", id |-> check.id,
                   fan |-> Sees(Star(check.uid)), seen |-> taps[check.uid]]
  <2>2. /\ check.uid \in Sender /\ check.id \in 1..Len(notices)
        /\ check.uid = notices[check.id].uid /\ Len(notices) <= MaxNotices
        /\ Len(notices) \in Nat
    BY DEF CountsOK
  <2>3. /\ Sees(Star(check.uid)) \in BOOLEAN
        /\ Sees(Star(check.uid)) = said[check.uid][taps[check.uid]]
    <3>1. /\ said[check.uid][taps[check.uid]] \in BOOLEAN
          /\ Sees(Star(check.uid)) <=> said[check.uid][taps[check.uid]]
      BY <2>2, SeesSaid DEF Right
    <3>2. Sees(Star(check.uid)) \in BOOLEAN
      BY DEF Sees
    <3> QED BY <3>1, <3>2
  <2>4. taps[check.uid] \in 0..MaxTaps /\ taps[check.uid] <= taps[check.uid]
    BY <2>2 DEF CountsOK
  <2>5. h \in GoodAnswer(notices, taps, said)
    <3> DEFINE fan == Sees(Star(check.uid))
               seen == taps[check.uid]
               uid == check.uid
               id == check.id
    <3>1. /\ fan \in BOOLEAN /\ fan = said[uid][seen] /\ seen \in 0..MaxTaps
          /\ id \in 1..Len(notices) /\ id <= MaxNotices /\ uid = notices[id].uid
          /\ seen <= taps[uid]
      BY <2>2, <2>3, <2>4
    <3>2. h = [do |-> "checked", id |-> id, fan |-> fan, seen |-> seen]
      OBVIOUS
    <3> HIDE DEF fan, seen, uid, id, h
    <3> QED BY <3>1, <3>2 DEF GoodAnswer
  <2>6. h \in Handlers
    BY <2>5 DEF GoodHandler
  <2>7. ~ \E m \in looking : looking' = looking \ {m}
    BY <2>1
  <2> HIDE DEF h, Handlers
  <2>8. \E g : Done(g)
    BY <2>1, <2>6, <2>7 DEF h
  <2> QED BY <2>8, PostDoes, PartsStay DEF Right, ClientOK, Handlers
<1>5. CASE LookAnswered
  <2> DEFINE h == [do |-> "found"]
  <2>1. /\ Post(h) /\ UNCHANGED <<db, pending, sent>> /\ UNCHANGED loaderVars
        /\ UNCHANGED <<notices, taps, fetches>> /\ UNCHANGED tableVars
    BY <1>5 DEF LookAnswered, historyVars
  <2>2. h \in Handlers /\ h.do = "found"
    BY DEF GoodHandler
  <2> HIDE DEF h
  <2> QED BY <2>1, <2>2, PostDoes, PartsStay DEF Right, ClientOK
<1> QED BY <1>2, <1>3, <1>4, <1>5 DEF Answered

\* The rows of an answer replace those of the table.
LEMMA FetchedKeeps ==
    ASSUME NEW said \in Sayings, ClientOK, CountsOK, Right(said), Fetched
    PROVE  ClientOK' /\ Right(said)'
<1> USE NoticesAssumption
<1>1. /\ UNCHANGED <<db, pending, sent>> /\ UNCHANGED <<notices, taps, fetches>>
      /\ Due(Me, "fetched") /\ RunHead /\ SetFeedbacks(Handled.rows)
  BY DEF Fetched, historyVars
<1>2. /\ main'[Me] \in Seq(GoodHandler(notices, taps, said, fetches)) /\ DOMAIN main' = User
      /\ Handled.rows \in Seq(GoodRow(notices, taps, said))
  BY <1>1, DueFacts DEF Right
<1>3. RowsGood(said)'
  BY <1>1, <1>2, SetFeedbacksGood DEF Right
<1>4. QueuesGood(said)' /\ StarsGood(said)'
  BY <1>1, <1>2, PartsStay DEF Right, QueuesGood
<1> QED BY <1>1, <1>2, <1>3, <1>4 DEF Right, ClientOK

\* The answer of a check is as right in the row as it is on its way.
LEMMA CheckedKeeps ==
    ASSUME NEW said \in Sayings, ClientOK, CountsOK, Right(said), Checked
    PROVE  ClientOK' /\ Right(said)'
<1> USE NoticesAssumption
<1> DEFINE h == Handled
           good == GoodRow(notices, taps, said)
           at == {i \in DOMAIN feedbacks : feedbacks[i].id = h.id}
           rows == [feedbacks EXCEPT ![Min(at)].userFan = h.fan, ![Min(at)].seen = h.seen]
<1>1. /\ UNCHANGED <<db, pending, sent>> /\ UNCHANGED <<notices, taps, fetches>>
      /\ Due(Me, "checked") /\ RunHead
      /\ IF at = {} THEN UNCHANGED tableVars ELSE SetFeedbacks(rows)
  BY DEF Checked, readVars, historyVars
<1>2. /\ main'[Me] \in Seq(GoodHandler(notices, taps, said, fetches)) /\ DOMAIN main' = User
      /\ h \in GoodAnswer(notices, taps, said)
  BY <1>1, DueFacts DEF Right
<1>3. QueuesGood(said)' /\ StarsGood(said)'
  BY <1>1, <1>2, PartsStay DEF Right, QueuesGood
<1>4. CASE at = {}
  <2>1. RowsGood(said)'
    BY <1>1, <1>4, PartsStay DEF Right
  <2> QED BY <1>1, <1>2, <1>3, <2>1 DEF Right, ClientOK
<1>5. CASE at # {}
  <2>1. feedbacks \in Seq(good)
    BY DEF Right, RowsGood
  <2>2. Min(at) \in at
    <3>1. at \in SUBSET Nat
      BY <2>1
    <3> HIDE DEF at
    <3> QED BY <1>5, <3>1, MinMaxFacts
  <2>3. Min(at) \in DOMAIN feedbacks /\ feedbacks[Min(at)].id = h.id
    BY <2>2
  <2> DEFINE m == Min(at)
             old == feedbacks[m]
             new == [old EXCEPT !.userFan = h.fan, !.seen = h.seen]
  <2>4. old \in good /\ old.id = h.id
    BY <2>1, <2>3
  <2>5. new \in good
    <3>1. /\ old \in RowType /\ old.id \in 1..Len(notices)
          /\ old.uid = notices[old.id].uid /\ old.type = notices[old.id].type
      BY <2>4 DEF GoodRow
    <3>2. /\ h.fan \in BOOLEAN /\ h.seen \in 0..MaxTaps
          /\ h.seen <= taps[notices[h.id].uid] /\ h.fan = said[notices[h.id].uid][h.seen]
      BY <1>2 DEF GoodAnswer
    <3> HIDE DEF old, h
    <3>3. /\ new \in RowType /\ new.id = old.id /\ new.uid = old.uid /\ new.type = old.type
          /\ new.userFan = h.fan /\ new.seen = h.seen
      BY <3>1, <3>2 DEF RowType
    <3> HIDE DEF new
    <3> QED BY <2>4, <3>1, <3>2, <3>3 DEF GoodRow
  <2>6. rows \in Seq(good)
    <3>1. rows = [feedbacks EXCEPT ![m] = new]
      BY <2>1, <2>3
    <3> HIDE DEF rows, new, good, at
    <3> QED BY <2>1, <2>3, <2>5, <3>1
  <2>7. RowsGood(said)'
    <3> HIDE DEF rows, at
    <3> QED BY <1>1, <1>5, <2>6, SetFeedbacksGood DEF Right
  <2> QED BY <1>1, <1>2, <1>3, <2>7 DEF Right, ClientOK
<1> QED BY <1>4, <1>5

\* A completion flips the copy in its cell, and a copy that stands where the
\* tap found it is right for the next.
LEMMA FlippedGood ==
    ASSUME CountsOK, NEW said \in Sayings, NEW row \in GoodRow(notices, taps, said),
           Handled \in GoodTap(notices, taps, said)
    PROVE  Flipped(row) \in GoodRow(notices, taps, said) /\ Flipped(row).id = row.id
<1> USE NoticesAssumption
<1> DEFINE h == Handled
           seen == IF row.id = h.id /\ row.seen = h.from /\ row.seen # None
                   THEN row.seen + 1 ELSE None
           new == Flipped(row)
<1>1. /\ row \in RowType /\ row.id \in 1..Len(notices) /\ row.uid \in Sender
      /\ row.uid = notices[row.id].uid /\ row.type = notices[row.id].type
      /\ row.userFan \in BOOLEAN
  BY DEF GoodRow, RowType
<1>2. taps[row.uid] \in 0..MaxTaps /\ MaxTaps \in Nat
  BY <1>1 DEF CountsOK
<1>3. /\ seen \in 0..MaxTaps \cup {None}
      /\ seen # None => seen <= taps[row.uid] /\ said[row.uid][seen] = ~row.userFan
  <2>1. CASE row.id = h.id /\ row.seen = h.from /\ row.seen # None
    <3>1. h.uid = row.uid
      BY <1>1, <2>1 DEF GoodTap
    <3>2. h.from < taps[row.uid] /\ said[row.uid][h.from + 1] = ~said[row.uid][h.from]
      BY <2>1, <3>1 DEF GoodTap
    <3>3. row.userFan = said[row.uid][row.seen] /\ row.seen \in 0..MaxTaps
      BY <2>1 DEF GoodRow, RowType
    <3> HIDE DEF h
    <3>4. seen = row.seen + 1
      BY <2>1
    <3> HIDE DEF seen
    <3> QED BY <1>2, <2>1, <3>2, <3>3, <3>4
  <2>2. CASE ~(row.id = h.id /\ row.seen = h.from /\ row.seen # None)
    BY <2>2
  <2> QED BY <2>1, <2>2
<1>4. new = [row EXCEPT !.userFan = ~row.userFan, !.seen = seen]
  BY DEF Flipped
<1> HIDE DEF seen, new
<1>5. /\ new \in RowType /\ new.id = row.id /\ new.uid = row.uid /\ new.type = row.type
      /\ new.userFan = ~row.userFan /\ new.seen = seen
  BY <1>1, <1>3, <1>4 DEF RowType
<1>6. new \in GoodRow(notices, taps, said)
  BY <1>1, <1>3, <1>5 DEF GoodRow
<1> QED BY <1>5, <1>6 DEF new

\* So the completion of a tap keeps the copies right.
LEMMA ToggleKeeps ==
    ASSUME NEW said \in Sayings, ClientOK, CountsOK, Right(said), Toggle
    PROVE  ClientOK' /\ Right(said)'
<1> USE NoticesAssumption
<1> DEFINE good == GoodRow(notices, taps, said)
           x == Handled.cell
<1>1. /\ UNCHANGED <<db, pending, sent>> /\ UNCHANGED <<notices, taps, fetches>>
      /\ Due(Me, "toggle") /\ RunHead /\ feedbacks' = feedbacks
      /\ cells' = [cells EXCEPT ![x].row = IF Visible(x) THEN Flipped(@) ELSE @]
  BY DEF Toggle, readVars, historyVars
<1>2. /\ main'[Me] \in Seq(GoodHandler(notices, taps, said, fetches)) /\ DOMAIN main' = User
      /\ Handled \in GoodTap(notices, taps, said)
  BY <1>1, DueFacts DEF Right
<1>3. QueuesGood(said)' /\ StarsGood(said)'
  BY <1>1, <1>2, PartsStay DEF Right, QueuesGood
<1>4. RowsGood(said)
  BY DEF Right
<1>5. x \in Cell
  BY <1>2 DEF GoodTap, TapHandler
<1>6. DOMAIN cells = Cell /\ DOMAIN cells' = Cell
  BY <1>1, <1>4 DEF RowsGood
<1> HIDE DEF x
<1>7. \A c \in Cell \ {x} : cells'[c] = cells[c]
  BY <1>1, <1>6
<1>8. ASSUME NEW c \in Cell
      PROVE  \/ cells'[c] = Spare
             \/ /\ cells'[c] \in [row : good, at : DOMAIN feedbacks]
                /\ cells'[c].row.id = feedbacks[cells'[c].at].id
  <2>1. CASE c # x
    BY <1>4, <1>7, <2>1 DEF RowsGood
  <2>2. CASE c = x /\ Visible(x)
    <3>1. /\ cells[x].row \in good /\ cells[x].at \in DOMAIN feedbacks
          /\ cells[x].row.id = feedbacks[cells[x].at].id
          /\ cells[x] = [row |-> cells[x].row, at |-> cells[x].at]
      BY <1>4, <1>5, <2>2, InSight
    <3>2. cells'[x] = [row |-> Flipped(cells[x].row), at |-> cells[x].at]
      BY <1>1, <1>5, <1>6, <2>2, <3>1
    <3>3. Flipped(cells[x].row) \in good /\ Flipped(cells[x].row).id = cells[x].row.id
      BY <1>2, <3>1, FlippedGood
    <3> HIDE DEF good
    <3> QED BY <2>2, <3>1, <3>2, <3>3
  <2>3. CASE c = x /\ ~Visible(x)
    <3>1. cells[x] = Spare
      BY <1>4, <1>5, <2>3, InSight
    <3>2. cells'[x] = Spare
      BY <1>1, <1>5, <1>6, <2>3, <3>1 DEF Spare
    <3> QED BY <2>3, <3>2
  <2> QED BY <2>1, <2>2, <2>3
<1>9. RowsGood(said)'
  BY <1>1, <1>4, <1>6, <1>8 DEF RowsGood
<1> QED BY <1>1, <1>2, <1>3, <1>9 DEF Right, ClientOK

\* The handler of a star writes the other place of the fan.
LEMMA StarHandlersKeep ==
    ASSUME NEW said \in Sayings, ClientOK, CountsOK, Right(said), StarStored \/ StarDeleted
    PROVE  /\ ClientOK' /\ Right(said)'
           /\ Len(pending'[Me]) >= 1
           /\ pending'[Me][Len(pending'[Me])].then \in TapHandler
<1> USE NoticesAssumption
<1> DEFINE Writes == GoodWrite(notices, taps, said)
           Ran(do, w) == /\ w \in Writes /\ (\A s \in Sender : w.doc # Star(s))
                         /\ Due(Me, do) /\ RunHead /\ Issue(Me, <<w>>)
                         /\ UNCHANGED <<db, sent>> /\ UNCHANGED noticesVars
<1> DEFINE then == [Handled EXCEPT !.do = "toggle"]
<1>1. ASSUME NEW do \in {"starStored", "starDeleted"}, Due(Me, do), RunHead
      PROVE  then \in GoodTap(notices, taps, said) /\ Handled.uid \in Sender
  <2> DEFINE h == Handled
  <2>1. h \in GoodTap(notices, taps, said)
    BY <1>1, DueFacts DEF Right
  <2> HIDE DEF h
  <2>2. h \in TapHandler
    BY <2>1 DEF GoodTap
  <2>3. /\ [h EXCEPT !.do = "toggle"] \in TapHandler /\ h.uid \in Sender
        /\ [h EXCEPT !.do = "toggle"].id = h.id /\ [h EXCEPT !.do = "toggle"].uid = h.uid
        /\ [h EXCEPT !.do = "toggle"].from = h.from
    BY <2>2 DEF TapHandler
  <2>4. [h EXCEPT !.do = "toggle"] \in GoodTap(notices, taps, said)
    BY <2>1, <2>3 DEF GoodTap
  <2> QED BY <2>3, <2>4 DEF h
<1> HIDE DEF then
<1>2. ASSUME StarStored PROVE \E do, w : Ran(do, w)
  <2> DEFINE w == SetData(Fan(Handled.uid), EmptyDoc, then)
  <2>1. /\ Due(Me, "starStored") /\ RunHead /\ Issue(Me, <<w>>)
        /\ UNCHANGED <<db, sent>> /\ UNCHANGED noticesVars
    BY <1>2 DEF StarStored, then
  <2>2. w \in Writes /\ \A s \in Sender : w.doc # Star(s)
    BY <1>1, <2>1, DocsApart DEF SetData, GoodWrite, Docs
  <2> HIDE DEF w
  <2> QED BY <2>1, <2>2
<1>3. ASSUME StarDeleted PROVE \E do, w : Ran(do, w)
  <2> DEFINE w == DeleteDoc(Fan(Handled.uid), then)
  <2>1. /\ Due(Me, "starDeleted") /\ RunHead /\ Issue(Me, <<w>>)
        /\ UNCHANGED <<db, sent>> /\ UNCHANGED noticesVars
    BY <1>3 DEF StarDeleted, then
  <2>2. w \in Writes /\ \A s \in Sender : w.doc # Star(s)
    BY <1>1, <2>1, DocsApart DEF DeleteDoc, GoodWrite, Docs
  <2> HIDE DEF w
  <2> QED BY <2>1, <2>2
<1>4. PICK do, w : Ran(do, w)
  <2> HIDE DEF Ran
  <2> QED BY <1>2, <1>3
<1>5. UNCHANGED <<notices, taps, fetches>> /\ UNCHANGED tableVars
  BY <1>4 DEF noticesVars, readVars, historyVars
<1>6. main'[Me] \in Seq(GoodHandler(notices, taps, said, fetches)) /\ DOMAIN main' = User
  BY <1>4, DueFacts DEF Right
<1>7. pending[Me] \in Seq(Writes)
  BY DEF Right, QueuesGood
<1>8. /\ pending'[Me] \in Seq(Writes) /\ DOMAIN pending' = User
      /\ Grows(pending[Me], pending'[Me]) /\ pending'[Me][Len(pending'[Me])] = w
      /\ sent'[Me] \in 0..Len(pending'[Me])
      /\ \A s \in Sender, b \in BOOLEAN :
            /\ Ends(db, pending[Me], Star(s), b) => Ends(db', pending'[Me], Star(s), b)
            /\ Reached(db, pending[Me], sent[Me], Star(s))
                 => Reached(db', pending'[Me], sent'[Me], Star(s))
  <2> HIDE DEF Writes
  <2> QED BY <1>4, <1>7, IssueDoes
<1>9. RowsGood(said)' /\ QueuesGood(said)'
  BY <1>5, <1>6, <1>8, PartsStay DEF Right, QueuesGood
<1>10. StarsGood(said)'
  <2>1. \A s \in Sender : said[s][taps[s]] \in BOOLEAN
    BY DEF Sayings, CountsOK
  <2> QED BY <1>5, <1>8, <2>1 DEF Right, StarsGood
<1>11. ClientOK'
  BY <1>4, <1>6, <1>8 DEF ClientOK
<1>12. w.then \in TapHandler /\ Len(pending'[Me]) >= 1
  BY <1>4, <1>8 DEF GoodWrite, GoodTap, Grows
<1> QED BY <1>8, <1>9, <1>10, <1>11, <1>12 DEF Right

\* A tap on a copy that knew of all taps so far is remembered as such, and
\* decides the star.
LEMMA TapKeeps ==
    ASSUME NEW said \in Sayings, ClientOK, CountsOK, Right(said), NEW c \in Cell,
           TapFan(c) \/ TapUnfan(c)
    PROVE  /\ ClientOK' /\ Told'
           /\ Len(pending'[Me]) >= 1
           /\ pending'[Me][Len(pending'[Me])].then \in TapHandler
<1> USE NoticesAssumption
<1>1. /\ Visible(c) /\ cells[c].row.type = "fan" /\ tapped < MaxTaps
      /\ taps' = [taps EXCEPT ![cells[c].row.uid] = @ + 1]
      /\ UNCHANGED <<db, sent, main>> /\ UNCHANGED tableVars
      /\ notices' = notices /\ fetches' = fetches /\ fetches \in Nat
  BY DEF CountsOK, TapFan, TapUnfan, TapButton, readVars
<1>2. cells[c].row \in GoodRow(notices, taps, said)
  BY <1>1, InSight DEF Right
<1>3. PICK row \in GoodRow(notices, taps, said) : row = cells[c].row
  BY <1>2
<1>4. /\ row \in RowType /\ row.uid \in Sender /\ row.userFan \in BOOLEAN
      /\ row.id \in 1..Len(notices) /\ row.id \in 1..MaxNotices
      /\ row.uid = notices[row.id].uid
      /\ row.seen # None => row.userFan = said[row.uid][row.seen]
  BY DEF GoodRow, RowType
<1>5. PICK k \in 0..MaxTaps : k = taps[row.uid]
  BY <1>4 DEF CountsOK
<1>6. k + 1 \in 0..MaxTaps /\ taps' \in [Sender -> 0..MaxTaps]
      /\ taps'[row.uid] = k + 1 /\ \A s \in Sender \ {row.uid} : taps'[s] = taps[s]
  <2>0. taps[row.uid] <= tapped
    BY <1>4 DEF CountsOK
  <2>1. k <= tapped /\ tapped \in Nat /\ MaxTaps \in Nat
    <3>1. tapped \in 0..MaxTaps
      BY DEF CountsOK
    <3>2. tapped \in Nat
      BY <3>1
    <3>3. MaxTaps \in Nat
      BY NoticesAssumption
    <3>4. k <= tapped
      BY <1>5, <2>0
    <3> QED BY <3>2, <3>3, <3>4
  <2>2. k + 1 \in 0..MaxTaps
    BY <1>1, <2>1
  <2>3. taps' = [taps EXCEPT ![row.uid] = k + 1] /\ taps \in [Sender -> 0..MaxTaps]
    BY <1>1, <1>3, <1>4, <1>5 DEF CountsOK
  <2> QED BY <1>4, <2>2, <2>3
<1> DEFINE b == ~row.userFan
           from == IF row.seen = k THEN row.seen ELSE None
           do == IF b THEN "starStored" ELSE "starDeleted"
           then == [do |-> do, cell |-> c, uid |-> row.uid, id |-> row.id, from |-> from]
           w == [op |-> IF b THEN "set" ELSE "delete", doc |-> Star(row.uid),
                 val |-> EmptyDoc, then |-> then]
<1>7. Issue(Me, <<w>>)
  <2>1. CASE TapFan(c)
    <3>1. /\ ~row.userFan
          /\ Issue(Me, << SetData(Star(row.uid), EmptyDoc, Then("starStored", c)) >>)
      BY <1>3, <2>1 DEF TapFan
    <3>2. Then("starStored", c) = then
      BY <1>3, <1>5, <3>1 DEF Then
    <3> QED BY <3>1, <3>2 DEF SetData
  <2>2. CASE TapUnfan(c)
    <3>1. /\ row.userFan
          /\ Issue(Me, << DeleteDoc(Star(row.uid), Then("starDeleted", c)) >>)
      BY <1>3, <2>2 DEF TapUnfan
    <3>2. Then("starDeleted", c) = then
      BY <1>3, <1>5, <3>1 DEF Then
    <3> QED BY <3>1, <3>2 DEF DeleteDoc
  <2> QED BY <2>1, <2>2
<1>8. PICK new \in Sayings : new = [said EXCEPT ![row.uid] = [said[row.uid] EXCEPT ![k + 1] = b]]
  <2>1. [said[row.uid] EXCEPT ![k + 1] = b] \in [0..MaxTaps -> BOOLEAN]
    BY <1>4, <1>6 DEF Sayings
  <2> QED BY <1>4, <2>1 DEF Sayings
<1>9. /\ new[row.uid][k + 1] = b
      /\ \A j \in 0..k : new[row.uid][j] = said[row.uid][j]
      /\ \A s \in Sender \ {row.uid} : new[s] = said[s]
  <2>1. new[row.uid] = [said[row.uid] EXCEPT ![k + 1] = b]
        /\ DOMAIN said[row.uid] = 0..MaxTaps
    BY <1>4, <1>8 DEF Sayings
  <2>2. new[row.uid][k + 1] = b
    BY <1>6, <2>1
  <2>3. \A j \in 0..k : j \in 0..MaxTaps /\ j # k + 1
    BY <1>6
  <2>4. \A j \in 0..k : new[row.uid][j] = said[row.uid][j]
    BY <2>1, <2>3
  <2>5. \A s \in Sender \ {row.uid} : new[s] = said[s]
    BY <1>8 DEF Sayings
  <2> QED BY <2>2, <2>4, <2>5
<1>10. Later(notices, taps, said, notices, taps', new)
  <2>1. ASSUME NEW s \in Sender
        PROVE  taps[s] <= taps'[s] /\ \A j \in 0..taps[s] : new[s][j] = said[s][j]
    <3>1. CASE s = row.uid
      BY <1>5, <1>6, <1>9, <3>1
    <3>2. CASE s # row.uid
      <4>1. taps[s] \in Nat
        BY DEF CountsOK
      <4> QED BY <1>6, <1>9, <3>2, <4>1
    <3> QED BY <3>1, <3>2
  <2>2. Len(notices) \in Nat
    BY DEF CountsOK
  <2> QED BY <2>1, <2>2 DEF Later
<1> DEFINE Writes == GoodWrite(notices, taps', new)
<1>11. /\ GoodRow(notices, taps, said) \subseteq GoodRow(notices, taps', new)
       /\ GoodHandler(notices, taps, said, fetches) \subseteq GoodHandler(notices, taps', new, fetches)
       /\ GoodWrite(notices, taps, said) \subseteq Writes
  <2>1. fetches <= fetches /\ notices \in Seq(Notice) /\ taps \in [Sender -> 0..MaxTaps]
    BY <1>1 DEF CountsOK
  <2>2. fetches \in Nat /\ taps' \in [Sender -> 0..MaxTaps]
    BY <1>1, <1>6
  <2> QED BY <1>10, <2>1, <2>2, Stays
<1>12. then \in GoodTap(notices, taps', new)
  <2>0. k \in Nat /\ k \in 0..k
    BY <1>5
  <2>1. from # None => from = k /\ row.seen = k /\ row.seen # None
    OBVIOUS
  <2>2. ASSUME from # None
        PROVE  from < taps'[row.uid] /\ new[row.uid][from + 1] = ~new[row.uid][from]
    <3>1. from = k /\ said[row.uid][k] = row.userFan
      BY <1>4, <2>1, <2>2
    <3>2. new[row.uid][k] = row.userFan
      BY <1>9, <2>0, <3>1
    <3>3. new[row.uid][k + 1] = ~row.userFan
      BY <1>9
    <3>4. k < taps'[row.uid]
      BY <1>6, <2>0
    <3> HIDE DEF from
    <3> QED BY <3>1, <3>2, <3>3, <3>4
  <2>3. from \in 0..MaxTaps \cup {None} /\ do \in {"starStored", "starDeleted", "toggle"}
    BY <1>5, <2>1
  <2> HIDE DEF from, do
  <2> QED BY <1>4, <2>2, <2>3 DEF GoodTap, TapHandler
<1>13. w \in Writes
  <2>1. Star(row.uid) \in Docs
    BY <1>4 DEF Docs
  <2> HIDE DEF then
  <2> QED BY <1>12, <2>1 DEF GoodWrite
<1>14. pending[Me] \in Seq(Writes)
  <2>1. pending[Me] \in Seq(GoodWrite(notices, taps, said))
    BY DEF Right, QueuesGood
  <2> QED BY <1>11, <2>1, SeqWidens
<1>15. w.doc = Star(row.uid) /\ (w.op = "set" <=> b) /\ w.then = then
  OBVIOUS
<1> HIDE DEF w, Writes, then
<1>16. /\ pending'[Me] \in Seq(Writes) /\ DOMAIN pending' = User
       /\ Grows(pending[Me], pending'[Me]) /\ pending'[Me][Len(pending'[Me])] = w
       /\ sent'[Me] \in 0..Len(pending'[Me])
       /\ \A s \in Sender, e \in BOOLEAN :
             /\ w.doc # Star(s) /\ Ends(db, pending[Me], Star(s), e)
                  => Ends(db', pending'[Me], Star(s), e)
             /\ w.doc = Star(s) => Ends(db', pending'[Me], Star(s), w.op = "set")
             /\ Reached(db, pending[Me], sent[Me], Star(s))
                  => Reached(db', pending'[Me], sent'[Me], Star(s))
  BY <1>1, <1>7, <1>13, <1>14, IssueDoes
<1>17. RowsGood(new)'
  <2> DEFINE good == GoodRow(notices, taps', new)
  <2>1. RowsGood(said)
    BY DEF Right
  <2>2. feedbacks \in Seq(good)
    BY <1>11, <2>1, SeqWidens DEF RowsGood
  <2>3. ASSUME NEW d \in Cell
        PROVE  \/ cells[d] = Spare
               \/ /\ cells[d] \in [row : good, at : DOMAIN feedbacks]
                  /\ cells[d].row.id = feedbacks[cells[d].at].id
    BY <1>11, <2>1 DEF RowsGood
  <2> QED BY <1>1, <2>1, <2>2, <2>3 DEF RowsGood, tableVars
<1>18. QueuesGood(new)'
  <2>1. main[Me] \in Seq(GoodHandler(notices, taps', new, fetches))
    BY <1>11, SeqWidens DEF Right, QueuesGood
  <2> QED BY <1>1, <1>16, <2>1 DEF QueuesGood, Writes
<1>19. StarsGood(new)'
  <2>1. ASSUME NEW s \in Sender
        PROVE  /\ Ends(db', pending'[Me], Star(s), new[s][taps'[s]])
               /\ Reached(db', pending'[Me], sent'[Me], Star(s))
    <3>1. /\ Ends(db, pending[Me], Star(s), said[s][taps[s]]) /\ said[s][taps[s]] \in BOOLEAN
          /\ Reached(db, pending[Me], sent[Me], Star(s))
      BY DEF Right, StarsGood, Sayings, CountsOK
    <3>2. CASE s = row.uid
      <4>1. Ends(db', pending'[Me], Star(s), w.op = "set")
        BY <1>15, <1>16, <3>2
      <4>2. new[s][taps'[s]] = b /\ b \in BOOLEAN
        BY <1>6, <1>9, <3>2
      <4>3. Ends(db', pending'[Me], Star(s), new[s][taps'[s]])
        <5> HIDE DEF b
        <5> QED BY <1>15, <4>1, <4>2 DEF Ends
      <4> QED BY <1>16, <3>1, <4>3
    <3>3. CASE s # row.uid
      <4>1. w.doc # Star(s) /\ new[s] = said[s] /\ taps'[s] = taps[s]
        BY <1>6, <1>9, <1>15, <3>3, DocsApart
      <4> QED BY <1>16, <3>1, <4>1
    <3> QED BY <3>2, <3>3
  <2> QED BY <2>1 DEF StarsGood
<1>20. Told'
  BY <1>17, <1>18, <1>19 DEF Told, Right
<1>21. ClientOK'
  BY <1>1, <1>16 DEF ClientOK
<1>22. then \in TapHandler /\ Len(pending'[Me]) >= 1
  BY <1>12, <1>16 DEF GoodTap, Grows
<1> QED BY <1>15, <1>16, <1>20, <1>21, <1>22

\* The profile or the cartoon is shown: no copy changes.
LEMMA FoundKeeps ==
    ASSUME NEW said \in Sayings, ClientOK, CountsOK, Right(said), Found
    PROVE  ClientOK' /\ Right(said)'
<1>1. /\ UNCHANGED <<db, pending, sent>> /\ UNCHANGED <<notices, taps, fetches>>
      /\ UNCHANGED tableVars /\ Due(Me, "found") /\ RunHead
  BY DEF Found, readVars, historyVars
<1>2. main'[Me] \in Seq(GoodHandler(notices, taps, said, fetches)) /\ DOMAIN main' = User
  BY <1>1, DueFacts DEF Right
<1> QED BY <1>1, <1>2, PartsStay DEF Right, QueuesGood, ClientOK

\* The rows go at once.
LEMMA RefreshKeeps ==
    ASSUME NEW said \in Sayings, ClientOK, CountsOK, Right(said), RefreshView
    PROVE  ClientOK' /\ Right(said)'
<1>1. /\ UNCHANGED <<db, pending, sent, main>> /\ UNCHANGED <<notices, taps>>
      /\ SetFeedbacks(<< >>) /\ fetches' = fetches + 1
  BY DEF RefreshView, firestoreVars, historyVars
<1>2. << >> \in Seq(GoodRow(notices, taps, said))
  OBVIOUS
<1>3. RowsGood(said)'
  BY <1>1, <1>2, SetFeedbacksGood DEF Right
<1>4. QueuesGood(said)'
  <2>1. fetches \in Nat /\ taps \in [Sender -> 0..MaxTaps] /\ notices \in Seq(Notice)
    BY DEF CountsOK
  <2>2. Later(notices, taps, said, notices, taps, said)
    BY <2>1, NoticesAssumption DEF Later
  <2>3. /\ GoodHandler(notices, taps, said, fetches)
              \subseteq GoodHandler(notices, taps, said, fetches + 1)
    BY <2>1, <2>2, Stays
  <2> QED BY <1>1, <2>3, SeqWidens DEF Right, QueuesGood
<1>5. StarsGood(said)'
  BY <1>1 DEF Right, StarsGood
<1> QED BY <1>1, <1>3, <1>4, <1>5 DEF Right, ClientOK

\* A cell that scrolls into sight is handed a copy of its row.
LEMMA ScrollKeeps ==
    ASSUME NEW said \in Sayings, ClientOK, CountsOK, Right(said),
           NEW c \in Cell, NEW i \in 1..MaxNotices, Scroll(c, i)
    PROVE  ClientOK' /\ Right(said)'
<1>1. /\ UNCHANGED <<db, pending, sent, main>> /\ UNCHANGED <<notices, taps, fetches>>
      /\ feedbacks' = feedbacks /\ i \in DOMAIN feedbacks
      /\ cells' = [cells EXCEPT ![c] = [row |-> feedbacks[i], at |-> i]]
  BY DEF Scroll, firestoreVars, readVars, historyVars
<1>2. RowsGood(said)
  BY DEF Right
<1>3. feedbacks[i] \in GoodRow(notices, taps, said)
  BY <1>1, <1>2 DEF RowsGood
<1>4. /\ DOMAIN cells' = Cell /\ cells'[c] = [row |-> feedbacks[i], at |-> i]
      /\ \A d \in Cell \ {c} : cells'[d] = cells[d]
  BY <1>1, <1>2 DEF RowsGood
<1>5. RowsGood(said)'
  BY <1>1, <1>2, <1>3, <1>4 DEF RowsGood
<1> QED BY <1>1, <1>5, PartsStay DEF Right, ClientOK

\* A notice that arrives is the last.
LEMMA ArrivesKeeps ==
    ASSUME NEW said \in Sayings, ClientOK, CountsOK, Right(said),
           NEW notice \in Notice, NoticeArrives(notice)
    PROVE  ClientOK' /\ Right(said)'
<1>1. /\ UNCHANGED <<db, pending, sent, main, taps>> /\ UNCHANGED tableVars
      /\ notices' = Append(notices, notice) /\ fetches' = fetches
  BY DEF NoticeArrives, firestoreVars, historyVars
<1>2. /\ notices \in Seq(Notice) /\ notices' \in Seq(Notice) /\ Len(notices) \in Nat
      /\ Len(notices') = Len(notices) + 1
      /\ \A i \in 1..Len(notices) : notices'[i] = notices[i]
  BY <1>1 DEF CountsOK
<1>3. taps \in [Sender -> 0..MaxTaps] /\ fetches \in Nat /\ fetches <= fetches
  BY DEF CountsOK
<1>4. Later(notices, taps, said, notices', taps, said)
  BY <1>2, <1>3, NoticesAssumption DEF Later
<1>5. /\ GoodRow(notices, taps, said) \subseteq GoodRow(notices', taps', said)
      /\ GoodHandler(notices, taps, said, fetches) \subseteq GoodHandler(notices', taps', said, fetches)
      /\ GoodWrite(notices, taps, said) \subseteq GoodWrite(notices', taps', said)
  BY <1>1, <1>2, <1>3, <1>4, Stays
<1>6. RowsGood(said)'
  <2> DEFINE good == GoodRow(notices', taps', said)
  <2>1. RowsGood(said)
    BY DEF Right
  <2>2. feedbacks \in Seq(good)
    BY <1>5, <2>1, SeqWidens DEF RowsGood
  <2>3. ASSUME NEW d \in Cell
        PROVE  \/ cells[d] = Spare
               \/ /\ cells[d] \in [row : good, at : DOMAIN feedbacks]
                  /\ cells[d].row.id = feedbacks[cells[d].at].id
    BY <1>5, <2>1 DEF RowsGood
  <2> QED BY <1>1, <2>1, <2>2, <2>3 DEF RowsGood, tableVars
<1>7. QueuesGood(said)'
  <2>1. /\ main[Me] \in Seq(GoodHandler(notices', taps', said, fetches))
        /\ pending[Me] \in Seq(GoodWrite(notices', taps', said))
    BY <1>5, SeqWidens DEF Right, QueuesGood
  <2> QED BY <1>1, <2>1 DEF QueuesGood
<1>8. StarsGood(said)'
  BY <1>1 DEF Right, StarsGood
<1> QED BY <1>1, <1>6, <1>7, <1>8 DEF Right, ClientOK

\* The other steps leave the copies and the queues alone.
LEMMA OthersKeep ==
    ASSUME NEW said \in Sayings, ClientOK, CountsOK, Right(said),
           \/ CheckFails \/ LookFails \/ OtherCall \/ OtherReturns
           \/ \E c \in Cell : Look(c)
           \/ UNCHANGED vars
    PROVE  ClientOK' /\ Right(said)'
<1>1. UNCHANGED <<db, pending, sent, main>> /\ UNCHANGED <<notices, taps, fetches>> /\ UNCHANGED tableVars
  BY DEF CheckFails, LookFails, OtherCall, OtherReturns, Look, vars, noticesVars,
         firestoreVars, readVars, historyVars
<1> QED BY <1>1, PartsStay DEF Right, ClientOK

\* Every step keeps the copies right.
LEMMA ToldStep ==
    ASSUME ClientOK, CountsOK, Told, [Next]_vars
    PROVE  ClientOK' /\ Told'
<1>1. PICK said \in Sayings : Right(said)
  BY DEF Told
<1>2. CASE Answered \/ AnswerFromCache
  BY <1>1, <1>2, AnswersKeep DEF Told
<1>3. CASE RunHandler
  BY <1>1, <1>3, FetchedKeeps, CheckedKeeps, StarHandlersKeep, ToggleKeeps, FoundKeeps
     DEF RunHandler, Told
<1>4. CASE Client
  BY <1>1, <1>4, TransmitKeeps, AcknowledgeKeeps, ReconnectKeeps DEF Client, Told
<1>5. CASE RefreshView
  BY <1>1, <1>5, RefreshKeeps DEF Told
<1>6. CASE \E c \in Cell : TapFan(c) \/ TapUnfan(c)
  BY <1>1, <1>6, TapKeeps
<1>7. CASE \E c \in Cell : \E i \in 1..MaxNotices : Scroll(c, i)
  BY <1>1, <1>7, ScrollKeeps DEF Told
<1>8. CASE \E notice \in Notice : NoticeArrives(notice)
  BY <1>1, <1>8, ArrivesKeeps DEF Told
<1>9. CASE \/ CheckFails \/ LookFails \/ OtherCall \/ OtherReturns
           \/ \E c \in Cell : Look(c)
           \/ UNCHANGED vars
  BY <1>1, <1>9, OthersKeep DEF Told
<1> QED BY <1>2, <1>3, <1>4, <1>5, <1>6, <1>7, <1>8, <1>9 DEF Next

-----------------------------------------------------------------------------
(* Counts                                                                  *)

\* What is left of the bound on everything but taps.
LEMMA RoomLeft ==
    ASSUME CountsOK, MayHappen
    PROVE  /\ looks + 1 \in 0..MaxEvents /\ others + 1 \in 0..MaxEvents
           /\ fails + 1 \in 0..MaxEvents
<1>1. /\ Len(notices) - Len(First) \in Nat /\ fetches - 1 \in Nat
      /\ looks \in Nat /\ others \in Nat /\ fails \in Nat /\ MaxEvents \in Nat
  <2>1. Len(First) \in Nat /\ MaxEvents \in Nat
    BY NoticesAssumption
  <2> QED BY <2>1 DEF CountsOK
<1>2. (Len(notices) - Len(First)) + (fetches - 1) + looks + others + fails < MaxEvents
  BY DEF MayHappen
<1> DEFINE x == Len(notices) - Len(First)
           y == fetches - 1
<1> HIDE DEF x, y
<1>3. looks < MaxEvents /\ others < MaxEvents /\ fails < MaxEvents
  BY <1>1, <1>2 DEF x, y
<1> QED BY <1>1, <1>3

\* Every step keeps the counts.
LEMMA CountsStep ==
    ASSUME ClientOK, CountsOK, Told, [Next]_vars
    PROVE  CountsOK'
<1> USE NoticesAssumption DEF CountsOK
<1>0. PICK said \in Sayings : Right(said)
  BY DEF Told
<1>1. CASE AnswerFetch
  <2>1. Max({cached, Len(notices)}) \in 0..Len(notices)
    <3>1. cached \in Int /\ Len(notices) \in Int
      OBVIOUS
    <3>2. Max({cached, Len(notices)}) =
             IF cached <= Len(notices) THEN Len(notices) ELSE cached
      BY <3>1, MinMaxFacts
    <3> QED BY <3>2
  <2>2. /\ cached' = Max({cached, Len(notices)}) /\ fetching > 0 /\ fetching' = fetching - 1
        /\ UNCHANGED <<db, pending, sent, notices, tableVars, fetches, checks, looking, looks>>
        /\ UNCHANGED <<loaderVars, historyVars, fails>>
    BY <1>1 DEF AnswerFetch, Answer
  <2>3. fetching' \in 0..fetches /\ cached' \in 0..Len(notices)
    <3>1. fetches \in Nat /\ fetching \in 0..fetches
      OBVIOUS
    <3> QED BY <2>1, <2>2, <3>1
  <2> QED BY <2>2, <2>3 DEF loaderVars, historyVars
<1>2. CASE AnswerFromCache
  <2>1. Max({cached, cached}) \in 0..Len(notices)
    <3>1. cached \in 0..Len(notices) /\ cached \in Int
      OBVIOUS
    <3>2. Max({cached, cached}) = cached
      BY <3>1, MinMaxFacts
    <3> QED BY <3>1, <3>2
  <2>2. /\ cached' = Max({cached, cached}) /\ fetching > 0 /\ fetching' = fetching - 1
        /\ UNCHANGED <<db, pending, sent, notices, tableVars, fetches, checks, looking, looks>>
        /\ UNCHANGED <<loaderVars, historyVars>> /\ MayHappen /\ fails' = fails + 1
    BY <1>2 DEF AnswerFromCache, Answer
  <2>3. fetching' \in 0..fetches /\ cached' \in 0..Len(notices)
    <3>1. fetches \in Nat /\ fetching \in 0..fetches
      OBVIOUS
    <3> QED BY <2>1, <2>2, <3>1
  <2>4. fails' \in 0..MaxEvents
    BY <2>2, RoomLeft
  <2> QED BY <2>2, <2>3, <2>4 DEF loaderVars, historyVars
<1>3. CASE AnswerCheck
  BY <1>3 DEF AnswerCheck, loaderVars, historyVars
<1>4. CASE LookAnswered
  BY <1>4 DEF LookAnswered, loaderVars, historyVars
<1>5. CASE RefreshView
  <2>1. fetches + 1 \in 1..MaxFetches /\ fetching + 1 \in 0..(fetches + 1)
    BY <1>5 DEF RefreshView
  <2>2. checks \subseteq {check \in [fetch : 1..(fetches + 1), id : 1..Len(notices), uid : Sender] :
                             check.uid = notices[check.id].uid}
    <3>1. 1..fetches \subseteq 1..(fetches + 1)
      OBVIOUS
    <3> QED BY <3>1
  <2> QED BY <1>5, <2>1, <2>2 DEF RefreshView, loaderVars, historyVars
<1>6. CASE Fetched
  <2>1. /\ Handled.fetch \in 1..fetches
        /\ Handled.rows \in Seq(GoodRow(notices, taps, said))
    BY <1>0, <1>6, DueFacts DEF Fetched, Right
  <2>2. ASSUME NEW row \in ToSet(Handled.rows)
        PROVE  [fetch |-> Handled.fetch, id |-> row.id, uid |-> row.uid]
                 \in {check \in [fetch : 1..fetches, id : 1..Len(notices), uid : Sender] :
                         check.uid = notices[check.id].uid}
    <3>1. row \in GoodRow(notices, taps, said)
      BY <2>1 DEF ToSet
    <3>2. row.id \in 1..Len(notices) /\ row.uid \in Sender /\ row.uid = notices[row.id].uid
      BY <3>1 DEF GoodRow, RowType
    <3> QED BY <2>1, <3>2
  <2>3. checks' = checks \cup {[fetch |-> Handled.fetch, id |-> row.id, uid |-> row.uid] :
                                  row \in {row \in ToSet(Handled.rows) : row.type = "fan"}}
    BY <1>6 DEF Fetched
  <2>4. checks' \subseteq {check \in [fetch : 1..fetches, id : 1..Len(notices), uid : Sender] :
                              check.uid = notices[check.id].uid}
    BY <2>2, <2>3
  <2>5. UNCHANGED <<notices, cached, fetching, fetches, looking, looks, loaderVars, fails, historyVars>>
    BY <1>6 DEF Fetched
  <2> QED BY <2>4, <2>5 DEF loaderVars, historyVars
<1>7. CASE Checked
  BY <1>7 DEF Checked, readVars, loaderVars, historyVars
<1>8. CASE StarStored \/ StarDeleted
  BY <1>8 DEF StarStored, StarDeleted, noticesVars, readVars, loaderVars, historyVars
<1>9. CASE Toggle \/ Found
  BY <1>9 DEF Toggle, Found, HideLoader, readVars, loaderVars, historyVars
<1>10. CASE Client
  BY <1>10 DEF Client, noticesVars, readVars, loaderVars, historyVars
<1>11. CASE CheckFails
  BY <1>11, RoomLeft DEF CheckFails, loaderVars, historyVars
<1>12. CASE LookFails
  BY <1>12, RoomLeft DEF LookFails, loaderVars, historyVars
<1>13. CASE OtherCall
  BY <1>13, RoomLeft DEF OtherCall, ShowLoader, readVars, loaderVars, historyVars
<1>14. CASE OtherReturns
  BY <1>14 DEF OtherReturns, HideLoader, readVars, loaderVars, historyVars
<1>15. ASSUME NEW c \in Cell, TapFan(c) \/ TapUnfan(c) PROVE CountsOK'
  <2>1. /\ Visible(c) /\ tapped < MaxTaps /\ tapped' = tapped + 1
        /\ taps' = [taps EXCEPT ![cells[c].row.uid] = @ + 1]
        /\ ShowLoader("here") /\ UNCHANGED <<others, busy, fails>> /\ UNCHANGED readVars
    BY <1>15 DEF TapFan, TapUnfan, TapButton
  <2>2. cells[c].row.uid \in Sender
    BY <1>0, <2>1, InSight DEF Right, GoodRow, RowType
  <2>3. tapped' \in 0..MaxTaps
    BY <2>1
  <2>4. /\ taps' \in [Sender -> 0..MaxTaps] /\ \A s \in Sender : taps'[s] <= tapped'
    <3> DEFINE u == cells[c].row.uid
    <3>1. taps' = [taps EXCEPT ![u] = taps[u] + 1] /\ u \in Sender
      BY <2>1, <2>2
    <3> HIDE DEF u
    <3>2. taps[u] \in Nat /\ taps[u] <= tapped /\ tapped \in Nat /\ tapped < MaxTaps
      BY <2>1, <3>1
    <3>3. taps[u] + 1 \in 0..MaxTaps /\ taps[u] + 1 <= tapped'
      BY <2>1, <3>2
    <3>4. \A s \in Sender : taps'[s] = IF s = u THEN taps[u] + 1 ELSE taps[s]
      BY <3>1
    <3>5. taps' \in [Sender -> 0..MaxTaps]
      BY <3>1, <3>3
    <3>6. \A s \in Sender : taps[s] <= tapped /\ taps[s] \in Nat /\ tapped' = tapped + 1
      BY <2>1
    <3>7. ASSUME NEW s \in Sender PROVE taps'[s] <= tapped'
      <4>1. CASE s = u
        BY <3>3, <3>4, <4>1
      <4>2. CASE s # u
        <5>1. taps'[s] = taps[s] /\ taps[s] <= tapped /\ taps[s] \in Nat /\ tapped' = tapped + 1
          BY <3>4, <3>6, <4>2
        <5> QED BY <3>2, <5>1
      <4> QED BY <4>1, <4>2
    <3> QED BY <3>5, <3>7
  <2> QED BY <2>1, <2>3, <2>4 DEF ShowLoader, readVars
<1>16. ASSUME NEW c \in Cell, Look(c) PROVE CountsOK'
  <2>1. looks + 1 \in 0..MaxEvents /\ looking \cup {looks + 1} \subseteq 1..(looks + 1)
    BY <1>16, RoomLeft DEF Look
  <2> QED BY <1>16, <2>1 DEF Look, ShowLoader, historyVars
<1>17. ASSUME NEW c \in Cell, NEW i \in 1..MaxNotices, Scroll(c, i) PROVE CountsOK'
  BY <1>17 DEF Scroll, readVars, loaderVars, historyVars
<1>18. ASSUME NEW notice \in Notice, NoticeArrives(notice) PROVE CountsOK'
  <2>1. /\ notices' \in Seq(Notice) /\ Len(notices') = Len(notices) + 1
        /\ Len(notices) \in Nat /\ Len(notices) < MaxNotices
        /\ \A i \in 1..Len(notices) : i \in 1..Len(notices') /\ notices'[i] = notices[i]
    BY <1>18 DEF NoticeArrives
  <2>2. checks \subseteq {check \in [fetch : 1..fetches, id : 1..Len(notices'), uid : Sender] :
                             check.uid = notices'[check.id].uid}
    BY <2>1
  <2> QED BY <1>18, <2>1, <2>2 DEF NoticeArrives, loaderVars, historyVars
<1>19. CASE UNCHANGED vars
  BY <1>19 DEF vars, noticesVars, readVars, loaderVars, historyVars
<1> QED
  BY <1>1, <1>2, <1>3, <1>4, <1>5, <1>6, <1>7, <1>8, <1>9, <1>10, <1>11, <1>12, <1>13,
     <1>14, <1>15, <1>16, <1>17, <1>18, <1>19 DEF Next, RunHandler, Answered

-----------------------------------------------------------------------------
(* The indicator                                                           *)

\* The handlers whose end hides the indicator, and what is under way by the
\* queues p and m and the reads l.
Hides == {"starStored", "starDeleted", "toggle", "found"}
UnderwayBy(p, m, l) == l # {} \/ p # << >> \/ \E i \in 1..Len(m) : m[i].do \in Hides

\* Every write of the queue carries a handler.
LEMMA UnderwayMeans ==
    ASSUME NEW said, NEW times, NEW all, NEW upto, NEW p \in Seq(GoodWrite(all, times, said)),
           NEW m \in Seq(GoodHandler(all, times, said, upto)), NEW l
    PROVE  UnderwayBy(p, m, l) <=>
               \/ l # {}
               \/ \E i \in DOMAIN p : p[i].then # Nothing
               \/ \E i \in DOMAIN m : m[i].do \in Hides
<1>1. ASSUME NEW i \in DOMAIN p PROVE p[i].then # Nothing
  <2>1. p[i] \in GoodWrite(all, times, said)
    OBVIOUS
  <2>2. p[i].then \in GoodTap(all, times, said)
    BY <2>1 DEF GoodWrite
  <2>3. p[i].then \in TapHandler
    BY <2>2 DEF GoodTap
  <2> QED BY <2>3, AbsentAssumption
<1>2. p # << >> <=> DOMAIN p # {}
  <2>1. DOMAIN p = 1..Len(p) /\ Len(p) \in Nat /\ (p = << >> <=> Len(p) = 0)
    OBVIOUS
  <2>2. CASE Len(p) = 0
    BY <2>1, <2>2
  <2>3. CASE Len(p) # 0
    <3>1. 1 \in DOMAIN p
      BY <2>1, <2>3
    <3> QED BY <2>1, <2>3, <3>1
  <2> QED BY <2>2, <2>3
<1>3. DOMAIN m = 1..Len(m)
  OBVIOUS
<1> QED BY <1>1, <1>2, <1>3 DEF UnderwayBy

\* What is under way stays under way while the queues grow, or lose a handler
\* that hides nothing.
LEMMA UnderwayStays ==
    ASSUME NEW p, NEW m, NEW l, NEW n, UnderwayBy(p, m, l),
           \/ n = m
           \/ Grows(m, n)
           \/ \E h : Popped(m, n, h) /\ h.do \notin Hides
    PROVE  UnderwayBy(p, n, l)
<1>1. CASE n = m
  BY <1>1
<1>2. CASE Grows(m, n)
  <2>1. \A i \in 1..Len(m) : i \in 1..Len(n) /\ n[i] = m[i]
    BY <1>2 DEF Grows
  <2> QED BY <2>1 DEF UnderwayBy
<1>3. ASSUME NEW h, Popped(m, n, h), h.do \notin Hides PROVE UnderwayBy(p, n, l)
  <2>1. ASSUME NEW i \in 1..Len(m), m[i].do \in Hides
        PROVE  \E j \in 1..Len(n) : n[j].do \in Hides
    <3>1. i # 1
      BY <1>3, <2>1 DEF Popped
    <3>2. i - 1 \in 1..Len(n) /\ (i - 1) + 1 = i
      BY <1>3, <3>1 DEF Popped
    <3>3. n[i - 1] = m[i]
      BY <1>3, <3>2 DEF Popped
    <3> QED BY <2>1, <3>2, <3>3
  <2> QED BY <2>1 DEF UnderwayBy
<1> QED BY <1>1, <1>2, <1>3

\* The indicator stays explained.
LEMMA LoaderStep ==
    ASSUME ClientOK, CountsOK, Told, LoaderExplained, [Next]_vars, Told'
    PROVE  LoaderExplained'
<1> DEFINE U == UnderwayBy(pending[Me], main[Me], looking)
           V == UnderwayBy(pending'[Me], main'[Me], looking')
<1>1. PICK said \in Sayings : Right(said)
  BY DEF Told
<1>2. /\ pending[Me] \in Seq(GoodWrite(notices, taps, said))
      /\ main[Me] \in Seq(GoodHandler(notices, taps, said, fetches))
  BY <1>1 DEF Right, QueuesGood
<1>3. loader = "here" /\ fails = 0 => U
  <2>1. Underway => U
    BY <1>2, UnderwayMeans DEF Underway, Hides
  <2> QED BY <2>1 DEF LoaderExplained
<1> SUFFICES ASSUME loader' = "here", fails' = 0 PROVE V
  <2>1. V => Underway'
    <3>1. PICK new \in Sayings : Right(new)'
      BY DEF Told
    <3>2. /\ pending'[Me] \in Seq(GoodWrite(notices', taps', new))
          /\ main'[Me] \in Seq(GoodHandler(notices', taps', new, fetches'))
      BY <3>1 DEF Right, QueuesGood
    <3> QED BY <3>2, UnderwayMeans DEF Underway, Hides
  <2> QED BY <2>1 DEF LoaderExplained
<1>4. fails \in Nat
  BY DEF CountsOK
<1>5. CASE Answered
  <2>1. /\ UNCHANGED <<db, pending, sent>> /\ loader' = loader
        /\ Grows(main[Me], main'[Me])
        /\ (\E n \in looking : looking' = looking \ {n})
             => main'[Me][Len(main[Me]) + 1].do = "found"
    BY <1>1, <1>5, AnswersKeep DEF loaderVars
  <2>2. CASE AnswerFetch \/ AnswerCheck
    <3>1. looking' = looking /\ fails' = fails
      BY <2>2 DEF AnswerFetch, Answer, AnswerCheck
    <3> QED BY <1>3, <2>1, <3>1, UnderwayStays
  <2>3. CASE LookAnswered
    <3>1. main'[Me][Len(main[Me]) + 1].do \in Hides
      BY <2>1, <2>3 DEF LookAnswered, Hides
    <3>2. Len(main[Me]) + 1 \in 1..Len(main'[Me])
      BY <2>1 DEF Grows
    <3> QED BY <3>1, <3>2 DEF UnderwayBy
  <2> QED BY <1>5, <2>2, <2>3 DEF Answered
<1>6. CASE Fetched \/ Checked
  <2>1. \E do : Due(Me, do) /\ RunHead /\ do \notin Hides
    BY <1>6 DEF Fetched, Checked, Hides
  <2>2. Popped(main[Me], main'[Me], Handled) /\ Handled.do \notin Hides
    BY <1>1, <2>1, DueFacts DEF Right
  <2>3. UNCHANGED <<pending, looking, loader, fails>>
    BY <1>6 DEF Fetched, Checked, readVars, loaderVars
  <2> QED BY <1>3, <2>2, <2>3, UnderwayStays
<1>7. CASE StarStored \/ StarDeleted
  <2>1. Len(pending'[Me]) >= 1
    BY <1>1, <1>7, StarHandlersKeep
  <2> QED BY <2>1 DEF UnderwayBy
<1>8. CASE Toggle \/ Found \/ OtherReturns
  BY <1>8 DEF Toggle, Found, OtherReturns, HideLoader
<1>9. CASE AnswerFromCache \/ CheckFails \/ LookFails
  BY <1>4, <1>9 DEF AnswerFromCache, CheckFails, LookFails
<1>10. CASE Client
  <2>1. UNCHANGED <<looking, loader, fails>> /\ UNCHANGED noticesVars
    BY <1>10 DEF Client, noticesVars, readVars, loaderVars
  <2>2. CASE Transmit(Me) \/ Reconnect(Me)
    BY <1>3, <2>1, <2>2 DEF Transmit, Reconnect
  <2>3. CASE Acknowledge(Me)
    <3>1. /\ Head(pending[Me]).then \in TapHandler /\ Grows(main[Me], main'[Me])
          /\ main'[Me][Len(main[Me]) + 1] = Head(pending[Me]).then
      BY <1>1, <2>1, <2>3, AcknowledgeKeeps
    <3>2. main'[Me][Len(main[Me]) + 1].do \in Hides
      BY <3>1 DEF TapHandler, Hides
    <3>3. Len(main[Me]) + 1 \in 1..Len(main'[Me])
      BY <3>1 DEF Grows
    <3> QED BY <3>2, <3>3 DEF UnderwayBy
  <2> QED BY <1>10, <2>2, <2>3 DEF Client
<1>11. ASSUME NEW c \in Cell, TapFan(c) \/ TapUnfan(c) PROVE V
  <2>1. Len(pending'[Me]) >= 1
    BY <1>1, <1>11, TapKeeps
  <2> QED BY <2>1 DEF UnderwayBy
<1>12. ASSUME NEW c \in Cell, Look(c) PROVE V
  BY <1>12 DEF Look, UnderwayBy
<1>13. CASE \/ OtherCall \/ RefreshView \/ UNCHANGED vars
            \/ \E c \in Cell : \E i \in 1..MaxNotices : Scroll(c, i)
            \/ \E notice \in Notice : NoticeArrives(notice)
  <2>1. UNCHANGED <<pending, main, looking, fails>> /\ (loader' = "here" => loader = "here")
    BY <1>13 DEF OtherCall, ShowLoader, RefreshView, Scroll, NoticeArrives, firestoreVars,
                 noticesVars, readVars, loaderVars, vars
  <2> QED BY <1>3, <2>1
<1> QED
  BY <1>5, <1>6, <1>7, <1>8, <1>9, <1>10, <1>11, <1>12, <1>13 DEF Next, RunHandler

-----------------------------------------------------------------------------
(* The theorems                                                            *)

\* The invariant holds at the start, ...
LEMMA NoticesInit == Init => NoticesInv
<1> SUFFICES ASSUME Init PROVE NoticesInv
  OBVIOUS
<1> USE NoticesAssumption
<1>1. /\ db = [d \in Docs |-> NoDoc] /\ pending = [u \in User |-> << >>]
      /\ sent = [u \in User |-> 0] /\ main = [u \in User |-> << >>]
  BY DEF Init, FirestoreInit
<1>2. ClientOK
  BY <1>1 DEF ClientOK
<1>3. CountsOK
  <2>1. Len(First) \in Nat /\ Len(First) <= Len(First) /\ Len(First) <= MaxNotices
    OBVIOUS
  <2>2. taps \in [Sender -> 0..MaxTaps] /\ tapped = 0 /\ \A s \in Sender : taps[s] <= tapped
    BY DEF Init
  <2>3. /\ fetches \in 1..MaxFetches /\ fetching \in 0..fetches
        /\ 0 \in 0..MaxEvents /\ 0 \in 0..MaxTaps /\ 0 \in 0..Len(First)
    BY <2>1 DEF Init
  <2> QED BY <2>1, <2>2, <2>3 DEF Init, CountsOK
<1>4. [s \in Sender |-> [k \in 0..MaxTaps |-> FALSE]] \in Sayings
  BY DEF Sayings
<1>5. PICK said \in Sayings : said = [s \in Sender |-> [k \in 0..MaxTaps |-> FALSE]]
  BY <1>4
<1>6. RowsGood(said) /\ QueuesGood(said)
  BY <1>1 DEF Init, RowsGood, QueuesGood
<1>7. StarsGood(said)
  <2>1. ASSUME NEW s \in Sender PROVE db[Star(s)] = NoDoc /\ said[s][taps[s]] = FALSE
    <3>1. Star(s) \in Docs /\ taps[s] = 0 /\ 0 \in 0..MaxTaps
      BY DEF Docs, Init
    <3> QED BY <1>1, <1>5, <3>1
  <2>2. pending[Me] = << >> /\ sent[Me] = 0
    BY <1>1
  <2>3. ASSUME NEW s \in Sender
        PROVE  /\ Ends(db, pending[Me], Star(s), said[s][taps[s]])
               /\ Reached(db, pending[Me], sent[Me], Star(s))
    <3>1. Len(pending[Me]) = 0
      BY <2>2
    <3>2. Ends(db, pending[Me], Star(s), FALSE)
      <4>1. db[Star(s)] = NoDoc
        BY <2>1
      <4> DEFINE q == pending[Me]
      <4>2. Len(q) = 0
        BY <3>1
      <4> HIDE DEF q
      <4>3. 1..Len(q) = {}
        BY <4>2
      <4>4. Ends(db, q, Star(s), FALSE)
        BY <4>1, <4>3 DEF Ends
      <4> QED BY <4>4 DEF q
    <3>3. said[s][taps[s]] = FALSE
      BY <2>1
    <3>4. Ends(db, pending[Me], Star(s), said[s][taps[s]])
      BY <3>2, <3>3
    <3> QED BY <2>2, <3>4 DEF Reached
  <2> QED BY <2>3 DEF StarsGood
<1>8. LoaderExplained
  BY DEF Init, LoaderExplained
<1> QED BY <1>2, <1>3, <1>5, <1>6, <1>7, <1>8 DEF NoticesInv, Told, Right

\* ... every step keeps it, ...
LEMMA NoticesStep == NoticesInv /\ [Next]_vars => NoticesInv'
BY ToldStep, CountsStep, LoaderStep DEF NoticesInv

\* ... so it always holds.
LEMMA NoticesAlways == Spec => []NoticesInv
BY NoticesInit, NoticesStep, PTL DEF Spec

\* What a row of the table says of its account is right once its check is
\* answered and until the account is next tapped, whichever fetch the check
\* belonged to, and the state is well typed, in particular each cell in sight
\* is at the row it shows, for all accounts, cells and bounds (checkFeedBack
\* looks the notice up when the answer comes).
THEOREM RowsCorrect == Spec => []RowsTruthful
<1>1. NoticesInv => RowsTruthful
  <2> SUFFICES ASSUME NoticesInv PROVE RowsTruthful
    OBVIOUS
  <2> USE NoticesAssumption
  <2>1. PICK said \in Sayings : Right(said)
    BY DEF NoticesInv, Told
  <2> DEFINE good == GoodRow(notices, taps, said)
  <2>2. /\ GoodTap(notices, taps, said) \subseteq TapHandler /\ good \subseteq RowType
    BY DEF GoodTap, GoodRow
  <2>3. TypeOK
    <3>1. pending[Me] \in Seq([op : {"set", "delete"}, doc : Docs, val : {EmptyDoc},
                               then : TapHandler])
      <4>1. GoodWrite(notices, taps, said) \subseteq
               [op : {"set", "delete"}, doc : Docs, val : {EmptyDoc}, then : TapHandler]
        BY <2>2 DEF GoodWrite
      <4> QED BY <2>1, <4>1, SeqWidens DEF Right, QueuesGood
    <3>2. main[Me] \in Seq(Handler)
      <4>1. GoodAnswer(notices, taps, said) \subseteq
               [do : {"checked"}, id : 1..MaxNotices, fan : BOOLEAN, seen : 0..MaxTaps]
        BY DEF GoodAnswer
      <4>2. Seq(good) \subseteq Seq(RowType) /\ 1..fetches \subseteq 1..MaxFetches
        BY <2>2, SeqWidens DEF NoticesInv, CountsOK
      <4> HIDE DEF good
      <4>3. [do : {"fetched"}, fetch : 1..fetches, rows : Seq(good)]
               \subseteq [do : {"fetched"}, fetch : 1..MaxFetches, rows : Seq(RowType)]
        BY <4>2
      <4>4. GoodHandler(notices, taps, said, fetches) \subseteq Handler
        BY <2>2, <4>1, <4>3 DEF GoodHandler, Handler, good
      <4> QED BY <2>1, <4>4, SeqWidens DEF Right, QueuesGood
    <3>3. feedbacks \in Seq(RowType)
      BY <2>1, <2>2, SeqWidens DEF Right, RowsGood
    <3>4. ASSUME NEW c \in Cell
          PROVE  /\ cells[c].row \in RowType \cup {NoRow}
                 /\ Visible(c) => /\ cells[c].at \in DOMAIN feedbacks
                                  /\ cells[c].row.id = feedbacks[cells[c].at].id
      <4>1. RowsGood(said)
        BY <2>1 DEF Right
      <4>2. CASE Visible(c)
        BY <2>2, <4>1, <4>2, InSight
      <4>3. CASE ~Visible(c)
        <5>1. cells[c] = Spare
          BY <4>1, <4>3, InSight
        <5>2. cells[c].row = NoRow
          BY <5>1 DEF Spare
        <5> QED BY <4>3, <5>2
      <4> QED BY <4>2, <4>3
    <3>5. checks \subseteq [fetch : 1..fetches, id : 1..Len(notices), uid : Sender]
      BY DEF NoticesInv, CountsOK
    <3> QED BY <3>1, <3>2, <3>3, <3>4, <3>5 DEF TypeOK, NoticesInv, ClientOK, CountsOK
  <2>4. RowTruthful
    <3> SUFFICES ASSUME NEW i \in DOMAIN feedbacks, feedbacks[i].seen # None,
                        feedbacks[i].seen = taps[feedbacks[i].uid]
                 PROVE  feedbacks[i].userFan = Sees(Star(feedbacks[i].uid))
      BY DEF RowTruthful
    <3>1. PICK row \in good : row = feedbacks[i]
      BY <2>1 DEF Right, RowsGood
    <3>2. row.uid \in Sender /\ row.userFan \in BOOLEAN /\ row.userFan = said[row.uid][row.seen]
      BY <3>1 DEF GoodRow, RowType
    <3>3. Sees(Star(row.uid)) <=> said[row.uid][taps[row.uid]]
      BY <2>1, <3>2, SeesSaid DEF Right, NoticesInv
    <3>4. Sees(Star(row.uid)) \in BOOLEAN
      BY DEF Sees
    <3> QED BY <3>1, <3>2, <3>3, <3>4
  <2> QED BY <2>3, <2>4 DEF RowsTruthful
<1> QED BY <1>1, NoticesAlways, PTL

\* A button in sight is right, also after it was tapped, if its copy was right
\* before the tap and the cell was not handed another notice or an older copy
\* while the tap was under way, for all accounts, cells and bounds
\* (didTapFan's completion flips the cell's copy alone).
THEOREM ButtonCorrect == Spec => []ButtonTruthful
<1>1. NoticesInv => ButtonTruthful
  <2> SUFFICES ASSUME NoticesInv, NEW c \in Cell, Visible(c), cells[c].row.seen # None,
                      cells[c].row.seen = taps[cells[c].row.uid]
               PROVE  cells[c].row.userFan = Sees(Star(cells[c].row.uid))
    BY DEF ButtonTruthful
  <2>1. PICK said \in Sayings : Right(said)
    BY DEF NoticesInv, Told
  <2>2. PICK row \in GoodRow(notices, taps, said) : row = cells[c].row
    BY <2>1, InSight DEF Right
  <2>3. row.uid \in Sender /\ row.userFan \in BOOLEAN /\ row.userFan = said[row.uid][row.seen]
    BY <2>2 DEF GoodRow, RowType
  <2>4. Sees(Star(row.uid)) <=> said[row.uid][taps[row.uid]]
    BY <2>1, <2>3, SeesSaid DEF Right, NoticesInv
  <2>5. Sees(Star(row.uid)) \in BOOLEAN
    BY DEF Sees
  <2> QED BY <2>2, <2>3, <2>4, <2>5
<1> QED BY <1>1, NoticesAlways, PTL

\* The indicator covers the table only while a call of this screen is under
\* way whose end will hide it, unless a read failed, whatever the calls of
\* this and of the other screens, for all accounts, cells and bounds
\* (LoadingIndicator's show and hide).
THEOREM LoaderCorrect == Spec => []LoaderExplained
<1>1. NoticesInv => LoaderExplained
  BY DEF NoticesInv
<1> QED BY <1>1, NoticesAlways, PTL
=============================================================================
