------------------------------ MODULE FansProofs ------------------------------
(***************************************************************************)
(* Proofs about Fans, for every set of accounts and all bounds: its types, *)
(* the two places of a fan (PlacesCorrect), the header of the profile      *)
(* (HeaderCorrect) and the feed (FeedCorrect).                             *)
(*                                                                         *)
(* A tap starts a chain: the star's write, its handler, the fan's write,   *)
(* its handler, a query, its answer, the feed's writes.  Taps may be under *)
(* way one behind the other, and each link keeps their order, so the last  *)
(* element of each kind that is still under way is the last tap's.  The    *)
(* invariants say so of every link: the last one means what the last tap   *)
(* asked for, and once none is left of its kind the next kind's last does. *)
(* The lemmas on such links are in FirestoreProofs.                        *)
(***************************************************************************)
EXTENDS Fans, FirestoreProofs

-----------------------------------------------------------------------------
(* Sequences of a set's elements                                           *)

\* The sequence of a finite set's elements has those and no others.
LEMMA SetToSeqFacts ==
    ASSUME NEW S, IsFiniteSet(S)
    PROVE  /\ SetToSeq(S) \in Seq(S)
           /\ \A x \in S : \E i \in 1..Len(SetToSeq(S)) : SetToSeq(S)[i] = x
<1> DEFINE n == Cardinality(S)
           f == SetToSeq(S)
<1>1. n \in Nat /\ ExistsBijection(1..n, S)
  BY FS_CardinalityType
<1>2. f \in [1..n -> S] /\ IsInjective(f)
  <2>1. \E g \in [1..n -> S] : IsInjective(g)
    BY <1>1 DEF ExistsBijection, Bijection, Injection, IsInjective
  <2> QED BY <2>1 DEF SetToSeq
<1>3. f \in Injection(1..n, S)
  BY <1>2 DEF Injection, IsInjective
<1>4. IsFiniteSet(1..n) /\ Cardinality(1..n) = n
  BY <1>1, FS_Interval
<1>5. f \in Surjection(1..n, S)
  <2> HIDE DEF n, f
  <2>1. Cardinality(S) = n
    BY DEF n
  <2> QED BY <1>3, <1>4, <2>1, FS_Injection
<1>6. f \in Seq(S) /\ Len(f) = n
  <2> HIDE DEF n, f
  <2> QED BY <1>1, <1>2
<1>7. \A x \in S : \E i \in 1..n : f[i] = x
  BY <1>5 DEF Surjection
<1> QED BY <1>6, <1>7

-----------------------------------------------------------------------------
(* Type correctness                                                        *)

\* Types hold at the start.
LEMMA InitType == Init => TypeOK
<1> SUFFICES ASSUME Init PROVE TypeOK
  OBVIOUS
<1> USE ArtistAssumption, FansBoundsAssumption DEF Init, FirestoreInit
<1>1. DocsOK /\ QueuesOK
  BY DEF DocsOK, QueuesOK
<1>2. ScreensOK
  BY DEF ScreensOK
<1>3. CountsOK /\ HistoryOK
  BY DEF CountsOK, HistoryOK
<1> QED BY <1>1, <1>2, <1>3 DEF TypeOK

\* The writes a reader's device issues: the two places of a fan ...
LEMMA PlaceWrites ==
    ASSUME NEW u \in Readers, NEW then \in TapHandler
    PROVE  /\ SetData(Star(u), EmptyDoc, then) \in Write(u)
           /\ DeleteDoc(Star(u), then) \in Write(u)
           /\ SetData(Fan(u), EmptyDoc, then) \in Write(u)
           /\ DeleteDoc(Fan(u), then) \in Write(u)
BY DEF Readers, Write, WriteOf, SetData, DeleteDoc

\* ... entries of its feed and notices ...
LEMMA FeedWrites ==
    ASSUME NEW u \in Readers
    PROVE  /\ \A c \in 1..MaxUploads : /\ SetData(Feed(u, c), EmptyDoc, Nothing) \in Write(u)
                                       /\ DeleteDoc(Feed(u, c), Nothing) \in Write(u)
           /\ \A i \in 1..MaxTaps : SetData(Notice(u, i), EmptyDoc, Nothing) \in Write(u)
BY DEF Readers, Write, WriteOf, SetData, DeleteDoc

\* ... and those of the artist's: cartoons, and entries of anybody's feed.
LEMMA ArtistWrites ==
    ASSUME NEW c \in 1..MaxUploads
    PROVE  /\ SetData(Toon(c), EmptyDoc, Nothing) \in Write(Artist)
           /\ \A v \in User : SetData(Feed(v, c), EmptyDoc, Nothing) \in Write(Artist)
BY DEF Write, WriteOf, SetData

\* The paths of different documents are different.
LEMMA DocsApart ==
    \A u, v, c, e :
        /\ Star(u) = Star(v) => u = v
        /\ Fan(u) = Fan(v) => u = v
        /\ Toon(c) = Toon(e) => c = e
        /\ Feed(u, c) = Feed(v, e) => u = v /\ c = e
        /\ Star(u) # Fan(v) /\ Star(u) # Toon(c) /\ Star(u) # Feed(v, c)
        /\ Star(u) # Notice(v, c) /\ Fan(u) # Toon(c) /\ Fan(u) # Feed(v, c)
        /\ Fan(u) # Notice(v, c) /\ Toon(c) # Feed(u, e) /\ Toon(c) # Notice(u, e)
        /\ Feed(u, c) # Notice(v, e)
BY DEF Star, Fan, Toon, Feed, Notice

\* What is known of a write of a reader's device, and of the artist's.
LEMMA WriteFacts ==
    ASSUME NEW u \in User, NEW w \in Write(u)
    PROVE  /\ w.doc \in Docs /\ w.val = EmptyDoc /\ w.op \in {"set", "delete"}
           /\ w.then \in TapHandler \cup {Nothing}
           /\ [w EXCEPT !.then = Nothing] \in Write(u)
           /\ [w EXCEPT !.then = Nothing].op = w.op
           /\ [w EXCEPT !.then = Nothing].doc = w.doc
           /\ [w EXCEPT !.then = Nothing].then = Nothing
           /\ u \in Readers \/ u = Artist
           /\ u = Artist => w.op = "set" /\ w.then = Nothing
<1>1. CASE u = Artist
  BY <1>1, ArtistAssumption DEF Write, WriteOf, Docs, Readers
<1>2. CASE u # Artist
  BY <1>2 DEF Write, WriteOf, Docs, Readers
<1> QED BY <1>1, <1>2

\* A handler that came due, on which device it can be and what it carries.
LEMMA DueFacts ==
    ASSUME TypeOK, NEW u \in User, NEW do, Due(u, do)
    PROVE  LET h == Head(main[u]) IN
           /\ main[u] \in Seq(Handler(u)) /\ main[u] # << >>
           /\ Popped(main[u], Tail(main[u]), h) /\ Tail(main[u]) \in Seq(Handler(u))
           /\ h \in Handler(u) /\ h.do = do
           /\ do \in {"starStored", "starDeleted", "fanned", "unfanned"}
                => u # Artist /\ h \in TapHandler
           /\ do = "checked" => u # Artist /\ h \in CheckHandler
           /\ do = "filled" => u # Artist /\ h \in FillHandler
           /\ do = "spread" => u = Artist /\ h \in SpreadHandler
<1> DEFINE h == Head(main[u])
<1>1. main[u] \in Seq(Handler(u)) /\ main[u] # << >>
  BY DEF TypeOK, QueuesOK, Due
<1>2. /\ Popped(main[u], Tail(main[u]), h) /\ Tail(main[u]) \in Seq(Handler(u))
      /\ h \in Handler(u)
  BY <1>1, TailPops
<1>3. h.do = do
  BY DEF Due
<1> HIDE DEF h
<1>4. /\ do \in {"starStored", "starDeleted", "fanned", "unfanned"}
           => u # Artist /\ h \in TapHandler
      /\ do = "checked" => u # Artist /\ h \in CheckHandler
      /\ do = "filled" => u # Artist /\ h \in FillHandler
      /\ do = "spread" => u = Artist /\ h \in SpreadHandler
  BY <1>2, <1>3 DEF Handler, TapHandler, CheckHandler, FillHandler, SpreadHandler
<1> QED BY <1>1, <1>2, <1>3, <1>4 DEF h

-----------------------------------------------------------------------------
(* What a tap leads to                                                     *)

\* A tap's write carries a handler of the star, whose write carries one of
\* the fan, whose run asks for cartoons, whose answer fills the feed: the
\* handlers of each kind, of the visits in V, and those that mean "be a fan".
Stars(V) == {h \in TapHandler : h.do \in {"starStored", "starDeleted"} /\ h.visit \in V}
FansOf(V) == {h \in TapHandler : h.do \in {"fanned", "unfanned"} /\ h.visit \in V}
Told(V) == FansOf(V) \cup {h \in CheckHandler : h.visit \in V}
Yes ==
    {h \in TapHandler : h.do \in {"starStored", "fanned"}}
    \cup {h \in CheckHandler : h.fan}
    \cup {h \in FillHandler : h.didFan}
    \cup {q \in AskCartoons : q.didFan}
Visits == 1..MaxVisits

\* The kinds are apart.
LEMMA Kinds ==
    ASSUME NEW V
    PROVE  /\ Stars(V) \cap Told(V) = {} /\ Stars(V) \cap FillHandler = {}
           /\ Told(V) \cap FillHandler = {}
           /\ Stars(V) \subseteq TapHandler /\ FansOf(V) \subseteq TapHandler
           /\ Stars(V) \subseteq Stars(Visits) /\ FansOf(V) \subseteq FansOf(Visits)
           /\ Nothing \notin Stars(V) /\ Nothing \notin FansOf(V)
           /\ FansOf(V) \subseteq Told(V)
           /\ CheckHandler \cap Stars(V) = {} /\ CheckHandler \cap FansOf(V) = {}
           /\ CheckHandler \cap FillHandler = {}
BY AbsentAssumption DEF Stars, FansOf, Told, TapHandler, CheckHandler, FillHandler, Visits

\* The members of Yes, kind by kind.
LEMMA YesFacts ==
    /\ \A h \in TapHandler : h \in Yes <=> h.do \in {"starStored", "fanned"}
    /\ \A h \in CheckHandler : h \in Yes <=> h.fan
    /\ \A h \in FillHandler : h \in Yes <=> h.didFan
    /\ \A q \in AskCartoons : q \in Yes <=> q.didFan
<1>1. ASSUME NEW h \in TapHandler PROVE h \in Yes <=> h.do \in {"starStored", "fanned"}
  <2>1. h \notin CheckHandler /\ h \notin FillHandler
    BY DEF TapHandler, CheckHandler, FillHandler
  <2>2. h \notin AskCartoons
    <3>1. DOMAIN h = {"do", "visit", "tap"}
      BY DEF TapHandler
    <3>2. \A q \in AskCartoons : DOMAIN q = {"ask", "didFan"}
      BY DEF AskCartoons
    <3> QED BY <3>1, <3>2
  <2> QED BY <2>1, <2>2 DEF Yes
<1>2. ASSUME NEW h \in CheckHandler PROVE h \in Yes <=> h.fan
  <2>1. h \notin TapHandler /\ h \notin FillHandler
    BY DEF TapHandler, CheckHandler, FillHandler
  <2>2. h \notin AskCartoons
    <3>1. DOMAIN h = {"do", "visit", "fan"}
      BY DEF CheckHandler
    <3>2. \A q \in AskCartoons : DOMAIN q = {"ask", "didFan"}
      BY DEF AskCartoons
    <3> QED BY <3>1, <3>2
  <2> QED BY <2>1, <2>2 DEF Yes
<1>3. ASSUME NEW h \in FillHandler PROVE h \in Yes <=> h.didFan
  <2>1. h \notin TapHandler /\ h \notin CheckHandler
    BY DEF TapHandler, CheckHandler, FillHandler
  <2>2. h \notin AskCartoons
    <3>1. DOMAIN h = {"do", "didFan", "cartoons"}
      BY DEF FillHandler
    <3>2. \A q \in AskCartoons : DOMAIN q = {"ask", "didFan"}
      BY DEF AskCartoons
    <3> QED BY <3>1, <3>2
  <2> QED BY <2>1, <2>2 DEF Yes
<1>4. ASSUME NEW q \in AskCartoons PROVE q \in Yes <=> q.didFan
  <2>1. DOMAIN q = {"ask", "didFan"}
    BY DEF AskCartoons
  <2>2. /\ \A h \in TapHandler : DOMAIN h = {"do", "visit", "tap"}
        /\ \A h \in CheckHandler : DOMAIN h = {"do", "visit", "fan"}
        /\ \A h \in FillHandler : DOMAIN h = {"do", "didFan", "cartoons"}
    BY DEF TapHandler, CheckHandler, FillHandler
  <2>3. q \notin TapHandler /\ q \notin CheckHandler /\ q \notin FillHandler
    BY <2>1, <2>2
  <2> QED BY <2>3 DEF Yes
<1> QED BY <1>1, <1>2, <1>3, <1>4

-----------------------------------------------------------------------------
(* What the steps do to the queues                                         *)

\* A step of u that changes u's queues to p, m and q.
Moves(u, p, m, q) ==
    /\ UNCHANGED <<db, sent>>
    /\ DOMAIN pending' = User /\ DOMAIN main' = User /\ DOMAIN queries' = User
    /\ pending'[u] = p /\ main'[u] = m /\ queries'[u] = q
    /\ \A v \in User \ {u} :
          pending'[v] = pending[v] /\ main'[v] = main[v] /\ queries'[v] = queries[v]

\* It leaves the screens and the history of the others alone.
OthersKept(u) ==
    /\ uploads' = uploads
    /\ \A v \in User \ {u} :
          /\ profile'[v] = profile[v] /\ visits'[v] = visits[v] /\ checks'[v] = checks[v]
          /\ want'[v] = want[v] /\ torn'[v] = torn[v]
          /\ short'[v] = short[v] /\ raced'[v] = raced[v]

\* A tap: its write carries the handler of the star.
LEMMA TapDoes ==
    ASSUME TypeOK, NEW u \in User, TapFan(u) \/ TapUnfan(u)
    PROVE  /\ u \in Readers /\ profile[u] \in Profile
           /\ \E w \in Write(u) :
                 /\ w.doc = Star(u) /\ w.then \in Stars({visits[u]})
                 /\ w.op = "set" <=> want'[u]
                 /\ w.then \in Yes <=> want'[u]
                 /\ Moves(u, Append(pending[u], w), main[u], queries[u])
           /\ UNCHANGED screenVars /\ OthersKept(u)
           /\ want'[u] = ~profile[u].fan /\ torn'[u] = FALSE /\ short'[u] = FALSE
           /\ raced'[u] = ~Idle(Artist)
           /\ taps[u] + 1 \in 1..MaxTaps /\ taps' = [taps EXCEPT ![u] = @ + 1]
           /\ UNCHANGED faults
<1>1. /\ profile[u] # Closed /\ UNCHANGED screenVars /\ taps[u] < MaxTaps
      /\ taps' = [taps EXCEPT ![u] = @ + 1] /\ UNCHANGED <<db, sent, main, queries, uploads, faults>>
  BY DEF TapFan, TapUnfan, TapButton
<1>2. u \in Readers /\ profile[u] \in Profile /\ visits[u] \in Visits
  BY <1>1, FansBoundsAssumption DEF Readers, TypeOK, ScreensOK, Visits
<1>3. taps[u] + 1 \in 1..MaxTaps
  BY <1>1, FansBoundsAssumption DEF TypeOK, CountsOK
<1>4. \E b \in BOOLEAN : Asked(u, b) /\ b = ~profile[u].fan
  BY <1>2 DEF TapFan, TapUnfan, Profile
<1>5. /\ want'[u] = ~profile[u].fan /\ torn'[u] = FALSE /\ short'[u] = FALSE
      /\ raced'[u] = ~Idle(Artist) /\ OthersKept(u)
  BY <1>1, <1>4 DEF Asked, OthersKept, screenVars, TypeOK, HistoryOK
<1>6. ASSUME NEW w \in Write(u), Issue(u, <<w>>)
      PROVE  Moves(u, Append(pending[u], w), main[u], queries[u])
  BY <1>1, <1>6, AppendPushes DEF Moves, Issue, TypeOK, QueuesOK
<1>7. CASE TapFan(u)
  <2> DEFINE then == [do |-> "starStored", visit |-> visits[u], tap |-> taps[u] + 1]
             w == SetData(Star(u), EmptyDoc, then)
  <2>1. then \in TapHandler /\ then.do = "starStored" /\ then.visit = visits[u]
    BY <1>2, <1>3 DEF TapHandler, Visits
  <2>2. Issue(u, <<w>>) /\ ~profile[u].fan
    BY <1>7 DEF TapFan
  <2> HIDE DEF then
  <2>3. w \in Write(u) /\ w.doc = Star(u) /\ w.op = "set" /\ w.then = then
    BY <1>2, <2>1, PlaceWrites DEF SetData
  <2>4. w.then \in Stars({visits[u]}) /\ w.then \in Yes
    BY <2>1, <2>3, YesFacts DEF Stars
  <2> HIDE DEF w
  <2>5. Moves(u, Append(pending[u], w), main[u], queries[u])
    BY <1>6, <2>2, <2>3
  <2> QED BY <1>1, <1>2, <1>3, <1>5, <2>2, <2>3, <2>4, <2>5
<1>8. CASE TapUnfan(u)
  <2> DEFINE then == [do |-> "starDeleted", visit |-> visits[u], tap |-> taps[u] + 1]
             w == DeleteDoc(Star(u), then)
  <2>1. then \in TapHandler /\ then.do = "starDeleted" /\ then.visit = visits[u]
    BY <1>2, <1>3 DEF TapHandler, Visits
  <2>2. Issue(u, <<w>>) /\ profile[u].fan
    BY <1>8 DEF TapUnfan
  <2> HIDE DEF then
  <2>3. w \in Write(u) /\ w.doc = Star(u) /\ w.op # "set" /\ w.then = then
    BY <1>2, <2>1, PlaceWrites DEF DeleteDoc
  <2>4. w.then \in Stars({visits[u]}) /\ w.then \notin Yes
    BY <2>1, <2>3, YesFacts DEF Stars
  <2> HIDE DEF w
  <2>5. Moves(u, Append(pending[u], w), main[u], queries[u])
    BY <1>6, <2>2, <2>3
  <2> QED BY <1>1, <1>2, <1>3, <1>5, <2>2, <2>3, <2>4, <2>5
<1> QED BY <1>7, <1>8

\* The handler of the star: its write of the fan carries the next handler.
LEMMA StarDoes ==
    ASSUME TypeOK, NEW u \in User, StarStored(u) \/ StarDeleted(u)
    PROVE  /\ u \in Readers /\ main[u] # << >> /\ Head(main[u]) \in Stars(Visits)
           /\ \E w \in Write(u) :
                 /\ w.doc = Fan(u) /\ w.then \in FansOf({Head(main[u]).visit})
                 /\ w.op = "set" <=> Head(main[u]) \in Yes
                 /\ w.then \in Yes <=> Head(main[u]) \in Yes
                 /\ Moves(u, Append(pending[u], w), Tail(main[u]), queries[u])
           /\ UNCHANGED fansVars
<1> DEFINE h == Head(main[u])
<1>1. /\ u # Artist /\ main[u] # << >> /\ h \in TapHandler
      /\ h.do \in {"starStored", "starDeleted"}
  BY DueFacts DEF StarStored, StarDeleted
<1>2. u \in Readers /\ h \in Stars(Visits)
  BY <1>1 DEF Readers, Stars, TapHandler, Visits
<1>3. UNCHANGED fansVars /\ UNCHANGED <<db, sent, queries>> /\ main' = [main EXCEPT ![u] = Tail(@)]
  BY DEF StarStored, StarDeleted, RunHead, fansVars
<1>4. ASSUME NEW w \in Write(u), Issue(u, <<w>>)
      PROVE  Moves(u, Append(pending[u], w), Tail(main[u]), queries[u])
  BY <1>3, <1>4, AppendPushes DEF Moves, Issue, TypeOK, QueuesOK
<1>5. CASE StarStored(u)
  <2> DEFINE then == [h EXCEPT !.do = "fanned"]
             w == SetData(Fan(u), EmptyDoc, then)
  <2>1. Issue(u, <<w>>) /\ h.do = "starStored"
    BY <1>5 DEF StarStored, Handled, Due
  <2>2. then \in TapHandler /\ then.do = "fanned" /\ then.visit = h.visit
    BY <1>1 DEF TapHandler
  <2> HIDE DEF then, h
  <2>3. w \in Write(u) /\ w.doc = Fan(u) /\ w.op = "set" /\ w.then = then
    BY <1>2, <2>2, PlaceWrites DEF SetData
  <2>4. w.then \in FansOf({h.visit}) /\ w.then \in Yes /\ h \in Yes
    BY <1>1, <2>1, <2>2, <2>3, YesFacts DEF FansOf
  <2> HIDE DEF w
  <2>5. Moves(u, Append(pending[u], w), Tail(main[u]), queries[u])
    BY <1>4, <2>1, <2>3
  <2> QED BY <1>1, <1>2, <1>3, <2>3, <2>4, <2>5 DEF h
<1>6. CASE StarDeleted(u)
  <2> DEFINE then == [h EXCEPT !.do = "unfanned"]
             w == DeleteDoc(Fan(u), then)
  <2>1. Issue(u, <<w>>) /\ h.do = "starDeleted"
    BY <1>6 DEF StarDeleted, Handled, Due
  <2>2. then \in TapHandler /\ then.do = "unfanned" /\ then.visit = h.visit
    BY <1>1 DEF TapHandler
  <2> HIDE DEF then, h
  <2>3. w \in Write(u) /\ w.doc = Fan(u) /\ w.op # "set" /\ w.then = then
    BY <1>2, <2>2, PlaceWrites DEF DeleteDoc
  <2>4. w.then \in FansOf({h.visit}) /\ w.then \notin Yes /\ h \notin Yes
    BY <1>1, <2>1, <2>2, <2>3, YesFacts DEF FansOf
  <2> HIDE DEF w
  <2>5. Moves(u, Append(pending[u], w), Tail(main[u]), queries[u])
    BY <1>4, <2>1, <2>3
  <2> QED BY <1>1, <1>2, <1>3, <2>3, <2>4, <2>5 DEF h
<1> QED BY <1>5, <1>6

\* What ShowFan makes of u's profile.
Shown(u, visit, fan) ==
    /\ profile[u] # Closed /\ visit = visits[u] => profile'[u] = [fan |-> fan, known |-> TRUE]
    /\ ~(profile[u] # Closed /\ visit = visits[u]) => profile'[u] = profile[u]
    /\ profile' \in [User -> Profile \cup {Closed}]
    /\ \A v \in User \ {u} : profile'[v] = profile[v]
    /\ (profile'[u] = Closed) <=> (profile[u] = Closed)

\* ShowFan does so.
LEMMA ShowFanShown ==
    ASSUME TypeOK, NEW u \in User, NEW visit, NEW fan \in BOOLEAN, ShowFan(u, visit, fan)
    PROVE  Shown(u, visit, fan)
<1>1. [fan |-> fan, known |-> TRUE] \in Profile
  BY DEF Profile
<1>2. profile \in [User -> Profile \cup {Closed}]
  BY DEF TypeOK, ScreensOK
<1> QED BY <1>1, <1>2, AbsentAssumption DEF ShowFan, Shown

\* Issuing several writes makes the queue longer by just them.
LEMMA IssueBatch ==
    ASSUME NEW S, NEW q \in Seq(S), NEW t \in Seq(S)
    PROVE  /\ q \o t \in Seq(S) /\ Longer(q, q \o t, {})
           /\ \A i \in 1..Len(t) : /\ Len(q) + i \in Len(q)+1..Len(q \o t)
                                   /\ (q \o t)[Len(q) + i] = t[i]
           /\ \A i \in Len(q)+1..Len(q \o t) : \E k \in 1..Len(t) : (q \o t)[i] = t[k]
<1>1. q \o t \in Seq(S) /\ Len(q \o t) = Len(q) + Len(t) /\ Len(q) \in Nat /\ Len(t) \in Nat
  OBVIOUS
<1>2. ASSUME NEW i \in 1..Len(t)
      PROVE  Len(q) + i \in Len(q)+1..Len(q \o t) /\ (q \o t)[Len(q) + i] = t[i]
  OBVIOUS
<1>3. ASSUME NEW i \in Len(q)+1..Len(q \o t) PROVE \E k \in 1..Len(t) : (q \o t)[i] = t[k]
  <2>1. i - Len(q) \in 1..Len(t) /\ Len(q) + (i - Len(q)) = i
    BY <1>1
  <2> QED BY <1>2, <2>1
<1>4. \A i \in 1..Len(q) : (q \o t)[i] = q[i]
  OBVIOUS
<1> QED BY <1>1, <1>2, <1>3, <1>4 DEF Longer

\* The handler of the fan: shows it, may notify the artist, asks for cartoons.
LEMMA FanDoes ==
    ASSUME TypeOK, NEW u \in User, Fanned(u) \/ Unfanned(u)
    PROVE  /\ u \in Readers /\ main[u] # << >> /\ Head(main[u]) \in FansOf(Visits)
           /\ \E p \in Seq(Write(u)), q \in AskCartoons :
                 /\ Longer(pending[u], p, {})
                 /\ \A i \in Len(pending[u])+1..Len(p) :
                       p[i].then = Nothing /\ \E tap : p[i].doc = Notice(u, tap)
                 /\ q \in Yes <=> Head(main[u]) \in Yes
                 /\ Moves(u, p, Tail(main[u]), Append(queries[u], q))
           /\ \E b \in BOOLEAN : /\ b <=> Head(main[u]) \in Yes
                                 /\ Shown(u, Head(main[u]).visit, b)
           /\ UNCHANGED <<visits, checks, taps, uploads, faults, historyVars>>
<1> DEFINE h == Head(main[u])
<1>1. /\ u # Artist /\ main[u] # << >> /\ h \in TapHandler
      /\ h.do \in {"fanned", "unfanned"}
      /\ (h.do = "fanned" /\ Fanned(u)) \/ (h.do = "unfanned" /\ Unfanned(u))
  BY DueFacts DEF Fanned, Unfanned
<1>2. u \in Readers /\ h \in FansOf(Visits)
  BY <1>1 DEF Readers, FansOf, TapHandler, Visits
<1>3. /\ UNCHANGED <<db, sent, visits, checks, taps, uploads, faults, historyVars>>
      /\ main' = [main EXCEPT ![u] = Tail(@)]
  BY DEF Fanned, Unfanned, RunHead
<1>4. h \in Yes <=> h.do = "fanned"
  BY <1>1, YesFacts
<1>5. PICK b \in BOOLEAN : /\ b <=> h \in Yes
                           /\ ShowFan(u, h.visit, b) /\ UpdateMainUserAfterFan(u, b)
  <2>1. CASE h.do = "fanned" /\ Fanned(u)
    BY <1>4, <2>1 DEF Fanned, Handled
  <2>2. CASE h.do = "unfanned" /\ Unfanned(u)
    BY <1>4, <2>2 DEF Unfanned, Handled
  <2> QED BY <1>1, <2>1, <2>2
<1>6. Shown(u, h.visit, b)
  BY <1>5, ShowFanShown
<1> DEFINE q == [ask |-> "cartoons", didFan |-> b]
<1>8. q \in AskCartoons /\ (q \in Yes <=> h \in Yes)
  <2>1. q \in AskCartoons /\ q.didFan = b
    BY DEF AskCartoons
  <2> QED BY <1>5, <2>1, YesFacts
<1>9. queries' = [queries EXCEPT ![u] = Append(@, q)]
  BY <1>5 DEF UpdateMainUserAfterFan
<1> HIDE DEF q, h
<1>10. ASSUME NEW p \in Seq(Write(u)), pending' = [pending EXCEPT ![u] = p]
       PROVE  Moves(u, p, Tail(main[u]), Append(queries[u], q))
  BY <1>3, <1>9, <1>10 DEF Moves, TypeOK, QueuesOK
<1>11. pending[u] \in Seq(Write(u)) /\ DOMAIN pending = User
  BY DEF TypeOK, QueuesOK
<1>12. ASSUME Unfanned(u) PROVE \E p \in Seq(Write(u)) :
              /\ Longer(pending[u], p, {})
              /\ \A i \in Len(pending[u])+1..Len(p) :
                    p[i].then = Nothing /\ \E tap : p[i].doc = Notice(u, tap)
              /\ Moves(u, p, Tail(main[u]), Append(queries[u], q))
  <2>1. UNCHANGED pending
    BY <1>12 DEF Unfanned
  <2>2. Moves(u, pending[u], Tail(main[u]), Append(queries[u], q))
    BY <1>3, <1>9, <2>1 DEF Moves, TypeOK, QueuesOK
  <2>3. Longer(pending[u], pending[u], {}) /\ \A i \in Len(pending[u])+1..Len(pending[u]) : FALSE
    BY <1>11, SameLonger
  <2> QED BY <1>8, <1>11, <2>2, <2>3
<1>13. ASSUME Fanned(u) PROVE \E p \in Seq(Write(u)) :
              /\ Longer(pending[u], p, {})
              /\ \A i \in Len(pending[u])+1..Len(p) :
                    p[i].then = Nothing /\ \E tap : p[i].doc = Notice(u, tap)
              /\ Moves(u, p, Tail(main[u]), Append(queries[u], q))
  <2> DEFINE w == SetData(Notice(u, h.tap), EmptyDoc, Nothing)
             p == pending[u] \o <<w>>
  <2>1. pending' = [pending EXCEPT ![u] = p]
    BY <1>13 DEF Fanned, UploadFeedBack, Issue, Handled, h
  <2>2. w \in Write(u) /\ w.then = Nothing /\ w.doc = Notice(u, h.tap)
    BY <1>1, <1>2, FeedWrites DEF SetData, TapHandler
  <2> HIDE DEF w
  <2> DEFINE t == <<w>>
  <2>3. t \in Seq(Write(u)) /\ \A k \in 1..Len(t) : t[k] = w
    BY <2>2
  <2> HIDE DEF t
  <2>4. /\ p \in Seq(Write(u)) /\ Longer(pending[u], p, {})
        /\ \A i \in Len(pending[u])+1..Len(p) : p[i] = w
    <3>1. p = pending[u] \o t
      BY DEF t
    <3> HIDE DEF p
    <3> QED BY <1>11, <2>3, <3>1, IssueBatch
  <2> HIDE DEF p
  <2>5. Moves(u, p, Tail(main[u]), Append(queries[u], q))
    BY <1>10, <2>1, <2>4
  <2> QED BY <1>8, <2>2, <2>4, <2>5
<1>14. UNCHANGED <<visits, checks, taps, uploads, faults, historyVars>>
  BY <1>3
<1> QED BY <1>1, <1>2, <1>5, <1>6, <1>8, <1>12, <1>13, <1>14 DEF h

\* The answer's handler: it sets or deletes an entry for each cartoon found.
LEMMA FillDoes ==
    ASSUME TypeOK, NEW u \in User, Filled(u)
    PROVE  /\ u \in Readers /\ main[u] # << >> /\ Head(main[u]) \in FillHandler
           /\ \E p \in Seq(Write(u)) :
                 /\ Longer(pending[u], p, {})
                 /\ \A i \in Len(pending[u])+1..Len(p) :
                       /\ p[i].then = Nothing /\ \E c : p[i].doc = Feed(u, c)
                       /\ p[i].op = "set" <=> Head(main[u]) \in Yes
                       /\ p[i].doc \in {Feed(u, c) : c \in Head(main[u]).cartoons}
                 /\ \A c \in Head(main[u]).cartoons :
                       \E i \in Len(pending[u])+1..Len(p) : p[i].doc = Feed(u, c)
                 /\ Moves(u, p, Tail(main[u]), queries[u])
           /\ UNCHANGED fansVars
<1> DEFINE h == Head(main[u])
<1>1. u # Artist /\ main[u] # << >> /\ h \in FillHandler
  BY DueFacts DEF Filled
<1>2. /\ UNCHANGED fansVars /\ UNCHANGED <<db, sent, queries>>
      /\ main' = [main EXCEPT ![u] = Tail(@)] /\ u \in Readers
  BY <1>1 DEF Filled, RunHead, fansVars, Readers
<1>3. h.didFan \in BOOLEAN /\ h.cartoons \in SUBSET (1..MaxUploads) /\ (h \in Yes <=> h.didFan)
  BY <1>1, YesFacts DEF FillHandler
<1> DEFINE found == SetToSeq(h.cartoons)
           entry(c) == IF h.didFan THEN SetData(Feed(u, c), EmptyDoc, Nothing)
                       ELSE DeleteDoc(Feed(u, c), Nothing)
           t == [i \in DOMAIN found |-> entry(found[i])]
           p == pending[u] \o t
<1>4. pending' = [pending EXCEPT ![u] = p]
  BY DEF Filled, Issue, Handled
<1>5. /\ found \in Seq(h.cartoons)
      /\ \A c \in h.cartoons : \E i \in 1..Len(found) : found[i] = c
  <2>1. IsFiniteSet(1..MaxUploads)
    BY FansBoundsAssumption, FS_Interval
  <2>2. IsFiniteSet(h.cartoons)
    BY <1>3, <2>1, FS_Subset
  <2> HIDE DEF h
  <2> QED BY <2>2, SetToSeqFacts
<1> HIDE DEF h, found
<1>6. ASSUME NEW c \in h.cartoons
      PROVE  /\ entry(c) \in Write(u) /\ entry(c).then = Nothing /\ entry(c).doc = Feed(u, c)
             /\ entry(c).op = "set" <=> h \in Yes
  <2>1. c \in 1..MaxUploads
    BY <1>3
  <2>2. entry(c) \in Write(u)
    BY <1>2, <2>1, FeedWrites
  <2>3. entry(c).then = Nothing /\ entry(c).doc = Feed(u, c) /\ (entry(c).op = "set" <=> h.didFan)
    BY DEF SetData, DeleteDoc
  <2> QED BY <1>3, <2>2, <2>3
<1>7. /\ t \in Seq(Write(u)) /\ Len(t) = Len(found)
      /\ \A i \in 1..Len(t) : found[i] \in h.cartoons /\ t[i] = entry(found[i])
  <2>1. DOMAIN found = 1..Len(found) /\ Len(found) \in Nat /\ \A i \in 1..Len(found) : found[i] \in h.cartoons
    BY <1>5
  <2>2. \A i \in 1..Len(found) : entry(found[i]) \in Write(u)
    BY <1>6, <2>1
  <2> HIDE DEF entry
  <2>3. t \in [1..Len(found) -> Write(u)]
    BY <2>1, <2>2
  <2> QED BY <2>1, <2>3
<1>8. pending[u] \in Seq(Write(u)) /\ DOMAIN pending = User
  BY DEF TypeOK, QueuesOK
<1> HIDE DEF t, entry
<1>9. /\ p \in Seq(Write(u)) /\ Longer(pending[u], p, {})
      /\ \A i \in 1..Len(t) : Len(pending[u]) + i \in Len(pending[u])+1..Len(p)
                              /\ p[Len(pending[u]) + i] = t[i]
      /\ \A i \in Len(pending[u])+1..Len(p) : \E k \in 1..Len(t) : p[i] = t[k]
  BY <1>7, <1>8, IssueBatch
<1> HIDE DEF p
<1>10. Moves(u, p, Tail(main[u]), queries[u])
  BY <1>2, <1>4, <1>8 DEF Moves, TypeOK, QueuesOK
<1>11. ASSUME NEW i \in Len(pending[u])+1..Len(p)
       PROVE  /\ p[i].then = Nothing /\ \E c : p[i].doc = Feed(u, c)
              /\ p[i].op = "set" <=> h \in Yes
              /\ p[i].doc \in {Feed(u, c) : c \in h.cartoons}
  <2>1. PICK c \in h.cartoons : p[i] = entry(c)
    <3>1. PICK k \in 1..Len(t) : p[i] = t[k]
      BY <1>9
    <3>2. found[k] \in h.cartoons /\ t[k] = entry(found[k])
      BY <1>7
    <3> QED BY <3>1, <3>2
  <2> QED BY <1>6, <2>1
<1>12. ASSUME NEW c \in h.cartoons
       PROVE  \E i \in Len(pending[u])+1..Len(p) : p[i].doc = Feed(u, c)
  <2>1. PICK k \in 1..Len(t) : t[k] = entry(c)
    BY <1>5, <1>7
  <2>2. Len(pending[u]) + k \in Len(pending[u])+1..Len(p) /\ p[Len(pending[u]) + k] = t[k]
    BY <1>9
  <2>3. p[Len(pending[u]) + k].doc = Feed(u, c)
    BY <1>6, <2>1, <2>2
  <2> QED BY <2>2, <2>3
<1> QED BY <1>1, <1>2, <1>9, <1>10, <1>11, <1>12 DEF h

\* The check's handler shows what the check found.
LEMMA CheckedDoes ==
    ASSUME TypeOK, NEW u \in User, Checked(u)
    PROVE  /\ u \in Readers /\ main[u] # << >> /\ Head(main[u]) \in CheckHandler
           /\ Moves(u, pending[u], Tail(main[u]), queries[u])
           /\ Shown(u, Head(main[u]).visit, Head(main[u]).fan)
           /\ UNCHANGED <<visits, checks, taps, uploads, faults, historyVars>>
<1>1. u # Artist /\ main[u] # << >> /\ Head(main[u]) \in CheckHandler
  BY DueFacts DEF Checked
<1>2. Shown(u, Head(main[u]).visit, Head(main[u]).fan)
  <2>1. Head(main[u]).fan \in BOOLEAN
    BY <1>1 DEF CheckHandler
  <2> QED BY <2>1, ShowFanShown DEF Checked, Handled
<1> QED BY <1>1, <1>2 DEF Checked, RunHead, Moves, Readers, TypeOK, QueuesOK

\* A check that is answered leaves its handler.
LEMMA AnswerCheckDoes ==
    ASSUME TypeOK, NEW u \in User, AnswerCheck(u)
    PROVE  /\ u \in Readers
           /\ \E visit \in checks[u], h \in CheckHandler :
                 /\ h.visit = visit /\ (h.fan <=> Sees(u, Star(u)))
                 /\ checks' = [checks EXCEPT ![u] = @ \ {visit}]
                 /\ Moves(u, pending[u], Append(main[u], h), queries[u])
           /\ UNCHANGED <<profile, visits, taps, uploads, faults, historyVars>>
<1>1. PICK visit \in checks[u] : AnswerCheck(u)!(visit)
  BY DEF AnswerCheck
<1> DEFINE h == [do |-> "checked", visit |-> visit, fan |-> Sees(u, Star(u))]
<1>2. u \in Readers /\ visit \in Visits
  BY <1>1 DEF TypeOK, ScreensOK, Readers, Visits
<1>3. Sees(u, Star(u)) \in BOOLEAN
  BY DEF Sees
<1>4. h \in CheckHandler /\ h.visit = visit /\ (h.fan <=> Sees(u, Star(u)))
  BY <1>2, <1>3 DEF CheckHandler, Visits
<1>5. main' = [main EXCEPT ![u] = Append(@, h)] /\ UNCHANGED <<db, pending, sent, queries>>
  BY <1>1 DEF Post
<1> HIDE DEF h
<1>6. Moves(u, pending[u], Append(main[u], h), queries[u])
  BY <1>5 DEF Moves, TypeOK, QueuesOK
<1> QED BY <1>1, <1>2, <1>4, <1>6

\* An answered query of a reader leaves the handler that fills the feed.
LEMMA AnswerDoes ==
    ASSUME TypeOK, NEW u \in Readers, AnswerQuery(u) \/ AnswerFromCache(u)
    PROVE  /\ queries[u] # << >> /\ Head(queries[u]) \in AskCartoons
           /\ \E h \in FillHandler :
                 /\ h \in Yes <=> Head(queries[u]) \in Yes
                 /\ h.cartoons \subseteq CartoonsSeen(u)
                 /\ AnswerQuery(u) => h.cartoons = CartoonsSeen(u)
                 /\ Moves(u, pending[u], Append(main[u], h), Tail(queries[u]))
           /\ UNCHANGED <<screenVars, taps, uploads, want, torn, raced>>
           /\ \/ AnswerQuery(u) /\ UNCHANGED <<short, faults>>
              \/ /\ AnswerFromCache(u) /\ short' = [short EXCEPT ![u] = TRUE]
                 /\ faults < MaxFaults /\ faults' = faults + 1
<1> DEFINE q == Head(queries[u])
<1>1. queries[u] # << >>
  BY DEF AnswerQuery, AnswerFromCache
<1>2. q \in AskCartoons /\ u # Artist /\ u \in User
  BY <1>1 DEF TypeOK, QueuesOK, Query, Readers
<1>3. q.ask = "cartoons" /\ q.didFan \in BOOLEAN
  BY <1>2 DEF AskCartoons
<1>4. ASSUME NEW cartoons \in SUBSET (1..MaxUploads), NEW fans, Deliver(u, q, cartoons, fans),
             UNCHANGED <<db, pending, sent>>
      PROVE  \E h \in FillHandler :
                /\ h \in Yes <=> q \in Yes
                /\ h.cartoons = cartoons
                /\ Moves(u, pending[u], Append(main[u], h), Tail(queries[u]))
  <2> DEFINE h == [do |-> "filled", didFan |-> q.didFan, cartoons |-> cartoons]
  <2>1. h \in FillHandler /\ h.didFan = q.didFan /\ h.cartoons = cartoons
    BY <1>3 DEF FillHandler
  <2>2. h \in Yes <=> q \in Yes
    BY <1>2, <2>1, YesFacts
  <2>3. /\ main' = [main EXCEPT ![u] = Append(@, h)]
        /\ queries' = [queries EXCEPT ![u] = Tail(@)]
    BY <1>3, <1>4 DEF Deliver, Post
  <2> HIDE DEF h, q
  <2>4. Moves(u, pending[u], Append(main[u], h), Tail(queries[u]))
    BY <1>2, <1>4, <2>3 DEF Moves, TypeOK, QueuesOK
  <2> QED BY <2>1, <2>2, <2>4
<1> HIDE DEF q
<1>5. CartoonsSeen(u) \in SUBSET (1..MaxUploads)
  BY DEF CartoonsSeen
<1>6. ASSUME AnswerQuery(u)
      PROVE  /\ \E h \in FillHandler :
                   /\ h \in Yes <=> q \in Yes
                   /\ h.cartoons = CartoonsSeen(u)
                   /\ Moves(u, pending[u], Append(main[u], h), Tail(queries[u]))
             /\ UNCHANGED <<screenVars, taps, uploads, want, torn, raced>>
             /\ UNCHANGED <<short, faults>>
  <2>1. /\ Deliver(u, q, CartoonsSeen(u), FansSeen(u))
        /\ UNCHANGED <<db, pending, sent>>
        /\ UNCHANGED <<screenVars, taps, uploads, faults, historyVars>>
    BY <1>6 DEF AnswerQuery, q
  <2> QED BY <1>4, <1>5, <2>1 DEF historyVars
<1>7. ASSUME AnswerFromCache(u)
      PROVE  /\ \E h \in FillHandler :
                   /\ h \in Yes <=> q \in Yes
                   /\ h.cartoons \subseteq CartoonsSeen(u)
                   /\ Moves(u, pending[u], Append(main[u], h), Tail(queries[u]))
             /\ UNCHANGED <<screenVars, taps, uploads, want, torn, raced>>
             /\ short' = [short EXCEPT ![u] = TRUE]
             /\ faults < MaxFaults /\ faults' = faults + 1
  <2>1. PICK cartoons \in SUBSET CartoonsSeen(u), fans \in SUBSET FansSeen(u) :
           Deliver(u, q, cartoons, fans)
    BY <1>7 DEF AnswerFromCache, q
  <2>2. /\ UNCHANGED <<db, pending, sent>>
        /\ UNCHANGED <<screenVars, taps, uploads, want, torn, raced>>
        /\ short' = [short EXCEPT ![u] = TRUE]
        /\ faults < MaxFaults /\ faults' = faults + 1
    BY <1>7 DEF AnswerFromCache
  <2> QED BY <1>4, <1>5, <2>1, <2>2
<1>8. CASE AnswerQuery(u) /\ AnswerFromCache(u)
  BY <1>6, <1>7, <1>8, FansBoundsAssumption DEF TypeOK, CountsOK
<1>9. CASE AnswerQuery(u) /\ ~AnswerFromCache(u)
  BY <1>1, <1>2, <1>6, <1>9 DEF q
<1>10. CASE ~AnswerQuery(u) /\ AnswerFromCache(u)
  BY <1>1, <1>2, <1>7, <1>10 DEF q
<1> QED BY <1>8, <1>9, <1>10

\* An answered query of the artist leaves the handler that spreads a cartoon.
LEMMA ArtistAnswerDoes ==
    ASSUME TypeOK, AnswerQuery(Artist) \/ AnswerFromCache(Artist)
    PROVE  /\ queries[Artist] # << >> /\ Head(queries[Artist]) \in AskFans
           /\ \E h \in SpreadHandler :
                 /\ h.cartoon = Head(queries[Artist]).cartoon
                 /\ AnswerQuery(Artist) => h.fans = FansSeen(Artist)
                 /\ Moves(Artist, pending[Artist], Append(main[Artist], h), Tail(queries[Artist]))
           /\ UNCHANGED <<screenVars, taps, uploads, want, torn, raced>>
           /\ \/ AnswerQuery(Artist) /\ UNCHANGED <<short, faults>>
              \/ /\ AnswerFromCache(Artist) /\ short' = [short EXCEPT ![Artist] = TRUE]
                 /\ faults < MaxFaults /\ faults' = faults + 1
<1> DEFINE q == Head(queries[Artist])
<1>1. queries[Artist] # << >>
  BY DEF AnswerQuery, AnswerFromCache
<1>2. q \in AskFans
  BY <1>1, ArtistAssumption DEF TypeOK, QueuesOK, Query
<1>3. q.ask # "cartoons" /\ q.cartoon \in 1..MaxUploads
  BY <1>2 DEF AskFans
<1>4. ASSUME NEW cartoons, NEW fans \in SUBSET Readers, Deliver(Artist, q, cartoons, fans),
             UNCHANGED <<db, pending, sent>>
      PROVE  \E h \in SpreadHandler :
                /\ h.cartoon = q.cartoon /\ h.fans = fans
                /\ Moves(Artist, pending[Artist], Append(main[Artist], h), Tail(queries[Artist]))
  <2> DEFINE h == [do |-> "spread", cartoon |-> q.cartoon, fans |-> fans]
  <2>1. h \in SpreadHandler /\ h.cartoon = q.cartoon /\ h.fans = fans
    BY <1>3 DEF SpreadHandler
  <2>2. /\ main' = [main EXCEPT ![Artist] = Append(@, h)]
        /\ queries' = [queries EXCEPT ![Artist] = Tail(@)]
    BY <1>3, <1>4 DEF Deliver, Post
  <2> HIDE DEF h, q
  <2>3. Moves(Artist, pending[Artist], Append(main[Artist], h), Tail(queries[Artist]))
    BY <1>4, <2>2, ArtistAssumption DEF Moves, TypeOK, QueuesOK
  <2> QED BY <2>1, <2>3
<1> HIDE DEF q
<1>5. FansSeen(Artist) \in SUBSET Readers
  BY DEF FansSeen
<1>6. ASSUME AnswerQuery(Artist)
      PROVE  /\ \E h \in SpreadHandler :
                   /\ h.cartoon = q.cartoon /\ h.fans = FansSeen(Artist)
                   /\ Moves(Artist, pending[Artist], Append(main[Artist], h), Tail(queries[Artist]))
             /\ UNCHANGED <<screenVars, taps, uploads, want, torn, raced>>
             /\ UNCHANGED <<short, faults>>
  <2>1. /\ Deliver(Artist, q, CartoonsSeen(Artist), FansSeen(Artist))
        /\ UNCHANGED <<db, pending, sent>>
        /\ UNCHANGED <<screenVars, taps, uploads, faults, historyVars>>
    BY <1>6 DEF AnswerQuery, q
  <2> QED BY <1>4, <1>5, <2>1 DEF historyVars
<1>7. ASSUME AnswerFromCache(Artist)
      PROVE  /\ \E h \in SpreadHandler :
                   /\ h.cartoon = q.cartoon
                   /\ Moves(Artist, pending[Artist], Append(main[Artist], h), Tail(queries[Artist]))
             /\ UNCHANGED <<screenVars, taps, uploads, want, torn, raced>>
             /\ short' = [short EXCEPT ![Artist] = TRUE]
             /\ faults < MaxFaults /\ faults' = faults + 1
  <2>1. PICK cartoons \in SUBSET CartoonsSeen(Artist), fans \in SUBSET FansSeen(Artist) :
           Deliver(Artist, q, cartoons, fans)
    BY <1>7 DEF AnswerFromCache, q
  <2>2. /\ UNCHANGED <<db, pending, sent>>
        /\ UNCHANGED <<screenVars, taps, uploads, want, torn, raced>>
        /\ short' = [short EXCEPT ![Artist] = TRUE]
        /\ faults < MaxFaults /\ faults' = faults + 1
    BY <1>7 DEF AnswerFromCache
  <2> QED BY <1>4, <1>5, <2>1, <2>2
<1>8. CASE AnswerQuery(Artist) /\ AnswerFromCache(Artist)
  BY <1>6, <1>7, <1>8, FansBoundsAssumption DEF TypeOK, CountsOK
<1>9. CASE AnswerQuery(Artist) /\ ~AnswerFromCache(Artist)
  BY <1>1, <1>2, <1>6, <1>9 DEF q
<1>10. CASE ~AnswerQuery(Artist) /\ AnswerFromCache(Artist)
  BY <1>1, <1>2, <1>7, <1>10 DEF q
<1> QED BY <1>8, <1>9, <1>10

\* That handler enters the cartoon in the feed of each fan found.
LEMMA SpreadDoes ==
    ASSUME TypeOK, NEW u \in User, Spread(u)
    PROVE  /\ u = Artist /\ main[u] # << >> /\ Head(main[u]) \in SpreadHandler
           /\ \E p \in Seq(Write(u)) :
                 /\ Longer(pending[u], p, {})
                 /\ \A i \in Len(pending[u])+1..Len(p) :
                       \E v \in Head(main[u]).fans \cup {Artist} :
                          p[i].doc = Feed(v, Head(main[u]).cartoon)
                 /\ \A v \in Head(main[u]).fans :
                       \E i \in Len(pending[u])+1..Len(p) :
                          p[i].doc = Feed(v, Head(main[u]).cartoon)
                 /\ Moves(u, p, Tail(main[u]), queries[u])
           /\ UNCHANGED fansVars
<1> DEFINE h == Head(main[u])
<1>1. u = Artist /\ main[u] # << >> /\ h \in SpreadHandler
  BY DueFacts DEF Spread
<1>2. /\ UNCHANGED fansVars /\ UNCHANGED <<db, sent, queries>>
      /\ main' = [main EXCEPT ![u] = Tail(@)]
  BY <1>1 DEF Spread, RunHead, fansVars
<1>3. h.cartoon \in 1..MaxUploads /\ h.fans \in SUBSET Readers
  BY <1>1 DEF SpreadHandler
<1> DEFINE fans == SetToSeq(h.fans)
           found == fans \o <<u>>
           entry(v) == SetData(Feed(v, h.cartoon), EmptyDoc, Nothing)
           t == [i \in DOMAIN found |-> entry(found[i])]
           p == pending[u] \o t
<1>4. pending' = [pending EXCEPT ![u] = p]
  BY DEF Spread, Issue, Handled
<1>5. /\ fans \in Seq(h.fans)
      /\ \A v \in h.fans : \E i \in 1..Len(fans) : fans[i] = v
  <2>1. Readers \in SUBSET User
    BY DEF Readers
  <2>2. IsFiniteSet(h.fans)
    BY <1>3, <2>1, UserAssumption, FS_Subset
  <2> HIDE DEF h
  <2> QED BY <2>2, SetToSeqFacts
<1> HIDE DEF h, fans
<1>6. /\ found \in Seq(h.fans \cup {Artist})
      /\ \A v \in h.fans : \E i \in 1..Len(found) : found[i] = v
  <2>1. fans \in Seq(h.fans \cup {Artist}) /\ u \in h.fans \cup {Artist}
    BY <1>1, <1>5
  <2>2. /\ found \in Seq(h.fans \cup {Artist}) /\ Len(found) = Len(fans) + 1 /\ Len(fans) \in Nat
        /\ \A i \in 1..Len(fans) : found[i] = fans[i]
    BY <2>1
  <2> HIDE DEF found
  <2>3. \A i \in 1..Len(fans) : i \in 1..Len(found)
    BY <2>2
  <2> QED BY <1>5, <2>2, <2>3
<1> HIDE DEF found
<1>7. ASSUME NEW v \in h.fans \cup {Artist}
      PROVE  entry(v) \in Write(u) /\ entry(v).doc = Feed(v, h.cartoon)
  <2>1. v \in User
    BY <1>3, ArtistAssumption DEF Readers
  <2>2. entry(v) \in Write(u)
    BY <1>1, <1>3, <2>1, ArtistWrites
  <2> QED BY <2>2 DEF SetData
<1>8. /\ t \in Seq(Write(u)) /\ Len(t) = Len(found)
      /\ \A i \in 1..Len(t) : found[i] \in h.fans \cup {Artist} /\ t[i] = entry(found[i])
  <2>1. DOMAIN found = 1..Len(found) /\ Len(found) \in Nat
        /\ \A i \in 1..Len(found) : found[i] \in h.fans \cup {Artist}
    BY <1>6
  <2>2. \A i \in 1..Len(found) : entry(found[i]) \in Write(u)
    BY <1>7, <2>1
  <2> HIDE DEF entry
  <2>3. t \in [1..Len(found) -> Write(u)]
    BY <2>1, <2>2
  <2> QED BY <2>1, <2>3
<1>9. pending[u] \in Seq(Write(u)) /\ DOMAIN pending = User
  BY DEF TypeOK, QueuesOK
<1> HIDE DEF t, entry
<1>10. /\ p \in Seq(Write(u)) /\ Longer(pending[u], p, {})
       /\ \A i \in 1..Len(t) : Len(pending[u]) + i \in Len(pending[u])+1..Len(p)
                               /\ p[Len(pending[u]) + i] = t[i]
       /\ \A i \in Len(pending[u])+1..Len(p) : \E k \in 1..Len(t) : p[i] = t[k]
  BY <1>8, <1>9, IssueBatch
<1> HIDE DEF p
<1>11. Moves(u, p, Tail(main[u]), queries[u])
  BY <1>2, <1>4, <1>9 DEF Moves, TypeOK, QueuesOK
<1>12. ASSUME NEW i \in Len(pending[u])+1..Len(p)
       PROVE  \E v \in h.fans \cup {Artist} : p[i].doc = Feed(v, h.cartoon)
  <2>1. PICK v \in h.fans \cup {Artist} : p[i] = entry(v)
    BY <1>8, <1>10
  <2> QED BY <1>7, <2>1
<1>13. ASSUME NEW v \in h.fans
       PROVE  \E i \in Len(pending[u])+1..Len(p) : p[i].doc = Feed(v, h.cartoon)
  <2>1. PICK k \in 1..Len(t) : t[k] = entry(v)
    BY <1>6, <1>8
  <2>2. Len(pending[u]) + k \in Len(pending[u])+1..Len(p) /\ p[Len(pending[u]) + k] = t[k]
    BY <1>10
  <2>3. p[Len(pending[u]) + k].doc = Feed(v, h.cartoon)
    BY <1>7, <2>1, <2>2
  <2> QED BY <2>2, <2>3
<1> QED BY <1>1, <1>2, <1>10, <1>11, <1>12, <1>13 DEF h

\* An upload writes the cartoon and asks for the fans.
LEMMA UploadDoes ==
    ASSUME TypeOK, Upload
    PROVE  /\ uploads + 1 \in 1..MaxUploads /\ uploads' = uploads + 1
           /\ \E w \in Write(Artist), q \in AskFans :
                 /\ w.doc = Toon(uploads + 1) /\ w.op = "set" /\ q.cartoon = uploads + 1
                 /\ Moves(Artist, Append(pending[Artist], w), main[Artist],
                          Append(queries[Artist], q))
           /\ UNCHANGED <<screenVars, taps, faults, want, torn, short>>
           /\ raced' = [u \in User |-> raced[u] \/ ~Idle(u)]
<1> DEFINE w == SetData(Toon(uploads + 1), EmptyDoc, Nothing)
           q == [ask |-> "fans", cartoon |-> uploads + 1]
<1>1. uploads + 1 \in 1..MaxUploads
  BY FansBoundsAssumption DEF Upload, TypeOK, CountsOK
<1>2. w \in Write(Artist) /\ w.doc = Toon(uploads + 1) /\ w.op = "set"
  BY <1>1, ArtistWrites DEF SetData
<1>3. q \in AskFans /\ q.cartoon = uploads + 1
  BY <1>1 DEF AskFans
<1>4. /\ Issue(Artist, <<w>>) /\ queries' = [queries EXCEPT ![Artist] = Append(@, q)]
      /\ UNCHANGED <<db, sent, main, screenVars, taps, faults, want, torn, short>>
      /\ uploads' = uploads + 1
      /\ raced' = [u \in User |-> raced[u] \/ ~Idle(u)]
  BY DEF Upload
<1> HIDE DEF w, q
<1>5. Moves(Artist, Append(pending[Artist], w), main[Artist], Append(queries[Artist], q))
  BY <1>2, <1>4, AppendPushes, ArtistAssumption DEF Moves, Issue, TypeOK, QueuesOK
<1> QED BY <1>1, <1>2, <1>3, <1>4, <1>5

\* The server applies u's next write.
LEMMA TransmitDoes ==
    ASSUME TypeOK, NEW u \in User, Transmit(u), UNCHANGED fansVars
    PROVE  LET w == pending[u][sent[u] + 1] IN
           /\ w \in Write(u) /\ sent[u] \in Nat /\ sent[u] < Len(pending[u])
           /\ sent' = [sent EXCEPT ![u] = @ + 1] /\ UNCHANGED <<pending, main>>
           /\ DOMAIN db' = Docs
           /\ \A d \in Docs : /\ d # w.doc => db'[d] = db[d]
                              /\ d = w.doc => (db'[d] # NoDoc <=> w.op = "set")
           /\ \A d \in Docs : db'[d] \in {EmptyDoc, NoDoc}
           /\ db' = [d \in Docs |-> db'[d]]
<1> DEFINE w == pending[u][sent[u] + 1]
<1>1. /\ pending[u] \in Seq(Write(u)) /\ sent[u] \in Nat /\ sent[u] < Len(pending[u])
      /\ db \in [Docs -> {EmptyDoc, NoDoc}]
  BY DEF TypeOK, QueuesOK, DocsOK, Transmit
<1>2. w \in Write(u)
  BY <1>1
<1>3. w.doc \in Docs /\ w.val = EmptyDoc /\ w.op \in {"set", "delete"}
  BY <1>2, WriteFacts
<1>4. db' = Apply(db, w) /\ sent' = [sent EXCEPT ![u] = @ + 1] /\ UNCHANGED <<pending, main>>
  BY DEF Transmit
<1> HIDE DEF w
<1>5. db' \in [Docs -> {EmptyDoc, NoDoc}]
  BY <1>1, <1>3, <1>4 DEF Apply, AfterWrite
<1>6. ASSUME NEW d \in Docs
      PROVE  /\ d # w.doc => db'[d] = db[d]
             /\ d = w.doc => (db'[d] # NoDoc <=> w.op = "set")
  BY <1>1, <1>3, <1>4, AbsentAssumption DEF Apply, AfterWrite
<1> QED BY <1>1, <1>2, <1>4, <1>5, <1>6 DEF w

\* The oldest write, which was delivered, leaves; its handler comes due.
LEMMA AcknowledgeDoes ==
    ASSUME TypeOK, NEW u \in User, Acknowledge(u), UNCHANGED fansVars
    PROVE  LET w == Head(pending[u]) IN
           /\ w \in Write(u) /\ sent[u] \in Nat /\ sent[u] > 0 /\ sent[u] <= Len(pending[u])
           /\ Popped(pending[u], Tail(pending[u]), w) /\ Tail(pending[u]) \in Seq(Write(u))
           /\ pending' = [pending EXCEPT ![u] = Tail(@)]
           /\ sent' = [sent EXCEPT ![u] = @ - 1]
           /\ \/ w.then = Nothing /\ UNCHANGED main
              \/ /\ w.then \in TapHandler /\ u \in Readers
                 /\ main' = [main EXCEPT ![u] = Append(@, w.then)]
           /\ UNCHANGED db
<1> DEFINE w == Head(pending[u])
<1>1. pending[u] \in Seq(Write(u)) /\ sent[u] \in Nat /\ sent[u] > 0 /\ sent[u] <= Len(pending[u])
  BY DEF TypeOK, QueuesOK, Acknowledge
<1>2. pending[u] # << >>
  BY <1>1
<1>3. /\ w \in Write(u) /\ Popped(pending[u], Tail(pending[u]), w)
      /\ Tail(pending[u]) \in Seq(Write(u))
  BY <1>1, <1>2, TailPops
<1>4. /\ pending' = [pending EXCEPT ![u] = Tail(@)] /\ sent' = [sent EXCEPT ![u] = @ - 1]
      /\ main' = IF w.then = Nothing THEN main ELSE [main EXCEPT ![u] = Append(@, w.then)]
      /\ UNCHANGED db
  BY DEF Acknowledge
<1> HIDE DEF w
<1>5. w.then \in TapHandler \cup {Nothing} /\ (w.then # Nothing => u \in Readers)
  BY <1>3, WriteFacts
<1> QED BY <1>1, <1>3, <1>4, <1>5 DEF w

\* A restart takes the handlers off the writes, and drops all but the writes.
LEMMA RestartDoes ==
    ASSUME TypeOK, NEW u \in User, Restart(u)
    PROVE  LET q == pending[u]
               r == pending'[u]
           IN  /\ r \in Seq(Write(u)) /\ Len(r) = Len(q) /\ Len(q) \in Nat
               /\ \A i \in 1..Len(q) :
                     r[i].doc = q[i].doc /\ r[i].op = q[i].op /\ r[i].then = Nothing
               /\ main'[u] = << >> /\ queries'[u] = << >> /\ sent'[u] = 0
               /\ profile'[u] = Closed /\ checks'[u] = {}
               /\ torn'[u] = \/ torn[u]
                             \/ \E i \in 1..Len(q) : Mirrors(q[i].then)
                             \/ \E i \in 1..Len(main[u]) : Mirrors(main[u][i])
               /\ short'[u] = \/ short[u] \/ main[u] # << >> \/ queries[u] # << >>
                              \/ \E i \in 1..Len(q) : q[i].then # Nothing
               /\ UNCHANGED <<db, visits, taps, uploads, want, raced>>
               /\ \A v \in User \ {u} : /\ pending'[v] = pending[v] /\ main'[v] = main[v]
                                        /\ queries'[v] = queries[v] /\ sent'[v] = sent[v]
               /\ OthersKept(u)
<1> DEFINE q == pending[u]
           r == [i \in DOMAIN q |-> [q[i] EXCEPT !.then = Nothing]]
<1>1. /\ q \in Seq(Write(u)) /\ DOMAIN q = 1..Len(q) /\ Len(q) \in Nat
      /\ DOMAIN main[u] = 1..Len(main[u]) /\ DOMAIN pending = User
  BY DEF TypeOK, QueuesOK
<1>2. pending'[u] = r
  BY <1>1 DEF Restart, RestartClient
<1>3. ASSUME NEW i \in 1..Len(q)
      PROVE  /\ r[i] \in Write(u)
             /\ r[i].doc = q[i].doc /\ r[i].op = q[i].op /\ r[i].then = Nothing
  <2>1. r[i] = [q[i] EXCEPT !.then = Nothing] /\ q[i] \in Write(u)
    BY <1>1
  <2> QED BY <2>1, WriteFacts
<1>4. r \in Seq(Write(u)) /\ Len(r) = Len(q)
  <2>1. r \in [1..Len(q) -> Write(u)]
    BY <1>1, <1>3
  <2> HIDE DEF r
  <2> QED BY <1>1, <2>1
<1> HIDE DEF r
<1>5. /\ main'[u] = << >> /\ queries'[u] = << >> /\ sent'[u] = 0
      /\ profile'[u] = Closed /\ checks'[u] = {}
      /\ UNCHANGED <<db, visits, taps, uploads, want, raced>>
  BY DEF Restart, RestartClient, TypeOK, QueuesOK, ScreensOK
<1>6. \A v \in User \ {u} : /\ pending'[v] = pending[v] /\ main'[v] = main[v]
                            /\ queries'[v] = queries[v] /\ sent'[v] = sent[v]
  BY DEF Restart, RestartClient, TypeOK, QueuesOK
<1>7. OthersKept(u)
  BY <1>5 DEF Restart, OthersKept, TypeOK, ScreensOK, HistoryOK
<1>8. torn'[u] = \/ torn[u]
                 \/ \E i \in 1..Len(q) : Mirrors(q[i].then)
                 \/ \E i \in 1..Len(main[u]) : Mirrors(main[u][i])
  BY <1>1 DEF Restart, TypeOK, HistoryOK
<1>9. short'[u] = \/ short[u] \/ main[u] # << >> \/ queries[u] # << >>
                  \/ \E i \in 1..Len(q) : q[i].then # Nothing
  BY <1>1 DEF Restart, TypeOK, HistoryOK
<1> HIDE DEF q
<1> QED BY <1>1, <1>2, <1>3, <1>4, <1>5, <1>6, <1>7, <1>8, <1>9 DEF q

-----------------------------------------------------------------------------
(* Every step keeps the types                                              *)

\* A step that only moves writes, handlers and queries.
LEMMA MovesType ==
    ASSUME TypeOK, NEW u \in User, NEW p \in Seq(Write(u)), NEW m \in Seq(Handler(u)),
           NEW q \in Seq(Query(u)), Len(p) >= Len(pending[u]), Moves(u, p, m, q)
    PROVE  DocsOK' /\ QueuesOK'
<1>1. \A v \in User : pending[v] \in Seq(Write(v)) /\ Len(pending[v]) \in Nat /\ sent[v] \in Nat
  BY DEF TypeOK, QueuesOK
<1>2. ASSUME NEW v \in User
      PROVE  /\ pending'[v] \in Seq(Write(v)) /\ sent'[v] <= Len(pending'[v])
             /\ main'[v] \in Seq(Handler(v)) /\ queries'[v] \in Seq(Query(v))
  <2>1. sent'[v] = sent[v] /\ sent[v] <= Len(pending[v])
    BY DEF Moves, TypeOK, QueuesOK
  <2>2. CASE v = u
    <3>1. Len(p) \in Nat
      OBVIOUS
    <3> QED BY <1>1, <2>1, <2>2, <3>1 DEF Moves
  <2>3. CASE v # u
    BY <2>1, <2>3 DEF Moves, TypeOK, QueuesOK
  <2> QED BY <2>2, <2>3
<1> QED BY <1>2 DEF Moves, TypeOK, QueuesOK, DocsOK

\* Every step keeps the types: one step per action.
LEMMA StepType == ASSUME TypeOK, [Next]_vars PROVE TypeOK'
<1> USE FansBoundsAssumption, ArtistAssumption, AbsentAssumption
<1>1. CASE Upload
  <2>1. PICK w \in Write(Artist), q \in AskFans :
           Moves(Artist, Append(pending[Artist], w), main[Artist], Append(queries[Artist], q))
    BY <1>1, UploadDoes
  <2>2. /\ Append(pending[Artist], w) \in Seq(Write(Artist))
        /\ Len(Append(pending[Artist], w)) >= Len(pending[Artist])
        /\ main[Artist] \in Seq(Handler(Artist))
        /\ Append(queries[Artist], q) \in Seq(Query(Artist))
    BY DEF TypeOK, QueuesOK, Query
  <2>3. DocsOK' /\ QueuesOK'
    BY <2>1, <2>2, MovesType
  <2>4. /\ UNCHANGED <<profile, visits, checks, taps, faults, want, torn, short>>
        /\ uploads' = uploads + 1 /\ uploads + 1 \in 1..MaxUploads
        /\ raced' = [u \in User |-> raced[u] \/ ~Idle(u)]
    BY <1>1, UploadDoes DEF screenVars
  <2>5. uploads' \in 0..MaxUploads
    BY <2>4
  <2>6. raced' \in [User -> BOOLEAN]
    BY <2>4 DEF Idle, TypeOK, HistoryOK
  <2> QED BY <2>3, <2>4, <2>5, <2>6 DEF TypeOK, ScreensOK, CountsOK, HistoryOK
<1>2. ASSUME NEW u \in User, OpenProfile(u) PROVE TypeOK'
  <2>1. visits[u] + 1 \in 1..MaxVisits /\ NewProfile \in Profile
    BY <1>2 DEF OpenProfile, TypeOK, ScreensOK, NewProfile, Profile
  <2>2. ScreensOK'
    BY <1>2, <2>1 DEF OpenProfile, TypeOK, ScreensOK
  <2> QED
    BY <1>2, <2>2 DEF OpenProfile, firestoreVars, historyVars, TypeOK, DocsOK, QueuesOK,
                      CountsOK, HistoryOK
<1>3. ASSUME NEW u \in User, CloseProfile(u) \/ CheckFails(u) PROVE TypeOK'
  <2>1. ScreensOK'
    BY <1>3 DEF CloseProfile, CheckFails, TypeOK, ScreensOK
  <2> QED
    BY <1>3, <2>1 DEF CloseProfile, CheckFails, firestoreVars, historyVars, TypeOK, DocsOK,
                      QueuesOK, CountsOK, HistoryOK
<1>4. ASSUME NEW u \in User, TapFan(u) \/ TapUnfan(u) PROVE TypeOK'
  <2>1. PICK w \in Write(u) : Moves(u, Append(pending[u], w), main[u], queries[u])
    BY <1>4, TapDoes
  <2>2. /\ Append(pending[u], w) \in Seq(Write(u))
        /\ Len(Append(pending[u], w)) >= Len(pending[u])
        /\ main[u] \in Seq(Handler(u)) /\ queries[u] \in Seq(Query(u))
    BY DEF TypeOK, QueuesOK
  <2>3. DocsOK' /\ QueuesOK'
    BY <2>1, <2>2, MovesType
  <2>4. UNCHANGED <<screenVars, faults, uploads>> /\ taps' = [taps EXCEPT ![u] = @ + 1]
        /\ taps[u] + 1 \in 1..MaxTaps
    BY <1>4, TapDoes DEF OthersKept
  <2>5. HistoryOK'
    <3>1. \E fan \in BOOLEAN : Asked(u, fan)
      BY <1>4 DEF TapFan, TapUnfan
    <3>2. want' \in [User -> BOOLEAN] /\ torn' \in [User -> BOOLEAN]
      BY <3>1 DEF Asked, TypeOK, HistoryOK
    <3>3. short' \in [User -> BOOLEAN] /\ raced' \in [User -> BOOLEAN]
      BY <3>1 DEF Asked, TypeOK, HistoryOK
    <3> QED BY <3>2, <3>3 DEF HistoryOK
  <2> QED BY <2>3, <2>4, <2>5 DEF screenVars, TypeOK, ScreensOK, CountsOK
<1>5. ASSUME NEW u \in User, StarStored(u) \/ StarDeleted(u) PROVE TypeOK'
  <2>1. main[u] # << >> /\ UNCHANGED fansVars
    BY <1>5, StarDoes
  <2>2. PICK w \in Write(u) : Moves(u, Append(pending[u], w), Tail(main[u]), queries[u])
    BY <1>5, StarDoes
  <2>3. /\ Append(pending[u], w) \in Seq(Write(u))
        /\ Len(Append(pending[u], w)) >= Len(pending[u])
        /\ Tail(main[u]) \in Seq(Handler(u)) /\ queries[u] \in Seq(Query(u))
    BY <2>1 DEF TypeOK, QueuesOK
  <2>4. DocsOK' /\ QueuesOK'
    BY <2>2, <2>3, MovesType
  <2> QED
    BY <2>1, <2>4 DEF fansVars, screenVars, historyVars, TypeOK, ScreensOK, CountsOK, HistoryOK
<1>6. ASSUME NEW u \in User, Fanned(u) \/ Unfanned(u) PROVE TypeOK'
  <2>1. /\ main[u] # << >> /\ u \in Readers
        /\ UNCHANGED <<visits, checks, taps, uploads, faults, historyVars>>
    BY <1>6, FanDoes
  <2>2. PICK p \in Seq(Write(u)), q \in AskCartoons :
           Longer(pending[u], p, {}) /\ Moves(u, p, Tail(main[u]), Append(queries[u], q))
    BY <1>6, FanDoes
  <2>3. /\ Len(p) >= Len(pending[u])
        /\ Tail(main[u]) \in Seq(Handler(u)) /\ Append(queries[u], q) \in Seq(Query(u))
    BY <2>1, <2>2 DEF Longer, TypeOK, QueuesOK, Query, Readers
  <2>4. DocsOK' /\ QueuesOK'
    BY <2>2, <2>3, MovesType
  <2>5. \E visit : \E b \in BOOLEAN : Shown(u, visit, b)
    <3>1. \E b \in BOOLEAN : Shown(u, Head(main[u]).visit, b)
      BY <1>6, FanDoes
    <3> QED BY <3>1
  <2>6. ScreensOK'
    BY <2>1, <2>5 DEF Shown, TypeOK, ScreensOK, Readers
  <2> QED BY <2>1, <2>4, <2>6 DEF historyVars, TypeOK, CountsOK, HistoryOK
<1>7. ASSUME NEW u \in User, Filled(u) PROVE TypeOK'
  <2>1. main[u] # << >> /\ UNCHANGED fansVars
    BY <1>7, FillDoes
  <2>2. PICK p \in Seq(Write(u)) :
           Longer(pending[u], p, {}) /\ Moves(u, p, Tail(main[u]), queries[u])
    BY <1>7, FillDoes
  <2>3. /\ Len(p) >= Len(pending[u])
        /\ Tail(main[u]) \in Seq(Handler(u)) /\ queries[u] \in Seq(Query(u))
    BY <2>1, <2>2 DEF Longer, TypeOK, QueuesOK
  <2>4. DocsOK' /\ QueuesOK'
    BY <2>2, <2>3, MovesType
  <2> QED
    BY <2>1, <2>4 DEF fansVars, screenVars, historyVars, TypeOK, ScreensOK, CountsOK, HistoryOK
<1>8. ASSUME NEW u \in User, Spread(u) PROVE TypeOK'
  <2>1. main[u] # << >> /\ UNCHANGED fansVars
    BY <1>8, SpreadDoes
  <2>2. PICK p \in Seq(Write(u)) :
           Longer(pending[u], p, {}) /\ Moves(u, p, Tail(main[u]), queries[u])
    BY <1>8, SpreadDoes
  <2>3. /\ Len(p) >= Len(pending[u])
        /\ Tail(main[u]) \in Seq(Handler(u)) /\ queries[u] \in Seq(Query(u))
    BY <2>1, <2>2 DEF Longer, TypeOK, QueuesOK
  <2>4. DocsOK' /\ QueuesOK'
    BY <2>2, <2>3, MovesType
  <2> QED
    BY <2>1, <2>4 DEF fansVars, screenVars, historyVars, TypeOK, ScreensOK, CountsOK, HistoryOK
<1>9. ASSUME NEW u \in User, Checked(u) PROVE TypeOK'
  <2>1. /\ main[u] # << >> /\ u \in Readers
        /\ UNCHANGED <<visits, checks, taps, uploads, faults, historyVars>>
        /\ Moves(u, pending[u], Tail(main[u]), queries[u])
    BY <1>9, CheckedDoes
  <2>2. /\ pending[u] \in Seq(Write(u)) /\ Len(pending[u]) \in Nat
        /\ Tail(main[u]) \in Seq(Handler(u)) /\ queries[u] \in Seq(Query(u))
        /\ Len(pending[u]) >= Len(pending[u])
    BY <2>1 DEF TypeOK, QueuesOK
  <2>3. DocsOK' /\ QueuesOK'
    BY <2>1, <2>2, MovesType
  <2>4. \E visit : \E b \in BOOLEAN : Shown(u, visit, b)
    <3>1. Head(main[u]).fan \in BOOLEAN
      BY <1>9, CheckedDoes DEF CheckHandler
    <3> QED BY <1>9, <3>1, CheckedDoes
  <2>5. ScreensOK'
    BY <2>1, <2>4 DEF Shown, TypeOK, ScreensOK, Readers
  <2> QED BY <2>1, <2>3, <2>5 DEF historyVars, TypeOK, CountsOK, HistoryOK
<1>10. ASSUME NEW u \in User, AnswerCheck(u) PROVE TypeOK'
  <2>1. PICK visit \in checks[u], h \in CheckHandler :
           /\ checks' = [checks EXCEPT ![u] = @ \ {visit}]
           /\ Moves(u, pending[u], Append(main[u], h), queries[u])
    BY <1>10, AnswerCheckDoes
  <2>2. u \in Readers /\ UNCHANGED <<profile, visits, taps, uploads, faults, historyVars>>
    BY <1>10, AnswerCheckDoes
  <2>3. /\ pending[u] \in Seq(Write(u)) /\ Len(pending[u]) \in Nat
        /\ Append(main[u], h) \in Seq(Handler(u)) /\ queries[u] \in Seq(Query(u))
        /\ Len(pending[u]) >= Len(pending[u])
    BY <2>2 DEF TypeOK, QueuesOK, Handler, Readers
  <2>4. DocsOK' /\ QueuesOK'
    BY <2>1, <2>3, MovesType
  <2>5. ScreensOK'
    BY <2>1, <2>2 DEF TypeOK, ScreensOK, Readers
  <2> QED BY <2>2, <2>4, <2>5 DEF historyVars, TypeOK, CountsOK, HistoryOK
<1>11. ASSUME NEW u \in User, AnswerQuery(u) \/ AnswerFromCache(u) PROVE TypeOK'
  <2>1. /\ queries[u] # << >>
        /\ UNCHANGED <<screenVars, taps, uploads, want, torn, raced>>
        /\ \/ UNCHANGED <<short, faults>>
           \/ /\ short' = [short EXCEPT ![u] = TRUE]
              /\ faults < MaxFaults /\ faults' = faults + 1
    BY <1>11, AnswerDoes, ArtistAnswerDoes DEF Readers
  <2>2. PICK h \in Handler(u) : Moves(u, pending[u], Append(main[u], h), Tail(queries[u]))
    <3>1. CASE u = Artist
      <4>1. PICK h \in SpreadHandler :
               Moves(u, pending[u], Append(main[u], h), Tail(queries[u]))
        BY <1>11, <3>1, ArtistAnswerDoes
      <4> QED BY <3>1, <4>1 DEF Handler
    <3>2. CASE u # Artist
      <4>1. PICK h \in FillHandler :
               Moves(u, pending[u], Append(main[u], h), Tail(queries[u]))
        BY <1>11, <3>2, AnswerDoes DEF Readers
      <4> QED BY <3>2, <4>1 DEF Handler
    <3> QED BY <3>1, <3>2
  <2>3. /\ pending[u] \in Seq(Write(u)) /\ Len(pending[u]) \in Nat
        /\ Append(main[u], h) \in Seq(Handler(u)) /\ Tail(queries[u]) \in Seq(Query(u))
        /\ Len(pending[u]) >= Len(pending[u])
    BY <2>1 DEF TypeOK, QueuesOK
  <2>4. DocsOK' /\ QueuesOK'
    BY <2>2, <2>3, MovesType
  <2>5. faults' \in 0..MaxFaults /\ short' \in [User -> BOOLEAN]
    <3>1. faults \in 0..MaxFaults /\ short \in [User -> BOOLEAN]
      BY DEF TypeOK, CountsOK, HistoryOK
    <3>2. CASE UNCHANGED <<short, faults>>
      BY <3>1, <3>2
    <3>3. CASE short' = [short EXCEPT ![u] = TRUE] /\ faults < MaxFaults /\ faults' = faults + 1
      <4>1. faults + 1 \in 0..MaxFaults
        BY <3>1, <3>3
      <4>2. short' \in [User -> BOOLEAN]
        BY <3>1, <3>3
      <4> QED BY <3>3, <4>1, <4>2
    <3> QED BY <2>1, <3>2, <3>3
  <2>6. CountsOK' /\ HistoryOK'
    BY <2>1, <2>5 DEF TypeOK, CountsOK, HistoryOK
  <2> QED BY <2>1, <2>4, <2>6 DEF screenVars, TypeOK, ScreensOK
<1>12. ASSUME NEW u \in User, Client(u) PROVE TypeOK'
  <2>1. UNCHANGED fansVars
    BY <1>12 DEF Client
  <2>2. DocsOK' /\ QueuesOK'
    <3>1. CASE Transmit(u)
      <4>1. DocsOK'
        BY <2>1, <3>1, TransmitDoes DEF DocsOK
      <4>2. sent' = [sent EXCEPT ![u] = @ + 1] /\ sent[u] < Len(pending[u])
            /\ UNCHANGED <<pending, main, queries>>
        BY <2>1, <3>1 DEF Transmit, fansVars
      <4> QED BY <4>1, <4>2 DEF TypeOK, QueuesOK
    <3>2. CASE Acknowledge(u)
      <4>1. /\ Popped(pending[u], Tail(pending[u]), Head(pending[u]))
            /\ Tail(pending[u]) \in Seq(Write(u))
            /\ pending' = [pending EXCEPT ![u] = Tail(@)]
            /\ sent' = [sent EXCEPT ![u] = @ - 1] /\ sent[u] > 0
            /\ UNCHANGED <<db, queries>>
        BY <2>1, <3>2, AcknowledgeDoes DEF fansVars
      <4>2. \/ UNCHANGED main
            \/ \E h \in Handler(u) : main' = [main EXCEPT ![u] = Append(@, h)]
        BY <2>1, <3>2, AcknowledgeDoes DEF Handler, Readers
      <4>3. DOMAIN main' = User /\ \A v \in User : main'[v] \in Seq(Handler(v))
        <5>1. DOMAIN main = User /\ \A v \in User : main[v] \in Seq(Handler(v))
          BY DEF TypeOK, QueuesOK
        <5>2. ASSUME NEW h \in Handler(u), main' = [main EXCEPT ![u] = Append(@, h)]
              PROVE  DOMAIN main' = User /\ \A v \in User : main'[v] \in Seq(Handler(v))
          <6>1. Append(main[u], h) \in Seq(Handler(u))
            BY <5>1
          <6> QED BY <5>1, <5>2, <6>1
        <5> QED BY <4>2, <5>1, <5>2
      <4>4. Len(Tail(pending[u])) = Len(pending[u]) - 1
        BY <4>1 DEF Popped
      <4>5. /\ DOMAIN pending' = User /\ sent' \in [User -> Nat]
            /\ \A v \in User : pending'[v] \in Seq(Write(v)) /\ sent'[v] <= Len(pending'[v])
        BY <4>1, <4>4 DEF TypeOK, QueuesOK
      <4> QED BY <4>1, <4>3, <4>5 DEF TypeOK, QueuesOK, DocsOK
    <3>3. CASE Reconnect(u)
      <4>1. sent' = [sent EXCEPT ![u] = 0] /\ UNCHANGED <<db, pending, main, queries>>
        BY <2>1, <3>3 DEF Reconnect, fansVars
      <4> QED BY <4>1 DEF TypeOK, QueuesOK, DocsOK
    <3> QED BY <1>12, <3>1, <3>2, <3>3 DEF Client
  <2> QED
    BY <2>1, <2>2 DEF fansVars, screenVars, historyVars, TypeOK, ScreensOK, CountsOK, HistoryOK
<1>13. ASSUME NEW u \in User, Restart(u) PROVE TypeOK'
  <2>1. /\ pending'[u] \in Seq(Write(u)) /\ main'[u] = << >> /\ queries'[u] = << >>
        /\ sent'[u] = 0 /\ Len(pending'[u]) \in Nat
        /\ \A v \in User \ {u} : /\ pending'[v] = pending[v] /\ main'[v] = main[v]
                                 /\ queries'[v] = queries[v] /\ sent'[v] = sent[v]
        /\ UNCHANGED <<db, visits, taps, uploads, want, raced>>
    BY <1>13, RestartDoes
  <2>2. /\ DOMAIN pending' = User /\ DOMAIN main' = User /\ DOMAIN queries' = User
        /\ sent' \in [User -> Nat]
    BY <1>13 DEF Restart, RestartClient, TypeOK, QueuesOK
  <2>3. \A v \in User : sent'[v] <= Len(pending'[v])
    <3>1. sent'[u] <= Len(pending'[u])
      BY <2>1
    <3>2. \A v \in User \ {u} : sent'[v] <= Len(pending'[v])
      BY <2>1 DEF TypeOK, QueuesOK
    <3> QED BY <3>1, <3>2
  <2>4. QueuesOK'
    <3>1. \A v \in User \ {u} :
             /\ pending'[v] \in Seq(Write(v)) /\ main'[v] \in Seq(Handler(v))
             /\ queries'[v] \in Seq(Query(v))
      BY <2>1 DEF TypeOK, QueuesOK
    <3>2. << >> \in Seq(Handler(u)) /\ << >> \in Seq(Query(u))
      OBVIOUS
    <3> QED BY <2>1, <2>2, <2>3, <3>1, <3>2 DEF QueuesOK
  <2>5. ScreensOK' /\ CountsOK'
    BY <1>13 DEF Restart, TypeOK, ScreensOK, CountsOK
  <2>6. HistoryOK'
    BY <1>13 DEF Restart, TypeOK, HistoryOK
  <2> QED BY <2>1, <2>4, <2>5, <2>6 DEF TypeOK, DocsOK
<1>14. CASE UNCHANGED vars
  BY <1>14 DEF vars, firestoreVars, fansVars, screenVars, historyVars, TypeOK, DocsOK,
               QueuesOK, ScreensOK, CountsOK, HistoryOK
<1> QED
  BY <1>1, <1>2, <1>3, <1>4, <1>5, <1>6, <1>7, <1>8, <1>9, <1>10, <1>11, <1>12, <1>13, <1>14
     DEF Next, RunHandler

\* Every reachable state is well typed: a device's queues hold only the
\* writes and handlers of its own account's screens (TypeOK).
THEOREM TypeCorrect == Spec => []TypeOK
<1>1. Init => TypeOK
  BY InitType
<1>2. TypeOK /\ [Next]_vars => TypeOK'
  BY StepType
<1> QED BY <1>1, <1>2, PTL DEF Spec
-----------------------------------------------------------------------------
(* A step, seen from one reader                                            *)

\* Nothing happens to u's queues, history and two places of a fan, except
\* that the stream may break.
Quiet(u) ==
    /\ pending'[u] = pending[u] /\ main'[u] = main[u] /\ queries'[u] = queries[u]
    /\ sent'[u] \in {0, sent[u]}
    /\ want'[u] = want[u] /\ torn'[u] = torn[u] /\ short'[u] = short[u]
    /\ db'[Star(u)] = db[Star(u)] /\ db'[Fan(u)] = db[Fan(u)]

\* The screen stays as it is, or it is closed, or a check fails.
SameScreen(u) ==
    /\ profile'[u] \in {profile[u], Closed}
    /\ visits'[u] = visits[u] /\ checks'[u] \subseteq checks[u]

\* A step of v: one of the actions of the next-state relation.
Acts(v) ==
    \/ TapFan(v) \/ TapUnfan(v) \/ StarStored(v) \/ StarDeleted(v)
    \/ Fanned(v) \/ Unfanned(v) \/ Filled(v) \/ Spread(v) \/ Checked(v)
    \/ AnswerCheck(v) \/ AnswerQuery(v) \/ AnswerFromCache(v)
    \/ (Transmit(v) /\ UNCHANGED fansVars) \/ (Acknowledge(v) /\ UNCHANGED fansVars)
    \/ Restart(v)
Others(v) ==
    \/ OpenProfile(v) \/ CloseProfile(v) \/ CheckFails(v)
    \/ (Reconnect(v) /\ UNCHANGED fansVars)

\* The steps of the specification.
LEMMA NextActs ==
    ASSUME [Next]_vars
    PROVE  Upload \/ UNCHANGED vars \/ \E v \in User : Acts(v) \/ Others(v)
BY DEF Next, RunHandler, Client, Acts, Others

\* Steps that only move v's queues keep those of the others.
LEMMA MovesQuiet ==
    ASSUME TypeOK, NEW u \in User, NEW v \in User, u # v, NEW p, NEW m, NEW q,
           Moves(v, p, m, q), want'[u] = want[u], torn'[u] = torn[u], short'[u] = short[u]
    PROVE  Quiet(u)
BY DEF Moves, Quiet

\* A step of another account, the artist's too, is quiet for u.
LEMMA OthersQuiet ==
    ASSUME TypeOK, NEW u \in Readers, NEW v \in User, v # u, Acts(v)
    PROVE  Quiet(u) /\ SameScreen(u)
<1>0. u \in User
  BY DEF Readers
<1> USE <1>0
<1>1. CASE TapFan(v) \/ TapUnfan(v)
  <2>1. (\E p, m, q : Moves(v, p, m, q)) /\ OthersKept(v)
    BY <1>1, TapDoes
  <2> QED BY <2>1, MovesQuiet DEF OthersKept, SameScreen
<1>2. CASE StarStored(v) \/ StarDeleted(v)
  <2>1. (\E p, m, q : Moves(v, p, m, q)) /\ UNCHANGED fansVars
    BY <1>2, StarDoes
  <2> QED BY <2>1, MovesQuiet DEF SameScreen, fansVars, screenVars, historyVars
<1>3. CASE Fanned(v) \/ Unfanned(v)
  <2>1. /\ \E p, m, q : Moves(v, p, m, q)
        /\ UNCHANGED <<visits, checks, historyVars>>
    BY <1>3, FanDoes
  <2>2. profile'[u] = profile[u]
    <3>1. \E b \in BOOLEAN : Shown(v, Head(main[v]).visit, b)
      BY <1>3, FanDoes
    <3> QED BY <3>1 DEF Shown
  <2> QED BY <2>1, <2>2, MovesQuiet DEF SameScreen, historyVars
<1>4. CASE Filled(v)
  <2>1. (\E p, m, q : Moves(v, p, m, q)) /\ UNCHANGED fansVars
    BY <1>4, FillDoes
  <2> QED BY <2>1, MovesQuiet DEF SameScreen, fansVars, screenVars, historyVars
<1>5. CASE Spread(v)
  <2>1. (\E p, m, q : Moves(v, p, m, q)) /\ UNCHANGED fansVars
    BY <1>5, SpreadDoes
  <2> QED BY <2>1, MovesQuiet DEF SameScreen, fansVars, screenVars, historyVars
<1>6. CASE Checked(v)
  <2>1. /\ \E p, m, q : Moves(v, p, m, q)
        /\ UNCHANGED <<visits, checks, historyVars>>
        /\ Shown(v, Head(main[v]).visit, Head(main[v]).fan)
    BY <1>6, CheckedDoes
  <2> QED BY <2>1, MovesQuiet DEF SameScreen, Shown, historyVars
<1>7. CASE AnswerCheck(v)
  <2>1. /\ \E p, m, q : Moves(v, p, m, q)
        /\ \E visit : checks' = [checks EXCEPT ![v] = @ \ {visit}]
        /\ UNCHANGED <<profile, visits, historyVars>>
    BY <1>7, AnswerCheckDoes
  <2> QED BY <2>1, MovesQuiet DEF SameScreen, historyVars, TypeOK, ScreensOK
<1>8. CASE AnswerQuery(v) \/ AnswerFromCache(v)
  <2>1. /\ \E p, m, q : Moves(v, p, m, q)
        /\ UNCHANGED <<screenVars, want, torn>>
        /\ (UNCHANGED short \/ short' = [short EXCEPT ![v] = TRUE])
    <3>1. CASE v = Artist
      BY <1>8, <3>1, ArtistAnswerDoes
    <3>2. CASE v # Artist
      BY <1>8, <3>2, AnswerDoes DEF Readers
    <3> QED BY <3>1, <3>2
  <2>2. short'[u] = short[u]
    BY <2>1 DEF TypeOK, HistoryOK
  <2> QED BY <2>1, <2>2, MovesQuiet DEF SameScreen, screenVars
<1>9. CASE Transmit(v) /\ UNCHANGED fansVars
  <2> DEFINE w == pending[v][sent[v] + 1]
  <2>1. w \in Write(v) /\ UNCHANGED <<pending, main>> /\ sent' = [sent EXCEPT ![v] = @ + 1]
        /\ \A d \in Docs : d # w.doc => db'[d] = db[d]
    BY <1>9, TransmitDoes
  <2>2. w.doc # Star(u) /\ w.doc # Fan(u)
    <3> HIDE DEF w
    <3>1. CASE v = Artist
      BY <2>1, <3>1, DocsApart DEF Write, WriteOf
    <3>2. CASE v # Artist
      BY <2>1, <3>2, DocsApart DEF Write, WriteOf
    <3> QED BY <3>1, <3>2
  <2>3. Star(u) \in Docs /\ Fan(u) \in Docs
    BY DEF Docs
  <2>4. db'[Star(u)] = db[Star(u)] /\ db'[Fan(u)] = db[Fan(u)]
    BY <2>1, <2>2, <2>3
  <2> QED
    BY <1>9, <2>1, <2>4 DEF Quiet, SameScreen, TypeOK, QueuesOK, fansVars, screenVars, historyVars
<1>10. CASE Acknowledge(v) /\ UNCHANGED fansVars
  <2>1. /\ pending' = [pending EXCEPT ![v] = Tail(@)] /\ sent' = [sent EXCEPT ![v] = @ - 1]
        /\ UNCHANGED main \/ \E h : main' = [main EXCEPT ![v] = Append(@, h)]
        /\ UNCHANGED db
    BY <1>10, AcknowledgeDoes
  <2> QED
    BY <1>10, <2>1 DEF Quiet, SameScreen, TypeOK, QueuesOK, fansVars, screenVars, historyVars
<1>11. CASE Restart(v)
  <2>1. /\ pending'[u] = pending[u] /\ main'[u] = main[u] /\ queries'[u] = queries[u]
        /\ sent'[u] = sent[u] /\ OthersKept(v) /\ UNCHANGED db
    BY <1>11, RestartDoes
  <2> QED BY <2>1 DEF Quiet, SameScreen, OthersKept
<1> QED
  BY <1>1, <1>2, <1>3, <1>4, <1>5, <1>6, <1>7, <1>8, <1>9, <1>10, <1>11 DEF Acts

\* So is every step that moves no queue.
LEMMA RestQuiet ==
    ASSUME TypeOK, NEW u \in Readers, Upload \/ UNCHANGED vars \/ \E v \in User : Others(v)
    PROVE  Quiet(u) /\ (SameScreen(u) \/ OpenProfile(u))
<1>0. u \in User /\ u # Artist
  BY DEF Readers
<1>1. CASE Upload
  <2>1. /\ \E p, m, q : Moves(Artist, p, m, q)
        /\ UNCHANGED <<screenVars, want, torn, short>>
    BY <1>1, UploadDoes
  <2> QED BY <1>0, <2>1, MovesQuiet, ArtistAssumption DEF SameScreen, screenVars
<1>2. CASE UNCHANGED vars
  BY <1>2 DEF vars, firestoreVars, fansVars, screenVars, historyVars, Quiet, SameScreen
<1>3. ASSUME NEW v \in User, OpenProfile(v)
      PROVE  Quiet(u) /\ (SameScreen(u) \/ OpenProfile(u))
  BY <1>0, <1>3 DEF OpenProfile, firestoreVars, historyVars, Quiet, SameScreen, TypeOK, ScreensOK
<1>4. ASSUME NEW v \in User, CloseProfile(v) \/ CheckFails(v)
      PROVE  Quiet(u) /\ SameScreen(u)
  BY <1>0, <1>4 DEF CloseProfile, CheckFails, firestoreVars, historyVars, Quiet, SameScreen,
                    TypeOK, ScreensOK
<1>5. ASSUME NEW v \in User, Reconnect(v) /\ UNCHANGED fansVars
      PROVE  Quiet(u) /\ SameScreen(u)
  BY <1>0, <1>5 DEF Reconnect, Quiet, SameScreen, TypeOK, QueuesOK, fansVars, screenVars,
                    historyVars
<1> QED BY <1>1, <1>2, <1>3, <1>4, <1>5 DEF Others

\* All steps, seen from u.
LEMMA SeenFrom ==
    ASSUME TypeOK, NEW u \in Readers, [Next]_vars
    PROVE  \/ Quiet(u) /\ (SameScreen(u) \/ OpenProfile(u))
           \/ Acts(u)
BY NextActs, OthersQuiet, RestQuiet
-----------------------------------------------------------------------------
(* What a step keeps                                                       *)

\* What was delivered of document d still is, and u's queue still comes to
\* the same.
DocKept(u, d) ==
    Reached(db, pending[u], sent[u], d) =>
        /\ Reached(db', pending'[u], sent'[u], d)
        /\ \A b \in BOOLEAN : Ends(db, pending[u], d, b) => Ends(db', pending'[u], d, b)

\* The handlers of kind T on their way still mean what they meant.
Kept(u, T) ==
    /\ \A Y : \A b \in BOOLEAN :
          Leads(Thens(pending[u]), main[u], T, Y, b)
              => Leads(Thens(pending'[u]), main'[u], T, Y, b)
    /\ Came(Thens(pending'[u]), main'[u], T) <=> Came(Thens(pending[u]), main[u], T)

\* A quiet step keeps both.
LEMMA QuietKept ==
    ASSUME TypeOK, NEW u \in Readers, Quiet(u)
    PROVE  DocKept(u, Star(u)) /\ DocKept(u, Fan(u)) /\ \A T : Kept(u, T)
<1>0. u \in User /\ pending[u] \in Seq(Write(u)) /\ Len(pending[u]) \in Nat /\ sent[u] \in Nat
  BY DEF Readers, TypeOK, QueuesOK
<1>1. ASSUME NEW d, db'[d] = db[d] PROVE DocKept(u, d)
  <2>1. ASSUME Reached(db, pending[u], sent[u], d)
        PROVE  Reached(db', pending'[u], sent'[u], d)
    <3>1. CASE sent'[u] = 0
      BY <3>1 DEF Reached
    <3>2. CASE sent'[u] = sent[u]
      BY <1>0, <1>1, <2>1, <3>2 DEF Quiet, Reached
    <3> QED BY <3>1, <3>2 DEF Quiet
  <2>2. ASSUME NEW b \in BOOLEAN, Ends(db, pending[u], d, b)
        PROVE  Ends(db', pending'[u], d, b)
    BY <1>1, <2>2 DEF Quiet, Ends
  <2> QED BY <2>1, <2>2 DEF DocKept
<1>2. \A T : Kept(u, T)
  BY DEF Quiet, Kept
<1> QED BY <1>1, <1>2 DEF Quiet

\* Writes of other documents keep the document ...
LEMMA MovesDocs ==
    ASSUME TypeOK, NEW u \in User, NEW p \in Seq(Write(u)), NEW m, NEW q, NEW d,
           Moves(u, p, m, q), Longer(pending[u], p, {}),
           \A i \in Len(pending[u])+1..Len(p) : p[i].doc # d
    PROVE  DocKept(u, d)
<1>1. sent[u] \in Nat /\ sent[u] <= Len(pending[u]) /\ pending'[u] = p
      /\ db' = db /\ sent' = sent
  BY DEF Moves, TypeOK, QueuesOK
<1>2. Reached(db, pending[u], sent[u], d) => Reached(db, p, sent[u], d)
  BY <1>1, ReachedLonger
<1>3. ASSUME NEW b \in BOOLEAN, Ends(db, pending[u], d, b) PROVE Ends(db, p, d, b)
  BY <1>3, EndsBatch
<1> QED BY <1>1, <1>2, <1>3 DEF DocKept

\* ... and adding and running handlers of other kinds keeps the kind.
LEMMA MovesKept ==
    ASSUME TypeOK, NEW u \in User, NEW p \in Seq(Write(u)), NEW m, NEW q, NEW T,
           Moves(u, p, m, q), Longer(pending[u], p, {}),
           \A i \in Len(pending[u])+1..Len(p) : p[i].then \notin T,
           \/ Longer(main[u], m, T)
           \/ \E e : e \notin T /\ Popped(main[u], m, e)
    PROVE  Kept(u, T)
<1>1. pending'[u] = p /\ main'[u] = m /\ pending[u] \in Seq(Write(u))
  BY DEF Moves, TypeOK, QueuesOK
<1>2. Longer(Thens(pending[u]), Thens(p), T)
  BY <1>1, ThensFollow
<1>3. CASE Longer(main[u], m, T)
  <2>1. ASSUME NEW Y, NEW b \in BOOLEAN
        PROVE  /\ Leads(Thens(pending[u]), main[u], T, Y, b) => Leads(Thens(p), m, T, Y, b)
               /\ Came(Thens(p), m, T) <=> Came(Thens(pending[u]), main[u], T)
    BY <1>2, <1>3, LeadsLonger
  <2> QED BY <1>1, <2>1 DEF Kept
<1>4. ASSUME NEW e, e \notin T, Popped(main[u], m, e) PROVE Kept(u, T)
  <2>1. ASSUME NEW Y, NEW b \in BOOLEAN
        PROVE  /\ Leads(Thens(pending[u]), main[u], T, Y, b) => Leads(Thens(p), m, T, Y, b)
               /\ Came(Thens(p), m, T) <=> Came(Thens(pending[u]), main[u], T)
    BY <1>2, <1>4, LeadsPop
  <2> QED BY <1>1, <2>1 DEF Kept
<1> QED BY <1>3, <1>4

\* A delivery keeps every document's promise, and touches no handler.
LEMMA TransmitKept ==
    ASSUME TypeOK, NEW u \in User, Transmit(u), UNCHANGED fansVars
    PROVE  (\A d \in Docs : DocKept(u, d)) /\ \A T : Kept(u, T)
<1> DEFINE w == pending[u][sent[u] + 1]
<1>1. /\ w \in Write(u) /\ sent[u] \in Nat /\ sent[u] < Len(pending[u])
      /\ sent' = [sent EXCEPT ![u] = @ + 1] /\ UNCHANGED <<pending, main>>
      /\ \A d \in Docs : /\ d # w.doc => db'[d] = db[d]
                         /\ d = w.doc => (db'[d] # NoDoc <=> w.op = "set")
  BY TransmitDoes
<1>2. sent'[u] = sent[u] + 1 /\ Len(pending[u]) \in Nat
  BY <1>1 DEF TypeOK, QueuesOK
<1>3. ASSUME NEW d \in Docs PROVE DocKept(u, d)
  <2>1. /\ pending[u][sent[u] + 1].doc # d => db'[d] = db[d]
        /\ pending[u][sent[u] + 1].doc = d => (db'[d] # NoDoc <=> pending[u][sent[u] + 1].op = "set")
    BY <1>1
  <2>2. sent[u] \in Nat /\ Len(pending[u]) \in Nat /\ sent[u] < Len(pending[u])
    BY <1>1, <1>2
  <2>3. Reached(db, pending[u], sent[u], d) => Reached(db', pending[u], sent[u] + 1, d)
    BY <2>1, <2>2, TransmitStep
  <2>4. \A b \in BOOLEAN : Ends(db, pending[u], d, b) => Ends(db', pending[u], d, b)
    BY <2>1, <2>2 DEF Ends
  <2> QED BY <1>1, <1>2, <2>3, <2>4 DEF DocKept
<1> QED BY <1>1, <1>3 DEF Kept

\* An acknowledgement keeps both too.
LEMMA AcknowledgeKept ==
    ASSUME TypeOK, NEW u \in User, Acknowledge(u), UNCHANGED fansVars
    PROVE  (\A d : DocKept(u, d)) /\ \A T : Nothing \notin T => Kept(u, T)
<1> DEFINE w == Head(pending[u])
           r == Tail(pending[u])
<1>1. /\ w \in Write(u) /\ sent[u] \in Nat /\ sent[u] > 0 /\ sent[u] <= Len(pending[u])
      /\ Popped(pending[u], r, w) /\ r \in Seq(Write(u))
      /\ pending' = [pending EXCEPT ![u] = r]
      /\ sent' = [sent EXCEPT ![u] = @ - 1]
      /\ \/ w.then = Nothing /\ UNCHANGED main
         \/ /\ w.then \in TapHandler /\ u \in Readers
            /\ main' = [main EXCEPT ![u] = Append(@, w.then)]
      /\ UNCHANGED db
  BY AcknowledgeDoes
<1>2. /\ pending'[u] = r /\ sent'[u] = sent[u] - 1
      /\ pending[u] \in Seq(Write(u)) /\ main[u] \in Seq(Handler(u)) /\ DOMAIN main = User
  BY <1>1 DEF TypeOK, QueuesOK
<1> HIDE DEF w, r
<1>3. ASSUME NEW d PROVE DocKept(u, d)
  <2>1. ASSUME NEW b \in BOOLEAN, Reached(db, pending[u], sent[u], d)
        PROVE  /\ Reached(db, r, sent[u] - 1, d)
               /\ Ends(db, pending[u], d, b) => Ends(db, r, d, b)
    <3>1. /\ Len(pending[u]) \in Nat /\ Len(r) = Len(pending[u]) - 1
          /\ \A i \in 1..Len(r) : r[i] = pending[u][i + 1]
      BY <1>1 DEF Popped
    <3> QED BY <1>1, <2>1, <3>1, AcknowledgeStep
  <2> QED BY <1>1, <1>2, <2>1 DEF DocKept
<1>4. Popped(Thens(pending[u]), Thens(r), w.then)
  BY <1>1, <1>2, ThensFollow
<1>5. ASSUME NEW T, Nothing \notin T PROVE Kept(u, T)
  <2>1. CASE w.then = Nothing /\ UNCHANGED main
    <3>1. ASSUME NEW Y, NEW b \in BOOLEAN
          PROVE  /\ Leads(Thens(pending[u]), main[u], T, Y, b) => Leads(Thens(r), main[u], T, Y, b)
                 /\ Came(Thens(r), main[u], T) <=> Came(Thens(pending[u]), main[u], T)
      BY <1>4, <1>5, <2>1, LeadsDrop
    <3> QED BY <1>2, <2>1, <3>1 DEF Kept
  <2>2. CASE /\ w.then \in TapHandler /\ u \in Readers
             /\ main' = [main EXCEPT ![u] = Append(@, w.then)]
    <3>1. w.then \in Handler(u)
      BY <2>2 DEF Handler, Readers
    <3>2. Pushed(main[u], main'[u], w.then)
      BY <1>2, <2>2, <3>1, AppendPushes
    <3>3. ASSUME NEW Y, NEW b \in BOOLEAN
          PROVE  /\ Leads(Thens(pending[u]), main[u], T, Y, b) => Leads(Thens(r), main'[u], T, Y, b)
                 /\ Came(Thens(r), main'[u], T) <=> Came(Thens(pending[u]), main[u], T)
      BY <1>4, <3>2, LeadsMove
    <3> QED BY <1>2, <3>3 DEF Kept
  <2> QED BY <1>1, <2>1, <2>2
<1> QED BY <1>3, <1>5
-----------------------------------------------------------------------------
(* The two places of a fan                                                 *)

\* The list of whom u is a fan of will say what u's last tap asked for.
StarInv(u) ==
    /\ Reached(db, pending[u], sent[u], Star(u))
    /\ Ends(db, pending[u], Star(u), want[u])

\* The last handler of the star on its way, of the visits in V, means what
\* u's last tap asked for.
StarLeads(u, V) == Leads(Thens(pending[u]), main[u], Stars(V), Yes, want[u])
StarCame(u, V) == Came(Thens(pending[u]), main[u], Stars(V))

\* Once no such handler is on its way the artist's list of fans will say it.
FanInv(u) ==
    /\ Reached(db, pending[u], sent[u], Fan(u))
    /\ torn[u] \/ /\ StarLeads(u, Visits)
                  /\ StarCame(u, Visits) => Ends(db, pending[u], Fan(u), want[u])

PlacesInv == \A u \in Readers : StarInv(u) /\ FanInv(u)

\* It holds when nothing was done.
LEMMA InitPlaces == Init => PlacesInv
<1> SUFFICES ASSUME Init, NEW u \in Readers PROVE StarInv(u) /\ FanInv(u)
  BY DEF PlacesInv
<1>1. /\ pending[u] = << >> /\ main[u] = << >> /\ sent[u] = 0 /\ want[u] = FALSE
      /\ db[Star(u)] = NoDoc /\ db[Fan(u)] = NoDoc
  BY DEF Init, FirestoreInit, Readers, Docs
<1>2. \A d : Reached(db, pending[u], sent[u], d)
  BY <1>1 DEF Reached
<1>3. Ends(db, pending[u], Star(u), want[u]) /\ Ends(db, pending[u], Fan(u), want[u])
  BY <1>1 DEF Ends
<1>4. StarLeads(u, Visits)
  BY <1>1 DEF StarLeads, Leads, LastIn, Thens
<1> QED BY <1>2, <1>3, <1>4 DEF StarInv, FanInv

\* A step that keeps the documents and the handlers keeps it.
LEMMA KeptPlaces ==
    ASSUME TypeOK, NEW u \in Readers, StarInv(u), FanInv(u),
           want'[u] = want[u], torn'[u] = torn[u],
           DocKept(u, Star(u)), DocKept(u, Fan(u)), Kept(u, Stars(Visits))
    PROVE  (StarInv(u) /\ FanInv(u))'
<1>1. want[u] \in BOOLEAN
  BY DEF TypeOK, HistoryOK, Readers
<1>2. StarInv(u)'
  BY <1>1 DEF StarInv, DocKept
<1>3. FanInv(u)'
  BY <1>1 DEF FanInv, StarLeads, StarCame, DocKept, Kept
<1> QED BY <1>2, <1>3

\* A tap keeps it: the star's write and its handler mean the tap.
LEMMA TapPlaces ==
    ASSUME TypeOK, NEW u \in Readers, StarInv(u), FanInv(u), TapFan(u) \/ TapUnfan(u)
    PROVE  (StarInv(u) /\ FanInv(u))'
<1>0. /\ u \in User /\ pending[u] \in Seq(Write(u)) /\ sent[u] \in Nat
      /\ sent[u] <= Len(pending[u])
  BY DEF Readers, TypeOK, QueuesOK
<1>1. PICK w \in Write(u) :
         /\ w.doc = Star(u) /\ w.then \in Stars({visits[u]})
         /\ w.op = "set" <=> want'[u]
         /\ w.then \in Yes <=> want'[u]
         /\ Moves(u, Append(pending[u], w), main[u], queries[u])
  BY <1>0, TapDoes
<1> DEFINE p == Append(pending[u], w)
<1>2. Pushed(pending[u], p, w) /\ p \in Seq(Write(u)) /\ Grows(pending[u], p) /\ p[Len(p)] = w
  BY <1>0, AppendPushes DEF Pushed
<1>3. /\ pending'[u] = p /\ main'[u] = main[u] /\ db' = db /\ sent' = sent
      /\ want'[u] \in BOOLEAN
  BY <1>0, <1>1, TapDoes DEF Moves, TypeOK, ScreensOK, Profile
<1> HIDE DEF p
<1>4. Longer(pending[u], p, {})
  BY <1>2, PushedLonger
<1>5. Reached(db, p, sent[u], Star(u)) /\ Reached(db, p, sent[u], Fan(u))
  BY <1>0, <1>4, ReachedLonger DEF StarInv, FanInv
<1>6. Ends(db, p, Star(u), w.op = "set")
  BY <1>1, <1>2, EndsGrows
<1>7. StarInv(u)'
  <2>1. Ends(db, p, Star(u), want'[u])
    BY <1>1, <1>6 DEF Ends
  <2> QED BY <1>3, <1>5, <2>1 DEF StarInv
<1>8. Leads(Thens(p), main[u], Stars(Visits), Yes, want'[u])
      /\ ~Came(Thens(p), main[u], Stars(Visits))
  <2>1. w.then \in Stars(Visits)
    BY <1>1, Kinds
  <2>2. Pushed(Thens(pending[u]), Thens(p), w.then)
    BY <1>0, <1>2, ThensFollow
  <2>3. Leads(Thens(p), main[u], Stars(Visits), Yes, w.then \in Yes)
        /\ ~Came(Thens(p), main[u], Stars(Visits))
    BY <2>1, <2>2, LeadsPush
  <2> QED BY <1>1, <2>3 DEF Leads, LastIn
<1>9. FanInv(u)'
  BY <1>3, <1>5, <1>8 DEF FanInv, StarLeads, StarCame
<1> QED BY <1>7, <1>9

\* The star's handler keeps it: its write does to the fan what it means.
LEMMA StarPlaces ==
    ASSUME TypeOK, NEW u \in Readers, StarInv(u), FanInv(u), StarStored(u) \/ StarDeleted(u)
    PROVE  (StarInv(u) /\ FanInv(u))'
<1>0. /\ u \in User /\ pending[u] \in Seq(Write(u)) /\ sent[u] \in Nat
      /\ sent[u] <= Len(pending[u]) /\ main[u] \in Seq(Handler(u)) /\ want[u] \in BOOLEAN
  BY DEF Readers, TypeOK, QueuesOK, HistoryOK
<1> DEFINE e == Head(main[u])
           m == Tail(main[u])
<1>1. PICK w \in Write(u) :
         /\ w.doc = Fan(u) /\ w.then \in FansOf({e.visit})
         /\ w.op = "set" <=> e \in Yes
         /\ Moves(u, Append(pending[u], w), m, queries[u])
  BY <1>0, StarDoes
<1>2. e \in Stars(Visits) /\ UNCHANGED fansVars /\ Popped(main[u], m, e)
  BY <1>0, StarDoes, TailPops
<1> DEFINE p == Append(pending[u], w)
<1>3. Pushed(pending[u], p, w) /\ p \in Seq(Write(u)) /\ Grows(pending[u], p) /\ p[Len(p)] = w
  BY <1>0, AppendPushes DEF Pushed
<1>4. /\ pending'[u] = p /\ main'[u] = m /\ db' = db /\ sent' = sent
      /\ want'[u] = want[u] /\ torn'[u] = torn[u]
  BY <1>1, <1>2 DEF Moves, fansVars, historyVars
<1> HIDE DEF p, e, m
<1>5. Longer(pending[u], p, {})
  BY <1>3, PushedLonger
<1>6. Reached(db, p, sent[u], Star(u)) /\ Reached(db, p, sent[u], Fan(u))
  BY <1>0, <1>5, ReachedLonger DEF StarInv, FanInv
<1>7. Ends(db, p, Star(u), want[u])
  <2>1. w.doc # Star(u)
    BY <1>1, DocsApart
  <2> QED BY <1>0, <1>3, <2>1, EndsGrows DEF StarInv
<1>8. Ends(db, p, Fan(u), w.op = "set")
  BY <1>1, <1>3, EndsGrows
<1>9. ASSUME StarLeads(u, Visits)
      PROVE  /\ Leads(Thens(p), m, Stars(Visits), Yes, want[u])
             /\ Came(Thens(p), m, Stars(Visits)) => (e \in Yes <=> want[u])
  <2>1. w.then \notin Stars(Visits)
    BY <1>1, Kinds DEF FansOf, Stars
  <2>2. Longer(Thens(pending[u]), Thens(p), Stars(Visits))
    BY <1>0, <1>3, <2>1, ThensFollow, PushedLonger
  <2> QED BY <1>0, <1>2, <1>9, <2>2, LeadsPop DEF StarLeads
<1>10. ASSUME e \in Yes <=> want[u] PROVE Ends(db, p, Fan(u), want[u])
  BY <1>1, <1>8, <1>10 DEF Ends
<1>11. StarInv(u)' /\ FanInv(u)'
  BY <1>4, <1>6, <1>7, <1>9, <1>10 DEF StarInv, FanInv, StarLeads, StarCame
<1> QED BY <1>11

\* A restart keeps it: either it drops no handler of the star, or it is torn.
LEMMA RestartPlaces ==
    ASSUME TypeOK, NEW u \in Readers, StarInv(u), FanInv(u), Restart(u)
    PROVE  (StarInv(u) /\ FanInv(u))'
<1> DEFINE q == pending[u]
           r == pending'[u]
<1>0. u \in User /\ q \in Seq(Write(u)) /\ want[u] \in BOOLEAN
  BY DEF Readers, TypeOK, QueuesOK, HistoryOK
<1>1. /\ r \in Seq(Write(u)) /\ Len(r) = Len(q) /\ Len(q) \in Nat
      /\ \A i \in 1..Len(q) :
            r[i].doc = q[i].doc /\ r[i].op = q[i].op /\ r[i].then = Nothing
      /\ main'[u] = << >> /\ sent'[u] = 0 /\ db' = db /\ want' = want
      /\ torn'[u] = \/ torn[u]
                    \/ \E i \in 1..Len(q) : Mirrors(q[i].then)
                    \/ \E i \in 1..Len(main[u]) : Mirrors(main[u][i])
  BY <1>0, RestartDoes
<1>2. \A d : Reached(db, r, 0, d)
  BY DEF Reached
<1>3. ASSUME NEW d, Ends(db, q, d, want[u]) PROVE Ends(db, r, d, want[u])
  <2> HIDE DEF q, r
  <2>1. want[u] \in BOOLEAN /\ SameWrites(q, r)
    BY <1>0, <1>1 DEF SameWrites
  <2> DEFINE b == want[u]
  <2> HIDE DEF b
  <2>2. b \in BOOLEAN /\ Ends(db, q, d, b)
    BY <1>3, <2>1 DEF b
  <2>3. Ends(db, r, d, b)
    BY <2>1, <2>2, EndsSameWrites
  <2> QED BY <2>3 DEF b
<1>4. ASSUME ~torn'[u]
      PROVE  /\ ~torn[u] /\ StarCame(u, Visits)
             /\ Came(Thens(r), << >>, Stars(Visits))
             /\ Leads(Thens(r), << >>, Stars(Visits), Yes, want[u])
  <2>1. \A h \in Stars(Visits) : Mirrors(h)
    BY Kinds DEF Stars, Mirrors
  <2>2. /\ Len(Thens(q)) = Len(q) /\ \A i \in 1..Len(q) : Thens(q)[i] = q[i].then
        /\ Len(Thens(r)) = Len(r) /\ \A i \in 1..Len(r) : Thens(r)[i] = r[i].then
    BY <1>0, <1>1, ThensFacts
  <2>3. ~torn[u] /\ StarCame(u, Visits)
    BY <1>1, <1>4, <2>1, <2>2 DEF StarCame, Came, NoneIn
  <2>4. Came(Thens(r), << >>, Stars(Visits))
    BY <1>1, <2>2, Kinds DEF Came, NoneIn
  <2> QED BY <2>3, <2>4, CameLess
<1> HIDE DEF q
<1>5. StarInv(u)'
  BY <1>1, <1>2, <1>3 DEF StarInv, q
<1>6. FanInv(u)'
  BY <1>1, <1>2, <1>3, <1>4 DEF FanInv, StarLeads, StarCame, q
<1> QED BY <1>5, <1>6

\* Every other step of u's keeps the handlers of the star, and both documents.
LEMMA ActsKeep ==
    ASSUME TypeOK, NEW u \in Readers, Acts(u),
           ~TapFan(u), ~TapUnfan(u), ~StarStored(u), ~StarDeleted(u), ~Restart(u)
    PROVE  /\ DocKept(u, Star(u)) /\ DocKept(u, Fan(u)) /\ \A V : Kept(u, Stars(V))
           /\ want'[u] = want[u] /\ torn'[u] = torn[u]
<1>0. /\ u \in User /\ u # Artist /\ pending[u] \in Seq(Write(u)) /\ Len(pending[u]) \in Nat
      /\ main[u] \in Seq(Handler(u)) /\ Len(main[u]) \in Nat
      /\ Longer(pending[u], pending[u], {}) /\ \A T : Longer(main[u], main[u], T)
      /\ \A i \in Len(pending[u])+1..Len(pending[u]) : FALSE
  <2>1. /\ u \in User /\ u # Artist /\ pending[u] \in Seq(Write(u)) /\ Len(pending[u]) \in Nat
        /\ main[u] \in Seq(Handler(u)) /\ Len(main[u]) \in Nat
    BY DEF Readers, TypeOK, QueuesOK
  <2> QED BY <2>1, SameLonger
<1> DEFINE e == Head(main[u])
<1>1. CASE Fanned(u) \/ Unfanned(u)
  <2>1. main[u] # << >> /\ e \in FansOf(Visits) /\ UNCHANGED historyVars
    BY <1>0, <1>1, FanDoes
  <2>2. PICK p \in Seq(Write(u)), q \in AskCartoons :
                 /\ Longer(pending[u], p, {})
                 /\ \A i \in Len(pending[u])+1..Len(p) :
                       p[i].then = Nothing /\ \E tap : p[i].doc = Notice(u, tap)
                 /\ Moves(u, p, Tail(main[u]), Append(queries[u], q))
    BY <1>0, <1>1, FanDoes
  <2>3. Popped(main[u], Tail(main[u]), e) /\ \A V : e \notin Stars(V) /\ Nothing \notin Stars(V)
    BY <1>0, <2>1, TailPops, Kinds DEF FansOf, Stars
  <2>4. \A i \in Len(pending[u])+1..Len(p) : p[i].doc # Star(u) /\ p[i].doc # Fan(u)
    BY <2>2, DocsApart
  <2>5. DocKept(u, Star(u)) /\ DocKept(u, Fan(u))
    BY <1>0, <2>2, <2>4, MovesDocs
  <2> HIDE DEF e
  <2>6. \A V : Kept(u, Stars(V))
    BY <1>0, <2>2, <2>3, MovesKept
  <2> QED BY <2>1, <2>5, <2>6 DEF historyVars
<1>2. CASE Filled(u)
  <2>1. main[u] # << >> /\ e \in FillHandler /\ UNCHANGED fansVars
    BY <1>0, <1>2, FillDoes
  <2>2. PICK p \in Seq(Write(u)) :
                 /\ Longer(pending[u], p, {})
                 /\ \A i \in Len(pending[u])+1..Len(p) :
                       p[i].then = Nothing /\ \E c : p[i].doc = Feed(u, c)
                 /\ Moves(u, p, Tail(main[u]), queries[u])
    BY <1>0, <1>2, FillDoes
  <2>3. Popped(main[u], Tail(main[u]), e) /\ \A V : e \notin Stars(V) /\ Nothing \notin Stars(V)
    BY <1>0, <2>1, TailPops, Kinds
  <2>4. \A i \in Len(pending[u])+1..Len(p) : p[i].doc # Star(u) /\ p[i].doc # Fan(u)
    BY <2>2, DocsApart
  <2>5. DocKept(u, Star(u)) /\ DocKept(u, Fan(u))
    BY <1>0, <2>2, <2>4, MovesDocs
  <2> HIDE DEF e
  <2>6. \A V : Kept(u, Stars(V))
    BY <1>0, <2>2, <2>3, MovesKept
  <2> QED BY <2>1, <2>5, <2>6 DEF fansVars, historyVars
<1>3. CASE Checked(u)
  <2>1. /\ main[u] # << >> /\ e \in CheckHandler /\ UNCHANGED historyVars
        /\ Moves(u, pending[u], Tail(main[u]), queries[u])
    BY <1>0, <1>3, CheckedDoes
  <2>2. Popped(main[u], Tail(main[u]), e) /\ \A V : e \notin Stars(V)
    BY <1>0, <2>1, TailPops, Kinds
  <2>3. DocKept(u, Star(u)) /\ DocKept(u, Fan(u))
    BY <1>0, <2>1, MovesDocs
  <2> HIDE DEF e
  <2>4. \A V : Kept(u, Stars(V))
    BY <1>0, <2>1, <2>2, MovesKept
  <2> QED BY <2>1, <2>3, <2>4 DEF historyVars
<1>4. CASE AnswerCheck(u) \/ AnswerQuery(u) \/ AnswerFromCache(u)
  <2>1. PICK h, q :
           /\ h \in Handler(u)
           /\ Moves(u, pending[u], Append(main[u], h), q) /\ \A V : h \notin Stars(V)
           /\ UNCHANGED <<want, torn>>
    <3>1. CASE AnswerCheck(u)
      <4>1. PICK h \in CheckHandler : Moves(u, pending[u], Append(main[u], h), queries[u])
        BY <1>0, <3>1, AnswerCheckDoes
      <4>2. UNCHANGED <<want, torn>>
        BY <1>0, <3>1, AnswerCheckDoes DEF historyVars
      <4>3. \A V : h \notin Stars(V)
        BY Kinds
      <4> QED BY <1>0, <4>1, <4>2, <4>3 DEF Handler
    <3>2. CASE AnswerQuery(u) \/ AnswerFromCache(u)
      <4>1. PICK h \in FillHandler : Moves(u, pending[u], Append(main[u], h), Tail(queries[u]))
        BY <3>2, AnswerDoes
      <4>2. UNCHANGED <<want, torn>>
        BY <3>2, AnswerDoes
      <4>3. \A V : h \notin Stars(V)
        BY Kinds
      <4> QED BY <1>0, <4>1, <4>2, <4>3 DEF Handler
    <3> QED BY <1>4, <3>1, <3>2
  <2>2. \A V : Longer(main[u], Append(main[u], h), Stars(V))
    <3>1. Pushed(main[u], Append(main[u], h), h)
      BY <1>0, <2>1, AppendPushes
    <3> QED BY <2>1, <3>1, PushedLonger
  <2>3. DocKept(u, Star(u)) /\ DocKept(u, Fan(u))
    BY <1>0, <2>1, MovesDocs
  <2>4. \A V : Kept(u, Stars(V))
    BY <1>0, <2>1, <2>2, MovesKept
  <2> QED BY <2>1, <2>3, <2>4
<1>5. CASE Transmit(u) /\ UNCHANGED fansVars
  <2>1. Star(u) \in Docs /\ Fan(u) \in Docs
    BY DEF Docs
  <2> QED BY <1>0, <1>5, <2>1, TransmitKept DEF fansVars, historyVars
<1>6. CASE Acknowledge(u) /\ UNCHANGED fansVars
  <2>1. \A V : Nothing \notin Stars(V)
    BY Kinds
  <2> QED BY <1>0, <1>6, <2>1, AcknowledgeKept DEF fansVars, historyVars
<1>7. ~Spread(u)
  BY <1>0, SpreadDoes
<1> QED BY <1>1, <1>2, <1>3, <1>4, <1>5, <1>6, <1>7 DEF Acts

\* Every step keeps it.
LEMMA StepPlaces == ASSUME TypeOK, PlacesInv, [Next]_vars PROVE PlacesInv'
<1> SUFFICES ASSUME NEW u \in Readers PROVE (StarInv(u) /\ FanInv(u))'
  BY DEF PlacesInv
<1>0. StarInv(u) /\ FanInv(u)
  BY DEF PlacesInv
<1>1. CASE Quiet(u)
  BY <1>0, <1>1, QuietKept, KeptPlaces DEF Quiet
<1>2. CASE TapFan(u) \/ TapUnfan(u)
  BY <1>0, <1>2, TapPlaces
<1>3. CASE StarStored(u) \/ StarDeleted(u)
  BY <1>0, <1>3, StarPlaces
<1>4. CASE Restart(u)
  BY <1>0, <1>4, RestartPlaces
<1>5. CASE /\ Acts(u)
           /\ ~TapFan(u) /\ ~TapUnfan(u) /\ ~StarStored(u) /\ ~StarDeleted(u) /\ ~Restart(u)
  <2>1. /\ DocKept(u, Star(u)) /\ DocKept(u, Fan(u)) /\ Kept(u, Stars(Visits))
        /\ want'[u] = want[u] /\ torn'[u] = torn[u]
    BY <1>5, ActsKeep
  <2> QED BY <1>0, <2>1, KeptPlaces
<1> QED BY <1>1, <1>2, <1>3, <1>4, <1>5, SeenFrom

\* A settled device has nothing on its way.
LEMMA SettledCame ==
    ASSUME NEW u, Settled(u)
    PROVE  \A T : Came(Thens(pending[u]), main[u], T)
<1>1. Thens(pending[u]) = << >> /\ main[u] = << >>
  BY DEF Settled, Thens
<1> QED BY <1>1 DEF Came, NoneIn

\* The state is well typed; once the queue of writes has drained u's list of
\* stars says what u's last tap asked for, and once the device is settled the
\* artist's list of fans does, unless a restart dropped the handler that writes
\* it (PlacesAgree).
THEOREM PlacesCorrect == Spec => []PlacesAgree
<1>1. Init => TypeOK /\ PlacesInv
  BY InitType, InitPlaces
<1>2. TypeOK /\ PlacesInv /\ [Next]_vars => (TypeOK /\ PlacesInv)'
  BY StepType, StepPlaces
<1>3. PlacesInv => StarsAgree
  <2> SUFFICES ASSUME PlacesInv, NEW u \in Readers, pending[u] = << >>
               PROVE  Exists(Star(u)) <=> want[u]
    BY DEF StarsAgree
  <2>1. Ends(db, pending[u], Star(u), want[u])
    BY DEF PlacesInv, StarInv
  <2> QED BY <2>1 DEF Ends, Exists
<1>4. PlacesInv => FansAgree
  <2> SUFFICES ASSUME PlacesInv, NEW u \in Readers, Settled(u), ~torn[u]
               PROVE  Exists(Fan(u)) <=> want[u]
    BY DEF FansAgree
  <2>1. StarCame(u, Visits)
    BY SettledCame DEF StarCame
  <2>2. Ends(db, pending[u], Fan(u), want[u])
    BY <2>1 DEF PlacesInv, FanInv
  <2> QED BY <2>2 DEF Ends, Settled, Exists
<1>5. TypeOK /\ PlacesInv => PlacesAgree
  BY <1>3, <1>4 DEF PlacesAgree
<1> QED BY <1>1, <1>2, <1>5, PTL DEF Spec
-----------------------------------------------------------------------------
(* The header of an open profile                                           *)

\* Handlers of visits yet to come: there are none, and no such check either.
Late(n) == {h \in TapHandler \cup CheckHandler : h.visit > n}
VisitsInv(u) ==
    /\ Came(Thens(pending[u]), main[u], Late(visits[u]))
    /\ \A visit \in checks[u] : visit <= visits[u]

\* Of the visit that shows the profile: first the last handler of the star,
\* then the last that tells the header, then the header means the last tap.
HeaderInv(u) ==
    profile[u] # Closed =>
        /\ StarLeads(u, {visits[u]})
        /\ StarCame(u, {visits[u]}) =>
              /\ Leads(Thens(pending[u]), main[u], Told({visits[u]}), Yes, want[u])
              /\ Came(Thens(pending[u]), main[u], Told({visits[u]})) /\ profile[u].known
                    => profile[u].fan = want[u]

ShownInv == \A u \in Readers : VisitsInv(u) /\ HeaderInv(u)

\* It holds when nothing was done.
LEMMA InitShown == Init => ShownInv
<1> SUFFICES ASSUME Init, NEW u \in Readers PROVE VisitsInv(u) /\ HeaderInv(u)
  BY DEF ShownInv
<1>1. /\ pending[u] = << >> /\ main[u] = << >> /\ checks[u] = {} /\ profile[u] = Closed
  BY DEF Init, FirestoreInit, Readers
<1>2. Came(Thens(pending[u]), main[u], Late(visits[u]))
  BY <1>1 DEF Came, NoneIn, Thens
<1> QED BY <1>1, <1>2 DEF VisitsInv, HeaderInv

\* The kinds of handlers of some visits.
LEMMA VisitKinds ==
    ASSUME NEW n \in Nat
    PROVE  /\ \A V : Nothing \notin Told(V) /\ Nothing \notin Stars(V)
           /\ Nothing \notin Late(n) /\ \A h \in FillHandler : h \notin Late(n)
           /\ Stars({n + 1}) \subseteq Late(n) /\ Told({n + 1}) \subseteq Late(n)
           /\ Late(n + 1) \subseteq Late(n)
           /\ \A V : \A h \in Stars(V) : h \notin Told(V)
           /\ \A V : \A h \in FillHandler : h \notin Told(V) /\ h \notin Stars(V)
<1>1. Nothing \notin TapHandler /\ Nothing \notin CheckHandler
  BY AbsentAssumption
<1> QED
  BY <1>1, AbsentAssumption DEF Told, Late, Stars, FansOf, TapHandler, CheckHandler, FillHandler

\* A step that keeps the handlers and the screen keeps it.
LEMMA KeptShown ==
    ASSUME TypeOK, NEW u \in Readers, VisitsInv(u), HeaderInv(u), want'[u] = want[u],
           SameScreen(u), \A T : Nothing \notin T => Kept(u, T)
    PROVE  (VisitsInv(u) /\ HeaderInv(u))'
<1>0. want[u] \in BOOLEAN /\ visits[u] \in Nat
  BY FansBoundsAssumption DEF TypeOK, HistoryOK, ScreensOK, Readers
<1> DEFINE n == visits[u]
<1>1. Kept(u, Late(n)) /\ Kept(u, Stars({n})) /\ Kept(u, Told({n})) /\ visits'[u] = n
  BY <1>0, VisitKinds DEF SameScreen
<1>2. VisitsInv(u)'
  BY <1>1 DEF VisitsInv, Kept, SameScreen
<1>3. CASE profile'[u] = Closed
  BY <1>2, <1>3 DEF HeaderInv
<1>4. CASE profile'[u] = profile[u] /\ profile[u] # Closed
  <2>1. HeaderInv(u)'
    BY <1>0, <1>1, <1>4 DEF HeaderInv, StarLeads, StarCame, Kept
  <2> QED BY <1>2, <2>1
<1> QED BY <1>3, <1>4 DEF SameScreen

\* Opening the profile keeps it: nothing of the new visit is on its way.
LEMMA OpenShown ==
    ASSUME TypeOK, NEW u \in Readers, VisitsInv(u), OpenProfile(u)
    PROVE  (VisitsInv(u) /\ HeaderInv(u))'
<1> DEFINE n == visits[u]
<1>1. /\ visits'[u] = n + 1 /\ profile'[u] = NewProfile /\ n \in Nat
      /\ checks'[u] = checks[u] \cup {n + 1} /\ UNCHANGED <<pending, main>>
  BY FansBoundsAssumption DEF OpenProfile, firestoreVars, TypeOK, ScreensOK, Readers
<1>2. /\ Came(Thens(pending[u]), main[u], Late(n + 1))
      /\ Came(Thens(pending[u]), main[u], Told({n + 1}))
      /\ Leads(Thens(pending[u]), main[u], Told({n + 1}), Yes, want'[u])
      /\ Leads(Thens(pending[u]), main[u], Stars({n + 1}), Yes, want'[u])
  <2>1. Came(Thens(pending[u]), main[u], Late(n))
    BY DEF VisitsInv
  <2> HIDE DEF n
  <2> QED BY <1>1, <2>1, VisitKinds, CameLess
<1>3. VisitsInv(u)'
  <2>1. \A visit \in checks[u] : visit <= n
    BY DEF VisitsInv
  <2>2. checks[u] \subseteq Nat
    BY DEF TypeOK, ScreensOK, Readers
  <2>3. \A visit \in checks'[u] : visit <= n + 1
    BY <1>1, <2>1, <2>2
  <2> QED BY <1>1, <1>2, <2>3 DEF VisitsInv
<1>4. HeaderInv(u)'
  BY <1>1, <1>2 DEF HeaderInv, StarLeads, StarCame, NewProfile
<1> QED BY <1>3, <1>4

\* A tap keeps it: the last handler of the star is the tap's.
LEMMA TapShown ==
    ASSUME TypeOK, NEW u \in Readers, VisitsInv(u), TapFan(u) \/ TapUnfan(u)
    PROVE  (VisitsInv(u) /\ HeaderInv(u))'
<1> DEFINE n == visits[u]
<1>0. /\ u \in User /\ pending[u] \in Seq(Write(u)) /\ n \in Nat
      /\ main[u] \in Seq(Handler(u)) /\ Len(main[u]) \in Nat
  BY FansBoundsAssumption DEF Readers, TypeOK, QueuesOK, ScreensOK
<1>1. PICK w \in Write(u) :
         /\ w.then \in Stars({n})
         /\ w.then \in Yes <=> want'[u]
         /\ Moves(u, Append(pending[u], w), main[u], queries[u])
  BY <1>0, TapDoes
<1> DEFINE p == Append(pending[u], w)
<1>2. Pushed(pending[u], p, w) /\ p \in Seq(Write(u))
  BY <1>0, AppendPushes
<1>3. /\ pending'[u] = p /\ main'[u] = main[u] /\ want'[u] \in BOOLEAN
      /\ UNCHANGED screenVars
  BY <1>0, <1>1, TapDoes DEF Moves, TypeOK, ScreensOK, Profile
<1> HIDE DEF p, n
<1>4. Pushed(Thens(pending[u]), Thens(p), w.then)
  BY <1>0, <1>2, ThensFollow
<1>5. Leads(Thens(p), main[u], Stars({n}), Yes, want'[u]) /\ ~Came(Thens(p), main[u], Stars({n}))
  <2>1. /\ Leads(Thens(p), main[u], Stars({n}), Yes, w.then \in Yes)
        /\ ~Came(Thens(p), main[u], Stars({n}))
    BY <1>1, <1>4, LeadsPush
  <2> QED BY <1>1, <2>1 DEF Leads, LastIn
<1>6. Came(Thens(p), main[u], Late(n))
  <2>1. w.then \notin Late(n)
    BY <1>0, <1>1 DEF Stars, Late
  <2>2. Longer(Thens(pending[u]), Thens(p), Late(n)) /\ Longer(main[u], main[u], Late(n))
    BY <1>0, <1>4, <2>1, PushedLonger, SameLonger
  <2> QED BY <2>2, LeadsLonger DEF VisitsInv, n
<1> QED
  BY <1>3, <1>5, <1>6 DEF VisitsInv, HeaderInv, StarLeads, StarCame, n, screenVars

\* The star's handler keeps it: it hands on what it means, and its visit.
LEMMA StarShown ==
    ASSUME TypeOK, NEW u \in Readers, VisitsInv(u), HeaderInv(u), StarStored(u) \/ StarDeleted(u)
    PROVE  (VisitsInv(u) /\ HeaderInv(u))'
<1> DEFINE n == visits[u]
           e == Head(main[u])
           m == Tail(main[u])
<1>0. /\ u \in User /\ pending[u] \in Seq(Write(u)) /\ n \in Nat
      /\ main[u] \in Seq(Handler(u)) /\ want[u] \in BOOLEAN
  BY FansBoundsAssumption DEF Readers, TypeOK, QueuesOK, HistoryOK, ScreensOK
<1>1. PICK w \in Write(u) :
         /\ w.then \in FansOf({e.visit})
         /\ w.then \in Yes <=> e \in Yes
         /\ Moves(u, Append(pending[u], w), m, queries[u])
  BY <1>0, StarDoes
<1>2. e \in Stars(Visits) /\ UNCHANGED fansVars /\ Popped(main[u], m, e)
  BY <1>0, StarDoes, TailPops
<1> DEFINE p == Append(pending[u], w)
<1>3. Pushed(pending[u], p, w) /\ p \in Seq(Write(u))
  BY <1>0, AppendPushes
<1>4. pending'[u] = p /\ main'[u] = m /\ UNCHANGED <<profile, visits, checks, want>>
  BY <1>1, <1>2 DEF Moves, fansVars, historyVars, screenVars
<1> HIDE DEF p, e, m, n
<1>5. Pushed(Thens(pending[u]), Thens(p), w.then)
  BY <1>0, <1>3, ThensFollow
<1>6. \A V : w.then \notin Stars(V) /\ e \notin Told(V)
  BY <1>1, <1>2 DEF FansOf, Stars, Told, CheckHandler
<1>7. \A V : Longer(Thens(pending[u]), Thens(p), Stars(V))
  BY <1>5, <1>6, PushedLonger
<1>8. VisitsInv(u)'
  <2>1. e \notin Late(n)
    <3>1. 1 \in 1..Len(main[u]) /\ main[u][1] = e
      BY <1>2 DEF Popped
    <3> QED BY <3>1 DEF VisitsInv, Came, NoneIn, n
  <2>2. w.then \notin Late(n)
    BY <1>1, <1>2, <2>1 DEF Late, FansOf, Stars
  <2>3. Longer(Thens(pending[u]), Thens(p), Late(n))
    BY <1>5, <2>2, PushedLonger
  <2>4. Came(Thens(p), m, Late(n))
    BY <1>2, <2>1, <2>3, CamePop DEF VisitsInv, n
  <2> QED BY <1>4, <2>4 DEF VisitsInv, n
<1>9. ASSUME profile[u] # Closed
      PROVE  /\ Leads(Thens(p), m, Stars({n}), Yes, want[u])
             /\ Came(Thens(p), m, Stars({n})) =>
                   /\ Leads(Thens(p), m, Told({n}), Yes, want[u])
                   /\ Came(Thens(p), m, Told({n})) /\ profile[u].known
                         => profile[u].fan = want[u]
  <2>0. Leads(Thens(pending[u]), main[u], Stars({n}), Yes, want[u])
    BY <1>9 DEF HeaderInv, StarLeads, n
  <2>1. /\ Leads(Thens(p), m, Stars({n}), Yes, want[u])
        /\ e \notin Stars({n}) =>
              (Came(Thens(p), m, Stars({n})) <=> Came(Thens(pending[u]), main[u], Stars({n})))
        /\ e \in Stars({n}) /\ Came(Thens(p), m, Stars({n})) => (e \in Yes <=> want[u])
    BY <1>0, <1>2, <1>7, <2>0, LeadsPop
  <2>2. ASSUME e \in Stars({n}), Came(Thens(p), m, Stars({n}))
        PROVE  Leads(Thens(p), m, Told({n}), Yes, want[u]) /\ ~Came(Thens(p), m, Told({n}))
    <3>1. w.then \in Told({n}) /\ (w.then \in Yes <=> want[u])
      <4>1. e.visit = n
        BY <2>2 DEF Stars
      <4> QED BY <1>1, <2>1, <2>2, <4>1 DEF Told
    <3>2. Leads(Thens(p), m, Told({n}), Yes, w.then \in Yes) /\ ~Came(Thens(p), m, Told({n}))
      BY <1>5, <3>1, LeadsPush
    <3> QED BY <3>1, <3>2 DEF Leads, LastIn
  <2>3. ASSUME e \notin Stars({n}), Came(Thens(p), m, Stars({n}))
        PROVE  /\ Leads(Thens(p), m, Told({n}), Yes, want[u])
               /\ Came(Thens(p), m, Told({n})) /\ profile[u].known
                         => profile[u].fan = want[u]
    <3>1. w.then \notin Told({n})
      <4>1. e.visit # n
        BY <1>2, <2>3 DEF Stars
      <4> QED BY <1>1, <4>1 DEF Told, FansOf, CheckHandler
    <3>2. Longer(Thens(pending[u]), Thens(p), Told({n}))
      BY <1>5, <3>1, PushedLonger
    <3>3. /\ Leads(Thens(pending[u]), main[u], Told({n}), Yes, want[u])
          /\ Came(Thens(pending[u]), main[u], Told({n})) /\ profile[u].known
                         => profile[u].fan = want[u]
      BY <1>9, <2>1, <2>3 DEF HeaderInv, StarCame, n
    <3>4. /\ Leads(Thens(p), m, Told({n}), Yes, want[u])
          /\ Came(Thens(p), m, Told({n})) <=> Came(Thens(pending[u]), main[u], Told({n}))
      BY <1>0, <1>2, <1>6, <3>2, <3>3, LeadsPop
    <3> QED BY <3>3, <3>4
  <2> QED BY <2>1, <2>2, <2>3
<1>10. HeaderInv(u)'
  BY <1>4, <1>9 DEF HeaderInv, StarLeads, StarCame, n
<1> QED BY <1>8, <1>10
\* A handler that tells the header keeps it: the last one of the visit that
\* shows the profile tells it what the last tap asked for.
LEMMA ToldShown ==
    ASSUME TypeOK, NEW u \in Readers, VisitsInv(u), HeaderInv(u), main[u] # << >>,
           Head(main[u]) \in Told(Visits),
           NEW p \in Seq(Write(u)), NEW q, NEW b \in BOOLEAN,
           Longer(pending[u], p, {}),
           \A i \in Len(pending[u])+1..Len(p) : p[i].then = Nothing,
           Moves(u, p, Tail(main[u]), q),
           b <=> Head(main[u]) \in Yes, Shown(u, Head(main[u]).visit, b),
           UNCHANGED <<visits, checks, want>>
    PROVE  (VisitsInv(u) /\ HeaderInv(u))'
<1> DEFINE n == visits[u]
           e == Head(main[u])
           m == Tail(main[u])
           T == Told({n})
<1>0. /\ u \in User /\ pending[u] \in Seq(Write(u)) /\ n \in Nat
      /\ main[u] \in Seq(Handler(u)) /\ want[u] \in BOOLEAN
  BY FansBoundsAssumption DEF Readers, TypeOK, QueuesOK, HistoryOK, ScreensOK
<1>1. Popped(main[u], m, e) /\ pending'[u] = p /\ main'[u] = m
  BY <1>0, TailPops DEF Moves
<1>2. e \notin Late(n)
  <2>1. 1 \in 1..Len(main[u]) /\ main[u][1] = e
    BY <1>1 DEF Popped
  <2> QED BY <2>1 DEF VisitsInv, Came, NoneIn
<1>3. \A V : e \notin Stars(V)
  BY DEF Stars, Told, FansOf, CheckHandler
<1>4. e \in T <=> e.visit = n
  BY DEF Told, FansOf, Visits
<1> HIDE DEF e, n, m
<1>5. Kept(u, Late(n)) /\ Kept(u, Stars({n}))
  <2>1. Nothing \notin Late(n) /\ Nothing \notin Stars({n})
    BY <1>0, VisitKinds
  <2>2. ASSUME NEW U, Nothing \notin U, e \notin U PROVE Kept(u, U)
    <3>1. \A i \in Len(pending[u])+1..Len(p) : p[i].then \notin U
      BY <2>2
    <3>2. Moves(u, p, m, q)
      BY DEF m
    <3> QED BY <1>0, <1>1, <2>2, <3>1, <3>2, MovesKept
  <2> QED BY <1>2, <1>3, <2>1, <2>2
<1>6. VisitsInv(u)'
  BY <1>5 DEF VisitsInv, Kept, n
<1>7. CASE profile[u] = Closed
  BY <1>6, <1>7 DEF HeaderInv, Shown
<1>8. CASE profile[u] # Closed /\ e.visit = n
  <2>0. Longer(Thens(pending[u]), Thens(p), T)
    <3>1. Nothing \notin T
      BY <1>0, VisitKinds
    <3> HIDE DEF T
    <3>2. \A i \in Len(pending[u])+1..Len(p) : p[i].then \notin T
      BY <3>1
    <3> QED BY <1>0, <3>2, ThensFollow
  <2>1. profile'[u].fan = b
    BY <1>8 DEF Shown, n, e
  <2>2. StarLeads(u, {n})'
    BY <1>0, <1>5, <1>8 DEF HeaderInv, StarLeads, Kept, n
  <2>3. ASSUME StarCame(u, {n})'
        PROVE  /\ Leads(Thens(p), m, T, Yes, want[u])
               /\ Came(Thens(p), m, T) => (b <=> want[u])
    <3>1. Leads(Thens(pending[u]), main[u], T, Yes, want[u])
      BY <1>5, <1>8, <2>3 DEF HeaderInv, StarCame, Kept, n
    <3> HIDE DEF T
    <3>2. /\ Leads(Thens(p), m, T, Yes, want[u])
          /\ Came(Thens(p), m, T) => (e \in Yes <=> want[u])
      BY <1>0, <1>1, <1>4, <1>8, <2>0, <3>1, LeadsPop
    <3> QED BY <3>2 DEF e
  <2> QED BY <1>0, <1>1, <1>6, <2>1, <2>2, <2>3 DEF HeaderInv, StarLeads, StarCame, n
<1>9. CASE profile[u] # Closed /\ e.visit # n
  <2>1. profile'[u] = profile[u]
    BY <1>9 DEF Shown, n, e
  <2>2. Kept(u, T)
    <3>1. \A i \in Len(pending[u])+1..Len(p) : p[i].then \notin T
      BY VisitKinds
    <3> HIDE DEF T
    <3> QED BY <1>0, <1>1, <1>4, <1>9, <3>1, MovesKept DEF m
  <2>3. HeaderInv(u)'
    BY <1>0, <1>5, <1>9, <2>1, <2>2 DEF HeaderInv, StarLeads, StarCame, Kept, n
  <2> QED BY <1>6, <2>3
<1> QED BY <1>7, <1>8, <1>9

\* What u's device sees of the star is what u's last tap asked for.
LEMMA StarSeen ==
    ASSUME TypeOK, NEW u \in Readers, StarInv(u)
    PROVE  Sees(u, Star(u)) <=> want[u]
<1>1. /\ pending[u] \in Seq(Write(u)) /\ Len(pending[u]) \in Nat /\ want[u] \in BOOLEAN
      /\ Star(u) \in DOMAIN db
  BY DEF Readers, TypeOK, QueuesOK, HistoryOK, DocsOK, Docs
<1>2. \A i \in 1..Len(pending[u]) :
         pending[u][i].op \in {"set", "delete"} /\ pending[u][i].val = EmptyDoc
  <2>1. ASSUME NEW i \in 1..Len(pending[u])
        PROVE  pending[u][i].op \in {"set", "delete"} /\ pending[u][i].val = EmptyDoc
    <3>1. pending[u][i] \in Write(u) /\ u \in User
      BY <1>1 DEF Readers
    <3> QED BY <3>1, WriteFacts
  <2> QED BY <2>1
<1> QED BY <1>1, <1>2, OverlayEnds, AbsentAssumption DEF StarInv, Sees, View

\* A check that is answered says what the last tap asked for.
LEMMA AnswerCheckShown ==
    ASSUME TypeOK, NEW u \in Readers, VisitsInv(u), HeaderInv(u), StarInv(u), AnswerCheck(u)
    PROVE  (VisitsInv(u) /\ HeaderInv(u))'
<1> DEFINE n == visits[u]
<1>0. /\ u \in User /\ u # Artist /\ pending[u] \in Seq(Write(u)) /\ n \in Nat
      /\ Len(pending[u]) \in Nat /\ main[u] \in Seq(Handler(u)) /\ want[u] \in BOOLEAN
      /\ checks \in [User -> SUBSET (1..MaxVisits)]
  BY FansBoundsAssumption DEF Readers, TypeOK, QueuesOK, HistoryOK, ScreensOK
<1>1. PICK visit \in checks[u], h \in CheckHandler :
         /\ h.visit = visit /\ (h.fan <=> Sees(u, Star(u)))
         /\ checks' = [checks EXCEPT ![u] = @ \ {visit}]
         /\ Moves(u, pending[u], Append(main[u], h), queries[u])
  BY <1>0, AnswerCheckDoes
<1>2. UNCHANGED <<profile, visits, want>>
  BY <1>0, AnswerCheckDoes DEF historyVars
<1>3. h \in Yes <=> want[u]
  <2>1. Sees(u, Star(u)) <=> want[u]
    BY StarSeen
  <2> QED BY <1>1, <2>1, YesFacts
<1> DEFINE m == Append(main[u], h)
<1>4. Pushed(main[u], m, h) /\ pending'[u] = pending[u] /\ main'[u] = m
  BY <1>0, <1>1, AppendPushes DEF Moves, Handler
<1>5. h \notin Late(n) /\ \A V : h \notin Stars(V)
  <2>1. visit <= n /\ visit \in Nat
    BY <1>0, <1>1 DEF VisitsInv
  <2>2. h \notin Late(n)
    BY <1>0, <1>1, <2>1 DEF Late
  <2> QED BY <2>2, Kinds
<1> HIDE DEF m, n
<1>6. Longer(pending[u], pending[u], {}) /\ \A i \in Len(pending[u])+1..Len(pending[u]) : FALSE
  BY <1>0, SameLonger
<1>7. ASSUME NEW T, h \notin T PROVE Kept(u, T)
  <2>1. Longer(main[u], m, T)
    BY <1>4, <1>7, PushedLonger
  <2> QED BY <1>0, <1>1, <1>6, <2>1, MovesKept DEF m
<1>8. Kept(u, Late(n)) /\ Kept(u, Stars({n}))
  BY <1>5, <1>7
<1>9. VisitsInv(u)'
  BY <1>0, <1>1, <1>2, <1>8 DEF VisitsInv, Kept, n
<1>10. ASSUME profile[u] # Closed, StarCame(u, {n})
       PROVE  /\ Leads(Thens(pending[u]), m, Told({n}), Yes, want[u])
              /\ Came(Thens(pending[u]), m, Told({n})) /\ profile[u].known
                    => profile[u].fan = want[u]
  <2>1. /\ Leads(Thens(pending[u]), main[u], Told({n}), Yes, want[u])
        /\ Came(Thens(pending[u]), main[u], Told({n})) /\ profile[u].known
                    => profile[u].fan = want[u]
    BY <1>10 DEF HeaderInv, n
  <2>2. CASE h \in Told({n})
    BY <1>0, <1>3, <1>4, <2>1, <2>2, LeadsLate
  <2>3. CASE h \notin Told({n})
    <3>1. Kept(u, Told({n}))
      BY <1>7, <2>3
    <3> QED BY <1>0, <1>4, <2>1, <3>1 DEF Kept
  <2> QED BY <2>2, <2>3
<1>11. HeaderInv(u)'
  BY <1>0, <1>2, <1>4, <1>8, <1>10 DEF HeaderInv, StarLeads, StarCame, Kept, n
<1> QED BY <1>9, <1>11

\* What a delivery, an answer, a handler that fills the feed and an
\* acknowledgement keep.
LEMMA RestKeep ==
    ASSUME TypeOK, NEW u \in Readers, NEW T, Nothing \notin T, \A h \in FillHandler : h \notin T,
           \/ Filled(u) \/ AnswerQuery(u) \/ AnswerFromCache(u)
           \/ (Transmit(u) /\ UNCHANGED fansVars) \/ (Acknowledge(u) /\ UNCHANGED fansVars)
    PROVE  Kept(u, T) /\ UNCHANGED <<screenVars, want>>
<1>0. /\ u \in User /\ u # Artist /\ pending[u] \in Seq(Write(u)) /\ Len(pending[u]) \in Nat
      /\ main[u] \in Seq(Handler(u)) /\ Len(main[u]) \in Nat
  BY DEF Readers, TypeOK, QueuesOK
<1>1. CASE Filled(u)
  <2>1. main[u] # << >> /\ Head(main[u]) \in FillHandler /\ UNCHANGED fansVars
    BY <1>0, <1>1, FillDoes
  <2>2. PICK p \in Seq(Write(u)) :
                 /\ Longer(pending[u], p, {})
                 /\ \A i \in Len(pending[u])+1..Len(p) : p[i].then = Nothing
                 /\ Moves(u, p, Tail(main[u]), queries[u])
    BY <1>0, <1>1, FillDoes
  <2>3. Popped(main[u], Tail(main[u]), Head(main[u])) /\ Head(main[u]) \notin T
    BY <1>0, <2>1, TailPops
  <2>4. Kept(u, T)
    BY <1>0, <2>2, <2>3, MovesKept
  <2> QED BY <2>1, <2>4 DEF fansVars, screenVars, historyVars
<1>2. CASE AnswerQuery(u) \/ AnswerFromCache(u)
  <2>1. PICK h \in FillHandler :
           Moves(u, pending[u], Append(main[u], h), Tail(queries[u]))
    BY <1>2, AnswerDoes
  <2>2. UNCHANGED <<screenVars, want>>
    BY <1>2, AnswerDoes
  <2>3. Pushed(main[u], Append(main[u], h), h)
    BY <1>0, AppendPushes DEF Handler
  <2>4. /\ Longer(main[u], Append(main[u], h), T) /\ Longer(pending[u], pending[u], {})
        /\ \A i \in Len(pending[u])+1..Len(pending[u]) : FALSE
    BY <1>0, <2>3, PushedLonger, SameLonger
  <2>5. Kept(u, T)
    BY <1>0, <2>1, <2>4, MovesKept
  <2> QED BY <2>2, <2>5
<1>3. CASE Transmit(u) /\ UNCHANGED fansVars
  BY <1>0, <1>3, TransmitKept DEF fansVars, historyVars
<1>4. CASE Acknowledge(u) /\ UNCHANGED fansVars
  BY <1>0, <1>4, AcknowledgeKept DEF fansVars, historyVars
<1> QED BY <1>1, <1>2, <1>3, <1>4

\* Every step keeps it.
LEMMA StepShown == ASSUME TypeOK, PlacesInv, ShownInv, [Next]_vars PROVE ShownInv'
<1> SUFFICES ASSUME NEW u \in Readers PROVE (VisitsInv(u) /\ HeaderInv(u))'
  BY DEF ShownInv
<1>0. /\ VisitsInv(u) /\ HeaderInv(u) /\ StarInv(u) /\ u \in User /\ u # Artist
      /\ visits[u] \in Nat /\ pending[u] \in Seq(Write(u)) /\ Len(pending[u]) \in Nat
  BY FansBoundsAssumption DEF ShownInv, PlacesInv, Readers, TypeOK, ScreensOK, QueuesOK
<1>1. CASE Quiet(u) /\ SameScreen(u)
  BY <1>0, <1>1, QuietKept, KeptShown DEF Quiet
<1>2. CASE OpenProfile(u)
  BY <1>0, <1>2, OpenShown
<1>3. CASE TapFan(u) \/ TapUnfan(u)
  BY <1>0, <1>3, TapShown
<1>4. CASE StarStored(u) \/ StarDeleted(u)
  BY <1>0, <1>4, StarShown
<1>5. CASE Fanned(u) \/ Unfanned(u)
  <2>1. /\ main[u] # << >> /\ Head(main[u]) \in FansOf(Visits)
        /\ UNCHANGED <<visits, checks, historyVars>>
    BY <1>0, <1>5, FanDoes
  <2>2. PICK p \in Seq(Write(u)), q \in AskCartoons :
           /\ Longer(pending[u], p, {})
           /\ \A i \in Len(pending[u])+1..Len(p) : p[i].then = Nothing
           /\ Moves(u, p, Tail(main[u]), Append(queries[u], q))
    BY <1>0, <1>5, FanDoes
  <2>3. PICK b \in BOOLEAN : (b <=> Head(main[u]) \in Yes) /\ Shown(u, Head(main[u]).visit, b)
    BY <1>0, <1>5, FanDoes
  <2>4. Head(main[u]) \in Told(Visits) /\ UNCHANGED <<visits, checks, want>>
    BY <2>1 DEF Told, historyVars
  <2> QED BY <1>0, <2>1, <2>2, <2>3, <2>4, ToldShown
<1>6. CASE Checked(u)
  <2>1. /\ main[u] # << >> /\ Head(main[u]) \in CheckHandler
        /\ Moves(u, pending[u], Tail(main[u]), queries[u])
        /\ Shown(u, Head(main[u]).visit, Head(main[u]).fan)
        /\ UNCHANGED <<visits, checks, historyVars>>
    BY <1>0, <1>6, CheckedDoes
  <2>2. /\ Head(main[u]).fan \in BOOLEAN /\ (Head(main[u]).fan <=> Head(main[u]) \in Yes)
        /\ Head(main[u]) \in Told(Visits) /\ UNCHANGED <<visits, checks, want>>
    BY <2>1, YesFacts DEF Told, CheckHandler, Visits, historyVars
  <2>3. Longer(pending[u], pending[u], {}) /\ \A i \in Len(pending[u])+1..Len(pending[u]) : FALSE
    BY <1>0, SameLonger
  <2> QED BY <1>0, <2>1, <2>2, <2>3, ToldShown
<1>7. CASE AnswerCheck(u)
  BY <1>0, <1>7, AnswerCheckShown
<1>8. CASE \/ Filled(u) \/ AnswerQuery(u) \/ AnswerFromCache(u)
           \/ (Transmit(u) /\ UNCHANGED fansVars) \/ (Acknowledge(u) /\ UNCHANGED fansVars)
  <2>1. ASSUME NEW T, Nothing \notin T, \A h \in FillHandler : h \notin T
        PROVE  Kept(u, T) /\ UNCHANGED <<screenVars, want>>
    BY <1>8, <2>1, RestKeep
  <2>2. UNCHANGED <<profile, visits, checks, want>>
    BY <1>0, <2>1, VisitKinds DEF screenVars
  <2>3. Kept(u, Late(visits[u])) /\ Kept(u, Stars({visits[u]})) /\ Kept(u, Told({visits[u]}))
    BY <1>0, <2>1, VisitKinds
  <2>4. want[u] \in BOOLEAN
    BY <1>0 DEF TypeOK, HistoryOK
  <2>5. VisitsInv(u)'
    BY <1>0, <2>2, <2>3 DEF VisitsInv, Kept
  <2>6. HeaderInv(u)'
    BY <1>0, <2>2, <2>3, <2>4 DEF HeaderInv, StarLeads, StarCame, Kept
  <2> QED BY <2>5, <2>6
<1>9. CASE Restart(u)
  <2>1. /\ pending'[u] \in Seq(Write(u)) /\ Len(pending'[u]) = Len(pending[u])
        /\ \A i \in 1..Len(pending[u]) : pending'[u][i].then = Nothing
        /\ main'[u] = << >> /\ profile'[u] = Closed /\ checks'[u] = {}
    BY <1>0, <1>9, RestartDoes
  <2>2. /\ Len(Thens(pending'[u])) = Len(pending'[u])
        /\ \A i \in 1..Len(pending'[u]) : Thens(pending'[u])[i] = pending'[u][i].then
    BY <2>1, ThensFacts
  <2>3. Nothing \notin Late(visits'[u])
    BY AbsentAssumption DEF Late
  <2>4. Came(Thens(pending'[u]), main'[u], Late(visits'[u]))
    BY <2>1, <2>2, <2>3 DEF Came, NoneIn
  <2> QED BY <2>1, <2>4 DEF VisitsInv, HeaderInv
<1>10. ~Spread(u)
  BY <1>0, SpreadDoes
<1> QED
  BY <1>1, <1>2, <1>3, <1>4, <1>5, <1>6, <1>7, <1>8, <1>9, <1>10, SeenFrom DEF Acts

\* On an open profile the header, once it was told anything, says what the
\* last tap asked for whenever the device is settled (HeaderTruthful).
THEOREM HeaderCorrect == Spec => []HeaderTruthful
<1>1. Init => TypeOK /\ PlacesInv /\ ShownInv
  BY InitType, InitPlaces, InitShown
<1>2. TypeOK /\ PlacesInv /\ ShownInv /\ [Next]_vars => (TypeOK /\ PlacesInv /\ ShownInv)'
  BY StepType, StepPlaces, StepShown
<1>3. ShownInv => HeaderTruthful
  BY SettledCame DEF ShownInv, HeaderInv, HeaderTruthful, StarCame
<1> QED BY <1>1, <1>2, <1>3, PTL DEF Spec
-----------------------------------------------------------------------------
(* Cartoons yet to come, and those uploaded                                *)

\* What a step of one account leaves alone of another's.
Same(x) ==
    /\ pending'[x] = pending[x] /\ main'[x] = main[x] /\ queries'[x] = queries[x]
    /\ sent'[x] = sent[x]
    /\ want'[x] = want[x] /\ torn'[x] = torn[x] /\ short'[x] = short[x] /\ raced'[x] = raced[x]

\* Moves and its like do so.
LEMMA MovesSame ==
    ASSUME NEW v, NEW x \in User \ {v}, NEW p, NEW m, NEW q, Moves(v, p, m, q),
           want'[x] = want[x], torn'[x] = torn[x], short'[x] = short[x], raced'[x] = raced[x]
    PROVE  Same(x)
BY DEF Moves, Same

\* A step of v leaves the queues and the history of the others alone.
LEMMA StepsApart ==
    ASSUME TypeOK, NEW v \in User, NEW x \in User \ {v}, Acts(v) \/ Others(v)
    PROVE  Same(x) /\ uploads' = uploads
<1>1. CASE TapFan(v) \/ TapUnfan(v)
  <2>1. (\E p, m, q : Moves(v, p, m, q)) /\ OthersKept(v)
    BY <1>1, TapDoes
  <2> QED BY <2>1, MovesSame DEF OthersKept
<1>2. CASE StarStored(v) \/ StarDeleted(v)
  <2>1. (\E p, m, q : Moves(v, p, m, q)) /\ UNCHANGED fansVars
    BY <1>2, StarDoes
  <2> QED BY <2>1, MovesSame DEF fansVars, historyVars
<1>3. CASE Fanned(v) \/ Unfanned(v)
  <2>1. (\E p, m, q : Moves(v, p, m, q)) /\ UNCHANGED <<uploads, historyVars>>
    BY <1>3, FanDoes
  <2> QED BY <2>1, MovesSame DEF historyVars
<1>4. CASE Filled(v)
  <2>1. (\E p, m, q : Moves(v, p, m, q)) /\ UNCHANGED fansVars
    BY <1>4, FillDoes
  <2> QED BY <2>1, MovesSame DEF fansVars, historyVars
<1>5. CASE Spread(v)
  <2>1. (\E p, m, q : Moves(v, p, m, q)) /\ UNCHANGED fansVars
    BY <1>5, SpreadDoes
  <2> QED BY <2>1, MovesSame DEF fansVars, historyVars
<1>6. CASE Checked(v)
  <2>1. (\E p, m, q : Moves(v, p, m, q)) /\ UNCHANGED <<uploads, historyVars>>
    BY <1>6, CheckedDoes
  <2> QED BY <2>1, MovesSame DEF historyVars
<1>7. CASE AnswerCheck(v)
  <2>1. (\E p, m, q : Moves(v, p, m, q)) /\ UNCHANGED <<uploads, historyVars>>
    BY <1>7, AnswerCheckDoes
  <2> QED BY <2>1, MovesSame DEF historyVars
<1>8. CASE AnswerQuery(v) \/ AnswerFromCache(v)
  <2>1. /\ \E p, m, q : Moves(v, p, m, q)
        /\ UNCHANGED <<uploads, want, torn, raced>>
        /\ (UNCHANGED short \/ short' = [short EXCEPT ![v] = TRUE])
    <3>1. CASE v = Artist
      BY <1>8, <3>1, ArtistAnswerDoes
    <3>2. CASE v # Artist
      BY <1>8, <3>2, AnswerDoes DEF Readers
    <3> QED BY <3>1, <3>2
  <2>2. short'[x] = short[x]
    BY <2>1 DEF TypeOK, HistoryOK
  <2> QED BY <2>1, <2>2, MovesSame
<1>9. CASE Transmit(v) /\ UNCHANGED fansVars
  <2>1. UNCHANGED <<pending, main>> /\ sent' = [sent EXCEPT ![v] = @ + 1]
    BY <1>9 DEF Transmit
  <2> QED BY <1>9, <2>1 DEF Same, TypeOK, QueuesOK, fansVars, historyVars
<1>10. CASE Acknowledge(v) /\ UNCHANGED fansVars
  <2>1. /\ pending' = [pending EXCEPT ![v] = Tail(@)] /\ sent' = [sent EXCEPT ![v] = @ - 1]
        /\ UNCHANGED main \/ \E h : main' = [main EXCEPT ![v] = Append(@, h)]
    BY <1>10, AcknowledgeDoes
  <2> QED BY <1>10, <2>1 DEF Same, TypeOK, QueuesOK, fansVars, historyVars
<1>11. CASE Restart(v)
  <2>1. /\ \A y \in User \ {v} : /\ pending'[y] = pending[y] /\ main'[y] = main[y]
                                 /\ queries'[y] = queries[y] /\ sent'[y] = sent[y]
        /\ OthersKept(v)
    BY <1>11, RestartDoes
  <2> QED BY <2>1 DEF Same, OthersKept
<1>12. CASE OpenProfile(v) \/ CloseProfile(v) \/ CheckFails(v)
  BY <1>12 DEF OpenProfile, CloseProfile, CheckFails, firestoreVars, historyVars, Same
<1>13. CASE Reconnect(v) /\ UNCHANGED fansVars
  BY <1>13 DEF Reconnect, Same, TypeOK, QueuesOK, fansVars, historyVars
<1> QED
  BY <1>1, <1>2, <1>3, <1>4, <1>5, <1>6, <1>7, <1>8, <1>9, <1>10, <1>11, <1>12, <1>13
     DEF Acts, Others

\* Only a delivery changes the server's documents, and only its own.
LEMMA DbStep ==
    ASSUME TypeOK, NEW v \in User, Acts(v) \/ Others(v)
    PROVE  UNCHANGED db \/ (Transmit(v) /\ UNCHANGED fansVars)
<1>1. CASE TapFan(v) \/ TapUnfan(v)
  BY <1>1, TapDoes DEF Moves
<1>2. CASE StarStored(v) \/ StarDeleted(v)
  BY <1>2, StarDoes DEF Moves
<1>3. CASE Fanned(v) \/ Unfanned(v)
  BY <1>3, FanDoes DEF Moves
<1>4. CASE Filled(v)
  BY <1>4, FillDoes DEF Moves
<1>5. CASE Spread(v)
  BY <1>5, SpreadDoes DEF Moves
<1>6. CASE Checked(v) \/ AnswerCheck(v)
  BY <1>6, CheckedDoes, AnswerCheckDoes DEF Moves
<1>7. CASE AnswerQuery(v) \/ AnswerFromCache(v)
  BY <1>7 DEF AnswerQuery, AnswerFromCache
<1>8. CASE Acknowledge(v) \/ Restart(v) \/ Reconnect(v)
  BY <1>8 DEF Acknowledge, Restart, Reconnect
<1>9. CASE OpenProfile(v) \/ CloseProfile(v) \/ CheckFails(v)
  BY <1>9 DEF OpenProfile, CloseProfile, CheckFails, firestoreVars
<1> QED BY <1>1, <1>2, <1>3, <1>4, <1>5, <1>6, <1>7, <1>8, <1>9 DEF Acts, Others

\* Documents, handlers and queries that concern a cartoon after the n-th.
NewDocs(n) == {Toon(c) : c \in n+1..MaxUploads} \cup {Feed(u, c) : u \in User, c \in n+1..MaxUploads}
NewHandlers(n) == {h \in FillHandler : ~(h.cartoons \subseteq 1..n)}
                  \cup {h \in SpreadHandler : h.cartoon > n}
NewAsks(n) == {q \in AskFans : q.cartoon > n}

\* Nothing concerns a cartoon that is not uploaded yet.
FreshOf(v) ==
    /\ \A i \in 1..Len(pending[v]) : pending[v][i].doc \notin NewDocs(uploads)
    /\ NoneIn(main[v], NewHandlers(uploads))
    /\ NoneIn(queries[v], NewAsks(uploads))
FreshInv ==
    /\ \A d \in NewDocs(uploads) : db[d] = NoDoc
    /\ \A v \in User : FreshOf(v)

\* It holds when nothing was done.
LEMMA InitFresh == Init => FreshInv
<1> SUFFICES ASSUME Init PROVE FreshInv
  OBVIOUS
<1>1. /\ uploads = 0 /\ db = [d \in Docs |-> NoDoc]
      /\ \A v \in User : pending[v] = << >> /\ main[v] = << >> /\ queries[v] = << >>
  BY DEF Init, FirestoreInit
<1>2. NewDocs(0) \subseteq Docs
  BY DEF NewDocs, Docs
<1> QED BY <1>1, <1>2 DEF FreshInv, FreshOf, NoneIn

\* Where every next element of a queue is outside T, so are its elements.
LEMMA NoneMoves ==
    ASSUME NEW q, NEW r, NEW T, NoneIn(q, T)
    PROVE  /\ Longer(q, r, T) => NoneIn(r, T)
           /\ \A e : Pushed(q, r, e) /\ e \notin T => NoneIn(r, T)
           /\ \A e : Popped(q, r, e) => e \notin T /\ NoneIn(r, T)
<1>1. ASSUME Longer(q, r, T) PROVE NoneIn(r, T)
  BY <1>1 DEF Longer, NoneIn
<1>2. ASSUME NEW e, Pushed(q, r, e), e \notin T PROVE NoneIn(r, T)
  BY <1>2 DEF Pushed, Grows, NoneIn
<1>3. ASSUME NEW e, Popped(q, r, e) PROVE e \notin T /\ NoneIn(r, T)
  BY <1>3 DEF Popped, NoneIn
<1> QED BY <1>1, <1>2, <1>3

\* A cartoon that is not uploaded yet is not seen by a reader.
LEMMA UnbornUnseen ==
    ASSUME TypeOK, FreshInv, NEW u \in Readers
    PROVE  CartoonsSeen(u) \subseteq 1..uploads
<1>0. /\ u \in User /\ pending[u] \in Seq(Write(u)) /\ Len(pending[u]) \in Nat
      /\ uploads \in Nat /\ DOMAIN db = Docs
  BY FansBoundsAssumption DEF Readers, TypeOK, QueuesOK, DocsOK, CountsOK
<1> SUFFICES ASSUME NEW c \in 1..MaxUploads, c > uploads PROVE ~Sees(u, Toon(c))
  BY <1>0 DEF CartoonsSeen
<1>1. Toon(c) \in NewDocs(uploads) /\ Toon(c) \in Docs
  BY <1>0 DEF NewDocs, Docs
<1>2. Ends(db, pending[u], Toon(c), FALSE)
  BY <1>0, <1>1 DEF FreshInv, FreshOf, Ends
<1>3. \A i \in 1..Len(pending[u]) :
         pending[u][i].op \in {"set", "delete"} /\ pending[u][i].val = EmptyDoc
  <2>1. ASSUME NEW i \in 1..Len(pending[u])
        PROVE  pending[u][i].op \in {"set", "delete"} /\ pending[u][i].val = EmptyDoc
    <3>1. pending[u][i] \in Write(u)
      BY <1>0
    <3> QED BY <1>0, <3>1, WriteFacts
  <2> QED BY <2>1
<1> QED BY <1>0, <1>1, <1>2, <1>3, OverlayEnds, AbsentAssumption DEF Sees, View
\* Every step of one account keeps its own queues so.
LEMMA FreshStep ==
    ASSUME TypeOK, FreshInv, NEW v \in User, Acts(v) \/ Others(v), uploads' = uploads
    PROVE  FreshOf(v)'
<1> DEFINE n == uploads
           e == Head(main[v])
<1>0. /\ pending[v] \in Seq(Write(v)) /\ Len(pending[v]) \in Nat
      /\ main[v] \in Seq(Handler(v)) /\ queries[v] \in Seq(Query(v))
      /\ Len(main[v]) \in Nat /\ Len(queries[v]) \in Nat
      /\ n \in Nat /\ n <= MaxUploads
      /\ \A i \in 1..Len(pending[v]) : pending[v][i].doc \notin NewDocs(n)
      /\ NoneIn(main[v], NewHandlers(n)) /\ NoneIn(queries[v], NewAsks(n))
  <2>1. /\ pending[v] \in Seq(Write(v)) /\ main[v] \in Seq(Handler(v))
        /\ queries[v] \in Seq(Query(v))
    BY DEF TypeOK, QueuesOK
  <2>2. n \in Nat /\ n <= MaxUploads
    BY FansBoundsAssumption DEF TypeOK, CountsOK
  <2>3. FreshOf(v)
    BY DEF FreshInv
  <2>4. Len(pending[v]) \in Nat /\ Len(main[v]) \in Nat /\ Len(queries[v]) \in Nat
    BY <2>1
  <2> QED BY <2>1, <2>2, <2>3, <2>4 DEF FreshOf
<1>1. \A h : h \in TapHandler \cup CheckHandler => h \notin NewHandlers(n)
  BY DEF NewHandlers, TapHandler, CheckHandler, FillHandler, SpreadHandler
<1>2. \A u, c : Star(u) \notin NewDocs(n) /\ Fan(u) \notin NewDocs(n) /\ Notice(u, c) \notin NewDocs(n)
  BY DocsApart DEF NewDocs
<1>3. \A u, c : c \in 1..n => Feed(u, c) \notin NewDocs(n)
  BY <1>0, DocsApart DEF NewDocs
<1>4. \A q \in AskCartoons : q \notin NewAsks(n)
  BY DEF AskCartoons, AskFans, NewAsks
<1> HIDE DEF n, e
<1>5. ASSUME NEW p, Longer(pending[v], p, {}) \/ (\E w : Pushed(pending[v], p, w)),
             \A i \in Len(pending[v])+1..Len(p) : p[i].doc \notin NewDocs(n)
      PROVE  \A i \in 1..Len(p) : p[i].doc \notin NewDocs(n)
  BY <1>0, <1>5 DEF Longer, Pushed, Grows
<1>6. ASSUME NEW p, NEW m, NEW q, Moves(v, p, m, q),
             \A i \in 1..Len(p) : p[i].doc \notin NewDocs(n),
             NoneIn(m, NewHandlers(n)), NoneIn(q, NewAsks(n))
      PROVE  FreshOf(v)'
  BY <1>6 DEF FreshOf, Moves, n
<1>7. ASSUME main[v] # << >>
      PROVE  e \notin NewHandlers(n) /\ NoneIn(Tail(main[v]), NewHandlers(n)) /\ e \in Handler(v)
  <2>1. Popped(main[v], Tail(main[v]), e) /\ e \in Handler(v)
    BY <1>0, <1>7, TailPops DEF e
  <2> QED BY <1>0, <2>1, NoneMoves
<1>8. ASSUME NEW w \in Write(v), w.doc \notin NewDocs(n)
      PROVE  \A i \in 1..Len(Append(pending[v], w)) : Append(pending[v], w)[i].doc \notin NewDocs(n)
  <2>1. Pushed(pending[v], Append(pending[v], w), w)
    BY <1>0, AppendPushes
  <2> HIDE DEF n
  <2>2. \A i \in Len(pending[v])+1..Len(Append(pending[v], w)) : Append(pending[v], w)[i] = w
    BY <2>1 DEF Pushed, Grows
  <2> QED BY <1>5, <1>8, <2>1, <2>2
<1>9. CASE TapFan(v) \/ TapUnfan(v)
  <2>1. PICK w \in Write(v) :
           w.doc = Star(v) /\ Moves(v, Append(pending[v], w), main[v], queries[v])
    BY <1>9, TapDoes
  <2> QED BY <1>0, <1>2, <1>6, <1>8, <2>1
<1>10. CASE StarStored(v) \/ StarDeleted(v)
  <2>1. PICK w \in Write(v) :
           w.doc = Fan(v) /\ Moves(v, Append(pending[v], w), Tail(main[v]), queries[v])
    BY <1>10, StarDoes
  <2>2. main[v] # << >>
    BY <1>10, StarDoes
  <2> QED BY <1>0, <1>2, <1>6, <1>7, <1>8, <2>1, <2>2
<1>11. CASE Fanned(v) \/ Unfanned(v)
  <2>1. PICK p \in Seq(Write(v)), q \in AskCartoons :
                 /\ Longer(pending[v], p, {})
                 /\ \A i \in Len(pending[v])+1..Len(p) : \E tap : p[i].doc = Notice(v, tap)
                 /\ Moves(v, p, Tail(main[v]), Append(queries[v], q))
    BY <1>11, FanDoes
  <2>2. main[v] # << >> /\ v # Artist
    BY <1>11, FanDoes DEF Readers
  <2>3. NoneIn(Append(queries[v], q), NewAsks(n))
    <3>1. Pushed(queries[v], Append(queries[v], q), q)
      BY <1>0, <2>2, AppendPushes DEF Query
    <3> QED BY <1>0, <1>4, <3>1, NoneMoves
  <2>4. \A i \in 1..Len(p) : p[i].doc \notin NewDocs(n)
    BY <1>2, <1>5, <2>1
  <2> QED BY <1>6, <1>7, <2>1, <2>2, <2>3, <2>4
<1>12. CASE Filled(v)
  <2>1. PICK p \in Seq(Write(v)) :
                 /\ Longer(pending[v], p, {})
                 /\ \A i \in Len(pending[v])+1..Len(p) : p[i].doc \in {Feed(v, c) : c \in e.cartoons}
                 /\ Moves(v, p, Tail(main[v]), queries[v])
    BY <1>12, FillDoes DEF e
  <2>2. main[v] # << >> /\ e \in FillHandler
    BY <1>12, FillDoes DEF e
  <2>3. e.cartoons \subseteq 1..n
    BY <1>7, <2>2 DEF NewHandlers
  <2>4. \A i \in 1..Len(p) : p[i].doc \notin NewDocs(n)
    BY <1>3, <1>5, <2>1, <2>3
  <2> QED BY <1>0, <1>6, <1>7, <2>1, <2>2, <2>4
<1>13. CASE Spread(v)
  <2>1. PICK p \in Seq(Write(v)) :
                 /\ Longer(pending[v], p, {})
                 /\ \A i \in Len(pending[v])+1..Len(p) : \E u : p[i].doc = Feed(u, e.cartoon)
                 /\ Moves(v, p, Tail(main[v]), queries[v])
    BY <1>13, SpreadDoes DEF e
  <2>2. main[v] # << >> /\ e \in SpreadHandler
    BY <1>13, SpreadDoes DEF e
  <2>3. e.cartoon \in 1..n
    BY <1>0, <1>7, <2>2 DEF NewHandlers, SpreadHandler
  <2>4. \A i \in 1..Len(p) : p[i].doc \notin NewDocs(n)
    BY <1>3, <1>5, <2>1, <2>3
  <2> QED BY <1>0, <1>6, <1>7, <2>1, <2>2, <2>4
<1>14. CASE Checked(v)
  <2>1. main[v] # << >> /\ Moves(v, pending[v], Tail(main[v]), queries[v])
    BY <1>14, CheckedDoes
  <2> QED BY <1>0, <1>6, <1>7, <2>1
<1>15. CASE AnswerCheck(v)
  <2>1. PICK h \in CheckHandler : Moves(v, pending[v], Append(main[v], h), queries[v])
    BY <1>15, AnswerCheckDoes
  <2>2. h \in Handler(v)
    BY <1>15, AnswerCheckDoes DEF Handler, Readers
  <2>3. NoneIn(Append(main[v], h), NewHandlers(n))
    BY <1>0, <1>1, <2>2, AppendPushes, NoneMoves
  <2> QED BY <1>0, <1>6, <2>1, <2>3
<1>16. CASE AnswerQuery(v) \/ AnswerFromCache(v)
  <2>1. PICK h \in Handler(v) :
           Moves(v, pending[v], Append(main[v], h), Tail(queries[v])) /\ h \notin NewHandlers(n)
    <3>1. CASE v = Artist
      <4>1. PICK h \in SpreadHandler :
               /\ h.cartoon = Head(queries[Artist]).cartoon
               /\ Moves(v, pending[v], Append(main[v], h), Tail(queries[v]))
        BY <1>16, <3>1, ArtistAnswerDoes
      <4>2. queries[v] # << >> /\ Head(queries[v]) \in AskFans
        BY <1>16, <3>1, ArtistAnswerDoes
      <4>3. Head(queries[v]) \notin NewAsks(n)
        BY <1>0, <4>2, TailPops, NoneMoves
      <4>4. h \notin NewHandlers(n)
        BY <3>1, <4>1, <4>2, <4>3 DEF NewAsks, NewHandlers, FillHandler, SpreadHandler
      <4> QED BY <3>1, <4>1, <4>4 DEF Handler
    <3>2. CASE v # Artist
      <4>1. PICK h \in FillHandler :
               /\ h.cartoons \subseteq CartoonsSeen(v)
               /\ Moves(v, pending[v], Append(main[v], h), Tail(queries[v]))
        BY <1>16, <3>2, AnswerDoes DEF Readers
      <4>2. h.cartoons \subseteq 1..n
        BY <3>2, <4>1, UnbornUnseen DEF Readers, n
      <4>3. h \notin NewHandlers(n)
        BY <4>1, <4>2 DEF NewHandlers, FillHandler, SpreadHandler
      <4> QED BY <3>2, <4>1, <4>3 DEF Handler
    <3> QED BY <3>1, <3>2
  <2>2. queries[v] # << >>
    BY <1>16 DEF AnswerQuery, AnswerFromCache
  <2>3. NoneIn(Tail(queries[v]), NewAsks(n))
    <3>1. Popped(queries[v], Tail(queries[v]), Head(queries[v]))
      BY <1>0, <2>2, TailPops
    <3> QED BY <1>0, <3>1, NoneMoves
  <2>4. NoneIn(Append(main[v], h), NewHandlers(n))
    BY <1>0, <2>1, AppendPushes, NoneMoves
  <2> QED BY <1>0, <1>6, <2>1, <2>3, <2>4
<1>17. CASE Acknowledge(v) /\ UNCHANGED fansVars
  <2>1. /\ Popped(pending[v], Tail(pending[v]), Head(pending[v]))
        /\ pending' = [pending EXCEPT ![v] = Tail(@)] /\ UNCHANGED <<queries, uploads>>
        /\ \/ UNCHANGED main
           \/ \E h \in TapHandler : v \in Readers /\ main' = [main EXCEPT ![v] = Append(@, h)]
    BY <1>17, AcknowledgeDoes DEF fansVars
  <2>2. NoneIn(main'[v], NewHandlers(n))
    <3>1. CASE UNCHANGED main
      BY <1>0, <3>1
    <3>2. ASSUME NEW h \in TapHandler, v \in Readers, main' = [main EXCEPT ![v] = Append(@, h)]
          PROVE  NoneIn(main'[v], NewHandlers(n))
      <4>1. main'[v] = Append(main[v], h) /\ h \in Handler(v)
        BY <3>2 DEF TypeOK, QueuesOK, Handler, Readers
      <4>2. Pushed(main[v], Append(main[v], h), h) /\ h \notin NewHandlers(n)
        BY <1>0, <1>1, <4>1, AppendPushes
      <4> QED BY <1>0, <4>1, <4>2, NoneMoves
    <3> QED BY <2>1, <3>1, <3>2
  <2>3. pending'[v] = Tail(pending[v])
    BY <2>1 DEF TypeOK, QueuesOK
  <2>4. \A i \in 1..Len(pending'[v]) : pending'[v][i].doc \notin NewDocs(n)
    <3> SUFFICES ASSUME NEW i \in 1..Len(pending'[v]) PROVE pending'[v][i].doc \notin NewDocs(n)
      OBVIOUS
    <3> DEFINE q == pending[v]
    <3> HIDE DEF q
    <3>1. Len(q) \in Nat /\ Len(pending'[v]) = Len(q) - 1 /\ pending'[v][i] = q[i + 1]
      BY <2>1, <2>3 DEF Popped, q
    <3>2. i + 1 \in 1..Len(q)
      BY <3>1
    <3> QED BY <1>0, <3>1, <3>2 DEF q
  <2> QED BY <1>0, <2>1, <2>2, <2>4 DEF FreshOf, n
<1>18. CASE Restart(v)
  <2>1. /\ Len(pending'[v]) = Len(pending[v])
        /\ \A i \in 1..Len(pending[v]) : pending'[v][i].doc = pending[v][i].doc
        /\ main'[v] = << >> /\ queries'[v] = << >> /\ UNCHANGED uploads
    BY <1>18, RestartDoes
  <2>2. NoneIn(main'[v], NewHandlers(n)) /\ NoneIn(queries'[v], NewAsks(n))
    BY <2>1 DEF NoneIn
  <2>3. \A i \in 1..Len(pending'[v]) : pending'[v][i].doc \notin NewDocs(n)
    BY <1>0, <2>1
  <2> QED BY <2>1, <2>2, <2>3 DEF FreshOf, n
<1>19. CASE Others(v) \/ (Transmit(v) /\ UNCHANGED fansVars)
  <2>1. UNCHANGED <<pending, main, queries, uploads>>
    BY <1>19 DEF Others, OpenProfile, CloseProfile, CheckFails, Reconnect, Transmit,
                 firestoreVars, fansVars
  <2> QED BY <1>0, <2>1 DEF FreshOf, n
<1> QED
  BY <1>9, <1>10, <1>11, <1>12, <1>13, <1>14, <1>15, <1>16, <1>17, <1>18, <1>19 DEF Acts

\* Every step keeps it.
LEMMA StepFresh == ASSUME TypeOK, FreshInv, [Next]_vars PROVE FreshInv'
<1>1. CASE Upload
  <2> DEFINE n == uploads
  <2>1. PICK w \in Write(Artist), q \in AskFans :
           /\ w.doc = Toon(n + 1) /\ q.cartoon = n + 1
           /\ Moves(Artist, Append(pending[Artist], w), main[Artist],
                    Append(queries[Artist], q))
    BY <1>1, UploadDoes
  <2>2. n + 1 \in 1..MaxUploads /\ uploads' = n + 1 /\ n \in Nat
    BY <1>1, UploadDoes, FansBoundsAssumption DEF TypeOK, CountsOK
  <2>3. /\ NewDocs(n + 1) \subseteq NewDocs(n) /\ NewHandlers(n + 1) \subseteq NewHandlers(n)
        /\ NewAsks(n + 1) \subseteq NewAsks(n)
    BY <2>2 DEF NewDocs, NewHandlers, NewAsks, AskFans, SpreadHandler
  <2>4. w.doc \notin NewDocs(n + 1) /\ q \notin NewAsks(n + 1)
    <3>1. Toon(n + 1) \notin NewDocs(n + 1)
      BY <2>2, DocsApart DEF NewDocs
    <3>2. q \notin NewAsks(n + 1)
      BY <2>1, <2>2 DEF NewAsks
    <3> QED BY <2>1, <3>1, <3>2
  <2>5. ASSUME NEW v \in User
        PROVE  /\ \A i \in 1..Len(pending[v]) : pending[v][i].doc \notin NewDocs(n + 1)
               /\ NoneIn(main[v], NewHandlers(n + 1)) /\ NoneIn(queries[v], NewAsks(n + 1))
    BY <2>3 DEF FreshInv, FreshOf, NoneIn
  <2> HIDE DEF n
  <2>6. ASSUME NEW v \in User \ {Artist} PROVE FreshOf(v)'
    BY <2>1, <2>2, <2>5 DEF Moves, FreshOf
  <2>7. FreshOf(Artist)'
    <3>1. /\ Pushed(pending[Artist], Append(pending[Artist], w), w)
          /\ Pushed(queries[Artist], Append(queries[Artist], q), q)
      BY AppendPushes, ArtistAssumption DEF TypeOK, QueuesOK, Query
    <3>2. NoneIn(Append(queries[Artist], q), NewAsks(n + 1))
      BY <2>4, <2>5, <3>1, NoneMoves, ArtistAssumption
    <3>3. \A i \in 1..Len(Append(pending[Artist], w)) :
             Append(pending[Artist], w)[i].doc \notin NewDocs(n + 1)
      BY <2>4, <2>5, <3>1, ArtistAssumption DEF Pushed, Grows
    <3> QED BY <2>1, <2>2, <2>5, <3>2, <3>3, ArtistAssumption DEF Moves, FreshOf
  <2>8. \A d \in NewDocs(n + 1) : db'[d] = NoDoc
    BY <2>1, <2>3 DEF Moves, FreshInv, n
  <2> QED BY <2>2, <2>6, <2>7, <2>8 DEF FreshInv
<1>2. CASE UNCHANGED vars
  BY <1>2 DEF vars, firestoreVars, fansVars, FreshInv, FreshOf
<1>3. ASSUME NEW v \in User, Acts(v) \/ Others(v) PROVE FreshInv'
  <2>1. uploads' = uploads
    <3>1. CASE TapFan(v) \/ TapUnfan(v)
      BY <3>1, TapDoes DEF OthersKept
    <3>2. CASE ~(TapFan(v) \/ TapUnfan(v))
      BY <1>3, <3>2 DEF Acts, Others, StarStored, StarDeleted, Fanned, Unfanned, Filled, Spread,
         Checked, AnswerCheck, AnswerQuery, AnswerFromCache, Restart, OpenProfile, CloseProfile,
         CheckFails, fansVars
    <3> QED BY <3>1, <3>2
  <2>2. \A x \in User \ {v} : FreshOf(x)'
    BY <1>3, <2>1, StepsApart DEF Same, FreshInv, FreshOf
  <2>3. FreshOf(v)'
    BY <1>3, <2>1, FreshStep
  <2>4. \A d \in NewDocs(uploads) : db'[d] = NoDoc
    <3>1. NewDocs(uploads) \subseteq Docs
      BY FansBoundsAssumption DEF NewDocs, Docs, TypeOK, CountsOK
    <3>2. CASE UNCHANGED db
      BY <3>2 DEF FreshInv
    <3>3. CASE Transmit(v) /\ UNCHANGED fansVars
      <4> DEFINE w == pending[v][sent[v] + 1]
      <4>1. /\ sent[v] \in Nat /\ sent[v] < Len(pending[v])
            /\ \A d \in Docs : d # w.doc => db'[d] = db[d]
        BY <3>3, TransmitDoes
      <4>2. w.doc \notin NewDocs(uploads)
        <5>1. sent[v] + 1 \in 1..Len(pending[v])
          BY <4>1 DEF TypeOK, QueuesOK
        <5> QED BY <5>1 DEF FreshInv, FreshOf
      <4> QED BY <3>1, <4>1, <4>2 DEF FreshInv
    <3> QED BY <1>3, <3>2, <3>3, DbStep
  <2> QED BY <2>1, <2>2, <2>3, <2>4 DEF FreshInv
<1> QED BY <1>1, <1>2, <1>3, NextActs
\* The artist's queue comes to just the cartoons uploaded so far.
ToonInv ==
    \A c \in 1..MaxUploads :
        /\ Reached(db, pending[Artist], sent[Artist], Toon(c))
        /\ Ends(db, pending[Artist], Toon(c), c <= uploads)

\* It holds when nothing was done.
LEMMA InitToons == Init => ToonInv
<1> SUFFICES ASSUME Init, NEW c \in 1..MaxUploads
             PROVE  /\ Reached(db, pending[Artist], sent[Artist], Toon(c))
                    /\ Ends(db, pending[Artist], Toon(c), c <= uploads)
  BY DEF ToonInv
<1>1. /\ pending[Artist] = << >> /\ sent[Artist] = 0 /\ uploads = 0
      /\ db[Toon(c)] = NoDoc /\ ~(c <= 0)
  BY ArtistAssumption DEF Init, FirestoreInit, Docs
<1> QED BY <1>1 DEF Reached, Ends

\* A device that does nothing but break its stream keeps a document that is
\* left alone.
LEMMA StillKept ==
    ASSUME TypeOK, NEW u \in User, NEW d, pending'[u] = pending[u], sent'[u] \in {0, sent[u]},
           db'[d] = db[d]
    PROVE  DocKept(u, d)
<1>0. sent[u] \in Nat
  BY DEF TypeOK, QueuesOK
<1>1. ASSUME Reached(db, pending[u], sent[u], d)
      PROVE  Reached(db', pending'[u], sent'[u], d)
  <2>1. CASE sent'[u] = 0
    BY <2>1 DEF Reached
  <2>2. CASE sent'[u] = sent[u]
    BY <1>0, <1>1, <2>2 DEF Reached
  <2> QED BY <2>1, <2>2
<1>2. ASSUME NEW b \in BOOLEAN, Ends(db, pending[u], d, b) PROVE Ends(db', pending'[u], d, b)
  BY <1>2 DEF Ends
<1> QED BY <1>1, <1>2 DEF DocKept

\* So does a restart.
LEMMA RestartKept ==
    ASSUME TypeOK, NEW u \in User, Restart(u), NEW d
    PROVE  DocKept(u, d)
<1>1. /\ Len(pending'[u]) = Len(pending[u]) /\ Len(pending[u]) \in Nat
      /\ \A i \in 1..Len(pending[u]) :
            pending'[u][i].doc = pending[u][i].doc /\ pending'[u][i].op = pending[u][i].op
      /\ sent'[u] = 0 /\ db' = db
  BY RestartDoes
<1>2. Reached(db', pending'[u], sent'[u], d)
  BY <1>1 DEF Reached
<1>3. ASSUME NEW b \in BOOLEAN, Ends(db, pending[u], d, b) PROVE Ends(db', pending'[u], d, b)
  <2> DEFINE q == pending[u]
             r == pending'[u]
  <2>1. SameWrites(q, r) /\ db'[d] = db[d]
    BY <1>1 DEF SameWrites
  <2>2. Ends(db, q, d, b)
    BY <1>3
  <2> HIDE DEF q, r
  <2>3. Ends(db', r, d, b)
    BY <2>1, <2>2, EndsSameWrites
  <2> QED BY <2>3 DEF r
<1> QED BY <1>2, <1>3 DEF DocKept

\* A step of one account does not change what belongs to another: a reader's
\* leaves the cartoons and the others' documents, the artist's all but
\* cartoons and feeds.
LEMMA DocsKept ==
    ASSUME TypeOK, NEW v \in User, Acts(v) \/ Others(v), NEW d \in Docs,
           \/ v # Artist /\ \E c : d = Toon(c)
           \/ v # Artist /\ \E u, c : u # v /\ d \in {Star(u), Fan(u), Feed(u, c)}
           \/ v = Artist /\ \E u : d \in {Star(u), Fan(u)}
    PROVE  db'[d] = db[d]
<1>1. CASE Transmit(v) /\ UNCHANGED fansVars
  <2> DEFINE w == pending[v][sent[v] + 1]
  <2>1. w \in Write(v) /\ (d # w.doc => db'[d] = db[d])
    BY <1>1, TransmitDoes
  <2> HIDE DEF w
  <2>2. CASE v = Artist
    BY <2>1, <2>2, DocsApart DEF Write, WriteOf
  <2>3. CASE v # Artist
    <3>1. \/ w.doc = Star(v) \/ w.doc = Fan(v) \/ \E c : w.doc = Feed(v, c)
          \/ \E c : w.doc = Notice(v, c)
      BY <2>1, <2>3 DEF Write, WriteOf
    <3>2. CASE \E c : d = Toon(c)
      BY <2>1, <3>1, <3>2, DocsApart
    <3>3. CASE \E u, c : u # v /\ d \in {Star(u), Fan(u), Feed(u, c)}
      BY <2>1, <3>1, <3>3, DocsApart
    <3> QED BY <2>3, <3>2, <3>3
  <2> QED BY <2>2, <2>3
<1> QED BY <1>1, DbStep

\* The artist's own steps: all but an upload.
LEMMA ArtistActs ==
    ASSUME TypeOK, Acts(Artist)
    PROVE  \/ Spread(Artist) \/ AnswerQuery(Artist) \/ AnswerFromCache(Artist) \/ Restart(Artist)
           \/ (Transmit(Artist) /\ UNCHANGED fansVars) \/ (Acknowledge(Artist) /\ UNCHANGED fansVars)
BY ArtistAssumption, TapDoes, StarDoes, FanDoes, FillDoes, CheckedDoes, AnswerCheckDoes
   DEF Acts, Readers

\* Every step but an upload keeps the promise of the artist's queue.
LEMMA ToonKept ==
    ASSUME TypeOK, NEW v \in User, Acts(v) \/ Others(v), NEW c \in 1..MaxUploads
    PROVE  DocKept(Artist, Toon(c)) /\ uploads' = uploads
<1>0. /\ Toon(c) \in Docs /\ Artist \in User
      /\ pending[Artist] \in Seq(Write(Artist)) /\ Len(pending[Artist]) \in Nat
  BY ArtistAssumption DEF Docs, TypeOK, QueuesOK
<1>1. CASE v # Artist
  <2>1. Same(Artist) /\ uploads' = uploads
    BY <1>0, <1>1, StepsApart
  <2>2. db'[Toon(c)] = db[Toon(c)]
    BY <1>0, <1>1, DocsKept
  <2> QED BY <1>0, <2>1, <2>2, StillKept DEF Same
<1>2. CASE Others(Artist)
  <2>1. /\ pending' = pending /\ db' = db /\ uploads' = uploads
        /\ sent'[Artist] \in {0, sent[Artist]}
    BY <1>0, <1>2 DEF Others, OpenProfile, CloseProfile, CheckFails, Reconnect, firestoreVars,
       fansVars, TypeOK, QueuesOK
  <2> QED BY <1>0, <2>1, StillKept
<1>3. CASE Spread(Artist)
  <2>1. PICK p \in Seq(Write(Artist)) :
           /\ Longer(pending[Artist], p, {})
           /\ \A i \in Len(pending[Artist])+1..Len(p) : \E u, k : p[i].doc = Feed(u, k)
           /\ Moves(Artist, p, Tail(main[Artist]), queries[Artist])
    BY <1>0, <1>3, SpreadDoes
  <2>2. \A i \in Len(pending[Artist])+1..Len(p) : p[i].doc # Toon(c)
    BY <2>1, DocsApart
  <2>3. uploads' = uploads
    BY <1>0, <1>3, SpreadDoes DEF fansVars
  <2> QED BY <1>0, <2>1, <2>2, <2>3, MovesDocs
<1>4. CASE AnswerQuery(Artist) \/ AnswerFromCache(Artist)
  <2>1. \E h : Moves(Artist, pending[Artist], Append(main[Artist], h), Tail(queries[Artist]))
    BY <1>4, ArtistAnswerDoes
  <2>2. uploads' = uploads
    BY <1>4, ArtistAnswerDoes
  <2>3. DocKept(Artist, Toon(c))
    BY <1>0, <2>1, StillKept DEF Moves
  <2> QED BY <2>2, <2>3
<1>5. CASE Restart(Artist)
  BY <1>0, <1>5, RestartKept DEF Restart
<1>6. CASE Transmit(Artist) /\ UNCHANGED fansVars
  BY <1>0, <1>6, TransmitKept DEF fansVars
<1>7. CASE Acknowledge(Artist) /\ UNCHANGED fansVars
  BY <1>0, <1>7, AcknowledgeKept DEF fansVars
<1> QED BY <1>1, <1>2, <1>3, <1>4, <1>5, <1>6, <1>7, ArtistActs

\* Every step keeps it.
LEMMA StepToons == ASSUME TypeOK, ToonInv, [Next]_vars PROVE ToonInv'
<1> SUFFICES ASSUME NEW c \in 1..MaxUploads
             PROVE  /\ Reached(db', pending'[Artist], sent'[Artist], Toon(c))
                    /\ Ends(db', pending'[Artist], Toon(c), c <= uploads')
  BY DEF ToonInv
<1>0. /\ Reached(db, pending[Artist], sent[Artist], Toon(c))
      /\ Ends(db, pending[Artist], Toon(c), c <= uploads)
      /\ Artist \in User /\ pending[Artist] \in Seq(Write(Artist)) /\ sent[Artist] \in Nat
      /\ sent[Artist] <= Len(pending[Artist]) /\ uploads \in Nat /\ (c <= uploads) \in BOOLEAN
  BY ArtistAssumption, FansBoundsAssumption DEF ToonInv, TypeOK, QueuesOK, CountsOK
<1>1. CASE Upload
  <2>1. PICK w, q :
           /\ w \in Write(Artist)
           /\ w.doc = Toon(uploads + 1) /\ w.op = "set"
           /\ Moves(Artist, Append(pending[Artist], w), main[Artist], q)
    BY <1>1, UploadDoes
  <2>2. uploads' = uploads + 1
    BY <1>1, UploadDoes
  <2> DEFINE p == Append(pending[Artist], w)
  <2>3. Pushed(pending[Artist], p, w) /\ p \in Seq(Write(Artist))
    BY <1>0, <2>1, AppendPushes
  <2>4. pending'[Artist] = p /\ db' = db /\ sent' = sent
    BY <2>1 DEF Moves
  <2> HIDE DEF p
  <2>5. Reached(db, p, sent[Artist], Toon(c))
    <3>1. Longer(pending[Artist], p, {})
      BY <2>3, PushedLonger
    <3> QED BY <1>0, <3>1, ReachedLonger
  <2>6. Ends(db, p, Toon(c), c <= uploads + 1)
    <3>1. Grows(pending[Artist], p) /\ p[Len(p)] = w
      BY <2>3 DEF Pushed
    <3>2. CASE c = uploads + 1
      <4>1. Ends(db, p, Toon(c), w.op = "set")
        BY <2>1, <3>1, <3>2, EndsGrows
      <4>2. (w.op = "set") = TRUE /\ (c <= uploads + 1) = TRUE
        BY <1>0, <2>1, <3>2
      <4> QED BY <4>1, <4>2
    <3>3. CASE c # uploads + 1
      <4>1. w.doc # Toon(c)
        BY <2>1, <3>3, DocsApart
      <4>2. Ends(db, p, Toon(c), c <= uploads)
        BY <1>0, <3>1, <4>1, EndsGrows
      <4>3. (c <= uploads + 1) = (c <= uploads)
        BY <1>0, <3>3
      <4> QED BY <4>2, <4>3
    <3> QED BY <3>2, <3>3
  <2> QED BY <2>2, <2>4, <2>5, <2>6
<1>2. CASE UNCHANGED vars
  BY <1>0, <1>2 DEF vars, firestoreVars, fansVars
<1>3. ASSUME NEW v \in User, Acts(v) \/ Others(v)
      PROVE  /\ Reached(db', pending'[Artist], sent'[Artist], Toon(c))
             /\ Ends(db', pending'[Artist], Toon(c), c <= uploads')
  <2>1. DocKept(Artist, Toon(c)) /\ uploads' = uploads
    BY <1>3, ToonKept
  <2> QED BY <1>0, <2>1 DEF DocKept
<1> QED BY <1>1, <1>2, <1>3, NextActs

\* While the artist's queue is empty a reader sees just the cartoons uploaded.
LEMMA ToonsSeen ==
    ASSUME TypeOK, FreshInv, ToonInv, NEW u \in Readers, pending[Artist] = << >>
    PROVE  CartoonsSeen(u) = 1..uploads
<1>0. /\ u \in User /\ u # Artist /\ pending[u] \in Seq(Write(u)) /\ Len(pending[u]) \in Nat
      /\ uploads \in Nat /\ uploads <= MaxUploads /\ DOMAIN db = Docs
  BY FansBoundsAssumption DEF Readers, TypeOK, QueuesOK, DocsOK, CountsOK
<1> SUFFICES ASSUME NEW c \in 1..MaxUploads, c <= uploads PROVE Sees(u, Toon(c))
  <2>1. 1..uploads \subseteq CartoonsSeen(u)
    <3> SUFFICES ASSUME NEW c \in 1..uploads PROVE c \in CartoonsSeen(u)
      OBVIOUS
    <3>1. c \in 1..MaxUploads /\ c <= uploads
      BY <1>0, FansBoundsAssumption
    <3> QED BY <3>1 DEF CartoonsSeen
  <2>2. CartoonsSeen(u) \subseteq 1..uploads
    BY UnbornUnseen
  <2> QED BY <2>1, <2>2
<1>1. Toon(c) \in Docs
  BY DEF Docs
<1>2. db[Toon(c)] # NoDoc
  BY DEF ToonInv, Ends
<1>3. ASSUME NEW i \in 1..Len(pending[u])
      PROVE  /\ pending[u][i].op \in {"set", "delete"} /\ pending[u][i].val = EmptyDoc
             /\ pending[u][i].doc # Toon(c)
  <2> DEFINE w == pending[u][i]
  <2>1. w \in Write(u)
    BY <1>0
  <2> HIDE DEF w
  <2>2. w.op \in {"set", "delete"} /\ w.val = EmptyDoc
    BY <1>0, <2>1, WriteFacts
  <2>3. w.doc # Toon(c)
    <3>1. \/ w.doc = Star(u) \/ w.doc = Fan(u) \/ \E e : w.doc = Feed(u, e)
          \/ \E e : w.doc = Notice(u, e)
      BY <1>0, <2>1 DEF Write, WriteOf
    <3> QED BY <3>1, DocsApart
  <2> QED BY <2>2, <2>3 DEF w
<1>4. Ends(db, pending[u], Toon(c), TRUE)
  BY <1>2, <1>3 DEF Ends
<1> QED BY <1>0, <1>1, <1>3, <1>4, OverlayEnds, AbsentAssumption DEF Sees, View
-----------------------------------------------------------------------------
(* The feed                                                                *)

\* Of the handlers that fill a feed, those that found the first n cartoons.
Whole(n) == {h \in FillHandler : h.cartoons = 1..n}

\* No tap of u and upload were under way together, and no work was cut short.
Fair(u) == ~raced[u] /\ ~short[u] /\ ~short[Artist]

\* Nothing of u that could change a feed is under way.
Calm(u) ==
    /\ pending[u] = << >> /\ queries[u] = << >>
    /\ \A i \in 1..Len(main[u]) : main[u][i] \in CheckHandler

\* Of the first n writes the last to d took effect, unless the handler of a
\* star is still to come behind it.
ReachedSince(data, queue, n, d) ==
    \A i \in 1..n :
        (/\ queue[i].doc = d
         /\ \A j \in i+1..n : queue[j].doc # d
         /\ \A j \in i+1..Len(queue) : queue[j].then \notin Stars(Visits))
            => (data[d] # NoDoc <=> queue[i].op = "set")

\* Work of the artist's that will enter cartoon c in u's feed is under way ...
Brought(u, c) ==
    \/ \E i \in 1..Len(queries[Artist]) : queries[Artist][i].cartoon = c
    \/ \E i \in 1..Len(main[Artist]) :
          main[Artist][i].cartoon = c /\ u \in main[Artist][i].fans
    \/ \E i \in 1..Len(pending[Artist]) : pending[Artist][i].doc = Feed(u, c)

\* ... or none that would enter any.
Spared(u) ==
    /\ \A i \in 1..Len(main[Artist]) : u \notin main[Artist][i].fans
    /\ \A i \in 1..Len(pending[Artist]) : \A c : pending[Artist][i].doc # Feed(u, c)

\* The feed is what the last tap asked for, but for what the artist's device
\* is about to bring; what it delivered is there.
CalmFeed(u) ==
    /\ \A c \in 1..uploads, i \in 1..sent[Artist] :
          pending[Artist][i].doc = Feed(u, c) => Exists(Feed(u, c))
    /\ want[u] => \A c \in 1..uploads : Exists(Feed(u, c)) \/ Brought(u, c)
    /\ ~want[u] => Spared(u) /\ \A c \in 1..uploads : ~Exists(Feed(u, c))

\* What u's device is about to do with the feed, handler by handler: after
\* the star's the fan's, then the query, its answer, and the writes.
FansLead(u) == Leads(Thens(pending[u]), main[u], FansOf(Visits), Yes, want[u])
FansCame(u) == Came(Thens(pending[u]), main[u], FansOf(Visits))
AsksLead(u) == LastIn(queries[u], AskCartoons, Yes, want[u])
AsksCame(u) == NoneIn(queries[u], AskCartoons)
FillsLead(u) ==
    /\ Leads(Thens(pending[u]), main[u], FillHandler, Yes, want[u])
    /\ Leads(Thens(pending[u]), main[u], FillHandler, Whole(uploads), TRUE)
FillsCame(u) == Came(Thens(pending[u]), main[u], FillHandler)
FeedEnds(u) == \A c \in 1..uploads : Ends(db, pending[u], Feed(u, c), want[u])

Chain(u) ==
    StarCame(u, Visits) =>
        /\ FansLead(u)
        /\ FansCame(u) =>
              /\ AsksLead(u)
              /\ AsksCame(u) => FillsLead(u) /\ (FillsCame(u) => FeedEnds(u))
FeedReached(u) == \A c \in 1..uploads : ReachedSince(db, pending[u], sent[u], Feed(u, c))
BusyFeed(u) == FeedReached(u) /\ Chain(u)

\* Either account, but not both at once, is doing something about u's feed.
FeedOf(u) == (Calm(u) /\ CalmFeed(u)) \/ (Idle(Artist) /\ BusyFeed(u))
FeedInv == \A u \in Readers : Fair(u) => ~torn[u] /\ FeedOf(u)

\* It holds when nothing was done.
LEMMA InitFeed == Init => FeedInv
<1> SUFFICES ASSUME Init, NEW u \in Readers PROVE ~torn[u] /\ FeedOf(u)
  BY DEF FeedInv
<1>1. /\ u \in User /\ Artist \in User /\ torn[u] = FALSE /\ want[u] = FALSE /\ uploads = 0
      /\ pending[u] = << >> /\ queries[u] = << >> /\ main[u] = << >>
      /\ main[Artist] = << >> /\ pending[Artist] = << >>
  BY ArtistAssumption DEF Init, FirestoreInit, Readers
<1>2. Calm(u)
  BY <1>1 DEF Calm
<1>3. Spared(u) /\ 1..uploads = {}
  BY <1>1 DEF Spared
<1>4. CalmFeed(u)
  BY <1>1, <1>3 DEF CalmFeed
<1> QED BY <1>1, <1>2, <1>4 DEF FeedOf

\* Facts about a reader's queues, and the artist's.
LEMMA ReaderFacts ==
    ASSUME TypeOK, NEW u \in Readers
    PROVE  /\ u \in User /\ u # Artist /\ Artist \in User
           /\ pending[u] \in Seq(Write(u)) /\ Len(pending[u]) \in Nat
           /\ main[u] \in Seq(Handler(u)) /\ Len(main[u]) \in Nat
           /\ queries[u] \in Seq(AskCartoons) /\ Len(queries[u]) \in Nat
           /\ Handler(u) = TapHandler \cup CheckHandler \cup FillHandler
           /\ sent[u] \in Nat /\ sent[u] <= Len(pending[u])
           /\ want[u] \in BOOLEAN
           /\ uploads \in Nat /\ 1..uploads \subseteq 1..MaxUploads
           /\ \A T : /\ Longer(main[u], main[u], T) /\ Longer(pending[u], pending[u], T)
                     /\ Longer(queries[u], queries[u], T)
<1>1. /\ u \in User /\ u # Artist /\ Artist \in User
      /\ pending[u] \in Seq(Write(u)) /\ main[u] \in Seq(Handler(u))
      /\ queries[u] \in Seq(AskCartoons)
      /\ Handler(u) = TapHandler \cup CheckHandler \cup FillHandler
      /\ sent[u] \in Nat /\ sent[u] <= Len(pending[u])
      /\ want[u] \in BOOLEAN
  BY ArtistAssumption DEF Readers, TypeOK, QueuesOK, HistoryOK, Query, Handler
<1>2. Len(pending[u]) \in Nat /\ Len(main[u]) \in Nat /\ Len(queries[u]) \in Nat
  BY <1>1
<1>3. uploads \in Nat /\ 1..uploads \subseteq 1..MaxUploads
  BY FansBoundsAssumption DEF TypeOK, CountsOK
<1> QED BY <1>1, <1>2, <1>3, SameLonger

\* No write carries a handler that fills a feed.
LEMMA ThensFills ==
    ASSUME TypeOK, NEW u \in Readers
    PROVE  NoneIn(Thens(pending[u]), FillHandler)
<1>1. pending[u] \in Seq(Write(u)) /\ u \in User
  BY ReaderFacts
<1>2. ASSUME NEW i \in 1..Len(pending[u]) PROVE pending[u][i].then \notin FillHandler
  <2>1. pending[u][i] \in Write(u)
    BY <1>1
  <2>2. pending[u][i].then \in TapHandler \cup {Nothing}
    BY <1>1, <2>1, WriteFacts
  <2>3. \A h \in TapHandler : h \notin FillHandler
    BY DEF TapHandler, FillHandler
  <2> QED BY <2>2, <2>3, AbsentAssumption
<1> QED BY <1>1, <1>2, ThensFacts DEF NoneIn

\* Behind the last handler of a star, what was delivered is there.
LEMMA SinceReached ==
    ASSUME TypeOK, NEW u \in Readers, NoneIn(Thens(pending[u]), Stars(Visits)),
           NEW d, ReachedSince(db, pending[u], sent[u], d)
    PROVE  Reached(db, pending[u], sent[u], d)
<1>1. \A i \in 1..Len(pending[u]) : pending[u][i].then \notin Stars(Visits)
  BY ReaderFacts, ThensFacts DEF NoneIn
<1>2. \A i \in 1..sent[u] : i+1..Len(pending[u]) \subseteq 1..Len(pending[u])
  BY ReaderFacts
<1> QED BY <1>1, <1>2 DEF Reached, ReachedSince

\* A calm device has no handler on its way that could change the feed.
LEMMA CalmCame ==
    ASSUME TypeOK, NEW u \in Readers, Calm(u)
    PROVE  /\ StarCame(u, Visits) /\ FansCame(u) /\ AsksCame(u) /\ FillsCame(u)
           /\ FansLead(u) /\ AsksLead(u) /\ FillsLead(u)
<1>1. \A i \in 1..Len(main[u]) : /\ main[u][i] \notin Stars(Visits)
                                 /\ main[u][i] \notin FansOf(Visits)
                                 /\ main[u][i] \notin FillHandler
  BY Kinds DEF Calm
<1>2. Thens(pending[u]) = << >> /\ queries[u] = << >>
  BY DEF Calm, Thens
<1>3. StarCame(u, Visits) /\ FansCame(u) /\ AsksCame(u) /\ FillsCame(u)
  BY <1>1, <1>2 DEF StarCame, FansCame, AsksCame, FillsCame, Came, NoneIn
<1> QED BY <1>3, NoneLast DEF FansCame, FansLead, AsksCame, AsksLead, FillsCame, FillsLead, Came, Leads

\* With both devices doing nothing about it, the two say the same of the feed.
LEMMA CalmAgree ==
    ASSUME TypeOK, NEW u \in Readers, Calm(u)
    PROVE  /\ Idle(Artist) /\ BusyFeed(u) => CalmFeed(u)
           /\ Idle(Artist) /\ CalmFeed(u) => BusyFeed(u)
           /\ BusyFeed(u) => \A c \in 1..uploads : Exists(Feed(u, c)) <=> want[u]
<1>1. pending[u] = << >> /\ sent[u] = 0
  BY ReaderFacts DEF Calm
<1>2. \A c : Ends(db, pending[u], Feed(u, c), want[u]) <=> (Exists(Feed(u, c)) <=> want[u])
  BY <1>1 DEF Ends, Exists
<1>3. BusyFeed(u) <=> \A c \in 1..uploads : Exists(Feed(u, c)) <=> want[u]
  <2>1. FeedReached(u)
    BY <1>1 DEF FeedReached, ReachedSince
  <2> QED BY <1>2, <2>1, CalmCame DEF BusyFeed, Chain, FeedEnds
<1>4. ASSUME Idle(Artist)
      PROVE  /\ Spared(u) /\ (\A c : ~Brought(u, c)) /\ 1..sent[Artist] = {}
  <2>1. pending[Artist] = << >> /\ main[Artist] = << >> /\ queries[Artist] = << >>
    BY <1>4 DEF Idle, Settled
  <2>2. sent[Artist] = 0
    BY <2>1, ArtistAssumption DEF TypeOK, QueuesOK
  <2> QED BY <2>1, <2>2 DEF Spared, Brought
<1>5. want[u] \in BOOLEAN
  BY ReaderFacts
<1> QED BY <1>3, <1>4, <1>5 DEF CalmFeed

\* With both devices idle u's feed holds every cartoon or none, as u's last
\* tap asked.
LEMMA FeedHolds == ASSUME TypeOK, FeedInv PROVE FeedAgrees
<1> SUFFICES ASSUME NEW u \in Readers, Idle(u), Idle(Artist), Fair(u)
             PROVE  \A c \in 1..uploads : Exists(Feed(u, c)) <=> want[u]
  BY DEF FeedAgrees, Fair
<1>1. Calm(u)
  BY DEF Idle, Settled, Calm
<1>2. FeedOf(u)
  BY DEF FeedInv
<1>3. BusyFeed(u)
  BY <1>1, <1>2, CalmAgree DEF FeedOf
<1> QED BY <1>1, <1>3, CalmAgree
\* New writes leave what was delivered alone, ...
LEMMA SinceLonger ==
    ASSUME NEW data, NEW d, NEW q, NEW r, NEW n \in Nat, Longer(q, r, {}), n <= Len(q),
           ReachedSince(data, q, n, d)
    PROVE  ReachedSince(data, r, n, d)
<1> SUFFICES ASSUME NEW i \in 1..n, r[i].doc = d, \A j \in i+1..n : r[j].doc # d,
                    \A j \in i+1..Len(r) : r[j].then \notin Stars(Visits)
             PROVE  data[d] # NoDoc <=> r[i].op = "set"
  BY DEF ReachedSince
<1>1. /\ \A j \in 1..Len(q) : r[j] = q[j]
      /\ Len(q) \in Nat /\ Len(r) \in Nat /\ Len(r) >= Len(q)
  BY DEF Longer
<1>2. q[i] = r[i] /\ \A j \in i+1..n : q[j] = r[j]
  BY <1>1
<1>3. \A j \in i+1..Len(q) : q[j] = r[j] /\ j \in i+1..Len(r)
  BY <1>1
<1> QED BY <1>2, <1>3 DEF ReachedSince

\* ... a delivery decides the document it is to, ...
LEMMA SinceTransmit ==
    ASSUME NEW data, NEW now, NEW d, NEW q, NEW n \in Nat, Len(q) \in Nat, n < Len(q),
           q[n + 1].doc # d => now[d] = data[d],
           q[n + 1].doc = d => (now[d] # NoDoc <=> q[n + 1].op = "set"),
           ReachedSince(data, q, n, d)
    PROVE  ReachedSince(now, q, n + 1, d)
BY DEF ReachedSince

\* ... and an acknowledgement takes the oldest write off.
LEMMA SincePop ==
    ASSUME NEW data, NEW d, NEW q, NEW r, NEW e, NEW n \in Nat, n > 0, n <= Len(q),
           Popped(q, r, e), ReachedSince(data, q, n, d)
    PROVE  ReachedSince(data, r, n - 1, d)
<1> SUFFICES ASSUME NEW i \in 1..n-1, r[i].doc = d, \A j \in i+1..n-1 : r[j].doc # d,
                    \A j \in i+1..Len(r) : r[j].then \notin Stars(Visits)
             PROVE  data[d] # NoDoc <=> r[i].op = "set"
  BY DEF ReachedSince
<1>1. /\ Len(q) \in Nat /\ Len(r) = Len(q) - 1 /\ \A j \in 1..Len(r) : r[j] = q[j + 1]
  BY DEF Popped
<1>2. i + 1 \in 1..n /\ q[i + 1] = r[i]
  BY <1>1
<1>3. ASSUME NEW j \in i+2..n PROVE q[j].doc # d
  <2>1. j - 1 \in i+1..n-1 /\ r[j - 1] = q[j]
    BY <1>1
  <2> QED BY <2>1
<1>4. ASSUME NEW j \in i+2..Len(q) PROVE q[j].then \notin Stars(Visits)
  <2>1. j - 1 \in i+1..Len(r) /\ r[j - 1] = q[j]
    BY <1>1
  <2> QED BY <2>1
<1>5. (i + 1) + 1 = i + 2
  OBVIOUS
<1> QED BY <1>2, <1>3, <1>4, <1>5 DEF ReachedSince

\* A step that keeps every kind of handler, the queries and the documents
\* under way keeps the chain.
LEMMA KeptChain ==
    ASSUME TypeOK, NEW u \in Readers, Chain(u), want'[u] = want[u], uploads' = uploads,
           queries'[u] = queries[u],
           Kept(u, Stars(Visits)), Kept(u, FansOf(Visits)), Kept(u, FillHandler),
           StarCame(u, Visits) /\ FeedEnds(u) => FeedEnds(u)'
    PROVE  Chain(u)'
<1>1. want[u] \in BOOLEAN /\ TRUE \in BOOLEAN
  BY ReaderFacts
<1>2. StarCame(u, Visits)' <=> StarCame(u, Visits)
  BY DEF StarCame, Kept
<1>3. (FansLead(u) => FansLead(u)') /\ (FansCame(u)' <=> FansCame(u))
  BY <1>1 DEF FansLead, FansCame, Kept
<1>4. (AsksLead(u) => AsksLead(u)') /\ (AsksCame(u)' <=> AsksCame(u))
  BY DEF AsksLead, AsksCame
<1>5. (FillsLead(u) => FillsLead(u)') /\ (FillsCame(u)' <=> FillsCame(u))
  <2>1. /\ Leads(Thens(pending[u]), main[u], FillHandler, Yes, want[u])
              => Leads(Thens(pending'[u]), main'[u], FillHandler, Yes, want[u])
        /\ Leads(Thens(pending[u]), main[u], FillHandler, Whole(uploads), TRUE)
              => Leads(Thens(pending'[u]), main'[u], FillHandler, Whole(uploads), TRUE)
        /\ FillsCame(u)' <=> FillsCame(u)
    BY <1>1 DEF FillsCame, Kept
  <2> QED BY <2>1 DEF FillsLead
<1> QED BY <1>2, <1>3, <1>4, <1>5 DEF Chain

\* So does one that keeps every handler there may be.
LEMMA ChainKept ==
    ASSUME TypeOK, NEW u \in Readers, Chain(u), want'[u] = want[u], uploads' = uploads,
           queries'[u] = queries[u], \A T : Nothing \notin T => Kept(u, T),
           StarCame(u, Visits) /\ FeedEnds(u) => FeedEnds(u)'
    PROVE  Chain(u)'
<1>1. Nothing \notin Stars(Visits) /\ Nothing \notin FansOf(Visits) /\ Nothing \notin FillHandler
  BY Kinds, AbsentAssumption
<1>2. Kept(u, Stars(Visits)) /\ Kept(u, FansOf(Visits)) /\ Kept(u, FillHandler)
  BY <1>1
<1> QED BY <1>2, KeptChain

\* A device whose queues stay as they are keeps what it is doing.
LEMMA BusyStill ==
    ASSUME TypeOK, NEW u \in Readers, BusyFeed(u), want'[u] = want[u], uploads' = uploads,
           pending'[u] = pending[u], main'[u] = main[u], queries'[u] = queries[u],
           sent'[u] \in {0, sent[u]}, \A c \in 1..uploads : db'[Feed(u, c)] = db[Feed(u, c)]
    PROVE  BusyFeed(u)'
<1>1. \A T : Kept(u, T)
  BY DEF Kept
<1>2. FeedEnds(u) => FeedEnds(u)'
  BY DEF FeedEnds, Ends
<1>3. Chain(u)'
  BY <1>1, <1>2, ChainKept DEF BusyFeed
<1>4. FeedReached(u)'
  <2> SUFFICES ASSUME NEW c \in 1..uploads
               PROVE  ReachedSince(db', pending[u], sent'[u], Feed(u, c))
    BY DEF FeedReached
  <2>1. ReachedSince(db, pending[u], sent[u], Feed(u, c)) /\ sent[u] \in Nat
    BY ReaderFacts DEF BusyFeed, FeedReached
  <2>2. CASE sent'[u] = 0
    BY <2>2 DEF ReachedSince
  <2>3. CASE sent'[u] = sent[u]
    BY <2>1, <2>3 DEF ReachedSince
  <2> QED BY <2>2, <2>3
<1> QED BY <1>3, <1>4 DEF BusyFeed

\* A step that only adds writes: what was delivered stays.
LEMMA MovesReached ==
    ASSUME TypeOK, NEW u \in Readers, NEW p, NEW m, NEW q, Moves(u, p, m, q),
           Longer(pending[u], p, {}), uploads' = uploads, FeedReached(u)
    PROVE  FeedReached(u)'
<1>1. pending'[u] = p /\ db' = db /\ sent'[u] = sent[u]
  BY ReaderFacts DEF Moves
<1>2. \A c \in 1..uploads : ReachedSince(db, p, sent[u], Feed(u, c))
  BY ReaderFacts, SinceLonger DEF FeedReached
<1> QED BY <1>1, <1>2 DEF FeedReached
\* A tap keeps it: what is under way begins anew behind the star's write.
LEMMA TapFeed ==
    ASSUME TypeOK, NEW u \in Readers, TapFan(u) \/ TapUnfan(u), Fair(u)'
    PROVE  ~torn'[u] /\ Idle(Artist)' /\ BusyFeed(u)'
<1>0. u \in User /\ pending[u] \in Seq(Write(u)) /\ main[u] \in Seq(Handler(u))
  BY ReaderFacts
<1>1. PICK w \in Write(u) :
         /\ w.then \in Stars({visits[u]})
         /\ Moves(u, Append(pending[u], w), main[u], queries[u])
  BY <1>0, TapDoes
<1>2. torn'[u] = FALSE /\ Idle(Artist)
  BY <1>0, TapDoes DEF Fair
<1>3. Idle(Artist)'
  BY <1>1, <1>2, ReaderFacts DEF Moves, Idle, Settled
<1> DEFINE p == Append(pending[u], w)
<1>4. Pushed(pending[u], p, w) /\ p \in Seq(Write(u)) /\ Len(p) = Len(pending[u]) + 1
      /\ p[Len(p)] = w
  BY <1>0, AppendPushes
<1>5. pending'[u] = p /\ main'[u] = main[u] /\ sent'[u] = sent[u]
  BY <1>1, ReaderFacts DEF Moves
<1> HIDE DEF p
<1>6. w.then \in Stars(Visits)
  BY <1>1, Kinds
<1>7. ~StarCame(u, Visits)'
  <2>1. Pushed(Thens(pending[u]), Thens(p), w.then)
    BY <1>0, <1>4, ThensFollow
  <2> QED BY <1>5, <1>6, <2>1, LeadsPush DEF StarCame
<1>8. FeedReached(u)'
  <2> SUFFICES ASSUME NEW c, NEW i \in 1..sent[u],
                      \A j \in i+1..Len(p) : p[j].then \notin Stars(Visits)
               PROVE  FALSE
    BY <1>5 DEF FeedReached, ReachedSince
  <2>1. Len(p) \in i+1..Len(p)
    BY <1>4, ReaderFacts
  <2> QED BY <1>4, <1>6, <2>1
<1> QED BY <1>2, <1>3, <1>7, <1>8 DEF BusyFeed, Chain

\* The star's handler hands on what the last tap asked for.
LEMMA StarFeed ==
    ASSUME TypeOK, NEW u \in Readers, FanInv(u), ~torn[u], BusyFeed(u),
           StarStored(u) \/ StarDeleted(u)
    PROVE  BusyFeed(u)'
<1>0. u \in User /\ pending[u] \in Seq(Write(u)) /\ main[u] \in Seq(Handler(u))
      /\ want[u] \in BOOLEAN
  BY ReaderFacts
<1> DEFINE e == Head(main[u])
           m == Tail(main[u])
<1>1. PICK w \in Write(u) :
         /\ w.then \in FansOf({e.visit}) /\ (w.then \in Yes <=> e \in Yes)
         /\ Moves(u, Append(pending[u], w), m, queries[u])
  BY <1>0, StarDoes
<1>2. e \in Stars(Visits) /\ UNCHANGED fansVars /\ Popped(main[u], m, e)
  BY <1>0, StarDoes, TailPops
<1> DEFINE p == Append(pending[u], w)
<1>3. Pushed(pending[u], p, w) /\ p \in Seq(Write(u))
  BY <1>0, AppendPushes
<1>4. pending'[u] = p /\ main'[u] = m /\ want'[u] = want[u] /\ uploads' = uploads
  BY <1>1, <1>2, <1>0 DEF Moves, fansVars, historyVars
<1>5. w.then \in FansOf(Visits) /\ w.then \notin Stars(Visits)
  <2>1. w.then \in FansOf(Visits)
    <3> HIDE DEF e
    <3> QED BY <1>1, Kinds
  <2>2. \A h \in FansOf(Visits) : h \notin Stars(Visits)
    BY DEF FansOf, Stars
  <2> QED BY <2>1, <2>2
<1> HIDE DEF p, e, m
<1>6. Pushed(Thens(pending[u]), Thens(p), w.then)
  BY <1>0, <1>3, ThensFollow
<1>7. Came(Thens(p), m, Stars(Visits)) => (e \in Yes <=> want[u])
  <2>1. Longer(Thens(pending[u]), Thens(p), Stars(Visits))
    BY <1>5, <1>6, PushedLonger
  <2>2. Leads(Thens(pending[u]), main[u], Stars(Visits), Yes, want[u])
    BY DEF FanInv, StarLeads
  <2>3. want[u] \in BOOLEAN /\ Popped(main[u], m, e) /\ e \in Stars(Visits)
    BY <1>0, <1>2
  <2>4. /\ Leads(Thens(p), m, Stars(Visits), Yes, want[u])
        /\ Came(Thens(p), m, Stars(Visits)) => (e \in Yes <=> want[u])
    BY <2>1, <2>2, <2>3, LeadsPop
  <2> QED BY <2>4
<1>8. Leads(Thens(p), m, FansOf(Visits), Yes, w.then \in Yes) /\ ~Came(Thens(p), m, FansOf(Visits))
  BY <1>5, <1>6, LeadsPush
<1>9. Chain(u)'
  <2>1. StarCame(u, Visits)' => FansLead(u)'
    BY <1>1, <1>4, <1>7, <1>8 DEF StarCame, FansLead, Leads, LastIn
  <2>2. ~FansCame(u)'
    BY <1>4, <1>8 DEF FansCame
  <2> QED BY <2>1, <2>2 DEF Chain
<1>10. FeedReached(u)'
  <2>1. Longer(pending[u], p, {})
    BY <1>3, PushedLonger
  <2> QED BY <1>1, <1>4, <2>1, MovesReached DEF BusyFeed, p
<1> QED BY <1>9, <1>10 DEF BusyFeed

\* So does the fan's: its query asks for that.
LEMMA FanFeed ==
    ASSUME TypeOK, NEW u \in Readers, BusyFeed(u), Fanned(u) \/ Unfanned(u)
    PROVE  BusyFeed(u)'
<1>0. u \in User /\ pending[u] \in Seq(Write(u)) /\ main[u] \in Seq(Handler(u))
      /\ want[u] \in BOOLEAN /\ queries[u] \in Seq(AskCartoons)
  BY ReaderFacts
<1> DEFINE e == Head(main[u])
           m == Tail(main[u])
<1>1. PICK p \in Seq(Write(u)), q \in AskCartoons :
         /\ Longer(pending[u], p, {})
         /\ \A i \in Len(pending[u])+1..Len(p) : p[i].then = Nothing
         /\ q \in Yes <=> e \in Yes
         /\ Moves(u, p, m, Append(queries[u], q))
  BY <1>0, FanDoes
<1>2. /\ main[u] # << >> /\ e \in FansOf(Visits) /\ Popped(main[u], m, e)
      /\ UNCHANGED <<uploads, historyVars>>
  BY <1>0, FanDoes, TailPops
<1>3. /\ pending'[u] = p /\ main'[u] = m /\ want'[u] = want[u] /\ uploads' = uploads
      /\ queries'[u] = Append(queries[u], q)
  BY <1>1, <1>2, <1>0 DEF Moves, historyVars
<1>4. Pushed(queries[u], Append(queries[u], q), q)
  BY <1>0, AppendPushes
<1>5. e \notin Stars(Visits) /\ Nothing \notin Stars(Visits) /\ Nothing \notin FansOf(Visits)
  BY <1>2, Kinds DEF FansOf, Stars
<1> HIDE DEF e, m
<1>6. /\ Longer(Thens(pending[u]), Thens(p), Stars(Visits))
      /\ Longer(Thens(pending[u]), Thens(p), FansOf(Visits))
  BY <1>0, <1>1, <1>5, ThensFollow
<1>7. StarCame(u, Visits)' <=> StarCame(u, Visits)
  BY <1>2, <1>3, <1>5, <1>6, CamePop DEF StarCame
<1>8. ASSUME FansLead(u)
      PROVE  FansLead(u)' /\ (FansCame(u)' => (e \in Yes <=> want[u]))
  BY <1>0, <1>2, <1>3, <1>6, <1>8, LeadsPop DEF FansLead, FansCame
<1>9. LastIn(queries'[u], AskCartoons, Yes, q \in Yes) /\ ~AsksCame(u)'
  BY <1>3, <1>4, LastPush DEF AsksCame
<1>10. (e \in Yes <=> want[u]) => AsksLead(u)'
  BY <1>1, <1>3, <1>9 DEF AsksLead, LastIn
<1>11. Chain(u)'
  BY <1>7, <1>8, <1>9, <1>10 DEF BusyFeed, Chain
<1>12. FeedReached(u)'
  BY <1>1, <1>3, MovesReached DEF BusyFeed
<1> QED BY <1>11, <1>12 DEF BusyFeed

\* So does the query's answer: it finds every cartoon.
LEMMA AnswerFeed ==
    ASSUME TypeOK, FreshInv, ToonInv, NEW u \in Readers, BusyFeed(u), Idle(Artist),
           AnswerQuery(u)
    PROVE  BusyFeed(u)'
<1>0. u \in User /\ pending[u] \in Seq(Write(u)) /\ main[u] \in Seq(Handler(u))
      /\ Handler(u) = TapHandler \cup CheckHandler \cup FillHandler
      /\ want[u] \in BOOLEAN /\ queries[u] \in Seq(AskCartoons)
      /\ Longer(pending[u], pending[u], {})
  BY ReaderFacts
<1> DEFINE e == Head(queries[u])
           q == Tail(queries[u])
<1>1. PICK h \in FillHandler :
         /\ h \in Yes <=> e \in Yes
         /\ h.cartoons = CartoonsSeen(u)
         /\ Moves(u, pending[u], Append(main[u], h), q)
  BY AnswerDoes
<1>2. /\ Popped(queries[u], q, e) /\ e \in AskCartoons /\ UNCHANGED <<uploads, want>>
  BY <1>0, AnswerDoes, TailPops
<1> DEFINE m == Append(main[u], h)
<1>3. /\ pending'[u] = pending[u] /\ main'[u] = m /\ want'[u] = want[u] /\ uploads' = uploads
      /\ queries'[u] = q
  BY <1>1, <1>2, <1>0 DEF Moves
<1>4. Pushed(main[u], m, h)
  BY <1>0, <1>1, AppendPushes
<1>5. h \in Whole(uploads)
  <2>1. pending[Artist] = << >>
    BY DEF Idle, Settled
  <2> QED BY <1>1, <2>1, ToonsSeen DEF Whole
<1>6. h \notin Stars(Visits) /\ h \notin FansOf(Visits)
  BY <1>1, Kinds
<1> HIDE DEF e, m, q
<1>7. Kept(u, Stars(Visits)) /\ Kept(u, FansOf(Visits))
  <2>1. Longer(main[u], m, Stars(Visits)) /\ Longer(main[u], m, FansOf(Visits))
    BY <1>4, <1>6, PushedLonger
  <2> QED BY <1>0, <1>1, <2>1, MovesKept DEF m
<1>8. /\ StarCame(u, Visits)' <=> StarCame(u, Visits)
      /\ FansCame(u)' <=> FansCame(u)
      /\ FansLead(u) => FansLead(u)'
  BY <1>0, <1>3, <1>7 DEF Kept, StarCame, FansCame, FansLead
<1>9. ASSUME AsksLead(u) PROVE AsksLead(u)' /\ (AsksCame(u)' => (e \in Yes <=> want[u]))
  <2> DEFINE b == want[u]
  <2>1. LastIn(queries[u], AskCartoons, Yes, b) /\ b \in BOOLEAN
    BY <1>0, <1>9 DEF AsksLead
  <2> HIDE DEF b
  <2>2. /\ LastIn(queries[u], AskCartoons, Yes, b) => LastIn(q, AskCartoons, Yes, b)
        /\ e \notin AskCartoons => (NoneIn(q, AskCartoons) <=> NoneIn(queries[u], AskCartoons))
        /\ e \in AskCartoons => ~NoneIn(queries[u], AskCartoons)
        /\ e \in AskCartoons /\ LastIn(queries[u], AskCartoons, Yes, b) /\ NoneIn(q, AskCartoons)
              => (e \in Yes <=> b)
    BY <1>2, <2>1, LastPop
  <2> QED BY <1>2, <1>3, <2>1, <2>2 DEF AsksLead, AsksCame, b
<1>10. /\ LastIn(m, FillHandler, Yes, h \in Yes)
       /\ LastIn(m, FillHandler, Whole(uploads), h \in Whole(uploads))
       /\ ~NoneIn(m, FillHandler)
  BY <1>1, <1>4, LastPush
<1>11. ~FillsCame(u)'
  BY <1>3, <1>10 DEF FillsCame, Came
<1>12. (e \in Yes <=> want[u]) => FillsLead(u)'
  <2> SUFFICES ASSUME e \in Yes <=> want[u]
               PROVE  /\ Leads(Thens(pending[u]), m, FillHandler, Yes, want[u])
                      /\ Leads(Thens(pending[u]), m, FillHandler, Whole(uploads), TRUE)
    BY <1>3 DEF FillsLead
  <2>1. LastIn(m, FillHandler, Yes, want[u]) /\ LastIn(m, FillHandler, Whole(uploads), TRUE)
    BY <1>1, <1>5, <1>10 DEF LastIn
  <2>2. /\ LastIn(Thens(pending[u]), FillHandler, Yes, want[u])
        /\ LastIn(Thens(pending[u]), FillHandler, Whole(uploads), TRUE)
    BY ThensFills, NoneLast
  <2> QED BY <2>1, <2>2 DEF Leads
<1>13. Chain(u)'
  BY <1>8, <1>9, <1>11, <1>12 DEF BusyFeed, Chain
<1>14. FeedReached(u)'
  BY <1>0, <1>1, <1>3, MovesReached DEF BusyFeed
<1> QED BY <1>13, <1>14 DEF BusyFeed
\* The handler that fills the feed: the last one decides each entry.
LEMMA FillFeed ==
    ASSUME TypeOK, NEW u \in Readers, BusyFeed(u), Filled(u)
    PROVE  BusyFeed(u)'
<1>0. u \in User /\ pending[u] \in Seq(Write(u)) /\ main[u] \in Seq(Handler(u))
      /\ want[u] \in BOOLEAN
  BY ReaderFacts
<1> DEFINE e == Head(main[u])
           m == Tail(main[u])
<1>1. PICK p \in Seq(Write(u)) :
         /\ Longer(pending[u], p, {})
         /\ \A i \in Len(pending[u])+1..Len(p) :
               /\ p[i].then = Nothing
               /\ p[i].op = "set" <=> e \in Yes
         /\ \A c \in e.cartoons : \E i \in Len(pending[u])+1..Len(p) : p[i].doc = Feed(u, c)
         /\ Moves(u, p, m, queries[u])
  <2> HIDE DEF e, m
  <2> QED BY <1>0, FillDoes DEF e, m
<1>2. e \in FillHandler /\ UNCHANGED fansVars /\ Popped(main[u], m, e)
  BY <1>0, FillDoes, TailPops
<1>3. /\ pending'[u] = p /\ main'[u] = m /\ want'[u] = want[u] /\ uploads' = uploads
      /\ queries'[u] = queries[u] /\ db' = db
  BY <1>1, <1>2, <1>0 DEF Moves, fansVars, historyVars
<1>4. /\ e \notin Stars(Visits) /\ e \notin FansOf(Visits)
      /\ Nothing \notin Stars(Visits) /\ Nothing \notin FansOf(Visits) /\ Nothing \notin FillHandler
  BY <1>2, Kinds, AbsentAssumption
<1> HIDE DEF e, m
<1>5. Kept(u, Stars(Visits)) /\ Kept(u, FansOf(Visits))
  BY <1>0, <1>1, <1>2, <1>4, MovesKept
<1>6. /\ StarCame(u, Visits)' <=> StarCame(u, Visits)
      /\ FansCame(u)' <=> FansCame(u)
      /\ FansLead(u) => FansLead(u)'
      /\ AsksLead(u) => AsksLead(u)'
      /\ AsksCame(u)' <=> AsksCame(u)
  BY <1>0, <1>3, <1>5 DEF Kept, StarCame, FansCame, FansLead, AsksLead, AsksCame
<1>7. Longer(Thens(pending[u]), Thens(p), FillHandler)
  BY <1>0, <1>1, <1>4, ThensFollow
<1>8. ASSUME FillsLead(u)
      PROVE  /\ FillsLead(u)'
             /\ FillsCame(u)' => (e \in Yes <=> want[u]) /\ e \in Whole(uploads)
  <2>1. /\ Leads(Thens(p), m, FillHandler, Yes, want[u])
        /\ Came(Thens(p), m, FillHandler) => (e \in Yes <=> want[u])
    BY <1>0, <1>2, <1>7, <1>8, LeadsPop DEF FillsLead
  <2>2. /\ Leads(Thens(p), m, FillHandler, Whole(uploads), TRUE)
        /\ Came(Thens(p), m, FillHandler) => e \in Whole(uploads)
    <3>1. ASSUME NEW b \in BOOLEAN,
                 Leads(Thens(pending[u]), main[u], FillHandler, Whole(uploads), b)
          PROVE  /\ Leads(Thens(p), m, FillHandler, Whole(uploads), b)
                 /\ Came(Thens(p), m, FillHandler) => (e \in Whole(uploads) <=> b)
      BY <1>2, <1>7, <3>1, LeadsPop
    <3>2. Leads(Thens(pending[u]), main[u], FillHandler, Whole(uploads), TRUE)
      BY <1>8 DEF FillsLead
    <3>3. PICK b \in BOOLEAN : b = TRUE
      OBVIOUS
    <3> QED BY <3>1, <3>2, <3>3
  <2> QED BY <1>3, <2>1, <2>2 DEF FillsLead, FillsCame
<1>9. ASSUME e \in Yes <=> want[u], e \in Whole(uploads) PROVE FeedEnds(u)'
  <2> SUFFICES ASSUME NEW c \in 1..uploads PROVE Ends(db, p, Feed(u, c), want[u])
    BY <1>3 DEF FeedEnds
  <2>1. c \in e.cartoons
    BY <1>9 DEF Whole
  <2>2. \E i \in Len(pending[u])+1..Len(p) : p[i].doc = Feed(u, c)
    BY <1>1, <2>1
  <2>3. \A i \in Len(pending[u])+1..Len(p) : p[i].doc = Feed(u, c) => (p[i].op = "set" <=> want[u])
    BY <1>1, <1>9
  <2> QED BY <1>0, <1>1, <2>2, <2>3, EndsBatch
<1>10. Chain(u)'
  BY <1>6, <1>8, <1>9 DEF BusyFeed, Chain
<1>11. FeedReached(u)'
  BY <1>1, <1>3, MovesReached DEF BusyFeed
<1> QED BY <1>10, <1>11 DEF BusyFeed

\* A check that is answered or shown keeps what the device is doing.
LEMMA CheckFeed ==
    ASSUME TypeOK, NEW u \in Readers, Checked(u) \/ AnswerCheck(u)
    PROVE  /\ BusyFeed(u) => BusyFeed(u)'
           /\ Calm(u) => Calm(u)'
           /\ UNCHANGED <<db, uploads, historyVars>>
<1>0. u \in User /\ pending[u] \in Seq(Write(u)) /\ main[u] \in Seq(Handler(u))
      /\ Longer(pending[u], pending[u], {}) /\ Len(pending[u]) \in Nat
      /\ Handler(u) = TapHandler \cup CheckHandler \cup FillHandler
  BY ReaderFacts
<1>1. PICK m :
         /\ Moves(u, pending[u], m, queries[u])
         /\ \A i \in 1..Len(m) : m[i] \in CheckHandler \/ \E k \in 1..Len(main[u]) : m[i] = main[u][k]
         /\ \/ \E h \in CheckHandler : Pushed(main[u], m, h)
            \/ \E h \in CheckHandler : Popped(main[u], m, h)
  <2>1. CASE Checked(u)
    <3>1. /\ main[u] # << >> /\ Head(main[u]) \in CheckHandler
          /\ Moves(u, pending[u], Tail(main[u]), queries[u])
      BY <1>0, <2>1, CheckedDoes
    <3>2. Popped(main[u], Tail(main[u]), Head(main[u]))
      BY <1>0, <3>1, TailPops
    <3>3. \A i \in 1..Len(Tail(main[u])) : \E k \in 1..Len(main[u]) : Tail(main[u])[i] = main[u][k]
      <4> SUFFICES ASSUME NEW i \in 1..Len(Tail(main[u]))
                   PROVE  \E k \in 1..Len(main[u]) : Tail(main[u])[i] = main[u][k]
        OBVIOUS
      <4>1. i + 1 \in 1..Len(main[u]) /\ Tail(main[u])[i] = main[u][i + 1]
        BY <3>2 DEF Popped
      <4> QED BY <4>1
    <3> QED BY <3>1, <3>2, <3>3
  <2>2. CASE AnswerCheck(u)
    <3>1. PICK h \in CheckHandler : Moves(u, pending[u], Append(main[u], h), queries[u])
      BY <1>0, <2>2, AnswerCheckDoes
    <3>2. Pushed(main[u], Append(main[u], h), h)
      BY <1>0, AppendPushes
    <3>3. \A i \in 1..Len(Append(main[u], h)) :
             \/ Append(main[u], h)[i] \in CheckHandler
             \/ \E k \in 1..Len(main[u]) : Append(main[u], h)[i] = main[u][k]
      BY <3>2 DEF Pushed, Grows
    <3> QED BY <3>1, <3>2, <3>3
  <2> QED BY <2>1, <2>2
<1>2. UNCHANGED <<uploads, historyVars>>
  BY <1>0, CheckedDoes, AnswerCheckDoes
<1>3. pending'[u] = pending[u] /\ main'[u] = m /\ queries'[u] = queries[u] /\ db' = db
  BY <1>0, <1>1 DEF Moves
<1>4. Calm(u) => Calm(u)'
  BY <1>1, <1>3 DEF Calm
<1>5. ASSUME BusyFeed(u) PROVE BusyFeed(u)'
  <2>1. /\ \A h \in CheckHandler : /\ h \notin Stars(Visits) /\ h \notin FansOf(Visits)
                                   /\ h \notin FillHandler
        /\ \A i \in Len(pending[u])+1..Len(pending[u]) : FALSE
    BY <1>0, Kinds
  <2>2. Kept(u, Stars(Visits)) /\ Kept(u, FansOf(Visits)) /\ Kept(u, FillHandler)
    <3>1. CASE \E h \in CheckHandler : Popped(main[u], m, h)
      BY <1>0, <1>1, <2>1, <3>1, MovesKept
    <3>2. CASE \E h \in CheckHandler : Pushed(main[u], m, h)
      <4>1. /\ Longer(main[u], m, Stars(Visits)) /\ Longer(main[u], m, FansOf(Visits))
            /\ Longer(main[u], m, FillHandler)
        BY <2>1, <3>2, PushedLonger
      <4> QED BY <1>0, <1>1, <2>1, <4>1, MovesKept
    <3> QED BY <1>1, <3>1, <3>2
  <2>3. FeedEnds(u) => FeedEnds(u)'
    BY <1>2, <1>3 DEF FeedEnds, historyVars
  <2>4. Chain(u)'
    BY <1>2, <1>3, <1>5, <2>2, <2>3, KeptChain DEF BusyFeed, historyVars
  <2>5. FeedReached(u)'
    BY <1>0, <1>1, <1>2, <1>5, MovesReached DEF BusyFeed
  <2> QED BY <2>4, <2>5 DEF BusyFeed
<1> QED BY <1>2, <1>3, <1>4, <1>5

\* A delivery or an acknowledgement keeps it too.
LEMMA StreamFeed ==
    ASSUME TypeOK, NEW u \in Readers, BusyFeed(u), UNCHANGED fansVars,
           Transmit(u) \/ Acknowledge(u)
    PROVE  BusyFeed(u)'
<1>0. u \in User /\ pending[u] \in Seq(Write(u)) /\ Len(pending[u]) \in Nat /\ sent[u] \in Nat
      /\ want[u] \in BOOLEAN /\ 1..uploads \subseteq 1..MaxUploads
  BY ReaderFacts
<1>1. /\ \A d \in Docs : DocKept(u, d)
      /\ \A T : Nothing \notin T => Kept(u, T)
  BY <1>0, TransmitKept, AcknowledgeKept
<1>2. \A c \in 1..uploads : Feed(u, c) \in Docs
  BY <1>0 DEF Docs
<1>3. StarCame(u, Visits) /\ FeedEnds(u) => FeedEnds(u)'
  <2> SUFFICES ASSUME StarCame(u, Visits), FeedEnds(u), NEW c \in 1..uploads
               PROVE  Ends(db', pending'[u], Feed(u, c), want[u])
    BY DEF FeedEnds, fansVars, historyVars
  <2>1. NoneIn(Thens(pending[u]), Stars(Visits))
    BY DEF StarCame, Came
  <2>2. Reached(db, pending[u], sent[u], Feed(u, c))
    BY <2>1, SinceReached DEF BusyFeed, FeedReached
  <2> QED BY <1>0, <1>1, <1>2, <2>2 DEF FeedEnds, DocKept
<1>4. Chain(u)'
  BY <1>1, <1>3, ChainKept DEF BusyFeed, fansVars, historyVars
<1>5. FeedReached(u)'
  <2> SUFFICES ASSUME NEW c \in 1..uploads
               PROVE  ReachedSince(db', pending'[u], sent'[u], Feed(u, c))
    BY DEF FeedReached, fansVars
  <2>1. ReachedSince(db, pending[u], sent[u], Feed(u, c)) /\ Feed(u, c) \in Docs
    BY <1>2 DEF BusyFeed, FeedReached
  <2>2. CASE Transmit(u)
    <3> DEFINE w == pending[u][sent[u] + 1]
    <3>1. /\ sent[u] < Len(pending[u]) /\ sent' = [sent EXCEPT ![u] = @ + 1]
          /\ UNCHANGED pending
          /\ \A d \in Docs : /\ d # w.doc => db'[d] = db[d]
                             /\ d = w.doc => (db'[d] # NoDoc <=> w.op = "set")
      BY <1>0, <2>2, TransmitDoes
    <3>2. sent'[u] = sent[u] + 1
      BY <1>0, <3>1 DEF TypeOK, QueuesOK
    <3>3. ReachedSince(db', pending[u], sent[u] + 1, Feed(u, c))
      BY <1>0, <2>1, <3>1, SinceTransmit
    <3> QED BY <3>1, <3>2, <3>3
  <2>3. CASE Acknowledge(u)
    <3>1. /\ sent[u] > 0 /\ sent[u] <= Len(pending[u])
          /\ Popped(pending[u], Tail(pending[u]), Head(pending[u]))
          /\ pending' = [pending EXCEPT ![u] = Tail(@)]
          /\ sent' = [sent EXCEPT ![u] = @ - 1] /\ UNCHANGED db
      BY <1>0, <2>3, AcknowledgeDoes
    <3>2. sent'[u] = sent[u] - 1 /\ pending'[u] = Tail(pending[u])
      BY <1>0, <3>1 DEF TypeOK, QueuesOK
    <3>3. ReachedSince(db, Tail(pending[u]), sent[u] - 1, Feed(u, c))
      BY <1>0, <2>1, <3>1, SincePop
    <3> QED BY <3>1, <3>2, <3>3
  <2> QED BY <2>2, <2>3
<1> QED BY <1>4, <1>5 DEF BusyFeed
\* What the artist's device is about to bring stays as it is.
LEMMA CalmStill ==
    ASSUME TypeOK, NEW u \in Readers, CalmFeed(u), want'[u] = want[u], uploads' = uploads,
           pending'[Artist] = pending[Artist], main'[Artist] = main[Artist],
           queries'[Artist] = queries[Artist], sent'[Artist] \in {0, sent[Artist]},
           \A c \in 1..uploads : db'[Feed(u, c)] = db[Feed(u, c)]
    PROVE  CalmFeed(u)'
<1>1. Spared(u)' <=> Spared(u)
  BY DEF Spared
<1>2. \A c : Brought(u, c)' <=> Brought(u, c)
  BY DEF Brought
<1>3. \A c \in 1..uploads : Exists(Feed(u, c))' <=> Exists(Feed(u, c))
  BY DEF Exists
<1>4. 1..sent'[Artist] \subseteq 1..sent[Artist]
  <2>1. 1..0 = {}
    OBVIOUS
  <2> QED BY <2>1
<1>5. \A c \in 1..uploads, i \in 1..sent'[Artist] :
         pending'[Artist][i].doc = Feed(u, c) => Exists(Feed(u, c))'
  BY <1>3, <1>4 DEF CalmFeed
<1> QED BY <1>1, <1>2, <1>3, <1>5 DEF CalmFeed

\* A restart that cuts nothing short leaves the writes to go on.
LEMMA RestartFeed ==
    ASSUME TypeOK, NEW u \in Readers, Restart(u), Fair(u)', ~torn[u], FeedOf(u)
    PROVE  ~torn'[u] /\ FeedOf(u)'
<1> DEFINE q == pending[u]
           r == pending'[u]
<1>0. /\ u \in User /\ Artist \in User \ {u} /\ q \in Seq(Write(u)) /\ Len(q) \in Nat
      /\ want[u] \in BOOLEAN
  BY ReaderFacts
<1>1. /\ r \in Seq(Write(u)) /\ Len(r) = Len(q)
      /\ \A i \in 1..Len(q) : r[i].doc = q[i].doc /\ r[i].op = q[i].op /\ r[i].then = Nothing
      /\ main'[u] = << >> /\ queries'[u] = << >> /\ sent'[u] = 0
      /\ torn'[u] = \/ torn[u]
                    \/ \E i \in 1..Len(q) : Mirrors(q[i].then)
                    \/ \E i \in 1..Len(main[u]) : Mirrors(main[u][i])
      /\ short'[u] = \/ short[u] \/ main[u] # << >> \/ queries[u] # << >>
                     \/ \E i \in 1..Len(q) : q[i].then # Nothing
      /\ UNCHANGED <<db, uploads, want>>
  BY <1>0, RestartDoes
<1>2. /\ pending'[Artist] = pending[Artist] /\ main'[Artist] = main[Artist]
      /\ queries'[Artist] = queries[Artist] /\ sent'[Artist] = sent[Artist]
  BY <1>0, RestartDoes
<1>3. main[u] = << >> /\ queries[u] = << >> /\ \A i \in 1..Len(q) : q[i].then = Nothing
  BY <1>1 DEF Fair
<1>4. ~torn'[u]
  BY <1>1, <1>3 DEF Mirrors
<1>5. CASE Calm(u) /\ CalmFeed(u)
  <2>1. Calm(u)'
    <3>1. Len(r) = 0
      BY <1>1, <1>5 DEF Calm
    <3>2. r = << >>
      BY <1>1, <3>1
    <3> QED BY <1>1, <3>2 DEF Calm
  <2>2. CalmFeed(u)'
    BY <1>1, <1>2, <1>5, CalmStill
  <2> QED BY <1>4, <2>1, <2>2 DEF FeedOf
<1>6. CASE Idle(Artist) /\ BusyFeed(u)
  <2>1. Idle(Artist)'
    BY <1>2, <1>6 DEF Idle, Settled
  <2>2. FeedReached(u)'
    <3>1. 1..0 = {}
      OBVIOUS
    <3> QED BY <1>1, <3>1 DEF FeedReached, ReachedSince
  <2>3. /\ Len(Thens(q)) = Len(q) /\ \A i \in 1..Len(q) : Thens(q)[i] = q[i].then
        /\ Len(Thens(r)) = Len(r) /\ \A i \in 1..Len(r) : Thens(r)[i] = r[i].then
    BY <1>0, <1>1, ThensFacts
  <2> HIDE DEF q, r
  <2>4. \A T : Nothing \notin T => /\ Came(Thens(q), << >>, T)
                                   /\ Came(Thens(r), << >>, T)
    BY <1>1, <1>3, <2>3 DEF Came, NoneIn
  <2>5. /\ Nothing \notin Stars(Visits) /\ Nothing \notin FansOf(Visits)
        /\ Nothing \notin FillHandler
    BY Kinds, AbsentAssumption
  <2>6. /\ StarCame(u, Visits) /\ FansCame(u) /\ FillsCame(u) /\ AsksCame(u)
    BY <1>3, <2>4, <2>5 DEF StarCame, FansCame, FillsCame, AsksCame, NoneIn, q
  <2>7. /\ FansCame(u)' /\ FillsCame(u)' /\ AsksCame(u)'
    BY <1>1, <2>4, <2>5 DEF StarCame, FansCame, FillsCame, AsksCame, NoneIn, r
  <2>8. FansLead(u)' /\ AsksLead(u)' /\ FillsLead(u)'
    BY <2>7, NoneLast DEF FansCame, FansLead, FillsCame, FillsLead, AsksCame, AsksLead, Came, Leads
  <2>9. FeedEnds(u)
    BY <1>6, <2>6 DEF BusyFeed, Chain
  <2>10. FeedEnds(u)'
    <3> SUFFICES ASSUME NEW c \in 1..uploads PROVE Ends(db, r, Feed(u, c), want[u])
      BY <1>1 DEF FeedEnds, r
    <3>1. Ends(db, q, Feed(u, c), want[u])
      BY <2>9 DEF FeedEnds, q
    <3> QED BY <1>0, <1>1, <3>1 DEF Ends
  <2> QED BY <1>4, <2>1, <2>2, <2>8, <2>10 DEF BusyFeed, Chain, FeedOf
<1> QED BY <1>5, <1>6 DEF FeedOf

\* The artist's queues.
LEMMA ArtistFacts ==
    ASSUME TypeOK
    PROVE  /\ Artist \in User /\ pending[Artist] \in Seq(Write(Artist))
           /\ Len(pending[Artist]) \in Nat
           /\ main[Artist] \in Seq(SpreadHandler) /\ Len(main[Artist]) \in Nat
           /\ queries[Artist] \in Seq(AskFans) /\ Len(queries[Artist]) \in Nat
           /\ sent[Artist] \in Nat /\ sent[Artist] <= Len(pending[Artist])
           /\ Handler(Artist) = SpreadHandler
<1>1. /\ Artist \in User /\ pending[Artist] \in Seq(Write(Artist))
      /\ main[Artist] \in Seq(SpreadHandler) /\ queries[Artist] \in Seq(AskFans)
      /\ sent[Artist] \in Nat /\ sent[Artist] <= Len(pending[Artist])
      /\ Handler(Artist) = SpreadHandler
  BY ArtistAssumption DEF TypeOK, QueuesOK, Query, Handler
<1>2. /\ Len(pending[Artist]) \in Nat /\ Len(main[Artist]) \in Nat
      /\ Len(queries[Artist]) \in Nat
  BY <1>1
<1> QED BY <1>1, <1>2

\* The artist's device sees u among the fans just in case u's last tap asked.
LEMMA FanSeen ==
    ASSUME TypeOK, NEW u \in Readers, FanInv(u), ~torn[u], Calm(u)
    PROVE  u \in FansSeen(Artist) <=> want[u]
<1>0. /\ Artist \in User /\ u \in User /\ pending[Artist] \in Seq(Write(Artist))
      /\ Len(pending[Artist]) \in Nat /\ want[u] \in BOOLEAN
  BY ReaderFacts, ArtistFacts
<1>1. Ends(db, pending[u], Fan(u), want[u])
  BY CalmCame DEF FanInv
<1>2. db[Fan(u)] # NoDoc <=> want[u]
  <2>1. pending[u] = << >>
    BY DEF Calm
  <2> QED BY <1>1, <2>1 DEF Ends
<1>3. ASSUME NEW i \in 1..Len(pending[Artist])
      PROVE  /\ pending[Artist][i].op \in {"set", "delete"} /\ pending[Artist][i].val = EmptyDoc
             /\ pending[Artist][i].doc # Fan(u)
  <2> DEFINE w == pending[Artist][i]
  <2>1. w \in Write(Artist)
    BY <1>0
  <2> HIDE DEF w
  <2>2. w.op \in {"set", "delete"} /\ w.val = EmptyDoc
    BY <1>0, <2>1, WriteFacts
  <2>3. w.doc # Fan(u)
    BY <2>1, DocsApart DEF Write, WriteOf
  <2> QED BY <2>2, <2>3 DEF w
<1>4. Ends(db, pending[Artist], Fan(u), want[u])
  BY <1>2, <1>3 DEF Ends
<1>5. Fan(u) \in DOMAIN db
  BY DEF TypeOK, DocsOK, Docs
<1>6. Sees(Artist, Fan(u)) <=> want[u]
  BY <1>0, <1>3, <1>4, <1>5, OverlayEnds, AbsentAssumption DEF Sees, View
<1> QED BY <1>6 DEF FansSeen
\* An upload comes while u's device is idle, and brings u the cartoon.
LEMMA UploadFeed ==
    ASSUME TypeOK, FreshInv, NEW u \in Readers, Upload, Fair(u)', FeedOf(u)
    PROVE  Calm(u)' /\ CalmFeed(u)'
<1>0. u \in User \ {Artist} /\ uploads \in Nat /\ want[u] \in BOOLEAN
  BY ReaderFacts
<1>1. PICK w \in Write(Artist), q \in AskFans :
         /\ w.doc = Toon(uploads + 1) /\ q.cartoon = uploads + 1
         /\ Moves(Artist, Append(pending[Artist], w), main[Artist], Append(queries[Artist], q))
  BY UploadDoes
<1>2. /\ uploads + 1 \in 1..MaxUploads /\ uploads' = uploads + 1 /\ UNCHANGED want
      /\ raced' = [v \in User |-> raced[v] \/ ~Idle(v)]
  BY UploadDoes
<1>3. Idle(u)
  BY <1>0, <1>2 DEF Fair
<1>4. Calm(u)
  BY <1>3 DEF Calm, Idle, Settled
<1>5. CalmFeed(u)
  BY <1>4, CalmAgree DEF FeedOf
<1> DEFINE p == Append(pending[Artist], w)
           asks == Append(queries[Artist], q)
<1>6. /\ Pushed(pending[Artist], p, w) /\ Pushed(queries[Artist], asks, q)
  BY ArtistFacts, AppendPushes
<1>7. /\ pending'[Artist] = p /\ main'[Artist] = main[Artist] /\ queries'[Artist] = asks
      /\ pending'[u] = pending[u] /\ main'[u] = main[u] /\ queries'[u] = queries[u]
      /\ db' = db /\ sent' = sent
  BY <1>0, <1>1 DEF Moves
<1> HIDE DEF p, asks
<1>8. /\ Len(p) = Len(pending[Artist]) + 1 /\ p[Len(p)] = w
      /\ \A i \in 1..Len(pending[Artist]) : p[i] = pending[Artist][i]
      /\ Len(asks) = Len(queries[Artist]) + 1 /\ asks[Len(asks)] = q
      /\ \A i \in 1..Len(queries[Artist]) : asks[i] = queries[Artist][i]
  BY <1>6 DEF Pushed, Grows
<1>9. \A c : w.doc # Feed(u, c)
  BY <1>1, DocsApart
<1>10. ASSUME NEW c \in 1..uploads', NEW i \in 1..sent[Artist], p[i].doc = Feed(u, c)
       PROVE  Exists(Feed(u, c))
  <2>1. i \in 1..Len(pending[Artist]) /\ p[i] = pending[Artist][i]
    BY <1>8, ArtistFacts
  <2>2. c \in 1..uploads
    <3>1. pending[Artist][i].doc \notin NewDocs(uploads)
      BY <2>1, ArtistFacts DEF FreshInv, FreshOf
    <3>2. c \in uploads+1..MaxUploads => Feed(u, c) \in NewDocs(uploads)
      BY <1>0 DEF NewDocs
    <3> QED BY <1>0, <1>2, <1>10, <2>1, <3>1, <3>2
  <2> QED BY <1>5, <1>10, <2>1, <2>2 DEF CalmFeed
<1>11. ASSUME want[u], NEW c \in 1..uploads' PROVE Exists(Feed(u, c)) \/ Brought(u, c)'
  <2>1. CASE c = uploads + 1
    <3>1. Len(asks) \in 1..Len(asks)
      BY <1>8, ArtistFacts
    <3> QED BY <1>1, <1>7, <1>8, <2>1, <3>1 DEF Brought
  <2>2. CASE c \in 1..uploads
    <3>1. Exists(Feed(u, c)) \/ Brought(u, c)
      BY <1>5, <1>11, <2>2 DEF CalmFeed
    <3>2. Brought(u, c) => Brought(u, c)'
      <4>1. 1..Len(pending[Artist]) \subseteq 1..Len(p) /\ 1..Len(queries[Artist]) \subseteq 1..Len(asks)
        BY <1>8, ArtistFacts
      <4> QED BY <1>7, <1>8, <4>1 DEF Brought
    <3> QED BY <3>1, <3>2
  <2> QED BY <1>0, <1>2, <2>1, <2>2
<1>12. ASSUME ~want[u]
       PROVE  Spared(u)' /\ \A c \in 1..uploads' : ~Exists(Feed(u, c))
  <2>1. Spared(u) /\ \A c \in 1..uploads : ~Exists(Feed(u, c))
    BY <1>5, <1>12 DEF CalmFeed
  <2>2. ASSUME NEW i \in 1..Len(p), NEW c PROVE p[i].doc # Feed(u, c)
    <3>1. i \in 1..Len(pending[Artist]) \/ i = Len(p)
      BY <1>8, ArtistFacts
    <3> QED BY <1>8, <1>9, <2>1, <3>1 DEF Spared
  <2>3. ~Exists(Feed(u, uploads + 1))
    <3>1. Feed(u, uploads + 1) \in NewDocs(uploads)
      BY <1>0, <1>2 DEF NewDocs
    <3> QED BY <3>1 DEF FreshInv, Exists
  <2> QED BY <1>0, <1>2, <1>7, <2>1, <2>2, <2>3 DEF Spared
<1>13. Calm(u)'
  BY <1>4, <1>7 DEF Calm
<1>14. \A d : Exists(d)' <=> Exists(d)
  BY <1>7 DEF Exists
<1>15. CalmFeed(u)'
  BY <1>2, <1>7, <1>10, <1>11, <1>12, <1>14 DEF CalmFeed
<1> QED BY <1>13, <1>15

\* The artist's query finds u among the fans as u's last tap asked.
LEMMA FansFeed ==
    ASSUME TypeOK, NEW u \in Readers, FanInv(u), ~torn[u], Calm(u), CalmFeed(u),
           AnswerQuery(Artist)
    PROVE  CalmFeed(u)'
<1>0. u \in User \ {Artist} /\ uploads \in Nat /\ want[u] \in BOOLEAN
  BY ReaderFacts
<1> DEFINE e == Head(queries[Artist])
           asks == Tail(queries[Artist])
<1>1. PICK h \in SpreadHandler :
         /\ h.cartoon = e.cartoon /\ h.fans = FansSeen(Artist)
         /\ Moves(Artist, pending[Artist], Append(main[Artist], h), asks)
  BY ArtistAnswerDoes
<1>2. /\ UNCHANGED <<uploads, want>> /\ Popped(queries[Artist], asks, e)
  BY ArtistAnswerDoes, ArtistFacts, TailPops
<1> DEFINE m == Append(main[Artist], h)
<1>3. Pushed(main[Artist], m, h)
  BY ArtistFacts, AppendPushes
<1>4. /\ pending'[Artist] = pending[Artist] /\ main'[Artist] = m /\ queries'[Artist] = asks
      /\ db' = db /\ sent' = sent
  BY <1>1 DEF Moves
<1>5. u \in h.fans <=> want[u]
  BY <1>1, FanSeen
<1> HIDE DEF e, asks, m
<1>6. /\ Len(m) = Len(main[Artist]) + 1 /\ m[Len(m)] = h
      /\ \A i \in 1..Len(main[Artist]) : m[i] = main[Artist][i]
      /\ Len(asks) = Len(queries[Artist]) - 1 /\ queries[Artist][1] = e
      /\ \A i \in 1..Len(asks) : asks[i] = queries[Artist][i + 1]
  BY <1>2, <1>3 DEF Pushed, Popped, Grows
<1>7. ASSUME want[u], NEW c, Brought(u, c) PROVE Brought(u, c)'
  <2>1. CASE \E i \in 1..Len(queries[Artist]) : queries[Artist][i].cartoon = c
    <3>1. PICK i \in 1..Len(queries[Artist]) : queries[Artist][i].cartoon = c
      BY <2>1
    <3>2. CASE i = 1
      <4>1. Len(m) \in 1..Len(m) /\ m[Len(m)].cartoon = c /\ u \in m[Len(m)].fans
        BY <1>1, <1>5, <1>6, <1>7, <3>1, <3>2, ArtistFacts
      <4> QED BY <1>4, <4>1 DEF Brought
    <3>3. CASE i # 1
      <4>1. i - 1 \in 1..Len(asks) /\ asks[i - 1] = queries[Artist][i]
        <5>1. i - 1 \in 1..Len(asks) /\ (i - 1) + 1 = i
          BY <1>6, <3>3, ArtistFacts
        <5> QED BY <1>6, <5>1
      <4> QED BY <1>4, <3>1, <4>1 DEF Brought
    <3> QED BY <3>2, <3>3
  <2>2. CASE \E i \in 1..Len(main[Artist]) :
                main[Artist][i].cartoon = c /\ u \in main[Artist][i].fans
    <3>1. 1..Len(main[Artist]) \subseteq 1..Len(m)
      BY <1>6, ArtistFacts
    <3> QED BY <1>4, <1>6, <2>2, <3>1 DEF Brought
  <2>3. CASE \E i \in 1..Len(pending[Artist]) : pending[Artist][i].doc = Feed(u, c)
    BY <1>4, <2>3 DEF Brought
  <2> QED BY <1>7, <2>1, <2>2, <2>3 DEF Brought
<1>8. ASSUME ~want[u], Spared(u) PROVE Spared(u)'
  <2> SUFFICES ASSUME NEW i \in 1..Len(m) PROVE u \notin m[i].fans
    BY <1>4, <1>8 DEF Spared
  <2>1. i \in 1..Len(main[Artist]) \/ i = Len(m)
    BY <1>6, ArtistFacts
  <2> QED BY <1>5, <1>6, <1>8, <2>1 DEF Spared
<1>9. \A d : Exists(d)' <=> Exists(d)
  BY <1>4 DEF Exists
<1> QED BY <1>2, <1>4, <1>7, <1>8, <1>9 DEF CalmFeed

\* The artist's handler enters the cartoon in the feeds of the fans found.
LEMMA SpreadFeed ==
    ASSUME TypeOK, NEW u \in Readers, CalmFeed(u), Spread(Artist)
    PROVE  CalmFeed(u)'
<1>0. u \in User \ {Artist} /\ uploads \in Nat /\ want[u] \in BOOLEAN
  BY ReaderFacts
<1> DEFINE e == Head(main[Artist])
           m == Tail(main[Artist])
<1>1. PICK p \in Seq(Write(Artist)) :
         /\ Longer(pending[Artist], p, {})
         /\ \A i \in Len(pending[Artist])+1..Len(p) :
               \E v \in e.fans \cup {Artist} : p[i].doc = Feed(v, e.cartoon)
         /\ \A v \in e.fans :
               \E i \in Len(pending[Artist])+1..Len(p) : p[i].doc = Feed(v, e.cartoon)
         /\ Moves(Artist, p, m, queries[Artist])
  <2> HIDE DEF e, m
  <2> QED BY ArtistFacts, SpreadDoes DEF e, m
<1>2. /\ Popped(main[Artist], m, e) /\ UNCHANGED <<uploads, want>>
  BY ArtistFacts, SpreadDoes, TailPops DEF fansVars, historyVars
<1>3. /\ pending'[Artist] = p /\ main'[Artist] = m /\ queries'[Artist] = queries[Artist]
      /\ db' = db /\ sent' = sent
  BY <1>1 DEF Moves
<1> HIDE DEF e, m
<1>4. /\ Len(m) = Len(main[Artist]) - 1 /\ main[Artist][1] = e
      /\ \A i \in 1..Len(m) : m[i] = main[Artist][i + 1]
      /\ \A i \in 1..Len(pending[Artist]) : p[i] = pending[Artist][i]
      /\ Len(p) \in Nat /\ Len(p) >= Len(pending[Artist])
  BY <1>1, <1>2 DEF Longer, Popped
<1>5. ASSUME NEW c, Brought(u, c) PROVE Brought(u, c)'
  <2>1. CASE \E i \in 1..Len(queries[Artist]) : queries[Artist][i].cartoon = c
    BY <1>3, <2>1 DEF Brought
  <2>2. CASE \E i \in 1..Len(main[Artist]) :
                main[Artist][i].cartoon = c /\ u \in main[Artist][i].fans
    <3>1. PICK i \in 1..Len(main[Artist]) :
             main[Artist][i].cartoon = c /\ u \in main[Artist][i].fans
      BY <2>2
    <3>2. CASE i = 1
      <4>1. \E k \in Len(pending[Artist])+1..Len(p) : p[k].doc = Feed(u, c)
        BY <1>1, <1>4, <3>1, <3>2
      <4>2. Len(pending[Artist])+1..Len(p) \subseteq 1..Len(p)
        BY <1>4, ArtistFacts
      <4> QED BY <1>3, <4>1, <4>2 DEF Brought
    <3>3. CASE i # 1
      <4>1. i - 1 \in 1..Len(m) /\ m[i - 1] = main[Artist][i]
        <5>1. i - 1 \in 1..Len(m) /\ (i - 1) + 1 = i
          BY <1>4, <3>3, ArtistFacts
        <5> QED BY <1>4, <5>1
      <4> QED BY <1>3, <3>1, <4>1 DEF Brought
    <3> QED BY <3>2, <3>3
  <2>3. CASE \E i \in 1..Len(pending[Artist]) : pending[Artist][i].doc = Feed(u, c)
    <3>1. 1..Len(pending[Artist]) \subseteq 1..Len(p)
      BY <1>4, ArtistFacts
    <3> QED BY <1>3, <1>4, <2>3, <3>1 DEF Brought
  <2> QED BY <1>5, <2>1, <2>2, <2>3 DEF Brought
<1>6. ASSUME Spared(u) PROVE Spared(u)'
  <2>1. ASSUME NEW i \in 1..Len(m) PROVE u \notin m[i].fans
    <3>1. i + 1 \in 1..Len(main[Artist])
      BY <1>4, ArtistFacts
    <3> QED BY <1>4, <1>6, <3>1 DEF Spared
  <2>2. ASSUME NEW i \in 1..Len(p), NEW c PROVE p[i].doc # Feed(u, c)
    <3>1. CASE i \in 1..Len(pending[Artist])
      BY <1>4, <1>6, <3>1 DEF Spared
    <3>2. CASE i \in Len(pending[Artist])+1..Len(p)
      <4>1. u \notin e.fans \cup {Artist}
        <5>1. 1 \in 1..Len(main[Artist])
          BY <1>2, ArtistFacts DEF Popped
        <5> QED BY <1>0, <1>4, <1>6, <5>1 DEF Spared
      <4> QED BY <1>1, <3>2, <4>1, DocsApart
    <3> QED BY <1>4, <3>1, <3>2, ArtistFacts
  <2> QED BY <1>3, <2>1, <2>2 DEF Spared
<1>7. ASSUME NEW c \in 1..uploads, NEW i \in 1..sent[Artist], p[i].doc = Feed(u, c)
      PROVE  Exists(Feed(u, c))
  <2>1. i \in 1..Len(pending[Artist]) /\ p[i] = pending[Artist][i]
    BY <1>4, ArtistFacts
  <2> QED BY <1>7, <2>1 DEF CalmFeed
<1>8. \A d : Exists(d)' <=> Exists(d)
  BY <1>3 DEF Exists
<1> QED BY <1>2, <1>3, <1>5, <1>6, <1>7, <1>8 DEF CalmFeed
\* The artist's device delivers: the entry is there, and only the wanted ones.
LEMMA DeliverFeed ==
    ASSUME TypeOK, NEW u \in Readers, CalmFeed(u), Transmit(Artist), UNCHANGED fansVars
    PROVE  CalmFeed(u)'
<1> DEFINE w == pending[Artist][sent[Artist] + 1]
<1>1. /\ w \in Write(Artist) /\ sent[Artist] < Len(pending[Artist]) /\ UNCHANGED <<pending, main>>
      /\ sent' = [sent EXCEPT ![Artist] = @ + 1]
      /\ \A d \in Docs : /\ d # w.doc => db'[d] = db[d]
                         /\ d = w.doc => (db'[d] # NoDoc <=> w.op = "set")
  BY ArtistFacts, TransmitDoes
<1>2. w.op = "set"
  <2> HIDE DEF w
  <2> QED BY <1>1, ArtistFacts, WriteFacts
<1>3. /\ sent'[Artist] = sent[Artist] + 1 /\ sent[Artist] \in Nat
      /\ sent[Artist] + 1 \in 1..Len(pending[Artist])
      /\ UNCHANGED <<uploads, want, queries>> /\ want[u] \in BOOLEAN
  BY <1>1, ArtistFacts, ReaderFacts DEF TypeOK, QueuesOK, fansVars, historyVars
<1>4. \A c \in 1..uploads : Feed(u, c) \in Docs
  BY ReaderFacts DEF Docs
<1>5. ASSUME NEW c \in 1..uploads PROVE /\ Exists(Feed(u, c)) => Exists(Feed(u, c))'
                                        /\ w.doc = Feed(u, c) => Exists(Feed(u, c))'
                                        /\ w.doc # Feed(u, c) /\ Exists(Feed(u, c))'
                                              => Exists(Feed(u, c))
  BY <1>1, <1>2, <1>4 DEF Exists
<1>6. /\ Spared(u)' <=> Spared(u)
      /\ \A c : Brought(u, c)' <=> Brought(u, c)
      /\ Spared(u) => \A c : w.doc # Feed(u, c)
  BY <1>1, <1>3 DEF Spared, Brought
<1>7. ASSUME NEW c \in 1..uploads, NEW i \in 1..sent[Artist]+1,
             pending[Artist][i].doc = Feed(u, c)
      PROVE  Exists(Feed(u, c))'
  <2>1. CASE i = sent[Artist] + 1
    BY <1>5, <1>7, <2>1
  <2>2. CASE i \in 1..sent[Artist]
    BY <1>5, <1>7, <2>2 DEF CalmFeed
  <2> QED BY <1>3, <2>1, <2>2
<1> HIDE DEF w
<1>8. ASSUME want[u], NEW c \in 1..uploads PROVE Exists(Feed(u, c))' \/ Brought(u, c)'
  BY <1>5, <1>6, <1>8 DEF CalmFeed
<1>9. ASSUME ~want[u] PROVE Spared(u)' /\ \A c \in 1..uploads : ~Exists(Feed(u, c))'
  <2>1. Spared(u) /\ \A c \in 1..uploads : ~Exists(Feed(u, c))
    BY <1>9 DEF CalmFeed
  <2>2. Spared(u)' /\ \A c : w.doc # Feed(u, c)
    BY <1>6, <2>1
  <2> QED BY <1>5, <2>1, <2>2
<1> QED BY <1>1, <1>3, <1>7, <1>8, <1>9 DEF CalmFeed

\* It is told so: the entry was there before.
LEMMA ToldFeed ==
    ASSUME TypeOK, NEW u \in Readers, CalmFeed(u), Acknowledge(Artist), UNCHANGED fansVars
    PROVE  CalmFeed(u)'
<1> DEFINE q == pending[Artist]
           r == Tail(pending[Artist])
<1>1. /\ sent[Artist] \in Nat /\ sent[Artist] > 0 /\ sent[Artist] <= Len(q)
      /\ Popped(q, r, Head(q)) /\ pending' = [pending EXCEPT ![Artist] = Tail(@)]
      /\ sent' = [sent EXCEPT ![Artist] = @ - 1] /\ UNCHANGED <<db, main>>
  <2>1. Head(q).then = Nothing
    <3>1. Head(q) \in Write(Artist)
      BY ArtistFacts, AcknowledgeDoes
    <3> HIDE DEF q
    <3> QED BY <3>1, ArtistFacts, WriteFacts
  <2>2. /\ sent[Artist] \in Nat /\ sent[Artist] > 0 /\ sent[Artist] <= Len(q)
        /\ Popped(q, r, Head(q)) /\ pending' = [pending EXCEPT ![Artist] = Tail(@)]
        /\ sent' = [sent EXCEPT ![Artist] = @ - 1] /\ UNCHANGED db
    BY ArtistFacts, AcknowledgeDoes
  <2>3. UNCHANGED main
    BY <2>1 DEF Acknowledge
  <2> QED BY <2>2, <2>3
<1>2. /\ pending'[Artist] = r /\ sent'[Artist] = sent[Artist] - 1
      /\ UNCHANGED <<uploads, want, queries>> /\ want[u] \in BOOLEAN
  BY <1>1, ArtistFacts, ReaderFacts DEF TypeOK, QueuesOK, fansVars, historyVars
<1> HIDE DEF q, r
<1>3. /\ Len(q) \in Nat /\ Len(r) = Len(q) - 1
      /\ \A i \in 1..Len(r) : r[i] = q[i + 1] /\ i + 1 \in 1..Len(q)
  BY <1>1 DEF Popped
<1>4. \A d : Exists(d)' <=> Exists(d)
  BY <1>1 DEF Exists
<1>5. ASSUME Spared(u) PROVE Spared(u)'
  BY <1>1, <1>2, <1>3, <1>5 DEF Spared, q
<1>6. ASSUME NEW c \in 1..uploads, Brought(u, c) PROVE Exists(Feed(u, c)) \/ Brought(u, c)'
  <2>1. CASE \E i \in 1..Len(q) : q[i].doc = Feed(u, c)
    <3>1. PICK i \in 1..Len(q) : q[i].doc = Feed(u, c)
      BY <2>1
    <3>2. CASE i = 1
      <4>1. 1 \in 1..sent[Artist]
        BY <1>1
      <4> QED BY <3>1, <3>2, <4>1 DEF CalmFeed, q
    <3>3. CASE i # 1
      <4>1. i - 1 \in 1..Len(r) /\ (i - 1) + 1 = i
        BY <1>3, <3>3
      <4>2. r[i - 1].doc = Feed(u, c)
        BY <1>3, <3>1, <4>1
      <4> QED BY <1>2, <4>1, <4>2 DEF Brought
    <3> QED BY <3>2, <3>3
  <2>2. CASE ~ \E i \in 1..Len(q) : q[i].doc = Feed(u, c)
    BY <1>1, <1>2, <1>6, <2>2 DEF Brought, q
  <2> QED BY <2>1, <2>2
<1>7. ASSUME NEW c \in 1..uploads, NEW i \in 1..sent[Artist]-1, r[i].doc = Feed(u, c)
      PROVE  Exists(Feed(u, c))
  <2>1. i + 1 \in 1..sent[Artist] /\ r[i] = q[i + 1]
    <3>1. i + 1 \in 1..sent[Artist] /\ i \in 1..Len(r)
      BY <1>1, <1>3
    <3> QED BY <1>3, <3>1
  <2> QED BY <1>7, <2>1 DEF CalmFeed, q
<1>8. ASSUME want[u], NEW c \in 1..uploads PROVE Exists(Feed(u, c)) \/ Brought(u, c)'
  BY <1>6, <1>8 DEF CalmFeed
<1> QED BY <1>2, <1>4, <1>5, <1>7, <1>8 DEF CalmFeed

\* A restart of the artist's that cuts nothing short: what was written goes on.
LEMMA ArtistRestartFeed ==
    ASSUME TypeOK, NEW u \in Readers, FeedOf(u), Restart(Artist), Fair(u)'
    PROVE  FeedOf(u)'
<1>0. u \in User \ {Artist} /\ uploads \in Nat
  BY ReaderFacts
<1>1. /\ Len(pending'[Artist]) = Len(pending[Artist])
      /\ pending'[Artist] \in Seq(Write(Artist))
      /\ \A i \in 1..Len(pending[Artist]) : pending'[Artist][i].doc = pending[Artist][i].doc
      /\ main'[Artist] = << >> /\ queries'[Artist] = << >> /\ sent'[Artist] = 0
      /\ short'[Artist] = \/ short[Artist] \/ main[Artist] # << >> \/ queries[Artist] # << >>
                          \/ \E i \in 1..Len(pending[Artist]) : pending[Artist][i].then # Nothing
      /\ UNCHANGED <<db, uploads, want>>
      /\ pending'[u] = pending[u] /\ main'[u] = main[u] /\ queries'[u] = queries[u]
      /\ sent'[u] = sent[u]
  BY <1>0, ArtistFacts, RestartDoes
<1>2. main[Artist] = << >> /\ queries[Artist] = << >>
  BY <1>1 DEF Fair
<1>3. CASE Calm(u) /\ CalmFeed(u)
  <2>1. Calm(u)'
    BY <1>1, <1>3 DEF Calm
  <2>2. Spared(u) => Spared(u)'
    BY <1>1 DEF Spared
  <2>3. \A c : Brought(u, c) => Brought(u, c)'
    BY <1>1, <1>2 DEF Brought
  <2>4. (\A d : Exists(d)' <=> Exists(d)) /\ 1..0 = {}
    BY <1>1 DEF Exists
  <2>5. CalmFeed(u)'
    BY <1>1, <1>3, <2>2, <2>3, <2>4 DEF CalmFeed
  <2> QED BY <2>1, <2>5 DEF FeedOf
<1>4. CASE Idle(Artist) /\ BusyFeed(u)
  <2>1. pending'[Artist] = << >>
    <3>1. Len(pending'[Artist]) = 0
      BY <1>1, <1>4 DEF Idle, Settled
    <3> QED BY <1>1, <3>1
  <2>2. Idle(Artist)'
    BY <1>1, <2>1 DEF Idle, Settled
  <2>3. BusyFeed(u)'
    BY <1>1, <1>4, BusyStill
  <2> QED BY <2>2, <2>3 DEF FeedOf
<1> QED BY <1>3, <1>4 DEF FeedOf

\* A step that touches neither account's queues and none of u's entries.
LEMMA StillFeed ==
    ASSUME TypeOK, NEW u \in Readers, FeedOf(u), want'[u] = want[u], uploads' = uploads,
           pending'[u] = pending[u], main'[u] = main[u], queries'[u] = queries[u],
           sent'[u] \in {0, sent[u]},
           pending'[Artist] = pending[Artist], main'[Artist] = main[Artist],
           queries'[Artist] = queries[Artist], sent'[Artist] \in {0, sent[Artist]},
           \A c \in 1..uploads : db'[Feed(u, c)] = db[Feed(u, c)]
    PROVE  FeedOf(u)'
<1>1. CASE Calm(u) /\ CalmFeed(u)
  <2>1. Calm(u)'
    BY <1>1 DEF Calm
  <2>2. CalmFeed(u)'
    BY <1>1, CalmStill
  <2> QED BY <2>1, <2>2 DEF FeedOf
<1>2. CASE Idle(Artist) /\ BusyFeed(u)
  <2>1. Idle(Artist)'
    BY <1>2 DEF Idle, Settled
  <2>2. BusyFeed(u)'
    BY <1>2, BusyStill
  <2> QED BY <2>1, <2>2 DEF FeedOf
<1> QED BY <1>1, <1>2 DEF FeedOf
\* A reader's own step: its tap begins anew, the others go on.
LEMMA ReaderFeed ==
    ASSUME TypeOK, PlacesInv, FreshInv, ToonInv, NEW u \in Readers, Acts(u), Fair(u)',
           Fair(u) => ~torn[u] /\ FeedOf(u)
    PROVE  ~torn'[u] /\ FeedOf(u)'
<1>0. /\ u \in User /\ u # Artist /\ Artist \in User \ {u} /\ FanInv(u)
      /\ Same(Artist)
  <2>1. u \in User /\ u # Artist /\ Artist \in User \ {u}
    BY ReaderFacts
  <2> QED BY <2>1, StepsApart DEF PlacesInv
<1>1. CASE TapFan(u) \/ TapUnfan(u)
  BY <1>1, TapFeed DEF FeedOf
<1>2. CASE Restart(u)
  <2>1. Fair(u)
    <3>1. raced' = raced
      BY <1>0, <1>2, RestartDoes
    <3>2. short'[u] = FALSE => short[u] = FALSE
      BY <1>0, <1>2 DEF Restart, TypeOK, HistoryOK
    <3>3. short'[u] \in BOOLEAN /\ short'[Artist] = short[Artist]
      BY <1>0, <1>2 DEF Same, Restart, TypeOK, HistoryOK
    <3>4. short[u] \in BOOLEAN
      BY <1>0 DEF TypeOK, HistoryOK
    <3> QED BY <3>1, <3>2, <3>3, <3>4 DEF Fair
  <2> QED BY <1>2, <2>1, RestartFeed
<1>3. CASE Checked(u) \/ AnswerCheck(u)
  <2>1. /\ BusyFeed(u) => BusyFeed(u)'
        /\ Calm(u) => Calm(u)'
        /\ UNCHANGED <<db, uploads, historyVars>>
    BY <1>3, CheckFeed
  <2>2. Fair(u)
    BY <2>1 DEF Fair, historyVars
  <2>3. CalmFeed(u) => CalmFeed(u)'
    BY <1>0, <2>1, CalmStill DEF Same, historyVars
  <2>4. Idle(Artist) => Idle(Artist)'
    BY <1>0 DEF Same, Idle, Settled
  <2> QED BY <1>3, <2>1, <2>2, <2>3, <2>4 DEF FeedOf, historyVars
<1>4. CASE \/ StarStored(u) \/ StarDeleted(u) \/ Fanned(u) \/ Unfanned(u) \/ Filled(u)
           \/ AnswerQuery(u)
           \/ (Transmit(u) \/ Acknowledge(u)) /\ UNCHANGED fansVars
  <2>1. UNCHANGED historyVars
    <3>1. CASE AnswerQuery(u)
      BY <3>1 DEF AnswerQuery
    <3>2. CASE ~AnswerQuery(u)
      BY <1>0, <1>4, <3>2, StarDoes, FanDoes, FillDoes DEF fansVars
    <3> QED BY <3>1, <3>2
  <2>2. Fair(u)
    BY <2>1 DEF Fair, historyVars
  <2>3. ~Calm(u)
    <3>1. CASE StarStored(u) \/ StarDeleted(u) \/ Fanned(u) \/ Unfanned(u) \/ Filled(u)
      <4>1. /\ main[u] # << >>
            /\ Head(main[u]) \in Stars(Visits) \cup FansOf(Visits) \cup FillHandler
        BY <1>0, <3>1, StarDoes, FanDoes, FillDoes
      <4>2. main[u][1] = Head(main[u]) /\ 1 \in 1..Len(main[u])
        BY <4>1, ReaderFacts
      <4>3. Head(main[u]) \notin CheckHandler
        <5> DEFINE e == Head(main[u])
        <5> HIDE DEF e
        <5>1. e \in Stars(Visits) \cup FansOf(Visits) \cup FillHandler
          BY <4>1 DEF e
        <5>2. e \notin CheckHandler
          BY <5>1, Kinds
        <5> QED BY <5>2 DEF e
      <4> QED BY <4>2, <4>3 DEF Calm
    <3>2. CASE AnswerQuery(u)
      BY <3>2 DEF AnswerQuery, Calm
    <3>3. CASE Transmit(u) /\ UNCHANGED fansVars
      BY <1>0, <3>3, TransmitDoes DEF Calm
    <3>4. CASE Acknowledge(u) /\ UNCHANGED fansVars
      BY <1>0, <3>4, AcknowledgeDoes DEF Calm
    <3> QED BY <1>4, <3>1, <3>2, <3>3, <3>4
  <2>4. ~torn[u] /\ Idle(Artist) /\ BusyFeed(u)
    BY <2>2, <2>3 DEF FeedOf
  <2>5. BusyFeed(u)'
    BY <1>0, <1>4, <2>4, StarFeed, FanFeed, FillFeed, AnswerFeed, StreamFeed
  <2>6. Idle(Artist)'
    BY <1>0, <2>4 DEF Same, Idle, Settled
  <2> QED BY <2>1, <2>4, <2>5, <2>6 DEF FeedOf, historyVars
<1>5. CASE AnswerFromCache(u)
  <2>1. short'[u] = TRUE
    BY <1>0, <1>5 DEF AnswerFromCache, TypeOK, HistoryOK
  <2> QED BY <2>1 DEF Fair
<1>6. ~Spread(u)
  BY <1>0, SpreadDoes
<1> QED BY <1>1, <1>2, <1>3, <1>4, <1>5, <1>6 DEF Acts

\* The artist's own step, but for an upload.
LEMMA ArtistFeed ==
    ASSUME TypeOK, PlacesInv, NEW u \in Readers, Acts(Artist), Fair(u)',
           Fair(u) => ~torn[u] /\ FeedOf(u)
    PROVE  ~torn'[u] /\ FeedOf(u)'
<1>0. /\ u \in User \ {Artist} /\ Artist \in User /\ FanInv(u) /\ Same(u) /\ uploads' = uploads
  <2>1. u \in User \ {Artist} /\ Artist \in User
    BY ReaderFacts
  <2> QED BY <2>1, StepsApart DEF PlacesInv
<1>1. ~AnswerFromCache(Artist)
  <2>1. AnswerFromCache(Artist) => short'[Artist] = TRUE
    BY <1>0 DEF AnswerFromCache, TypeOK, HistoryOK
  <2> QED BY <2>1 DEF Fair
<1>2. Fair(u)
  <2>1. short[Artist] \in BOOLEAN
    BY <1>0 DEF TypeOK, HistoryOK
  <2>2. short'[Artist] = FALSE => short[Artist] = FALSE
    <3>1. CASE Restart(Artist)
      BY <1>0, <2>1, <3>1, RestartDoes
    <3>2. CASE AnswerQuery(Artist)
      BY <3>2 DEF AnswerQuery, historyVars
    <3>3. CASE \/ Spread(Artist)
               \/ (Transmit(Artist) \/ Acknowledge(Artist)) /\ UNCHANGED fansVars
      BY <3>3 DEF Spread, fansVars, historyVars
    <3> QED BY <1>1, <3>1, <3>2, <3>3, ArtistActs
  <2>3. short'[Artist] = FALSE
    <3>1. short'[Artist] \in BOOLEAN
      <4>1. TypeOK'
        BY <1>0, StepType DEF Next, Acts, RunHandler, Client
      <4> QED BY <1>0, <4>1 DEF TypeOK, HistoryOK
    <3> QED BY <3>1 DEF Fair
  <2> QED BY <1>0, <2>1, <2>2, <2>3 DEF Fair, Same
<1>3. ~torn'[u] /\ FeedOf(u)
  BY <1>0, <1>2 DEF Same
<1>4. CASE Restart(Artist)
  BY <1>3, <1>4, ArtistRestartFeed
<1>5. CASE \/ Spread(Artist) \/ AnswerQuery(Artist)
           \/ (Transmit(Artist) \/ Acknowledge(Artist)) /\ UNCHANGED fansVars
  <2>1. ~Idle(Artist)
    <3>1. CASE Spread(Artist)
      BY <1>0, <3>1, SpreadDoes DEF Idle, Settled
    <3>2. CASE AnswerQuery(Artist)
      BY <3>2 DEF AnswerQuery, Idle
    <3>3. CASE Transmit(Artist) /\ UNCHANGED fansVars
      BY <1>0, <3>3, TransmitDoes DEF Idle, Settled
    <3>4. CASE Acknowledge(Artist) /\ UNCHANGED fansVars
      BY <1>0, <3>4, AcknowledgeDoes DEF Idle, Settled
    <3> QED BY <1>5, <3>1, <3>2, <3>3, <3>4
  <2>2. Calm(u) /\ CalmFeed(u)
    BY <1>3, <2>1 DEF FeedOf
  <2>3. Calm(u)'
    BY <1>0, <2>2 DEF Calm, Same
  <2>4. ~torn[u]
    BY <1>2
  <2>5. CalmFeed(u)'
    BY <1>0, <1>5, <2>2, <2>4, SpreadFeed, FansFeed, DeliverFeed, ToldFeed
  <2> QED BY <1>3, <2>3, <2>5 DEF FeedOf
<1> QED BY <1>1, <1>4, <1>5, ArtistActs

\* Every step keeps it.
LEMMA StepFeed ==
    ASSUME TypeOK, PlacesInv, FreshInv, ToonInv, FeedInv, [Next]_vars
    PROVE  FeedInv'
<1> SUFFICES ASSUME NEW u \in Readers, Fair(u)' PROVE ~torn'[u] /\ FeedOf(u)'
  BY DEF FeedInv
<1>0. /\ Fair(u) => ~torn[u] /\ FeedOf(u)
      /\ u \in User /\ u # Artist /\ Artist \in User
      /\ \A c \in 1..uploads : Feed(u, c) \in Docs
      /\ sent[u] \in Nat /\ sent[Artist] \in Nat
  BY ReaderFacts, ArtistFacts DEF FeedInv, Docs
<1>1. CASE Upload
  <2>1. UNCHANGED <<short, torn>> /\ raced' = [v \in User |-> raced[v] \/ ~Idle(v)]
    BY <1>1 DEF Upload
  <2>2. Fair(u)
    BY <1>0, <2>1 DEF Fair
  <2> QED BY <1>0, <1>1, <2>1, <2>2, UploadFeed DEF FeedOf
<1>2. CASE UNCHANGED vars
  <2>1. UNCHANGED <<db, pending, sent, main, queries, uploads, want, torn, short, raced>>
    BY <1>2 DEF vars, firestoreVars, fansVars, historyVars
  <2>2. Fair(u)
    BY <2>1 DEF Fair
  <2> QED BY <1>0, <2>1, <2>2, StillFeed
<1>3. CASE \E v \in User : Others(v)
  <2>1. PICK v \in User : Others(v)
    BY <1>3
  <2>2. UNCHANGED <<db, pending, main, queries, uploads, want, torn, short, raced>>
    BY <2>1 DEF Others, OpenProfile, CloseProfile, CheckFails, Reconnect, firestoreVars,
       fansVars, historyVars
  <2>3. sent'[u] \in {0, sent[u]} /\ sent'[Artist] \in {0, sent[Artist]}
    BY <1>0, <2>1 DEF Others, OpenProfile, CloseProfile, CheckFails, Reconnect, firestoreVars,
       TypeOK, QueuesOK
  <2>4. Fair(u)
    BY <2>2 DEF Fair
  <2> QED BY <1>0, <2>2, <2>3, <2>4, StillFeed
<1>4. CASE Acts(u)
  BY <1>0, <1>4, ReaderFeed
<1>5. CASE Acts(Artist)
  BY <1>0, <1>5, ArtistFeed
<1>6. CASE \E v \in User \ {u, Artist} : Acts(v)
  <2>1. PICK v \in User \ {u, Artist} : Acts(v)
    BY <1>6
  <2>2. Same(u) /\ Same(Artist) /\ uploads' = uploads
    BY <1>0, <2>1, StepsApart
  <2>3. \A c \in 1..uploads : db'[Feed(u, c)] = db[Feed(u, c)]
    BY <1>0, <2>1, DocsKept
  <2>4. Fair(u)
    BY <2>2 DEF Fair, Same
  <2> QED BY <1>0, <2>2, <2>3, <2>4, StillFeed DEF Same
<1> QED BY <1>1, <1>2, <1>3, <1>4, <1>5, <1>6, NextActs

\* With both devices idle, u's feed holds every cartoon of the artist or none
\* of them, as u's last tap asked, unless that tap and an upload were under
\* way together or a restart or a cached answer cut the work short
\* (FeedAgrees).
THEOREM FeedCorrect == Spec => []FeedAgrees
<1> DEFINE Inv == TypeOK /\ PlacesInv /\ FreshInv /\ ToonInv /\ FeedInv
<1>1. Init => Inv
  BY InitType, InitPlaces, InitFresh, InitToons, InitFeed
<1>2. Inv /\ [Next]_vars => Inv'
  BY StepType, StepPlaces, StepFresh, StepToons, StepFeed
<1>3. Inv => FeedAgrees
  BY FeedHolds
<1> QED BY <1>1, <1>2, <1>3, PTL DEF Spec
=============================================================================
