-------------------------------- MODULE Fans --------------------------------
(***************************************************************************)
(* One artist, the accounts that become fans of the artist and stop being  *)
(* fans from the artist's profile screen, and the artist's uploads.        *)
(*                                                                         *)
(* A tap writes star/u/user_star/artist; that write's handler writes the   *)
(* mirror fans/artist/user_fan/u, and the mirror's handler asks for the    *)
(* artist's cartoons, to enter them in users/u/user-feed or remove them.   *)
(* An upload asks for the artist's fans at the moment it writes the        *)
(* cartoon, to enter the cartoon in the feed of each.  So the two sides    *)
(* race: see raced.                                                        *)
(***************************************************************************)
EXTENDS Firestore, SequencesExt

CONSTANTS
    Artist,       \* the account whose profile and uploads are modelled
    Closed,       \* the profile screen's content while it is not open
    MaxTaps,      \* bound: taps on the profile's button, per account
    MaxVisits,    \* bound: times an account opens the profile
    MaxUploads,   \* bound: cartoons the artist uploads
    MaxFaults,    \* bound: restarts and queries answered from the cache, in all
    MaxActs       \* bound: taps, visits and uploads in all

ASSUME ArtistAssumption == Artist \in User
ASSUME UserAssumption == IsFiniteSet(User)
ASSUME FansBoundsAssumption ==
    \A bound \in {MaxTaps, MaxVisits, MaxUploads, MaxFaults, MaxActs} : bound \in Nat

VARIABLES
    profile,    \* profile[u]: the profile's user while the screen is open
    visits,     \* visits[u]: how often u opened the profile; names the visit
    checks,     \* checks[u]: visits whose checkUserFans is not answered
    queries,    \* queries[u]: u's getDocuments calls, oldest first
    taps,       \* taps[u]: taps on the button
    uploads,    \* cartoons the artist uploaded; the number names the cartoon
    faults,     \* restarts of applications and queries answered from a cache
    \* History, read by the properties only:
    want,       \* want[u]: whether u's last tap asked to be a fan
    torn,       \* torn[u]: a restart dropped the mirror's handler since
    short,      \* short[u]: a restart or a cached answer cut u's feed work
    raced       \* raced[u]: an upload and a tap of u were under way together

screenVars == <<profile, visits, checks>>
historyVars == <<want, torn, short, raced>>
fansVars == <<screenVars, queries, taps, uploads, faults, historyVars>>
vars == <<firestoreVars, fansVars>>

Readers == User \ {Artist}

-----------------------------------------------------------------------------
(* Documents                                                               *)

Star(u) == <<"user_star", u>>
Fan(u) == <<"user_fan", u>>
Feed(u, c) == <<"user-feed", u, c>>
Toon(c) == <<"cartoons", c>>
Notice(u, tap) == <<"user-feedback", u, tap>>

Docs == {Star(u) : u \in Readers} \cup {Fan(u) : u \in Readers}
        \cup {Feed(u, c) : u \in User, c \in 1..MaxUploads}
        \cup {Toon(c) : c \in 1..MaxUploads}
        \cup {Notice(u, i) : u \in Readers, i \in 1..MaxTaps}

Exists(d) == db[d] # NoDoc
Sees(u, d) == View(u)[d] # NoDoc

\* The profile's user as it is passed to the screen: fan is FALSE until the
\* check or a tap's last handler sets it; known is history, it says one did.
NewProfile == [fan |-> FALSE, known |-> FALSE]

-----------------------------------------------------------------------------
Init ==
    /\ FirestoreInit([d \in Docs |-> NoDoc])
    /\ profile = [u \in User |-> Closed]
    /\ visits = [u \in User |-> 0]
    /\ checks = [u \in User |-> {}]
    /\ queries = [u \in User |-> << >>]
    /\ taps = [u \in User |-> 0]
    /\ uploads = 0
    /\ faults = 0
    /\ want = [u \in User |-> FALSE]
    /\ torn = [u \in User |-> FALSE]
    /\ short = [u \in User |-> FALSE]
    /\ raced = [u \in User |-> FALSE]

\* The accounts have not yet done all that the bound lets them do together.
MayAct == FoldFunction(+, 0, visits) + FoldFunction(+, 0, taps) + uploads < MaxActs

\* Nothing of u is under way.
Idle(u) == Settled(u) /\ queries[u] = << >>

-----------------------------------------------------------------------------
(* The profile screen                                                      *)

OpenProfile(u) ==
    /\ u # Artist
    /\ profile[u] = Closed
    /\ visits[u] < MaxVisits /\ MayAct
    /\ visits' = [visits EXCEPT ![u] = @ + 1]
    /\ profile' = [profile EXCEPT ![u] = NewProfile]
    /\ checks' = [checks EXCEPT ![u] = @ \cup {visits[u] + 1}]
    /\ UNCHANGED <<firestoreVars, queries, taps, uploads, faults, historyVars>>

CloseProfile(u) ==
    /\ profile[u] # Closed
    /\ profile' = [profile EXCEPT ![u] = Closed]
    /\ UNCHANGED <<firestoreVars, visits, checks, queries, taps, uploads, faults, historyVars>>

\* Setting the profile's fan redraws the header at once, on its own visit only.
ShowFan(u, visit, fan) ==
    IF profile[u] # Closed /\ visit = visits[u]
    THEN profile' = [profile EXCEPT ![u] = [fan |-> fan, known |-> TRUE]]
    ELSE UNCHANGED profile

\* A tap's history: this tap is now what u asked for.
Asked(u, fan) ==
    /\ want' = [want EXCEPT ![u] = fan]
    /\ torn' = [torn EXCEPT ![u] = FALSE]
    /\ short' = [short EXCEPT ![u] = FALSE]
    /\ raced' = [raced EXCEPT ![u] = ~Idle(Artist)]

\* The button of somebody else's profile, by the header's copy of the user.
TapButton(u) ==
    /\ profile[u] # Closed
    /\ taps[u] < MaxTaps /\ MayAct
    /\ taps' = [taps EXCEPT ![u] = @ + 1]
    /\ UNCHANGED <<db, sent, main, screenVars, queries, uploads, faults>>

\* fanUsers.
TapFan(u) ==
    /\ TapButton(u)
    /\ ~profile[u].fan
    /\ Issue(u, << SetData(Star(u), EmptyDoc,
                           [do |-> "starStored", visit |-> visits[u], tap |-> taps[u] + 1]) >>)
    /\ Asked(u, TRUE)

\* A plausible slip: only the artist's list is told.
TapUnfanMirror(u) ==
    /\ TapButton(u)
    /\ profile[u].fan
    /\ Issue(u, << DeleteDoc(Fan(u),
                             [do |-> "unfanned", visit |-> visits[u], tap |-> taps[u] + 1]) >>)
    /\ Asked(u, FALSE)

\* antiFanUser.
TapUnfan(u) ==
    /\ TapButton(u)
    /\ profile[u].fan
    /\ Issue(u, << DeleteDoc(Star(u),
                             [do |-> "starDeleted", visit |-> visits[u], tap |-> taps[u] + 1]) >>)
    /\ Asked(u, FALSE)

-----------------------------------------------------------------------------
(* Completion handlers                                                     *)

RunHead(u) == main' = [main EXCEPT ![u] = Tail(@)]
Handled(u) == Head(main[u])

StarStored(u) ==
    /\ Due(u, "starStored")
    /\ RunHead(u)
    /\ Issue(u, << SetData(Fan(u), EmptyDoc, [Handled(u) EXCEPT !.do = "fanned"]) >>)
    /\ UNCHANGED <<db, sent, fansVars>>

\* A plausible slip: the handler of the delete stores the mirror.
StarDeletedStores(u) ==
    /\ Due(u, "starDeleted")
    /\ RunHead(u)
    /\ Issue(u, << SetData(Fan(u), EmptyDoc, [Handled(u) EXCEPT !.do = "unfanned"]) >>)
    /\ UNCHANGED <<db, sent, fansVars>>

StarDeleted(u) ==
    /\ Due(u, "starDeleted")
    /\ RunHead(u)
    /\ Issue(u, << DeleteDoc(Fan(u), [Handled(u) EXCEPT !.do = "unfanned"]) >>)
    /\ UNCHANGED <<db, sent, fansVars>>

\* updateMainUserAfterFan begins with a query for the artist's cartoons.
UpdateMainUserAfterFan(u, didFan) ==
    queries' = [queries EXCEPT ![u] = Append(@, [ask |-> "cartoons", didFan |-> didFan])]

\* uploadFeedBack of type fan (u is not the artist: one has no fan button).
UploadFeedBack(u, tap) == Issue(u, << SetData(Notice(u, tap), EmptyDoc, Nothing) >>)

\* The completion of fanUsers: show, notify the artist, fill the feed.
Fanned(u) ==
    /\ Due(u, "fanned")
    /\ RunHead(u)
    /\ ShowFan(u, Handled(u).visit, TRUE)
    /\ UploadFeedBack(u, Handled(u).tap)
    /\ UpdateMainUserAfterFan(u, TRUE)
    /\ UNCHANGED <<db, sent, visits, checks, taps, uploads, faults, historyVars>>

\* A plausible slip: the header is not told that the fan is gone.
UnfannedUnseen(u) ==
    /\ Due(u, "unfanned")
    /\ RunHead(u)
    /\ UpdateMainUserAfterFan(u, FALSE)
    /\ UNCHANGED <<db, pending, sent, screenVars, taps, uploads, faults, historyVars>>

\* The completion of antiFanUser: show, empty the feed.
Unfanned(u) ==
    /\ Due(u, "unfanned")
    /\ RunHead(u)
    /\ ShowFan(u, Handled(u).visit, FALSE)
    /\ UpdateMainUserAfterFan(u, FALSE)
    /\ UNCHANGED <<db, pending, sent, visits, checks, taps, uploads, faults, historyVars>>

\* The cartoons found are entered in the feed or removed from it.
Filled(u) ==
    /\ Due(u, "filled")
    /\ RunHead(u)
    /\ LET found == SetToSeq(Handled(u).cartoons)
           entry(c) == IF Handled(u).didFan THEN SetData(Feed(u, c), EmptyDoc, Nothing)
                       ELSE DeleteDoc(Feed(u, c), Nothing)
       IN  Issue(u, [i \in DOMAIN found |-> entry(found[i])])
    /\ UNCHANGED <<db, sent, fansVars>>

\* A plausible slip: only the artist's own feed gets the new cartoon.
SpreadToSelf(u) ==
    /\ Due(u, "spread")
    /\ RunHead(u)
    /\ Issue(u, << SetData(Feed(u, Handled(u).cartoon), EmptyDoc, Nothing) >>)
    /\ UNCHANGED <<db, sent, fansVars>>

\* The fans found get the new cartoon in their feeds, then the artist does.
Spread(u) ==
    /\ Due(u, "spread")
    /\ RunHead(u)
    /\ LET found == SetToSeq(Handled(u).fans) \o <<u>>
           entry(v) == SetData(Feed(v, Handled(u).cartoon), EmptyDoc, Nothing)
       IN  Issue(u, [i \in DOMAIN found |-> entry(found[i])])
    /\ UNCHANGED <<db, sent, fansVars>>

Checked(u) ==
    /\ Due(u, "checked")
    /\ RunHead(u)
    /\ ShowFan(u, Handled(u).visit, Handled(u).fan)
    /\ UNCHANGED <<db, pending, sent, visits, checks, queries, taps, uploads, faults, historyVars>>

-----------------------------------------------------------------------------
(* Uploads                                                                 *)

\* uploadCartoon, its images stored: the document is added and, without
\* waiting for it, the artist's fans are asked for.
Upload ==
    /\ uploads < MaxUploads /\ MayAct
    /\ uploads' = uploads + 1
    /\ Issue(Artist, << SetData(Toon(uploads + 1), EmptyDoc, Nothing) >>)
    /\ queries' = [queries EXCEPT ![Artist] =
                      Append(@, [ask |-> "fans", cartoon |-> uploads + 1])]
    /\ raced' = [u \in User |-> raced[u] \/ ~Idle(u)]
    /\ UNCHANGED <<db, sent, main, screenVars, taps, faults, want, torn, short>>

-----------------------------------------------------------------------------
(* Reads                                                                   *)

Post(u, handler) == main' = [main EXCEPT ![u] = Append(@, handler)]

AnswerCheck(u) ==
    \E visit \in checks[u] :
        /\ checks' = [checks EXCEPT ![u] = @ \ {visit}]
        /\ Post(u, [do |-> "checked", visit |-> visit, fan |-> Sees(u, Star(u))])
        /\ UNCHANGED <<db, pending, sent, profile, visits, queries, taps, uploads,
                       faults, historyVars>>

\* Offline the check ends in an error, and its guard drops it.
CheckFails(u) ==
    \E visit \in checks[u] :
        /\ checks' = [checks EXCEPT ![u] = @ \ {visit}]
        /\ UNCHANGED <<firestoreVars, profile, visits, queries, taps, uploads,
                       faults, historyVars>>

CartoonsSeen(u) == {c \in 1..MaxUploads : Sees(u, Toon(c))}
FansSeen(u) == {v \in Readers : Sees(u, Fan(v))}

\* What the callback of u's oldest query does with the documents found.
Deliver(u, q, cartoons, fans) ==
    /\ queries' = [queries EXCEPT ![u] = Tail(@)]
    /\ Post(u, IF q.ask = "cartoons"
               THEN [do |-> "filled", didFan |-> q.didFan, cartoons |-> cartoons]
               ELSE [do |-> "spread", cartoon |-> q.cartoon, fans |-> fans])

\* The oldest query is answered.  All of one device's are the same query,
\* which the client listens to once and answers in the order of the calls.
AnswerQuery(u) ==
    /\ queries[u] # << >>
    /\ Deliver(u, Head(queries[u]), CartoonsSeen(u), FansSeen(u))
    /\ UNCHANGED <<db, pending, sent, screenVars, taps, uploads, faults, historyVars>>

\* Offline, a query finds whatever part of the collection is in the cache.
AnswerFromCache(u) ==
    /\ queries[u] # << >>
    /\ faults < MaxFaults
    /\ faults' = faults + 1
    /\ \E cartoons \in SUBSET CartoonsSeen(u), fans \in SUBSET FansSeen(u) :
          Deliver(u, Head(queries[u]), cartoons, fans)
    /\ short' = [short EXCEPT ![u] = TRUE]
    /\ UNCHANGED <<db, pending, sent, screenVars, taps, uploads, want, torn, raced>>

-----------------------------------------------------------------------------
(* Restarts of the application                                             *)

Mirrors(then) == then # Nothing /\ then.do \in {"starStored", "starDeleted"}

\* A restart keeps the queue of writes and nothing else.
Restart(u) ==
    /\ faults < MaxFaults
    /\ faults' = faults + 1
    /\ RestartClient(u)
    /\ profile' = [profile EXCEPT ![u] = Closed]
    /\ checks' = [checks EXCEPT ![u] = {}]
    /\ queries' = [queries EXCEPT ![u] = << >>]
    /\ torn' = [torn EXCEPT ![u] =
                   \/ @
                   \/ \E i \in DOMAIN pending[u] : Mirrors(pending[u][i].then)
                   \/ \E i \in DOMAIN main[u] : Mirrors(main[u][i])]
    /\ short' = [short EXCEPT ![u] =
                   \/ @ \/ main[u] # << >> \/ queries[u] # << >>
                   \/ \E i \in DOMAIN pending[u] : pending[u][i].then # Nothing]
    /\ UNCHANGED <<db, visits, taps, uploads, want, raced>>

-----------------------------------------------------------------------------
RunHandler(u) ==
    \/ StarStored(u) \/ StarDeleted(u) \/ Fanned(u) \/ Unfanned(u)
    \/ Filled(u) \/ Spread(u) \/ Checked(u)

Client(u) == /\ Transmit(u) \/ Acknowledge(u) \/ Reconnect(u)
             /\ UNCHANGED fansVars

Next ==
    \/ Upload
    \/ \E u \in User :
          \/ OpenProfile(u) \/ CloseProfile(u) \/ TapFan(u) \/ TapUnfan(u)
          \/ RunHandler(u) \/ Client(u) \/ Restart(u)
          \/ AnswerCheck(u) \/ CheckFails(u) \/ AnswerQuery(u) \/ AnswerFromCache(u)

Spec == Init /\ [][Next]_vars

\* The main thread runs what is due, the client keeps the stream up long
\* enough, again and again, for an answer to arrive, and answers queries.
Fairness ==
    \A u \in User : /\ WF_vars(RunHandler(u))
                    /\ WF_vars(Transmit(u) /\ UNCHANGED fansVars)
                    /\ SF_vars(Acknowledge(u) /\ UNCHANGED fansVars)
                    /\ WF_vars(AnswerQuery(u))

FairSpec == Spec /\ Fairness
-----------------------------------------------------------------------------
(* Types                                                                   *)

TapHandler == [do : {"starStored", "starDeleted", "fanned", "unfanned"},
               visit : 1..MaxVisits, tap : 1..MaxTaps]
CheckHandler == [do : {"checked"}, visit : 1..MaxVisits, fan : BOOLEAN]
FillHandler == [do : {"filled"}, didFan : BOOLEAN, cartoons : SUBSET (1..MaxUploads)]
SpreadHandler == [do : {"spread"}, cartoon : 1..MaxUploads, fans : SUBSET Readers]
Handler(u) == IF u = Artist THEN SpreadHandler ELSE TapHandler \cup CheckHandler \cup FillHandler

\* No feature of these screens updates a document: all writes are whole.
WriteOf(ops, docs, thens) == [op : ops, doc : docs, val : {EmptyDoc}, then : thens]

Write(u) ==
    IF u = Artist
    THEN WriteOf({"set"}, {Toon(c) : c \in 1..MaxUploads}
                          \cup {Feed(v, c) : v \in User, c \in 1..MaxUploads}, {Nothing})
    ELSE WriteOf({"set", "delete"}, {Star(u), Fan(u)}, TapHandler \cup {Nothing})
         \cup WriteOf({"set", "delete"}, {Feed(u, c) : c \in 1..MaxUploads}
                                        \cup {Notice(u, i) : i \in 1..MaxTaps}, {Nothing})

AskCartoons == [ask : {"cartoons"}, didFan : BOOLEAN]
AskFans == [ask : {"fans"}, cartoon : 1..MaxUploads]
Query(u) == IF u = Artist THEN AskFans ELSE AskCartoons

Profile == [fan : BOOLEAN, known : BOOLEAN]

ASSUME AbsentAssumption ==
    /\ NoDoc # EmptyDoc /\ Closed \notin Profile
    /\ Nothing \notin TapHandler \cup CheckHandler \cup FillHandler

DocsOK == db \in [Docs -> {EmptyDoc, NoDoc}]
QueuesOK ==
    /\ DOMAIN pending = User /\ DOMAIN main = User /\ DOMAIN queries = User
    /\ sent \in [User -> Nat]
    /\ \A u \in User :
          /\ pending[u] \in Seq(Write(u)) /\ sent[u] <= Len(pending[u])
          /\ main[u] \in Seq(Handler(u))
          /\ queries[u] \in Seq(Query(u))
ScreensOK ==
    /\ profile \in [User -> Profile \cup {Closed}]
    /\ visits \in [User -> 0..MaxVisits]
    /\ checks \in [User -> SUBSET (1..MaxVisits)]
    /\ profile[Artist] = Closed /\ checks[Artist] = {}
    /\ \A u \in User : profile[u] # Closed => visits[u] > 0
CountsOK ==
    /\ taps \in [User -> 0..MaxTaps]
    /\ uploads \in 0..MaxUploads
    /\ faults \in 0..MaxFaults
HistoryOK == {want, torn, short, raced} \subseteq [User -> BOOLEAN]

\* Every variable has its type: in particular a device has only writes of the
\* documents its account's screens write, and only its own screens' handlers.
TypeOK == DocsOK /\ QueuesOK /\ ScreensOK /\ CountsOK /\ HistoryOK

-----------------------------------------------------------------------------
(* Safety                                                                  *)

\* Once u's queue has drained, u's list of stars says what u's last tap asked
\* for, whatever was resent or restarted in between (fanUsers, antiFanUser:
\* the first of two places).
StarsAgree ==
    \A u \in Readers : pending[u] = << >> => (Exists(Star(u)) <=> want[u])

\* Once u's device is settled the artist's list of fans says it too, unless a
\* restart dropped the handler that writes it (the second place, written by
\* the first's handler).
FansAgree ==
    \A u \in Readers : Settled(u) /\ ~torn[u] => (Exists(Fan(u)) <=> want[u])

\* The state is well typed, and both places of a fan say what the last tap
\* asked for once nothing of it is under way: the star always, the fan unless
\* a restart dropped its handler.
PlacesAgree == TypeOK /\ StarsAgree /\ FansAgree

\* On an open profile the header, once it was told anything, says what u's
\* last tap asked for whenever the device is settled, however the late check
\* and the handlers of repeated taps and earlier visits came in between.
HeaderTruthful ==
    \A u \in Readers :
        profile[u] # Closed /\ profile[u].known /\ Settled(u) => profile[u].fan = want[u]

\* With both devices idle, u's feed holds every cartoon of the artist or none
\* of them, as u's last tap asked, unless that tap and an upload were under
\* way together or a restart or a cached answer cut the work short
\* (updateMainUserAfterFan against updateMainUserAfterCartoon).
FeedAgrees ==
    \A u \in Readers :
        Idle(u) /\ Idle(Artist) /\ ~raced[u] /\ ~short[u] /\ ~short[Artist]
            => \A c \in 1..uploads : Exists(Feed(u, c)) <=> want[u]

-----------------------------------------------------------------------------
(* Liveness                                                                *)

\* A cartoon uploaded by the time an account asks to be a fan reaches its
\* feed, unless the account changes its mind or the work is cut short.
FeedArrives ==
    \A u \in Readers : \A c \in 1..MaxUploads :
        want[u] /\ ~short[u] /\ ~raced[u] /\ Exists(Toon(c))
            ~> ~want[u] \/ short[u] \/ raced[u] \/ short[Artist] \/ Exists(Feed(u, c))
=============================================================================
