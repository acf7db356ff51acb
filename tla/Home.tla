-------------------------------- MODULE Home --------------------------------
(***************************************************************************)
(* The home screen of one account: fetching the cartoons of the service,   *)
(* sorting them into the screen's lists, refreshing, and what becomes of   *)
(* the screen when the account cancels or completes an upload.             *)
(*                                                                         *)
(* A fetch (fetchCartoonFeed) asks for the ids of all cartoons, then for   *)
(* each cartoon by itself.  The answers come in any order; each one adds a *)
(* cartoon to the fetch's own list and hands the whole list to the screen, *)
(* which merges it into its lists.  A refresh starts another fetch while   *)
(* the answers of earlier ones may still be on their way.                  *)
(***************************************************************************)
EXTENDS Integers, SequencesExt

CONSTANTS
    Type,         \* values of a cartoon's type field
    Unused,       \* what the service holds for an id before its upload
    Deleted,      \* what it holds for a deleted cartoon's id
    MaxToons,     \* bound: cartoons uploaded, by anyone
    MaxFetches,   \* bound: fetches the screen starts
    MaxMishaps,   \* bound: changes of stored cartoons and failed reads
    MaxUploads    \* bound: uploads of this account

ASSUME HomeBoundsAssumption ==
    /\ MaxFetches \in Nat \ {0}
    /\ \A bound \in {MaxToons, MaxMishaps, MaxUploads} : bound \in Nat

VARIABLES
    stored,    \* stored[t]: the cartoon as this device's reads see it
    listing,   \* fetches whose list of ids is not answered
    gets,      \* <<fetch, id>> of the reads that are not answered
    found,     \* found[n]: the cartoons fetch n has collected, newest first
    due,       \* callbacks waiting for the main thread
    rounds,    \* fetches started
    all,       \* the screen's cartoons: the list of the category ALL
    kinds,     \* kinds[k]: the screen's list of category k
    spinning,  \* the refresh control turns
    screen,    \* what covers the tabs: nothing, the set-up or the upload
    uploads,   \* uploads whose completion ran
    changes,   \* changes of stored cartoons
    misses,    \* reads that failed
    clock,     \* time of the last new cartoon
    mine       \* the ids this account uploaded

lists == <<all, kinds>>
reads == <<listing, gets, found>>
homeVars == <<stored, reads, due, rounds, lists, spinning,
          screen, uploads, changes, misses, clock, mine>>

Kind == {"RECOM", "DAILY", "ACTION", "LOVE"}

\* Ids of cartoons, in the order of their uploads.
Toon == 1..MaxToons

Stored(t) == stored[t] \notin {Unused, Deleted}

\* A cartoon value as the screen holds it, equal to another if all fields are.
Copy(t) == [id |-> t, type |-> stored[t].type, like |-> stored[t].like,
            time |-> stored[t].time]

-----------------------------------------------------------------------------
(* The screen's lists                                                      *)

\* Every type that is none of the three named ones is listed as LOVE.
KindOf(c) == IF c.type \in {"RECOM", "DAILY", "ACTION"} THEN c.type ELSE "LOVE"

\* A plausible slip: the branch of ACTION forgets the list of ALL.
PlaceLess(shown, c) ==
    IF Contains(shown.kinds[KindOf(c)], c) THEN shown
    ELSE [kinds |-> [shown.kinds EXCEPT ![KindOf(c)] = Append(@, c)],
          all   |-> IF KindOf(c) \in {"RECOM", "ACTION"} THEN shown.all
                    ELSE Append(shown.all, c)]

\* A plausible slip: nothing asks whether the cartoon is listed already.
PlaceAlways(shown, c) ==
    [kinds |-> [shown.kinds EXCEPT ![KindOf(c)] = Append(@, c)],
     all   |-> IF KindOf(c) = "RECOM" THEN shown.all ELSE Append(shown.all, c)]

\* A value its category lists already is left out of both lists.
Place(shown, c) ==
    IF Contains(shown.kinds[KindOf(c)], c) THEN shown
    ELSE [kinds |-> [shown.kinds EXCEPT ![KindOf(c)] = Append(@, c)],
          all   |-> IF KindOf(c) = "RECOM" THEN shown.all ELSE Append(shown.all, c)]

\* The lists after the first cartoons of collected have been placed in turn.
Placed(collected) ==
    LET after[n \in 0..Len(collected)] ==
            IF n = 0 THEN [kinds |-> kinds, all |-> all]
            ELSE Place(after[n - 1], collected[n])
    IN  after[Len(collected)]

\* The completion of a fetch: all it has collected so far, in order.
MergeLists(collected) ==
    LET shown == Placed(collected)
    IN  kinds' = shown.kinds /\ all' = shown.all

\* A sequence of cartoons in the order of their times, the newest first.
Sorted(s) ==
    LET order == CHOOSE p \in [DOMAIN s -> DOMAIN s] :
                    \A i, j \in DOMAIN s :
                        i < j => p[i] # p[j] /\ s[p[i]].time >= s[p[j]].time
    IN  [i \in DOMAIN s |-> s[order[i]]]

\* One more collected cartoon.
Collect(collected, c) ==
    IF Contains(collected, c) THEN collected
    ELSE Sorted(Append(collected, c))

-----------------------------------------------------------------------------
(* fetchCartoonFeed                                                        *)

FetchFeed ==
    /\ rounds' = rounds + 1
    /\ listing' = listing \cup {rounds + 1}

\* The ids arrive and each cartoon is asked for.
Listed(n) ==
    /\ n \in listing
    /\ listing' = listing \ {n}
    /\ gets' = gets \cup {<<n, t>> : t \in {s \in Toon : Stored(s)}}
    /\ UNCHANGED <<stored, found, due, rounds, lists, spinning,
                   screen, uploads, changes, misses, clock, mine>>

\* fetchCartoon is answered; a cartoon deleted meanwhile ends it.
AnswerGet(n, t) ==
    /\ <<n, t>> \in gets
    /\ gets' = gets \ {<<n, t>>}
    /\ due' = IF Stored(t) THEN Append(due, [do |-> "got", fetch |-> n, cartoon |-> Copy(t)])
               ELSE due
    /\ UNCHANGED <<stored, listing, found, rounds, lists, spinning,
                   screen, uploads, changes, misses, clock, mine>>

\* A read of the collection or of a cartoon ends in an error: its guard
\* drops it, and nothing else ends the refresh.
ReadFails ==
    /\ changes + misses < MaxMishaps
    /\ misses' = misses + 1
    /\ \/ \E n \in listing : listing' = listing \ {n} /\ UNCHANGED gets
       \/ \E g \in gets : gets' = gets \ {g} /\ UNCHANGED listing
    /\ UNCHANGED <<stored, found, due, rounds, lists, spinning,
                   screen, uploads, changes, clock, mine>>

\* A plausible slip: the completion is handed what was collected before.
GotLate ==
    /\ due # << >> /\ Head(due).do = "got"
    /\ due' = Tail(due)
    /\ LET n == Head(due).fetch
       IN  /\ found' = [found EXCEPT ![n] = Collect(@, Head(due).cartoon)]
           /\ MergeLists(found[n])
    /\ spinning' = FALSE
    /\ UNCHANGED <<stored, listing, gets, rounds, screen, uploads,
                   changes, misses, clock, mine>>

\* The callback: collect the cartoon, then show all that is collected.
Got ==
    /\ due # << >> /\ Head(due).do = "got"
    /\ due' = Tail(due)
    /\ LET n == Head(due).fetch
           collected == Collect(found[n], Head(due).cartoon)
       IN  found' = [found EXCEPT ![n] = collected] /\ MergeLists(collected)
    /\ spinning' = FALSE
    /\ UNCHANGED <<stored, listing, gets, rounds, screen, uploads,
                   changes, misses, clock, mine>>

-----------------------------------------------------------------------------
(* The user                                                                *)

\* wantRefresh: only the list of ALL is cleared before the next fetch.
WantRefresh ==
    /\ rounds < MaxFetches
    /\ FetchFeed
    /\ all' = << >>
    /\ UNCHANGED kinds

\* The refresh control fires once until it is told to end.
PullRefresh ==
    /\ screen = "tabs" /\ ~spinning
    /\ WantRefresh
    /\ spinning' = TRUE
    /\ UNCHANGED <<stored, gets, found, due, screen, uploads, changes,
                   misses, clock, mine>>

\* The middle tab presents the set-up of a new cartoon.
OpenSetUp ==
    /\ screen = "tabs"
    /\ screen' = "setup"
    /\ UNCHANGED <<stored, reads, due, rounds, lists, spinning, uploads,
                   changes, misses, clock, mine>>

\* The set-up's cancel, confirmed: the tab bar controller refreshes the home.
\* (It also puts the category ALL on display; no list depends on that.)
CancelSetUp ==
    /\ screen = "setup"
    /\ screen' = "tabs"
    /\ WantRefresh
    /\ UNCHANGED <<stored, gets, found, due, spinning, uploads, changes, misses, clock, mine>>

OpenUpload ==
    /\ screen = "setup"
    /\ screen' = "upload"
    /\ UNCHANGED <<stored, reads, due, rounds, lists, spinning, uploads,
                   changes, misses, clock, mine>>

\* The upload's cancel goes back to the set-up.
CancelUpload ==
    /\ screen = "upload"
    /\ screen' = "setup"
    /\ UNCHANGED <<stored, reads, due, rounds, lists, spinning, uploads,
                   changes, misses, clock, mine>>

\* A new document gets an id of its own.
NewCartoon(t, type) ==
    /\ t = clock + 1
    /\ clock' = clock + 1
    /\ stored' = [stored EXCEPT ![t] = [type |-> type, like |-> 0, time |-> clock + 1]]

\* successHandle, once the images are stored: the document is visible to
\* this device at once, its completion is due when the write is acknowledged.
Upload(t, type) ==
    /\ screen = "upload"
    /\ Cardinality(mine) < MaxUploads
    /\ NewCartoon(t, type)
    /\ mine' = mine \cup {t}
    /\ screen' = "sending"
    /\ UNCHANGED <<reads, due, rounds, lists, spinning, uploads, changes, misses>>

AcknowledgeUpload ==
    /\ screen = "sending"
    /\ screen' = "sent"
    /\ due' = Append(due, [do |-> "uploaded"])
    /\ UNCHANGED <<stored, reads, rounds, lists, spinning, uploads,
                   changes, misses, clock, mine>>

\* The completion: both screens are dismissed, but the second dismissal is
\* asked for during the first one's transition, and UIKit may drop it.  The
\* new tab bar controller is presented on the set-up's tabBarController,
\* which a presented screen does not have: the old one and its home stay.
Uploaded ==
    /\ due # << >> /\ Head(due).do = "uploaded"
    /\ due' = Tail(due)
    /\ uploads' = uploads + 1
    /\ screen' \in {"tabs", "setup"}
    /\ UNCHANGED <<stored, reads, rounds, lists, spinning, changes, misses,
                   clock, mine>>

-----------------------------------------------------------------------------
(* Other accounts                                                          *)

OthersUpload(t, type) ==
    /\ NewCartoon(t, type)
    /\ UNCHANGED <<reads, due, rounds, lists, spinning, screen, uploads,
                   changes, misses, mine>>

\* A like, an edit of the type, or a deletion.  An id is never used again.
OthersChange(t) ==
    /\ changes + misses < MaxMishaps
    /\ changes' = changes + 1
    /\ Stored(t) /\ ~(t \in mine /\ screen = "sending")
    /\ \/ stored' = [stored EXCEPT ![t].like = @ + 1]
       \/ \E type \in Type \ {stored[t].type} : stored' = [stored EXCEPT ![t].type = type]
       \/ stored' = [stored EXCEPT ![t] = Deleted]
    /\ UNCHANGED <<reads, due, rounds, lists, spinning, screen, uploads,
                   misses, clock, mine>>

-----------------------------------------------------------------------------
\* The home is loaded: viewDidLoad starts the first fetch.
HomeInit ==
    /\ stored = [t \in Toon |-> Unused]
    /\ listing = {1}
    /\ gets = {}
    /\ found = [n \in 1..MaxFetches |-> << >>]
    /\ due = << >>
    /\ rounds = 1
    /\ all = << >>
    /\ kinds = [k \in Kind |-> << >>]
    /\ spinning = FALSE
    /\ screen = "tabs"
    /\ uploads = 0
    /\ changes = 0
    /\ misses = 0
    /\ clock = 0
    /\ mine = {}

ReadAnswered == \/ \E n \in 1..MaxFetches : Listed(n)
            \/ \E n \in 1..MaxFetches, t \in Toon : AnswerGet(n, t)

HomeNext ==
    \/ ReadAnswered \/ ReadFails \/ Got \/ AcknowledgeUpload \/ Uploaded
    \/ PullRefresh \/ OpenSetUp \/ CancelSetUp \/ OpenUpload \/ CancelUpload
    \/ \E t \in Toon, type \in Type : Upload(t, type) \/ OthersUpload(t, type)
    \/ \E t \in Toon : OthersChange(t)

HomeSpec == HomeInit /\ [][HomeNext]_homeVars

\* The main thread runs what is due, and reads are answered or fail.
HomeFairness == WF_homeVars(Got) /\ WF_homeVars(Uploaded) /\ WF_homeVars(ReadAnswered)

HomeFairSpec == HomeSpec /\ HomeFairness
-----------------------------------------------------------------------------
(* Types                                                                   *)

Value == [id : Toon, type : Type, like : 0..MaxMishaps, time : Toon]

\* Every variable has its type: in particular a category lists only cartoons
\* of its kind.
HomeTypeOK ==
    /\ \A t \in Toon : Stored(t) => Copy(t) \in Value
    /\ listing \subseteq 1..rounds
    /\ gets \subseteq (1..rounds) \X Toon
    /\ \A n \in 1..MaxFetches : found[n] \in Seq(Value)
    /\ rounds \in 1..MaxFetches
    /\ all \in Seq(Value)
    /\ \A k \in Kind : kinds[k] \in Seq({c \in Value : KindOf(c) = k})
    /\ spinning \in BOOLEAN
    /\ screen \in {"tabs", "setup", "upload", "sending", "sent"}
    /\ uploads \in 0..Cardinality(mine) /\ mine \subseteq Toon

-----------------------------------------------------------------------------
(* Safety                                                                  *)

\* What ALL shows is always found in the list of its category too, however
\* the answers of overlapping fetches and the refreshes interleave.
AllWithinKinds ==
    \A i \in DOMAIN all : Contains(kinds[KindOf(all[i])], all[i])

\* No list ever shows the same cartoon twice unless it changed in between,
\* although each completion hands over everything collected before.
NoRepeats ==
    \A s \in {all} \cup {kinds[k] : k \in Kind} : IsInjective(s)

\* Until the first refresh ALL shows every cartoon of the three categories.
AllCoversKinds ==
    rounds = 1 => ToSet(all) = UNION {ToSet(kinds[k]) : k \in Kind \ {"RECOM"}}

\* ALL and the lists of the categories agree (the two branches of fetchCartoon's
\* completion that place a cartoon in both).
KindsAgree == AllWithinKinds /\ AllCoversKinds

\* Each fetch hands over its cartoons newest first, whatever the order in
\* which they were answered.
NewestFirst ==
    \A n \in 1..MaxFetches : \A i, j \in DOMAIN found[n] :
        i < j => found[n][i].time > found[n][j].time

\* The state is well typed, in particular each cartoon is listed under its own
\* category; what is handed over is sorted, and no list repeats itself
\* (fetchCartoonFeed's sort, fetchCartoon's contains).
ListsSound == HomeTypeOK /\ NoRepeats /\ NewestFirst

\* The comment at the tab bar controller's vcDidFinish: after an upload the
\* home's refresh is run once, since a new cartoon does not appear otherwise.
UploadRefreshes == [][uploads' # uploads => rounds' # rounds]_homeVars

-----------------------------------------------------------------------------
(* Liveness                                                                *)

InSomeList(t) == \E k \in Kind : \E i \in DOMAIN kinds[k] : kinds[k][i].id = t

\* Every cartoon a fetch finds comes to be listed, unless it is deleted
\* before it is read or a read fails.
ListedEventually ==
    \A t \in Toon :
        (\E n \in 1..MaxFetches : <<n, t>> \in gets)
            ~> InSomeList(t) \/ stored[t] = Deleted \/ misses > 0
=============================================================================
