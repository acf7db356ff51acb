------------------------------- MODULE Studio -------------------------------
(***************************************************************************)
(* Drawing and uploading a cartoon on one device: the set-up screen, the   *)
(* drawing screen, the upload screen, the pages kept in the user defaults, *)
(* the images in Storage and the cartoon's document.                       *)
(*                                                                         *)
(* An upload is a chain of callbacks: store the images one after another,  *)
(* ask for their links one after another, add the document.  It goes on    *)
(* whatever the user does meanwhile: the buttons of the navigation bar are *)
(* not covered by the progress indicator, so the screen can be left, or    *)
(* the upload tapped again.  Its completion dismisses two screens and      *)
(* makes a tab bar controller nobody sees, which erases the user defaults  *)
(* at once, and again when its own fetch of the account is answered.       *)
(***************************************************************************)
EXTENDS Firestore, SequencesExt

CONSTANTS
    Me,           \* the signed-in account
    Pages,        \* images of a cartoon, the thumbnail first (five)
    Title,        \* titles: an upload's folder in Storage is its title
    NoObject,     \* what Storage holds at an unused path
    Foreign,      \* what it holds at a path another account wrote last
    NoView,       \* the view that shows the progress indicator: none
    MaxSaves,     \* bound: drawings saved
    MaxSetUps,    \* bound: times the set-up is opened
    MaxVisits,    \* bound: times the upload screen is opened
    MaxTaps,      \* bound: uploads tapped
    MaxActs,      \* bound: saves, visits, set-ups and taps in all
    MaxMishaps    \* bound: calls that fail, writes refused, ends of the process
                  \* and objects that other accounts store, in all

ASSUME StudioAssumption ==
    /\ Me \in User
    /\ Pages \in Nat \ {0}
    /\ NoObject # Foreign
    /\ NoView \notin {"setup", "upload"} \X Nat
    /\ \A bound \in {MaxSaves, MaxSetUps, MaxVisits, MaxTaps, MaxActs, MaxMishaps} : bound \in Nat

VARIABLES
    at,         \* the screen on top, "launch" while the account is fetched
    page,       \* the page the drawing screen draws
    drafts,     \* drafts[p]: the image under page p's key in the defaults, or 0
    cells,      \* cells[p]: the image the set-up's cell of page p shows
    loader,     \* the view that shows the progress indicator
    setups,     \* set-ups opened; the number names the last one
    visits,     \* upload screens opened; the number names the last one
    chains,     \* chains[n]: the upload of the n-th tap
    storage,    \* storage[t][p]: the object of page p in folder t
    orphans,    \* fetches of the account by controllers nobody sees
    saves,      \* drawings saved; the number names the image
    mishaps,    \* what went wrong so far, see the bound
    \* History, read by the properties only:
    drawn,      \* drawn[p]: the image last saved for p since the discard
    finished,   \* an upload's completion ran since the process started
    shared      \* titles under which other accounts wrote

screenVars == <<at, page>>
draftVars == <<drafts, cells, drawn>>
boundVars == <<saves, mishaps>>
studioVars == <<screenVars, draftVars, loader, setups, visits, chains, storage,
                orphans, boundVars, finished, shared>>
vars == <<firestoreVars, studioVars>>

Page == 1..Pages
NoDrafts == [p \in Page |-> 0]

Toon(n) == <<"cartoons", n>>
Docs == {Toon(n) : n \in 1..MaxTaps}
Exists(d) == db[d] # NoDoc

SetUpView == <<"setup", setups>>
UploadView == <<"upload", visits>>

\* The bounds that are common to several actions.
MayAct == saves + setups + visits + Len(chains) < MaxActs
Mishap == mishaps < MaxMishaps /\ mishaps' = mishaps + 1

-----------------------------------------------------------------------------
(* The application starts: the account is signed in and fetched.           *)

Init ==
    /\ FirestoreInit([d \in Docs |-> NoDoc])
    /\ at = "launch" /\ page = 1
    /\ drafts = NoDrafts /\ cells = NoDrafts /\ drawn = NoDrafts
    /\ loader = NoView
    /\ setups = 0 /\ visits = 0 /\ chains = << >>
    /\ storage = [t \in Title |-> [p \in Page |-> NoObject]]
    /\ orphans = 0
    /\ saves = 0 /\ mishaps = 0
    /\ finished = FALSE /\ shared = {}

\* configureVC erases every key of the user defaults.
EraseDefaults == drafts' = NoDrafts

\* The first fetch is answered: the tabs are made.
UserFetched ==
    /\ at = "launch"
    /\ at' = "tabs"
    /\ EraseDefaults
    /\ drawn' = NoDrafts
    /\ UNCHANGED <<firestoreVars, page, cells, loader, setups, visits, chains,
                   storage, orphans, boundVars, finished, shared>>

\* A fetch by a controller that was made after an upload is answered.
OrphanFetched ==
    /\ orphans > 0
    /\ orphans' = orphans - 1
    /\ EraseDefaults
    /\ UNCHANGED <<firestoreVars, screenVars, cells, drawn, loader, setups, visits,
                   chains, storage, boundVars, finished, shared>>

\* A fetch fails: its guard returns.  At launch no tabs are made then, and
\* only a new start of the application tries again.
FetchFails ==
    /\ Mishap
    /\ \/ at = "launch" /\ at' = "failed" /\ UNCHANGED orphans
       \/ orphans > 0 /\ orphans' = orphans - 1 /\ UNCHANGED at
    /\ UNCHANGED <<firestoreVars, page, draftVars, loader, setups, visits, chains,
                   storage, saves, finished, shared>>

-----------------------------------------------------------------------------
(* The progress indicator, one for all screens                             *)

\* It stays where it is shown already.
ShowLoader(view) == loader' = IF loader = NoView THEN view ELSE loader
HideLoader == loader' = NoView

-----------------------------------------------------------------------------
(* The set-up screen                                                       *)

\* The middle tab.
OpenSetUp ==
    /\ at = "tabs" /\ setups < MaxSetUps /\ MayAct
    /\ at' = "setup"
    /\ setups' = setups + 1
    /\ cells' = drafts
    /\ UNCHANGED <<firestoreVars, page, drafts, drawn, loader, visits, chains,
                   storage, orphans, boundVars, finished, shared>>

\* cancelHandle, answered with OK: the tab bar controller erases the defaults
\* too (and refreshes the home).
CancelSetUp ==
    /\ at = "setup"
    /\ at' = "tabs"
    /\ HideLoader
    /\ EraseDefaults
    /\ drawn' = NoDrafts
    /\ UNCHANGED <<firestoreVars, page, cells, setups, visits, chains, storage,
                   orphans, boundVars, finished, shared>>

\* cancelHandle, answered with Cancel: the indicator was shown before the
\* question and stays.
KeepSetUp ==
    /\ at = "setup"
    /\ ShowLoader(SetUpView)
    /\ UNCHANGED <<firestoreVars, screenVars, draftVars, setups, visits, chains, storage,
                   orphans, boundVars, finished, shared>>

\* A cell that scrolls into sight reads its page's key again.
Scroll(p) ==
    /\ at = "setup" /\ loader # SetUpView
    /\ cells' = [cells EXCEPT ![p] = drafts[p]]
    /\ UNCHANGED <<firestoreVars, screenVars, drafts, drawn, loader, setups, visits, chains,
                   storage, orphans, boundVars, finished, shared>>

\* A tap on a page's cell.
SelectPage(p) ==
    /\ at = "setup" /\ loader # SetUpView
    /\ at' = "draw" /\ page' = p
    /\ UNCHANGED <<firestoreVars, draftVars, loader, setups, visits, chains, storage,
                   orphans, boundVars, finished, shared>>

-----------------------------------------------------------------------------
(* The drawing screen                                                      *)

\* cartoonLoad stores what the canvas shows under the page's key.
StoreDrawing ==
    /\ saves < MaxSaves /\ MayAct
    /\ saves' = saves + 1
    /\ drafts' = [drafts EXCEPT ![page] = saves + 1]
    /\ drawn' = [drawn EXCEPT ![page] = saves + 1]

\* A plausible slip: the set-up does not reload its cells.
SaveUnseen ==
    /\ at = "draw"
    /\ StoreDrawing
    /\ at' = "setup"
    /\ UNCHANGED <<firestoreVars, page, cells, loader, setups, visits, chains, storage,
                   orphans, mishaps, finished, shared>>

\* successHandle, confirmed: store, go back to the set-up, reload its cells.
Save ==
    /\ at = "draw"
    /\ StoreDrawing
    /\ at' = "setup"
    /\ cells' = drafts'
    /\ UNCHANGED <<firestoreVars, page, loader, setups, visits, chains, storage,
                   orphans, mishaps, finished, shared>>

\* cancelHandel, confirmed.
CancelDraw ==
    /\ at = "draw"
    /\ at' = "setup"
    /\ cells' = drafts
    /\ UNCHANGED <<firestoreVars, page, drafts, drawn, loader, setups, visits, chains,
                   storage, orphans, boundVars, finished, shared>>

-----------------------------------------------------------------------------
(* The upload screen                                                       *)

OpenUpload ==
    /\ at = "setup" /\ visits < MaxVisits /\ MayAct
    /\ at' = "upload"
    /\ visits' = visits + 1
    /\ UNCHANGED <<firestoreVars, page, draftVars, loader, setups, chains, storage,
                   orphans, boundVars, finished, shared>>

\* cancelHandel, confirmed: the form is lost, the pages are kept, and so is
\* an upload under way.
CancelUpload ==
    /\ at = "upload"
    /\ at' = "setup"
    /\ cells' = drafts
    /\ UNCHANGED <<firestoreVars, page, drafts, drawn, loader, setups, visits, chains,
                   storage, orphans, boundVars, finished, shared>>

\* getUserDefaultsData: the pages that are there, in order, without gaps.
GetUserDefaultsData ==
    LET upTo[p \in 0..Pages] ==
            IF p = 0 THEN << >>
            ELSE IF drafts[p] = 0 THEN upTo[p - 1] ELSE Append(upTo[p - 1], drafts[p])
    IN  upTo[Pages]

\* The process is gone and starts again: the defaults and the queue of writes
\* are on disk, everything else is lost.
Die ==
    /\ Mishap
    /\ RestartClient(Me)
    /\ at' = "launch"
    /\ HideLoader
    /\ orphans' = 0
    /\ chains' = [n \in DOMAIN chains |->
                     IF chains[n].step \in {"storing", "adding"}
                     THEN [chains[n] EXCEPT !.step = "cut"] ELSE chains[n]]
    /\ finished' = FALSE
    /\ UNCHANGED <<db, page, draftVars, setups, visits, storage, saves, shared>>

\* successHandle with all the pages there: a chain of Storage calls starts.
\* While the indicator covers the form, the title is the one tapped before.
TapUpload(t) ==
    /\ at = "upload" /\ Len(chains) < MaxTaps /\ MayAct
    /\ loader = UploadView => t = Last(chains).title
    /\ ShowLoader(UploadView)
    /\ Len(GetUserDefaultsData) = Pages
    /\ chains' = Append(chains, [setup |-> setups, visit |-> visits, title |-> t,
                                 images |-> GetUserDefaultsData, asked |-> drafts,
                                 stored |-> 0, links |-> << >>, step |-> "storing"])
    /\ UNCHANGED <<firestoreVars, screenVars, draftVars, setups, visits, storage,
                   orphans, boundVars, finished, shared>>

\* successHandle with a page missing: uploadCartoon indexes past the end.
TapUploadIncomplete ==
    /\ at = "upload"
    /\ Len(GetUserDefaultsData) < Pages
    /\ Die

-----------------------------------------------------------------------------
(* The chain of Storage calls                                              *)

Storing(n) == n \in DOMAIN chains /\ chains[n].step = "storing"

\* A plausible slip: the page is read when its turn comes, not at the tap.
StoredLate(n) ==
    /\ Storing(n) /\ chains[n].stored < Pages
    /\ LET p == chains[n].stored + 1
       IN  /\ storage' = [storage EXCEPT ![chains[n].title][p] = [by |-> n, image |-> drafts[p]]]
           /\ chains' = [chains EXCEPT ![n].stored = p]
    /\ UNCHANGED <<firestoreVars, screenVars, draftVars, loader, setups, visits, orphans,
                   boundVars, finished, shared>>

\* A plausible slip: a path that holds an object already is never stored to.
StoredNew(n) ==
    /\ Storing(n) /\ chains[n].stored < Pages
    /\ LET p == chains[n].stored + 1
       IN  /\ storage[chains[n].title][p] = NoObject
           /\ storage' = [storage EXCEPT ![chains[n].title][p] =
                              [by |-> n, image |-> chains[n].images[p]]]
           /\ chains' = [chains EXCEPT ![n].stored = p]
    /\ UNCHANGED <<firestoreVars, screenVars, draftVars, loader, setups, visits, orphans,
                   boundVars, finished, shared>>

\* A page is stored, over whatever the path held, and the next one follows.
Stored(n) ==
    /\ Storing(n) /\ chains[n].stored < Pages
    /\ LET p == chains[n].stored + 1
       IN  /\ storage' = [storage EXCEPT ![chains[n].title][p] =
                              [by |-> n, image |-> chains[n].images[p]]]
           /\ chains' = [chains EXCEPT ![n].stored = p]
    /\ UNCHANGED <<firestoreVars, screenVars, draftVars, loader, setups, visits, orphans,
                   boundVars, finished, shared>>

\* A page is not stored: the chain ends there without a word, except that
\* nobody looks at the last page's error.
StoreFails(n) ==
    /\ Mishap
    /\ Storing(n) /\ chains[n].stored < Pages
    /\ chains' = IF chains[n].stored + 1 < Pages
                 THEN [chains EXCEPT ![n].step = "cut"]
                 ELSE [chains EXCEPT ![n].stored = @ + 1]
    /\ UNCHANGED <<firestoreVars, screenVars, draftVars, loader, setups, visits, storage,
                   orphans, saves, finished, shared>>

\* The link of page p names the object its path holds.
LinkOf(n, p) == [title |-> chains[n].title, page |-> p, object |-> storage[chains[n].title][p]]

\* A link, or none, arrives.  After the last one the guard asks for all of
\* them, and uploadCartoon adds the document.
Linked(n, link) ==
    LET links == Append(chains[n].links, link)
        last == Len(links) = Pages
        all == \A p \in DOMAIN links : links[p] # NoObject
    IN  /\ chains' = [chains EXCEPT ![n].links = links,
                                    ![n].step = IF ~last THEN @
                                                ELSE IF all THEN "adding" ELSE "cut"]
        /\ IF last /\ all
           THEN Issue(Me, << SetData(Toon(n), [links |-> links],
                                     [do |-> "uploaded", chain |-> n]) >>)
           ELSE UNCHANGED pending

\* downloadURL is answered; for an unused path with an error.
LinkAnswered(n) ==
    /\ Storing(n) /\ chains[n].stored = Pages
    /\ LET p == Len(chains[n].links) + 1
       IN  Linked(n, IF storage[chains[n].title][p] = NoObject THEN NoObject ELSE LinkOf(n, p))
    /\ UNCHANGED <<db, sent, main, screenVars, draftVars, loader, setups, visits, storage,
                   orphans, boundVars, finished, shared>>

LinkFails(n) ==
    /\ Mishap
    /\ Storing(n) /\ chains[n].stored = Pages
    /\ Linked(n, NoObject)
    /\ UNCHANGED <<db, sent, main, screenVars, draftVars, loader, setups, visits, storage,
                   orphans, saves, finished, shared>>

-----------------------------------------------------------------------------
(* The end of an upload                                                    *)

\* The server refuses the document.
Refuse ==
    /\ Mishap
    /\ Reject(Me)
    /\ UNCHANGED <<screenVars, draftVars, loader, setups, visits, chains, storage,
                   orphans, saves, finished, shared>>

RunHead == main' = [main EXCEPT ![Me] = Tail(@)]

\* A plausible slip: the error path returns before the indicator is hidden.
RefusedShown ==
    /\ Due(Me, "refused")
    /\ RunHead
    /\ chains' = [chains EXCEPT ![Head(main[Me]).chain].step = "refused"]
    /\ UNCHANGED <<db, pending, sent, screenVars, draftVars, loader, setups, visits, storage,
                   orphans, boundVars, finished, shared>>

\* The completion with an error: nothing but the indicator changes.
Refused ==
    /\ Due(Me, "refused")
    /\ RunHead
    /\ HideLoader
    /\ chains' = [chains EXCEPT ![Head(main[Me]).chain].step = "refused"]
    /\ UNCHANGED <<db, pending, sent, screenVars, draftVars, setups, visits, storage,
                   orphans, boundVars, finished, shared>>

\* vcDidFinish on the set-up of chain c dismisses c's upload screen, then
\* what the set-up presents or else the set-up itself.  When the upload
\* screen is just being dismissed, UIKit may drop the second dismissal; when
\* the set-up is gone, nothing is left to dismiss.
DismissAfter(c) ==
    CASE at \notin {"setup", "draw", "upload"} \/ c.setup # setups -> UNCHANGED at
      [] at = "upload" /\ c.visit = visits -> at' \in {"tabs", "setup"}
      [] at = "upload" /\ c.visit # visits -> at' = "setup"
      [] at = "draw" -> at' = "setup"
      [] at = "setup" -> at' = "tabs"

\* The completion without one.  The new tab bar controller is handed the
\* account, which erases the defaults, and starts a fetch of its own.
Uploaded ==
    /\ Due(Me, "uploaded")
    /\ RunHead
    /\ HideLoader
    /\ LET n == Head(main[Me]).chain
       IN  /\ chains' = [chains EXCEPT ![n].step = "done"]
           /\ DismissAfter(chains[n])
    /\ EraseDefaults
    /\ orphans' = orphans + 1
    /\ finished' = TRUE
    /\ UNCHANGED <<db, pending, sent, page, cells, drawn, setups, visits, storage,
                   boundVars, shared>>

-----------------------------------------------------------------------------
(* The environment                                                         *)

\* Another account uploads a page under the same title.
OthersStore(t, p) ==
    /\ Mishap
    /\ storage' = [storage EXCEPT ![t][p] = Foreign]
    /\ shared' = shared \cup {t}
    /\ UNCHANGED <<firestoreVars, screenVars, draftVars, loader, setups, visits, chains,
                   orphans, saves, finished>>

Client == /\ Transmit(Me) \/ Acknowledge(Me) \/ Reconnect(Me)
          /\ UNCHANGED studioVars

StorageAnswers(n) == Stored(n) \/ LinkAnswered(n)

Next ==
    \/ UserFetched \/ OrphanFetched \/ FetchFails
    \/ OpenSetUp \/ CancelSetUp \/ KeepSetUp
    \/ Save \/ CancelDraw
    \/ OpenUpload \/ CancelUpload \/ TapUploadIncomplete
    \/ Refuse \/ Refused \/ Uploaded \/ Client \/ Die
    \/ \E p \in Page : Scroll(p) \/ SelectPage(p)
    \/ \E t \in Title : TapUpload(t) \/ \E p \in Page : OthersStore(t, p)
    \/ \E n \in 1..MaxTaps : StorageAnswers(n) \/ StoreFails(n) \/ LinkFails(n)

Spec == Init /\ [][Next]_vars

\* Storage calls are answered, the main thread runs what is due, the client
\* sends what is queued and keeps a stream up long enough for an answer.
Fairness ==
    /\ \A n \in 1..MaxTaps : WF_vars(StorageAnswers(n))
    /\ WF_vars(Refused \/ Uploaded)
    /\ WF_vars(Transmit(Me) /\ UNCHANGED studioVars)
    /\ SF_vars(Acknowledge(Me) /\ UNCHANGED studioVars)

FairSpec == Spec /\ Fairness
-----------------------------------------------------------------------------
(* Properties                                                              *)

Image == 1..MaxSaves
Draft == 0..MaxSaves
StorageObject == [by : 1..MaxTaps, image : Image]
Link == [title : Title, page : Page, object : StorageObject \cup {Foreign}]
Shown == {NoView} \cup ({"setup"} \X (1..MaxSetUps)) \cup ({"upload"} \X (1..MaxVisits))

\* Every variable holds a value of its kind.  In particular an upload that
\* was started carries an image for each page (getUserDefaultsData skips the
\* missing ones).
TypeOK ==
    /\ at \in {"launch", "failed", "tabs", "setup", "draw", "upload"}
    /\ page \in Page
    /\ drafts \in [Page -> Draft] /\ cells \in [Page -> Draft] /\ drawn \in [Page -> Draft]
    /\ loader \in Shown
    /\ setups \in 0..MaxSetUps /\ visits \in 0..MaxVisits
    /\ Len(chains) <= MaxTaps
    /\ \A n \in DOMAIN chains :
          /\ chains[n].setup \in 1..setups /\ chains[n].visit \in 1..visits
          /\ chains[n].title \in Title
          /\ chains[n].images \in [Page -> Image] /\ chains[n].asked \in [Page -> Image]
          /\ chains[n].stored \in 0..Pages
          /\ chains[n].links \in Seq(Link \cup {NoObject}) /\ Len(chains[n].links) <= Pages
          /\ chains[n].step \in {"storing", "adding", "cut", "refused", "done"}
    /\ storage \in [Title -> [Page -> StorageObject \cup {NoObject, Foreign}]]
    /\ orphans \in 0..MaxTaps
    /\ saves \in 0..MaxSaves /\ mishaps \in 0..MaxMishaps
    /\ finished \in BOOLEAN /\ shared \subseteq Title

\* A cartoon that is stored has a link for each of its pages, in the pages'
\* order and in its own folder, although nobody looks at the error of the
\* last page: without an object there is no link, and imageUpload's guard
\* then never completes.
PagesComplete ==
    \A n \in DOMAIN chains :
        Exists(Toon(n)) =>
            LET links == db[Toon(n)].links
            IN  /\ Len(links) = Pages
                /\ \A p \in Page : /\ links[p] # NoObject
                                   /\ links[p].title = chains[n].title
                                   /\ links[p].page = p

Alone(n) == /\ chains[n].title \notin shared
            /\ \A m \in DOMAIN chains \ {n} : chains[m].title # chains[n].title

\* Unless somebody else used the title, each page of a stored cartoon is the
\* drawing that was saved for it when the upload was tapped, whatever was
\* drawn, erased or uploaded since: successHandle reads the defaults before
\* the chain starts.  The title is the folder, so the exception is real.
PagesOwn ==
    \A n \in DOMAIN chains :
        Exists(Toon(n)) /\ Alone(n) =>
            \A p \in Page :
                LET object == [by |-> n, image |-> chains[n].asked[p]]
                IN  /\ db[Toon(n)].links[p].object = object
                    /\ storage[chains[n].title][p] = object

\* What is uploaded is whole and one's own (uploadCartoon's five images by way
\* of imageStorageUpload and imageUpload); the state is well typed.
PagesTruthful == TypeOK /\ PagesComplete /\ PagesOwn

\* As long as no upload has completed, the pages that will be uploaded are
\* the ones drawn since the last discard, and the set-up shows them.  A
\* completed upload breaks this: it erases what was drawn meanwhile, and once
\* more when the unseen controller's fetch is answered.
SetUpTruthful ==
    ~finished =>
        /\ at \in {"setup", "draw", "upload"} => drafts = drawn
        /\ at = "setup" => cells = drafts

\* The indicator covers an upload screen only on account of an upload from
\* that screen that has not been answered: one under way, or one whose chain
\* was cut, which no code path tells the screen about.
LoaderExplained ==
    \A v \in 1..visits :
        loader = <<"upload", v>> =>
            \E n \in DOMAIN chains :
                chains[n].visit = v /\ chains[n].step \in {"storing", "adding", "cut"}

\* With fair scheduling an upload that was started ends: its cartoon is
\* stored, or the chain was cut or the document refused.
UploadArrives ==
    \A n \in 1..MaxTaps :
        Storing(n) ~> \/ Exists(Toon(n))
                      \/ n \in DOMAIN chains /\ chains[n].step \in {"cut", "refused"}
=============================================================================
