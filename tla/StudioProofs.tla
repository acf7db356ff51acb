---------------------------- MODULE StudioProofs ----------------------------
(***************************************************************************)
(* Proofs about Studio, for every number of pages and all bounds: what the *)
(* set-up shows (SetUpCorrect), what the indicator covers (LoaderCorrect)  *)
(* and what a stored cartoon consists of (PagesCorrect).                   *)
(*                                                                         *)
(* An upload is a record of its own (chains[n]) that several kinds of      *)
(* steps move on: Storage answers, the client's queue, the completion.     *)
(* The invariant has a part for the screens, one for what a chain has      *)
(* collected (Contents), one for the document it leads to (DocsWhole) and  *)
(* one for the completion it is owed (Owed).                               *)
(***************************************************************************)
EXTENDS Studio, FirestoreProofs

-----------------------------------------------------------------------------
(* The pages read from the user defaults                                   *)

\* The recursive function of getUserDefaultsData exists, so it is what its
\* equation says.
LEMMA DefaultsSteps ==
    ASSUME Pages \in Nat
    PROVE  \E upTo :
              /\ upTo[0] = << >>
              /\ \A p \in 1..Pages :
                    upTo[p] = IF drafts[p] = 0 THEN upTo[p - 1]
                              ELSE Append(upTo[p - 1], drafts[p])
              /\ GetUserDefaultsData = upTo[Pages]
<1> DEFINE Found(v, p) == IF drafts[p] = 0 THEN v ELSE Append(v, drafts[p])
           Step(f, p) == IF p = 0 THEN << >> ELSE Found(f[p - 1], p)
           Upto(f, n) == f = [p \in 0..n |-> Step(f, p)]
           Bad == {n \in 0..Pages : ~ \E f : Upto(f, n)}
<1> HIDE DEF Found
<1>1. Bad = {}
  <2> SUFFICES ASSUME Bad # {} PROVE FALSE
    OBVIOUS
  <2>0. Bad \in SUBSET Nat
    OBVIOUS
  <2>1. PICK m \in Bad : \A k \in Bad : m <= k
    <3> HIDE DEF Bad
    <3> QED BY <2>0, Least
  <2>2. m # 0
    <3>1. Upto([p \in 0..0 |-> << >>], 0)
      OBVIOUS
    <3> QED BY <2>1, <3>1
  <2>3. PICK g : Upto(g, m - 1)
    <3>1. m \in 0..Pages
      OBVIOUS
    <3>2. m - 1 \in 0..Pages /\ m - 1 \in Nat /\ m - 1 < m
      BY <2>2, <3>1
    <3>3. m - 1 \notin Bad
      <4> HIDE DEF Bad
      <4> QED BY <2>1, <3>1, <3>2
    <3> QED BY <3>2, <3>3
  <2> DEFINE f == [p \in 0..m |-> IF p = m THEN Step(g, m) ELSE g[p]]
  <2>4. Upto(f, m)
    <3>1. ASSUME NEW p \in 0..m PROVE f[p] = Step(f, p)
      BY <2>1, <2>2, <2>3
    <3> QED BY <3>1
  <2> QED BY <2>1, <2>4
<1> DEFINE upTo == CHOOSE f : Upto(f, Pages)
<1>2. Upto(upTo, Pages)
  BY <1>1
<1>3. GetUserDefaultsData = upTo[Pages]
  BY DEF GetUserDefaultsData, Found
<1> HIDE DEF upTo
<1>4. upTo[0] = << >>
  BY <1>2
<1>5. ASSUME NEW p \in 1..Pages
      PROVE  upTo[p] = IF drafts[p] = 0 THEN upTo[p - 1] ELSE Append(upTo[p - 1], drafts[p])
  <2>1. upTo[p] = Found(upTo[p - 1], p)
    BY <1>2, <1>5
  <2> QED BY <2>1 DEF Found
<1> QED BY <1>3, <1>4, <1>5

\* When as many pages are found as a cartoon has, none is missing and each is
\* found at its own number.
LEMMA DefaultsWhole ==
    ASSUME Pages \in Nat, drafts \in [Page -> Draft], Len(GetUserDefaultsData) = Pages
    PROVE  GetUserDefaultsData = drafts /\ drafts \in [Page -> Image]
<1>1. PICK upTo :
         /\ upTo[0] = << >>
         /\ \A p \in 1..Pages :
               upTo[p] = IF drafts[p] = 0 THEN upTo[p - 1] ELSE Append(upTo[p - 1], drafts[p])
         /\ GetUserDefaultsData = upTo[Pages]
  BY DefaultsSteps
<1> DEFINE Right == {n \in 0..Pages :
                       /\ upTo[n] \in Seq(Draft) /\ Len(upTo[n]) <= n
                       /\ Len(upTo[n]) = n => \A p \in 1..n : upTo[n][p] = drafts[p] /\ drafts[p] # 0}
<1>2. 0 \in Right
  <2>1. << >> \in Seq(Draft) /\ Len(<< >>) = 0
    OBVIOUS
  <2>2. upTo[0] \in Seq(Draft) /\ Len(upTo[0]) = 0
    BY <1>1, <2>1
  <2> QED BY <2>2
<1>3. ASSUME NEW n \in 0..Pages - 1, n \in Right PROVE n + 1 \in Right
  <2>1. /\ upTo[n] \in Seq(Draft) /\ Len(upTo[n]) <= n /\ Len(upTo[n]) \in Nat
        /\ Len(upTo[n]) = n => \A p \in 1..n : upTo[n][p] = drafts[p] /\ drafts[p] # 0
    BY <1>3
  <2>2. n + 1 \in 1..Pages /\ (n + 1) - 1 = n /\ n + 1 \in 0..Pages /\ n + 1 \in Page
    BY DEF Page
  <2>3. upTo[n + 1] = IF drafts[n + 1] = 0 THEN upTo[n] ELSE Append(upTo[n], drafts[n + 1])
    BY <1>1, <2>2
  <2>4. CASE drafts[n + 1] = 0
    <3>1. upTo[n + 1] = upTo[n] /\ Len(upTo[n + 1]) # n + 1 /\ Len(upTo[n + 1]) <= n + 1
      BY <2>1, <2>3, <2>4
    <3> QED BY <2>1, <2>2, <3>1
  <2>5. CASE drafts[n + 1] # 0
    <3>1. drafts[n + 1] \in Draft
      BY <2>2
    <3> DEFINE q == upTo[n]
               e == drafts[n + 1]
    <3> HIDE DEF q, e
    <3>2. q \in Seq(Draft) /\ e \in Draft
      BY <2>1, <3>1 DEF q, e
    <3>3. /\ Append(q, e) \in Seq(Draft) /\ Len(Append(q, e)) = Len(q) + 1
          /\ Append(q, e)[Len(q) + 1] = e /\ \A p \in 1..Len(q) : Append(q, e)[p] = q[p]
      BY <3>2
    <3>4. upTo[n + 1] = Append(q, e)
      BY <2>3, <2>5 DEF q, e
    <3>5. Len(upTo[n + 1]) <= n + 1 /\ upTo[n + 1] \in Seq(Draft)
      BY <2>1, <3>3, <3>4 DEF q
    <3>6. ASSUME Len(upTo[n + 1]) = n + 1, NEW p \in 1..n + 1
          PROVE  upTo[n + 1][p] = drafts[p] /\ drafts[p] # 0
      <4>1. Len(q) = n
        BY <2>1, <3>3, <3>4, <3>6 DEF q
      <4>2. CASE p = n + 1
        BY <2>5, <3>3, <3>4, <4>1, <4>2 DEF e
      <4>3. CASE p # n + 1
        <5>1. p \in 1..n
          BY <4>3
        <5> QED BY <2>1, <3>3, <3>4, <4>1, <5>1 DEF q
      <4> QED BY <4>2, <4>3
    <3> QED BY <2>2, <3>5, <3>6
  <2> QED BY <2>4, <2>5
<1> HIDE DEF Right
<1>4. Pages \in Right
  <2>1. \A n \in 0..Pages : n \in Right
    BY <1>2, <1>3, Climb
  <2> QED BY <2>1
<1>5. /\ upTo[Pages] \in Seq(Draft) /\ Len(upTo[Pages]) = Pages
      /\ \A p \in 1..Pages : upTo[Pages][p] = drafts[p] /\ drafts[p] # 0
  BY <1>1, <1>4 DEF Right
<1>6. upTo[Pages] = drafts
  <2>1. DOMAIN upTo[Pages] = 1..Pages /\ upTo[Pages] = [p \in 1..Pages |-> upTo[Pages][p]]
    BY <1>5
  <2>2. drafts = [p \in 1..Pages |-> drafts[p]]
    BY DEF Page
  <2> QED BY <1>5, <2>1, <2>2
<1>7. \A p \in Page : drafts[p] \in Image
  BY <1>5 DEF Page, Draft, Image
<1> QED BY <1>1, <1>6, <1>7
-----------------------------------------------------------------------------
(* The screens                                                             *)

\* The types of what the screens keep; a screen above the tabs was opened.
ScreensOK ==
    /\ at \in {"launch", "failed", "tabs", "setup", "draw", "upload"}
    /\ page \in Page
    /\ drafts \in [Page -> Draft] /\ cells \in [Page -> Draft] /\ drawn \in [Page -> Draft]
    /\ loader \in Shown
    /\ setups \in 0..MaxSetUps /\ visits \in 0..MaxVisits
    /\ saves \in 0..MaxSaves /\ mishaps \in 0..MaxMishaps
    /\ finished \in BOOLEAN
    /\ at \in {"setup", "draw", "upload"} => setups # 0
    /\ at = "upload" => visits # 0

\* Nothing but an upload's completion makes a controller nobody sees, so until
\* then the defaults are what was drawn.
DraftsInv ==
    ~finished =>
        /\ orphans = 0
        /\ at \notin {"launch", "failed"} => drafts = drawn
        /\ at = "setup" => cells = drafts

\* A step that leaves the screens alone.
SameScreens == UNCHANGED <<screenVars, draftVars, loader, setups, visits, boundVars, finished>>

\* It keeps what holds of the screens.
LEMMA SameScreensKeep ==
    ASSUME ScreensOK, SameScreens
    PROVE  ScreensOK' /\ (DraftsInv /\ (orphans = 0 => orphans' = 0) => DraftsInv')
BY DEF SameScreens, screenVars, draftVars, boundVars, ScreensOK, DraftsInv

\* Empty drafts are drafts ...
LEMMA NoDraftsType == NoDrafts \in [Page -> Draft]
BY StudioAssumption DEF NoDrafts, Draft

\* ... and a mishap is counted.
LEMMA MishapCounts ==
    ASSUME mishaps \in 0..MaxMishaps, Mishap
    PROVE  mishaps' \in 0..MaxMishaps
BY StudioAssumption DEF Mishap

\* The bounds are numbers, and a view that is shown is one of a screen opened.
LEMMA ViewsShown ==
    ASSUME ScreensOK
    PROVE  /\ at = "setup" => SetUpView \in Shown
           /\ at = "upload" => UploadView \in Shown
           /\ NoView \in Shown /\ 1 \in Page
<1>1. /\ MaxSetUps \in Nat /\ MaxVisits \in Nat /\ Pages \in Nat \ {0}
      /\ setups \in 0..MaxSetUps /\ visits \in 0..MaxVisits
  BY StudioAssumption DEF ScreensOK
<1>2. /\ at = "setup" => setups \in 1..MaxSetUps
      /\ at = "upload" => visits \in 1..MaxVisits
  BY <1>1 DEF ScreensOK
<1> QED BY <1>1, <1>2 DEF Shown, SetUpView, UploadView, Page

\* The steps of the tabs and of the set-up.
LEMMA SetUpScreens ==
    ASSUME ScreensOK,
           \/ UserFetched \/ OrphanFetched \/ FetchFails \/ OpenSetUp \/ CancelSetUp \/ KeepSetUp
           \/ (\E p \in Page : Scroll(p) \/ SelectPage(p))
    PROVE  ScreensOK' /\ (DraftsInv => DraftsInv')
<1>1. CASE UserFetched
  BY <1>1, NoDraftsType DEF UserFetched, EraseDefaults, ScreensOK, DraftsInv, boundVars
<1>2. CASE OrphanFetched
  <2>1. ScreensOK'
    BY <1>2, NoDraftsType DEF OrphanFetched, EraseDefaults, ScreensOK, screenVars, boundVars
  <2>2. DraftsInv => finished
    BY <1>2 DEF OrphanFetched, DraftsInv
  <2> QED BY <1>2, <2>1, <2>2 DEF OrphanFetched, DraftsInv
<1>3. CASE FetchFails
  <2>1. mishaps' \in 0..MaxMishaps
    BY <1>3, MishapCounts DEF FetchFails, ScreensOK
  <2>2. UNCHANGED <<page, draftVars, loader, setups, visits, saves, finished>>
        /\ (at' = at \/ (at' = "failed" /\ at = "launch"))
    BY <1>3 DEF FetchFails
  <2>3. ScreensOK'
    BY <2>1, <2>2 DEF ScreensOK, draftVars
  <2>4. DraftsInv /\ ~finished => orphans' = 0
    BY <1>3 DEF FetchFails, DraftsInv
  <2> QED BY <2>2, <2>3, <2>4 DEF DraftsInv, draftVars
<1>4. CASE OpenSetUp
  <2>1. setups + 1 \in 1..MaxSetUps
    BY <1>4, StudioAssumption DEF OpenSetUp, ScreensOK
  <2>2. ScreensOK'
    BY <1>4, <2>1 DEF OpenSetUp, ScreensOK, boundVars
  <2> QED BY <1>4, <2>2 DEF OpenSetUp, DraftsInv
<1>5. CASE CancelSetUp
  BY <1>5, NoDraftsType, ViewsShown
     DEF CancelSetUp, EraseDefaults, HideLoader, ScreensOK, DraftsInv, boundVars
<1>6. CASE KeepSetUp
  <2>1. loader' \in Shown
    BY <1>6, ViewsShown DEF KeepSetUp, ShowLoader, ScreensOK
  <2> QED BY <1>6, <2>1 DEF KeepSetUp, ScreensOK, DraftsInv, screenVars, draftVars, boundVars
<1>7. ASSUME NEW p \in Page, Scroll(p) PROVE ScreensOK' /\ (DraftsInv => DraftsInv')
  <2>1. cells' \in [Page -> Draft] /\ (cells = drafts => cells' = drafts)
    BY <1>7 DEF Scroll, ScreensOK
  <2>2. UNCHANGED <<screenVars, drafts, drawn, loader, setups, visits, orphans, boundVars, finished>>
    BY <1>7 DEF Scroll
  <2> QED BY <2>1, <2>2 DEF ScreensOK, DraftsInv, screenVars, boundVars
<1>8. ASSUME NEW p \in Page, SelectPage(p) PROVE ScreensOK' /\ (DraftsInv => DraftsInv')
  BY <1>8 DEF SelectPage, ScreensOK, DraftsInv, draftVars, boundVars
<1> QED BY <1>1, <1>2, <1>3, <1>4, <1>5, <1>6, <1>7, <1>8

\* Those of the drawing and the upload screen.
LEMMA DrawScreens ==
    ASSUME ScreensOK,
           Save \/ CancelDraw \/ OpenUpload \/ CancelUpload \/ (\E t \in Title : TapUpload(t))
    PROVE  ScreensOK' /\ (DraftsInv => DraftsInv')
<1>1. CASE Save
  <2>1. saves + 1 \in 0..MaxSaves /\ saves + 1 \in Draft
    BY <1>1, StudioAssumption DEF Save, StoreDrawing, ScreensOK, Draft
  <2>2. drafts' = [drafts EXCEPT ![page] = saves + 1] /\ drawn' = [drawn EXCEPT ![page] = saves + 1]
        /\ cells' = drafts' /\ saves' = saves + 1 /\ at = "draw" /\ at' = "setup"
        /\ UNCHANGED <<page, loader, setups, visits, orphans, mishaps, finished>>
    BY <1>1 DEF Save, StoreDrawing
  <2>3. drafts' \in [Page -> Draft] /\ drawn' \in [Page -> Draft]
    BY <2>1, <2>2 DEF ScreensOK
  <2>4. ScreensOK'
    BY <2>1, <2>2, <2>3 DEF ScreensOK
  <2> QED BY <2>2, <2>4 DEF DraftsInv
<1>2. CASE CancelDraw
  BY <1>2 DEF CancelDraw, ScreensOK, DraftsInv, boundVars
<1>3. CASE OpenUpload
  <2>1. visits + 1 \in 1..MaxVisits
    BY <1>3, StudioAssumption DEF OpenUpload, ScreensOK
  <2>2. ScreensOK'
    BY <1>3, <2>1 DEF OpenUpload, ScreensOK, draftVars, boundVars
  <2> QED BY <1>3, <2>2 DEF OpenUpload, DraftsInv, draftVars
<1>4. CASE CancelUpload
  BY <1>4 DEF CancelUpload, ScreensOK, DraftsInv, boundVars
<1>5. ASSUME NEW t \in Title, TapUpload(t) PROVE ScreensOK' /\ (DraftsInv => DraftsInv')
  <2>1. loader' \in Shown
    BY <1>5, ViewsShown DEF TapUpload, ShowLoader, ScreensOK
  <2> QED BY <1>5, <2>1 DEF TapUpload, ScreensOK, DraftsInv, screenVars, draftVars, boundVars
<1> QED BY <1>1, <1>2, <1>3, <1>4, <1>5

\* Those of the uploads, the client and the environment.
LEMMA ChainScreens ==
    ASSUME ScreensOK, orphans \in Nat,
           \/ Refuse \/ Refused \/ Uploaded \/ Client \/ Die \/ TapUploadIncomplete
           \/ (\E t \in Title, p \in Page : OthersStore(t, p))
           \/ (\E n \in 1..MaxTaps : StorageAnswers(n) \/ StoreFails(n) \/ LinkFails(n))
    PROVE  ScreensOK' /\ (DraftsInv => DraftsInv')
<1>1. ASSUME SameScreens, UNCHANGED orphans PROVE ScreensOK' /\ (DraftsInv => DraftsInv')
  BY <1>1, SameScreensKeep
<1>2. ASSUME Mishap, UNCHANGED <<screenVars, draftVars, loader, setups, visits, saves, finished, orphans>>
      PROVE  ScreensOK' /\ (DraftsInv => DraftsInv')
  <2>1. mishaps' \in 0..MaxMishaps
    BY <1>2, MishapCounts DEF ScreensOK
  <2> QED BY <1>2, <2>1 DEF ScreensOK, DraftsInv, screenVars, draftVars
<1>3. CASE Refuse
  BY <1>2, <1>3 DEF Refuse
<1>4. CASE Refused
  BY <1>4, ViewsShown DEF Refused, HideLoader, ScreensOK, DraftsInv, screenVars, draftVars, boundVars
<1>5. CASE Uploaded
  <2>1. at' = at \/ (at' \in {"tabs", "setup"} /\ at \in {"setup", "draw", "upload"})
    BY <1>5 DEF Uploaded, DismissAfter
  <2>2. ScreensOK'
    BY <1>5, <2>1, NoDraftsType, ViewsShown
       DEF Uploaded, HideLoader, EraseDefaults, ScreensOK, boundVars
  <2> QED BY <1>5, <2>2 DEF Uploaded, DraftsInv
<1>6. CASE Client
  BY <1>1, <1>6 DEF Client, studioVars, SameScreens
<1>7. CASE Die \/ TapUploadIncomplete
  <2>1. Die
    BY <1>7 DEF TapUploadIncomplete
  <2>2. mishaps' \in 0..MaxMishaps
    BY <2>1, MishapCounts DEF Die, ScreensOK
  <2> QED BY <2>1, <2>2, ViewsShown DEF Die, HideLoader, ScreensOK, DraftsInv, draftVars
<1>8. CASE \E t \in Title, p \in Page : OthersStore(t, p)
  BY <1>2, <1>8 DEF OthersStore
<1>9. CASE \E n \in 1..MaxTaps : StorageAnswers(n) \/ StoreFails(n) \/ LinkFails(n)
  <2>1. PICK n \in 1..MaxTaps : Stored(n) \/ LinkAnswered(n) \/ StoreFails(n) \/ LinkFails(n)
    BY <1>9 DEF StorageAnswers
  <2>2. CASE Stored(n)
    BY <1>1, <2>2 DEF Stored, SameScreens
  <2>3. CASE LinkAnswered(n)
    BY <1>1, <2>3 DEF LinkAnswered, SameScreens
  <2>4. CASE StoreFails(n)
    BY <1>2, <2>4 DEF StoreFails
  <2>5. CASE LinkFails(n)
    BY <1>2, <2>5 DEF LinkFails
  <2> QED BY <2>1, <2>2, <2>3, <2>4, <2>5
<1> QED BY <1>3, <1>4, <1>5, <1>6, <1>7, <1>8, <1>9

-----------------------------------------------------------------------------
(* What an upload has collected                                            *)

StorageValue == StorageObject \cup {NoObject, Foreign}

Chain == [setup : Nat, visit : Nat, title : Title,
          images : [Page -> Image], asked : [Page -> Image], stored : 0..Pages,
          links : Seq(Link \cup {NoObject}),
          step : {"storing", "adding", "cut", "refused", "done"}]

\* The uploads and the paths of Storage, by their types.
ChainsOK ==
    /\ chains \in Seq(Chain) /\ Len(chains) <= MaxTaps
    /\ \A n \in DOMAIN chains : chains[n].setup \in 1..setups /\ chains[n].visit \in 1..visits
    /\ storage \in [Title -> [Page -> StorageValue]]
    /\ shared \subseteq Title

\* What chain c has collected: it stores what was asked for, asks for a link
\* until it has one (or none) for each page, and a link is of its page.
Collected(c) ==
    /\ c.images = c.asked
    /\ Len(c.links) <= Pages
    /\ c.step = "storing" => Len(c.links) < Pages
    /\ \A p \in 1..Len(c.links) :
          c.links[p] # NoObject => c.links[p].title = c.title /\ c.links[p].page = p

\* The object that chain c of the n-th tap stores for page p.
OwnObject(n, c, p) == [by |-> n, image |-> c.asked[p]]

\* A folder that chain c has to itself holds nothing else, and a link that
\* arrived names the object that is there still.
OwnFolder(n, c, folder) ==
    /\ \A p \in Page : folder[p] \in {NoObject, OwnObject(n, c, p)}
    /\ \A p \in 1..Len(c.links) :
          c.links[p] # NoObject =>
              folder[p] = OwnObject(n, c, p) /\ c.links[p].object = OwnObject(n, c, p)

Contents ==
    /\ \A n \in DOMAIN chains :
          /\ Collected(chains[n])
          /\ Alone(n) => OwnFolder(n, chains[n], storage[chains[n].title])
    /\ \A t \in Title, p \in Page :
          storage[t][p] # NoObject =>
              t \in shared \/ \E n \in DOMAIN chains : chains[n].title = t

-----------------------------------------------------------------------------
(* The document an upload leads to                                         *)

\* v is the document of chain c, which has a link for each page.
Written(c, v) ==
    /\ Len(c.links) = Pages /\ v = [links |-> c.links]
    /\ \A p \in Page : c.links[p] # NoObject

\* A document that exists was written by its chain.
DocsOf(data, cs) ==
    \A n \in 1..MaxTaps :
        data[Toon(n)] # NoDoc => n \in DOMAIN cs /\ Written(cs[n], data[Toon(n)])

Completion(n) == [do |-> "uploaded", chain |-> n]

\* A queued write is that of its chain, and the completion it carries, if
\* any, that of a chain that waits for it.
Ordered(w, cs) ==
    LET n == w.doc[2]
    IN  /\ n \in DOMAIN cs /\ w.doc = Toon(n) /\ w.op = "set"
        /\ Written(cs[n], w.val)
        /\ w.then # Nothing => w.then = Completion(n) /\ cs[n].step = "adding"

\* Each chain is owed one completion at most: by its queued write, or by the
\* handler that came due.
Owed(q, m, cs) ==
    /\ \A i \in 1..Len(q) : Ordered(q[i], cs)
    /\ \A i, j \in 1..Len(q) : i # j => q[i].doc # q[j].doc
    /\ \A i \in 1..Len(m) :
          /\ m[i].chain \in DOMAIN cs /\ cs[m[i].chain].step = "adding"
          /\ \A j \in 1..Len(q) : q[j].doc # Toon(m[i].chain)
    /\ \A i, j \in 1..Len(m) : i # j => m[i].chain # m[j].chain

Document == [links : Seq(Link)]
Handler == [do : {"uploaded", "refused"}, chain : Nat]
StudioWrite == [op : {"set"}, doc : Docs, val : Document, then : Handler \cup {Nothing}]

\* The documents and the queues, by their types.
QueueOK ==
    /\ db \in [Docs -> Document \cup {NoDoc}]
    /\ pending \in [User -> Seq(StudioWrite)]
    /\ sent \in [User -> Nat] /\ sent[Me] <= Len(pending[Me])
    /\ main \in [User -> Seq(Handler)]

\* A controller nobody sees was made by an upload that completed.
Done(cs) == {n \in 1..Len(cs) : cs[n].step = "done"}
OrphansFew == orphans \in Nat /\ orphans <= Cardinality(Done(chains))

UploadInv ==
    /\ ChainsOK /\ Contents /\ QueueOK
    /\ DocsOf(db, chains) /\ Owed(pending[Me], main[Me], chains)
    /\ OrphansFew

-----------------------------------------------------------------------------
(* What the indicator covers                                               *)

\* Only an unanswered upload has put the indicator over its screen.
LoaderInv ==
    \A v \in Nat :
        loader = <<"upload", v>> =>
            \E n \in DOMAIN chains :
                chains[n].visit = v /\ chains[n].step \in {"storing", "adding", "cut"}

\* A step that keeps every upload's screen, and moves no unanswered upload on
\* to its end while the indicator is shown.
KeepsUploads ==
    \A n \in DOMAIN chains :
        /\ n \in DOMAIN chains' /\ chains'[n].visit = chains[n].visit
        /\ chains[n].step \in {"storing", "adding", "cut"} =>
              chains'[n].step \in {"storing", "adding", "cut"}

\* Such a step keeps the indicator explained if it does not show it.
LEMMA LoaderKeeps ==
    ASSUME LoaderInv, KeepsUploads, loader' = loader
    PROVE  LoaderInv'
BY DEF LoaderInv, KeepsUploads

\* The indicator is never explained wrongly where it is not shown, or covers
\* a set-up.
LEMMA LoaderHidden ==
    ASSUME \/ loader' = NoView
           \/ \E s : loader' = <<"setup", s>>
    PROVE  LoaderInv'
<1>1. CASE loader' = NoView
  <2>1. ASSUME NEW v \in Nat PROVE loader' # <<"upload", v>>
    BY <1>1, StudioAssumption
  <2> QED BY <2>1 DEF LoaderInv
<1>2. CASE \E s : loader' = <<"setup", s>>
  <2>1. ASSUME NEW v \in Nat PROVE loader' # <<"upload", v>>
    BY <1>2
  <2> QED BY <2>1 DEF LoaderInv
<1> QED BY <1>1, <1>2

\* The steps that leave the uploads alone.
LEMMA LoaderUploadsSame ==
    ASSUME LoaderInv, UNCHANGED chains,
           loader' \in {loader, NoView} \/ \E s : loader' = <<"setup", s>>
    PROVE  LoaderInv'
<1>1. CASE loader' = loader
  BY <1>1, LoaderKeeps DEF KeepsUploads, LoaderInv
<1> QED BY <1>1, LoaderHidden

\* What Linked makes of chain n, and of the queue.
LinkedTo(c, n, link) ==
    /\ c.visit = chains[n].visit /\ c.setup = chains[n].setup
    /\ c.title = chains[n].title
    /\ c.images = chains[n].images /\ c.asked = chains[n].asked
    /\ c.stored = chains[n].stored
    /\ c.links = Append(chains[n].links, link)
    /\ Append(chains[n].links, link) \in Seq(Link \cup {NoObject}) => c \in Chain
    /\ \/ c.step = "storing" /\ Len(c.links) # Pages /\ UNCHANGED pending
       \/ c.step = "cut" /\ UNCHANGED pending
       \/ /\ c.step = "adding" /\ Len(c.links) = Pages
          /\ \A p \in DOMAIN c.links : c.links[p] # NoObject
          /\ Issue(Me, << SetData(Toon(n), [links |-> c.links], Completion(n)) >>)

\* Linked does so.
LEMMA LinkedChain ==
    ASSUME NEW n, NEW link, chains[n] \in Chain, chains[n].step = "storing", Linked(n, link)
    PROVE  \E c : chains' = [chains EXCEPT ![n] = c] /\ LinkedTo(c, n, link)
<1> DEFINE links == Append(chains[n].links, link)
           last == Len(links) = Pages
           all == \A p \in DOMAIN links : links[p] # NoObject
           step == IF ~last THEN "storing" ELSE IF all THEN "adding" ELSE "cut"
           c == [chains[n] EXCEPT !.links = links, !.step = step]
<1>1. chains' = [chains EXCEPT ![n] = c]
  BY DEF Linked
<1>2. IF last /\ all THEN Issue(Me, << SetData(Toon(n), [links |-> links], Completion(n)) >>)
      ELSE UNCHANGED pending
  BY DEF Linked, Completion
<1>3. /\ c.visit = chains[n].visit /\ c.setup = chains[n].setup /\ c.title = chains[n].title
      /\ c.images = chains[n].images /\ c.asked = chains[n].asked
      /\ c.stored = chains[n].stored /\ c.links = links /\ c.step = step
  BY DEF Chain
<1>4. \/ c.step = "storing" /\ Len(c.links) # Pages /\ UNCHANGED pending
      \/ c.step = "cut" /\ UNCHANGED pending
      \/ /\ c.step = "adding" /\ Len(c.links) = Pages
         /\ \A p \in DOMAIN c.links : c.links[p] # NoObject
         /\ Issue(Me, << SetData(Toon(n), [links |-> c.links], Completion(n)) >>)
  <2> HIDE DEF c, links
  <2> QED BY <1>2, <1>3
<1>5. links \in Seq(Link \cup {NoObject}) => c \in Chain
  <2> HIDE DEF links
  <2> QED BY DEF Chain
<1>6. LinkedTo(c, n, link)
  <2> HIDE DEF c
  <2> QED BY <1>3, <1>4, <1>5 DEF LinkedTo
<1> HIDE DEF c
<1> QED BY <1>1, <1>6

\* The steps of Next.
LEMMA LoaderStep ==
    ASSUME LoaderInv, chains \in Seq(Chain), Next
    PROVE  LoaderInv'
<1>0. DOMAIN chains = 1..Len(chains) /\ Len(chains) \in Nat
      /\ \A n \in DOMAIN chains : chains[n] \in Chain
  OBVIOUS
<1>1. CASE \/ UserFetched \/ OrphanFetched \/ FetchFails \/ OpenSetUp \/ CancelSetUp \/ KeepSetUp
           \/ Save \/ CancelDraw \/ OpenUpload \/ CancelUpload \/ Refuse \/ Client
           \/ \E p \in Page : Scroll(p) \/ SelectPage(p)
           \/ \E t \in Title, p \in Page : OthersStore(t, p)
  <2>1. UNCHANGED chains
    BY <1>1 DEF UserFetched, OrphanFetched, FetchFails, OpenSetUp, CancelSetUp, KeepSetUp,
                Save, CancelDraw, OpenUpload, CancelUpload, Refuse, Client, studioVars,
                Scroll, SelectPage, OthersStore
  <2>2. loader' \in {loader, NoView, SetUpView}
    BY <1>1 DEF UserFetched, OrphanFetched, FetchFails, OpenSetUp, CancelSetUp, KeepSetUp,
                Save, CancelDraw, OpenUpload, CancelUpload, Refuse, Client, studioVars,
                Scroll, SelectPage, OthersStore, HideLoader, ShowLoader
  <2> QED BY <2>1, <2>2, LoaderUploadsSame DEF SetUpView
<1>2. CASE Refused \/ Uploaded \/ Die \/ TapUploadIncomplete
  <2>1. loader' = NoView
    BY <1>2 DEF Refused, Uploaded, TapUploadIncomplete, Die, HideLoader
  <2> QED BY <2>1, LoaderHidden
<1>3. ASSUME NEW t \in Title, TapUpload(t) PROVE LoaderInv'
  <2> DEFINE c == [setup |-> setups, visit |-> visits, title |-> t,
                   images |-> GetUserDefaultsData, asked |-> drafts,
                   stored |-> 0, links |-> << >>, step |-> "storing"]
  <2>1. chains' = Append(chains, c)
        /\ loader' = IF loader = NoView THEN <<"upload", visits>> ELSE loader
    BY <1>3 DEF TapUpload, ShowLoader, UploadView
  <2>2. c.visit = visits /\ c.step = "storing"
    OBVIOUS
  <2> HIDE DEF c
  <2>3. /\ DOMAIN chains' = 1..Len(chains) + 1 /\ chains'[Len(chains) + 1] = c
        /\ \A n \in DOMAIN chains : chains'[n] = chains[n] /\ n \in DOMAIN chains'
    BY <1>0, <2>1
  <2>4. CASE loader' = loader
    <3>1. KeepsUploads
      BY <2>3 DEF KeepsUploads
    <3> QED BY <2>4, <3>1, LoaderKeeps
  <2>5. CASE loader' = <<"upload", visits>>
    <3>1. Len(chains) + 1 \in DOMAIN chains' /\ chains'[Len(chains) + 1].visit = visits
          /\ chains'[Len(chains) + 1].step = "storing"
      BY <1>0, <2>2, <2>3
    <3>2. ASSUME NEW v \in Nat, loader' = <<"upload", v>> PROVE v = visits
      BY <2>5, <3>2
    <3> QED BY <3>1, <3>2 DEF LoaderInv
  <2> QED BY <2>1, <2>4, <2>5
<1>4. ASSUME NEW n \in 1..MaxTaps, StorageAnswers(n) \/ StoreFails(n) \/ LinkFails(n)
      PROVE  LoaderInv'
  <2>1. loader' = loader /\ n \in DOMAIN chains
    BY <1>4 DEF StorageAnswers, Stored, StoreFails, LinkAnswered, LinkFails, Storing
  <2>2. PICK c : chains' = [chains EXCEPT ![n] = c] /\ c.visit = chains[n].visit
                 /\ c.step \in {"storing", "adding", "cut"}
    <3>1. chains[n] \in Chain /\ chains[n].step = "storing"
      BY <1>0, <1>4, <2>1 DEF StorageAnswers, Stored, StoreFails, LinkAnswered, LinkFails, Storing
    <3>2. ASSUME NEW s, chains' = [chains EXCEPT ![n].stored = s] \/ chains' = [chains EXCEPT ![n].step = "cut"]
          PROVE  \E c : chains' = [chains EXCEPT ![n] = c] /\ c.visit = chains[n].visit
                        /\ c.step \in {"storing", "adding", "cut"}
      <4>1. CASE chains' = [chains EXCEPT ![n].stored = s]
        <5> DEFINE c == [chains[n] EXCEPT !.stored = s]
        <5>1. chains' = [chains EXCEPT ![n] = c]
          BY <4>1
        <5>2. c.visit = chains[n].visit /\ c.step = "storing"
          BY <3>1 DEF Chain
        <5> QED BY <5>1, <5>2
      <4>2. CASE chains' = [chains EXCEPT ![n].step = "cut"]
        <5> DEFINE c == [chains[n] EXCEPT !.step = "cut"]
        <5>1. chains' = [chains EXCEPT ![n] = c]
          BY <4>2
        <5>2. c.visit = chains[n].visit /\ c.step = "cut"
          BY <3>1 DEF Chain
        <5> QED BY <5>1, <5>2
      <4> QED BY <3>2, <4>1, <4>2
    <3>3. ASSUME NEW link, Linked(n, link)
          PROVE  \E c : chains' = [chains EXCEPT ![n] = c] /\ c.visit = chains[n].visit
                        /\ c.step \in {"storing", "adding", "cut"}
      <4>1. PICK c : chains' = [chains EXCEPT ![n] = c] /\ LinkedTo(c, n, link)
        BY <3>1, <3>3, LinkedChain
      <4>2. c.visit = chains[n].visit /\ c.step \in {"storing", "adding", "cut"}
        BY <4>1 DEF LinkedTo
      <4> QED BY <4>1, <4>2
    <3>6. CASE Stored(n) \/ StoreFails(n)
      BY <3>2, <3>6 DEF Stored, StoreFails
    <3>4. CASE LinkAnswered(n)
      BY <3>3, <3>4 DEF LinkAnswered
    <3>5. CASE LinkFails(n)
      BY <3>3, <3>5 DEF LinkFails
    <3> QED BY <1>4, <3>4, <3>5, <3>6 DEF StorageAnswers
  <2>3. KeepsUploads
    BY <2>1, <2>2 DEF KeepsUploads
  <2> QED BY <2>1, <2>3, LoaderKeeps
<1> QED BY <1>1, <1>2, <1>3, <1>4 DEF Next

-----------------------------------------------------------------------------
(* Documents and completions, one queue step at a time                     *)

\* Every chain of cs is still there in ds, with its links once it has all, and
\* still waits for its completion if it did, except chain x.
Moves(cs, ds, x) ==
    \A n \in DOMAIN cs :
        /\ n \in DOMAIN ds
        /\ Len(cs[n].links) = Pages => ds[n].links = cs[n].links
        /\ n # x /\ cs[n].step = "adding" => ds[n].step = "adding"

\* A document that was written stays the one of its chain.
LEMMA WrittenMoves ==
    ASSUME NEW cs, NEW ds, NEW x, NEW v, NEW n \in DOMAIN cs, Moves(cs, ds, x), Written(cs[n], v)
    PROVE  n \in DOMAIN ds /\ Written(ds[n], v)
BY DEF Moves, Written

\* So the documents stay written ...
LEMMA DocsMove ==
    ASSUME NEW data, NEW cs, NEW ds, NEW x, Moves(cs, ds, x), DocsOf(data, cs)
    PROVE  DocsOf(data, ds)
BY WrittenMoves DEF DocsOf

\* ... and the writes ordered.
LEMMA OrderedMoves ==
    ASSUME NEW w, NEW cs, NEW ds, NEW x, Moves(cs, ds, x), Ordered(w, cs), w.doc # Toon(x)
    PROVE  Ordered(w, ds)
<1> DEFINE n == w.doc[2]
<1>1. n \in DOMAIN cs /\ w.doc = Toon(n) /\ w.op = "set" /\ Written(cs[n], w.val)
      /\ (w.then # Nothing => w.then = Completion(n) /\ cs[n].step = "adding")
  BY DEF Ordered
<1> HIDE DEF n
<1>2. n \in DOMAIN ds /\ Written(ds[n], w.val)
  BY <1>1, WrittenMoves
<1>3. n # x
  BY <1>1
<1>4. cs[n].step = "adding" => ds[n].step = "adding"
  BY <1>1, <1>3 DEF Moves
<1> QED BY <1>1, <1>2, <1>4 DEF Ordered, n

\* The chains move on, and none of them to its end (x names no chain).
LEMMA OwedMoves ==
    ASSUME NEW q, NEW m, NEW cs, NEW ds, NEW x, Moves(cs, ds, x), Owed(q, m, cs),
           \A i \in 1..Len(q) : q[i].doc # Toon(x), \A i \in 1..Len(m) : m[i].chain # x
    PROVE  Owed(q, m, ds)
<1>1. \A i \in 1..Len(q) : Ordered(q[i], ds)
  BY OrderedMoves DEF Owed
<1>2. ASSUME NEW i \in 1..Len(m) PROVE m[i].chain \in DOMAIN ds /\ ds[m[i].chain].step = "adding"
  BY <1>2 DEF Owed, Moves
<1> QED BY <1>1, <1>2 DEF Owed

\* The write of chain n joins the queue as the chain comes to wait for it.
LEMMA OwedPush ==
    ASSUME NEW q, NEW r, NEW m, NEW cs, NEW w, NEW n,
           Pushed(q, r, w), Owed(q, m, cs), Ordered(w, cs), w.doc = Toon(n),
           \A i \in 1..Len(q) : q[i].doc # Toon(n), \A i \in 1..Len(m) : m[i].chain # n
    PROVE  Owed(r, m, cs)
<1>1. /\ Len(q) \in Nat /\ Len(r) = Len(q) + 1 /\ r[Len(q) + 1] = w
      /\ \A i \in 1..Len(q) : r[i] = q[i]
  BY DEF Pushed, Grows
<1>2. \A i \in 1..Len(r) : i \in 1..Len(q) \/ i = Len(q) + 1
  BY <1>1
<1>3. \A i \in 1..Len(r) : Ordered(r[i], cs)
  BY <1>1, <1>2 DEF Owed
<1>4. ASSUME NEW i \in 1..Len(r), NEW j \in 1..Len(r), i # j PROVE r[i].doc # r[j].doc
  BY <1>1, <1>2, <1>4 DEF Owed
<1>5. ASSUME NEW i \in 1..Len(m), NEW j \in 1..Len(r) PROVE r[j].doc # Toon(m[i].chain)
  <2>1. m[i].chain # n
    OBVIOUS
  <2>2. CASE j = Len(q) + 1
    BY <1>1, <2>1, <2>2 DEF Toon
  <2>3. CASE j \in 1..Len(q)
    BY <1>1, <2>3 DEF Owed
  <2> QED BY <1>2, <2>2, <2>3
<1> QED BY <1>3, <1>4, <1>5 DEF Owed

\* The oldest write is through: its completion, if it carries one, comes due.
LEMMA OwedPop ==
    ASSUME NEW q, NEW r, NEW m, NEW l, NEW cs, NEW w, NEW h,
           Popped(q, r, w), Owed(q, m, cs),
           l = m \/ (Pushed(m, l, h) /\ w.then # Nothing /\ h.chain = w.then.chain)
    PROVE  Owed(r, l, cs)
<1>1. /\ Len(q) \in Nat /\ Len(q) > 0 /\ q[1] = w /\ Len(r) = Len(q) - 1
      /\ \A i \in 1..Len(r) : r[i] = q[i + 1] /\ i + 1 \in 1..Len(q) /\ i + 1 # 1
  BY DEF Popped
<1>2. \A i \in 1..Len(r) : Ordered(r[i], cs) /\ r[i].doc # w.doc
  BY <1>1 DEF Owed
<1>3. ASSUME NEW i \in 1..Len(r), NEW j \in 1..Len(r), i # j PROVE r[i].doc # r[j].doc
  <2>1. i + 1 # j + 1
    BY <1>3
  <2> QED BY <1>1, <2>1 DEF Owed
<1>4. ASSUME NEW i \in 1..Len(m)
      PROVE  /\ m[i].chain \in DOMAIN cs /\ cs[m[i].chain].step = "adding"
             /\ \A j \in 1..Len(r) : r[j].doc # Toon(m[i].chain)
  BY <1>1 DEF Owed
<1>5. \A i, j \in 1..Len(m) : i # j => m[i].chain # m[j].chain
  BY DEF Owed
<1>6. CASE l = m
  BY <1>2, <1>3, <1>4, <1>5, <1>6 DEF Owed
<1>7. CASE Pushed(m, l, h) /\ w.then # Nothing /\ h.chain = w.then.chain
  <2> DEFINE n == w.doc[2]
  <2>1. Ordered(w, cs)
    BY <1>1 DEF Owed
  <2>2. n \in DOMAIN cs /\ w.doc = Toon(n) /\ cs[n].step = "adding" /\ h.chain = n
    BY <1>7, <2>1 DEF Ordered, Completion
  <2> HIDE DEF n
  <2>3. \A i \in 1..Len(m) : m[i].chain # n
    BY <1>1, <2>2 DEF Owed
  <2>4. /\ Len(m) \in Nat /\ Len(l) = Len(m) + 1 /\ l[Len(m) + 1] = h
        /\ \A i \in 1..Len(m) : l[i] = m[i]
    BY <1>7 DEF Pushed, Grows
  <2>5. \A i \in 1..Len(l) : i \in 1..Len(m) \/ i = Len(m) + 1
    BY <2>4
  <2>6. ASSUME NEW i \in 1..Len(l)
        PROVE  /\ l[i].chain \in DOMAIN cs /\ cs[l[i].chain].step = "adding"
               /\ \A j \in 1..Len(r) : r[j].doc # Toon(l[i].chain)
    BY <1>2, <1>4, <2>2, <2>4, <2>5
  <2>7. ASSUME NEW i \in 1..Len(l), NEW j \in 1..Len(l), i # j PROVE l[i].chain # l[j].chain
    BY <1>5, <2>2, <2>3, <2>4, <2>5, <2>7
  <2> QED BY <1>2, <1>3, <2>6, <2>7 DEF Owed
<1> QED BY <1>6, <1>7

\* The completion that came due first runs: its chain moves to its end.
LEMMA OwedRuns ==
    ASSUME NEW q, NEW m, NEW l, NEW cs, NEW ds, NEW h,
           Popped(m, l, h), Owed(q, m, cs), Moves(cs, ds, h.chain)
    PROVE  Owed(q, l, ds)
<1>1. /\ Len(m) \in Nat /\ Len(m) > 0 /\ m[1] = h /\ Len(l) = Len(m) - 1
      /\ \A i \in 1..Len(l) : l[i] = m[i + 1] /\ i + 1 \in 1..Len(m) /\ i + 1 # 1
  BY DEF Popped
<1>2. \A i \in 1..Len(l) : l[i].chain # h.chain
  BY <1>1 DEF Owed
<1>3. \A i \in 1..Len(q) : q[i].doc # Toon(h.chain)
  BY <1>1 DEF Owed
<1>4. Owed(q, l, cs)
  <2>1. ASSUME NEW i \in 1..Len(l), NEW j \in 1..Len(l), i # j PROVE l[i].chain # l[j].chain
    <3>1. i + 1 # j + 1
      BY <2>1
    <3> QED BY <1>1, <3>1 DEF Owed
  <2>2. ASSUME NEW i \in 1..Len(l)
        PROVE  /\ l[i].chain \in DOMAIN cs /\ cs[l[i].chain].step = "adding"
               /\ \A j \in 1..Len(q) : q[j].doc # Toon(l[i].chain)
    BY <1>1 DEF Owed
  <2> QED BY <2>1, <2>2 DEF Owed
<1> QED BY <1>2, <1>3, <1>4, OwedMoves

\* After a restart nothing is owed any more.
LEMMA OwedForgotten ==
    ASSUME NEW q, NEW r, NEW m, NEW cs, NEW ds, Owed(q, m, cs),
           Len(r) = Len(q),
           \A i \in 1..Len(q) : /\ r[i].doc = q[i].doc /\ r[i].op = q[i].op
                                /\ r[i].val = q[i].val /\ r[i].then = Nothing,
           DOMAIN ds = DOMAIN cs, \A n \in DOMAIN cs : ds[n].links = cs[n].links
    PROVE  Owed(r, << >>, ds)
<1>1. ASSUME NEW i \in 1..Len(r) PROVE Ordered(r[i], ds)
  <2>1. Ordered(q[i], cs)
    BY DEF Owed
  <2> QED BY <2>1 DEF Ordered, Written
<1>2. \A i, j \in 1..Len(r) : i # j => r[i].doc # r[j].doc
  BY DEF Owed
<1>3. Len(<< >>) = 0
  OBVIOUS
<1> QED BY <1>1, <1>2, <1>3 DEF Owed

\* The server stores the document of a chain.
LEMMA DocsApply ==
    ASSUME NEW data \in [Docs -> Document \cup {NoDoc}], NEW w \in StudioWrite, NEW cs,
           DocsOf(data, cs), Ordered(w, cs)
    PROVE  /\ Apply(data, w) \in [Docs -> Document \cup {NoDoc}]
           /\ DocsOf(Apply(data, w), cs)
<1>1. w.op = "set" /\ w.val \in Document /\ w.doc \in Docs
  BY DEF StudioWrite
<1>2. Apply(data, w) = [data EXCEPT ![w.doc] = w.val]
  BY <1>1 DEF Apply, AfterWrite
<1> DEFINE n == w.doc[2]
<1>3. n \in DOMAIN cs /\ w.doc = Toon(n) /\ Written(cs[n], w.val)
  BY DEF Ordered
<1> HIDE DEF n
<1>4. ASSUME NEW k \in 1..MaxTaps, Apply(data, w)[Toon(k)] # NoDoc
      PROVE  k \in DOMAIN cs /\ Written(cs[k], Apply(data, w)[Toon(k)])
  <2>1. Toon(k) \in Docs
    BY DEF Docs
  <2>2. CASE k = n
    <3>1. Apply(data, w)[Toon(k)] = w.val
      BY <1>1, <1>2, <1>3, <2>1, <2>2
    <3> QED BY <1>3, <2>2, <3>1
  <2>3. CASE k # n
    <3>1. Toon(k) # w.doc
      BY <1>3, <2>3 DEF Toon
    <3>2. Apply(data, w)[Toon(k)] = data[Toon(k)]
      BY <1>2, <2>1, <3>1
    <3> QED BY <1>4, <3>2 DEF DocsOf
  <2> QED BY <2>2, <2>3
<1>5. Apply(data, w) \in [Docs -> Document \cup {NoDoc}]
  BY <1>1, <1>2
<1> QED BY <1>4, <1>5 DEF DocsOf

-----------------------------------------------------------------------------
(* What the chains have collected, one step at a time                      *)

\* A chain that was not there is not one of those below a bound.
LEMMA NoChainZero ==
    ASSUME NEW q, NEW m, NEW cs, Owed(q, m, cs), DOMAIN cs \in SUBSET (Nat \ {0})
    PROVE  /\ \A i \in 1..Len(q) : q[i].doc # Toon(0)
           /\ \A i \in 1..Len(m) : m[i].chain # 0
<1>1. ASSUME NEW i \in 1..Len(q) PROVE q[i].doc # Toon(0)
  <2>1. q[i].doc[2] \in DOMAIN cs /\ q[i].doc = Toon(q[i].doc[2])
    BY DEF Owed, Ordered
  <2>2. q[i].doc[2] # 0
    BY <2>1
  <2> QED BY <2>1, <2>2 DEF Toon
<1>2. ASSUME NEW i \in 1..Len(m) PROVE m[i].chain # 0
  <2>1. m[i].chain \in DOMAIN cs
    BY DEF Owed
  <2> QED BY <2>1
<1> QED BY <1>1, <1>2

\* Documents and completions when no chain moves to its end.
LEMMA MovesKeep ==
    ASSUME NEW data, NEW q, NEW m, NEW cs, NEW ds, Moves(cs, ds, 0),
           DOMAIN cs \in SUBSET (Nat \ {0}), DocsOf(data, cs), Owed(q, m, cs)
    PROVE  DocsOf(data, ds) /\ Owed(q, m, ds)
<1>1. DocsOf(data, ds)
  BY DocsMove
<1>2. Owed(q, m, ds)
  BY NoChainZero, OwedMoves
<1> QED BY <1>1, <1>2

\* A chain that has its folder to itself had it before, as titles stay.
LEMMA AloneBefore ==
    ASSUME \A k \in DOMAIN chains :
              k \in DOMAIN chains' /\ chains'[k].title = chains[k].title,
           shared \in SUBSET (shared'),
           NEW n \in DOMAIN chains, Alone(n)'
    PROVE  Alone(n)
BY DEF Alone

\* Chain c was followed by chain d of the same data, which does not start to
\* store.
SameData(c, d) ==
    /\ d.title = c.title /\ d.images = c.images /\ d.asked = c.asked /\ d.links = c.links
    /\ d.step = "storing" => c.step = "storing"

\* Chains of the same data have collected the same.
LEMMA SameDataKeeps ==
    ASSUME NEW n, NEW c, NEW d, NEW folder, SameData(c, d)
    PROVE  /\ Collected(c) => Collected(d)
           /\ OwnFolder(n, c, folder) => OwnFolder(n, d, folder)
<1>1. ASSUME Collected(c) PROVE Collected(d)
  BY <1>1 DEF SameData, Collected
<1>2. ASSUME OwnFolder(n, c, folder) PROVE OwnFolder(n, d, folder)
  BY <1>2 DEF SameData, OwnFolder, OwnObject
<1> QED BY <1>1, <1>2

\* A step that moves the chains and nothing of theirs in Storage.
LEMMA ContentsKept ==
    ASSUME Contents, DOMAIN chains' = DOMAIN chains, UNCHANGED <<storage, shared>>,
           \A n \in DOMAIN chains : SameData(chains[n], chains'[n])
    PROVE  Contents'
<1>0. \A n \in DOMAIN chains : chains'[n].title = chains[n].title
  BY DEF SameData
<1>1. ASSUME NEW n \in DOMAIN chains PROVE Collected(chains'[n])
  BY SameDataKeeps DEF Contents
<1>2. ASSUME NEW n \in DOMAIN chains, Alone(n)'
      PROVE  OwnFolder(n, chains'[n], storage[chains'[n].title])
  <2>1. Alone(n)
    BY <1>0, <1>2, AloneBefore
  <2>2. OwnFolder(n, chains[n], storage[chains[n].title])
    BY <2>1 DEF Contents
  <2> QED BY <1>0, <2>2, SameDataKeeps
<1>3. ASSUME NEW t \in Title, NEW p \in Page, storage[t][p] # NoObject
      PROVE  t \in shared \/ \E n \in DOMAIN chains : chains'[n].title = t
  BY <1>0, <1>3 DEF Contents
<1> QED BY <1>1, <1>2, <1>3 DEF Contents

\* A step that stores at a path of Storage, keeps the chains' data, and stores
\* chain n's own object or else leaves no chain of that title alone.
LEMMA ContentsStored ==
    ASSUME ChainsOK, Contents, DOMAIN chains' = DOMAIN chains,
           \A k \in DOMAIN chains : SameData(chains[k], chains'[k]),
           NEW t \in Title, NEW p \in Page, NEW object,
           \A u \in Title : u # t => storage'[u] = storage[u],
           \A o \in Page : o # p => storage'[t][o] = storage[t][o],
           storage'[t][p] = object,
           shared \in SUBSET (shared'),
           t \in shared' \/ \E k \in DOMAIN chains : chains[k].title = t,
           \A k \in DOMAIN chains :
              chains[k].title = t /\ Alone(k)' => object = OwnObject(k, chains[k], p)
    PROVE  Contents'
<1>0. \A n \in DOMAIN chains : chains'[n].title = chains[n].title /\ chains[n].title \in Title
  <2>1. \A n \in DOMAIN chains : chains[n] \in Chain
    BY DEF ChainsOK
  <2> QED BY <2>1 DEF SameData, Chain
<1>1. ASSUME NEW n \in DOMAIN chains PROVE Collected(chains'[n])
  BY SameDataKeeps DEF Contents
<1>2. ASSUME NEW n \in DOMAIN chains, Alone(n)'
      PROVE  OwnFolder(n, chains'[n], storage'[chains'[n].title])
  <2>1. Alone(n)
    BY <1>0, <1>2, AloneBefore
  <2>2. OwnFolder(n, chains[n], storage[chains[n].title])
    BY <2>1 DEF Contents
  <2>3. OwnFolder(n, chains[n], storage'[chains[n].title])
    <3>1. CASE chains[n].title # t
      BY <1>0, <2>2, <3>1
    <3>2. CASE chains[n].title = t
      <4>1. object = OwnObject(n, chains[n], p)
        BY <1>2, <3>2
      <4>2. \A o \in Page : storage'[t][o] \in {storage[t][o], OwnObject(n, chains[n], o)}
        BY <4>1
      <4>3. \A o \in Page : storage'[t][o] \in {NoObject, OwnObject(n, chains[n], o)}
        BY <2>2, <3>2, <4>2 DEF OwnFolder
      <4>4. ASSUME NEW o \in 1..Len(chains[n].links), chains[n].links[o] # NoObject
            PROVE  storage'[t][o] = OwnObject(n, chains[n], o)
                   /\ chains[n].links[o].object = OwnObject(n, chains[n], o)
        <5>1. storage[t][o] = OwnObject(n, chains[n], o)
              /\ chains[n].links[o].object = OwnObject(n, chains[n], o)
          BY <2>2, <3>2, <4>4 DEF OwnFolder
        <5>2. Collected(chains[n]) /\ chains[n] \in Chain
          BY DEF Contents, ChainsOK
        <5>3. o \in Page
          <6>1. Len(chains[n].links) \in Nat /\ Len(chains[n].links) <= Pages
            BY <5>2 DEF Chain, Collected
          <6> QED BY <6>1, StudioAssumption DEF Page
        <5> QED BY <4>2, <5>1, <5>3
      <4> QED BY <3>2, <4>3, <4>4 DEF OwnFolder
    <3> QED BY <3>1, <3>2
  <2> QED BY <1>0, <2>3, SameDataKeeps
<1>3. ASSUME NEW u \in Title, NEW o \in Page, storage'[u][o] # NoObject
      PROVE  u \in shared' \/ \E k \in DOMAIN chains : chains'[k].title = u
  <2>1. CASE u = t
    BY <1>0, <2>1
  <2>2. CASE u # t
    <3>1. storage[u][o] # NoObject
      BY <1>3, <2>2
    <3>2. u \in shared \/ \E k \in DOMAIN chains : chains[k].title = u
      BY <3>1 DEF Contents
    <3> QED BY <1>0, <3>2
  <2> QED BY <2>1, <2>2
<1> QED BY <1>1, <1>2, <1>3 DEF Contents

\* Chain n alone changes, to c.
LEMMA OneChain ==
    ASSUME ChainsOK, NEW n \in DOMAIN chains, NEW c \in Chain,
           c.setup = chains[n].setup, c.visit = chains[n].visit,
           chains' = [chains EXCEPT ![n] = c]
    PROVE  /\ DOMAIN chains' = DOMAIN chains /\ Len(chains') = Len(chains)
           /\ chains' \in Seq(Chain) /\ chains'[n] = c
           /\ \A k \in DOMAIN chains : k # n => chains'[k] = chains[k]
           /\ \A k \in DOMAIN chains : /\ chains'[k].setup = chains[k].setup
                                       /\ chains'[k].visit = chains[k].visit
<1>1. chains \in Seq(Chain)
  BY DEF ChainsOK
<1>2. /\ DOMAIN chains' = DOMAIN chains /\ Len(chains') = Len(chains)
      /\ chains' \in Seq(Chain) /\ chains'[n] = c
      /\ \A k \in DOMAIN chains : k # n => chains'[k] = chains[k]
  BY <1>1
<1> QED BY <1>2

\* The types follow.
LEMMA ChainsKept ==
    ASSUME ChainsOK, chains' \in Seq(Chain), Len(chains') = Len(chains),
           \A k \in DOMAIN chains : /\ chains'[k].setup = chains[k].setup
                                    /\ chains'[k].visit = chains[k].visit,
           UNCHANGED <<setups, visits>>,
           storage' \in [Title -> [Page -> StorageValue]], shared' \in SUBSET Title
    PROVE  ChainsOK'
<1>1. DOMAIN chains' = DOMAIN chains
  BY DEF ChainsOK
<1> QED BY <1>1 DEF ChainsOK

\* The uploads that completed stay, and are counted.
LEMMA DoneKept ==
    ASSUME NEW cs, NEW ds, Len(cs) \in Nat, Len(ds) \in Nat, Len(cs) <= Len(ds),
           \A n \in 1..Len(cs) : cs[n].step = "done" => ds[n].step = "done"
    PROVE  /\ Cardinality(Done(cs)) \in Nat /\ Cardinality(Done(ds)) \in Nat
           /\ Cardinality(Done(cs)) <= Len(cs)
           /\ Cardinality(Done(cs)) <= Cardinality(Done(ds))
           /\ (\E n \in 1..Len(cs) : cs[n].step # "done" /\ ds[n].step = "done")
                => Cardinality(Done(cs)) + 1 <= Cardinality(Done(ds))
<1>1. /\ IsFiniteSet(1..Len(cs)) /\ Cardinality(1..Len(cs)) = Len(cs)
      /\ IsFiniteSet(1..Len(ds))
  <2>1. ASSUME NEW k \in Nat PROVE IsFiniteSet(1..k) /\ Cardinality(1..k) = k
    <3>1. k \in Int /\ 1 \in Int
      OBVIOUS
    <3>2. IsFiniteSet(1..k) /\ Cardinality(1..k) = IF 1 > k THEN 0 ELSE k - 1 + 1
      BY <3>1, FS_Interval
    <3> QED BY <3>2
  <2> QED BY <2>1
<1>2. Done(cs) \subseteq 1..Len(cs) /\ Done(ds) \subseteq 1..Len(ds) /\ Done(cs) \subseteq Done(ds)
  BY DEF Done
<1>3. /\ IsFiniteSet(Done(cs)) /\ Cardinality(Done(cs)) <= Len(cs)
      /\ IsFiniteSet(Done(ds)) /\ Cardinality(Done(cs)) <= Cardinality(Done(ds))
  BY <1>1, <1>2, FS_Subset
<1>4. Cardinality(Done(cs)) \in Nat /\ Cardinality(Done(ds)) \in Nat
  BY <1>3, FS_CardinalityType
<1>5. ASSUME NEW n \in 1..Len(cs), cs[n].step # "done", ds[n].step = "done"
      PROVE  Cardinality(Done(cs)) + 1 <= Cardinality(Done(ds))
  <2>1. n \notin Done(cs) /\ Done(cs) \cup {n} \subseteq Done(ds)
    BY <1>2, <1>5 DEF Done
  <2>2. Cardinality(Done(cs) \cup {n}) = Cardinality(Done(cs)) + 1
    BY <1>3, <2>1, FS_AddElement
  <2>3. Cardinality(Done(cs) \cup {n}) <= Cardinality(Done(ds))
    BY <1>3, <2>1, FS_Subset
  <2> QED BY <2>2, <2>3
<1> QED BY <1>3, <1>4, <1>5

-----------------------------------------------------------------------------
(* The steps of the uploads                                                *)

\* The chains are a sequence of chains, numbered from 1.
LEMMA ChainFacts ==
    ASSUME ChainsOK
    PROVE  /\ Len(chains) \in Nat /\ DOMAIN chains = 1..Len(chains)
           /\ \A n \in DOMAIN chains : chains[n] \in Chain
           /\ DOMAIN chains \in SUBSET (Nat \ {0})
BY DEF ChainsOK

\* A step that leaves the uploads alone.
SameUploads ==
    /\ UNCHANGED <<firestoreVars, chains, storage, shared>>
    /\ orphans' = orphans \/ (orphans > 0 /\ orphans' = orphans - 1)
    /\ setups' \in {setups, setups + 1} /\ visits' \in {visits, visits + 1}

\* It keeps the invariant.
LEMMA SameUploadsKeep ==
    ASSUME UploadInv, ScreensOK, SameUploads
    PROVE  UploadInv'
<1>0. setups \in Nat /\ visits \in Nat /\ orphans \in Nat
  BY StudioAssumption DEF UploadInv, ScreensOK, OrphansFew
<1>1. ChainsOK'
  <2>1. \A n \in DOMAIN chains : chains[n].setup \in 1..setups' /\ chains[n].visit \in 1..visits'
    BY <1>0 DEF UploadInv, ChainsOK, SameUploads
  <2> QED BY <2>1 DEF UploadInv, ChainsOK, SameUploads
<1>2. Contents'
  BY DEF UploadInv, SameUploads, Contents, Alone
<1>3. QueueOK' /\ DocsOf(db', chains') /\ Owed(pending'[Me], main'[Me], chains')
  BY DEF UploadInv, SameUploads, QueueOK, firestoreVars
<1>4. OrphansFew'
  <2>1. Cardinality(Done(chains)) \in Nat
    BY ChainFacts, DoneKept DEF UploadInv
  <2> QED BY <1>0, <2>1 DEF UploadInv, OrphansFew, SameUploads
<1> QED BY <1>1, <1>2, <1>3, <1>4 DEF UploadInv

\* The screens' own steps leave the uploads alone.
LEMMA ScreenSteps ==
    ASSUME UploadInv, ScreensOK,
           \/ UserFetched \/ OrphanFetched \/ FetchFails
           \/ OpenSetUp \/ CancelSetUp \/ KeepSetUp \/ Save \/ CancelDraw
           \/ OpenUpload \/ CancelUpload
           \/ \E p \in Page : Scroll(p) \/ SelectPage(p)
    PROVE  UploadInv'
<1> SUFFICES SameUploads
  BY SameUploadsKeep
<1>1. CASE UserFetched
  BY <1>1 DEF UserFetched, SameUploads
<1>2. CASE OrphanFetched
  BY <1>2 DEF OrphanFetched, SameUploads
<1>3. CASE FetchFails
  BY <1>3 DEF FetchFails, SameUploads
<1>4. CASE OpenSetUp
  BY <1>4 DEF OpenSetUp, SameUploads
<1>5. CASE CancelSetUp \/ KeepSetUp
  BY <1>5 DEF CancelSetUp, KeepSetUp, SameUploads
<1>6. CASE Save \/ CancelDraw
  BY <1>6 DEF Save, CancelDraw, SameUploads
<1>7. CASE OpenUpload
  BY <1>7 DEF OpenUpload, SameUploads
<1>8. CASE CancelUpload
  BY <1>8 DEF CancelUpload, SameUploads
<1>9. CASE \E p \in Page : Scroll(p) \/ SelectPage(p)
  BY <1>9 DEF Scroll, SelectPage, SameUploads
<1> QED BY <1>1, <1>2, <1>3, <1>4, <1>5, <1>6, <1>7, <1>8, <1>9

\* A step of the client that leaves the application's variables alone.
LEMMA QueueStep ==
    ASSUME UploadInv, UNCHANGED <<chains, storage, shared, orphans, setups, visits>>,
           QueueOK', DocsOf(db', chains), Owed(pending'[Me], main'[Me], chains)
    PROVE  UploadInv'
<1>1. ChainsOK' /\ Contents' /\ OrphansFew'
  BY DEF UploadInv, ChainsOK, Contents, Alone, OrphansFew
<1> QED BY <1>1 DEF UploadInv

\* A write reaches the server.
LEMMA TransmitUploads ==
    ASSUME UploadInv, Transmit(Me), UNCHANGED studioVars
    PROVE  UploadInv'
<1> DEFINE q == pending[Me]
           w == q[sent[Me] + 1]
<1>0. Me \in User /\ QueueOK /\ DocsOf(db, chains) /\ Owed(q, main[Me], chains)
  BY StudioAssumption DEF UploadInv
<1>1. q \in Seq(StudioWrite) /\ sent[Me] \in Nat /\ sent[Me] < Len(q)
  BY <1>0 DEF QueueOK, Transmit
<1>2. sent[Me] + 1 \in 1..Len(q)
  BY <1>1
<1>3. w \in StudioWrite /\ Ordered(w, chains)
  BY <1>0, <1>1, <1>2 DEF Owed
<1>4. db' = Apply(db, w) /\ sent' = [sent EXCEPT ![Me] = sent[Me] + 1]
      /\ UNCHANGED <<pending, main, chains, storage, shared, orphans, setups, visits>>
  BY DEF Transmit, studioVars
<1> HIDE DEF w
<1>5. db' \in [Docs -> Document \cup {NoDoc}] /\ DocsOf(db', chains)
  BY <1>0, <1>3, <1>4, DocsApply DEF QueueOK
<1>6. sent' \in [User -> Nat] /\ sent'[Me] = sent[Me] + 1 /\ sent[Me] + 1 <= Len(q)
  BY <1>0, <1>1, <1>4 DEF QueueOK
<1>7. QueueOK'
  BY <1>0, <1>4, <1>5, <1>6 DEF QueueOK
<1> QED BY <1>0, <1>4, <1>5, <1>7, QueueStep

\* The oldest write is answered, well or with a refusal.
LEMMA AnswerUploads ==
    ASSUME UploadInv, Acknowledge(Me) \/ Reject(Me),
           UNCHANGED <<chains, storage, shared, orphans, setups, visits>>
    PROVE  UploadInv'
<1> DEFINE q == pending[Me]
           r == Tail(q)
           w == Head(q)
           m == main[Me]
<1>0. Me \in User /\ QueueOK /\ DocsOf(db, chains) /\ Owed(q, m, chains)
  BY StudioAssumption DEF UploadInv
<1>1. q \in Seq(StudioWrite) /\ m \in Seq(Handler) /\ sent[Me] \in Nat /\ sent[Me] <= Len(q)
      /\ main \in [User -> Seq(Handler)] /\ pending \in [User -> Seq(StudioWrite)]
      /\ sent \in [User -> Nat]
  BY <1>0 DEF QueueOK
<1>2. q # << >>
  BY <1>1 DEF Acknowledge, Reject
<1>3. Popped(q, r, w) /\ r \in Seq(StudioWrite) /\ w \in StudioWrite
  <2> HIDE DEF q
  <2> QED BY <1>1, <1>2, TailPops
<1>4. /\ pending' = [pending EXCEPT ![Me] = r] /\ db' = db
      /\ \/ sent' = [sent EXCEPT ![Me] = sent[Me] - 1] /\ sent[Me] > 0
         \/ sent' = sent /\ sent[Me] = 0
      /\ \/ main' = main
         \/ \E h : /\ main' = [main EXCEPT ![Me] = Append(m, h)] /\ w.then # Nothing
                   /\ h = w.then \/ h = [w.then EXCEPT !.do = "refused"]
  BY DEF Acknowledge, Reject
<1> HIDE DEF r, w
<1>5. pending'[Me] = r /\ pending' \in [User -> Seq(StudioWrite)]
  BY <1>0, <1>1, <1>3, <1>4
<1>6. sent' \in [User -> Nat] /\ sent'[Me] <= Len(r)
  <2>1. Len(r) = Len(q) - 1 /\ Len(q) \in Nat /\ Len(q) > 0
    BY <1>3 DEF Popped
  <2>2. CASE sent' = [sent EXCEPT ![Me] = sent[Me] - 1] /\ sent[Me] > 0
    <3>1. sent[Me] - 1 \in Nat /\ sent[Me] - 1 <= Len(r)
      BY <1>1, <2>1, <2>2
    <3>2. sent' \in [User -> Nat] /\ sent'[Me] = sent[Me] - 1
      BY <1>0, <1>1, <2>2, <3>1
    <3> QED BY <3>1, <3>2
  <2>3. CASE sent' = sent /\ sent[Me] = 0
    <3>1. 0 <= Len(r)
      BY <2>1
    <3> QED BY <1>1, <2>3, <3>1
  <2> QED BY <1>4, <2>2, <2>3
<1>7. main' \in [User -> Seq(Handler)] /\ Owed(r, main'[Me], chains)
  <2>1. CASE main' = main
    <3>1. Owed(r, m, chains)
      BY <1>0, <1>3, OwedPop
    <3> QED BY <1>1, <2>1, <3>1
  <2>2. ASSUME NEW h, main' = [main EXCEPT ![Me] = Append(m, h)], w.then # Nothing,
               h = w.then \/ h = [w.then EXCEPT !.do = "refused"]
        PROVE  main' \in [User -> Seq(Handler)] /\ Owed(r, main'[Me], chains)
    <3>1. w.then \in Handler
      BY <1>3, <2>2 DEF StudioWrite
    <3>2. h \in Handler /\ h.chain = w.then.chain
      BY <2>2, <3>1 DEF Handler
    <3> HIDE DEF m
    <3>3. Pushed(m, Append(m, h), h) /\ Append(m, h) \in Seq(Handler)
      BY <1>1, <3>2, AppendPushes
    <3>4. Owed(r, Append(m, h), chains)
      BY <1>0, <1>3, <2>2, <3>2, <3>3, OwedPop
    <3>5. main'[Me] = Append(m, h) /\ main' \in [User -> Seq(Handler)]
      BY <1>0, <1>1, <2>2, <3>3
    <3> QED BY <3>4, <3>5
  <2> QED BY <1>4, <2>1, <2>2
<1>8. QueueOK'
  BY <1>0, <1>4, <1>5, <1>6, <1>7 DEF QueueOK
<1> QED BY <1>0, <1>4, <1>5, <1>7, <1>8, QueueStep

\* The client's steps, and the server's refusal.
LEMMA ClientUploads ==
    ASSUME UploadInv, Client \/ Refuse
    PROVE  UploadInv'
<1>1. CASE Transmit(Me) /\ UNCHANGED studioVars
  BY <1>1, TransmitUploads
<1>2. CASE Acknowledge(Me) /\ UNCHANGED studioVars
  BY <1>2, AnswerUploads DEF studioVars
<1>3. CASE Reconnect(Me) /\ UNCHANGED studioVars
  <2>1. Me \in User /\ QueueOK /\ sent' = [sent EXCEPT ![Me] = 0]
        /\ UNCHANGED <<db, pending, main, chains, storage, shared, orphans, setups, visits>>
    BY <1>3, StudioAssumption DEF UploadInv, Reconnect, studioVars
  <2>2. pending[Me] \in Seq(StudioWrite)
    BY <2>1 DEF QueueOK
  <2>3. sent' \in [User -> Nat] /\ sent'[Me] <= Len(pending[Me])
    BY <2>1, <2>2 DEF QueueOK
  <2>4. QueueOK'
    BY <2>1, <2>3 DEF QueueOK
  <2> QED BY <2>1, <2>4, QueueStep DEF UploadInv
<1>4. CASE Refuse
  BY <1>4, AnswerUploads DEF Refuse
<1> QED BY <1>1, <1>2, <1>3, <1>4 DEF Client

\* One chain moves on, of the same data and not to its end: documents and
\* queues stay as they should be.
LEMMA OneMoves ==
    ASSUME UploadInv, NEW n \in DOMAIN chains, NEW c \in Chain, SameData(chains[n], c),
           c.setup = chains[n].setup, c.visit = chains[n].visit,
           chains[n].step \notin {"adding", "done"}, chains' = [chains EXCEPT ![n] = c],
           UNCHANGED <<firestoreVars, setups, visits, orphans>>,
           storage' \in [Title -> [Page -> StorageValue]], shared' \in SUBSET Title,
           Contents'
    PROVE  UploadInv'
<1>0. ChainsOK /\ OrphansFew /\ QueueOK
      /\ DocsOf(db, chains) /\ Owed(pending[Me], main[Me], chains)
  BY DEF UploadInv
<1>1. /\ DOMAIN chains' = DOMAIN chains /\ Len(chains') = Len(chains)
      /\ chains' \in Seq(Chain) /\ chains'[n] = c
      /\ \A k \in DOMAIN chains : k # n => chains'[k] = chains[k]
      /\ \A k \in DOMAIN chains : /\ chains'[k].setup = chains[k].setup
                                  /\ chains'[k].visit = chains[k].visit
  BY <1>0, OneChain
<1>2. ChainsOK'
  BY <1>0, <1>1, ChainsKept
<1>3. Moves(chains, chains', 0)
  <2>1. c.links = chains[n].links
    BY DEF SameData
  <2> QED BY <1>1, <2>1 DEF Moves
<1>4. DocsOf(db', chains') /\ Owed(pending'[Me], main'[Me], chains')
  <2>1. DocsOf(db, chains') /\ Owed(pending[Me], main[Me], chains')
    BY <1>0, <1>3, ChainFacts, MovesKeep
  <2> QED BY <2>1 DEF firestoreVars
<1>5. QueueOK'
  BY <1>0 DEF QueueOK, firestoreVars
<1>6. OrphansFew'
  <2>1. Len(chains) \in Nat /\ DOMAIN chains = 1..Len(chains)
    BY <1>0, ChainFacts
  <2>2. \A k \in 1..Len(chains) : chains[k].step = "done" => chains'[k].step = "done"
    BY <1>1, <2>1
  <2>3. /\ Cardinality(Done(chains)) \in Nat /\ Cardinality(Done(chains')) \in Nat
        /\ Cardinality(Done(chains)) <= Cardinality(Done(chains'))
    <3>1. Len(chains') \in Nat /\ Len(chains) <= Len(chains')
      BY <1>1, <2>1
    <3> QED BY <2>1, <2>2, <3>1, DoneKept
  <2>4. orphans \in Nat /\ orphans <= Cardinality(Done(chains)) /\ orphans' = orphans
    BY <1>0 DEF OrphansFew
  <2>5. orphans <= Cardinality(Done(chains'))
    BY <2>3, <2>4
  <2> QED BY <2>4, <2>5 DEF OrphansFew
<1> QED BY <1>2, <1>4, <1>5, <1>6 DEF UploadInv

\* A chain that was cut, or stored its next page.
LEMMA ChainStep ==
    ASSUME NEW c \in Chain, NEW s \in 0..Pages
    PROVE  /\ [c EXCEPT !.stored = s] \in Chain /\ [c EXCEPT !.step = "cut"] \in Chain
           /\ LET d == [c EXCEPT !.stored = s]
              IN  SameData(c, d) /\ d.setup = c.setup /\ d.visit = c.visit
           /\ LET d == [c EXCEPT !.step = "cut"]
              IN  SameData(c, d) /\ d.setup = c.setup /\ d.visit = c.visit
<1>1. /\ [c EXCEPT !.stored = s] \in Chain
      /\ LET d == [c EXCEPT !.stored = s]
         IN  SameData(c, d) /\ d.setup = c.setup /\ d.visit = c.visit
  BY DEF Chain, SameData
<1>2. /\ [c EXCEPT !.step = "cut"] \in Chain
      /\ LET d == [c EXCEPT !.step = "cut"]
         IN  SameData(c, d) /\ d.setup = c.setup /\ d.visit = c.visit
  BY DEF Chain, SameData
<1> QED BY <1>1, <1>2

\* A page is stored.
LEMMA StoredUploads ==
    ASSUME UploadInv, NEW n, Stored(n)
    PROVE  UploadInv'
<1> DEFINE p == chains[n].stored + 1
           t == chains[n].title
           object == [by |-> n, image |-> chains[n].images[p]]
           c == [chains[n] EXCEPT !.stored = p]
<1>0. ChainsOK /\ Contents /\ n \in DOMAIN chains /\ chains[n] \in Chain
      /\ chains[n].step = "storing"
  BY ChainFacts DEF UploadInv, Stored, Storing
<1>1. p \in 0..Pages /\ p \in Page
  BY <1>0, StudioAssumption DEF Stored, Chain, Page
<1>2. c \in Chain /\ SameData(chains[n], c) /\ c.setup = chains[n].setup /\ c.visit = chains[n].visit
  <2> HIDE DEF p
  <2> QED BY <1>0, <1>1, ChainStep
<1>3. /\ chains' = [chains EXCEPT ![n] = c]
      /\ storage' = [storage EXCEPT ![t][p] = object]
      /\ UNCHANGED <<firestoreVars, setups, visits, orphans, shared>>
  BY DEF Stored
<1>4. t \in Title /\ object \in StorageValue /\ object = OwnObject(n, chains[n], p)
  <2>1. t \in Title /\ chains[n].images[p] \in Image
    BY <1>0, <1>1 DEF Chain
  <2>2. n \in 1..MaxTaps
    BY <1>0, ChainFacts, StudioAssumption DEF ChainsOK
  <2>3. chains[n].images = chains[n].asked
    BY <1>0 DEF Contents, Collected
  <2> HIDE DEF p, t
  <2> QED BY <2>1, <2>2, <2>3 DEF StorageValue, StorageObject, OwnObject
<1> HIDE DEF c, p, object
<1>5. storage' \in [Title -> [Page -> StorageValue]]
  BY <1>0, <1>1, <1>3, <1>4 DEF ChainsOK
<1>6. /\ DOMAIN chains' = DOMAIN chains
      /\ \A k \in DOMAIN chains : SameData(chains[k], chains'[k])
      /\ \A k \in DOMAIN chains : chains'[k].title = chains[k].title
  <2>1. DOMAIN chains' = DOMAIN chains /\ chains'[n] = c
        /\ \A k \in DOMAIN chains : k # n => chains'[k] = chains[k]
    BY <1>0, <1>2, <1>3, OneChain
  <2> QED BY <1>2, <2>1 DEF SameData
<1>7. ASSUME NEW k \in DOMAIN chains, chains[k].title = t, Alone(k)'
      PROVE  object = OwnObject(k, chains[k], p)
  <2>1. k = n
    BY <1>0, <1>6, <1>7 DEF Alone
  <2> QED BY <1>4, <2>1
<1>8. Contents'
  <2>1. /\ \A u \in Title : u # t => storage'[u] = storage[u]
        /\ \A o \in Page : o # p => storage'[t][o] = storage[t][o]
        /\ storage'[t][p] = object
    BY <1>0, <1>1, <1>3, <1>4 DEF ChainsOK
  <2>2. shared \in SUBSET (shared') /\ \E k \in DOMAIN chains : chains[k].title = t
    BY <1>0, <1>3
  <2> HIDE DEF t
  <2> QED BY <1>0, <1>1, <1>4, <1>6, <1>7, <2>1, <2>2, ContentsStored
<1>9. shared' \in SUBSET Title
  BY <1>0, <1>3 DEF ChainsOK
<1> QED BY <1>0, <1>2, <1>3, <1>5, <1>8, <1>9, OneMoves

\* A page is not stored.
LEMMA StoreFailsUploads ==
    ASSUME UploadInv, NEW n, StoreFails(n)
    PROVE  UploadInv'
<1> DEFINE p == chains[n].stored + 1
<1>0. ChainsOK /\ Contents /\ n \in DOMAIN chains /\ chains[n] \in Chain
      /\ chains[n].step = "storing"
  BY ChainFacts DEF UploadInv, StoreFails, Storing
<1>1. p \in 0..Pages
  BY <1>0, StudioAssumption DEF StoreFails, Chain
<1>2. /\ chains' = [chains EXCEPT ![n] = [chains[n] EXCEPT !.step = "cut"]]
         \/ chains' = [chains EXCEPT ![n] = [chains[n] EXCEPT !.stored = p]]
      /\ UNCHANGED <<firestoreVars, setups, visits, orphans, shared, storage>>
  BY DEF StoreFails
<1> HIDE DEF p
<1>3. ASSUME NEW c \in Chain, SameData(chains[n], c), c.setup = chains[n].setup,
             c.visit = chains[n].visit, chains' = [chains EXCEPT ![n] = c]
      PROVE  UploadInv'
  <2>1. DOMAIN chains' = DOMAIN chains /\ chains'[n] = c
        /\ \A k \in DOMAIN chains : k # n => chains'[k] = chains[k]
    BY <1>0, <1>3, OneChain
  <2>2. \A k \in DOMAIN chains : SameData(chains[k], chains'[k])
    BY <1>3, <2>1 DEF SameData
  <2>3. Contents'
    BY <1>0, <1>2, <2>1, <2>2, ContentsKept
  <2>4. storage' \in [Title -> [Page -> StorageValue]] /\ shared' \in SUBSET Title
    BY <1>0, <1>2 DEF ChainsOK
  <2> QED BY <1>0, <1>2, <1>3, <2>3, <2>4, OneMoves
<1>4. CASE chains' = [chains EXCEPT ![n] = [chains[n] EXCEPT !.step = "cut"]]
  BY <1>0, <1>1, <1>3, <1>4, ChainStep
<1>5. CASE chains' = [chains EXCEPT ![n] = [chains[n] EXCEPT !.stored = p]]
  BY <1>0, <1>1, <1>3, <1>5, ChainStep
<1> QED BY <1>2, <1>4, <1>5

\* Another account stores.
LEMMA OthersUploads ==
    ASSUME UploadInv, NEW t \in Title, NEW p \in Page, OthersStore(t, p)
    PROVE  UploadInv'
<1>0. ChainsOK /\ Contents /\ QueueOK /\ OrphansFew
      /\ DocsOf(db, chains) /\ Owed(pending[Me], main[Me], chains)
  BY DEF UploadInv
<1>1. /\ storage' = [storage EXCEPT ![t][p] = Foreign] /\ shared' = shared \cup {t}
      /\ UNCHANGED <<firestoreVars, chains, setups, visits, orphans>>
  BY DEF OthersStore
<1>2. ChainsOK'
  BY <1>0, <1>1 DEF ChainsOK, StorageValue
<1>3. Contents'
  <2>1. \A k \in DOMAIN chains : SameData(chains[k], chains'[k])
    BY <1>1 DEF SameData
  <2>2. \A k \in DOMAIN chains : ~(chains[k].title = t /\ Alone(k)')
    BY <1>1 DEF Alone
  <2>3. t \in shared' /\ shared \in SUBSET (shared') /\ DOMAIN chains' = DOMAIN chains
    BY <1>1
  <2>4. /\ \A u \in Title : u # t => storage'[u] = storage[u]
        /\ \A o \in Page : o # p => storage'[t][o] = storage[t][o]
    BY <1>0, <1>1 DEF ChainsOK
  <2>5. storage'[t][p] = Foreign
    BY <1>0, <1>1 DEF ChainsOK
  <2> QED BY <1>0, <2>1, <2>2, <2>3, <2>4, <2>5, ContentsStored
<1>4. QueueOK' /\ OrphansFew' /\ DocsOf(db', chains') /\ Owed(pending'[Me], main'[Me], chains')
  BY <1>0, <1>1 DEF QueueOK, OrphansFew, firestoreVars
<1> QED BY <1>2, <1>3, <1>4 DEF UploadInv

\* What a chain has collected once a link, or none, has joined.
LEMMA CollectedLink ==
    ASSUME NEW n, NEW c \in Chain, NEW d \in Chain, NEW link, NEW folder,
           Collected(c), c.step = "storing",
           d.title = c.title, d.images = c.images, d.asked = c.asked,
           d.links = Append(c.links, link), d.step = "storing" => Len(d.links) # Pages,
           link # NoObject =>
              /\ link.title = c.title /\ link.page = Len(c.links) + 1
              /\ link.object = folder[Len(c.links) + 1] /\ link.object # NoObject
    PROVE  /\ Collected(d)
           /\ OwnFolder(n, c, folder) => OwnFolder(n, d, folder)
<1>1. /\ Len(c.links) \in Nat /\ Len(d.links) = Len(c.links) + 1
      /\ d.links[Len(c.links) + 1] = link
      /\ \A p \in 1..Len(c.links) : d.links[p] = c.links[p]
  BY DEF Chain
<1>2. Len(c.links) < Pages /\ Pages \in Nat
  BY StudioAssumption DEF Collected
<1>3. \A p \in 1..Len(d.links) : p \in 1..Len(c.links) \/ p = Len(c.links) + 1
  BY <1>1
<1>4. Collected(d)
  <2>1. ASSUME NEW p \in 1..Len(d.links), d.links[p] # NoObject
        PROVE  d.links[p].title = d.title /\ d.links[p].page = p
    <3>1. CASE p \in 1..Len(c.links)
      BY <1>1, <2>1, <3>1 DEF Collected
    <3>2. CASE p = Len(c.links) + 1
      BY <1>1, <2>1, <3>2
    <3> QED BY <1>3, <3>1, <3>2
  <2>2. Len(d.links) <= Pages /\ (d.step = "storing" => Len(d.links) < Pages)
    BY <1>1, <1>2
  <2>3. d.images = d.asked
    BY DEF Collected
  <2> QED BY <2>1, <2>2, <2>3 DEF Collected
<1>5. ASSUME OwnFolder(n, c, folder) PROVE OwnFolder(n, d, folder)
  <2>0. \A p : OwnObject(n, d, p) = OwnObject(n, c, p)
    BY DEF OwnObject
  <2>1. Len(c.links) + 1 \in Page
    BY <1>1, <1>2 DEF Page
  <2>2. ASSUME NEW p \in 1..Len(d.links), d.links[p] # NoObject
        PROVE  folder[p] = OwnObject(n, c, p) /\ d.links[p].object = OwnObject(n, c, p)
    <3>1. CASE p \in 1..Len(c.links)
      BY <1>1, <1>5, <2>2, <3>1 DEF OwnFolder
    <3>2. CASE p = Len(c.links) + 1
      <4>1. link # NoObject
        BY <1>1, <2>2, <3>2
      <4>2. folder[p] \in {NoObject, OwnObject(n, c, p)}
        BY <1>5, <2>1, <3>2 DEF OwnFolder
      <4> QED BY <1>1, <3>2, <4>1, <4>2
    <3> QED BY <1>3, <3>1, <3>2
  <2> QED BY <1>5, <2>0, <2>2 DEF OwnFolder
<1> QED BY <1>4, <1>5

\* A link arrives, or none; after the last one the document may be added.
LEMMA LinkedUploads ==
    ASSUME UploadInv, NEW n, Storing(n), NEW link,
           link = NoObject \/ (link = LinkOf(n, Len(chains[n].links) + 1) /\ link.object # NoObject),
           Linked(n, link), UNCHANGED <<db, sent, main, storage, shared, setups, visits, orphans>>
    PROVE  UploadInv'
<1> DEFINE q == pending[Me]
           m == main[Me]
<1>0. ChainsOK /\ Contents /\ QueueOK /\ OrphansFew /\ DocsOf(db, chains) /\ Owed(q, m, chains)
      /\ n \in DOMAIN chains /\ chains[n] \in Chain /\ chains[n].step = "storing"
      /\ Collected(chains[n])
  BY ChainFacts DEF UploadInv, Storing, Contents
<1>1. PICK c : chains' = [chains EXCEPT ![n] = c] /\ LinkedTo(c, n, link)
  BY <1>0, LinkedChain
<1> DEFINE p == Len(chains[n].links) + 1
           folder == storage[chains[n].title]
<1>2. chains[n].links \in Seq(Link \cup {NoObject}) /\ p \in Page /\ chains[n].title \in Title
  <2>1. chains[n].links \in Seq(Link \cup {NoObject}) /\ chains[n].title \in Title
    BY <1>0 DEF Chain
  <2>2. Len(chains[n].links) \in Nat /\ Len(chains[n].links) < Pages
    BY <1>0, <2>1 DEF Collected
  <2> QED BY <2>1, <2>2, StudioAssumption DEF Page
<1>3. /\ link # NoObject => /\ link.title = chains[n].title /\ link.page = p
                            /\ link.object = folder[p] /\ link.object # NoObject
      /\ link \in Link \cup {NoObject}
  <2>1. CASE link = NoObject
    BY <2>1
  <2>2. CASE link = LinkOf(n, p) /\ link.object # NoObject
    <3>1. link = [title |-> chains[n].title, page |-> p, object |-> folder[p]]
      BY <2>2 DEF LinkOf
    <3>2. folder[p] \in StorageValue /\ folder[p] # NoObject
      BY <1>0, <1>2, <2>2, <3>1 DEF ChainsOK
    <3>3. folder[p] \in StorageObject \cup {Foreign}
      BY <3>2 DEF StorageValue
    <3> HIDE DEF p, folder
    <3> QED BY <1>2, <2>2, <3>1, <3>3 DEF Link
  <2> QED BY <2>1, <2>2
<1>4. /\ c.visit = chains[n].visit /\ c.setup = chains[n].setup /\ c.title = chains[n].title
      /\ c.images = chains[n].images /\ c.asked = chains[n].asked /\ c.stored = chains[n].stored
      /\ c.links = Append(chains[n].links, link)
      /\ c.step \in {"storing", "cut", "adding"} /\ (c.step = "storing" => Len(c.links) # Pages)
  BY <1>1 DEF LinkedTo
<1>5. c \in Chain
  <2>1. Append(chains[n].links, link) \in Seq(Link \cup {NoObject})
    BY <1>2, <1>3
  <2> QED BY <1>1, <2>1 DEF LinkedTo
<1>6. /\ DOMAIN chains' = DOMAIN chains /\ Len(chains') = Len(chains)
      /\ chains' \in Seq(Chain) /\ chains'[n] = c
      /\ \A k \in DOMAIN chains : k # n => chains'[k] = chains[k]
      /\ \A k \in DOMAIN chains : /\ chains'[k].setup = chains[k].setup
                                  /\ chains'[k].visit = chains[k].visit
  BY <1>0, <1>1, <1>4, <1>5, OneChain
<1>7. ChainsOK'
  <2>1. storage' \in [Title -> [Page -> StorageValue]] /\ shared' \in SUBSET Title
    BY <1>0 DEF ChainsOK
  <2> QED BY <1>0, <1>6, <2>1, ChainsKept
<1>8. Contents'
  <2>1. /\ Collected(c)
        /\ OwnFolder(n, chains[n], folder) => OwnFolder(n, c, folder)
    <3> HIDE DEF folder
    <3> QED BY <1>0, <1>3, <1>4, <1>5, CollectedLink
  <2>2. \A k \in DOMAIN chains : chains'[k].title = chains[k].title
    BY <1>4, <1>6
  <2>3. ASSUME NEW k \in DOMAIN chains, Alone(k)'
        PROVE  OwnFolder(k, chains'[k], storage[chains'[k].title])
    <3>1. Alone(k)
      BY <1>6, <2>2, <2>3, AloneBefore
    <3>2. OwnFolder(k, chains[k], storage[chains[k].title])
      BY <1>0, <3>1 DEF Contents
    <3> QED BY <1>6, <2>1, <2>2, <3>2
  <2>4. \A k \in DOMAIN chains : Collected(chains'[k])
    BY <1>0, <1>6, <2>1 DEF Contents
  <2>5. ASSUME NEW t \in Title, NEW o \in Page, storage[t][o] # NoObject
        PROVE  t \in shared \/ \E k \in DOMAIN chains : chains'[k].title = t
    BY <1>0, <2>2, <2>5 DEF Contents
  <2> QED BY <1>6, <2>3, <2>4, <2>5 DEF Contents
<1>9. Moves(chains, chains', 0)
  <2>1. Len(chains[n].links) # Pages /\ chains[n].step # "adding"
    BY <1>0, <1>2, StudioAssumption DEF Collected
  <2> QED BY <1>6, <2>1 DEF Moves
<1>10. DocsOf(db, chains') /\ Owed(q, m, chains')
  <2> HIDE DEF q, m
  <2> QED BY <1>0, <1>9, ChainFacts, MovesKeep
<1>11. OrphansFew'
  <2>1. Len(chains) \in Nat /\ DOMAIN chains = 1..Len(chains)
    BY <1>0, ChainFacts
  <2>2. \A k \in 1..Len(chains) : chains[k].step = "done" => chains'[k].step = "done"
    BY <1>0, <1>6, <2>1
  <2>3. Len(chains') \in Nat /\ Len(chains) <= Len(chains')
    BY <1>6, <2>1
  <2>4. /\ Cardinality(Done(chains)) \in Nat /\ Cardinality(Done(chains')) \in Nat
        /\ Cardinality(Done(chains)) <= Cardinality(Done(chains'))
    BY <2>1, <2>2, <2>3, DoneKept
  <2>5. orphans \in Nat /\ orphans <= Cardinality(Done(chains))
    BY <1>0 DEF OrphansFew
  <2>6. orphans <= Cardinality(Done(chains'))
    BY <2>4, <2>5
  <2> QED BY <2>5, <2>6 DEF OrphansFew
<1>12. QueueOK' /\ Owed(pending'[Me], main'[Me], chains')
  <2>1. CASE pending' = pending
    BY <1>0, <1>10, <2>1 DEF QueueOK
  <2>2. CASE /\ c.step = "adding" /\ Len(c.links) = Pages
             /\ \A k \in DOMAIN c.links : c.links[k] # NoObject
             /\ Issue(Me, << SetData(Toon(n), [links |-> c.links], Completion(n)) >>)
    <3> DEFINE w == SetData(Toon(n), [links |-> c.links], Completion(n))
    <3>1. /\ w.op = "set" /\ w.doc = Toon(n) /\ w.val = [links |-> c.links]
          /\ w.then = Completion(n) /\ w \in StudioWrite
      <4>1. n \in 1..MaxTaps /\ n \in Nat
        BY <1>0, ChainFacts, StudioAssumption DEF ChainsOK
      <4>2. c.links \in Seq(Link)
        <5>1. c.links \in Seq(Link \cup {NoObject})
          BY <1>5 DEF Chain
        <5>2. \A k \in 1..Len(c.links) : c.links[k] \in Link
          BY <2>2, <5>1
        <5> DEFINE l == c.links
        <5>3. Len(l) \in Nat /\ l = [k \in 1..Len(l) |-> l[k]]
          BY <5>1
        <5> QED BY <5>1, <5>2, <5>3
      <4>3. Toon(n) \in Docs /\ [links |-> c.links] \in Document /\ Completion(n) \in Handler
        BY <4>1, <4>2 DEF Docs, Document, Completion, Handler
      <4> QED BY <4>3 DEF SetData, StudioWrite
    <3>2. pending' = [pending EXCEPT ![Me] = q \o <<w>>]
      BY <2>2 DEF Issue
    <3>3. Ordered(w, chains')
      <4>1. Written(c, w.val)
        <5>1. DOMAIN c.links = Page
          BY <1>5, <2>2 DEF Chain, Page
        <5> QED BY <2>2, <3>1, <5>1 DEF Written
      <4>2. w.doc[2] = n
        BY <3>1 DEF Toon
      <4> HIDE DEF w
      <4> QED BY <1>0, <1>6, <2>2, <3>1, <4>1, <4>2 DEF Ordered
    <3> HIDE DEF w
    <3>4. Me \in User /\ q \in Seq(StudioWrite) /\ pending \in [User -> Seq(StudioWrite)]
      BY <1>0, StudioAssumption DEF QueueOK
    <3>5. Pushed(q, q \o <<w>>, w) /\ q \o <<w>> \in Seq(StudioWrite)
      <4> HIDE DEF q
      <4> QED BY <3>1, <3>4, AppendPushes
    <3>6. \A i \in 1..Len(q) : q[i].doc # Toon(n)
      <4>1. ASSUME NEW i \in 1..Len(q), q[i].doc = Toon(n) PROVE FALSE
        <5>1. Ordered(q[i], chains) /\ q[i].doc[2] = n
          BY <1>0, <4>1 DEF Owed, Toon
        <5>2. Len(chains[n].links) = Pages
          BY <5>1 DEF Ordered, Written
        <5> QED BY <1>0, <5>2, StudioAssumption DEF Collected
      <4> QED BY <4>1
    <3>7. \A i \in 1..Len(m) : m[i].chain # n
      BY <1>0 DEF Owed
    <3>8. Owed(q \o <<w>>, m, chains')
      <4> DEFINE r == q \o <<w>>
      <4> HIDE DEF q, m, r
      <4>1. Pushed(q, r, w)
        BY <3>5 DEF r
      <4>2. Owed(r, m, chains')
        BY <1>10, <3>1, <3>3, <3>6, <3>7, <4>1, OwedPush
      <4> QED BY <4>2 DEF r
    <3>9. pending'[Me] = q \o <<w>> /\ pending' \in [User -> Seq(StudioWrite)]
      BY <3>2, <3>4, <3>5
    <3>10. sent[Me] <= Len(q \o <<w>>)
      <4>1. sent[Me] \in Nat /\ sent[Me] <= Len(q)
        BY <1>0, <3>4 DEF QueueOK
      <4>2. Len(q \o <<w>>) = Len(q) + 1 /\ Len(q) \in Nat
        BY <3>5 DEF Pushed, Grows
      <4> QED BY <4>1, <4>2
    <3>11. QueueOK'
      BY <1>0, <3>9, <3>10 DEF QueueOK
    <3> QED BY <3>8, <3>9, <3>11
  <2> QED BY <1>1, <2>1, <2>2 DEF LinkedTo
<1> QED BY <1>7, <1>8, <1>10, <1>11, <1>12 DEF UploadInv

\* Both answers to a link's request.
LEMMA LinkUploads ==
    ASSUME UploadInv, NEW n, LinkAnswered(n) \/ LinkFails(n)
    PROVE  UploadInv'
<1>1. CASE LinkAnswered(n)
  <2> DEFINE p == Len(chains[n].links) + 1
             link == IF storage[chains[n].title][p] = NoObject THEN NoObject ELSE LinkOf(n, p)
  <2>1. Storing(n) /\ Linked(n, link)
        /\ UNCHANGED <<db, sent, main, storage, shared, setups, visits, orphans>>
    BY <1>1 DEF LinkAnswered
  <2>2. link = NoObject \/ (link = LinkOf(n, p) /\ link.object # NoObject)
    BY DEF LinkOf
  <2> HIDE DEF link
  <2> QED BY <2>1, <2>2, LinkedUploads
<1>2. CASE LinkFails(n)
  BY <1>2, LinkedUploads DEF LinkFails
<1> QED BY <1>1, <1>2

\* A chain starts: it has collected nothing, and finds nothing in a folder
\* that it has to itself.
LEMMA TapUploads ==
    ASSUME UploadInv, ScreensOK, NEW t \in Title, TapUpload(t)
    PROVE  UploadInv'
<1> DEFINE c == [setup |-> setups, visit |-> visits, title |-> t,
                 images |-> GetUserDefaultsData, asked |-> drafts,
                 stored |-> 0, links |-> << >>, step |-> "storing"]
<1> PICK n : n = Len(chains) + 1
  OBVIOUS
<1>0. ChainsOK /\ Contents /\ QueueOK /\ OrphansFew
      /\ DocsOf(db, chains) /\ Owed(pending[Me], main[Me], chains)
  BY DEF UploadInv
<1>1. /\ chains' = Append(chains, c)
      /\ UNCHANGED <<firestoreVars, storage, shared, setups, visits, orphans>>
      /\ Len(GetUserDefaultsData) = Pages /\ at = "upload" /\ Len(chains) < MaxTaps
  BY DEF TapUpload
<1>2. GetUserDefaultsData = drafts /\ drafts \in [Page -> Image]
  BY <1>1, DefaultsWhole, StudioAssumption DEF ScreensOK
<1>3. setups \in 1..setups /\ visits \in 1..visits /\ setups \in Nat /\ visits \in Nat
  BY <1>1, StudioAssumption DEF ScreensOK
<1>4. c \in Chain /\ c.setup = setups /\ c.visit = visits /\ c.title = t
      /\ c.images = c.asked /\ c.links = << >> /\ c.step = "storing"
  <2>1. << >> \in Seq(Link \cup {NoObject}) /\ 0 \in 0..Pages
    BY StudioAssumption
  <2> QED BY <1>2, <1>3, <2>1 DEF Chain
<1> HIDE DEF c
<1>5. /\ Len(chains) \in Nat /\ DOMAIN chains = 1..Len(chains) /\ chains \in Seq(Chain)
      /\ DOMAIN chains \in SUBSET (Nat \ {0})
  BY <1>0, ChainFacts DEF ChainsOK
<1>6. /\ chains' \in Seq(Chain) /\ Len(chains') = n /\ DOMAIN chains' = 1..n /\ chains'[n] = c
      /\ \A k \in DOMAIN chains : chains'[k] = chains[k] /\ k \in DOMAIN chains' /\ k # n
      /\ \A k \in DOMAIN chains' : k \in DOMAIN chains \/ k = n
      /\ n \in DOMAIN chains'
  BY <1>1, <1>4, <1>5
<1>7. ChainsOK'
  <2>1. Len(chains') <= MaxTaps
    BY <1>1, <1>5, <1>6, StudioAssumption
  <2>2. ASSUME NEW k \in DOMAIN chains'
        PROVE  chains'[k].setup \in 1..setups /\ chains'[k].visit \in 1..visits
    BY <1>0, <1>3, <1>4, <1>6 DEF ChainsOK
  <2> QED BY <1>0, <1>1, <1>6, <2>1, <2>2 DEF ChainsOK
<1>8. Contents'
  <2>1. Collected(c)
    <3>1. Len(c.links) = 0 /\ 0 < Pages /\ 0 <= Pages
      BY <1>4, StudioAssumption
    <3> QED BY <1>4, <3>1 DEF Collected
  <2>2. \A k \in DOMAIN chains' : Collected(chains'[k])
    BY <1>0, <1>6, <2>1 DEF Contents
  <2>3. ASSUME NEW k \in DOMAIN chains, Alone(k)'
        PROVE  OwnFolder(k, chains'[k], storage[chains'[k].title])
    <3>1. Alone(k)
      BY <1>1, <1>6, <2>3, AloneBefore
    <3> QED BY <1>0, <1>6, <3>1 DEF Contents
  <2>4. ASSUME Alone(n)' PROVE OwnFolder(n, c, storage[c.title])
    <3>1. t \notin shared /\ \A k \in DOMAIN chains : chains[k].title # t
      BY <1>1, <1>4, <1>6, <2>4 DEF Alone
    <3>2. \A p \in Page : storage[t][p] = NoObject
      BY <1>0, <3>1 DEF Contents
    <3>3. Len(c.links) = 0
      BY <1>4
    <3> QED BY <1>4, <3>2, <3>3 DEF OwnFolder
  <2>5. ASSUME NEW u \in Title, NEW p \in Page, storage[u][p] # NoObject
        PROVE  u \in shared \/ \E k \in DOMAIN chains' : chains'[k].title = u
    <3>1. u \in shared \/ \E k \in DOMAIN chains : chains[k].title = u
      BY <1>0, <2>5 DEF Contents
    <3> QED BY <1>6, <3>1
  <2>6. \A k \in DOMAIN chains' : Alone(k)' => OwnFolder(k, chains'[k], storage[chains'[k].title])
    BY <1>6, <2>3, <2>4
  <2> QED BY <1>1, <2>2, <2>5, <2>6 DEF Contents
<1>9. QueueOK' /\ DocsOf(db', chains') /\ Owed(pending'[Me], main'[Me], chains')
  <2>1. Moves(chains, chains', 0)
    BY <1>6 DEF Moves
  <2>2. DocsOf(db, chains') /\ Owed(pending[Me], main[Me], chains')
    BY <1>0, <1>5, <2>1, MovesKeep
  <2>3. db' = db /\ pending' = pending /\ main' = main /\ sent' = sent
    BY <1>1 DEF firestoreVars
  <2> QED BY <1>0, <2>2, <2>3 DEF QueueOK
<1>10. OrphansFew'
  <2>1. /\ Len(chains') \in Nat /\ Len(chains) <= Len(chains')
        /\ \A k \in 1..Len(chains) : chains[k].step = "done" => chains'[k].step = "done"
    BY <1>5, <1>6
  <2>2. /\ Cardinality(Done(chains)) \in Nat /\ Cardinality(Done(chains')) \in Nat
        /\ Cardinality(Done(chains)) <= Cardinality(Done(chains'))
    BY <1>5, <2>1, DoneKept
  <2>3. orphans \in Nat /\ orphans <= Cardinality(Done(chains)) /\ orphans' = orphans
    BY <1>0, <1>1 DEF OrphansFew
  <2>4. orphans <= Cardinality(Done(chains'))
    BY <2>2, <2>3
  <2> QED BY <2>3, <2>4 DEF OrphansFew
<1> QED BY <1>7, <1>8, <1>9, <1>10 DEF UploadInv

\* All the chains move on, keeping their data, and one of them at most, x, to
\* its end: what holds of them whatever becomes of the queues.
LEMMA AllMove ==
    ASSUME UploadInv, DOMAIN chains' = DOMAIN chains, chains' \in Seq(Chain),
           \A k \in DOMAIN chains :
              /\ SameData(chains[k], chains'[k])
              /\ chains'[k].setup = chains[k].setup /\ chains'[k].visit = chains[k].visit,
           UNCHANGED <<storage, shared, setups, visits>>
    PROVE  /\ ChainsOK' /\ Contents'
           /\ \A data : DocsOf(data, chains) => DocsOf(data, chains')
<1>0. ChainsOK /\ Contents
  BY DEF UploadInv
<1>1. Contents'
  BY <1>0, ContentsKept
<1>2. Len(chains') = Len(chains)
  BY <1>0, ChainFacts
<1>3. storage' \in [Title -> [Page -> StorageValue]] /\ shared' \in SUBSET Title
  BY <1>0 DEF ChainsOK
<1>4. ChainsOK'
  BY <1>0, <1>2, <1>3, ChainsKept
<1>5. ASSUME NEW data, DocsOf(data, chains) PROVE DocsOf(data, chains')
  <2>1. ASSUME NEW k \in DOMAIN chains, NEW v, Written(chains[k], v) PROVE Written(chains'[k], v)
    BY <2>1 DEF Written, SameData
  <2> QED BY <1>5, <2>1 DEF DocsOf
<1> QED BY <1>1, <1>4, <1>5

\* The process ends and starts again.
LEMMA DieUploads ==
    ASSUME UploadInv, Die \/ TapUploadIncomplete
    PROVE  UploadInv'
<1> DEFINE q == pending[Me]
           r == [i \in DOMAIN q |-> [q[i] EXCEPT !.then = Nothing]]
           Cut(c) == IF c.step \in {"storing", "adding"} THEN [c EXCEPT !.step = "cut"] ELSE c
<1>0. ChainsOK /\ Contents /\ QueueOK /\ OrphansFew
      /\ DocsOf(db, chains) /\ Owed(q, main[Me], chains) /\ Me \in User
  BY StudioAssumption DEF UploadInv
<1>1. /\ pending' = [pending EXCEPT ![Me] = r] /\ main' = [main EXCEPT ![Me] = << >>]
      /\ sent' = [sent EXCEPT ![Me] = 0] /\ orphans' = 0
      /\ chains' = [n \in DOMAIN chains |-> Cut(chains[n])]
      /\ UNCHANGED <<db, setups, visits, storage, shared>>
  BY DEF TapUploadIncomplete, Die, RestartClient
<1>2. ASSUME NEW c \in Chain
      PROVE  /\ Cut(c) \in Chain /\ SameData(c, Cut(c))
             /\ Cut(c).setup = c.setup /\ Cut(c).visit = c.visit
  <2>1. 0 \in 0..Pages
    BY StudioAssumption
  <2>2. SameData(c, c)
    BY DEF SameData
  <2> QED BY <2>1, <2>2, ChainStep
<1> HIDE DEF Cut
<1>3. /\ Len(chains) \in Nat /\ DOMAIN chains = 1..Len(chains)
      /\ \A n \in DOMAIN chains : chains[n] \in Chain
  BY <1>0, ChainFacts
<1>4. /\ DOMAIN chains' = DOMAIN chains /\ chains' \in Seq(Chain)
      /\ \A k \in DOMAIN chains : chains'[k] = Cut(chains[k])
  <2>1. chains' \in [1..Len(chains) -> Chain]
    BY <1>1, <1>2, <1>3
  <2> QED BY <1>1, <1>3, <2>1
<1>5. \A k \in DOMAIN chains :
         /\ SameData(chains[k], chains'[k])
         /\ chains'[k].setup = chains[k].setup /\ chains'[k].visit = chains[k].visit
  BY <1>2, <1>3, <1>4
<1>6. ChainsOK' /\ Contents' /\ DocsOf(db, chains')
  BY <1>0, <1>1, <1>4, <1>5, AllMove
<1>7. q \in Seq(StudioWrite) /\ pending \in [User -> Seq(StudioWrite)]
      /\ main \in [User -> Seq(Handler)] /\ sent \in [User -> Nat]
  BY <1>0 DEF QueueOK
<1>8. /\ r \in Seq(StudioWrite) /\ Len(r) = Len(q) /\ Len(q) \in Nat
      /\ \A i \in 1..Len(q) : /\ r[i].doc = q[i].doc /\ r[i].op = q[i].op
                              /\ r[i].val = q[i].val /\ r[i].then = Nothing
  <2>1. DOMAIN q = 1..Len(q) /\ Len(q) \in Nat /\ \A i \in 1..Len(q) : q[i] \in StudioWrite
    BY <1>7
  <2>2. ASSUME NEW w \in StudioWrite
        PROVE  LET v == [w EXCEPT !.then = Nothing]
               IN  /\ v \in StudioWrite
                   /\ v.doc = w.doc /\ v.op = w.op /\ v.val = w.val /\ v.then = Nothing
    BY DEF StudioWrite
  <2> HIDE DEF q
  <2>3. \A i \in 1..Len(q) : /\ r[i] \in StudioWrite /\ r[i].doc = q[i].doc /\ r[i].op = q[i].op
                             /\ r[i].val = q[i].val /\ r[i].then = Nothing
    BY <2>1, <2>2
  <2>4. DOMAIN r = 1..Len(q)
    BY <2>1
  <2>5. r = [i \in 1..Len(q) |-> r[i]]
    BY <2>1
  <2> HIDE DEF r
  <2>6. r \in [1..Len(q) -> StudioWrite]
    BY <2>3, <2>4, <2>5
  <2> QED BY <2>1, <2>3, <2>6
<1> HIDE DEF r
<1>9. Owed(r, << >>, chains')
  <2>1. \A n \in DOMAIN chains : chains'[n].links = chains[n].links
    BY <1>5 DEF SameData
  <2> HIDE DEF q
  <2> QED BY <1>0, <1>4, <1>8, <2>1, OwedForgotten
<1>10. /\ pending'[Me] = r /\ main'[Me] = << >> /\ sent'[Me] = 0
       /\ pending' \in [User -> Seq(StudioWrite)] /\ main' \in [User -> Seq(Handler)]
       /\ sent' \in [User -> Nat]
  BY <1>0, <1>1, <1>7, <1>8
<1>11. QueueOK'
  <2>1. 0 <= Len(r)
    BY <1>8
  <2> QED BY <1>0, <1>1, <1>10, <2>1 DEF QueueOK
<1>12. OrphansFew'
  <2>1. Len(chains') \in Nat /\ Len(chains') <= Len(chains')
    BY <1>3, <1>4
  <2>2. Cardinality(Done(chains')) \in Nat
    BY <2>1, DoneKept
  <2>3. 0 <= Cardinality(Done(chains'))
    BY <2>2
  <2> QED BY <1>1, <2>3 DEF OrphansFew
<1> QED BY <1>1, <1>6, <1>9, <1>10, <1>11, <1>12 DEF UploadInv

\* The completion runs, with an error or without.
LEMMA CompletionUploads ==
    ASSUME UploadInv, Refused \/ Uploaded
    PROVE  UploadInv'
<1> DEFINE q == pending[Me]
           m == main[Me]
           h == Head(m)
           l == Tail(m)
           n == h.chain
<1>0. ChainsOK /\ Contents /\ QueueOK /\ OrphansFew
      /\ DocsOf(db, chains) /\ Owed(q, m, chains) /\ Me \in User
  BY StudioAssumption DEF UploadInv
<1>1. /\ m # << >> /\ main' = [main EXCEPT ![Me] = l]
      /\ UNCHANGED <<db, pending, sent, setups, visits, storage, shared>>
      /\ \/ chains' = [chains EXCEPT ![n].step = "refused"] /\ orphans' = orphans
         \/ chains' = [chains EXCEPT ![n].step = "done"] /\ orphans' = orphans + 1
  BY DEF Refused, Uploaded, Due, RunHead
<1>2. m \in Seq(Handler) /\ main \in [User -> Seq(Handler)]
  BY <1>0 DEF QueueOK
<1>3. Popped(m, l, h) /\ l \in Seq(Handler) /\ h \in Handler
  <2> HIDE DEF m
  <2> QED BY <1>1, <1>2, TailPops
<1>4. n \in DOMAIN chains /\ chains[n].step = "adding"
  BY <1>0, <1>3 DEF Owed, Popped
<1> HIDE DEF l, h, n
<1>5. chains[n] \in Chain
  BY <1>0, <1>4, ChainFacts
<1>6. PICK s \in {"refused", "done"} :
         /\ chains' = [chains EXCEPT ![n] = [chains[n] EXCEPT !.step = s]]
         /\ s = "refused" => orphans' = orphans
         /\ s = "done" => orphans' = orphans + 1
  BY <1>1
<1> DEFINE c == [chains[n] EXCEPT !.step = s]
<1>7. c \in Chain /\ SameData(chains[n], c) /\ c.step = s
      /\ c.setup = chains[n].setup /\ c.visit = chains[n].visit
  BY <1>5 DEF Chain, SameData
<1>8. chains' = [chains EXCEPT ![n] = c]
  BY <1>6
<1> HIDE DEF c
<1>9. /\ DOMAIN chains' = DOMAIN chains /\ Len(chains') = Len(chains)
      /\ chains' \in Seq(Chain) /\ chains'[n] = c
      /\ \A k \in DOMAIN chains : k # n => chains'[k] = chains[k]
      /\ \A k \in DOMAIN chains : /\ chains'[k].setup = chains[k].setup
                                  /\ chains'[k].visit = chains[k].visit
  BY <1>0, <1>4, <1>7, <1>8, OneChain
<1>10. \A k \in DOMAIN chains : SameData(chains[k], chains'[k])
  BY <1>7, <1>9 DEF SameData
<1>11. ChainsOK' /\ Contents' /\ DocsOf(db, chains')
  BY <1>0, <1>1, <1>9, <1>10, AllMove
<1>12. Owed(q, l, chains')
  <2>1. Moves(chains, chains', h.chain)
    BY <1>9, <1>10 DEF Moves, SameData, n
  <2> HIDE DEF q, m
  <2> QED BY <1>0, <1>3, <2>1, OwedRuns
<1>13. main'[Me] = l /\ main' \in [User -> Seq(Handler)]
  BY <1>0, <1>1, <1>2, <1>3
<1>14. QueueOK'
  BY <1>0, <1>1, <1>13 DEF QueueOK
<1>15. OrphansFew'
  <2>1. Len(chains) \in Nat /\ DOMAIN chains = 1..Len(chains)
    BY <1>0, ChainFacts
  <2>2. /\ Len(chains') \in Nat /\ Len(chains) <= Len(chains')
        /\ \A k \in 1..Len(chains) : chains[k].step = "done" => chains'[k].step = "done"
    BY <1>4, <1>9, <2>1
  <2>3. /\ Cardinality(Done(chains)) \in Nat /\ Cardinality(Done(chains')) \in Nat
        /\ Cardinality(Done(chains)) <= Cardinality(Done(chains'))
        /\ (\E k \in 1..Len(chains) : chains[k].step # "done" /\ chains'[k].step = "done")
             => Cardinality(Done(chains)) + 1 <= Cardinality(Done(chains'))
    BY <2>1, <2>2, DoneKept
  <2>4. orphans \in Nat /\ orphans <= Cardinality(Done(chains))
    BY <1>0 DEF OrphansFew
  <2>5. CASE s = "refused"
    <3>1. orphans' = orphans /\ orphans <= Cardinality(Done(chains'))
      BY <1>6, <2>3, <2>4, <2>5
    <3> QED BY <2>4, <3>1 DEF OrphansFew
  <2>6. CASE s = "done"
    <3>1. n \in 1..Len(chains) /\ chains[n].step # "done" /\ chains'[n].step = "done"
      BY <1>4, <1>7, <1>9, <2>1, <2>6
    <3>2. Cardinality(Done(chains)) + 1 <= Cardinality(Done(chains'))
      BY <2>3, <3>1
    <3>3. orphans' = orphans + 1
      BY <1>6, <2>6
    <3>4. orphans' \in Nat /\ orphans' <= Cardinality(Done(chains'))
      BY <2>3, <2>4, <3>2, <3>3
    <3> QED BY <3>4 DEF OrphansFew
  <2> QED BY <2>5, <2>6
<1> QED BY <1>1, <1>11, <1>12, <1>13, <1>14, <1>15 DEF UploadInv

-----------------------------------------------------------------------------
(* The invariant and what it says                                          *)

StudioInv == ScreensOK /\ DraftsInv /\ LoaderInv /\ UploadInv

\* Nothing is uploaded at first.
LEMMA StudioInit ==
    ASSUME Init
    PROVE  StudioInv
<1>1. ScreensOK /\ DraftsInv
  <2>1. at = "launch" /\ page = 1 /\ drafts = NoDrafts /\ cells = NoDrafts /\ drawn = NoDrafts
        /\ loader = NoView /\ setups = 0 /\ visits = 0 /\ saves = 0 /\ mishaps = 0
        /\ finished = FALSE /\ orphans = 0
    BY DEF Init
  <2>2. 1 \in Page /\ NoView \in Shown
        /\ 0 \in 0..MaxSetUps /\ 0 \in 0..MaxVisits /\ 0 \in 0..MaxSaves /\ 0 \in 0..MaxMishaps
    BY StudioAssumption DEF Shown, Page
  <2>3. NoDrafts \in [Page -> Draft]
    BY NoDraftsType
  <2>4. ScreensOK
    BY <2>1, <2>2, <2>3 DEF ScreensOK
  <2> QED BY <2>1, <2>4 DEF DraftsInv
<1>2. LoaderInv
  <2>1. ASSUME NEW v \in Nat PROVE loader # <<"upload", v>>
    BY StudioAssumption DEF Init
  <2> QED BY <2>1 DEF LoaderInv
<1>3. Len(chains) = 0 /\ DOMAIN chains = {} /\ chains \in Seq(Chain) /\ orphans = 0
  BY DEF Init
<1>4. ChainsOK /\ Contents
  <2>1. storage = [t \in Title |-> [p \in Page |-> NoObject]] /\ shared = {}
    BY DEF Init
  <2>2. storage \in [Title -> [Page -> StorageValue]]
        /\ \A t \in Title, p \in Page : storage[t][p] = NoObject
    BY <2>1 DEF StorageValue
  <2>3. 0 <= MaxTaps
    BY StudioAssumption
  <2> QED BY <1>3, <2>1, <2>2, <2>3 DEF ChainsOK, Contents
<1>5. /\ db = [d \in Docs |-> NoDoc]
      /\ pending = [u \in User |-> << >>] /\ sent = [u \in User |-> 0]
      /\ main = [u \in User |-> << >>] /\ Me \in User
  BY StudioAssumption DEF Init, FirestoreInit
<1>6. pending[Me] = << >> /\ main[Me] = << >> /\ sent[Me] = 0 /\ Len(<< >>) = 0
  BY <1>5
<1>7. QueueOK
  BY <1>5, <1>6 DEF QueueOK
<1>8. DocsOf(db, chains)
  <2>1. \A n \in 1..MaxTaps : Toon(n) \in Docs
    BY DEF Docs
  <2> QED BY <1>5, <2>1 DEF DocsOf
<1>9. Owed(pending[Me], main[Me], chains)
  BY <1>6 DEF Owed
<1>10. OrphansFew
  <2>1. Cardinality(Done(chains)) \in Nat
    BY <1>3, DoneKept
  <2> QED BY <1>3, <2>1 DEF OrphansFew
<1> QED BY <1>1, <1>2, <1>4, <1>7, <1>8, <1>9, <1>10 DEF StudioInv, UploadInv

\* Each step keeps the uploads as they should be ...
LEMMA UploadStep ==
    ASSUME ScreensOK, UploadInv, Next
    PROVE  UploadInv'
<1>1. CASE \/ UserFetched \/ OrphanFetched \/ FetchFails
           \/ OpenSetUp \/ CancelSetUp \/ KeepSetUp \/ Save \/ CancelDraw
           \/ OpenUpload \/ CancelUpload
           \/ \E p \in Page : Scroll(p) \/ SelectPage(p)
  BY <1>1, ScreenSteps
<1>2. CASE Client \/ Refuse
  BY <1>2, ClientUploads
<1>3. CASE Die \/ TapUploadIncomplete
  BY <1>3, DieUploads
<1>4. CASE Refused \/ Uploaded
  BY <1>4, CompletionUploads
<1>5. CASE \E t \in Title : TapUpload(t)
  BY <1>5, TapUploads
<1>6. CASE \E t \in Title, p \in Page : OthersStore(t, p)
  BY <1>6, OthersUploads
<1>7. CASE \E n \in 1..MaxTaps : StorageAnswers(n) \/ StoreFails(n) \/ LinkFails(n)
  BY <1>7, StoredUploads, StoreFailsUploads, LinkUploads DEF StorageAnswers
<1> QED BY <1>1, <1>2, <1>3, <1>4, <1>5, <1>6, <1>7 DEF Next

\* ... and the screens.
LEMMA ScreenStep ==
    ASSUME ScreensOK, DraftsInv, orphans \in Nat, Next
    PROVE  ScreensOK' /\ DraftsInv'
BY SetUpScreens, DrawScreens, ChainScreens DEF Next

\* The invariant is inductive.
LEMMA StudioInductive ==
    ASSUME StudioInv, [Next]_vars
    PROVE  StudioInv'
<1>1. CASE Next
  <2>1. chains \in Seq(Chain) /\ orphans \in Nat
    BY DEF StudioInv, UploadInv, ChainsOK, OrphansFew
  <2>2. ScreensOK' /\ DraftsInv'
    BY <1>1, <2>1, ScreenStep DEF StudioInv
  <2>3. LoaderInv'
    BY <1>1, <2>1, LoaderStep DEF StudioInv
  <2>4. UploadInv'
    BY <1>1, UploadStep DEF StudioInv
  <2> QED BY <2>2, <2>3, <2>4 DEF StudioInv
<1>2. CASE UNCHANGED vars
  <2>1. UNCHANGED <<firestoreVars, studioVars>>
    BY <1>2 DEF vars
  <2>2. SameScreens /\ SameUploads /\ UNCHANGED <<chains, loader, orphans>>
    BY <2>1 DEF studioVars, SameScreens, SameUploads
  <2>3. ScreensOK' /\ DraftsInv'
    BY <2>2, SameScreensKeep DEF StudioInv
  <2>4. LoaderInv'
    BY <2>2, LoaderUploadsSame DEF StudioInv
  <2>5. UploadInv'
    BY <2>2, SameUploadsKeep DEF StudioInv
  <2> QED BY <2>3, <2>4, <2>5 DEF StudioInv
<1> QED BY <1>1, <1>2

\* It holds always.
LEMMA StudioAlways == Spec => []StudioInv
<1>1. Init => StudioInv
  BY StudioInit
<1>2. StudioInv /\ [Next]_vars => StudioInv'
  BY StudioInductive
<1> QED BY <1>1, <1>2, PTL DEF Spec

\* What is uploaded is whole and one's own, for every number of pages, of
\* uploads and of accounts that store meanwhile: uploadCartoon's chain of
\* imageStorageUpload and imageUpload.
THEOREM PagesCorrect == Spec => []PagesTruthful
<1>1. ASSUME StudioInv PROVE PagesTruthful
  <2>0. ScreensOK /\ ChainsOK /\ Contents /\ DocsOf(db, chains) /\ OrphansFew
    BY <1>1 DEF StudioInv, UploadInv
  <2>1. /\ Len(chains) \in Nat /\ DOMAIN chains = 1..Len(chains) /\ Len(chains) <= MaxTaps
        /\ \A n \in DOMAIN chains : chains[n] \in Chain /\ n \in 1..MaxTaps
    BY <2>0, ChainFacts, StudioAssumption DEF ChainsOK
  <2>2. TypeOK
    <3>1. orphans \in 0..MaxTaps
      <4>1. Len(chains) \in Nat /\ Len(chains) <= Len(chains)
        BY <2>1
      <4>2. Cardinality(Done(chains)) <= Len(chains) /\ Cardinality(Done(chains)) \in Nat
        BY <4>1, DoneKept
      <4> QED BY <2>0, <2>1, <4>2, StudioAssumption DEF OrphansFew
    <3>2. ASSUME NEW n \in DOMAIN chains
          PROVE  /\ chains[n].setup \in 1..setups /\ chains[n].visit \in 1..visits
                 /\ chains[n].title \in Title
                 /\ chains[n].images \in [Page -> Image] /\ chains[n].asked \in [Page -> Image]
                 /\ chains[n].stored \in 0..Pages
                 /\ chains[n].links \in Seq(Link \cup {NoObject}) /\ Len(chains[n].links) <= Pages
                 /\ chains[n].step \in {"storing", "adding", "cut", "refused", "done"}
      <4>1. chains[n] \in Chain /\ chains[n].setup \in 1..setups /\ chains[n].visit \in 1..visits
            /\ Len(chains[n].links) <= Pages
        BY <2>0, <2>1 DEF ChainsOK, Contents, Collected
      <4> QED BY <4>1 DEF Chain
    <3>3. storage \in [Title -> [Page -> StorageObject \cup {NoObject, Foreign}]]
      BY <2>0 DEF ChainsOK, StorageValue
    <3> QED BY <2>0, <2>1, <3>1, <3>2, <3>3 DEF TypeOK, ScreensOK, ChainsOK
  <2>3. ASSUME NEW n \in DOMAIN chains, Exists(Toon(n))
        PROVE  /\ db[Toon(n)].links = chains[n].links /\ Len(chains[n].links) = Pages
               /\ \A p \in Page : chains[n].links[p] # NoObject /\ p \in 1..Len(chains[n].links)
    <3>1. Written(chains[n], db[Toon(n)])
      BY <2>0, <2>1, <2>3 DEF DocsOf, Exists
    <3> QED BY <3>1 DEF Written, Page
  <2>4. PagesComplete
    <3>1. ASSUME NEW n \in DOMAIN chains, Exists(Toon(n)), NEW p \in Page
          PROVE  /\ chains[n].links[p] # NoObject
                 /\ chains[n].links[p].title = chains[n].title
                 /\ chains[n].links[p].page = p
      BY <2>0, <2>3, <3>1 DEF Contents, Collected
    <3> QED BY <2>3, <3>1 DEF PagesComplete
  <2>5. PagesOwn
    <3>1. ASSUME NEW n \in DOMAIN chains, Exists(Toon(n)), Alone(n), NEW p \in Page
          PROVE  /\ chains[n].links[p].object = [by |-> n, image |-> chains[n].asked[p]]
                 /\ storage[chains[n].title][p] = [by |-> n, image |-> chains[n].asked[p]]
      <4>1. OwnFolder(n, chains[n], storage[chains[n].title])
        BY <2>0, <3>1 DEF Contents
      <4> QED BY <2>3, <3>1, <4>1 DEF OwnFolder, OwnObject
    <3> QED BY <2>3, <3>1 DEF PagesOwn
  <2> QED BY <2>2, <2>4, <2>5 DEF PagesTruthful
<1> QED BY <1>1, StudioAlways, PTL

\* Until an upload completes, the pages that will be uploaded are the ones
\* drawn, and the set-up shows them (cartoonLoad, cancelHandle, configureVC).
THEOREM SetUpCorrect == Spec => []SetUpTruthful
<1>1. ASSUME StudioInv PROVE SetUpTruthful
  BY <1>1 DEF StudioInv, DraftsInv, SetUpTruthful
<1> QED BY <1>1, StudioAlways, PTL

\* The indicator covers an upload screen only on account of an upload tapped
\* there that was not answered (successHandle, vcDidFinish).
THEOREM LoaderCorrect == Spec => []LoaderExplained
<1>1. ASSUME StudioInv PROVE LoaderExplained
  <2>1. \A v \in 1..visits : v \in Nat
    BY <1>1, StudioAssumption DEF StudioInv, ScreensOK
  <2> QED BY <1>1, <2>1 DEF StudioInv, LoaderInv, LoaderExplained
<1> QED BY <1>1, StudioAlways, PTL
=============================================================================
