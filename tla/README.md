# Toontagram in TLA+

Toontagram is an iOS application (Swift, UIKit) for drawing, publishing and
reading short cartoons. There is no server code of its own: the screens call
small services under `src/Toontagram/Toontagram/API`, and those call Firebase
(Firestore, Auth, Storage; vendored under `src/Toontagram/Pods`). The
repository has no tests and no Firestore rules, and its README only lists
features; everything below is taken from the code.

What can go wrong in such a program is not in any one function. It is in the
order of taps, completion handlers, late answers, resent writes and restarts.
That is what these modules are about.

Paths below are relative to `src/Toontagram/Toontagram` (the application) or,
where they begin with `Firestore/`, to `src/Toontagram/Pods/FirebaseFirestore`.

## 1. The parts of the system

| part | state it keeps | operations | what makes it correct |
|---|---|---|---|
| Firestore client, writes (`Firestore/core/src`: `SyncEngine`, `LevelDbMutationQueue`, `RemoteStore`, `WriteStream`) | a queue of batches per account on disk, the pipeline, the write stream with its token requests and timers, completion handlers in memory | `setData`, `updateData`, `delete`; resend after a reconnect; changes of account and network; restart | writes take effect in program order; each handler hears of its own write, once, and the truth; everything queued is sent |
| Firestore client, reads (`EventManager`, `View`, `LocalStore`, `RemoteStore`, `WatchChangeAggregator`, `OnlineStateTracker`) | listeners, the view of a query, its documents in limbo, targets and what was collected for them, the cache, what is believed of the connection | `getDocuments`, `addSnapshotListener`; resume; existence filters; limbo lookups; restart | what is handed over as synced is what the server held; nothing is handed over twice or forgotten |
| Likes and the cartoon screen (`API/CartoonService`, `VIEWCONTROLLER/other/CartoonViewController`, `VIEW/CartoonMIDCell`) | counter in `cartoons/c`, `cartoon-likes/u`, `users/u/user-likes/c`; the controller's and the cell's copy of the cartoon | like, unlike, check, edit, delete | the two places of a like agree with the last tap; the heart shows it; edits and deletions stand |
| Notices (`API/FeedBackService`) | `feedback/artist/user-feedback` | `uploadFeedBack`, `fetchFeedBack` | one notice per foreign like, none from oneself |
| Fans and the profile screen (`API/UserService`, `Tab/ProfileCollectionViewController`) | `star/u/user_star/a`, `fans/a/user_fan/u`, the header's user | fan, unfan, check, counts | both places and the header agree with the last tap |
| Feed (`CartoonService.updateMainUserAfterFan`, `updateMainUserAfterCartoon`) | `users/u/user-feed/c` | fill or empty after a tap, spread after an upload | a fan's feed holds all of the artist's cartoons, anybody else's none |
| Home (`Tab/HomeCollectionViewController`, `CartoonService.fetchCartoonFeed`) | the list of ALL, one list per category, the refresh control | fetch, merge, refresh, select | nothing twice, nothing in ALL that its category lacks, every cartoon found is listed |
| Set-up, drawing, upload (`SetUp-`, `Draw-`, `UploadViewController`, `API/ImageService`) | drawn pages in the user defaults, five images in Storage, which screen is on top, the shared progress indicator | draw, save, upload, cancel | an upload ends on a refreshed home; drafts survive until used |
| Tab bar controller and session (`Tab/RootTabBarController`, `Auth/*`, `API/AuthService`) | the signed-in user, the five tabs | login, logout, register, fetch of the user | one session's data is never shown in another's |
| Edit of a cartoon (`EditViewController`) | a form | edit | the new text is shown and stays |
| Feedback screen (`Tab/FeedBackTableViewController`, `VIEW/FeedBackCell`) | rows with a fan flag, the reused cells' copies of them, the shared progress indicator | fetch, check each row, fan and unfan from a row, open a profile or a cartoon | a row's flag is its account's, the button shows it |
| Comments (`API/CommentService`, `CommentCollectionViewController`) | the listener's list | upload, listen | each comment once, newest first |
| Search (`SearchViewController`) | all users, filtered users | filter, select | a tap opens the row that is shown |

How they interact: screens pass values (Swift structs, so snapshots) down the
navigation stack and delegates or completion closures back up; all callbacks
run on the main thread, one at a time; screens of one device share documents
through the client's local view, devices share them through the server.

What is hard here:

* one user action is a chain of writes in which each step is started by the
  completion handler of the one before, so it can stop half-way;
* handlers are lost by a restart while the writes they hang on survive it;
* after a reconnect the client sends again what the server applied already;
* counters are computed from snapshots that may be old;
* answers to reads come late, in any order, and race the user's next taps;
* a query answered from the cache shows part of a collection;
* error paths return without a completion, and one progress indicator, shared
  by all screens, shows whichever of them asked first;
* a completion dismisses what is on top of its screen by then, and signing in
  or out does not change the tabs: only a later answer does.

`PROJECT.json` lists these hazards one by one with the line where each bites
and the properties that watch it.

## 2. Modules

| module | models | uses |
|---|---|---|
| `Firestore` | the client as the screens see it: queue, stream, handlers, local view | |
| `Writes` | the client's write path in the detail of its C++ code; implements `Firestore` | `Firestore` (`INSTANCE ... WITH`) |
| `FirestoreProofs` | what a queue laid over documents comes to, and what the handlers on their way will do | `Firestore` |
| `WritesProofs` | theorems about `Writes`: the stream, the answers, the refinement, what is heard | `Writes` |
| `Listens` | the client's read path in the detail of its C++ code | |
| `ListensProofs` | theorems about `Listens`: types, limbo, answers awaited, assertions, what calls are handed | `Listens` |
| `Likes` | one cartoon, its likes, notices, edit, delete, the cartoon screen | `Firestore` |
| `LikesProofs` | theorems about the two places of a like, the cartoon's document (counter, deletion, edits), the author's notices and the checked heart | `Likes`, `FirestoreProofs` |
| `Fans` | one artist's profile screen, fans, feed, uploads | `Firestore` |
| `FansProofs` | theorems about both places of a fan, the header and the feed | `Fans`, `FirestoreProofs` |
| `Notices` | the feedback tab: rows, cells, checks, fan buttons | `Firestore` |
| `NoticesProofs` | theorems about the rows, the buttons and the indicator of the feedback tab | `Notices`, `FirestoreProofs` |
| `Home` | the home's fetches and lists, the end of an upload | |
| `Studio` | set-up, drawing and upload screens, drafts, images in Storage | `Firestore` |
| `StudioProofs` | theorems about the pages of a cartoon, what the set-up shows and the indicator | `Studio`, `FirestoreProofs` |
| `Session` | login, registration, logout, launch, the fetch of the account | `Firestore` |
| `TabsProofs` | theorems about `Session`, the tabs themselves, and about `Home`, the lists in them | `Home`, `Session`, `FirestoreProofs` |
| `MCWrites`, `MCListens`, `MCLikes`, `MCFans`, `MCNotices`, `MCHome`, `MCStudio`, `MCSession` | the model values of the instances | the above |

### Firestore

`pending[u]` is the mutation queue of account `u`'s device, `sent[u]` how much
of it the present stream delivered, `main[u]` the completion handlers waiting
for the main thread, `db` the server's documents. `Issue` is
`SyncEngine::WriteMutations`: writes join the queue at once. `Transmit` is the
write pipeline with its limit (`kMaxPendingWrites`, the constant `Window`):
the server applies a write when it arrives. `Acknowledge` is the answer, in
order, success or rejection (the application's handlers ignore the error, so
the two need not be told apart). `Reconnect` starts the stream afresh: all
that is unacknowledged will be sent again. `RestartClient` keeps the queue and
forgets the handlers (`SyncEngine::NotifyUser`: restored mutations have no
callbacks). `Reject` is a permanent error for the oldest write, and
`ChangeCredential` the fresh streams after another account signs in; each
account has a queue of its own on the device. `View` lays the queue over the server's documents
(`LocalDocumentsView`).

Abstractions. A read is answered from the server's current documents under the
queue, not from an older cached version; "the device is offline" appears as a
read that fails (`ReadFails`) or a query that finds part of the collection
(`AnswerFromCache`). A rejected write closes the real stream, so those behind
it are sent again; here they may also have been applied before the rejection
is handled, which only adds behaviours. A document is a record of the fields
that matter, or the empty record. No rules are in the repository: `Studio` and
`Session`, whose handlers look at the error, let any write be refused; the
handlers of `Likes` and `Fans` ignore it, and no write is refused there. Every
application write is a batch of one.

`ClientNext` is what all of this may do, with any write issued at any time: the
promise `Writes` is shown to keep.

### Writes

A step is one task of the client's worker queue. `queue[u]` is account `u`'s
mutation queue on disk, `nextId` the counter of batch ids all accounts share,
`callbacks` and `waiting` the completion handlers of writes and of
`waitForPendingWrites`, `main` those that are due. `pipeline` is
`write_pipeline_`, filled by `FillWritePipeline` from the batches behind the
last one's id. The stream's states are those of `Stream::State` (`Healthy`,
which only resets the backoff, is taken with `Open`). `tokens` holds the token
requests under way, each with the close count it captured:
`ResumeStartWithCredentials` discards one whose count is not the present one.
`wire`, `answers` and `closing` are the network, `db` and `server` the service.

`WriteMutations`, `WaitForPendingWrites`, `HandleCredentialChange`,
`ConnectivityChanged`, `DisableNetwork` and `EnableNetwork` are the calls;
`HandshakeComplete`, `MutationResult` and `StreamClosed` the stream's
callbacks; `TokenFails`, `ConnectionBreaks`, `ServerRefuses` and `Restart` the
faults; `IdleTimeout` and `BackoffElapsed` the timers. The application itself
calls neither `waitForPendingWrites` nor the network toggles; they are part of
the component and race everything else in it.

*Refinement.* `Implements` maps the queue to `pending`, the handlers that are
due to `main`, and the writes the server applied on its latest stream without
the client having heard to `sent`. It holds of every step that the abstract
client makes it or stutters: writes take effect in the order of the queue, a
handler is due at most once and with the truth. That is what entitles the
modules of the screens to build on `Firestore`. It is checked and proved.

Abstractions. The server sees the requests of one stream in their order, a new
handshake ends what an older stream may still do, any suffix of what was
written is lost when a stream ends, a restart drops what is on the wire, and
the backend ends a stream it refuses with an error status. The stream token,
its invalidation and the failure of a handshake with a permanent error are
left out. Everything is a `set` of one document: what tells writes apart here
is their order. `CutShort` says whether a request that cannot be written any
more may end the stream before the responses received are read
(`GrpcStream::OnOperationFailed`); only `writes_cut` lets it.

### Listens

One query for all documents of a collection, listened to by any number of
`get`s and listeners, and the single documents looked up to resolve its limbo.
A document is its version. `sync` is `RemoteStore` with
`WatchChangeAggregator`, the limbo bookkeeping of `SyncEngine` and
`OnlineStateTracker`; `store` is `LocalStore`; `view` the query's `View`.
`Ask` is the application's call; `RunTask` the worker queue, `Deliver` the main
thread. `StreamOpens`, `StreamFails`, `OnlineTimeout`, `IdleTimeout`,
`RestartNetwork` and `Restart` are the life of the stream. `Receive` is
`OnWatchStreamChange` by the kind of the response: a target acknowledged,
removed, refused, current; a document changed; an existence filter; a snapshot,
which goes through `RaiseWatchSnapshot`, `ApplyRemoteEvent` and the limbo.
`Change`, `Answer` and `Push` are the server.

Assumptions about the server, from how the client treats it: it answers every
request, in order; a snapshot is consistent for all the targets that are
current; a filter is sent for a target that is resumed, or for a single
document. `broken` is the conjunction of the `HARD_ASSERT`s met so far.

Left out: local writes under way (module `Writes`; the overlay on a view), limit
queries and several queries at once, garbage collection, the age after which a
resume token is written although nothing changed, disabling the network, and the
target change that resets a target. The branch for a snapshot older than the
last is there but never taken, since the server's versions only grow. Backoff
is not delayed: a stream starts again at once. Liveness is stated as `Settles`,
of the states in which nothing is under way any more.

Three chains of events lead the code astray by itself; `tainted` records them
and `ViewTruthful` and `Settles` set them apart:
*resumed* (a listen starts with a resume token and keys that are not of one
version: after a mismatch the keys are dropped while the saved token stays),
*inherited* (a mismatch seen by one listen resets the target of the next), and
*refused* (a lookup in limbo that is refused removes a document that exists).
A fourth, *crossed* (a refused target while another of its answers is due), only
disturbs the count of answers awaited. A fifth, *abandoned*, was found by the
proof below: a lookup is refused while the view is not current (the client was
believed offline in between). `HandleRejectedListen` forgets the lookup and
makes up the event of a deleted document, but `View::UpdateLimboDocuments` does
nothing while the view is not current, so the document stays in limbo with
nobody to look it up until the view is current again. It takes three mishaps.
Nobody is shown anything wrong; `LimboSound` says less once it happened.

`ViewTruthful` speaks of what is on the screen: a synced view is what the server
held, what is shown is on disk, a current view withholds nothing, and nothing is
appended twice unless it left the view in between. `EventsOnce` speaks of the
way from the worker queue to the main thread and exempts nothing: no `get` is
answered twice, and who listens has been handed, or is about to be, all that the
view shows.

### Likes

A tap carries the **cell's** copy of the cartoon (`didTapLike` passes
`viewModel.cartoon`), the completion of the check writes the **controller's**
copy, whose `didSet` reloads the cell: hence `cell` and `vc`, and `Redisplay`
for a layout pass that hands the controller's copy to the cell again.
`listed` is the list's snapshot the screen was opened on. `TapLike`,
`TapUnlike`, `TapUnlikeRefused` are the three ways through
`cell(_:didLike:)`; `LikeStored`, `UnlikeStored`, `LikeMirrored` the handlers
that follow; `AnswerLikeCheck`/`Checked` and `AnswerEdited`/`Edited` the two
reads, split into answer and delivery so that taps and writes come in between.
A screen that was left ignores its answers (`Current`). After a deletion a new
tab bar controller is pushed over the screen; the account may go back to it.
Text stands for title, caption and type, and is the number of the edit. The
variables from `want` on are history.

### Fans

`TapFan`/`TapUnfan` start the chain star, mirror (`StarStored`,
`StarDeleted`), then header, notice and query (`Fanned`, `Unfanned`), then the
feed (`Filled`). `Upload` writes the cartoon and asks for the fans at once;
`Spread` enters the cartoon in their feeds. Queries of one device are answered
in the order asked: on one device they are the same query, which the client
listens to once. The images of an upload are stored before its first step
here. The feedback screen has fan buttons of its own; they are in `Notices`.

### Notices

The rows (`feedbacks`), the cells that show them (`cells`, reused: `Scroll` and
each new value of the rows hand them other rows) and the documents are three
copies of "I am a fan of". `Fetched` replaces the rows and checks the fans
among them; `Checked` looks the notice up when its answer comes; `Toggle`, the
last handler of a tap, flips the view model of a cell, whatever that shows by
then, and no row. `seen` is history: how many taps a copy knows of, which says
of which copies the code could be right; the taps for an account are counted in
`taps`, all of them in `tapped`. `Look`, `LookAnswered`, `Found` are
the reads of a profile or a cartoon behind the shared indicator, `OtherCall`
and `OtherReturns` what other tabs do with it.

Abstractions: the screens pushed over the table are left again at once;
comments are shown like likes; a fan's notice to the other account changes
nothing here.

### Home

`Listed`, `AnswerGet`, `Got` are the three stages of `fetchCartoonFeed`; `Got`
hands the whole collected list, sorted (`Collect`, `Sorted`), to `MergeLists`, which
is the completion of `fetchCartoon`: its loop (`Placed`) and its four branches
(`KindOf`, `Place`). `WantRefresh`
clears ALL only. `OpenSetUp` to `Uploaded` are the screens on top of the tabs.
`Uploaded` dismisses two screens, and UIKit may drop the second dismissal, so
either the tabs or the set-up is left; the new tab bar controller is presented
on a `tabBarController` that a presented screen does not have, so nothing
comes of it. The category on display changes no list and is left out.

### Studio

`drafts` is what the user defaults hold under the pages' keys, `cells` what the
set-up shows of it, `at` the screen on top. `Save` is `cartoonLoad`: it stores
the page, goes back and reloads the cells. `TapUpload` reads the pages
(`GetUserDefaultsData` leaves out the missing ones) and starts a chain;
`TapUploadIncomplete` is the same tap with a page missing, which indexes past
the array's end, so the process dies. A chain is a record: the screens it was
tapped on, the title, the images, how many are stored (`Stored`,
`StoreFails`), the links so far (`Linked`), the step. `StoreFails` cuts it,
except for the last page, whose error nobody looks at. `Uploaded` and `Refused`
are the two ways through the completion. `Uploaded` dismisses what is there to
dismiss (`DismissAfter`), erases the defaults and leaves a fetch by a tab bar
controller that is never shown (`orphans`), whose answer erases them again.

`loader` is the view of the one `JGProgressHUD`. It ignores a second `show`
while it is shown, and covers a view but not the navigation bar, so a covered
screen can still be cancelled or its upload tapped again. Upload screens are
never released (their menu's actions and the menu refer to each other), so an
indicator left on one stays. While it animates, a show is ignored and a
dismissal deferred; that half second is left out.

Abstractions: an image is the number of its `Save`; strokes, photographs and
clearing change nothing until the save and are left out, and so are caption and
category. An upload's entries in the feeds of fans are in `Fans`.

### Session

`auth` is the account signed in, `shown` the one the tabs were made for,
`fetches` the fetches of accounts under way. `FetchAnswered` is the `didSet` of
`user`, which replaces the tabs, whatever screen is over them. `LogInSucceeds`
and `Registered` put up an alert, if their screen is on top and shows none
(UIKit refuses the presentation otherwise); `AuthComplete` is its button: it
starts a fetch of whoever is signed in by then and dismisses. A registration
(`regs`) goes through `ImagesStored`, `AccountMade` at the service,
`AccountCreated` at the device, which signs the account in and queues its
document, and `Registered`; `RegistrationCut` stands for the errors, none of
which reaches the completion. `Alive` says which views still exist, since the
indicator refers to its view weakly and login and registration screens, unlike
upload screens, are released.

Abstractions: the two pictures of a registration are stored in one step, since
nothing can be seen of the steps between; an account is known by its identity,
so a wrong password is one of the failures of a login. Editing the profile,
which puts a second tab bar controller over the first, is left out.

### What the code does otherwise

Known from the models and not stated as properties, because the code does
otherwise: after a refresh ALL gets back only what the categories did not hold
already; a cartoon that changed is listed again beside its old value; the
refresh control turns for ever over an empty collection or after a failed
read; the counter of likes can fall behind the likes; an upload that completes
after its screen was left dismisses the drawing screen or a second upload and
erases pages drawn since; a chain that is cut leaves its indicator; two uploads
with one title mix their pages; after a lost or an overtaken fetch the tabs
remain another account's; an account whose registration was cut before its
document is signed in at every launch and never gets tabs; a fan button of a
notice flips the copy of a cell that shows another notice by then, and the
row keeps the old flag; a read of a deleted cartoon leaves the indicator. In
the client: the five chains of `tainted` above; and the timer for "offline" is
not armed for a second `get` while the stream of a first one still starts.

## 3. Runs

All runs say `CHECK_DEADLOCK FALSE`: an application nobody touches stops, and
the bounds on taps, visits, calls and faults are reached.

| run | question | instance | distinct states |
|---|---|---|---|
| `likes_solo` | do both places of a like, the heart and the last tap agree, and does the last tap arrive? (`TypeOK`, `LikeRecorded`, `MirrorAgrees`, `CheckTruthful`, `LikeArrives`) | 1 account, window 3, 3 taps, 2 visits, 1 restart | 239 thousand |
| `likes_pair` | do two accounts, an edit or a deletion leave counter, notices, text and document sane? (`LikeBounded`, `NoticesMatchLikes`, `EditKept`, `NoResurrection`) | 2 accounts, window 1, 1 tap and visit each, 1 edit or 1 deletion | 3.2 million |
| `likes_comment` | does a checked, filled heart always unlike, as the comment says? (`CheckedHeartUnlikes`, **violated**) | 1 account, 2 taps, 2 visits | |
| `fans` | do the star, the artist's list of fans, the header and the feeds end as the last tap asked? (`PlacesAgree`, `HeaderTruthful`, `FeedAgrees`, `FeedArrives`) | 1 artist, 1 reader, window 1, 3 taps, 2 visits, 1 upload, 1 restart or cached answer, 4 acts in all | 589 thousand |
| `home` | do overlapping fetches keep the lists sane, and is everything found listed? (`KindsAgree`, `ListsSound`, `ListedEventually`) | 2 cartoons, 2 types, 2 fetches, 1 upload, 1 change, deletion or failed read | 409 thousand |
| `home_upload` | does an upload end with a refresh, as the comment says? (`UploadRefreshes`, **violated**) | 1 cartoon, 2 fetches, 1 upload | |
| `studio` | does a stored cartoon have its own pages, is the indicator accounted for, does the set-up tell the truth, and does an upload end? (`PagesTruthful`, `LoaderExplained`, `SetUpTruthful`, `UploadArrives`) | 2 pages, 2 titles (symmetric), 3 drawings, 2 set-ups, 2 upload screens, 2 uploads, 6 acts in all, 1 failure, restart or foreign object | 753 thousand |
| `session` | do the tabs follow the account, and does a registration end with a document? (`TypeOK`, `TabsFollow`, `AccountDocumented`, `LoginExplained`, `TabsArrive`, `RegistrationEnds`) | 2 accounts, one to register, 4 screens, 3 logins, 1 registration, 1 failure, 1 restart | 120 thousand |
| `notices` | are the rows' flags, the buttons of reused cells and the indicator right? (`RowsTruthful`, `ButtonTruthful`, `LoaderExplained`) | 2 senders, 3 notices, 2 cells, window 1, 2 fetches, 2 taps, 2 events elsewhere | 1.4 million |
| `writes` | is the write path sound, does it tell the truth, does it drain, and is it the client the screens are modelled on? (`AnswersMatch`, `StreamSound`, `HeardTruthful`, `WritesLand`, `Implements`) | 2 accounts, window 2, 3 writes, 2 calls, 1 fault | 148 thousand |
| `writes_cut` | is a write reported as refused one the server refused, as the comment says? (`RefusalTruthful`, **violated**) | 1 account, window 3, `CutShort` | |
| `listens` | is a synced view what the server held, is the bookkeeping exact, is nothing forgotten? (`ViewTruthful`, `OutstandingExact`, `LimboSound`, `AssertsHold`, `Settles`, `EventsOnce`) | 2 documents, 2 listeners, 1 lookup at a time, 3 mishaps, 1 response on the wire | 1.1 million |

A component's type invariant is the first conjunct of one of its composite
properties where it is not listed by itself: of `PlacesAgree` in `Fans`, of
`ListsSound` in `Home`, of `PagesTruthful` in `Studio`, of `RowsTruthful` in
`Notices`, of `StreamSound` in `Writes`, of `LimboSound` in `Listens`.

The bounds are named constants, checked in guards; `MaxFaults`, `MaxMishaps`
and `MaxActs` bound faults, and the acts of a user, taken together. They are
enough for what the runs ask: a like and its mirror need a window of two to be
on the wire with another write, three taps make a like, an unlike and a like
overlap, two visits make the handlers and answers of the first come due on the
second, two accounts start from the same stale counter, and a single restart,
reconnect (not bounded where it is not a fault), deletion or edit already races
everything else. Two constraints keep runs small: in `likes_pair` the author
edits or deletes, not both, and in `listens` a mishap befalls at most one `get`
and one listener, a second one only a collection that never held a second
document, and a third one call alone.

The wire limit of the code is ten; no chain here has more than ten writes in
one go, and the smaller windows are the harder ones, since they delay writes.
Three writes with a window of two have a write that waits for room, in one
account's queue or in two; two calls make an account change and change back.
Two documents are one that is in limbo and one that is not. Two pages instead
of five have a first and a last one, which is what the code tells apart; three
drawings redraw a page under an upload; two uploads are on one form, with two
titles or with one (on two forms they take seven acts, one more than the run
has, and are left to the theorems of `StudioProofs`, which have no such bound).
Two cells and three notices leave one row without a cell.

Each property of a passing run is also shown to depend on the code: for each
there is a variant of a modelled operation (a dropped guard, a forgotten
handler, a query that does not see local writes) beside the definition in its
module, marked "A plausible slip", under which the run finds it violated.

Fairness (`likes_solo`, `fans`, `home`, `studio`, `session`, `writes`). The
main thread and the client's worker queue run what is due and transmit what is
queued: weak fairness of `Client`, since nothing but a restart takes such a
step away once it is possible. In the modules over `Firestore` an
acknowledgement is strongly fair: a stream may break again and again before an
answer arrives, but the client reconnects with backoff for ever, so it is not
the case that every answer is lost. In `Writes`, where breaks are faults and
bounded, weak fairness of the client's steps (tokens, backoff, callbacks) and
of the server's is all it takes. Queries, reads and the calls of Storage and
Auth are answered (with an error, possibly: a failure ends the chain). Nothing
is assumed of the user: no tap, visit or refresh is fair.

### What the violated runs show

* `likes_comment`. The comment at `API/CartoonService.swift:71-72` says that
  an unlike did not execute because the user's like had not been fetched, and
  that running the check first made it execute. The check fills in `didLike`
  only. The guard of `unLikeCartoon` (line 85) reads the counter of the same
  snapshot: like a cartoon from a list that counts zero likes, leave, open it
  from that list again, wait for the check; the heart is filled, a tap on it
  flips the heart and writes nothing.
* `home_upload`. The comment at `Tab/RootTabBarController.swift:99-104` calls
  `vcDidFinish` the method that runs after an upload and refreshes the home.
  It is called from the set-up's cancel only; the upload's completion
  (`SetUpViewController.swift:174-181`) goes another way.

* `writes_cut`. The comment in `RemoteStore::HandleWriteError` takes the error
  that ends a stream to mean that "the request itself was the problem", so the
  oldest batch is refused. But `GrpcStream::OnOperationFailed` ends the stream
  at whichever operation fails first. Where a further request was still being
  written when the server closed the stream, that is the write, and responses
  the client had received for earlier batches are dropped: the batch reported as
  refused is one the server applied, and the refused one is sent again.

## 4. What is proved

### Likes

`LikesProofs` proves, for every set of accounts, every window and all bounds:

* `TypeCorrect`: `Spec => []TypeOK`. Besides types this says that counters stay
  natural numbers (the guard of `unLikeCartoon` is what it takes) and that a
  device queues writes for its own like only.
* `Inductive`: `Spec => []IInv`, the strengthening below.
* `RecordCorrect`: `Spec => []LikeRecorded`. Once a device's queue has drained,
  the cartoon's record of the like is what the last issued tap asked for.
* `MirrorCorrect`: `Spec => []MirrorAgrees`. On a settled device no restart has
  torn, the account's own list agrees too.

The assumptions are those of the modules: the window is a positive number, the
author is an account, the bounds are natural numbers, the model values of
absence (`NoDoc`, `Closed`, `Nothing`) differ from the data.

Neither property is inductive: both speak of drained queues only, and a state
with, say, an unlike at the end of the queue after the last tap liked would
satisfy them until it drains. The invariant says at every moment what the rest
of the queue will come to. For each account (`LikeInv`):

1. *Reached*: of the writes this stream has delivered, the last one to each of
   the two documents has taken effect. (Needed for the acknowledgement: the
   write that leaves the queue must already have decided the document.)
1. *Ends*: the last queued write to the record is a `setData` just in case the
   last tap was a like; with no such write queued the server's document says
   so.
2. *MirrorComing*, unless a restart tore the chain: the last handler owed by the
   queue of writes asks for what the last tap did; if none is owed there, the
   last one on the main queue does; if none is owed at all, the mirror's own
   queued writes end so.

A tap appends a write and an owed handler (2, 3). `Transmit` extends *Reached*.
`Acknowledge` moves a handler from the queue of writes to the main queue: the
heart of the proof is that this keeps the *last* owed handler. `Reconnect`
shrinks *Reached* to nothing. `Restart` either owes nothing or sets `torn`. All
other steps are quiet (`QuietStep`): they neither touch the two documents nor
owe a handler, so each needs only to be seen quiet. The overlay of a queue is
a recursive function over `0..Len(queue)`; that it is well typed needs that
the function exists, which is proved from the least element of the set of
lengths where it would not.

Of the cartoon's own document it proves:

* `CounterBounded`: `Spec => []LikeBounded`. The counter never exceeds the
  number of likes issued. It is written from copies of copies, so the invariant
  (`CountInv`) bounds all of them: in the document, the list, the controller,
  the cell, the queued writes and the answers on their way.
* `StaysDeleted`: `Spec => NoResurrection`. No queued write can create the
  document, since all of them are updates or deletions, and a step changes the
  documents by such a write only.

* `EditsKept`: `Spec => []EditKept`. Its invariant (`EditInv`) is *Reached* and
  *Ends* once more, for the author's queue and the text: the last edit queued is
  the author's last, or with none queued the document carries it; no other
  device queues an edit; a read asked for after an edit and answered under the
  author's queue carries at least that edit.

Of what follows a like it proves, with the lemmas on links (`Came` and so on)
that the next part describes:

* `NoticesCorrect`: `Spec => []NoticesMatchLikes`. Per account and tap,
  `NoticeInv` says where the notice is: a handler of the chain hangs on a
  queued write or waits on the main queue, or the notice's own write is queued,
  or it exists (`NoticeComing`). One of these only for a tap that liked, and,
  unless the device restarted, one of these for each such tap of another
  account; and what this stream delivered of it exists, which is what an
  acknowledgement relies on.
* `CheckCorrect`: `Spec => []CheckTruthful`. On the visits it speaks of no
  write to the account's own list is queued, no handler is due that would queue
  one, the list has what was last asked for, and the answers on their way say
  so (`CheckInv`). That such a visit begins so is `MirrorCorrect`; that an answer
  given during it says so is what the overlay of a queue comes to (`OverlayEnds`).

### Fans

`FansProofs` proves, for every set of accounts, every window and all bounds:

* `TypeCorrect` and `PlacesCorrect`: `Spec => []PlacesAgree`: the types, the star
  (*StarsAgree*, restarts included) and the artist's list (*FansAgree*).
* `HeaderCorrect`: `Spec => []HeaderTruthful`.
* `FeedCorrect`: `Spec => []FeedAgrees`.

A tap starts a chain: the star's write, its handler, the fan's write, its
handler, a query, its answer, the feed's writes. Several taps may be under way
one behind the other. So the invariants speak of every link: the last handler
of a kind that is still to run means what the last tap asked for, whether a
queued write carries it or it came due (`Leads`); once none of the kind is left
(`Came`) the next link does; after the last link the queue of writes comes to
the wanted documents (*Reached* and *Ends* as in `Likes`). One lemma per
change of a queue keeps such a link (`LeadsPush`, `LeadsMove`, `LeadsPop` and
so on in `FirestoreProofs`), so each action needs only to be seen as one.

* `StarInv` has one link, the queue of writes itself: a star is written by the
  tap, not by a handler, so a restart loses nothing of it.
* `FanInv` has two links: the star's handlers, then the fan's document.
* `HeaderInv` follows the chain of the visit that shows the profile, since a
  handler shows the header of its own visit only: the star's handlers, then
  those that tell the header, the late checks among them (a check says what the
  device sees of the star, which is what the last tap asked for, `StarInv`),
  then the header. That handlers name no visit yet to come is `VisitsInv`.
* `FeedInv` has two modes. Either the reader's device does nothing about the
  feed, and then the feed is right up to what the artist's device is about to
  bring (`CalmFeed`: the query, its answer, the queued entries), or the artist's
  device is idle, and then the reader's chain is right, link by link to the
  entries (`BusyFeed`). Where both are at work an upload and a tap met, which
  is what `raced` says. That a query finds all cartoons and no other is
  `ToonInv` and `FreshInv`: the artist's queue comes to the cartoons uploaded,
  and nothing anywhere concerns one that is not uploaded yet.

The proof of `HeaderCorrect` showed that the property holds without an exception
for restarts and cached answers, which it made at first.

### Studio

`StudioProofs` proves, for every number of pages, every set of titles and all
bounds (`StudioAssumption`; beside the bounds it says that an unused path is told
from a foreign object and "no view" from a screen):

* `PagesCorrect`: `Spec => []PagesTruthful`, which includes the types.
* `SetUpCorrect`: `Spec => []SetUpTruthful`.
* `LoaderCorrect`: `Spec => []LoaderExplained`.

The invariant (`StudioInv`) has four parts.

1. *ScreensOK* and *DraftsInv*: only a completed upload makes a controller nobody
   sees, so until one completes none of their answers can erase what was drawn.
2. *LoaderInv*, of every screen rather than the open one: the steps that bring a
   chain to its end are those that hide the indicator.
3. *Contents*, of the chains: what a chain stores is what was drawn when it was
   tapped (`DefaultsWhole`: when `getUserDefaultsData` finds as many pages as a
   cartoon has, each is found at its own number); a chain that asks for links has
   not got all of them; and a folder only one chain writes to holds nothing but
   its objects, of which a link names the one that is still there. A folder with
   anything in it has been written to by some chain or by another account, so a
   new title starts with an empty one.
4. *DocsOf* and *Owed*, of the way to the document: a document and a queued write
   are those of a chain with all its links, which do not change any more; each
   chain is owed one completion at most, by its queued write or by the handler
   that came due. The latter bounds the controllers nobody sees by the uploads
   that completed (*OrphansFew*), which is part of the types.

### Session

`TabsProofs` proves, for every set of accounts and every bound (the first
screen needs a number, so `MaxViews` is positive):

* `TypeCorrect`: `Spec => []TypeOK`. Besides types this says that the account
  signed in, the one whose tabs are shown and the torn ones exist, and that no
  alert is left over the tabs.
* `TabsFollowAccount`: `Spec => []TabsFollow`. Once no fetch is under way the
  tabs nobody covers are those of the account signed in, unless something
  went `astray`.
* `LoginCovered`: `Spec => []LoginExplained`. The indicator covers a login form
  only as long as a login from that form is being answered.
* `Documents`: `Spec => []AccountDocumented`. An account has its document, at
  the service or in its queue, or its registration is about to write it, unless
  it was cut between the two.

`TabsFollow` says nothing while a fetch is under way or a screen covers the
tabs, so it is not inductive. The invariant (`IInv`) adds what happens before:

1. *Follow*: at the tabs somebody is signed in, and unless something went
   astray either the tabs are theirs and nothing is fetched, or exactly their
   fetch is under way. (`authComplete` fetches whoever is signed in when the
   alert is confirmed; with no other fetch under way, that is the only one.)
1. *SignedIn*: under the alert of a success somebody is signed in, or else
   `authComplete` would dismiss the login and fetch nobody. A login signs in
   in the same step. A registration shows its alert later than it signs in;
   only a log out could come between, and after a log out the registration
   screen on top is a newer one than the registration's (*Opened*: screens are
   numbered as they open).
2. *Owed*: a completion handler that is due, or hangs on a queued write,
   belongs to a registration that signed its account in. A restart empties
   both (`KeepQueues` keeps the writes and drops their handlers).
3. *Made*: an account that is fetched, or whose creation is answered, exists.

The other two need less. *Explained* says of a covered login form that its login
has not been answered, also while the tabs are on top, where `LoginExplained`
says nothing. *Documented* says where a document comes from while it is on its
way: queues hold profiles, each queue its own account's; what the stream has
delivered is stored, so that an acknowledgement takes nothing from the view; and
an account that is not torn has its document stored, queued or about to be
written (*Coming*).

### Writes

`WritesProofs` proves, for every set of accounts, every positive window and all
bounds (`BoundsAssumption`):

* `StreamCorrect`: `Spec => []StreamSound`. The types; with the network enabled
  the pipeline is the beginning of the present account's queue
  (`PipelineIsPrefix`); the stream is started whenever there is something to
  send and stopped by the idle timer only when there is not
  (`StoppedUnneeded`); a token that is not discarded finds the stream waiting
  (`TokensFresh`).
* `Inductive`: `Spec => []IInv`, the strengthening.

That the pipeline stays a beginning of the queue when `FillWritePipeline` goes
by the last id it retrieved needs *Numbered*: ids are positive and grow along
every queue, none exceeds the number of writes issued, and the counter is above
those of the present account's queue, also after it was loaded anew. That the idle timer and the tokens leave a stream as they
should needs to know what it was started for: a stream on its way up, or
waiting for its handshake, has something to send (*StartedNeeded*), and while the network is disabled none is
(*NetworkOff*). The least and greatest elements
the code's loops compute are found by well-founded induction on finite sets
(`Least`, `Greatest`).

It goes on from there, and proves of the same constants (with
`AbsentAssumption`: the value for "no document" is not the number of a write):

* `AnswersRight`: `Spec => []AnswersMatch`. The response the client takes for
  that of the first batch of its pipeline is the answer to that batch.
* `ClientImplements`: `Spec => Implements`, without `CutShort`.
* `HearsTheTruth`: `Spec => []HeardTruthful`, without `CutShort`.

`AnswersMatch` looks at one response. Why it is the right one lies on the wire
(*WireOK*): the requests of a stream are together behind its handshake, the
streams in their order, so what the server will have applied when it comes to
a request can be counted from the last handshake before it; and the request
is the write of that number in the queue of the account of that handshake. That
holds of the open stream because the pipeline is a beginning of the queue, and
goes on holding of a stream that was given up because a queue only loses its
head to an answer, and an answer is only heard when nothing older is left on
the wire.

For the refinement a registered handler is moreover that of a batch in the
queue (*HandlersOK*). So the handler a batch's id finds is its own, whatever
the counter was loaded with, and the queue the screens are shown is `Bar`, the
batches with their handlers. Then each kind of step is a step of `ClientNext` or
one no screen can tell: there is one lemma per kind (`Seen...`).

What is heard (*HeardOK*): a write is in one queue, once; what is due at the main
thread is of writes that are in no queue any more, or of waits for such;
who waits under the id of a batch waits for none behind it; and while a server
that closed the stream has not been heard, the write it refused is the one that
is answered next, whatever is answered before it. The last part is what fails with
`CutShort`: see `writes_cut`.

### Home

`TabsProofs` proves, for any types and all bounds (`HomeBoundsAssumption`; a
first fetch is allowed, as `viewDidLoad` starts one):

* `KindsCorrect`: `Spec => []KindsAgree`. What ALL shows its category's list
  shows too, and ALL is complete until a refresh clears it.
* `ListsCorrect`: `Spec => []ListsSound`. The types, no list shows one value
  twice, each fetch hands over its cartoons newest first.

The lists are sound because placing one cartoon keeps them so (*Sound*; ALL
repeats nothing since what it holds its category holds, and a value the
category holds is not placed again), and so placing a whole fetch, by induction
along it; the recursive function of `Placed` is shown to exist first. ALL is
cleared alone by a refresh, which keeps *Sound* but not *Covers*.

That a fetch's list is strictly ordered needs more than the sort: two values of
one cartoon have one time, and `contains` compares values, so it would let the
second in. *AskedOnce* says that a cartoon of a fetch is asked for, waiting for
the main thread, or collected, and never two of these, because the list of ids
is answered once. `Sorted` chooses an order of the places; that there is one is
shown by inserting the new cartoon before the first older one. (It is written
out, with the prover in mind, for which `SortSeq` has no definition.)

### Notices

`NoticesProofs` proves, for any accounts, any finite set of cells and all bounds
(`NoticesAssumption`; a first fetch is allowed, as `viewDidLoad` starts one, and
the notices there at first are within their bound):

* `RowsCorrect`: `Spec => []RowsTruthful`, types included.
* `ButtonCorrect`: `Spec => []ButtonTruthful`.
* `LoaderCorrect`: `Spec => []LoaderExplained`.

Both properties of copies look only at copies that know of every tap, and are
not inductive: a copy that is behind can come to know of every tap when it is
flipped. The invariant speaks of all copies at once by what the star of each
account *was to be after each tap so far* (`said`; the invariant says that there
is such a history, since the state does not keep it). Every copy that knows of
`k` taps says what the star was to be after `k`, in the rows, in the cells and in
the answers of checks on the main queue (*GoodRow*, *GoodAnswer*); a tap under
way that remembers where its copy stood reversed the star at that very tap
(*GoodTap*), in the queue of writes as on the main queue; and the star's queued
writes end with what the last tap asked for (*Ends*, *Reached*, as for the
likes). So the answer of a check, given from the queue laid over the documents,
is what was said last, and a flipped copy is right for one tap more. A new tap
or notice only adds to the history, which keeps all that was right right
(`Stays`). The rows and cells need no more than that each cell in sight is at a
row of the table and shows its notice.

### Listens

`ListensProofs` proves, for any number of documents, lookups at a time (one at
least), calls, mishaps and responses under way (`BoundsAssumption`):

* `TypesAndLookups`: `Spec => []LimboSound`, types included.
* `AnswersAwaited`: `Spec => []OutstandingExact`.
* `NoAssertFails`: `Spec => []AssertsHold`.
* `EachHandedOver`: `Spec => []EventsOnce`.
* `ViewIsOnDisk`: `Spec => []ShownIsCached`, the part of `ViewTruthful` that
  relates the client to itself.

The first three follow from one invariant, since none is inductive alone
(`ListensSound`). *ListensInv* is *ServerFits* (the server serves no target of a
stream that is not there), *ClientFits* and *CallsFit*:

1. *Sound* of `sync`: the state is typed; a stream is off only when nothing is
   listened to, and only an open one has requests and targets' states (*Conn*);
   the timer runs only while the connection is unknown and a stream is there or
   about to be; identifiers in use are older than the next (*Ids*); no key is
   looked up twice or both looked up and enqueued, and no more at a time than
   allowed (*Lookups*); what is modified or removed of a lookup was received
   (*Received*). This is what the asserts ask, each at a place where another
   part of the code must have seen to it. Unless *crossed*, it also says (*Exact*)
   that each target awaits as many answers as are in `requests` and `responses`,
   those of targets that are not listened to any more included, and that of such
   a target the last request, or its answer, is the one to remove it.
2. *ViewFits*: the target is active in `store` while the view is open, and then
   the keys the view takes the server to hold are the keys on disk; a current
   view's limbo is what it shows beyond them.
3. *LimboFits*: the targets listened to are the lookups under way and, while the
   view is open, the query's; what is looked up or enqueued is in the limbo of
   the view, and is all of it unless *abandoned*.
4. *CallsFit*: tasks and events are those of calls that were made, and while a
   call is on the view is open.

A change of limbo and the opening of a stream run through folds of whole
operators over sequences (`UpdateTrackedLimboDocuments`, `Pump`,
`StreamOpens`). The induction theorems of the library are out of the prover's
reach (they take an operator), so *Least* derives the least-number principle
from the well-foundedness of strict inclusion among finite sets, which is stated
with a relation, and *Climb* from it that what holds at the start of a fold and
is kept by each of its steps holds at the end. What each step keeps is a lemma
of its own (`StartResolution`, `TrackLimboChange`, `RemoveLimboTarget`,
`SendWatchRequest`).

The proof changed the model twice. `LimboExact` used to be false with three
mishaps, which the run did not reach: *abandoned*, above, is what the attempt to
prove it came down to. And two `CASE`s of `StopListening` and
`TargetAcknowledged` had overlapping guards, of which TLC takes the first and
logic any; their guards are disjoint now.

`EachHandedOver` needs more (*HandingInv*, inductive together with
*ListensInv*): a call is added by one task and hears nothing before
(*TasksOnce*); an error is the last a call hears (*EventsInOrder*); a `get` that
was answered is deaf, or nothing comes for it any more, so the second event that
the worker queue may send before the listener is removed is not handed over
(*HandedFits*); and what a listener of the comments lacks of the view is in an
event on its way (*AllCovered*), whose step is that an event tells of all that
is new, to all who were told of what was before.

### Only model-checked

Liveness (out of the prover's reach). In `Listens`: `Settles`, and of
`ViewTruthful` the three parts that compare the view with the server
(`SyncedTruthful`, `NoneWithheld`, `NoneTwice`). They relate the view to the
server's history through the versions of targets, resume tokens, filters and the
changes collected between two snapshots; see the plan.

## 5. Not modelled

* Layout, formatting, images and drawing, and third-party code other than the
  Firestore client and the progress indicator: Auth and Storage appear as
  answers that come or fail. Most of the repository's lines are such code
  (gRPC, BoringSSL, abseil, LevelDB and generated tables), which neither
  belongs to this program nor decides anything it relies on beyond what
  `wire`, `answers` and `closing` say.
* Search and the editing of the profile: see the plan.
* In the client: transactions, bundles, garbage collection, limit queries,
  several queries at once, the overlay of local writes on a view, indexes,
  encoding. The application uses no transactions, bundles or limits.
* The filling of the home's cells and the selection of a row, whose hazards
  are in `PROJECT.json` with the reason no property covers them.
* Several cartoons in `Likes` and several artists in `Fans`: the documents of
  different ones are disjoint and the code never relates them.
* Counts of fans and of likes on profiles, which are display only.

## 6. Plan

In this order, each with its runs and, where noted, proofs:

1. *TwoPlaces*: the abstract promise behind likes and fans, a record and its
   mirror driven by the last request, refined by `Likes` and by `Fans` through
   `INSTANCE ... WITH`.
2. *Session*, next: the edit of the profile and the second tab bar controller
   it presents; the comment at `LogInViewController.swift:15-16`, which takes
   the remains of the old account for solved.
3. *Search*: the filter and the selected row, against the comment above
   `cellForRowAt`. *Home rows*: cells filled by a queued block, the selected
   row.
4. *Listens*, next: the overlay of local writes on a view, `Listens` shown to
   give the reads the modules of the screens assume, and `SyncedTruthful` proved:
   what an active target's state says of a document has to be related to the
   server's history between the target's version and the token collected so far,
   along the responses under way.
