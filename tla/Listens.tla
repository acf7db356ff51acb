------------------------------- MODULE Listens -------------------------------
(***************************************************************************)
(* The read path of the Firestore client, in the detail of its C++ code:   *)
(* what a getDocuments and what a snapshot listener (the comments') are    *)
(* handed, by way of the listeners (EventManager, QueryListener), the view *)
(* of the query and its documents in limbo (SyncEngine, View), the cache   *)
(* on disk (LocalStore), the targets watched and the changes collected     *)
(* between two snapshots (RemoteStore, WatchChangeAggregator), and what is *)
(* believed of the connection (OnlineStateTracker).                        *)
(*                                                                         *)
(* One query, for all documents of a collection in some order, and the     *)
(* single documents that are looked up to resolve its limbo.  A document   *)
(* is its version.  The client's own writes are module Writes.             *)
(***************************************************************************)
EXTENDS Integers, Sequences, FiniteSets, FiniteSetsExt, SequencesExt

CONSTANTS
    MaxDocs,         \* documents of the collection
    MaxResolutions,  \* max_concurrent_limbo_resolutions_
    MaxListeners,    \* bound: getDocuments and addSnapshotListener calls
    MaxMishaps,      \* bound: failed streams, restarts, refusals, changes
    WireBound        \* bound: responses under way when the server goes on

ASSUME BoundsAssumption ==
    /\ MaxDocs \in Nat /\ MaxResolutions \in Nat \ {0}
    /\ MaxListeners \in Nat /\ MaxMishaps \in Nat /\ WireBound \in Nat

VARIABLES
    history,     \* history[v][d]: the version of document d, 0 if there is
                 \* none, in version v of the server's collection
    watched,     \* the targets of the stream the server serves
    responses,   \* on their way to the client
    sync,        \* RemoteStore, OnlineStateTracker, limbo resolutions
    store,       \* LocalStore
    view,        \* the query's View
    listeners,   \* the calls made, in order
    tasks,       \* calls on their way to the worker queue
    main,        \* events on their way to the main thread
    shown,       \* shown[l][d]: how often listener l appended document d
    tainted,     \* history: "resumed" once a listen resumed from keys that
                 \* are not those of its resume token, "inherited" once a
                 \* listen was watched anew for a mismatch of the one before,
                 \* "crossed" once a target was refused while another answer
                 \* was due for it, "refused" once a document was that the
                 \* server held, "abandoned" once a document was while the
                 \* view was not current, which leaves it in limbo
    mishaps

vars == <<history, watched, responses, sync, store, view, listeners, tasks,
          main, shown, tainted, mishaps>>

-----------------------------------------------------------------------------
(* Documents and targets                                                   *)

Doc == 1..MaxDocs
Query == 0                  \* the query's target; a document's is the document
NoDocs == [d \in Doc |-> 0]

Found(v) == [version |-> v, found |-> TRUE]
NoDocument(v) == [version |-> v, found |-> FALSE]
Invalid == NoDocument(-1)   \* a document that nothing is known of
NoUpdates == [d \in Doc |-> Invalid]

Sorted(S) ==
    CHOOSE q \in [1..Cardinality(S) -> S] :
        \A i, j \in 1..Cardinality(S) : i < j => q[i] < q[j]
In(docs) == {d \in Doc : docs[d] # 0}
Latest == Max(DOMAIN history)

\* GetRemoteKeys: what the client knows the server to hold for a target.
RemoteKeys(s, v, id) ==
    CASE id \in DOMAIN s.resolving ->
            IF s.resolving[id].received THEN {s.resolving[id].key} ELSE {}
      [] id = Query /\ v.open -> v.synced
      [] OTHER -> {}

-----------------------------------------------------------------------------
(* The state of a target between two snapshots                             *)

Fresh == [outstanding |-> 0, changes |-> [d \in Doc |-> "none"],
          token |-> 0, current |-> FALSE, dirty |-> TRUE]

StateOf(s, id) == IF id \in DOMAIN s.states THEN s.states[id] ELSE Fresh

With(f, id, e) == [i \in DOMAIN f \cup {id} |-> IF i = id THEN e ELSE f[i]]

Without(f, id) == [i \in DOMAIN f \ {id} |-> f[i]]

IsActive(s, id) == id \in DOMAIN s.listening /\ StateOf(s, id).outstanding = 0

WithState(s, id, state) == [s EXCEPT !.states = With(@, id, state)]

ClearPendingChanges(state) ==
    [state EXCEPT !.changes = Fresh.changes, !.dirty = FALSE]

UpdateResumeToken(state, token) == [state EXCEPT !.token = token, !.dirty = TRUE]

AddDocument(state, d, contained) ==
    [state EXCEPT !.dirty = TRUE,
                  !.changes[d] = IF contained THEN "modified" ELSE "added"]

RemoveDocument(state, d, contained) ==
    [state EXCEPT !.dirty = TRUE,
                  !.changes[d] = IF contained THEN "removed" ELSE "none"]

ChangesOf(state, kind) == {d \in Doc : state.changes[d] = kind}

-----------------------------------------------------------------------------
(* What is believed of the connection.  Only going offline is heard by     *)
(* views and listeners: GoOffline, below.                                  *)

\* A plausible slip: the timer runs on.
UpdateStateTimed(s, online) == [s EXCEPT !.online = online, !.failed = FALSE]

UpdateState(s, online) ==
    [s EXCEPT !.online = online, !.failed = FALSE, !.timer = FALSE]

HandleWatchStreamStart(s) ==
    IF s.failed THEN s
    ELSE [s EXCEPT !.online = "unknown", !.timer = TRUE, !.broken = @ \/ s.timer]

\* StartWatchStream, with a new WatchChangeAggregator.
StartWatchStream(s) ==
    HandleWatchStreamStart(
        [s EXCEPT !.stream = "starting", !.states = << >>,
                  !.updates = NoUpdates, !.mismatch = FALSE])

-----------------------------------------------------------------------------
(* Requests                                                                *)

\* A request on the open stream: its answer is awaited, the idle timer stops.
Request(s, id, request) ==
    WithState([s EXCEPT !.requests = Append(@, request), !.idle = FALSE],
              id, [StateOf(s, id) EXCEPT !.outstanding = @ + 1])

SendWatchRequest(s, id) ==
    Request(s, id, [op |-> "watch", id |-> id, target |-> s.listening[id].target,
                    token |-> s.listening[id].token])

\* A plausible slip: the answer is not awaited.
SendUnwatchRequestUnawaited(s, id) ==
    [s EXCEPT !.requests = Append(@, [op |-> "unwatch", id |-> id, target |-> Query,
                                      token |-> 0]), !.idle = FALSE]

SendUnwatchRequest(s, id) ==
    Request(s, id, [op |-> "unwatch", id |-> id, target |-> Query, token |-> 0])

\* RemoteStore::Listen.
Listen(s, id, target, token) ==
    LET added == [s EXCEPT !.listening =
                      With(@, id, [target |-> target, token |-> token])]
    IN  CASE s.stream = "off"  -> StartWatchStream(added)
          [] s.stream = "open" -> SendWatchRequest(added, id)
          [] OTHER             -> added

\* RemoteStore::StopListening.
StopListening(s, id) ==
    LET left == [s EXCEPT !.listening = Without(@, id),
                          !.broken = @ \/ id \notin DOMAIN s.listening]
        told == IF s.stream = "open" THEN SendUnwatchRequest(left, id) ELSE left
    IN  CASE DOMAIN left.listening # {} -> told
          [] DOMAIN left.listening = {} /\ s.stream = "open" -> [told EXCEPT !.idle = TRUE]
          [] OTHER                      -> UpdateState(told, "unknown")

-----------------------------------------------------------------------------
(* Limbo: documents of the view that the server does not report            *)

Resolving(s) == {s.resolving[id].key : id \in DOMAIN s.resolving}

StartResolution(s, key) ==
    Listen([s EXCEPT !.nextId = @ + 1,
                     !.resolving = With(@, s.nextId, [key |-> key, received |-> FALSE])],
           s.nextId, key, 0)

\* PumpEnqueuedLimboResolutions.
Pump(s) ==
    LET n == Min({Len(s.enqueued),
                  MaxResolutions - Cardinality(DOMAIN s.resolving)})
    IN  FoldLeft(StartResolution,
                 [s EXCEPT !.enqueued = SubSeq(@, n + 1, Len(@))],
                 SubSeq(s.enqueued, 1, n))

\* A plausible slip: what is enqueued is looked up after the next lookup.
TrackLimboChangeLater(s, key) ==
    IF key \in Resolving(s) \/ key \in Range(s.enqueued) THEN s
    ELSE [s EXCEPT !.enqueued = Append(@, key)]

TrackLimboChange(s, key) ==
    IF key \in Resolving(s) \/ key \in Range(s.enqueued) THEN s
    ELSE Pump([s EXCEPT !.enqueued = Append(@, key)])

\* A plausible slip: what is enqueued stays so.
RemoveLimboTargetEnqueued(s, key) ==
    LET ids == {id \in DOMAIN s.resolving : s.resolving[id].key = key}
    IN  IF ids = {} THEN s
        ELSE LET id == CHOOSE i \in ids : TRUE
             IN  Pump([StopListening(s, id) EXCEPT !.resolving = Without(@, id)])

\* A key is enqueued once.
RemoveLimboTarget(s, key) ==
    LET dequeued == [s EXCEPT !.enqueued = RemoveFirst(@, key)]
        ids == {id \in DOMAIN s.resolving : s.resolving[id].key = key}
    IN  IF ids = {} THEN dequeued
        ELSE LET id == CHOOSE i \in ids : TRUE
             IN  Pump([StopListening(dequeued, id) EXCEPT
                           !.resolving = Without(@, id)])

\* UpdateTrackedLimboDocuments, for a view whose limbo was old and is new.
UpdateTrackedLimboDocuments(s, old, new) ==
    FoldLeft(TrackLimboChange,
             FoldLeft(RemoveLimboTarget, s, Sorted(old \ new)),
             Sorted(new \ old))

-----------------------------------------------------------------------------
(* Views and listeners                                                     *)

NoView == [open |-> FALSE, docs |-> NoDocs, synced |-> {}, current |-> FALSE,
           limbo |-> {}, state |-> "none"]

\* View::ApplyChanges, once the target change is applied: the limbo is
\* determined while the view is current.
ApplyChanges(v, docs, synced, current) ==
    LET limbo == IF current THEN In(docs) \ synced ELSE v.limbo
    IN  [open |-> TRUE, docs |-> docs, synced |-> synced, current |-> current,
         limbo |-> limbo,
         state |-> IF current /\ limbo = {} THEN "synced" ELSE "local"]

\* Whether ApplyChanges makes a snapshot of the change from old to new.
HasSnapshot(old, new) == old.docs # new.docs \/ old.state # new.state

FromCache(v) == v.state = "local"

\* A get waits for the server while it may be reached; a listener is handed
\* what the cache has.
ShouldRaiseInitialEvent(listener, v, online) ==
    \/ ~FromCache(v)
    \/ online = "offline"
    \/ listener.kind = "listen" /\ v.docs # NoDocs

\* A get also hears of a change of the sync state.
ShouldRaiseEvent(listener, old, new) ==
    old.docs # new.docs \/ (listener.kind = "get" /\ old.state # new.state)

Event(l, old, new) == [listener |-> l, error |-> FALSE,
                       added |-> In(new.docs) \ In(old.docs)]

\* The listeners of ls that OnViewSnapshot hands the change to.
Notified(ls, old, new, online) ==
    {l \in DOMAIN ls :
        /\ ls[l].phase = "on"
        /\ IF ls[l].raised THEN ShouldRaiseEvent(ls[l], old, new)
           ELSE ShouldRaiseInitialEvent(ls[l], new, online)}

\* Their events; a first event presents all documents as added.
EventsFor(ls, heard, old, new) ==
    LET order == Sorted(heard)
    IN  [i \in DOMAIN order |->
            Event(order[i], IF ls[order[i]].raised THEN old ELSE NoView, new)]

Raised(ls, heard) ==
    [l \in DOMAIN ls |-> [ls[l] EXCEPT !.raised = @ \/ l \in heard]]

\* EventManager::OnViewSnapshots for the listeners ls.
OnViewSnapshots(ls, old, new, online) ==
    LET heard == IF HasSnapshot(old, new) THEN Notified(ls, old, new, online) ELSE {}
    IN  /\ main' = main \o EventsFor(ls, heard, old, new)
        /\ listeners' = Raised(ls, heard)

\* HandleOnlineStateChange(Offline): the view is not current any more, and
\* who still waits for the server is handed what the cache has.
GoOffline(online) ==
    LET new == IF view.current
               THEN ApplyChanges(view, view.docs, view.synced, FALSE) ELSE view
        heard == IF HasSnapshot(view, new)
                 THEN Notified(listeners, view, new, online) ELSE {}
        waiting == {l \in DOMAIN listeners \ heard :
                       listeners[l].phase = "on" /\ ~listeners[l].raised}
    IN  /\ view' = new
        /\ main' = main \o EventsFor(listeners, heard, view, new)
                        \o EventsFor(listeners, waiting, view, new)
        /\ listeners' = Raised(listeners, heard \cup waiting)

-----------------------------------------------------------------------------
(* The local store                                                         *)

\* ExecuteQuery: the documents the server was known to hold and those read
\* since the view was last free of limbo, or a scan if it never was.
ExecuteQuery(st, free) ==
    [d \in Doc |->
        IF st.cache[d].found /\ (free = 0 \/ d \in st.keys \/ st.read[d] > free)
        THEN st.cache[d].version ELSE 0]

\* PopulateDocumentChanges: the updates that are not outdated, and those
\* that are made up of a document that may not be read any more.
Applied(st, updates) ==
    {d \in Doc : updates[d] # Invalid
                 /\ (updates[d] = NoDocument(0) \/ updates[d].version > st.cache[d].version)}

\* LocalStore::ApplyRemoteEvent.
StoreRemoteEvent(st, event) ==
    LET changed == Applied(st, event.updates)
        known == st.active /\ Query \in DOMAIN event.changes
        c == event.changes[Query]
        moved == c.added \cup c.modified \cup c.removed # {}
        live == IF known /\ c.token > 0 THEN [st.live EXCEPT !.token = c.token] ELSE st.live
    IN  [st EXCEPT
            !.cache = [d \in Doc |-> CASE d \notin changed -> st.cache[d]
                                       [] event.updates[d] = NoDocument(0) -> Invalid
                                       [] OTHER -> event.updates[d]],
            !.read  = [d \in Doc |-> IF d \in changed THEN event.version ELSE st.read[d]],
            !.keys  = IF known THEN (@ \ c.removed) \cup c.added ELSE @,
            !.live  = live,
            !.saved = IF known /\ c.token > 0 /\ (moved \/ st.live.token = 0)
                      THEN live ELSE @,
            !.last  = IF event.version > 0 THEN event.version ELSE @]

-----------------------------------------------------------------------------
(* Remote events                                                           *)

\* SyncEngine::ApplyRemoteEvent: what is received of the documents in limbo.
ReceiveLimbo(s, event) ==
    LET ids == DOMAIN event.changes \cap DOMAIN s.resolving
        Has(id, kind) == event.changes[id][kind] # {}
        bad == {id \in ids :
                   /\ Has(id, "modified") \/ Has(id, "removed")
                   /\ ~s.resolving[id].received}
        Got(id) == Has(id, "added") \/ (s.resolving[id].received /\ ~Has(id, "removed"))
    IN  [s EXCEPT !.resolving = [id \in DOMAIN @ |->
                      IF id \in ids THEN [@[id] EXCEPT !.received = Got(id)] ELSE @[id]],
                  !.broken = @ \/ bad # {}]

\* SyncEngine::ApplyRemoteEvent: the store, the view, its limbo and the
\* listeners, in this order.
ApplyRemoteEvent(s, event) ==
    LET received == ReceiveLimbo(s, event)
        changed == Applied(store, event.updates)
        saved == StoreRemoteEvent(store, event)
        docs == [d \in Doc |-> IF d \notin changed THEN view.docs[d]
                               ELSE IF event.updates[d].found
                               THEN event.updates[d].version ELSE 0]
        told == Query \in DOMAIN event.changes
        c == event.changes[Query]
        synced == IF told THEN (view.synced \cup c.added) \ c.removed ELSE view.synced
        new == IF view.open
               THEN ApplyChanges(view, docs, synced,
                                 IF told THEN c.current ELSE view.current)
               ELSE view
        limboFree == view.open /\ HasSnapshot(view, new) /\ ~FromCache(new)
    IN  /\ view' = new
        /\ OnViewSnapshots(listeners, view, new, s.online)
        /\ sync' = [UpdateTrackedLimboDocuments(received, view.limbo, new.limbo)
                       EXCEPT !.broken = @ \/ (view.open /\ told /\
                                  ~(c.modified \subseteq view.synced \cup c.added))]
        /\ store' = IF limboFree THEN [saved EXCEPT !.live.free = saved.live.token]
                    ELSE saved

\* CreateRemoteEvent: a document looked up that was not sent does not exist;
\* then what has changed in each target since the last snapshot.
Gone(s, id) ==
    LET key == s.listening[id].target
    IN  /\ IsActive(s, id) /\ key # Query
        /\ s.states[id].current
        /\ s.updates[key] = Invalid
        /\ key \notin RemoteKeys(s, view, id)

RemoteEvent(s, version) ==
    LET gone == {id \in DOMAIN s.states : Gone(s, id)}
        changing == gone \cup {id \in DOMAIN s.states :
                                  IsActive(s, id) /\ s.states[id].dirty}
    IN  [version |-> version,
         changes |-> [id \in changing |->
            [added    |-> ChangesOf(s.states[id], "added"),
             modified |-> ChangesOf(s.states[id], "modified"),
             removed  |-> ChangesOf(s.states[id], "removed"),
             current  |-> s.states[id].current,
             token    |-> s.states[id].token]],
         updates |-> [d \in Doc |->
            IF \E id \in gone : s.listening[id].target = d
            THEN NoDocument(version) ELSE s.updates[d]]]

\* After a mismatch the query is watched anew, without a resume token.
Rewatch(s) ==
    SendWatchRequest(
        SendUnwatchRequest([s EXCEPT !.listening[Query].token = 0], Query), Query)

\* RaiseWatchSnapshot.
RaiseWatchSnapshot(s, version) ==
    LET event == RemoteEvent(s, version)
        taken == [s EXCEPT
            !.states = [id \in DOMAIN @ |-> IF id \in DOMAIN event.changes
                                            THEN ClearPendingChanges(@[id]) ELSE @[id]],
            !.updates = NoUpdates,
            !.mismatch = FALSE,
            !.listening = [id \in DOMAIN @ |->
                IF id \in DOMAIN event.changes /\ event.changes[id].token > 0
                THEN [@[id] EXCEPT !.token = event.changes[id].token] ELSE @[id]]]
    IN  ApplyRemoteEvent(IF s.mismatch /\ Query \in DOMAIN s.listening
                         THEN Rewatch(taken) ELSE taken, event)

-----------------------------------------------------------------------------
(* The client's steps: the calls of the application                        *)

\* What an earlier session left on disk is the collection one version ago, or
\* nothing.
Init ==
    /\ history \in {[v \in 0..2 |-> IF v = 0 THEN NoDocs ELSE docs[v]] :
                       docs \in [1..2 -> [Doc -> 0..2]]}
    /\ \A d \in Doc : /\ history[1][d] \in {0, 1}
                      /\ history[2][d] \in {0, 2, history[1][d]}
    /\ LET seen == IF history[1] = NoDocs THEN 0 ELSE 1
       IN  store = [cache |-> [d \in Doc |-> IF history[1][d] = 0 THEN Invalid
                                             ELSE Found(1)],
                    read |-> history[1], keys |-> In(history[1]),
                    saved |-> [token |-> seen, free |-> seen],
                    live |-> [token |-> 0, free |-> 0],
                    active |-> FALSE, last |-> seen]
    /\ watched = << >> /\ responses = << >>
    /\ sync = [stream |-> "off", idle |-> FALSE, listening |-> << >>,
               states |-> << >>, updates |-> NoUpdates, mismatch |-> FALSE,
               requests |-> << >>, online |-> "unknown", failed |-> FALSE,
               timer |-> FALSE, resolving |-> << >>, enqueued |-> << >>,
               nextId |-> 1, broken |-> FALSE]
    /\ view = NoView
    /\ listeners = << >> /\ tasks = << >> /\ main = << >>
    /\ shown = << >> /\ tainted = {} /\ mishaps = 0

serverVars == <<history, watched>>
appVars == <<shown, tainted, mishaps>>

Mishap == mishaps < MaxMishaps /\ mishaps' = mishaps + 1

\* getDocuments or addSnapshotListener on the main thread.
Ask(kind) ==
    /\ Len(listeners) < MaxListeners
    /\ LET l == Len(listeners) + 1
       IN  /\ listeners' = Append(listeners,
                  [kind |-> kind, phase |-> "asked", raised |-> FALSE,
                   muted |-> FALSE, handed |-> 0])
           /\ tasks' = Append(tasks, [op |-> "add", listener |-> l])
           /\ shown' = Append(shown, NoDocs)
    /\ UNCHANGED <<serverVars, responses, sync, store, view, main, tainted, mishaps>>

\* SyncEngine::Listen for the first listener of the query.
FirstListen(ls) ==
    LET resumed == [store EXCEPT !.active = TRUE, !.live = store.saved]
        new == ApplyChanges(NoView, ExecuteQuery(resumed, resumed.live.free),
                            resumed.keys, FALSE)
    IN  /\ store' = resumed
        /\ view' = new
        /\ OnViewSnapshots(ls, NoView, new, sync.online)
        /\ sync' = Listen(sync, Query, Query, resumed.live.token)
        /\ tainted' = IF resumed.keys = In(history[resumed.live.token]) THEN tainted
                      ELSE tainted \cup {"resumed"}

\* EventManager::AddQueryListener.
AddQueryListener(l) ==
    LET ls == [listeners EXCEPT ![l].phase = "on"]
        heard == IF ShouldRaiseInitialEvent(ls[l], view, sync.online) THEN {l} ELSE {}
    IN  IF view.open
        THEN /\ main' = main \o EventsFor(ls, heard, NoView, view)
             /\ listeners' = Raised(ls, heard)
             /\ UNCHANGED <<sync, store, view, tainted>>
        ELSE FirstListen(ls)

\* SyncEngine::StopListening's and HandleRejectedListen's common part.
CloseView(s, ls) ==
    /\ sync' = UpdateTrackedLimboDocuments(s, view.limbo, {})
    /\ store' = [store EXCEPT !.active = FALSE, !.saved = store.live]
    /\ view' = NoView
    /\ listeners' = ls

\* EventManager::RemoveQueryListener, of a get that was answered.
RemoveQueryListener(l) ==
    LET ls == [listeners EXCEPT ![l].phase = "off"]
    IN  /\ IF /\ listeners[l].phase = "on"
              /\ \A k \in DOMAIN ls : ls[k].phase # "on"
           THEN CloseView(StopListening(sync, Query), ls)
           ELSE listeners' = ls /\ UNCHANGED <<sync, store, view>>
        /\ UNCHANGED <<main, tainted>>

RunTask ==
    /\ tasks # << >>
    /\ tasks' = Tail(tasks)
    /\ CASE Head(tasks).op = "add"    -> AddQueryListener(Head(tasks).listener)
         [] Head(tasks).op = "remove" -> RemoveQueryListener(Head(tasks).listener)
    /\ UNCHANGED <<serverVars, responses, shown, mishaps>>

\* A plausible slip: the listener is removed, not muted.
DeliverUnmuted ==
    LET event == Head(main)
        l == event.listener
    IN  /\ main # << >>
        /\ main' = Tail(main)
        /\ listeners' = [listeners EXCEPT
               ![l].handed = @ + (IF listeners[l].kind = "get" THEN 1 ELSE 0)]
        /\ tasks' = IF listeners[l].kind = "get" /\ ~event.error
                    THEN Append(tasks, [op |-> "remove", listener |-> l]) ELSE tasks
        /\ shown' = [shown EXCEPT ![l] =
               [d \in Doc |-> @[d] + (IF listeners[l].kind = "listen"
                                         /\ d \in event.added THEN 1 ELSE 0)]]
        /\ UNCHANGED <<serverVars, responses, sync, store, view, tainted, mishaps>>

\* AsyncEventListener on the main thread: a get removes its listener and
\* mutes it; the comments append what was added.
Deliver ==
    LET event == Head(main)
        l == event.listener
    IN  /\ main # << >>
        /\ main' = Tail(main)
        /\ IF listeners[l].muted THEN UNCHANGED <<listeners, tasks, shown>>
           ELSE /\ listeners' = [listeners EXCEPT
                       ![l].handed = @ + (IF listeners[l].kind = "get" THEN 1 ELSE 0),
                       ![l].muted = listeners[l].kind = "get" /\ ~event.error]
                /\ tasks' = IF listeners[l].kind = "get" /\ ~event.error
                            THEN Append(tasks, [op |-> "remove", listener |-> l])
                            ELSE tasks
                /\ shown' = [shown EXCEPT ![l] =
                       [d \in Doc |-> @[d] + (IF listeners[l].kind = "listen"
                                                 /\ d \in event.added THEN 1 ELSE 0)]]
        /\ UNCHANGED <<serverVars, responses, sync, store, view, tainted, mishaps>>

-----------------------------------------------------------------------------
(* The client's steps: the stream                                          *)

\* OnWatchStreamOpen.
StreamOpens ==
    /\ sync.stream = "starting"
    /\ sync' = FoldLeft(SendWatchRequest, [sync EXCEPT !.stream = "open"],
                        Sorted(DOMAIN sync.listening))
    /\ UNCHANGED <<serverVars, responses, store, view, listeners, tasks, main, appVars>>

\* What the stream leaves behind when it ends.
Ended == [sync EXCEPT !.stream = "off", !.idle = FALSE, !.requests = << >>,
                      !.states = << >>, !.updates = NoUpdates, !.mismatch = FALSE]

\* HandleWatchStreamFailure, after a success: one more attempt may fail.
FailedOnce == [UpdateState(Ended, "unknown") EXCEPT !.broken = @ \/ sync.failed \/ sync.timer]

\* OnWatchStreamClose with an error, while targets are listened to or not.
StreamFails ==
    /\ sync.stream \in {"starting", "open"}
    /\ Mishap
    /\ watched' = << >> /\ responses' = << >>
    /\ CASE DOMAIN sync.listening = {} ->
               /\ sync' = UpdateState(Ended, "unknown")
               /\ UNCHANGED <<view, listeners, main>>
         [] DOMAIN sync.listening # {} /\ sync.online = "online" ->
               /\ sync' = StartWatchStream(FailedOnce)
               /\ UNCHANGED <<view, listeners, main>>
         [] DOMAIN sync.listening # {} /\ sync.online # "online" ->
               /\ sync' = StartWatchStream([Ended EXCEPT !.failed = TRUE,
                              !.timer = FALSE, !.online = "offline"])
               /\ IF sync.online = "offline" THEN UNCHANGED <<view, listeners, main>>
                  ELSE GoOffline(sync.online)
    /\ UNCHANGED <<history, store, tasks, shown, tainted>>

\* The online state timer of ten seconds.
OnlineTimeout ==
    /\ sync.timer
    /\ Mishap
    /\ sync' = [sync EXCEPT !.timer = FALSE, !.online = "offline",
                            !.broken = @ \/ sync.online # "unknown"]
    /\ GoOffline(sync.online)
    /\ UNCHANGED <<serverVars, responses, store, tasks, shown, tainted>>

\* The idle timer stops the stream without an error.
IdleTimeout ==
    /\ sync.idle
    /\ sync' = [UpdateState(Ended, "unknown") EXCEPT
                   !.broken = @ \/ DOMAIN sync.listening # {}]
    /\ watched' = << >> /\ responses' = << >>
    /\ UNCHANGED <<history, store, view, listeners, tasks, main, appVars>>

\* RestartNetwork, when the connectivity or the account changed.
RestartNetwork ==
    /\ Mishap
    /\ LET stopped == UpdateState(Ended, "unknown")
       IN  sync' = IF DOMAIN stopped.listening = {} THEN stopped
                   ELSE StartWatchStream(stopped)
    /\ watched' = << >> /\ responses' = << >>
    /\ UNCHANGED <<history, store, view, listeners, tasks, main, shown, tainted>>

\* The application ends and starts again with what is on disk.
Restart ==
    /\ Mishap
    /\ watched' = << >> /\ responses' = << >>
    /\ sync' = [UpdateState(Ended, "unknown") EXCEPT !.listening = << >>,
                   !.resolving = << >>, !.enqueued = << >>, !.nextId = 1]
    /\ store' = [store EXCEPT !.active = FALSE, !.live = [token |-> 0, free |-> 0]]
    /\ view' = NoView
    /\ listeners' = [l \in DOMAIN listeners |->
                        [listeners[l] EXCEPT !.phase = "off", !.muted = TRUE]]
    /\ tasks' = << >> /\ main' = << >>
    /\ UNCHANGED <<history, shown, tainted>>

-----------------------------------------------------------------------------
(* The client's steps: OnWatchStreamChange, by the kind of the response    *)

\* A plausible slip: what was collected before the last answer counts.
TargetAcknowledgedKeeping(s, id, removed) ==
    LET state == [StateOf(s, id) EXCEPT !.outstanding = @ - 1]
    IN  IF removed /\ state.outstanding = 0 THEN [s EXCEPT !.states = Without(@, id)]
        ELSE WithState(s, id, state)

\* A target was added or removed: one answer less is awaited, and if it was
\* the last, what was collected before it does not count.
TargetAcknowledged(s, id, removed) ==
    LET state == [StateOf(s, id) EXCEPT !.outstanding = @ - 1]
    IN  CASE state.outstanding # 0 -> WithState(s, id, state)
          [] state.outstanding = 0 /\ removed -> [s EXCEPT !.states = Without(@, id)]
          [] OTHER                 -> WithState(s, id, ClearPendingChanges(state))

TargetCurrent(s, id, version) ==
    IF ~IsActive(s, id) THEN s
    ELSE WithState(s, id, [UpdateResumeToken(StateOf(s, id), version) EXCEPT !.current = TRUE])

\* HandleDocumentChange, for the targets that hold the document now and
\* those that do not any more.
DocumentChanged(s, m) ==
    LET active == {id \in m.to \cup m.from : IsActive(s, id)}
        Change(id) == IF id \in m.to /\ m.doc.found
                      THEN AddDocument(StateOf(s, id), m.key, m.key \in RemoteKeys(s, view, id))
                      ELSE RemoveDocument(StateOf(s, id), m.key, m.key \in RemoteKeys(s, view, id))
    IN  [s EXCEPT !.states = [id \in DOMAIN @ \cup active |->
                                 IF id \in active THEN Change(id) ELSE @[id]],
                  !.updates[m.key] = IF active = {} THEN @ ELSE m.doc]

\* HandleExistenceFilter: a document that does not exist, or a query whose
\* number of documents is not the server's, which starts from nothing.
ExistenceFilter(s, id, count) ==
    LET state == StateOf(s, id)
        key == s.listening[id].target
        size == Cardinality(RemoteKeys(s, view, id)) + Cardinality(ChangesOf(state, "added"))
                - Cardinality(ChangesOf(state, "removed"))
        reset == [Fresh EXCEPT !.changes = [d \in Doc |->
                     IF d \in RemoteKeys(s, view, id) THEN "removed" ELSE "none"]]
    IN  CASE ~IsActive(s, id) -> s
          [] IsActive(s, id) /\ key # Query /\ count = 0 ->
                [WithState(s, id, RemoveDocument(state, key, key \in RemoteKeys(s, view, id)))
                    EXCEPT !.updates[key] = NoDocument(0)]
          [] IsActive(s, id) /\ key = Query /\ size # count ->
                [WithState(s, id, reset) EXCEPT !.mismatch = TRUE]
          [] OTHER -> s

\* ProcessTargetError: a target that is not listened to any more is ignored.
TargetRefused(s, id) ==
    LET left == [s EXCEPT !.listening = Without(@, id), !.states = Without(@, id)]
        on == {l \in DOMAIN listeners : listeners[l].phase = "on"}
        order == Sorted(on)
    IN  CASE id \notin DOMAIN s.listening ->
               sync' = s /\ UNCHANGED <<store, view, listeners, main>>
          [] id \in DOMAIN s.listening /\ id = Query ->
               /\ CloseView(left, [l \in DOMAIN listeners |->
                      IF l \in on THEN [listeners[l] EXCEPT !.phase = "off"]
                      ELSE listeners[l]])
               /\ main' = main \o [i \in DOMAIN order |->
                      [Event(order[i], NoView, NoView) EXCEPT !.error = TRUE]]
          [] id \in DOMAIN s.listening /\ id # Query ->
               ApplyRemoteEvent(
                   Pump([left EXCEPT !.resolving = Without(@, id)]),
                   [version |-> 0, changes |-> << >>,
                    updates |-> [NoUpdates EXCEPT ![s.resolving[id].key] = NoDocument(0)]])

\* A global snapshot, of all targets that are active.
GlobalSnapshot(s, version) ==
    LET active == {id \in DOMAIN s.states : IsActive(s, id)}
        told == [s EXCEPT !.states = [id \in DOMAIN @ |->
                    IF id \in active THEN UpdateResumeToken(@[id], version) ELSE @[id]]]
    IN  IF version >= store.last THEN RaiseWatchSnapshot(told, version)
        ELSE sync' = told /\ UNCHANGED <<store, view, listeners, main>>

Collect(s) == sync' = s /\ UNCHANGED <<store, view, listeners, main>>

Taints(s, m) ==
    {cause \in {"crossed", "inherited", "refused", "abandoned"} :
        \/ cause = "refused" /\ m.kind = "refused" /\ m.id \in DOMAIN s.resolving
              /\ history[store.live.token][s.resolving[m.id].key] # 0
        \/ cause = "abandoned" /\ m.kind = "refused" /\ m.id \in DOMAIN s.resolving
              /\ ~view.current
        \/ cause = "crossed" /\ m.kind = "refused" /\ StateOf(s, m.id).outstanding # 1
        \/ cause = "inherited" /\ m.kind = "snapshot" /\ s.mismatch
              /\ Query \in DOMAIN s.listening /\ ~IsActive(s, Query)}

Receive ==
    LET m == Head(responses)
        s == UpdateState(sync, "online")
    IN  /\ responses # << >>
        /\ responses' = Tail(responses)
        /\ CASE m.kind = "added"    -> Collect(TargetAcknowledged(s, m.id, FALSE))
             [] m.kind = "removed"  -> Collect(TargetAcknowledged(s, m.id, TRUE))
             [] m.kind = "refused"  -> TargetRefused(s, m.id)
             [] m.kind = "current"  -> Collect(TargetCurrent(s, m.id, m.version))
             [] m.kind = "change"   -> Collect(DocumentChanged(s, m))
             [] m.kind = "filter"   -> Collect(ExistenceFilter(s, m.id, m.count))
             [] m.kind = "snapshot" -> GlobalSnapshot(s, m.version)
        /\ tainted' = tainted \cup Taints(s, m)
        /\ UNCHANGED <<serverVars, tasks, shown, mishaps>>

-----------------------------------------------------------------------------
(* The server                                                              *)

\* Somebody creates, changes or deletes a document.
Change(d) ==
    /\ Mishap
    /\ \E v \in {0, Latest + 1} :
          /\ v # history[Latest][d]
          /\ history' = With(history, Latest + 1, [history[Latest] EXCEPT ![d] = v])
    /\ UNCHANGED <<watched, responses, sync, store, view, listeners, tasks, main,
                   shown, tainted>>

\* The oldest request is answered.  Of a target that is resumed the server
\* may not know any more which documents are gone; it sends their number.
Answer ==
    LET r == Head(sync.requests)
    IN  /\ sync.requests # << >>
        /\ sync' = [sync EXCEPT !.requests = Tail(@)]
        /\ \/ /\ r.op = "watch"
              /\ \E counts \in BOOLEAN :
                    /\ counts => r.token > 0 \/ r.target # Query
                    /\ watched' = With(watched, r.id,
                          [target |-> r.target, at |-> r.token,
                           current |-> FALSE, counts |-> counts])
              /\ responses' = Append(responses, [kind |-> "added", id |-> r.id])
              /\ UNCHANGED mishaps
           \/ /\ r.op = "watch" /\ Mishap
              /\ responses' = Append(responses, [kind |-> "refused", id |-> r.id])
              /\ UNCHANGED watched
           \/ /\ r.op = "unwatch"
              /\ watched' = Without(watched, r.id)
              /\ responses' = Append(responses, [kind |-> "removed", id |-> r.id])
              /\ UNCHANGED mishaps
        /\ UNCHANGED <<history, store, view, listeners, tasks, main, shown, tainted>>

Matching(w) == IF w.target = Query THEN Doc ELSE {w.target}
Counted(w) == w.counts /\ ~w.current

\* The documents target w has to hear of, and those it lost.
News(w) == {d \in Matching(w) : history[Latest][d] \notin {0, history[w.at][d]}}
Losses(w) == {d \in Matching(w) : history[Latest][d] = 0 /\ history[w.at][d] # 0}

ChangeMessage(d) ==
    [kind |-> "change", key |-> d,
     doc |-> IF history[Latest][d] = 0 THEN NoDocument(Latest) ELSE Found(history[Latest][d]),
     to |-> {id \in DOMAIN watched : d \in News(watched[id])},
     from |-> {id \in DOMAIN watched : d \in Losses(watched[id]) /\ ~Counted(watched[id])}]

\* What changed, then the counts, then who is current, then the snapshot.
Push ==
    LET behind == {id \in DOMAIN watched : ~watched[id].current \/ watched[id].at < Latest}
        changed == {d \in Doc : ChangeMessage(d).to \cup ChangeMessage(d).from # {}}
        counted == {id \in DOMAIN watched : Counted(watched[id]) /\
                       (Losses(watched[id]) # {} \/ In(history[Latest]) \cap Matching(watched[id]) = {})}
        joining == {id \in DOMAIN watched : ~watched[id].current}
        Count(id) == Cardinality(In(history[Latest]) \cap Matching(watched[id]))
        Each(S, Op(_)) == [i \in DOMAIN Sorted(S) |-> Op(Sorted(S)[i])]
    IN  /\ behind # {}
        /\ Len(responses) <= WireBound
        /\ responses' = responses \o Each(changed, ChangeMessage)
              \o Each(counted, LAMBDA id : [kind |-> "filter", id |-> id, count |-> Count(id)])
              \o Each(joining, LAMBDA id : [kind |-> "current", id |-> id, version |-> Latest])
              \o << [kind |-> "snapshot", version |-> Latest] >>
        /\ watched' = [id \in DOMAIN watched |->
                          [watched[id] EXCEPT !.at = Latest, !.current = TRUE]]
        /\ UNCHANGED <<history, sync, store, view, listeners, tasks, main, appVars>>

-----------------------------------------------------------------------------
Next ==
    \/ \E kind \in {"get", "listen"} : Ask(kind)
    \/ RunTask \/ Deliver
    \/ StreamOpens \/ StreamFails \/ OnlineTimeout \/ IdleTimeout
    \/ RestartNetwork \/ Restart
    \/ Receive
    \/ \E d \in Doc : Change(d)
    \/ Answer \/ Push

Spec == Init /\ [][Next]_vars

-----------------------------------------------------------------------------
(* Properties                                                              *)

Version == 0..(2 + MaxMishaps)
Document == [version : {-1} \cup Version, found : BOOLEAN]
TargetState == [outstanding : Int, changes : [Doc -> {"none", "added", "modified", "removed"}],
                token : Version, current : BOOLEAN, dirty : BOOLEAN]
Listening == [target : {Query} \cup Doc, token : Version]
Listener == [kind : {"get", "listen"}, phase : {"asked", "on", "off"},
             raised : BOOLEAN, muted : BOOLEAN, handed : Nat]

\* Types of the client's state; and at most max_concurrent_limbo_resolutions_
\* documents are looked up at a time.
TypeOK ==
    /\ sync.stream \in {"off", "starting", "open"}
    /\ sync.online \in {"unknown", "online", "offline"}
    /\ {sync.idle, sync.mismatch, sync.failed, sync.timer, sync.broken} \subseteq BOOLEAN
    /\ DOMAIN sync.states \cup DOMAIN sync.listening \cup DOMAIN sync.resolving \subseteq Nat
    /\ Range(sync.states) \subseteq TargetState
    /\ Range(sync.listening) \subseteq Listening
    /\ Range(sync.resolving) \subseteq [key : Doc, received : BOOLEAN]
    /\ Cardinality(DOMAIN sync.resolving) <= MaxResolutions
    /\ sync.updates \in [Doc -> Document]
    /\ Range(sync.enqueued) \subseteq Doc /\ sync.nextId \in Nat
    /\ store.cache \in [Doc -> Document] /\ store.keys \subseteq Doc
    /\ {store.live, store.saved} \subseteq [token : Version, free : Version]
    /\ store.last \in Version
    /\ view.docs \in [Doc -> Version] /\ view.synced \subseteq Doc /\ view.limbo \subseteq Doc
    /\ view.state \in {"none", "local", "synced"}
    /\ Range(listeners) \subseteq Listener
    /\ Range(main) \subseteq [listener : DOMAIN listeners, added : SUBSET Doc, error : BOOLEAN]
    /\ shown \in [DOMAIN listeners -> [Doc -> Nat]]

\* What the application may rely on when a snapshot is not "from cache": while
\* the view is synced, its documents are those the server held at the version
\* of the target's resume token, whatever was collected before a target was
\* acknowledged, dropped on a mismatch, looked up in limbo or read again after
\* a restart.  Three chains of events that the code does not guard against are
\* set apart: see tainted.
SyncedTruthful ==
    view.open /\ view.state = "synced" /\ tainted \subseteq {"crossed", "abandoned"} =>
        view.docs = history[store.live.token]

\* RecordPendingTargetRequest and HandleTargetChange: a target awaits as many
\* answers as there are requests and answers of its id under way, so that no
\* answer to an earlier listen of a target is taken for one to a later.
OutstandingExact ==
    sync.stream = "open" /\ "crossed" \notin tainted =>
        \A id \in DOMAIN sync.states :
            sync.states[id].outstanding =
                Cardinality({i \in DOMAIN sync.requests : sync.requests[i].id = id})
                + Cardinality({i \in DOMAIN responses :
                      responses[i].kind \in {"added", "removed", "refused"} /\ responses[i].id = id})

\* The limbo of the view, the lookups enqueued and under way, and the targets
\* RemoteStore listens to are kept in three classes: nothing is looked up that
\* is not in limbo, all that is in limbo is looked up or enqueued unless a
\* lookup was abandoned, and no target outlives what it was listened to for.
LimboExact ==
    /\ LET looked == Resolving(sync) \cup Range(sync.enqueued)
       IN  /\ looked \subseteq view.limbo
           /\ "abandoned" \notin tainted => looked = view.limbo
    /\ DOMAIN sync.listening =
          DOMAIN sync.resolving \cup (IF view.open THEN {Query} ELSE {})

\* The state is well typed, with no more lookups than may be under way, and
\* the lookups are those that the view calls for.
LimboSound == TypeOK /\ LimboExact

\* No HARD_ASSERT of the read path fails: the timer is not armed twice, a watch
\* stream fails with targets or stops without, a target that is stopped is
\* listened to, what is modified or removed of a target was received.
AssertsHold == ~sync.broken

\* Nothing is forgotten: once no call, event, request or response is under way
\* and the server has nothing to say, the view is synced with the collection
\* and every call that is on has been handed it.
Settles ==
    /\ tasks = << >> /\ main = << >> /\ sync.requests = << >> /\ responses = << >>
    /\ sync.stream = "open" /\ view.open
    /\ \A id \in DOMAIN watched : watched[id].current /\ watched[id].at = Latest
    /\ tainted \subseteq {"refused", "abandoned"}
    => /\ view.state = "synced" /\ view.docs = history[Latest]
       /\ \A l \in DOMAIN listeners : listeners[l].phase = "on" => listeners[l].raised

\* What is shown is what is on disk: the view and the cache apply the same
\* events one after the other.
ShownIsCached ==
    \A d \in Doc : view.docs[d] # 0 => store.cache[d] = Found(view.docs[d])

\* And a current view misses no document it believes the server to hold.
NoneWithheld ==
    view.open /\ view.current /\ tainted \subseteq {"crossed", "abandoned"} =>
        \A d \in view.synced : view.docs[d] # 0

\* fetchComment appends every comment that is added: how often d was appended
\* to the list of l, or is on its way to it.
Appended(l, d) ==
    shown[l][d] + Cardinality({i \in DOMAIN main : main[i].listener = l /\ d \in main[i].added})

Hearing(l) == listeners[l].kind = "listen" /\ listeners[l].raised /\ ~listeners[l].muted

\* A comment is in the list twice only if it was deleted, was lost to a lookup
\* that was refused or left the view for a wrong resume token: else the view
\* never lets go of a document that the server holds.
NoneTwice ==
    \A l \in DOMAIN listeners, d \in Doc : Hearing(l) /\ Appended(l, d) > 1 =>
        \/ tainted \ {"abandoned"} # {}
        \/ \E v, w \in DOMAIN history : v < w /\ history[v][d] # 0 /\ history[w][d] = 0

\* What a listener is shown is what is on disk, and what the server held when
\* it says so (LocalStore::ApplyRemoteEvent and View::ApplyChanges together).
ViewTruthful == SyncedTruthful /\ ShownIsCached /\ NoneWithheld /\ NoneTwice

\* The completion of a getDocuments is called once, though its listener is
\* removed on another queue than it is called on and hears of what comes in
\* between.
HandedOnce == \A l \in DOMAIN listeners : listeners[l].handed <= 1

\* A comment of the view is in the list of who listens, or on its way to it.
NoneMissed ==
    \A l \in DOMAIN listeners : Hearing(l) /\ listeners[l].phase = "on" =>
        \A d \in Doc : view.docs[d] # 0 => Appended(l, d) > 0

\* No get is answered twice and no listener misses what the view shows, on the
\* way from the worker queue to the main thread (AsyncEventListener,
\* query_core.cc, fetchComment).
EventsOnce == HandedOnce /\ NoneMissed
=============================================================================
