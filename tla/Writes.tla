-------------------------------- MODULE Writes --------------------------------
(***************************************************************************)
(* The write path of the Firestore client, in the detail of its C++ code:  *)
(* the queue of batches per account on disk (LevelDbMutationQueue), the    *)
(* batches on their way (RemoteStore::write_pipeline_), the completion     *)
(* handlers (SyncEngine), the write stream with its token requests,        *)
(* backoff and idle timer (Stream, WriteStream), and the wire.             *)
(*                                                                         *)
(* All of it runs on one worker queue, so a step is one task of that       *)
(* queue.  One device; several accounts sign in on it over time.  What the *)
(* screens of the application are modelled on, module Firestore, is what   *)
(* this client implements (Implements).                                    *)
(***************************************************************************)
EXTENDS Integers, Sequences, FiniteSets, FiniteSetsExt, SequencesExt

CONSTANTS
    User,        \* accounts, and the unauthenticated one
    FirstUser,   \* who is signed in when the device starts
    NoDoc,       \* what a path holds while the document does not exist
    Nothing,     \* the absent completion handler, the absent status
    Window,      \* kMaxPendingWrites
    CutShort,    \* whether a request that cannot be written any more may end
                 \* the stream before the responses received are read
    MaxWrites,   \* bound: writes the application issues
    MaxCalls,    \* bound: credential changes, network calls and waits
    MaxFaults    \* bound: breaks, failed tokens, refusals and restarts

ASSUME BoundsAssumption ==
    /\ FirstUser \in User
    /\ Window \in Nat \ {0} /\ CutShort \in BOOLEAN
    /\ MaxWrites \in Nat /\ MaxCalls \in Nat /\ MaxFaults \in Nat

VARIABLES
    db,          \* the server's documents
    server,      \* whose stream the server saw last, and how many writes of
                 \* it took effect that the client did not learn of
    wire,        \* requests on their way to the server, of all streams
    answers,     \* responses on their way to the client, of the open stream
    closing,     \* how the server closed the open stream, if it did
    user,        \* current_user_
    queue,       \* queue[u]: u's batches on disk
    nextId,      \* next_batch_id_
    callbacks,   \* callbacks[u]: mutation_callbacks_, by batch id
    waiting,     \* pending_writes_callbacks_
    main,        \* completion handlers on their way to the main thread
    enabled,     \* is_network_enabled_
    state,       \* state_ of the write stream (Healthy is Open here)
    closeCount,  \* close_count_
    tokens,      \* token requests under way, by the close count they captured
    handshake,   \* handshake_complete_
    idle,        \* whether idleness_timer_ is set
    pipeline,    \* write_pipeline_
    issued,      \* how many writes the application issued; numbers them
    refused,     \* history: the writes the server refused
    calls, faults

serverVars == <<db, server>>
streamVars == <<state, closeCount, tokens, handshake, idle>>
storeVars == <<user, queue, nextId, callbacks, waiting, main>>
vars == <<serverVars, wire, answers, closing, storeVars, enabled, streamVars,
          pipeline, issued, refused, calls, faults>>

-----------------------------------------------------------------------------
(* Writes and batches                                                      *)

TheDoc == <<"cartoons">>
Handler(n) == [do |-> "written", write |-> n]
Mutation(n) == [op |-> "set", doc |-> TheDoc, val |-> [number |-> n], then |-> Handler(n)]

ASSUME AbsentAssumption ==
    Nothing \notin {"read", "writing"} /\ \A n \in 1..MaxWrites : Nothing # Handler(n)

\* A batch is one write of the application; its number tells it apart from
\* any other, its id need not.
Batch == [id : Nat, write : 1..MaxWrites]
Ids(q) == {q[i].id : i \in DOMAIN q}
WritesOf(q) == {q[i].write : i \in DOMAIN q}

\* RemoveMutationBatch: the batch of that id.
Without(q, id) ==
    LET i == CHOOSE i \in DOMAIN q : q[i].id = id
    IN  IF id \in Ids(q) THEN SubSeq(q, 1, i - 1) \o SubSeq(q, i + 1, Len(q)) ELSE q

\* LoadNextBatchIdFromDb: the ids of all accounts come from one counter.
LoadNextBatchId(queues) == Max({0} \cup UNION {Ids(queues[u]) : u \in User}) + 1

\* The batches that join the pipeline: those behind its last one's id, while
\* there is room (CanAddToWritePipeline, NextMutationBatchAfterBatchId).
Joining(p, q) ==
    LET retrieved == IF p = << >> THEN 0 ELSE p[Len(p)].id
        k == Max({0} \cup {i \in DOMAIN q : q[i].id <= retrieved})
    IN  SubSeq(q, k + 1, Min({k + Window - Len(p), Len(q)}))

\* A request and the stream it was written on, named by its close count.
HandshakeRequest == [kind |-> "handshake", user |-> user, stream |-> closeCount]
WriteRequests(bs) == [i \in DOMAIN bs |-> [kind |-> "write", write |-> bs[i].write,
                                           stream |-> closeCount]]

\* What is written on a stream that the server has closed is lost.
Send(requests) == wire' = IF closing = Nothing THEN wire \o requests ELSE wire

\* Of a stream that ends, a part of what was written may still arrive.
Leave == \E n \in 0..Len(wire) : wire' = SubSeq(wire, 1, n)

-----------------------------------------------------------------------------
(* The stream and the pipeline                                             *)

Started(st) == st \in {"Starting", "Open", "Backoff"}

\* ShouldStartWriteStream, then Stream::Start: at once, or with backoff
\* after an error.
StartIfNeeded(p, st) ==
    IF enabled' /\ ~Started(st) /\ p # << >>
    THEN IF st = "Error"
         THEN state' = "Backoff" /\ UNCHANGED tokens
         ELSE state' = "Starting" /\ tokens' = tokens \cup {closeCount'}
    ELSE state' = st /\ UNCHANGED tokens

\* FillWritePipeline on a pipeline p, a queue q and a stream in state st that
\* is not being replaced; what it writes goes out on the open stream and
\* stops the idle timer (Stream::Write), which an empty pipeline starts.
FillWritePipeline(p, q, st) ==
    LET more == IF enabled' THEN Joining(p, q) ELSE << >>
        writing == st = "Open" /\ handshake' /\ more # << >>
    IN  /\ pipeline' = p \o more
        /\ idle' = CASE writing -> FALSE
                     [] enabled' /\ pipeline' = << >> /\ st = "Open" -> TRUE
                     [] OTHER -> idle
        /\ IF writing THEN Send(WriteRequests(more)) ELSE UNCHANGED wire
        /\ StartIfNeeded(pipeline', st)

\* A plausible slip: the close is not counted.
StopStreamUncounted ==
    /\ handshake' = FALSE
    /\ answers' = << >>
    /\ closing' = Nothing
    /\ UNCHANGED closeCount

\* A plausible slip: a response the stopped stream had received still comes.
StopStreamHeard ==
    /\ closeCount' = closeCount + (IF Started(state) THEN 1 ELSE 0)
    /\ handshake' = FALSE
    /\ closing' = Nothing
    /\ UNCHANGED answers

\* Stream::Stop, if started: what is under way is invalidated by the count.
StopStream ==
    /\ closeCount' = closeCount + (IF Started(state) THEN 1 ELSE 0)
    /\ handshake' = FALSE
    /\ answers' = << >>
    /\ closing' = Nothing

\* RestartNetwork: the pipeline is dropped, the stream stopped without an
\* error and started again for the queue of the present account.
RestartNetwork ==
    LET more == Joining(<< >>, queue'[user']) IN
    /\ enabled' = TRUE
    /\ StopStream
    /\ Leave
    /\ idle' = FALSE
    /\ pipeline' = more
    /\ StartIfNeeded(more, "Initial")

Init ==
    /\ db = [d \in {TheDoc} |-> NoDoc]
    /\ user = FirstUser
    /\ server = [user |-> user, applied |-> 0]
    /\ wire = << >> /\ answers = << >> /\ closing = Nothing
    /\ queue = [u \in User |-> << >>] /\ nextId = 1
    /\ callbacks = [u \in User |-> {}] /\ waiting = {} /\ main = << >>
    /\ enabled = TRUE
    /\ state = "Initial" /\ closeCount = 0 /\ tokens = {}
    /\ handshake = FALSE /\ idle = FALSE /\ pipeline = << >>
    /\ issued = 0 /\ refused = {} /\ calls = 0 /\ faults = 0

Fault == faults < MaxFaults /\ faults' = faults + 1
Call == calls < MaxCalls /\ calls' = calls + 1
NoCall == UNCHANGED <<calls, faults>>

-----------------------------------------------------------------------------
(* Calls of the application and of the device                              *)

Owed(id) == {c \in callbacks[user] : c.id = id}

\* SyncEngine::WriteMutations: the batch joins the queue of the account, its
\* handler is registered under the batch's id.
WriteMutations ==
    LET n == issued + 1
        q == Append(queue[user], [id |-> nextId, write |-> n])
    IN  /\ n <= MaxWrites
        /\ issued' = n
        /\ queue' = [queue EXCEPT ![user] = q]
        /\ nextId' = nextId + 1
        /\ callbacks' = [callbacks EXCEPT ![user] =
                            IF Owed(nextId) = {} THEN @ \cup {[id |-> nextId, write |-> n]} ELSE @]
        /\ UNCHANGED <<enabled, closeCount, handshake, user>>
        /\ FillWritePipeline(pipeline, q, state)
        /\ UNCHANGED <<serverVars, answers, closing, waiting, main, refused>>
        /\ NoCall

\* The completion of waitForPendingWrites and what it had to wait for.
Waited(w, ok) == [kind |-> "waited", user |-> user, writes |-> w.writes, ok |-> ok]
WaitedAll(ws, ok) == SetToSeq({Waited(w, ok) : w \in ws})

\* A plausible slip: the batch that is answered next.
NextAnsweredId(q) == IF q = << >> THEN 0 ELSE Head(q).id

\* GetHighestUnacknowledgedBatchId
HighestId(q) == IF q = << >> THEN 0 ELSE Last(q).id

\* RegisterPendingWritesCallback: under the id of the last batch, or at once.
WaitForPendingWrites ==
    LET w == [id |-> HighestId(queue[user]),
              writes |-> WritesOf(queue[user])]
    IN  /\ Call /\ UNCHANGED faults
        /\ IF queue[user] = << >>
           THEN main' = Append(main, Waited(w, TRUE)) /\ UNCHANGED waiting
           ELSE waiting' = waiting \cup {w} /\ UNCHANGED main
        /\ UNCHANGED <<serverVars, wire, answers, closing, user, queue, nextId, callbacks,
                       enabled, streamVars, pipeline, issued, refused>>

\* SyncEngine::HandleCredentialChange: a new token, or another account, whose
\* queue is opened and whose ids are counted anew.
HandleCredentialChange(u) ==
    /\ Call /\ UNCHANGED faults
    /\ user' = u
    /\ IF u = user
       THEN UNCHANGED <<nextId, waiting, main>>
       ELSE /\ nextId' = LoadNextBatchId(queue)
            /\ waiting' = {}
            /\ main' = main \o WaitedAll(waiting, FALSE)
    /\ UNCHANGED <<queue, callbacks, serverVars, issued, refused>>
    /\ IF enabled THEN RestartNetwork
       ELSE UNCHANGED <<enabled, streamVars, pipeline, wire, answers, closing>>

\* The connectivity monitor reports a network (RemoteStore::Start).
ConnectivityChanged ==
    /\ enabled
    /\ Call /\ UNCHANGED faults
    /\ UNCHANGED <<storeVars, serverVars, issued, refused>>
    /\ RestartNetwork

DisableNetwork ==
    /\ Call /\ UNCHANGED faults
    /\ enabled' = FALSE
    /\ StopStream
    /\ Leave
    /\ idle' = FALSE
    /\ state' = IF Started(state) THEN "Initial" ELSE state
    /\ pipeline' = << >>
    /\ UNCHANGED <<storeVars, serverVars, tokens, issued, refused>>

EnableNetwork ==
    /\ Call /\ UNCHANGED faults
    /\ enabled' = TRUE
    /\ UNCHANGED <<storeVars, serverVars, answers, closing, closeCount, handshake, issued, refused>>
    /\ FillWritePipeline(pipeline, queue[user], state)

-----------------------------------------------------------------------------
(* The stream                                                              *)

\* What is due when batch b of the account was answered, and for whom: its
\* handler (NotifyUser), then whoever waited for it.
WrittenAll(b, ok) == SetToSeq({[kind |-> "written", user |-> user, write |-> c.write, ok |-> ok] :
                                  c \in Owed(b.id)})
Waiters(b) == {w \in waiting : w.id = b.id}

\* A plausible slip: a refused write is dropped without a word.
SettleQuietly(b, ok) ==
    /\ main' = main \o (IF ok THEN WrittenAll(b, ok) ELSE << >>) \o WaitedAll(Waiters(b), TRUE)
    /\ callbacks' = [callbacks EXCEPT ![user] = @ \ Owed(b.id)]
    /\ waiting' = waiting \ Waiters(b)
    /\ queue' = [queue EXCEPT ![user] = Without(@, b.id)]

\* HandleSuccessfulWrite, HandleRejectedWrite: handlers and waiters become
\* due, and the batch leaves the disk.
Settle(b, ok) ==
    /\ main' = main \o WrittenAll(b, ok) \o WaitedAll(Waiters(b), TRUE)
    /\ callbacks' = [callbacks EXCEPT ![user] = @ \ Owed(b.id)]
    /\ waiting' = waiting \ Waiters(b)
    /\ queue' = [queue EXCEPT ![user] = Without(@, b.id)]

IsPermanentWriteError(status) == status = "permanent"

\* The stream ends with an error.  If it is for good and the writes had been
\* sent, the oldest one is given up, and there is no backoff
\* (HandleWriteError); then a new start, if it is needed.
CloseWith(status) ==
    /\ closeCount' = closeCount + 1
    /\ handshake' = FALSE /\ idle' = FALSE
    /\ answers' = << >> /\ closing' = Nothing
    /\ UNCHANGED <<user, nextId, enabled>>
    /\ IF IsPermanentWriteError(status) /\ handshake /\ pipeline # << >>
       THEN /\ Settle(Head(pipeline), FALSE)
            /\ pipeline' = Tail(pipeline) \o Joining(Tail(pipeline), queue'[user])
            /\ StartIfNeeded(pipeline', "Initial")
       ELSE /\ UNCHANGED <<queue, main, callbacks, waiting, pipeline>>
            /\ StartIfNeeded(pipeline, "Error")

\* The token arrives.  If the stream was stopped since it was asked for, it is
\* of no use; else the stream opens and asks for the handshake.
ResumeStartWithCredentials(c) ==
    /\ c \in tokens
    /\ tokens' = tokens \ {c}
    /\ IF c # closeCount
       THEN UNCHANGED <<state, wire, idle>>
       ELSE /\ state' = "Open"
            /\ idle' = FALSE
            /\ wire' = Append(wire, HandshakeRequest)
    /\ UNCHANGED <<serverVars, storeVars, answers, closing, enabled, closeCount, handshake,
                   pipeline, issued, refused>>
    /\ NoCall

\* No token can be had: the stream ends before it opened.
TokenFails ==
    /\ Fault /\ UNCHANGED calls
    /\ closeCount \in tokens
    /\ closeCount' = closeCount + 1
    /\ handshake' = FALSE /\ idle' = FALSE
    /\ IF pipeline # << >> THEN state' = "Backoff" ELSE state' = "Error"
    /\ tokens' = tokens \ {closeCount}
    /\ UNCHANGED <<serverVars, wire, answers, closing, storeVars, enabled, pipeline, issued, refused>>

\* A plausible slip: the stream that starts again asks for no token.
BackoffElapsedSilently ==
    /\ state = "Backoff"
    /\ state' = "Starting"
    /\ UNCHANGED <<serverVars, wire, answers, closing, storeVars, enabled, closeCount, tokens,
                   handshake, idle, pipeline, issued, refused>>
    /\ NoCall

\* BackoffAndTryRestarting: the delay is over.
BackoffElapsed ==
    /\ state = "Backoff"
    /\ state' = "Starting"
    /\ tokens' = tokens \cup {closeCount}
    /\ UNCHANGED <<serverVars, wire, answers, closing, storeVars, enabled, closeCount, handshake,
                   idle, pipeline, issued, refused>>
    /\ NoCall

Answered(kind) == state = "Open" /\ answers # << >> /\ Head(answers).kind = kind

\* OnWriteStreamHandshakeComplete: the whole pipeline is written.
HandshakeComplete ==
    /\ Answered("handshake") /\ ~handshake
    /\ handshake' = TRUE
    /\ answers' = Tail(answers)
    /\ idle' = (idle /\ pipeline = << >>)
    /\ UNCHANGED <<serverVars, closing, storeVars, enabled, closeCount, tokens, state, pipeline,
                   issued, refused>>
    /\ Send(WriteRequests(pipeline))
    /\ NoCall

\* OnWriteStreamMutationResult: the response is taken to be for the first
\* batch of the pipeline.  Its handler is due, then whoever waits for it; the
\* batch leaves the disk; the pipeline is filled up.
MutationResult ==
    /\ Answered("result") /\ handshake
    /\ pipeline # << >>
    /\ answers' = Tail(answers)
    /\ server' = [server EXCEPT !.applied = @ - 1]
    /\ Settle(Head(pipeline), TRUE)
    /\ UNCHANGED <<db, user, nextId, closing, enabled, closeCount, handshake, issued, refused>>
    /\ FillWritePipeline(Tail(pipeline), queue'[user], state)
    /\ NoCall

\* The status arrives, by rights behind the responses.  But whichever
\* operation fails first ends the stream (GrpcStream::OnOperationFailed), and
\* where a request was still being written that may be the write.
StreamClosed ==
    /\ state = "Open" /\ closing # Nothing
    /\ answers = << >> \/ (CutShort /\ closing = "writing")
    /\ CloseWith("permanent")
    /\ UNCHANGED <<serverVars, wire, issued, refused>>
    /\ NoCall

\* The connection breaks, with what was on it.
ConnectionBreaks ==
    /\ Fault /\ UNCHANGED calls
    /\ state = "Open"
    /\ CloseWith("transient")
    /\ Leave
    /\ UNCHANGED <<serverVars, issued, refused>>

\* The idle timer: Stop, with a goodbye to the server.
IdleTimeout ==
    /\ idle
    /\ enabled' = enabled
    /\ StopStream
    /\ Leave
    /\ idle' = FALSE
    /\ StartIfNeeded(pipeline, "Initial")
    /\ UNCHANGED <<serverVars, storeVars, pipeline, issued, refused>>
    /\ NoCall

-----------------------------------------------------------------------------
(* The server, the main thread, the process                                *)

Live(request) == state = "Open" /\ request.stream = closeCount

Respond(request, kind, n) ==
    answers' = IF Live(request) THEN Append(answers, [kind |-> kind, write |-> n]) ELSE answers

\* The server sees a new stream: what it did for the one before is history.
ServerHandshake ==
    /\ wire # << >> /\ Head(wire).kind = "handshake"
    /\ wire' = Tail(wire)
    /\ server' = [user |-> Head(wire).user, applied |-> 0]
    /\ Respond(Head(wire), "handshake", 0)
    /\ UNCHANGED <<db, closing, storeVars, enabled, streamVars, pipeline, issued, refused>>
    /\ NoCall

\* A write takes effect, be its stream still open or not.
ServerApplies ==
    /\ wire # << >> /\ Head(wire).kind = "write"
    /\ wire' = Tail(wire)
    /\ db' = [db EXCEPT ![TheDoc] = Mutation(Head(wire).write).val]
    /\ server' = [server EXCEPT !.applied = @ + 1]
    /\ Respond(Head(wire), "result", Head(wire).write)
    /\ UNCHANGED <<closing, storeVars, enabled, streamVars, pipeline, issued, refused>>
    /\ NoCall

\* The server refuses a write and closes the stream: no more of it is read.
\* What was written on one stream is together on the wire.
ServerRefuses ==
    LET r == Head(wire)
        last == Max({i \in DOMAIN wire : wire[i].stream = r.stream})
    IN  /\ Fault /\ UNCHANGED calls
        /\ wire # << >> /\ r.kind = "write"
        /\ wire' = SubSeq(wire, last + 1, Len(wire))
        /\ refused' = refused \cup {r.write}
        /\ closing' = IF ~Live(r) THEN closing
                      ELSE IF last = 1 THEN "read" ELSE "writing"
        /\ UNCHANGED <<serverVars, answers, storeVars, enabled, streamVars, pipeline, issued>>

RunHandler ==
    /\ main # << >>
    /\ main' = Tail(main)
    /\ UNCHANGED <<serverVars, wire, answers, closing, user, queue, nextId, callbacks, waiting,
                   enabled, streamVars, pipeline, issued, refused>>
    /\ NoCall

\* The process ends and starts again, with the queues that are on disk.
Restart ==
    LET more == Joining(<< >>, queue[user]) IN
    /\ Fault /\ UNCHANGED calls
    /\ UNCHANGED <<db, user, queue, issued, refused>>
    /\ nextId' = LoadNextBatchId(queue)
    /\ callbacks' = [u \in User |-> {}] /\ waiting' = {} /\ main' = << >>
    /\ server' = [server EXCEPT !.applied = 0]
    /\ wire' = << >> /\ answers' = << >> /\ closing' = Nothing
    /\ enabled' = TRUE
    /\ closeCount' = 0 /\ handshake' = FALSE /\ idle' = FALSE
    /\ pipeline' = more
    /\ state' = IF more = << >> THEN "Initial" ELSE "Starting"
    /\ tokens' = IF more = << >> THEN {} ELSE {0}

Client ==
    \/ \E c \in tokens : ResumeStartWithCredentials(c)
    \/ BackoffElapsed
    \/ HandshakeComplete
    \/ MutationResult
    \/ StreamClosed

Server == ServerHandshake \/ ServerApplies

Next ==
    \/ WriteMutations
    \/ WaitForPendingWrites
    \/ \E u \in User : HandleCredentialChange(u)
    \/ ConnectivityChanged
    \/ DisableNetwork
    \/ EnableNetwork
    \/ \E c \in tokens : ResumeStartWithCredentials(c)
    \/ TokenFails
    \/ BackoffElapsed
    \/ HandshakeComplete
    \/ MutationResult
    \/ StreamClosed
    \/ ConnectionBreaks
    \/ IdleTimeout
    \/ ServerHandshake
    \/ ServerApplies
    \/ ServerRefuses
    \/ RunHandler
    \/ Restart

Spec == Init /\ [][Next]_vars /\ WF_vars(Client) /\ WF_vars(Server)

-----------------------------------------------------------------------------
(* Properties                                                              *)

TypeOK ==
    /\ closing \in {Nothing, "read", "writing"}
    /\ user \in User
    /\ queue \in [User -> Seq(Batch)] /\ nextId \in Nat \ {0}
    /\ callbacks \in [User -> SUBSET Batch]
    /\ enabled \in BOOLEAN /\ handshake \in BOOLEAN /\ idle \in BOOLEAN
    /\ state \in {"Initial", "Starting", "Open", "Backoff", "Error"}
    /\ closeCount \in Nat /\ tokens \subseteq 0..closeCount
    /\ pipeline \in Seq(Batch) /\ Len(pipeline) <= Window
    /\ issued \in 0..MaxWrites

\* With the network enabled the pipeline is the beginning of the present
\* account's queue, as much of it as there is room for, and no batch is missed
\* or taken twice, whatever is acknowledged, refused or issued meanwhile
\* (FillWritePipeline goes by the last id retrieved); without, it is empty.
PipelineIsPrefix ==
    pipeline = IF enabled THEN SubSeq(queue[user], 1, Min({Window, Len(queue[user])})) ELSE << >>

\* A response carries no id: that it belongs to the first batch of the
\* pipeline holds because the responses and requests of the open stream are
\* the writes of the pipeline, in its order, unless the server closed it.
\* And no more than a pipeline of writes takes effect unheard.
AnswersMatch ==
    LET first == Min({i \in DOMAIN wire : wire[i].stream = closeCount} \cup {Len(wire) + 1})
        onWire == SubSeq(wire, first, Len(wire))
        due == [i \in DOMAIN answers |-> answers[i].write]
               \o [i \in DOMAIN onWire |-> onWire[i].write]
        held == [i \in DOMAIN pipeline |-> pipeline[i].write]
    IN  /\ state = "Open" /\ handshake =>
              /\ \A i \in DOMAIN onWire : onWire[i].kind = "write"
              /\ IF closing = Nothing THEN due = held ELSE IsPrefix(due, held)
        /\ server \in [user : User, applied : 0..Window]

\* The idle timer stops the stream without an error, which is asserted to
\* happen only while nothing needs it; and it is needed, so started, whenever
\* there is something to send (OnWriteStreamClose, FillWritePipeline).
StoppedUnneeded ==
    /\ idle => state = "Open" /\ pipeline = << >>
    /\ enabled /\ pipeline # << >> => Started(state)

\* A token that is not discarded finds the stream waiting for it, however
\* often the stream was stopped and started since: the assertion at the head
\* of ResumeStartWithCredentials.
TokensFresh == closeCount \in tokens <=> state = "Starting"

\* The stream's timers and callbacks never find it in a state that its
\* HARD_ASSERTs exclude, and the pipeline is what it is to send; the state is
\* well typed.
StreamSound == TypeOK /\ PipelineIsPrefix /\ StoppedUnneeded /\ TokensFresh

\* A registered handler is that of the batch in the queue that has its id,
\* although ids are counted anew when an account's queue is opened; and a
\* handler that is due has nothing of its write left to fire again.
HandlersMatch ==
    /\ \A u \in User : \A c \in callbacks[u] : c \in ToSet(queue[u])
    /\ \A i \in DOMAIN main : main[i].kind = "written" =>
          main[i].write \notin UNION {WritesOf(queue[u]) : u \in User}

\* Whoever waits for the pending writes hears of success only once all of
\* those are answered; only a change of account ends the wait early.
WaitTruthful ==
    \A i \in DOMAIN main : main[i].kind = "waited" /\ main[i].ok =>
        main[i].writes \cap WritesOf(queue[main[i].user]) = {}

\* A write reported as refused is one the server refused: "the request itself
\* was the problem" (HandleWriteError).
RefusalTruthful ==
    \A i \in DOMAIN main : main[i].kind = "written" /\ ~main[i].ok => main[i].write \in refused

\* What the application hears of its writes is about those writes, and true
\* (NotifyUser, TriggerPendingWriteCallbacks, HandleRejectedWrite).
HeardTruthful == HandlersMatch /\ WaitTruthful /\ RefusalTruthful

\* The client keeps trying: with the network enabled the account's queue
\* drains, unless somebody else signs in or the network is disabled.
WritesLand ==
    \A u \in User :
        user = u /\ enabled /\ queue[u] # << >>
            ~> queue[u] = << >> \/ user # u \/ ~enabled

\* What of all this the screens can tell: the client of module Firestore.
\* A batch's handler is the one registered; a write counts as sent while the
\* server has applied it on its latest stream and the client has not heard.
HandlerOf(u, b) ==
    IF \E c \in callbacks[u] : c.id = b.id
    THEN Handler((CHOOSE c \in callbacks[u] : c.id = b.id).write) ELSE Nothing

\* The handlers of u's writes among the entries of a main queue, in their order.
DueHandler(e) == IF e.ok THEN Handler(e.write) ELSE [Handler(e.write) EXCEPT !.do = "refused"]
HandlersOf(u, entries) ==
    LET due[n \in 0..Len(entries)] ==
            IF n = 0 THEN << >>
            ELSE IF entries[n].kind = "written" /\ entries[n].user = u
                 THEN Append(due[n - 1], DueHandler(entries[n]))
                 ELSE due[n - 1]
    IN  due[Len(entries)]

pendingBar == [u \in User |-> [i \in DOMAIN queue[u] |->
                  [Mutation(queue[u][i].write) EXCEPT !.then = HandlerOf(u, queue[u][i])]]]
sentBar == [u \in User |-> IF u = server.user THEN server.applied ELSE 0]
mainBar == [u \in User |-> HandlersOf(u, main)]

Abs == INSTANCE Firestore WITH pending <- pendingBar, sent <- sentBar, main <- mainBar

\* The detailed client implements the abstract one: its writes take effect in
\* order, each handler is due at most once, in order, and with the truth.
Implements ==
    /\ Abs!FirestoreInit([d \in {TheDoc} |-> NoDoc])
    /\ [][Abs!ClientNext({Mutation(n) : n \in 1..MaxWrites})]_<<db, pendingBar, sentBar, mainBar>>
=============================================================================
