------------------------------ MODULE Firestore ------------------------------
(***************************************************************************)
(* The Firestore client every screen of Toontagram writes and reads        *)
(* through, as far as the application can tell its behaviours apart.       *)
(*                                                                         *)
(* A device keeps a persistent FIFO queue of local writes.  A read sees    *)
(* the server's documents with that queue laid over them.  Writes are      *)
(* sent in order, several at a time; the server applies each on arrival,   *)
(* and the acknowledgement, which arrives later, takes the write off the   *)
(* queue and puts its completion handler on the device's main queue.  When *)
(* the stream breaks, everything that is not acknowledged is sent again.   *)
(* A restarted application finds its queue but not its completion          *)
(* handlers.  Security rules are not part of the repository: where a       *)
(* refused write is modelled, any write may be refused.                    *)
(***************************************************************************)
EXTENDS Integers, Sequences

CONSTANTS
    User,       \* signed-in accounts, one device each
    NoDoc,      \* what a path holds while the document does not exist
    Nothing,    \* the absent completion handler
    Window      \* how many writes may be on the wire (kMaxPendingWrites)

VARIABLES
    db,         \* db[d]: the server's document at path d, or NoDoc
    pending,    \* pending[u]: the device's queue of unacknowledged writes
    sent,       \* sent[u]: how many of them this stream delivered already
    main        \* main[u]: completion handlers waiting for the main thread

firestoreVars == <<db, pending, sent, main>>

ASSUME WindowAssumption == Window \in Nat \ {0}

-----------------------------------------------------------------------------
(* Writes                                                                  *)

EmptyDoc == << >>

SetData(d, val, then)    == [op |-> "set",    doc |-> d, val |-> val, then |-> then]
UpdateData(d, val, then) == [op |-> "update", doc |-> d, val |-> val, then |-> then]
DeleteDoc(d, then)       == [op |-> "delete", doc |-> d, val |-> EmptyDoc, then |-> then]

\* The fields of new replace those of old; the other fields stay.
Merge(old, new) ==
    [f \in DOMAIN old |-> IF f \in DOMAIN new THEN new[f] ELSE old[f]]

\* A plausible slip: an update that creates the document it does not find.
AfterWriteCreating(old, m) ==
    CASE m.op = "set"    -> m.val
      [] m.op = "delete" -> NoDoc
      [] m.op = "update" -> IF old = NoDoc THEN m.val ELSE Merge(old, m.val)

\* What write m makes of a document: setData has no precondition, updateData
\* requires that the document exists and changes nothing otherwise.
AfterWrite(old, m) ==
    CASE m.op = "set"    -> m.val
      [] m.op = "delete" -> NoDoc
      [] m.op = "update" -> IF old = NoDoc THEN NoDoc ELSE Merge(old, m.val)

Apply(data, m) == [data EXCEPT ![m.doc] = AfterWrite(@, m)]

\* The documents once all the writes of a queue are applied in order.
Overlay(data, queue) ==
    LET after[n \in 0..Len(queue)] ==
            IF n = 0 THEN data ELSE Apply(after[n - 1], queue[n])
    IN  after[Len(queue)]

\* What a read on u's device sees: the server's documents under u's queue.
View(u) == Overlay(db, pending[u])

-----------------------------------------------------------------------------
(* Steps of the client                                                     *)

FirestoreInit(initialDocs) ==
    /\ db = initialDocs
    /\ pending = [u \in User |-> << >>]
    /\ sent = [u \in User |-> 0]
    /\ main = [u \in User |-> << >>]

\* Local writes join the queue in program order and are visible at once.
Issue(u, writes) == pending' = [pending EXCEPT ![u] = @ \o writes]

\* The next write of the queue reaches the server and takes effect there.
Transmit(u) ==
    /\ sent[u] < Len(pending[u])
    /\ sent[u] < Window
    /\ db' = Apply(db, pending[u][sent[u] + 1])
    /\ sent' = [sent EXCEPT ![u] = @ + 1]
    /\ UNCHANGED <<pending, main>>

\* A plausible slip: the acknowledged write's handler is forgotten.
AcknowledgeSilently(u) ==
    /\ sent[u] > 0
    /\ pending' = [pending EXCEPT ![u] = Tail(@)]
    /\ sent' = [sent EXCEPT ![u] = @ - 1]
    /\ UNCHANGED <<db, main>>

\* The answer to the oldest write arrives, a success or a rejection: the
\* write leaves the queue and its completion handler is due.
Acknowledge(u) ==
    /\ sent[u] > 0
    /\ pending' = [pending EXCEPT ![u] = Tail(@)]
    /\ sent' = [sent EXCEPT ![u] = @ - 1]
    /\ LET then == Head(pending[u]).then
       IN  main' = IF then = Nothing THEN main
                   ELSE [main EXCEPT ![u] = Append(@, then)]
    /\ UNCHANGED db

\* The write stream breaks: all that is unacknowledged will be sent again.
Reconnect(u) ==
    /\ sent[u] > 0
    /\ sent' = [sent EXCEPT ![u] = 0]
    /\ UNCHANGED <<db, pending, main>>

\* The server refuses the oldest write for good: it leaves the queue without
\* effect and its completion handler is due with an error.
Reject(u) ==
    /\ pending[u] # << >> /\ sent[u] = 0
    /\ pending' = [pending EXCEPT ![u] = Tail(@)]
    /\ LET then == Head(pending[u]).then
       IN  main' = IF then = Nothing THEN main
                   ELSE [main EXCEPT ![u] = Append(@, [then EXCEPT !.do = "refused"])]
    /\ UNCHANGED <<db, sent>>

\* Another account signs in, or none: the streams start afresh, with the
\* queue of that account.
ChangeCredential == sent' = [u \in User |-> 0]

\* A plausible slip: the queue of writes does not survive a restart.
RestartClientEmpty(u) ==
    /\ pending' = [pending EXCEPT ![u] = << >>]
    /\ main' = [main EXCEPT ![u] = << >>]
    /\ sent' = [sent EXCEPT ![u] = 0]

\* The process ends and starts again: the queue is on disk, the completion
\* handlers are not.
RestartClient(u) ==
    /\ pending' = [pending EXCEPT ![u] =
                      [i \in DOMAIN @ |-> [@[i] EXCEPT !.then = Nothing]]]
    /\ main' = [main EXCEPT ![u] = << >>]
    /\ sent' = [sent EXCEPT ![u] = 0]

\* The same for a device on which several accounts have signed in.
RestartDevice ==
    /\ pending' = [u \in User |->
                      [i \in DOMAIN pending[u] |-> [pending[u][i] EXCEPT !.then = Nothing]]]
    /\ main' = [u \in User |-> << >>]
    /\ sent' = [u \in User |-> 0]
    /\ UNCHANGED db

\* A handler that came due: the head of the main queue.
Due(u, handler) == main[u] # << >> /\ Head(main[u]).do = handler

\* The device has no write on its way and no handler waiting.
Settled(u) == pending[u] = << >> /\ main[u] = << >>
-----------------------------------------------------------------------------
(* The client on its own: what its users may rely on, whichever writes they *)
(* issue.  The screens' modules use the steps above one by one; the         *)
(* detailed client of module Writes implements this specification.          *)

\* The main thread runs the handler that is due first.
HandlerRuns(u) ==
    /\ main[u] # << >>
    /\ main' = [main EXCEPT ![u] = Tail(@)]
    /\ UNCHANGED <<db, pending, sent>>

ClientNext(writes) ==
    \/ \E u \in User :
          \/ \E w \in writes : Issue(u, <<w>>) /\ UNCHANGED <<db, sent, main>>
          \/ Transmit(u) \/ Acknowledge(u) \/ Reconnect(u) \/ Reject(u)
          \/ HandlerRuns(u)
    \/ RestartDevice
=============================================================================
