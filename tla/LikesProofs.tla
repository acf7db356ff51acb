----------------------------- MODULE LikesProofs -----------------------------
(***************************************************************************)
(* Proofs about Likes, for every set of accounts and every bound: its      *)
(* types, the two places of a like (RecordCorrect, MirrorCorrect), the     *)
(* cartoon's own document: its counter (CounterBounded), its deletion      *)
(* (StaysDeleted) and its text (EditsKept), the author's notices           *)
(* (NoticesCorrect) and the checked heart (CheckCorrect).                  *)
(*                                                                         *)
(* The argument has three layers: what Firestore's queue of writes does to *)
(* documents (types, Overlay), what a queue's last write to a document or  *)
(* its last owed handler decides (Ends, Reached, LastOwed), and one lemma  *)
(* per kind of step.  A step that touches no like's documents, no owed     *)
(* handler and no history is "quiet" (QuietStep); that is all but the taps *)
(* that write, the two handlers that owe the mirror, and the client.       *)
(***************************************************************************)
EXTENDS Likes, FirestoreProofs

-----------------------------------------------------------------------------
(* Type correctness                                                        *)

\* A partial update of a cartoon leaves a cartoon.
LEMMA MergeType ==
    ASSUME NEW old \in CartoonDoc, NEW new \in [like : Nat] \cup [text : Nat]
    PROVE  Merge(old, new) \in CartoonDoc
BY DEF Merge, CartoonDoc

\* Types hold at the start.
LEMMA InitType == Init => TypeOK
<1> SUFFICES ASSUME Init PROVE TypeOK
  OBVIOUS
<1> USE BoundsAssumption, AbsentAssumption DEF Init, FirestoreInit
<1>1. DocsOK
  <2>1. Cartoon \in Docs BY DEF Docs
  <2>2. db[Cartoon] = [like |-> 0, text |-> 0] BY <2>1
  <2> QED BY <2>1, <2>2 DEF DocsOK, DocsType, CartoonDoc
<1>2. QueuesOK
  BY DEF QueuesOK
<1>3. ScreensOK /\ CountsOK /\ HistoryOK
  BY DEF ScreensOK, CountsOK, HistoryOK
<1> QED BY <1>1, <1>2, <1>3 DEF TypeOK

\* The writes the code issues are writes of the device that issues them.
LEMMA CartoonWrites ==
    ASSUME NEW u \in User, NEW n \in Nat
    PROVE  /\ UpdateData(Cartoon, [like |-> n], Nothing) \in Write(u)
           /\ UpdateData(Cartoon, [text |-> n], Nothing) \in Write(u)
           /\ DeleteDoc(Cartoon, [do |-> "deleted", visit |-> n]) \in Write(u)
<1>1. UpdateData(Cartoon, [like |-> n], Nothing) \in Write(u)
  BY DEF Write, WriteOf, UpdateData
<1>2. UpdateData(Cartoon, [text |-> n], Nothing) \in Write(u)
  BY DEF Write, WriteOf, UpdateData
<1>3. DeleteDoc(Cartoon, [do |-> "deleted", visit |-> n]) \in Write(u)
  BY DEF Write, WriteOf, DeleteDoc
<1> QED BY <1>1, <1>2, <1>3

\* So are the writes of a like, of its mirror and of its notice ...
LEMMA LikeWrites ==
    ASSUME NEW u \in User, NEW i \in 1..MaxTaps
    PROVE  /\ StoreLike(u, i) \in Write(u)
           /\ StoreUnlike(u, i) \in Write(u)
           /\ SetData(UserLike(u), EmptyDoc, [do |-> "likeMirrored", tap |-> i]) \in Write(u)
           /\ SetData(Notice(u, i), EmptyDoc, Nothing) \in Write(u)
<1> USE DEF Write, WriteOf, TapHandler, DeleteDoc, SetData
<1>1. StoreLike(u, i) \in Write(u)
  BY DEF StoreLike
<1>2. StoreUnlike(u, i) \in Write(u)
  BY DEF StoreUnlike
<1>3. SetData(UserLike(u), EmptyDoc, [do |-> "likeMirrored", tap |-> i]) \in Write(u)
  OBVIOUS
<1>4. SetData(Notice(u, i), EmptyDoc, Nothing) \in Write(u)
  OBVIOUS
<1> HIDE DEF Write, WriteOf, TapHandler, DeleteDoc, SetData
<1> QED BY <1>1, <1>2, <1>3, <1>4

\* ... and the delete of the mirror.
LEMMA MirrorDelete ==
    ASSUME NEW u \in User
    PROVE  DeleteDoc(UserLike(u), Nothing) \in Write(u)
BY DEF Write, WriteOf, DeleteDoc

\* A handler that hangs on a write is a handler.
LEMMA HandlersType ==
    ASSUME NEW u \in User, NEW w \in Write(u), w.then # Nothing
    PROVE  w.then \in Handler
BY DEF Write, WriteOf, Handler, TapHandler

\* A write without its handler is still a write of that device.
LEMMA StrippedType ==
    ASSUME NEW u \in User, NEW w \in Write(u)
    PROVE  /\ [w EXCEPT !.then = Nothing] \in Write(u)
           /\ [w EXCEPT !.then = Nothing].op = w.op
           /\ [w EXCEPT !.then = Nothing].doc = w.doc
           /\ [w EXCEPT !.then = Nothing].then = Nothing
BY DEF Write, WriteOf, TapHandler

\* Issuing writes of the device keeps the types of the queues.
LEMMA IssueType ==
    ASSUME QueuesOK, NEW u \in User, NEW writes \in Seq(Write(u)),
           Issue(u, writes), UNCHANGED sent, main' \in [User -> Seq(Handler)]
    PROVE  QueuesOK'
<1>1. /\ pending[u] \o writes \in Seq(Write(u))
      /\ Len(pending[u] \o writes) >= Len(pending[u])
      /\ Len(pending[u] \o writes) \in Nat
      /\ Len(pending[u]) \in Nat
  BY DEF QueuesOK
<1>2. /\ DOMAIN pending' = User
      /\ pending'[u] = pending[u] \o writes
      /\ \A v \in User \ {u} : pending'[v] = pending[v]
  BY DEF QueuesOK, Issue
<1>3. ASSUME NEW v \in User PROVE pending'[v] \in Seq(Write(v))
  <2>1. CASE v = u
    BY <1>1, <1>2, <2>1
  <2>2. CASE v # u
    BY <1>2, <2>2 DEF QueuesOK
  <2> QED BY <2>1, <2>2
<1>4. ASSUME NEW v \in User PROVE sent'[v] <= Len(pending'[v])
  <2>1. CASE v = u
    BY <1>1, <1>2, <2>1 DEF QueuesOK
  <2>2. CASE v # u
    BY <1>2, <2>2 DEF QueuesOK
  <2> QED BY <2>1, <2>2
<1> QED
  BY <1>2, <1>3, <1>4 DEF QueuesOK

\* Documents keep their types under a write of some device.
LEMMA ApplyType ==
    ASSUME NEW data, DocsType(data), NEW u \in User, NEW w \in Write(u)
    PROVE  DocsType(Apply(data, w))
<1>1. w.doc \in Docs
  BY DEF Write, WriteOf, Docs
<1>2. CASE w.doc = Cartoon
  <2>1. \/ w.op = "update" /\ w.val \in [like : Nat] \cup [text : Nat]
        \/ w.op = "delete"
    BY <1>2 DEF Write, WriteOf, Cartoon, CartoonLike, UserLike, Notice
  <2>2. AfterWrite(data[Cartoon], w) \in CartoonDoc \cup {NoDoc}
    BY <2>1, MergeType DEF AfterWrite, DocsType
  <2> QED
    BY <1>2, <2>2 DEF Apply, DocsType, Docs
<1>3. CASE w.doc # Cartoon
  <2>1. w.op \in {"set", "delete"} /\ w.val = EmptyDoc
    BY <1>3 DEF Write, WriteOf
  <2>2. AfterWrite(data[w.doc], w) \in {EmptyDoc, NoDoc}
    BY <2>1 DEF AfterWrite
  <2> QED
    BY <1>1, <1>3, <2>2 DEF Apply, DocsType, Docs
<1> QED BY <1>2, <1>3

\* What a device sees has the types of the server's documents.
LEMMA OverlayType ==
    ASSUME NEW data, DocsType(data), NEW u \in User, NEW queue \in Seq(Write(u))
    PROVE  DocsType(Overlay(data, queue))
<1>2. PICK after :
         /\ after[0] = data
         /\ \A n \in 1..Len(queue) : after[n] = Apply(after[n - 1], queue[n])
         /\ Overlay(data, queue) = after[Len(queue)]
  BY OverlaySteps
<1> DEFINE Untyped == {n \in 0..Len(queue) : ~ DocsType(after[n])}
<1>3. Untyped = {}
  <2> SUFFICES ASSUME Untyped # {} PROVE FALSE
    OBVIOUS
  <2>0. Untyped \in SUBSET Nat
    OBVIOUS
  <2>1. PICK m \in Untyped : \A k \in Untyped : m <= k
    <3> HIDE DEF Untyped
    <3> QED BY <2>0, Least
  <2>2. m # 0
    BY <1>2, <2>1
  <2>3. DocsType(after[m - 1]) /\ queue[m] \in Write(u)
    BY <2>1, <2>2
  <2>4. after[m] = Apply(after[m - 1], queue[m])
    BY <1>2, <2>1, <2>2
  <2> QED BY <2>1, <2>3, <2>4, ApplyType
<1> QED BY <1>2, <1>3

\* Every step keeps the types: one step per action.
LEMMA StepType == ASSUME TypeOK, [Next]_vars PROVE TypeOK'
<1> USE AuthorAssumption, BoundsAssumption, AbsentAssumption DEF TypeOK
<1>1. ASSUME NEW u \in User, FetchList(u) PROVE TypeOK'
  <2>1. View(u)[Cartoon] \in CartoonDoc \cup {NoDoc}
    BY OverlayType DEF View, DocsOK, DocsType, QueuesOK
  <2> QED
    BY <1>1, <2>1 DEF FetchList, ScreensOK, CountsOK, HistoryOK, DocsOK, QueuesOK
<1>2. ASSUME NEW u \in User, Open(u) PROVE TypeOK'
  <2>1. ScreensOK'
    BY <1>2 DEF Open, ScreensOK, NewCopy, CartoonDoc, Copy, Read, CountsOK
  <2>2. CountsOK'
    BY <1>2 DEF Open, CountsOK
  <2>3. HistoryOK'
    BY <1>2 DEF Open, HistoryOK, Settled
  <2> QED
    BY <1>2, <2>1, <2>2, <2>3 DEF Open, DocsOK, QueuesOK
<1>3. ASSUME NEW u \in User, Close(u) PROVE TypeOK'
  BY <1>3 DEF Close, Leave, DocsOK, QueuesOK, ScreensOK, CountsOK, HistoryOK
<1>4. ASSUME NEW u \in User, Redisplay(u) PROVE TypeOK'
  BY <1>4 DEF Redisplay, DocsOK, QueuesOK, ScreensOK, CountsOK, HistoryOK
<1>5. ASSUME NEW u \in User, Tap(u)
      PROVE  /\ taps[u] + 1 \in 1..MaxTaps
             /\ cell[u] \in Copy
             /\ cell' \in [User -> Copy \cup {Closed}]
             /\ \A v \in User : (vc[v] = Closed) <=> (cell'[v] = Closed)
             /\ taps' \in [User -> 0..MaxTaps]
             /\ untouched' \in [User -> BOOLEAN]
  <2>1. taps[u] + 1 \in 1..MaxTaps /\ cell[u] \in Copy
    BY <1>5 DEF Tap, CountsOK, ScreensOK
  <2>2. [cell[u] EXCEPT !.didLike = ~@] \in Copy
    BY <2>1 DEF Copy
  <2> QED
    BY <1>5, <2>1, <2>2 DEF Tap, ScreensOK, CountsOK, HistoryOK
<1>6. ASSUME NEW u \in User, TapLike(u) PROVE TypeOK'
  <2>1. Tap(u) BY <1>6 DEF TapLike
  <2>2. QueuesOK'
    <3>1. cell[u].like + 1 \in Nat
      BY <1>5, <2>1 DEF Copy
    <3>2. << UpdateData(Cartoon, [like |-> cell[u].like + 1], Nothing),
             StoreLike(u, taps[u] + 1) >> \in Seq(Write(u))
      <4>1. UpdateData(Cartoon, [like |-> cell[u].like + 1], Nothing) \in Write(u)
        BY <3>1, CartoonWrites
      <4>2. StoreLike(u, taps[u] + 1) \in Write(u)
        BY <1>5, <2>1, LikeWrites
      <4> QED BY <4>1, <4>2
    <3> QED
      BY <1>6, <3>2, IssueType DEF TapLike, LikeCartoon, QueuesOK
  <2>3. ScreensOK' /\ CountsOK' /\ HistoryOK' /\ DocsOK'
    BY <1>5, <1>6, <2>1 DEF TapLike, ScreensOK, CountsOK, HistoryOK, DocsOK
  <2> QED BY <2>2, <2>3
<1>7. ASSUME NEW u \in User, TapUnlike(u) PROVE TypeOK'
  <2>1. Tap(u) BY <1>7 DEF TapUnlike
  <2>2. QueuesOK'
    <3>1. cell[u].like - 1 \in Nat
      BY <1>5, <1>7, <2>1 DEF TapUnlike, MayUnLike, Copy
    <3>2. << UpdateData(Cartoon, [like |-> cell[u].like - 1], Nothing),
             StoreUnlike(u, taps[u] + 1) >> \in Seq(Write(u))
      <4>1. UpdateData(Cartoon, [like |-> cell[u].like - 1], Nothing) \in Write(u)
        BY <3>1, CartoonWrites
      <4>2. StoreUnlike(u, taps[u] + 1) \in Write(u)
        BY <1>5, <2>1, LikeWrites
      <4> QED BY <4>1, <4>2
    <3> QED
      BY <1>7, <3>2, IssueType DEF TapUnlike, UnLikeCartoon, QueuesOK
  <2>3. ScreensOK' /\ CountsOK' /\ HistoryOK' /\ DocsOK'
    BY <1>5, <1>7, <2>1 DEF TapUnlike, ScreensOK, CountsOK, HistoryOK, DocsOK
  <2> QED BY <2>2, <2>3
<1>8. ASSUME NEW u \in User, TapUnlikeRefused(u) PROVE TypeOK'
  <2>1. Tap(u) BY <1>8 DEF TapUnlikeRefused
  <2> QED
    BY <1>5, <1>8, <2>1
       DEF TapUnlikeRefused, ScreensOK, CountsOK, HistoryOK, DocsOK, QueuesOK
<1>9. ASSUME NEW u \in User, NEW do, Due(u, do)
      PROVE  /\ Head(main[u]) \in Handler
             /\ Head(main[u]).do = do
             /\ [main EXCEPT ![u] = Tail(@)] \in [User -> Seq(Handler)]
  BY <1>9 DEF Due, QueuesOK
<1>10. ASSUME NEW u \in User, LikeStored(u) PROVE TypeOK'
  <2>1. Head(main[u]).tap \in 1..MaxTaps
    BY <1>9, <1>10 DEF LikeStored, Handler, TapHandler
  <2>2. QueuesOK'
    <3>1. << SetData(UserLike(u), EmptyDoc,
                     [do |-> "likeMirrored", tap |-> Head(main[u]).tap]) >> \in Seq(Write(u))
      <4>1. SetData(UserLike(u), EmptyDoc,
                    [do |-> "likeMirrored", tap |-> Head(main[u]).tap]) \in Write(u)
        BY <2>1, LikeWrites
      <4> QED BY <4>1
    <3>2. main' \in [User -> Seq(Handler)]
      BY <1>9, <1>10 DEF LikeStored, QueuesOK
    <3> QED
      BY <1>10, <3>1, <3>2, IssueType DEF LikeStored
  <2> QED
    BY <1>10, <2>2 DEF LikeStored, likesVars, ScreensOK, CountsOK, HistoryOK, DocsOK
<1>11. ASSUME NEW u \in User, UnlikeStored(u) PROVE TypeOK'
  <2>1. Head(main[u]).tap \in 1..MaxTaps
    BY <1>9, <1>11 DEF UnlikeStored, Handler, TapHandler
  <2>2. QueuesOK'
    <3>1. << DeleteDoc(UserLike(u), Nothing) >> \in Seq(Write(u))
      BY MirrorDelete
    <3>2. main' \in [User -> Seq(Handler)]
      BY <1>9, <1>11 DEF UnlikeStored, QueuesOK
    <3> QED
      BY <1>11, <3>1, <3>2, IssueType DEF UnlikeStored
  <2> QED
    BY <1>11, <2>2 DEF UnlikeStored, likesVars, ScreensOK, CountsOK, HistoryOK, DocsOK
<1>12. ASSUME NEW u \in User, LikeMirrored(u) PROVE TypeOK'
  <2>1. Head(main[u]).tap \in 1..MaxTaps
    BY <1>9, <1>12 DEF LikeMirrored, Handler, TapHandler
  <2>2. QueuesOK'
    <3>1. << SetData(Notice(u, Head(main[u]).tap), EmptyDoc, Nothing) >> \in Seq(Write(u))
      <4>1. SetData(Notice(u, Head(main[u]).tap), EmptyDoc, Nothing) \in Write(u)
        BY <2>1, LikeWrites
      <4> QED BY <4>1
    <3>2. main' \in [User -> Seq(Handler)]
      BY <1>9, <1>12 DEF LikeMirrored, QueuesOK
    <3> QED
      BY <1>12, <3>1, <3>2, IssueType DEF LikeMirrored, UploadFeedBack, QueuesOK
  <2> QED
    BY <1>12, <2>2 DEF LikeMirrored, likesVars, ScreensOK, CountsOK, HistoryOK, DocsOK
<1>13. ASSUME NEW u \in User, Checked(u) PROVE TypeOK'
  <2>1. Head(main[u]).exists \in BOOLEAN
    BY <1>9, <1>13 DEF Checked, Handler, TapHandler
  <2>2. ASSUME vc[u] # Closed
        PROVE  [vc[u] EXCEPT !.didLike = Head(main[u]).exists, !.checked = TRUE] \in Copy
    BY <2>1, <2>2 DEF ScreensOK, Copy
  <2>3. ScreensOK'
    BY <1>13, <2>2 DEF Checked, Show, Current, ScreensOK
  <2> QED
    BY <1>9, <1>13, <2>3 DEF Checked, CountsOK, HistoryOK, DocsOK, QueuesOK
<1>14. ASSUME NEW u \in User, Edited(u) PROVE TypeOK'
  <2>1. Head(main[u]).cartoon \in CartoonDoc
    BY <1>9, <1>14 DEF Edited, Handler, TapHandler
  <2>2. NewCopy(Head(main[u]).cartoon) \in Copy
    BY <2>1 DEF NewCopy, CartoonDoc, Copy
  <2>3. ScreensOK'
    BY <1>14, <2>2 DEF Edited, Show, Current, ScreensOK
  <2> QED
    BY <1>9, <1>14, <2>3 DEF Edited, CountsOK, HistoryOK, DocsOK, QueuesOK
<1>15. ASSUME NEW u \in User, Deleted(u) PROVE TypeOK'
  <2>1. QueuesOK'
    BY <1>9, <1>15 DEF Deleted, QueuesOK
  <2>2. ScreensOK'
    BY <1>15 DEF Deleted, Leave, ScreensOK
  <2> QED
    BY <1>15, <2>1, <2>2 DEF Deleted, CountsOK, HistoryOK, DocsOK
<1>16. ASSUME NEW u \in User, AnswerLikeCheck(u) PROVE TypeOK'
  <2>1. PICK r \in reads[u] : AnswerLikeCheck(u)!(r)
    BY <1>16 DEF AnswerLikeCheck
  <2>2. [do |-> "checked", visit |-> r.visit, exists |-> View(u)[UserLike(u)] # NoDoc] \in Handler
    BY <2>1 DEF ScreensOK, Read, Handler
  <2>3. QueuesOK'
    BY <2>1, <2>2 DEF Post, QueuesOK
  <2> QED
    BY <2>1, <2>3 DEF ScreensOK, CountsOK, HistoryOK, DocsOK
<1>17. ASSUME NEW u \in User, AnswerEdited(u) PROVE TypeOK'
  <2>1. View(u)[Cartoon] \in CartoonDoc \cup {NoDoc}
    BY OverlayType DEF View, DocsOK, DocsType, QueuesOK
  <2>2. PICK r \in reads[u] : AnswerEdited(u)!(r)
    BY <1>17 DEF AnswerEdited
  <2>3. ASSUME View(u)[Cartoon] # NoDoc
        PROVE  [do |-> "edited", visit |-> r.visit, edit |-> r.edit,
                cartoon |-> View(u)[Cartoon]] \in Handler
    BY <2>1, <2>2, <2>3 DEF ScreensOK, Read, Handler
  <2>4. QueuesOK'
    <3>1. CASE View(u)[Cartoon] = NoDoc
      BY <2>2, <3>1 DEF QueuesOK
    <3>2. CASE View(u)[Cartoon] # NoDoc
      <4> DEFINE edited == [do |-> "edited", visit |-> r.visit, edit |-> r.edit,
                            cartoon |-> View(u)[Cartoon]]
      <4>1. edited \in Handler
        BY <2>3, <3>2
      <4>2. main' = [main EXCEPT ![u] = Append(@, edited)] /\ UNCHANGED <<pending, sent>>
        BY <2>2, <3>2 DEF Post
      <4> HIDE DEF edited
      <4> QED BY <4>1, <4>2 DEF QueuesOK
    <3> QED BY <3>1, <3>2
  <2> QED
    BY <2>2, <2>4 DEF ScreensOK, CountsOK, HistoryOK, DocsOK
<1>18. ASSUME NEW u \in User, ReadFails(u) PROVE TypeOK'
  <2>1. ScreensOK'
    BY <1>18 DEF ReadFails, ScreensOK
  <2> QED
    BY <1>18, <2>1 DEF ReadFails, CountsOK, HistoryOK, DocsOK, QueuesOK
<1>19. ASSUME NEW u \in User, TapEdit(u) PROVE TypeOK'
  <2>1. QueuesOK'
    <3>1. << UpdateData(Cartoon, [text |-> edits + 1], Nothing) >> \in Seq(Write(u))
      <4>1. edits + 1 \in Nat
        BY DEF CountsOK
      <4>2. UpdateData(Cartoon, [text |-> edits + 1], Nothing) \in Write(u)
        BY <4>1, CartoonWrites
      <4> QED BY <4>2
    <3> QED
      BY <1>19, <3>1, IssueType DEF TapEdit, QueuesOK
  <2> QED
    BY <1>19, <2>1 DEF TapEdit, Read, ScreensOK, CountsOK, HistoryOK, DocsOK
<1>20. ASSUME NEW u \in User, TapDelete(u) PROVE TypeOK'
  <2>1. QueuesOK'
    <3>1. << DeleteDoc(Cartoon, [do |-> "deleted", visit |-> visits[u]]) >> \in Seq(Write(u))
      <4>1. visits[u] \in Nat
        BY DEF CountsOK
      <4>2. DeleteDoc(Cartoon, [do |-> "deleted", visit |-> visits[u]]) \in Write(u)
        BY <4>1, CartoonWrites
      <4> QED BY <4>2
    <3> QED
      BY <1>20, <3>1, IssueType DEF TapDelete, QueuesOK
  <2> QED
    BY <1>20, <2>1 DEF TapDelete, ScreensOK, CountsOK, HistoryOK, DocsOK
<1>21. ASSUME NEW u \in User, Transmit(u), UNCHANGED likesVars PROVE TypeOK'
  <2>1. pending[u][sent[u] + 1] \in Write(u)
    BY <1>21 DEF Transmit, QueuesOK
  <2>2. DocsOK'
    BY <1>21, <2>1, ApplyType DEF Transmit, DocsOK
  <2>3. QueuesOK'
    BY <1>21 DEF Transmit, QueuesOK
  <2> QED
    BY <1>21, <2>2, <2>3 DEF Transmit, likesVars, ScreensOK, CountsOK, HistoryOK
<1>22. ASSUME NEW u \in User, Acknowledge(u), UNCHANGED likesVars PROVE TypeOK'
  <2>1. /\ Head(pending[u]) \in Write(u)
        /\ Tail(pending[u]) \in Seq(Write(u))
        /\ Len(Tail(pending[u])) = Len(pending[u]) - 1
    BY <1>22 DEF Acknowledge, QueuesOK
  <2>2. QueuesOK'
    BY <1>22, <2>1, HandlersType DEF Acknowledge, QueuesOK
  <2> QED
    BY <1>22, <2>2 DEF Acknowledge, likesVars, ScreensOK, CountsOK, HistoryOK, DocsOK
<1>23. ASSUME NEW u \in User, Reconnect(u), UNCHANGED likesVars PROVE TypeOK'
  <2>1. sent' \in [User -> Nat]
    BY <1>23 DEF Reconnect, QueuesOK
  <2>2. \A v \in User : sent'[v] <= Len(pending[v])
    BY <1>23 DEF Reconnect, QueuesOK
  <2>3. QueuesOK'
    BY <1>23, <2>1, <2>2 DEF Reconnect, QueuesOK
  <2>4. DocsOK' /\ ScreensOK'
    BY <1>23 DEF Reconnect, likesVars, ScreensOK, DocsOK
  <2>5. CountsOK' /\ HistoryOK'
    BY <1>23 DEF likesVars, CountsOK, HistoryOK
  <2> QED BY <2>3, <2>4, <2>5
<1>24. ASSUME NEW u \in User, Restart(u) PROVE TypeOK'
  <2>1. DEFINE stripped == [i \in DOMAIN pending[u] |-> [pending[u][i] EXCEPT !.then = Nothing]]
  <2>2. stripped \in Seq(Write(u)) /\ Len(stripped) = Len(pending[u])
    <3>1. pending[u] \in Seq(Write(u))
      BY DEF QueuesOK
    <3>2. DOMAIN pending[u] = 1..Len(pending[u]) /\ Len(pending[u]) \in Nat
      BY <3>1
    <3>3. \A i \in 1..Len(pending[u]) : stripped[i] \in Write(u)
      BY <3>1, <3>2, StrippedType
    <3>4. stripped \in [1..Len(pending[u]) -> Write(u)]
      BY <3>2, <3>3
    <3> HIDE DEF stripped
    <3> QED BY <3>2, <3>4
  <2>3. QueuesOK'
    BY <1>24, <2>2 DEF Restart, RestartClient, QueuesOK
  <2> QED
    BY <1>24, <2>3 DEF Restart, Leave, ScreensOK, CountsOK, HistoryOK, DocsOK
<1>25. CASE UNCHANGED vars
  BY <1>25 DEF vars, firestoreVars, likesVars, ScreensOK, CountsOK, HistoryOK, DocsOK, QueuesOK
<1> QED
  BY <1>1, <1>2, <1>3, <1>4, <1>6, <1>7, <1>8, <1>10, <1>11, <1>12, <1>13, <1>14,
     <1>15, <1>16, <1>17, <1>18, <1>19, <1>20, <1>21, <1>22, <1>23, <1>24, <1>25
     DEF Next, Screen, RunHandler, Answer, Client

\* Every reachable state of every instance is well typed: no device ever
\* queues a write for another account's documents, and no counter, on the
\* server, on a screen or in a queued write, is below zero.
THEOREM TypeCorrect == Spec => []TypeOK
<1>1. TypeOK /\ [Next]_vars => TypeOK'
  BY StepType
<1> QED
  BY InitType, <1>1, PTL DEF Spec

-----------------------------------------------------------------------------
(* The inductive invariant behind LikeRecorded and MirrorAgrees            *)
(*                                                                         *)
(* Neither property is inductive: both speak of settled devices only.  The *)
(* invariant says what the writes and handlers still under way will come   *)
(* to, at every moment: the last of them that concerns a document decides  *)
(* it, and a write that was delivered on this stream has already decided.  *)

\* The last handler owed by u's queue of writes, else by its main queue, else
\* the mirror's writes themselves, bring the mirror to want[u].
LastOwed(handlers, b) ==
    \A i \in DOMAIN handlers :
        Owes(handlers[i]) /\ (\A j \in DOMAIN handlers : j > i => ~Owes(handlers[j]))
            => (handlers[i].do = "likeStored" <=> b)
NoneOwed(handlers) == \A i \in DOMAIN handlers : ~Owes(handlers[i])

MirrorComing(u) ==
    /\ LastOwed(Thens(pending[u]), want[u])
    /\ NoneOwed(Thens(pending[u])) =>
          /\ LastOwed(main[u], want[u])
          /\ NoneOwed(main[u]) => Ends(db, pending[u], UserLike(u), want[u])

LikeInv(u) ==
    /\ Reached(db, pending[u], sent[u], CartoonLike(u))
    /\ Reached(db, pending[u], sent[u], UserLike(u))
    /\ Ends(db, pending[u], CartoonLike(u), want[u])
    /\ ~torn[u] => MirrorComing(u)

IInv == TypeOK /\ \A u \in User : LikeInv(u)

-----------------------------------------------------------------------------
(* Lemmas about owed handlers                                              *)

\* A new last handler is the last one owed if it is owed at all.
LEMMA OwedGrows ==
    ASSUME NEW b \in BOOLEAN, NEW h, NEW k, Grows(h, k),
           DOMAIN h = 1..Len(h), DOMAIN k = 1..Len(k)
    PROVE  /\ Owes(k[Len(k)]) => LastOwed(k, k[Len(k)].do = "likeStored") /\ ~NoneOwed(k)
           /\ ~Owes(k[Len(k)]) /\ LastOwed(h, b) => LastOwed(k, b)
           /\ ~Owes(k[Len(k)]) => (NoneOwed(k) <=> NoneOwed(h))
<1>1. ASSUME Owes(k[Len(k)])
      PROVE  LastOwed(k, k[Len(k)].do = "likeStored") /\ ~NoneOwed(k)
  BY <1>1 DEF LastOwed, NoneOwed, Grows
<1>2. ASSUME ~Owes(k[Len(k)]), LastOwed(h, b) PROVE LastOwed(k, b)
  BY <1>2 DEF LastOwed, Grows
<1>3. ASSUME ~Owes(k[Len(k)]) PROVE NoneOwed(k) <=> NoneOwed(h)
  BY <1>3 DEF NoneOwed, Grows
<1> QED BY <1>1, <1>2, <1>3

\* h without its head.
LEMMA OwedTail ==
    ASSUME NEW b \in BOOLEAN, NEW h, NEW k, Len(h) \in Nat, Len(h) > 0, Len(k) = Len(h) - 1,
           DOMAIN h = 1..Len(h), DOMAIN k = 1..Len(k),
           \A i \in 1..Len(k) : k[i] = h[i + 1]
    PROVE  /\ LastOwed(h, b) => LastOwed(k, b)
           /\ ~Owes(h[1]) => (NoneOwed(k) <=> NoneOwed(h))
           /\ LastOwed(h, b) /\ Owes(h[1]) /\ NoneOwed(k) => (h[1].do = "likeStored" <=> b)
           /\ Owes(h[1]) => ~NoneOwed(h)
<1>1. \A i \in 2..Len(h) : i - 1 \in 1..Len(k) /\ h[i] = k[i - 1]
  OBVIOUS
<1>2. ASSUME LastOwed(h, b) PROVE LastOwed(k, b)
  <2> SUFFICES ASSUME NEW i \in 1..Len(k), Owes(k[i]),
                      \A j \in 1..Len(k) : j > i => ~Owes(k[j])
               PROVE  k[i].do = "likeStored" <=> b
    BY DEF LastOwed
  <2>1. i + 1 \in 1..Len(h) /\ h[i + 1] = k[i]
    OBVIOUS
  <2>2. ASSUME NEW j \in 1..Len(h), j > i + 1 PROVE ~Owes(h[j])
    <3>1. j - 1 \in 1..Len(k) /\ j - 1 > i /\ j \in 2..Len(h)
      BY <2>2
    <3> QED BY <1>1, <3>1
  <2> QED BY <1>2, <2>1, <2>2 DEF LastOwed
<1>3. ASSUME ~Owes(h[1]) PROVE NoneOwed(k) <=> NoneOwed(h)
  <2>1. ASSUME NoneOwed(h) PROVE NoneOwed(k)
    BY <2>1 DEF NoneOwed
  <2>2. ASSUME NoneOwed(k), NEW i \in 1..Len(h) PROVE ~Owes(h[i])
    <3>1. CASE i = 1
      BY <1>3, <3>1
    <3>2. CASE i # 1
      <4>1. i \in 2..Len(h)
        BY <3>2
      <4> QED BY <1>1, <2>2, <4>1 DEF NoneOwed
    <3> QED BY <3>1, <3>2
  <2> QED BY <2>1, <2>2 DEF NoneOwed
<1>4. ASSUME LastOwed(h, b), Owes(h[1]), NoneOwed(k) PROVE h[1].do = "likeStored" <=> b
  <2>1. ASSUME NEW i \in 1..Len(h), i > 1 PROVE ~Owes(h[i])
    BY <1>1, <1>4, <2>1 DEF NoneOwed
  <2> QED BY <1>4, <2>1 DEF LastOwed
<1>5. Owes(h[1]) => ~NoneOwed(h)
  BY DEF NoneOwed
<1> QED BY <1>2, <1>3, <1>4, <1>5

-----------------------------------------------------------------------------
(* What the writes of a device do to the documents of a like               *)

\* The documents of different likes are different paths.
LEMMA DocsApart ==
    ASSUME NEW u \in User, NEW v \in User
    PROVE  /\ Cartoon \notin {CartoonLike(v), UserLike(v)}
           /\ \A i : Notice(u, i) \notin {CartoonLike(v), UserLike(v)}
           /\ CartoonLike(u) # UserLike(v)
           /\ u # v => CartoonLike(u) # CartoonLike(v) /\ UserLike(u) # UserLike(v)
BY DEF Cartoon, CartoonLike, UserLike, Notice

\* Only u's own device writes the documents of u's like.
LEMMA WriteOnLike ==
    ASSUME NEW u \in User, NEW w \in Write(u), NEW v \in User,
           NEW d \in {CartoonLike(v), UserLike(v)}, w.doc = d
    PROVE  u = v /\ w.op \in {"set", "delete"} /\ w.val = EmptyDoc
BY DocsApart DEF Write, WriteOf

\* Only a write of the first place carries a handler that owes the mirror.
LEMMA WriteOwes ==
    ASSUME NEW u \in User, NEW w \in Write(u), Owes(w.then)
    PROVE  w.doc = CartoonLike(u)
BY DEF Write, WriteOf, Owes, TapHandler

\* A write decides the document it names and leaves the others alone.
LEMMA ApplyOnLike ==
    ASSUME DocsOK, NEW u \in User, NEW w \in Write(u), NEW v \in User,
           NEW d \in {CartoonLike(v), UserLike(v)}
    PROVE  /\ w.doc # d => Apply(db, w)[d] = db[d]
           /\ w.doc = d => (Apply(db, w)[d] # NoDoc <=> w.op = "set")
<1>1. d \in DOMAIN db
  BY DEF DocsOK, DocsType, Docs
<1>2. ASSUME w.doc # d PROVE Apply(db, w)[d] = db[d]
  BY <1>1, <1>2 DEF Apply
<1>3. ASSUME w.doc = d PROVE Apply(db, w)[d] # NoDoc <=> w.op = "set"
  <2>1. w.op \in {"set", "delete"} /\ w.val = EmptyDoc
    BY <1>3, WriteOnLike
  <2>2. Apply(db, w)[d] = AfterWrite(db[d], w)
    BY <1>1, <1>3 DEF Apply
  <2> QED BY <2>1, <2>2, AbsentAssumption DEF AfterWrite
<1> QED BY <1>2, <1>3

-----------------------------------------------------------------------------
(* Steps that owe nothing                                                  *)

\* u's main queue changes at most by a handler that owes nothing.
MainQuiet(u) ==
    \/ main'[u] = main[u]
    \/ Grows(main[u], main'[u]) /\ ~Owes(main'[u][Len(main'[u])])
    \/ main[u] # << >> /\ main'[u] = Tail(main[u]) /\ ~Owes(Head(main[u]))

\* u's writes change at most by one that neither owes nor concerns a like.
WritesQuiet(u) ==
    \/ pending'[u] = pending[u]
    \/ LET w == pending'[u][Len(pending'[u])] IN
       /\ Grows(pending[u], pending'[u])
       /\ w.doc \notin {CartoonLike(u), UserLike(u)} /\ ~Owes(w.then)

\* A quiet change of the main queue owes what was owed before.
LEMMA MainQuietOwed ==
    ASSUME NEW u \in User, main[u] \in Seq(Handler), main'[u] \in Seq(Handler),
           MainQuiet(u), NEW b \in BOOLEAN
    PROVE  /\ LastOwed(main[u], b) => LastOwed(main'[u], b)
           /\ NoneOwed(main[u]) <=> NoneOwed(main'[u])
<1>1. /\ DOMAIN main[u] = 1..Len(main[u]) /\ Len(main[u]) \in Nat
      /\ DOMAIN main'[u] = 1..Len(main'[u]) /\ Len(main'[u]) \in Nat
  OBVIOUS
<1>2. CASE Grows(main[u], main'[u]) /\ ~Owes(main'[u][Len(main'[u])])
  BY <1>1, <1>2, OwedGrows
<1>3. CASE main[u] # << >> /\ main'[u] = Tail(main[u]) /\ ~Owes(Head(main[u]))
  <2>1. /\ Len(main[u]) > 0 /\ Len(main'[u]) = Len(main[u]) - 1
        /\ \A i \in 1..Len(main'[u]) : main'[u][i] = main[u][i + 1]
        /\ Head(main[u]) = main[u][1]
    BY <1>3
  <2> QED BY <1>1, <1>3, <2>1, OwedTail
<1>4. CASE main'[u] = main[u]
  BY <1>4
<1> QED BY <1>2, <1>3, <1>4 DEF MainQuiet

\* A quiet change of the writes owes, and ends in, what it did before.
LEMMA WritesQuietOwed ==
    ASSUME NEW u \in User, pending[u] \in Seq(Write(u)), pending'[u] \in Seq(Write(u)),
           WritesQuiet(u), NEW b \in BOOLEAN,
           NEW d \in {CartoonLike(u), UserLike(u)}, db'[d] = db[d]
    PROVE  /\ LastOwed(Thens(pending[u]), b) => LastOwed(Thens(pending'[u]), b)
           /\ NoneOwed(Thens(pending[u])) <=> NoneOwed(Thens(pending'[u]))
           /\ Ends(db, pending[u], d, b) => Ends(db', pending'[u], d, b)
           /\ \A n \in 0..Len(pending[u]) :
                 Reached(db, pending[u], n, d) => Reached(db', pending'[u], n, d)
<1>0. Len(pending[u]) \in Nat
  OBVIOUS
<1>1. CASE pending'[u] = pending[u]
  <2>1. Ends(db, pending[u], d, b) => Ends(db', pending[u], d, b)
    BY <1>0, EndsSame
  <2>2. ASSUME NEW n \in 0..Len(pending[u]), Reached(db, pending[u], n, d)
        PROVE  Reached(db', pending[u], n, d)
    BY <1>0, <2>2, ReachedPrefix
  <2> QED BY <1>1, <2>1, <2>2
<1>2. CASE pending'[u] # pending[u]
  <2>1. /\ Grows(pending[u], pending'[u])
        /\ pending'[u][Len(pending'[u])].doc # d
        /\ ~Owes(pending'[u][Len(pending'[u])].then)
    BY <1>2 DEF WritesQuiet
  <2>2. /\ Grows(Thens(pending[u]), Thens(pending'[u]))
        /\ ~Owes(Thens(pending'[u])[Len(Thens(pending'[u]))])
    BY <2>1, ThensGrows
  <2>3. Ends(db, pending[u], d, b) => Ends(db', pending[u], d, b)
    BY <1>0, EndsSame
  <2>4. Ends(db', pending[u], d, b) => Ends(db', pending'[u], d, b)
    BY <2>1, EndsGrows
  <2>5. ASSUME NEW n \in 0..Len(pending[u]), Reached(db, pending[u], n, d)
        PROVE  Reached(db', pending'[u], n, d)
    <3>1. n \in Nat /\ \A i \in 1..n : i \in 1..Len(pending[u])
      BY <1>0
    <3>2. \A i \in 1..n : pending'[u][i] = pending[u][i]
      BY <2>1, <3>1 DEF Grows
    <3>3. \A i \in 1..n : /\ pending'[u][i].doc = pending[u][i].doc
                         /\ pending'[u][i].op = pending[u][i].op
      BY <3>2
    <3> QED BY <2>5, <3>1, <3>3, ReachedPrefix
  <2> QED BY <2>2, <2>3, <2>4, <2>5, OwedGrows, ThensFacts
<1> QED BY <1>1, <1>2

\* Any step that leaves the likes' documents, the sent writes and the intent
\* alone and owes nothing new keeps the invariant of u.
LEMMA QuietStep ==
    ASSUME TypeOK, TypeOK', NEW u \in User, LikeInv(u),
           MainQuiet(u), WritesQuiet(u),
           db'[CartoonLike(u)] = db[CartoonLike(u)], db'[UserLike(u)] = db[UserLike(u)],
           sent'[u] = sent[u], want'[u] = want[u], torn'[u] = torn[u]
    PROVE  LikeInv(u)'
<1>1. /\ pending[u] \in Seq(Write(u)) /\ pending'[u] \in Seq(Write(u))
      /\ main[u] \in Seq(Handler) /\ main'[u] \in Seq(Handler)
      /\ sent[u] \in 0..Len(pending[u]) /\ want[u] \in BOOLEAN
  BY DEF TypeOK, QueuesOK, HistoryOK
<1>2. /\ Reached(db', pending'[u], sent[u], CartoonLike(u))
      /\ Reached(db', pending'[u], sent[u], UserLike(u))
      /\ Ends(db', pending'[u], CartoonLike(u), want[u])
  BY <1>1, WritesQuietOwed DEF LikeInv
<1>3. ASSUME ~torn[u] PROVE MirrorComing(u)'
  <2>1. LastOwed(Thens(pending'[u]), want[u])
    BY <1>1, <1>3, WritesQuietOwed DEF LikeInv, MirrorComing
  <2>2. ASSUME NoneOwed(Thens(pending'[u]))
        PROVE  /\ LastOwed(main'[u], want[u])
               /\ NoneOwed(main'[u]) => Ends(db', pending'[u], UserLike(u), want[u])
    <3>1. NoneOwed(Thens(pending[u]))
      BY <1>1, <2>2, WritesQuietOwed
    <3> QED
      BY <1>1, <1>3, <3>1, MainQuietOwed, WritesQuietOwed DEF LikeInv, MirrorComing
  <2> QED BY <2>1, <2>2 DEF MirrorComing
<1> QED BY <1>2, <1>3 DEF LikeInv

\* A step of u's device leaves the other accounts' part of the state alone.
OthersKept(u) ==
    \A v \in User \ {u} :
        /\ pending'[v] = pending[v] /\ main'[v] = main[v] /\ sent'[v] = sent[v]
        /\ want'[v] = want[v] /\ torn'[v] = torn[v]
        /\ db'[CartoonLike(v)] = db[CartoonLike(v)]
        /\ db'[UserLike(v)] = db[UserLike(v)]

\* It is then enough to look at the device that steps.
LEMMA OthersStep ==
    ASSUME TypeOK, TypeOK', \A v \in User : LikeInv(v),
           NEW u \in User, OthersKept(u), LikeInv(u)'
    PROVE  \A v \in User : LikeInv(v)'
<1>1. ASSUME NEW v \in User, v # u PROVE LikeInv(v)'
  BY <1>1, QuietStep DEF OthersKept, MainQuiet, WritesQuiet
<1> QED BY <1>1

-----------------------------------------------------------------------------
(* One lemma per kind of step of u's device                                *)

\* A tap writes the counter, then the first of the two places, whose handler
\* now owes the mirror.
LEMMA TapStep ==
    ASSUME TypeOK, TypeOK', NEW u \in User, LikeInv(u), NEW b \in BOOLEAN,
           NEW count \in Write(u), count.doc = Cartoon, count.then = Nothing,
           NEW store \in Write(u), store.doc = CartoonLike(u), store.op = "set" <=> b,
           Owes(store.then), store.then.do = "likeStored" <=> b,
           Issue(u, <<count, store>>), want' = [want EXCEPT ![u] = b],
           torn' = [torn EXCEPT ![u] = FALSE], UNCHANGED <<db, sent, main>>
    PROVE  LikeInv(u)'
<1> DEFINE mid == Append(pending[u], count)
           new == Append(mid, store)
<1>1. /\ pending[u] \in Seq(Write(u)) /\ sent[u] \in 0..Len(pending[u])
      /\ want'[u] = b /\ torn'[u] = FALSE
  BY DEF TypeOK, QueuesOK, HistoryOK
<1>2. pending'[u] = new
  BY <1>1, AppendTwo DEF Issue, TypeOK, QueuesOK
<1>3. /\ mid \in Seq(Write(u)) /\ Grows(pending[u], mid) /\ mid[Len(mid)] = count
      /\ new \in Seq(Write(u)) /\ Grows(mid, new) /\ new[Len(new)] = store
  BY <1>1, AppendGrows DEF Grows
<1> HIDE DEF mid, new
<1>4. Ends(db, new, CartoonLike(u), b)
  BY <1>3, EndsGrows
<1>5. \A i \in 1..Len(pending[u]) : new[i] = pending[u][i]
  BY <1>3 DEF Grows
<1>6. ASSUME NEW d \in {CartoonLike(u), UserLike(u)}, Reached(db, pending[u], sent[u], d)
      PROVE  Reached(db, new, sent[u], d)
  <2>1. sent[u] \in Nat /\ \A i \in 1..sent[u] : new[i] = pending[u][i]
    BY <1>1, <1>5
  <2> QED BY <1>6, <2>1 DEF Reached
<1>7. LastOwed(Thens(new), b) /\ ~NoneOwed(Thens(new))
  <2>1. Grows(Thens(mid), Thens(new)) /\ Thens(new)[Len(Thens(new))] = store.then
    BY <1>3, ThensGrows
  <2> QED BY <1>3, <2>1, OwedGrows, ThensFacts
<1> QED
  BY <1>1, <1>2, <1>4, <1>6, <1>7 DEF LikeInv, MirrorComing

\* The owed handler issues the mirror's write.
LEMMA StoredStep ==
    ASSUME TypeOK, TypeOK', NEW u \in User, LikeInv(u),
           main[u] # << >>, Owes(Head(main[u])),
           main' = [main EXCEPT ![u] = Tail(@)],
           NEW w \in Write(u), w.doc = UserLike(u), ~Owes(w.then),
           w.op = "set" <=> Head(main[u]).do = "likeStored",
           Issue(u, <<w>>), UNCHANGED <<db, sent, want, torn>>
    PROVE  LikeInv(u)'
<1> DEFINE new == Append(pending[u], w)
<1>1. /\ pending[u] \in Seq(Write(u)) /\ sent[u] \in 0..Len(pending[u])
      /\ want[u] \in BOOLEAN /\ main[u] \in Seq(Handler)
  BY DEF TypeOK, QueuesOK, HistoryOK
<1>2. pending'[u] = new /\ main'[u] = Tail(main[u])
  BY <1>1, AppendGrows DEF Issue, TypeOK, QueuesOK
<1>3. new \in Seq(Write(u)) /\ Grows(pending[u], new) /\ new[Len(new)] = w
  BY <1>1, AppendGrows DEF Grows
<1> HIDE DEF new
<1>4. /\ Reached(db, new, sent[u], CartoonLike(u))
      /\ Reached(db, new, sent[u], UserLike(u))
  <2>1. \A i \in 1..Len(pending[u]) : new[i] = pending[u][i]
    BY <1>3 DEF Grows
  <2> QED BY <1>1, <2>1, ReachedPrefix DEF LikeInv
<1>5. Ends(db, new, CartoonLike(u), want[u])
  BY <1>1, <1>3, EndsGrows, DocsApart DEF LikeInv
<1>6. ASSUME ~torn[u] PROVE MirrorComing(u)'
  <2>1. /\ Grows(Thens(pending[u]), Thens(new))
        /\ ~Owes(Thens(new)[Len(Thens(new))])
    BY <1>1, <1>3, ThensGrows
  <2>2. LastOwed(Thens(new), want[u])
    BY <1>1, <1>3, <1>6, <2>1, OwedGrows, ThensFacts DEF LikeInv, MirrorComing
  <2>3. ASSUME NoneOwed(Thens(new))
        PROVE  /\ LastOwed(Tail(main[u]), want[u])
               /\ NoneOwed(Tail(main[u])) => Ends(db, new, UserLike(u), want[u])
    <3>1. NoneOwed(Thens(pending[u]))
      BY <1>1, <1>3, <2>1, <2>3, OwedGrows, ThensFacts
    <3>2. LastOwed(main[u], want[u])
      BY <1>6, <3>1 DEF LikeInv, MirrorComing
    <3>3. /\ Len(main[u]) \in Nat /\ Len(main[u]) > 0
          /\ Len(Tail(main[u])) = Len(main[u]) - 1
          /\ DOMAIN main[u] = 1..Len(main[u])
          /\ DOMAIN Tail(main[u]) = 1..Len(Tail(main[u]))
          /\ \A i \in 1..Len(Tail(main[u])) : Tail(main[u])[i] = main[u][i + 1]
          /\ Head(main[u]) = main[u][1]
      BY <1>1
    <3>4. LastOwed(Tail(main[u]), want[u])
      BY <1>1, <3>2, <3>3, OwedTail
    <3>5. ASSUME NoneOwed(Tail(main[u])) PROVE Head(main[u]).do = "likeStored" <=> want[u]
      <4>1. Owes(main[u][1])
        BY <3>3
      <4>2. main[u][1].do = "likeStored" <=> want[u]
        BY <1>1, <3>2, <3>3, <3>5, <4>1, OwedTail
      <4> QED BY <3>3, <4>2
    <3>6. Ends(db, new, UserLike(u), w.op = "set")
      BY <1>3, EndsGrows
    <3>7. ASSUME NoneOwed(Tail(main[u])) PROVE Ends(db, new, UserLike(u), want[u])
      <4>1. (w.op = "set") = want[u]
        BY <1>1, <3>5, <3>7
      <4> QED BY <3>6, <4>1
    <3> QED BY <3>4, <3>7
  <2> QED BY <1>2, <2>2, <2>3 DEF MirrorComing
<1> QED
  BY <1>2, <1>4, <1>5, <1>6 DEF LikeInv

\* The server applies the next write, which has then taken effect.
LEMMA TransmitKeeps ==
    ASSUME TypeOK, NEW u \in User, LikeInv(u), Transmit(u), UNCHANGED likesVars
    PROVE  LikeInv(u)' /\ OthersKept(u)
<1> DEFINE w == pending[u][sent[u] + 1]
<1>1. /\ pending[u] \in Seq(Write(u)) /\ sent[u] \in Nat /\ sent[u] < Len(pending[u])
      /\ want[u] \in BOOLEAN /\ Len(pending[u]) \in Nat
      /\ sent'[u] = sent[u] + 1 /\ UNCHANGED <<pending, main, want, torn>>
      /\ db' = Apply(db, w)
  BY DEF TypeOK, QueuesOK, HistoryOK, Transmit, likesVars
<1>2. w \in Write(u)
  BY <1>1
<1> HIDE DEF w
<1>3. ASSUME NEW v \in User, NEW d \in {CartoonLike(v), UserLike(v)}
      PROVE  /\ w.doc # d => db'[d] = db[d]
             /\ w.doc = d => (db'[d] # NoDoc <=> w.op = "set") /\ u = v
  BY <1>1, <1>2, <1>3, ApplyOnLike, WriteOnLike DEF TypeOK
<1>4. ASSUME NEW d \in {CartoonLike(u), UserLike(u)}
      PROVE  /\ Reached(db, pending[u], sent[u], d) => Reached(db', pending[u], sent[u] + 1, d)
             /\ Ends(db, pending[u], d, want[u]) => Ends(db', pending[u], d, want[u])
  <2>1. /\ pending[u][sent[u] + 1].doc # d => db'[d] = db[d]
        /\ pending[u][sent[u] + 1].doc = d
              => (db'[d] # NoDoc <=> pending[u][sent[u] + 1].op = "set")
    BY <1>3 DEF w
  <2>2. /\ sent[u] \in Nat /\ Len(pending[u]) \in Nat /\ sent[u] < Len(pending[u])
        /\ want[u] \in BOOLEAN
    BY <1>1
  <2> DEFINE q == pending[u]
             n == sent[u]
             b == want[u]
             now == db'
  <2>3. /\ q[n + 1].doc # d => now[d] = db[d]
        /\ q[n + 1].doc = d => (now[d] # NoDoc <=> q[n + 1].op = "set")
        /\ n \in Nat /\ Len(q) \in Nat /\ n < Len(q) /\ b \in BOOLEAN
    BY <2>1, <2>2
  <2> HIDE DEF q, n, b, now
  <2>4. Reached(db, q, n, d) => Reached(now, q, n + 1, d)
    BY <2>3 DEF Reached
  <2>5. Ends(db, q, d, b) => Ends(now, q, d, b)
    BY <2>3 DEF Ends
  <2> QED BY <2>4, <2>5 DEF q, n, b, now
<1>5. LikeInv(u)'
  BY <1>1, <1>4 DEF LikeInv, MirrorComing
<1>6. OthersKept(u)
  BY <1>1, <1>3 DEF OthersKept, TypeOK, QueuesOK, Transmit
<1> QED BY <1>5, <1>6

\* The oldest write, which took effect, leaves; what its handler owes moves
\* from the queue of writes to the main queue.
LEMMA AcknowledgeKeeps ==
    ASSUME TypeOK, TypeOK', NEW u \in User, LikeInv(u), Acknowledge(u), UNCHANGED likesVars
    PROVE  LikeInv(u)' /\ OthersKept(u)
<1> DEFINE q == pending[u]
           r == Tail(pending[u])
           then == Head(pending[u]).then
<1>1. /\ q \in Seq(Write(u)) /\ r \in Seq(Write(u)) /\ sent[u] \in 1..Len(q)
      /\ want[u] \in BOOLEAN /\ Len(q) \in Nat /\ Len(r) = Len(q) - 1
      /\ \A i \in 1..Len(r) : r[i] = q[i + 1]
      /\ Head(q) = q[1] /\ main[u] \in Seq(Handler) /\ main'[u] \in Seq(Handler)
  BY DEF TypeOK, QueuesOK, HistoryOK, Acknowledge
<1>2. /\ pending'[u] = r /\ sent'[u] = sent[u] - 1
      /\ main'[u] = IF then = Nothing THEN main[u] ELSE Append(main[u], then)
      /\ UNCHANGED <<db, want, torn>>
  BY DEF TypeOK, QueuesOK, Acknowledge, likesVars
<1>3. OthersKept(u)
  BY DEF OthersKept, TypeOK, QueuesOK, Acknowledge, likesVars
<1>4. ASSUME NEW d \in {CartoonLike(u), UserLike(u)}, Reached(db, q, sent[u], d)
      PROVE  /\ Reached(db, r, sent[u] - 1, d)
             /\ Ends(db, q, d, want[u]) => Ends(db, r, d, want[u])
  <2>1. /\ sent[u] \in Nat /\ sent[u] > 0 /\ sent[u] <= Len(q) /\ Len(q) \in Nat
        /\ want[u] \in BOOLEAN /\ Len(r) = Len(q) - 1
        /\ \A i \in 1..Len(r) : r[i] = q[i + 1]
    BY <1>1
  <2> HIDE DEF q, r
  <2> QED BY <1>4, <2>1, AcknowledgeStep
<1>5. /\ Thens(q)[1] = then /\ Len(Thens(q)) = Len(q) /\ Len(Thens(r)) = Len(r)
      /\ DOMAIN Thens(q) = 1..Len(Thens(q)) /\ DOMAIN Thens(r) = 1..Len(Thens(r))
      /\ \A i \in 1..Len(Thens(r)) : Thens(r)[i] = Thens(q)[i + 1]
  <2>1. /\ Len(Thens(q)) = Len(q) /\ DOMAIN Thens(q) = 1..Len(Thens(q))
        /\ \A i \in 1..Len(q) : Thens(q)[i] = q[i].then
    BY <1>1, ThensFacts
  <2>2. /\ Len(Thens(r)) = Len(r) /\ DOMAIN Thens(r) = 1..Len(Thens(r))
        /\ \A i \in 1..Len(r) : Thens(r)[i] = r[i].then
    BY <1>1, ThensFacts
  <2>3. /\ \A i \in 1..Len(r) : i + 1 \in 1..Len(q) /\ r[i] = q[i + 1]
        /\ 1 \in 1..Len(q) /\ q[1].then = then
    BY <1>1
  <2> HIDE DEF q, r, then
  <2> QED BY <2>1, <2>2, <2>3
<1> HIDE DEF q, r, then
<1>6. /\ LastOwed(Thens(q), want[u]) => LastOwed(Thens(r), want[u])
      /\ ~Owes(then) => (NoneOwed(Thens(r)) <=> NoneOwed(Thens(q)))
      /\ LastOwed(Thens(q), want[u]) /\ Owes(then) /\ NoneOwed(Thens(r))
            => (then.do = "likeStored" <=> want[u])
  BY <1>1, <1>5, OwedTail
<1>7. ASSUME ~torn[u] PROVE MirrorComing(u)'
  <2>1. LastOwed(Thens(q), want[u]) /\ LastOwed(Thens(r), want[u])
    BY <1>6, <1>7 DEF LikeInv, MirrorComing, q
  <2>2. ASSUME NoneOwed(Thens(r)), Owes(then)
        PROVE  LastOwed(main'[u], want[u]) /\ ~NoneOwed(main'[u])
    <3>1. main'[u] = Append(main[u], then) /\ then \in Handler
      BY <1>2, <2>2, <1>1, HandlersType DEF Owes, then, q
    <3>2. Grows(main[u], main'[u]) /\ main'[u][Len(main'[u])] = then
      BY <1>1, <3>1, AppendGrows DEF Grows
    <3>3. LastOwed(main'[u], then.do = "likeStored") /\ ~NoneOwed(main'[u])
      BY <1>1, <2>2, <3>2, OwedGrows
    <3>4. (then.do = "likeStored") = want[u]
      BY <1>1, <1>6, <2>1, <2>2
    <3> QED BY <3>3, <3>4
  <2>3. ASSUME NoneOwed(Thens(r)), ~Owes(then)
        PROVE  /\ LastOwed(main'[u], want[u])
               /\ NoneOwed(main'[u]) => Ends(db, r, UserLike(u), want[u])
    <3>1. /\ LastOwed(main[u], want[u])
          /\ NoneOwed(main[u]) => Ends(db, q, UserLike(u), want[u])
      BY <1>6, <1>7, <2>3 DEF LikeInv, MirrorComing, q
    <3>2. MainQuiet(u)
      <4>1. CASE then = Nothing
        BY <1>2, <4>1 DEF MainQuiet
      <4>2. CASE then # Nothing
        <5>1. main'[u] = Append(main[u], then) /\ then \in Handler
          BY <1>1, <1>2, <4>2, HandlersType DEF then, q
        <5>2. Grows(main[u], main'[u]) /\ main'[u][Len(main'[u])] = then
          BY <1>1, <5>1, AppendGrows DEF Grows
        <5> QED BY <2>3, <5>2 DEF MainQuiet
      <4> QED BY <4>1, <4>2
    <3>3. /\ LastOwed(main'[u], want[u])
          /\ NoneOwed(main'[u]) => NoneOwed(main[u])
      BY <1>1, <3>1, <3>2, MainQuietOwed
    <3>4. Ends(db, q, UserLike(u), want[u]) => Ends(db, r, UserLike(u), want[u])
      BY <1>4 DEF LikeInv, q
    <3> QED BY <3>1, <3>3, <3>4
  <2> QED BY <1>2, <2>1, <2>2, <2>3 DEF MirrorComing
<1> QED
  BY <1>2, <1>3, <1>4, <1>7 DEF LikeInv, q

\* Nothing counts as delivered any more: Reached is about fewer writes.
LEMMA ReconnectKeeps ==
    ASSUME TypeOK, NEW u \in User, LikeInv(u), Reconnect(u), UNCHANGED likesVars
    PROVE  LikeInv(u)' /\ OthersKept(u)
<1>1. /\ sent'[u] = 0 /\ UNCHANGED <<db, pending, main, want, torn>>
      /\ \A v \in User \ {u} : sent'[v] = sent[v]
  BY DEF TypeOK, QueuesOK, Reconnect, likesVars
<1>2. \A d : Reached(db, pending[u], 0, d)
  BY DEF Reached
<1>3. LikeInv(u)'
  BY <1>1, <1>2 DEF LikeInv, MirrorComing
<1> QED BY <1>1, <1>3 DEF OthersKept

\* Writes stay, handlers go: either none was owed or torn says so.
LEMMA RestartKeeps ==
    ASSUME TypeOK, TypeOK', NEW u \in User, LikeInv(u), Restart(u)
    PROVE  LikeInv(u)' /\ OthersKept(u)
<1> DEFINE q == pending[u]
           r == pending'[u]
<1>1. /\ q \in Seq(Write(u)) /\ want[u] \in BOOLEAN /\ Len(q) \in Nat
      /\ r = [i \in 1..Len(q) |-> [q[i] EXCEPT !.then = Nothing]]
      /\ r \in Seq(Write(u))
      /\ main'[u] = << >> /\ sent'[u] = 0 /\ UNCHANGED <<db, want>>
      /\ torn'[u] = (torn[u] \/ Owing(u))
  BY DEF TypeOK, QueuesOK, HistoryOK, Restart, RestartClient
<1>2. OthersKept(u)
  BY DEF OthersKept, TypeOK, QueuesOK, HistoryOK, Restart, RestartClient
<1>3. /\ Len(r) = Len(q)
      /\ \A i \in 1..Len(q) : r[i].doc = q[i].doc /\ r[i].op = q[i].op /\ r[i].then = Nothing
  <2>1. Len(r) = Len(q)
    BY <1>1
  <2>2. ASSUME NEW i \in 1..Len(q)
        PROVE  r[i].doc = q[i].doc /\ r[i].op = q[i].op /\ r[i].then = Nothing
    <3>1. q[i] \in Write(u) /\ r[i] = [q[i] EXCEPT !.then = Nothing]
      BY <1>1
    <3> QED BY <3>1, StrippedType
  <2> QED BY <2>1, <2>2
<1>4. ASSUME NEW d, Ends(db, q, d, want[u]) PROVE Ends(db, r, d, want[u])
  <2>1. Len(q) \in Nat /\ want[u] \in BOOLEAN
    BY <1>1
  <2> DEFINE b == want[u]
  <2> HIDE DEF q, r, b
  <2>2. Ends(db, q, d, b) /\ b \in BOOLEAN
    BY <1>4, <2>1 DEF b
  <2>3. Ends(db, r, d, b)
    BY <1>3, <2>1, <2>2 DEF Ends
  <2> QED BY <2>3 DEF b
<1>5. \A d : Reached(db, r, 0, d)
  BY DEF Reached
<1>6. NoneOwed(Thens(r)) /\ LastOwed(Thens(r), want[u])
  <2>1. \A i \in DOMAIN Thens(r) : Thens(r)[i] = Nothing
    <3>1. r \in Seq(Write(u))
      BY <1>1
    <3> HIDE DEF q, r
    <3>2. /\ DOMAIN Thens(r) = 1..Len(r)
          /\ \A i \in 1..Len(r) : Thens(r)[i] = r[i].then
      BY <3>1, ThensFacts
    <3> QED BY <1>3, <3>2
  <2> QED BY <2>1 DEF NoneOwed, LastOwed, Owes
<1>7. ASSUME ~torn[u], ~Owing(u) PROVE MirrorComing(u)'
  <2>1. NoneOwed(main[u]) /\ NoneOwed(Thens(q))
    <3>1. /\ DOMAIN Thens(q) = 1..Len(q) /\ DOMAIN q = 1..Len(q)
          /\ \A i \in 1..Len(q) : Thens(q)[i] = q[i].then
      BY <1>1, ThensFacts
    <3> QED BY <1>7, <3>1 DEF NoneOwed, Owing
  <2>2. Ends(db, r, UserLike(u), want[u])
    BY <1>4, <1>7, <2>1 DEF LikeInv, MirrorComing
  <2>3. LastOwed(main'[u], want[u])
    BY <1>1 DEF LastOwed
  <2> QED BY <1>1, <1>6, <2>2, <2>3 DEF MirrorComing
<1> HIDE DEF r
<1>8. LikeInv(u)'
  <2>1. Ends(db, r, CartoonLike(u), want[u])
    BY <1>4 DEF LikeInv
  <2>2. r = pending'[u] BY DEF r
  <2> QED BY <1>1, <1>5, <1>7, <2>1, <2>2 DEF LikeInv
<1> QED BY <1>2, <1>8

-----------------------------------------------------------------------------
(* The invariant is inductive                                              *)

\* A step of u that touches no like: it issues at most a write of another
\* document, and runs or posts at most a handler that owes nothing.
Quiet(u) ==
    /\ MainQuiet(u) /\ WritesQuiet(u)
    /\ UNCHANGED <<db, sent, want, torn>>
    /\ \A v \in User \ {u} : pending'[v] = pending[v] /\ main'[v] = main[v]

\* A quiet step keeps the invariant of every account.
LEMMA QuietKeeps ==
    ASSUME TypeOK, TypeOK', \A v \in User : LikeInv(v), NEW u \in User, Quiet(u)
    PROVE  \A v \in User : LikeInv(v)'
<1>1. LikeInv(u)'
  BY QuietStep DEF Quiet
<1>2. OthersKept(u)
  BY DEF Quiet, OthersKept
<1> QED BY <1>1, <1>2, OthersStep

\* The screens' own steps, which write nothing.
LEMMA ScreenQuiet ==
    ASSUME NEW u \in User,
           FetchList(u) \/ Open(u) \/ Close(u) \/ Redisplay(u) \/ TapUnlikeRefused(u)
    PROVE  Quiet(u)
BY DEF FetchList, Open, Close, Redisplay, TapUnlikeRefused, Quiet, MainQuiet, WritesQuiet

\* The author's menu writes the cartoon's document only.
LEMMA MenuQuiet ==
    ASSUME TypeOK, NEW u \in User, TapEdit(u) \/ TapDelete(u)
    PROVE  Quiet(u)
<1>1. /\ pending[u] \in Seq(Write(u)) /\ u \in DOMAIN pending
      /\ edits + 1 \in Nat /\ visits[u] \in Nat
  BY BoundsAssumption DEF TypeOK, QueuesOK, CountsOK
<1>2. ASSUME NEW w \in Write(u), w.doc = Cartoon, w.then # Nothing => w.then.do = "deleted",
             Issue(u, <<w>>), UNCHANGED <<db, sent, main, want, torn>>
      PROVE  Quiet(u)
  <2>1. /\ pending'[u] = pending[u] \o <<w>>
        /\ \A v \in User \ {u} : pending'[v] = pending[v]
    BY <1>1, <1>2 DEF Issue, TypeOK, QueuesOK
  <2>2. /\ pending'[u] = Append(pending[u], w)
        /\ Grows(pending[u], pending'[u]) /\ pending'[u][Len(pending'[u])] = w
    BY <1>1, <2>1, AppendGrows DEF Grows
  <2>3. w.doc \notin {CartoonLike(u), UserLike(u)} /\ ~Owes(w.then)
    BY <1>2, DocsApart DEF Owes
  <2> QED BY <1>2, <2>1, <2>2, <2>3 DEF Quiet, MainQuiet, WritesQuiet
<1>3. CASE TapEdit(u)
  <2> DEFINE w == UpdateData(Cartoon, [text |-> edits + 1], Nothing)
  <2>1. w \in Write(u) /\ w.doc = Cartoon /\ w.then = Nothing
    BY <1>1, CartoonWrites DEF UpdateData
  <2>2. Issue(u, <<w>>) /\ UNCHANGED <<db, sent, main, want, torn>>
    BY <1>3 DEF TapEdit
  <2> HIDE DEF w
  <2> QED BY <1>2, <2>1, <2>2
<1>4. CASE TapDelete(u)
  <2> DEFINE w == DeleteDoc(Cartoon, [do |-> "deleted", visit |-> visits[u]])
  <2>1. w \in Write(u) /\ w.doc = Cartoon /\ w.then.do = "deleted"
    BY <1>1, CartoonWrites DEF DeleteDoc
  <2>2. Issue(u, <<w>>) /\ UNCHANGED <<db, sent, main, want, torn>>
    BY <1>4 DEF TapDelete
  <2> HIDE DEF w
  <2> QED BY <1>2, <2>1, <2>2
<1> QED BY <1>3, <1>4

\* A handler that only redraws leaves the main queue.
LEMMA ShowQuiet ==
    ASSUME TypeOK, NEW u \in User, Checked(u) \/ Edited(u) \/ Deleted(u)
    PROVE  Quiet(u)
<1>1. /\ main[u] # << >> /\ Head(main[u]).do \in {"checked", "edited", "deleted"}
      /\ main' = [main EXCEPT ![u] = Tail(@)] /\ UNCHANGED <<db, pending, sent, want, torn>>
  BY DEF Checked, Edited, Deleted, Due
<1>2. ~Owes(Head(main[u]))
  BY <1>1 DEF Owes
<1> QED BY <1>1, <1>2 DEF Quiet, MainQuiet, WritesQuiet, TypeOK, QueuesOK

\* An answered read adds a handler that only redraws.
LEMMA AnswerQuiet ==
    ASSUME TypeOK, TypeOK', NEW u \in User, Answer(u)
    PROVE  Quiet(u)
<1>1. ASSUME NEW h, h.do \in {"checked", "edited"}, Post(u, h),
             UNCHANGED <<db, pending, sent, want, torn>>
      PROVE  Quiet(u)
  <2>1. /\ main[u] \in Seq(Handler) /\ main'[u] \in Seq(Handler)
        /\ main'[u] = Append(main[u], h)
        /\ \A v \in User \ {u} : main'[v] = main[v]
    BY <1>1 DEF Post, TypeOK, QueuesOK
  <2>2. Grows(main[u], main'[u]) /\ main'[u][Len(main'[u])] = h
    BY <2>1 DEF Grows
  <2>3. ~Owes(h)
    BY <1>1 DEF Owes
  <2> QED BY <1>1, <2>1, <2>2, <2>3 DEF Quiet, MainQuiet, WritesQuiet
<1>2. CASE UNCHANGED main /\ UNCHANGED <<db, pending, sent, want, torn>>
  BY <1>2 DEF Quiet, MainQuiet, WritesQuiet
<1>3. CASE AnswerLikeCheck(u)
  <2>1. PICK r \in reads[u], b \in BOOLEAN :
           /\ Post(u, [do |-> "checked", visit |-> r.visit, exists |-> b])
           /\ UNCHANGED <<db, pending, sent, want, torn>>
    BY <1>3 DEF AnswerLikeCheck
  <2>2. [do |-> "checked", visit |-> r.visit, exists |-> b].do = "checked"
    OBVIOUS
  <2> QED BY <1>1, <2>1, <2>2
<1>4. CASE AnswerEdited(u)
  <2>1. PICK r \in reads[u] :
           /\ \/ UNCHANGED main
              \/ Post(u, [do |-> "edited", visit |-> r.visit,
                          edit |-> r.edit, cartoon |-> View(u)[Cartoon]])
           /\ UNCHANGED <<db, pending, sent, want, torn>>
    BY <1>4 DEF AnswerEdited
  <2>2. [do |-> "edited", visit |-> r.visit,
         edit |-> r.edit, cartoon |-> View(u)[Cartoon]].do = "edited"
    OBVIOUS
  <2> QED BY <1>1, <1>2, <2>1, <2>2
<1>5. CASE ReadFails(u)
  BY <1>2, <1>5 DEF ReadFails
<1> QED BY <1>3, <1>4, <1>5 DEF Answer

\* The notice is another document, and its handler redraws.
LEMMA NoticeQuiet ==
    ASSUME TypeOK, TypeOK', NEW u \in User, LikeMirrored(u)
    PROVE  Quiet(u)
<1>1. /\ main[u] # << >> /\ Head(main[u]).do = "likeMirrored"
      /\ main' = [main EXCEPT ![u] = Tail(@)] /\ UNCHANGED <<db, sent, want, torn>>
      /\ main[u] \in Seq(Handler) /\ Head(main[u]) \in Handler
      /\ pending[u] \in Seq(Write(u)) /\ main \in [User -> Seq(Handler)]
  BY DEF LikeMirrored, Due, likesVars, TypeOK, QueuesOK
<1>2. Head(main[u]).tap \in 1..MaxTaps
  BY <1>1 DEF Handler, TapHandler
<1>3. MainQuiet(u) /\ \A v \in User \ {u} : main'[v] = main[v]
  BY <1>1 DEF MainQuiet, Owes
<1>4. WritesQuiet(u) /\ \A v \in User \ {u} : pending'[v] = pending[v]
  <2>1. CASE UNCHANGED pending
    BY <2>1 DEF WritesQuiet
  <2>2. CASE ~UNCHANGED pending
    <3> DEFINE w == SetData(Notice(u, Head(main[u]).tap), EmptyDoc, Nothing)
    <3>1. Issue(u, <<w>>)
      BY <2>2 DEF LikeMirrored, UploadFeedBack
    <3>2. w \in Write(u) /\ w.doc \notin {CartoonLike(u), UserLike(u)} /\ ~Owes(w.then)
      BY <1>2, LikeWrites, DocsApart DEF Owes, SetData
    <3> HIDE DEF w
    <3>3. /\ pending'[u] = Append(pending[u], w)
          /\ \A v \in User \ {u} : pending'[v] = pending[v]
      BY <1>1, <3>1, <3>2, AppendGrows DEF Issue, TypeOK, QueuesOK
    <3>4. Grows(pending[u], pending'[u]) /\ pending'[u][Len(pending'[u])] = w
      BY <1>1, <3>2, <3>3, AppendGrows DEF Grows
    <3> QED BY <3>2, <3>3, <3>4 DEF WritesQuiet
  <2> QED BY <2>1, <2>2
<1> QED BY <1>1, <1>3, <1>4 DEF Quiet

\* Taps that write: TapStep for a like and for an unlike.
LEMMA TapsKeep ==
    ASSUME TypeOK, TypeOK', NEW u \in User, LikeInv(u), TapLike(u) \/ TapUnlike(u)
    PROVE  LikeInv(u)' /\ OthersKept(u)
<1>1. /\ taps[u] + 1 \in 1..MaxTaps /\ cell[u].like \in Nat
      /\ cell[u].like > 0 => cell[u].like - 1 \in Nat
  BY BoundsAssumption DEF TapLike, TapUnlike, Tap, TypeOK, CountsOK, ScreensOK, Copy
<1>2. OthersKept(u)
  BY DEF TapLike, TapUnlike, LikeCartoon, UnLikeCartoon, Issue, OthersKept, TypeOK,
         QueuesOK, HistoryOK
<1>3. CASE TapLike(u)
  <2> DEFINE count == UpdateData(Cartoon, [like |-> cell[u].like + 1], Nothing)
             store == StoreLike(u, taps[u] + 1)
  <2>1. count \in Write(u) /\ count.doc = Cartoon /\ count.then = Nothing
    <3>1. cell[u].like + 1 \in Nat
      BY <1>1
    <3> QED BY <3>1, CartoonWrites DEF UpdateData
  <2>2. /\ store \in Write(u) /\ store.doc = CartoonLike(u) /\ store.op = "set"
        /\ Owes(store.then) /\ store.then.do = "likeStored"
    <3>1. store \in Write(u)
      BY <1>1, LikeWrites
    <3>2. /\ store.doc = CartoonLike(u) /\ store.op = "set"
          /\ store.then.do = "likeStored" /\ store.then \in Handler
      BY <1>1 DEF StoreLike, SetData, Handler, TapHandler
    <3> QED BY <3>1, <3>2, NothingAssumption DEF Owes
  <2>3. Issue(u, <<count, store>>)
    BY <1>3 DEF TapLike, LikeCartoon
  <2>4. /\ want' = [want EXCEPT ![u] = TRUE] /\ torn' = [torn EXCEPT ![u] = FALSE]
        /\ UNCHANGED <<db, sent, main>>
    BY <1>3 DEF TapLike
  <2> HIDE DEF count, store
  <2>5. LikeInv(u)'
    BY <2>1, <2>2, <2>3, <2>4, TapStep
  <2> QED BY <1>2, <2>5
<1>4. CASE TapUnlike(u)
  <2> DEFINE count == UpdateData(Cartoon, [like |-> cell[u].like - 1], Nothing)
             store == StoreUnlike(u, taps[u] + 1)
  <2>1. cell[u].like > 0
    BY <1>4 DEF TapUnlike, MayUnLike
  <2>2. /\ count \in Write(u) /\ count.doc = Cartoon /\ count.then = Nothing
    BY <1>1, <2>1, CartoonWrites DEF UpdateData
  <2>3. /\ store \in Write(u) /\ store.doc = CartoonLike(u) /\ store.op # "set"
        /\ Owes(store.then) /\ store.then.do # "likeStored"
    <3>1. store \in Write(u)
      BY <1>1, LikeWrites
    <3>2. /\ store.doc = CartoonLike(u) /\ store.op # "set"
          /\ store.then.do = "unlikeStored" /\ store.then \in Handler
      BY <1>1 DEF StoreUnlike, DeleteDoc, Handler, TapHandler
    <3> QED BY <3>1, <3>2, NothingAssumption DEF Owes
  <2>4. Issue(u, <<count, store>>)
    BY <1>4 DEF TapUnlike, UnLikeCartoon
  <2>5. /\ want' = [want EXCEPT ![u] = FALSE] /\ torn' = [torn EXCEPT ![u] = FALSE]
        /\ UNCHANGED <<db, sent, main>>
    BY <1>4 DEF TapUnlike
  <2> HIDE DEF count, store
  <2>6. LikeInv(u)'
    BY <2>2, <2>3, <2>4, <2>5, TapStep
  <2> QED BY <1>2, <2>6
<1> QED BY <1>3, <1>4

\* Owed handlers: StoredStep for a like and for an unlike.
LEMMA StoredKeeps ==
    ASSUME TypeOK, TypeOK', NEW u \in User, LikeInv(u), LikeStored(u) \/ UnlikeStored(u)
    PROVE  LikeInv(u)' /\ OthersKept(u)
<1>1. /\ main[u] # << >> /\ Owes(Head(main[u])) /\ main' = [main EXCEPT ![u] = Tail(@)]
      /\ UNCHANGED <<db, sent, want, torn>> /\ Head(main[u]) \in Handler
  <2>1. /\ main[u] # << >> /\ Head(main[u]).do \in {"likeStored", "unlikeStored"}
        /\ main' = [main EXCEPT ![u] = Tail(@)] /\ UNCHANGED <<db, sent, want, torn>>
    BY DEF LikeStored, UnlikeStored, Due, likesVars
  <2>2. Head(main[u]) \in Handler
    BY <2>1 DEF TypeOK, QueuesOK
  <2> QED BY <2>1, <2>2, NothingAssumption DEF Owes
<1>2. OthersKept(u)
  BY DEF LikeStored, UnlikeStored, Issue, OthersKept, likesVars, TypeOK, QueuesOK, HistoryOK
<1>3. CASE LikeStored(u)
  <2> DEFINE w == SetData(UserLike(u), EmptyDoc,
                          [do |-> "likeMirrored", tap |-> Head(main[u]).tap])
  <2>1. Issue(u, <<w>>) /\ Head(main[u]).do = "likeStored"
    BY <1>3 DEF LikeStored, Due
  <2>2. Head(main[u]).tap \in 1..MaxTaps
    BY <1>1, <2>1 DEF Handler, TapHandler
  <2>3. w \in Write(u) /\ w.doc = UserLike(u) /\ w.op = "set" /\ ~Owes(w.then)
    BY <2>2, LikeWrites DEF SetData, Owes
  <2> HIDE DEF w
  <2>4. LikeInv(u)'
    BY <1>1, <2>1, <2>3, StoredStep
  <2> QED BY <1>2, <2>4
<1>4. CASE UnlikeStored(u)
  <2> DEFINE w == DeleteDoc(UserLike(u), Nothing)
  <2>1. Issue(u, <<w>>) /\ Head(main[u]).do # "likeStored"
    BY <1>4 DEF UnlikeStored, Due
  <2>2. w \in Write(u) /\ w.doc = UserLike(u) /\ w.op # "set" /\ ~Owes(w.then)
    BY MirrorDelete DEF DeleteDoc, Owes
  <2> HIDE DEF w
  <2>3. LikeInv(u)'
    BY <1>1, <2>1, <2>2, StoredStep
  <2> QED BY <1>2, <2>3
<1> QED BY <1>3, <1>4

\* At the start nothing is queued, nothing is liked and nothing is wanted.
LEMMA InitInv == Init => IInv
<1> SUFFICES ASSUME Init, NEW u \in User PROVE LikeInv(u)
  BY InitType DEF IInv
<1>1. /\ pending[u] = << >> /\ sent[u] = 0 /\ main[u] = << >> /\ want[u] = FALSE
      /\ db[CartoonLike(u)] = NoDoc /\ db[UserLike(u)] = NoDoc
  BY DocsApart DEF Init, FirestoreInit, Docs
<1>2. Len(pending[u]) = 0 /\ DOMAIN main[u] = {}
  BY <1>1
<1>3. /\ Reached(db, pending[u], sent[u], CartoonLike(u))
      /\ Reached(db, pending[u], sent[u], UserLike(u))
  BY <1>1 DEF Reached
<1>4. /\ Ends(db, pending[u], CartoonLike(u), want[u])
      /\ Ends(db, pending[u], UserLike(u), want[u])
  BY <1>1, <1>2 DEF Ends
<1>5. MirrorComing(u)
  <2>1. DOMAIN Thens(pending[u]) = {}
    BY <1>2 DEF Thens
  <2> QED BY <1>2, <1>4, <2>1 DEF MirrorComing, LastOwed
<1> QED BY <1>3, <1>4, <1>5 DEF LikeInv

\* Every step keeps the invariant: one step per kind of action.
LEMMA StepInv == IInv /\ [Next]_vars => IInv'
<1> SUFFICES ASSUME IInv, [Next]_vars PROVE \A v \in User : LikeInv(v)'
  BY StepType DEF IInv
<1>1. TypeOK /\ TypeOK' /\ \A v \in User : LikeInv(v)
  BY StepType DEF IInv
<1>2. ASSUME NEW u \in User, Quiet(u) PROVE \A v \in User : LikeInv(v)'
  BY <1>1, <1>2, QuietKeeps
<1>3. ASSUME NEW u \in User, LikeInv(u)', OthersKept(u) PROVE \A v \in User : LikeInv(v)'
  BY <1>1, <1>3, OthersStep
<1>4. ASSUME NEW u \in User, Screen(u) PROVE \A v \in User : LikeInv(v)'
  <2>1. CASE TapLike(u) \/ TapUnlike(u)
    BY <1>1, <1>3, <2>1, TapsKeep
  <2>2. CASE TapEdit(u) \/ TapDelete(u)
    BY <1>1, <1>2, <2>2, MenuQuiet
  <2> QED BY <1>2, <1>4, <2>1, <2>2, ScreenQuiet DEF Screen
<1>5. ASSUME NEW u \in User, RunHandler(u) PROVE \A v \in User : LikeInv(v)'
  <2>1. CASE LikeStored(u) \/ UnlikeStored(u)
    BY <1>1, <1>3, <2>1, StoredKeeps
  <2>2. CASE LikeMirrored(u)
    BY <1>1, <1>2, <2>2, NoticeQuiet
  <2> QED BY <1>1, <1>2, <1>5, <2>1, <2>2, ShowQuiet DEF RunHandler
<1>6. ASSUME NEW u \in User, Answer(u) PROVE \A v \in User : LikeInv(v)'
  BY <1>1, <1>2, <1>6, AnswerQuiet
<1>7. ASSUME NEW u \in User, Client(u) PROVE \A v \in User : LikeInv(v)'
  BY <1>1, <1>3, <1>7, TransmitKeeps, AcknowledgeKeeps, ReconnectKeeps DEF Client
<1>8. ASSUME NEW u \in User, Restart(u) PROVE \A v \in User : LikeInv(v)'
  BY <1>1, <1>3, <1>8, RestartKeeps
<1>9. CASE UNCHANGED vars
  <2> SUFFICES ASSUME NEW u \in User PROVE \A v \in User : LikeInv(v)'
    OBVIOUS
  <2>1. Quiet(u)
    BY <1>9 DEF vars, firestoreVars, likesVars, Quiet, MainQuiet, WritesQuiet
  <2> QED BY <1>2, <2>1
<1> QED BY <1>4, <1>5, <1>6, <1>7, <1>8, <1>9 DEF Next

\* The invariant holds in every reachable state: at every moment, whatever is
\* in the queues, the last write to the record of a like and the last handler
\* that owes its mirror agree with the account's last issued tap.
THEOREM Inductive == Spec => []IInv
BY InitInv, StepInv, PTL DEF Spec

\* In every instance, once the device has no unacknowledged write, the
\* cartoon's record of its account's like is what the last issued tap asked
\* for: likeCartoon and unLikeCartoon write it absolutely, the queue keeps
\* their order, and neither a resend nor a restart can change the outcome.
THEOREM RecordCorrect == Spec => []LikeRecorded
<1>1. IInv => LikeRecorded
  <2> SUFFICES ASSUME IInv, NEW u \in User, pending[u] = << >>
               PROVE  Exists(CartoonLike(u)) <=> want[u]
    BY DEF LikeRecorded
  <2>1. Ends(db, pending[u], CartoonLike(u), want[u]) /\ Len(pending[u]) = 0
    BY DEF IInv, LikeInv
  <2> QED BY <2>1 DEF Ends, Exists
<1> QED BY <1>1, Inductive, PTL

\* In every instance, once the device is settled and no restart has dropped
\* a handler since its account's last issued tap, the account's own list
\* agrees too: every write of the first place leaves a handler that writes
\* the second, and the handlers run in the order of those writes.
THEOREM MirrorCorrect == Spec => []MirrorAgrees
<1>1. IInv => MirrorAgrees
  <2> SUFFICES ASSUME IInv, NEW u \in User, Settled(u), ~torn[u]
               PROVE  Exists(UserLike(u)) <=> want[u]
    BY DEF MirrorAgrees
  <2>1. pending[u] = << >> /\ main[u] = << >> /\ Len(pending[u]) = 0 /\ MirrorComing(u)
    BY DEF IInv, LikeInv, Settled
  <2>2. NoneOwed(Thens(pending[u])) /\ NoneOwed(main[u])
    BY <2>1 DEF Thens, NoneOwed
  <2>3. Ends(db, pending[u], UserLike(u), want[u])
    BY <2>1, <2>2 DEF MirrorComing
  <2> QED BY <2>1, <2>3 DEF Ends, Exists
<1> QED BY <1>1, Inductive, PTL

-----------------------------------------------------------------------------
(* The cartoon's counter and its deletion                                  *)

\* The counter is written from copies of copies of it, so LikeBounded is
\* not inductive: the invariant bounds every copy, those in the list, the
\* controller, the cell, the queued writes and the answers on their way.

\* Where a copy of the counter can be, each at most n.
DocAtMost(data, n) == data[Cartoon] # NoDoc => data[Cartoon].like <= n
WriteAtMost(w, n) == w.doc = Cartoon /\ w.val \in [like : Nat] => w.val.like <= n
QueueAtMost(queue, n) == \A i \in 1..Len(queue) : WriteAtMost(queue[i], n)
AnswersAtMost(handlers, n) ==
    \A i \in 1..Len(handlers) : handlers[i].do = "edited" => handlers[i].cartoon.like <= n
ScreenAtMost(u, n) ==
    /\ listed[u] # Unfetched => listed[u].like <= n
    /\ vc[u] # Closed => vc[u].like <= n
    /\ cell[u] # Closed => cell[u].like <= n

CountInv ==
    /\ TypeOK
    /\ DocAtMost(db, likes)
    /\ \A u \in User : /\ ScreenAtMost(u, likes)
                       /\ QueueAtMost(pending[u], likes)
                       /\ AnswersAtMost(main[u], likes)

-----------------------------------------------------------------------------
(* Documents and queues                                                    *)

\* A write of at most n leaves a counter of at most n.
LEMMA ApplyAtMost ==
    ASSUME NEW data, DocsType(data), NEW u \in User, NEW w \in Write(u), NEW n \in Nat,
           DocAtMost(data, n), WriteAtMost(w, n)
    PROVE  DocAtMost(Apply(data, w), n)
<1>1. CASE w.doc # Cartoon
  BY <1>1 DEF Apply, DocAtMost, DocsType, Docs
<1>2. CASE w.doc = Cartoon
  <2>1. \/ w.op = "update" /\ w.val \in [like : Nat] \cup [text : Nat]
        \/ w.op = "delete"
    BY <1>2 DEF Write, WriteOf, Cartoon, CartoonLike, UserLike, Notice
  <2>2. Apply(data, w)[Cartoon] = AfterWrite(data[Cartoon], w)
    BY <1>2 DEF Apply, DocsType, Docs
  <2>3. CASE w.op = "delete" \/ data[Cartoon] = NoDoc
    BY <2>1, <2>2, <2>3 DEF AfterWrite, DocAtMost
  <2>4. CASE w.op = "update" /\ data[Cartoon] # NoDoc
    <3>1. data[Cartoon] \in CartoonDoc /\ data[Cartoon].like <= n
      BY <2>4 DEF DocsType, DocAtMost
    <3>2. AfterWrite(data[Cartoon], w) = Merge(data[Cartoon], w.val)
      BY <2>4 DEF AfterWrite
    <3>3. CASE w.val \in [like : Nat]
      <4>1. Merge(data[Cartoon], w.val).like = w.val.like
        BY <3>1, <3>3 DEF Merge, CartoonDoc
      <4> QED BY <1>2, <2>2, <3>2, <3>3, <4>1 DEF DocAtMost, WriteAtMost
    <3>4. CASE w.val \in [text : Nat]
      <4>1. Merge(data[Cartoon], w.val).like = data[Cartoon].like
        BY <3>1, <3>4 DEF Merge, CartoonDoc
      <4> QED BY <2>2, <3>1, <3>2, <4>1 DEF DocAtMost
    <3> QED BY <2>1, <2>4, <3>3, <3>4
  <2> QED BY <2>1, <2>3, <2>4
<1> QED BY <1>1, <1>2

\* So a device sees a counter of at most n.
LEMMA OverlayAtMost ==
    ASSUME NEW data, DocsType(data), NEW u \in User, NEW queue \in Seq(Write(u)), NEW n \in Nat,
           DocAtMost(data, n), QueueAtMost(queue, n)
    PROVE  DocAtMost(Overlay(data, queue), n)
<1>1. PICK after :
         /\ after[0] = data
         /\ \A i \in 1..Len(queue) : after[i] = Apply(after[i - 1], queue[i])
         /\ Overlay(data, queue) = after[Len(queue)]
  BY OverlaySteps
<1> DEFINE Beyond == {i \in 0..Len(queue) : ~ (DocsType(after[i]) /\ DocAtMost(after[i], n))}
<1>2. Beyond = {}
  <2> SUFFICES ASSUME Beyond # {} PROVE FALSE
    OBVIOUS
  <2>0. Beyond \in SUBSET Nat
    OBVIOUS
  <2>1. PICK m \in Beyond : \A k \in Beyond : m <= k
    <3> HIDE DEF Beyond
    <3> QED BY <2>0, Least
  <2>2. m # 0
    BY <1>1, <2>1
  <2>3. /\ DocsType(after[m - 1]) /\ DocAtMost(after[m - 1], n)
        /\ queue[m] \in Write(u) /\ WriteAtMost(queue[m], n)
    BY <2>1, <2>2 DEF QueueAtMost
  <2>4. after[m] = Apply(after[m - 1], queue[m])
    BY <1>1, <2>1, <2>2
  <2> QED BY <2>1, <2>3, <2>4, ApplyType, ApplyAtMost
<1> QED BY <1>1, <1>2

\* So the counter a device reads is at most the likes issued.
LEMMA ViewAtMost ==
    ASSUME CountInv, NEW u \in User
    PROVE  /\ View(u)[Cartoon] \in CartoonDoc \cup {NoDoc}
           /\ View(u)[Cartoon] # NoDoc => View(u)[Cartoon].like <= likes
<1>1. /\ DocsType(db) /\ pending[u] \in Seq(Write(u)) /\ likes \in Nat
  BY DEF CountInv, TypeOK, DocsOK, QueuesOK, HistoryOK
<1>2. DocsType(View(u)) /\ DocAtMost(View(u), likes)
  BY <1>1, OverlayType, OverlayAtMost DEF CountInv, View
<1> QED BY <1>2 DEF DocsType, DocAtMost

\* A queue that writes of at most n join stays so.
LEMMA JoinAtMost ==
    ASSUME NEW S, NEW queue \in Seq(S), NEW w \in S, NEW n, QueueAtMost(queue, n), WriteAtMost(w, n)
    PROVE  QueueAtMost(queue \o <<w>>, n)
<1>1. /\ Len(queue \o <<w>>) = Len(queue) + 1 /\ Len(queue) \in Nat
      /\ \A i \in 1..Len(queue) : (queue \o <<w>>)[i] = queue[i]
      /\ (queue \o <<w>>)[Len(queue) + 1] = w
  OBVIOUS
<1> QED BY <1>1 DEF QueueAtMost

\* What bounded the counter bounds it by more as well.
LEMMA MoreLikes ==
    ASSUME CountInv, NEW n \in Nat, likes <= n
    PROVE  /\ DocAtMost(db, n)
           /\ \A u \in User : /\ ScreenAtMost(u, n)
                              /\ QueueAtMost(pending[u], n)
                              /\ AnswersAtMost(main[u], n)
<1>1. likes \in Nat
  BY DEF CountInv, TypeOK, HistoryOK
<1>2. DocAtMost(db, n)
  BY <1>1 DEF CountInv, DocAtMost, TypeOK, DocsOK, DocsType, CartoonDoc
<1>3. ASSUME NEW u \in User PROVE ScreenAtMost(u, n)
  BY <1>1 DEF CountInv, ScreenAtMost, TypeOK, ScreensOK, CartoonDoc, Copy
<1>4. ASSUME NEW u \in User PROVE QueueAtMost(pending[u], n)
  BY <1>1 DEF CountInv, QueueAtMost, WriteAtMost
<1>5. ASSUME NEW u \in User PROVE AnswersAtMost(main[u], n)
  <2>1. ASSUME NEW i \in 1..Len(main[u]), main[u][i].do = "edited"
        PROVE  main[u][i].cartoon.like <= n
    <3>1. main[u][i] \in Handler
      BY DEF CountInv, TypeOK, QueuesOK
    <3>2. main[u][i].cartoon.like \in Nat
      BY <2>1, <3>1 DEF Handler, TapHandler, CartoonDoc
    <3>3. main[u][i].cartoon.like <= likes
      BY <2>1 DEF CountInv, AnswersAtMost
    <3> QED BY <1>1, <3>2, <3>3
  <2> QED BY <2>1 DEF AnswersAtMost
<1> QED BY <1>2, <1>3, <1>4, <1>5

-----------------------------------------------------------------------------
(* Steps                                                                   *)

\* A step of u that leaves the likes alone, queues nothing and shows or
\* answers nothing beyond them.
Showing(u) ==
    /\ likes' = likes /\ db' = db
    /\ pending' = pending
    /\ \A v \in User \ {u} : /\ listed'[v] = listed[v] /\ vc'[v] = vc[v] /\ cell'[v] = cell[v]
                             /\ main'[v] = main[v]
    /\ ScreenAtMost(u, likes)'
    /\ AnswersAtMost(main'[u], likes)

\* A step that only shows something keeps the bound.
LEMMA ShowingKeeps ==
    ASSUME CountInv, TypeOK', NEW u \in User, Showing(u)
    PROVE  CountInv'
<1>1. ASSUME NEW v \in User
      PROVE  ScreenAtMost(v, likes)' /\ AnswersAtMost(main[v], likes)'
  <2>1. CASE v = u
    BY <2>1 DEF Showing
  <2>2. CASE v # u
    BY <2>2 DEF Showing, CountInv, ScreenAtMost
  <2> QED BY <2>1, <2>2
<1>2. DocAtMost(db, likes)' /\ \A v \in User : QueueAtMost(pending[v], likes)'
  BY DEF Showing, CountInv
<1> QED BY <1>1, <1>2 DEF CountInv

\* A step of u that queues a write of at most the likes, or none.
Writing(u) ==
    /\ likes' = likes /\ db' = db
    /\ listed' = listed /\ vc' = vc /\ cell' = cell
    /\ \A v \in User : main'[v] = main[v] \/ (main[v] # << >> /\ main'[v] = Tail(main[v]))
    /\ \/ pending' = pending
       \/ \E w \in Write(u) : WriteAtMost(w, likes) /\ Issue(u, <<w>>)

\* What bounds a queue or a list of handlers bounds what is left of it.
LEMMA TailAtMost ==
    ASSUME NEW S, NEW q \in Seq(S), q # << >>, NEW n
    PROVE  /\ AnswersAtMost(q, n) => AnswersAtMost(Tail(q), n)
           /\ QueueAtMost(q, n) => QueueAtMost(Tail(q), n)
<1>1. Len(Tail(q)) = Len(q) - 1 /\ Len(q) \in Nat /\ \A i \in 1..Len(Tail(q)) : Tail(q)[i] = q[i + 1]
  OBVIOUS
<1> QED BY <1>1 DEF AnswersAtMost, QueueAtMost

\* A step that only queues a write of at most the likes issued keeps it too.
LEMMA WritingKeeps ==
    ASSUME CountInv, TypeOK', NEW u \in User, Writing(u)
    PROVE  CountInv'
<1>1. DocAtMost(db, likes)' /\ \A v \in User : ScreenAtMost(v, likes)'
  BY DEF Writing, CountInv, ScreenAtMost
<1>2. ASSUME NEW v \in User PROVE AnswersAtMost(main[v], likes)'
  <2>1. main[v] \in Seq(Handler)
    BY DEF CountInv, TypeOK, QueuesOK
  <2> QED BY <2>1, TailAtMost DEF Writing, CountInv
<1>3. ASSUME NEW v \in User PROVE QueueAtMost(pending[v], likes)'
  <2>1. CASE pending' = pending
    BY <2>1 DEF Writing, CountInv
  <2>2. CASE pending' # pending
    <3>1. PICK w \in Write(u) : WriteAtMost(w, likes) /\ Issue(u, <<w>>)
      BY <2>2 DEF Writing
    <3>2. /\ pending'[u] = pending[u] \o <<w>>
          /\ v # u => pending'[v] = pending[v]
          /\ pending[u] \in Seq(Write(u))
      BY <3>1 DEF Issue, CountInv, TypeOK, QueuesOK
    <3>3. QueueAtMost(pending[u] \o <<w>>, likes)
      BY <3>1, <3>2, JoinAtMost DEF CountInv
    <3> QED BY <3>2, <3>3 DEF Writing, CountInv
  <2> QED BY <2>1, <2>2
<1> QED BY <1>1, <1>2, <1>3 DEF CountInv

\* The screens' own steps, and the answers they are shown.
LEMMA ScreenShows ==
    ASSUME CountInv, NEW u \in User,
           \/ FetchList(u) \/ Open(u) \/ Close(u) \/ Redisplay(u) \/ TapUnlikeRefused(u)
    PROVE  Showing(u)
<1> USE DEF Showing, ScreenAtMost, CountInv, TypeOK, ScreensOK
<1>1. CASE FetchList(u)
  BY <1>1, ViewAtMost DEF FetchList
<1>2. CASE Open(u)
  BY <1>2 DEF Open, NewCopy
<1>3. CASE Close(u)
  BY <1>3 DEF Close, Leave
<1>4. CASE Redisplay(u)
  BY <1>4 DEF Redisplay
<1>5. CASE TapUnlikeRefused(u)
  <2>1. /\ cell[u] \in Copy /\ cell' = [cell EXCEPT ![u].didLike = ~@]
    BY <1>5 DEF TapUnlikeRefused, Tap
  <2>2. cell'[u].like = cell[u].like /\ cell[u].like <= likes
    BY <1>5, <2>1 DEF Copy, TapUnlikeRefused, Tap
  <2> QED BY <1>5, <2>1, <2>2 DEF TapUnlikeRefused, Tap
<1> QED BY <1>1, <1>2, <1>3, <1>4, <1>5

\* The handlers of the two reads and of a deletion show what was answered.
LEMMA HandlerShows ==
    ASSUME CountInv, NEW u \in User, Checked(u) \/ Edited(u) \/ Deleted(u)
    PROVE  Showing(u)
<1>1. /\ main[u] \in Seq(Handler) /\ main[u] # << >>
      /\ AnswersAtMost(Tail(main[u]), likes)
      /\ Head(main[u]) = main[u][1] /\ 1 \in 1..Len(main[u])
  <2>1. main[u] \in Seq(Handler) /\ main[u] # << >>
    BY DEF Checked, Edited, Deleted, Due, CountInv, TypeOK, QueuesOK
  <2> QED BY <2>1, TailAtMost DEF CountInv
<1> USE DEF Showing, ScreenAtMost, CountInv, TypeOK, ScreensOK, QueuesOK
<1>2. CASE Checked(u)
  <2> DEFINE copy == [vc[u] EXCEPT !.didLike = Head(main[u]).exists, !.checked = TRUE]
  <2>1. vc[u] # Closed => copy.like = vc[u].like
    BY DEF Copy
  <2>2. Show(u, copy) /\ listed' = listed /\ likes' = likes /\ db' = db /\ pending' = pending
        /\ main' = [main EXCEPT ![u] = Tail(@)]
    BY <1>2 DEF Checked
  <2> HIDE DEF copy
  <2> QED BY <1>1, <2>1, <2>2 DEF Show, Current
<1>3. CASE Edited(u)
  <2> DEFINE copy == NewCopy(Head(main[u]).cartoon)
  <2>1. copy.like <= likes
    BY <1>1, <1>3 DEF Edited, Due, NewCopy, AnswersAtMost
  <2>2. Show(u, copy) /\ listed' = listed /\ likes' = likes /\ db' = db /\ pending' = pending
        /\ main' = [main EXCEPT ![u] = Tail(@)]
    BY <1>3 DEF Edited
  <2> HIDE DEF copy
  <2> QED BY <1>1, <2>1, <2>2 DEF Show, Current
<1>4. CASE Deleted(u)
  BY <1>1, <1>4 DEF Deleted, Leave
<1> QED BY <1>2, <1>3, <1>4

\* An answer carries the counter the device sees.
LEMMA AnswerShows ==
    ASSUME CountInv, NEW u \in User, Answer(u)
    PROVE  Showing(u)
<1>1. /\ main[u] \in Seq(Handler) /\ AnswersAtMost(main[u], likes)
      /\ main \in [User -> Seq(Handler)]
  BY DEF CountInv, TypeOK, QueuesOK
<1>2. ASSUME NEW h, h.do = "edited" => h.cartoon.like <= likes,
             main' = [main EXCEPT ![u] = Append(@, h)]
      PROVE  AnswersAtMost(main'[u], likes) /\ \A v \in User \ {u} : main'[v] = main[v]
  <2>1. main'[u] = Append(main[u], h) /\ \A v \in User \ {u} : main'[v] = main[v]
    BY <1>1, <1>2
  <2>2. /\ Len(main'[u]) = Len(main[u]) + 1 /\ Len(main[u]) \in Nat
        /\ \A i \in 1..Len(main[u]) : main'[u][i] = main[u][i]
        /\ main'[u][Len(main[u]) + 1] = h
    BY <1>1, <2>1
  <2> QED BY <1>1, <1>2, <2>1, <2>2 DEF AnswersAtMost
<1>3. ASSUME AnswersAtMost(main'[u], likes), \A v \in User \ {u} : main'[v] = main[v],
             UNCHANGED <<likes, db, pending, listed, vc, cell>>
      PROVE  Showing(u)
  BY <1>3 DEF Showing, CountInv, ScreenAtMost
<1>4. CASE AnswerLikeCheck(u)
  <2>1. PICK r \in reads[u] : AnswerLikeCheck(u)!(r)
    BY <1>4 DEF AnswerLikeCheck
  <2> DEFINE h == [do |-> "checked", visit |-> r.visit, exists |-> View(u)[UserLike(u)] # NoDoc]
  <2>2. h.do # "edited" /\ main' = [main EXCEPT ![u] = Append(@, h)]
        /\ UNCHANGED <<likes, db, pending, listed, vc, cell>>
    BY <2>1 DEF Post
  <2> HIDE DEF h
  <2> QED BY <1>2, <1>3, <2>2
<1>5. CASE AnswerEdited(u)
  <2>1. PICK r \in reads[u] : AnswerEdited(u)!(r)
    BY <1>5 DEF AnswerEdited
  <2>2. UNCHANGED <<likes, db, pending, listed, vc, cell>>
    BY <2>1
  <2>3. CASE View(u)[Cartoon] = NoDoc
    BY <1>1, <1>3, <2>1, <2>2, <2>3
  <2>4. CASE View(u)[Cartoon] # NoDoc
    <3> DEFINE h == [do |-> "edited", visit |-> r.visit, edit |-> r.edit,
                     cartoon |-> View(u)[Cartoon]]
    <3>1. h.cartoon.like <= likes
      BY <2>4, ViewAtMost
    <3>2. main' = [main EXCEPT ![u] = Append(@, h)]
      BY <2>1, <2>4 DEF Post
    <3> HIDE DEF h
    <3> QED BY <1>2, <1>3, <2>2, <3>1, <3>2
  <2> QED BY <2>3, <2>4
<1>6. CASE ReadFails(u)
  BY <1>1, <1>3, <1>6 DEF ReadFails
<1> QED BY <1>4, <1>5, <1>6 DEF Answer

\* The menu's and the handlers' writes name no counter.
LEMMA MenuWrites ==
    ASSUME CountInv, NEW u \in User, TapEdit(u) \/ TapDelete(u)
    PROVE  Writing(u)
<1>1. edits + 1 \in Nat /\ visits[u] \in Nat
  BY BoundsAssumption DEF CountInv, TypeOK, CountsOK
<1>2. CASE TapEdit(u)
  <2> DEFINE w == UpdateData(Cartoon, [text |-> edits + 1], Nothing)
  <2>1. w \in Write(u)
    BY <1>1, CartoonWrites
  <2>2. w.val \notin [like : Nat]
    BY DEF UpdateData
  <2>3. Issue(u, <<w>>) /\ UNCHANGED <<likes, db, listed, vc, cell, main>>
    BY <1>2 DEF TapEdit
  <2> HIDE DEF w
  <2>4. WriteAtMost(w, likes)
    BY <2>2 DEF WriteAtMost
  <2> QED BY <2>1, <2>3, <2>4 DEF Writing
<1>3. CASE TapDelete(u)
  <2> DEFINE w == DeleteDoc(Cartoon, [do |-> "deleted", visit |-> visits[u]])
  <2>1. w \in Write(u)
    BY <1>1, CartoonWrites
  <2>2. w.val \notin [like : Nat]
    BY DEF DeleteDoc, EmptyDoc
  <2>3. Issue(u, <<w>>) /\ UNCHANGED <<likes, db, listed, vc, cell, main>>
    BY <1>3 DEF TapDelete
  <2> HIDE DEF w
  <2>4. WriteAtMost(w, likes)
    BY <2>2 DEF WriteAtMost
  <2> QED BY <2>1, <2>3, <2>4 DEF Writing
<1> QED BY <1>2, <1>3

\* The handlers of a like's writes queue one that names no counter.
LEMMA HandlerWrites ==
    ASSUME CountInv, NEW u \in User, LikeStored(u) \/ UnlikeStored(u) \/ LikeMirrored(u)
    PROVE  Writing(u)
<1>1. /\ Head(main[u]) \in Handler /\ main[u] # << >>
      /\ main' = [main EXCEPT ![u] = Tail(@)] /\ main \in [User -> Seq(Handler)]
      /\ UNCHANGED <<likes, db, listed, vc, cell>>
  BY DEF LikeStored, UnlikeStored, LikeMirrored, Due, CountInv, TypeOK, QueuesOK, likesVars
<1>2. \A v \in User : main'[v] = main[v] \/ (main[v] # << >> /\ main'[v] = Tail(main[v]))
  <2> TAKE v \in User
  <2>1. CASE v = u
    BY <1>1, <2>1
  <2>2. CASE v # u
    BY <1>1, <2>2
  <2> QED BY <2>1, <2>2
<1>3. ASSUME NEW w \in Write(u), w.doc # Cartoon, Issue(u, <<w>>)
      PROVE  Writing(u)
  BY <1>1, <1>2, <1>3 DEF Writing, WriteAtMost
<1>4. CASE LikeStored(u)
  <2> DEFINE w == SetData(UserLike(u), EmptyDoc, [do |-> "likeMirrored", tap |-> Head(main[u]).tap])
  <2>1. Head(main[u]).tap \in 1..MaxTaps
    BY <1>1, <1>4 DEF LikeStored, Due, Handler, TapHandler
  <2>2. w \in Write(u) /\ w.doc # Cartoon /\ Issue(u, <<w>>)
    BY <1>4, <2>1, LikeWrites DEF LikeStored, SetData, UserLike, Cartoon
  <2> HIDE DEF w
  <2> QED BY <1>3, <2>2
<1>5. CASE UnlikeStored(u)
  <2> DEFINE w == DeleteDoc(UserLike(u), Nothing)
  <2>1. w \in Write(u) /\ w.doc # Cartoon /\ Issue(u, <<w>>)
    BY <1>5, MirrorDelete DEF UnlikeStored, DeleteDoc, UserLike, Cartoon
  <2> HIDE DEF w
  <2> QED BY <1>3, <2>1
<1>6. CASE LikeMirrored(u)
  <2> DEFINE w == SetData(Notice(u, Head(main[u]).tap), EmptyDoc, Nothing)
  <2>1. Head(main[u]).tap \in 1..MaxTaps
    BY <1>1, <1>6 DEF LikeMirrored, Due, Handler, TapHandler
  <2>2. w \in Write(u) /\ w.doc # Cartoon
    BY <2>1, LikeWrites DEF SetData, Notice, Cartoon
  <2>3. pending' = pending \/ Issue(u, <<w>>)
    BY <1>6 DEF LikeMirrored, UploadFeedBack
  <2> HIDE DEF w
  <2> QED BY <1>1, <1>2, <1>3, <2>2, <2>3 DEF Writing
<1> QED BY <1>4, <1>5, <1>6

\* A tap that writes: a like counts one more and there is one more like, an
\* unlike counts one less.
LEMMA TapsCount ==
    ASSUME CountInv, TypeOK', NEW u \in User, TapLike(u) \/ TapUnlike(u)
    PROVE  CountInv'
<1> DEFINE n == IF TapLike(u) THEN likes + 1 ELSE likes
<1>1. /\ cell[u] \in Copy /\ cell[u].like \in Nat /\ cell[u].like <= likes
      /\ taps[u] + 1 \in 1..MaxTaps /\ likes \in Nat
      /\ cell' = [cell EXCEPT ![u].didLike = ~@] /\ cell \in [User -> Copy \cup {Closed}]
  BY BoundsAssumption
     DEF TapLike, TapUnlike, Tap, CountInv, TypeOK, ScreensOK, CountsOK, HistoryOK, ScreenAtMost, Copy
<1>2. ~ (TapLike(u) /\ TapUnlike(u))
  BY DEF TapLike, TapUnlike
<1>3. n \in Nat /\ likes <= n /\ likes' = n
  BY <1>1, <1>2 DEF TapLike, TapUnlike
<1>4. \E w1 \in Write(u), w2 \in Write(u) :
         /\ WriteAtMost(w1, n) /\ WriteAtMost(w2, n)
         /\ Issue(u, <<w1, w2>>)
  <2>1. CASE TapLike(u)
    <3> DEFINE w1 == UpdateData(Cartoon, [like |-> cell[u].like + 1], Nothing)
               w2 == StoreLike(u, taps[u] + 1)
    <3>1. w1 \in Write(u) /\ w1.val.like <= n
      <4>1. w1.val.like = cell[u].like + 1
        BY DEF UpdateData
      <4>2. cell[u].like + 1 \in Nat /\ cell[u].like + 1 <= n
        BY <1>1, <2>1
      <4>3. w1 \in Write(u)
        BY <4>2, CartoonWrites
      <4> QED BY <4>1, <4>2, <4>3
    <3>2. w2 \in Write(u) /\ w2.doc # Cartoon
      BY <1>1, LikeWrites DEF StoreLike, SetData, CartoonLike, Cartoon
    <3>3. Issue(u, <<w1, w2>>)
      BY <2>1 DEF TapLike, LikeCartoon
    <3> HIDE DEF w1, w2
    <3> QED BY <3>1, <3>2, <3>3 DEF WriteAtMost
  <2>2. CASE TapUnlike(u)
    <3> DEFINE w1 == UpdateData(Cartoon, [like |-> cell[u].like - 1], Nothing)
               w2 == StoreUnlike(u, taps[u] + 1)
    <3>1. cell[u].like - 1 \in Nat
      BY <1>1, <2>2 DEF TapUnlike, MayUnLike
    <3>2. w1 \in Write(u) /\ w1.val.like <= n
      <4>1. w1.val.like = cell[u].like - 1
        BY DEF UpdateData
      <4>2. cell[u].like - 1 <= n
        BY <1>1
      <4>3. w1 \in Write(u)
        BY <3>1, CartoonWrites
      <4> QED BY <4>1, <4>2, <4>3
    <3>3. w2 \in Write(u) /\ w2.doc # Cartoon
      BY <1>1, LikeWrites DEF StoreUnlike, DeleteDoc, CartoonLike, Cartoon
    <3>4. Issue(u, <<w1, w2>>)
      BY <2>2 DEF TapUnlike, UnLikeCartoon
    <3> HIDE DEF w1, w2
    <3> QED BY <3>2, <3>3, <3>4 DEF WriteAtMost
  <2> QED BY <2>1, <2>2
<1> HIDE DEF n
<1>5. /\ DocAtMost(db, n)
      /\ \A v \in User : /\ ScreenAtMost(v, n)
                         /\ QueueAtMost(pending[v], n)
                         /\ AnswersAtMost(main[v], n)
  BY <1>3, MoreLikes
<1>6. UNCHANGED <<db, main, listed, vc>>
  BY DEF TapLike, TapUnlike
<1>7. ASSUME NEW v \in User PROVE ScreenAtMost(v, likes)'
  <2>1. cell'[v] # Closed => cell[v] # Closed /\ cell'[v].like = cell[v].like
    <3>1. CASE v = u
      <4>1. cell'[v] = [cell[u] EXCEPT !.didLike = ~@]
        BY <1>1, <3>1
      <4>2. cell[u] # Closed
        BY <1>1, AbsentAssumption
      <4> QED BY <1>1, <3>1, <4>1, <4>2 DEF Copy
    <3>2. CASE v # u
      BY <1>1, <3>2
    <3> QED BY <3>1, <3>2
  <2> QED BY <1>3, <1>5, <1>6, <2>1 DEF ScreenAtMost
<1>8. ASSUME NEW v \in User PROVE QueueAtMost(pending[v], likes)'
  <2>1. PICK w1 \in Write(u), w2 \in Write(u) :
           /\ WriteAtMost(w1, n) /\ WriteAtMost(w2, n)
           /\ Issue(u, <<w1, w2>>)
    BY <1>4
  <2>2. pending[u] \in Seq(Write(u)) /\ DOMAIN pending = User
    BY DEF CountInv, TypeOK, QueuesOK
  <2>3. /\ pending'[u] = (pending[u] \o <<w1>>) \o <<w2>>
        /\ pending[u] \o <<w1>> \in Seq(Write(u))
        /\ v # u => pending'[v] = pending[v]
    <3>1. /\ pending'[u] = pending[u] \o <<w1, w2>>
          /\ v # u => pending'[v] = pending[v]
      BY <2>1, <2>2 DEF Issue
    <3>2. /\ pending[u] \o <<w1, w2>> = Append(Append(pending[u], w1), w2)
          /\ pending[u] \o <<w1>> = Append(pending[u], w1)
          /\ Append(pending[u], w1) \in Seq(Write(u))
      BY <2>2, AppendTwo, AppendGrows
    <3>3. Append(pending[u], w1) \o <<w2>> = Append(Append(pending[u], w1), w2)
      BY <3>2, AppendGrows
    <3> QED BY <3>1, <3>2, <3>3
  <2>4. QueueAtMost((pending[u] \o <<w1>>) \o <<w2>>, n)
    <3>1. QueueAtMost(pending[u] \o <<w1>>, n)
      BY <1>5, <2>1, <2>2, JoinAtMost
    <3> QED BY <2>1, <2>3, <3>1, JoinAtMost
  <2> QED BY <1>3, <1>5, <2>3, <2>4
<1> QED BY <1>3, <1>5, <1>6, <1>7, <1>8 DEF CountInv

\* The client moves writes and handlers; a handler of a write is no answer.
LEMMA ClientCounts ==
    ASSUME CountInv, TypeOK', NEW u \in User, Client(u)
    PROVE  CountInv'
<1>1. UNCHANGED <<listed, vc, cell, likes>>
  BY DEF Client, likesVars
<1>2. \A v \in User : ScreenAtMost(v, likes)'
  BY <1>1 DEF CountInv, ScreenAtMost
<1>3. /\ pending[u] \in Seq(Write(u)) /\ DocsType(db) /\ likes \in Nat
      /\ main \in [User -> Seq(Handler)] /\ DOMAIN pending = User
  BY DEF CountInv, TypeOK, QueuesOK, DocsOK, HistoryOK
<1>4. CASE Transmit(u)
  <2>1. /\ pending' = pending /\ main' = main
        /\ sent[u] + 1 \in 1..Len(pending[u]) /\ db' = Apply(db, pending[u][sent[u] + 1])
    BY <1>3, <1>4 DEF Transmit, CountInv, TypeOK, QueuesOK
  <2>2. DocAtMost(db', likes)
    <3>1. pending[u][sent[u] + 1] \in Write(u) /\ WriteAtMost(pending[u][sent[u] + 1], likes)
      BY <1>3, <2>1 DEF CountInv, QueueAtMost
    <3> QED BY <1>3, <2>1, <3>1, ApplyAtMost DEF CountInv
  <2> QED BY <1>1, <1>2, <2>1, <2>2 DEF CountInv, DocAtMost
<1>5. CASE Acknowledge(u)
  <2> DEFINE then == Head(pending[u]).then
  <2>1. /\ pending[u] # << >> /\ Head(pending[u]) \in Write(u)
        /\ db' = db
        /\ pending'[u] = Tail(pending[u]) /\ \A v \in User \ {u} : pending'[v] = pending[v]
        /\ main' = IF then = Nothing THEN main ELSE [main EXCEPT ![u] = Append(@, then)]
    BY <1>3, <1>5 DEF Acknowledge, CountInv, TypeOK, QueuesOK
  <2>2. then = Nothing \/ then.do # "edited"
    BY <2>1 DEF Write, WriteOf, TapHandler
  <2> HIDE DEF then
  <2>3. ASSUME NEW v \in User PROVE QueueAtMost(pending'[v], likes)
    <3>1. CASE v = u
      <4>1. QueueAtMost(pending[u], likes)
        BY DEF CountInv
      <4>2. QueueAtMost(Tail(pending[u]), likes)
        BY <1>3, <2>1, <4>1, TailAtMost
      <4> QED BY <2>1, <3>1, <4>2
    <3>2. CASE v # u
      BY <2>1, <3>2 DEF CountInv
    <3> QED BY <3>1, <3>2
  <2>4. ASSUME NEW v \in User PROVE AnswersAtMost(main'[v], likes)
    <3>1. CASE main'[v] = main[v]
      BY <3>1 DEF CountInv
    <3>2. CASE main'[v] # main[v]
      <4>1. main'[v] = Append(main[v], then) /\ then.do # "edited"
        BY <1>3, <2>1, <2>2, <3>2
      <4>2. /\ Len(main'[v]) = Len(main[v]) + 1 /\ Len(main[v]) \in Nat
            /\ \A i \in 1..Len(main[v]) : main'[v][i] = main[v][i]
            /\ main'[v][Len(main[v]) + 1] = then
        BY <1>3, <4>1
      <4>3. AnswersAtMost(main[v], likes)
        BY DEF CountInv
      <4> QED BY <4>1, <4>2, <4>3 DEF AnswersAtMost
    <3> QED BY <3>1, <3>2
  <2> QED BY <1>1, <1>2, <2>1, <2>3, <2>4 DEF CountInv
<1>6. CASE Reconnect(u)
  BY <1>1, <1>2, <1>6 DEF Reconnect, CountInv
<1> QED BY <1>4, <1>5, <1>6 DEF Client

\* A restart keeps queued writes and shows nothing new.
LEMMA RestartCounts ==
    ASSUME CountInv, TypeOK', NEW u \in User, Restart(u)
    PROVE  CountInv'
<1>1. /\ pending[u] \in Seq(Write(u)) /\ DOMAIN pending = User
      /\ main \in [User -> Seq(Handler)]
  BY DEF CountInv, TypeOK, QueuesOK
<1>2. UNCHANGED <<db, likes>>
  BY DEF Restart
<1>3. ASSUME NEW v \in User PROVE ScreenAtMost(v, likes)'
  BY <1>2 DEF Restart, Leave, CountInv, ScreenAtMost, TypeOK, ScreensOK
<1>4. ASSUME NEW v \in User PROVE AnswersAtMost(main'[v], likes)
  <2>1. CASE v = u
    BY <1>1, <2>1 DEF Restart, RestartClient, AnswersAtMost
  <2>2. CASE v # u
    BY <1>1, <2>2 DEF Restart, RestartClient, CountInv
  <2> QED BY <2>1, <2>2
<1>5. ASSUME NEW v \in User PROVE QueueAtMost(pending'[v], likes)
  <2>1. CASE v = u
    <3>1. pending'[u] = [i \in DOMAIN pending[u] |-> [pending[u][i] EXCEPT !.then = Nothing]]
      BY <1>1 DEF Restart, RestartClient
    <3>2. Len(pending'[u]) = Len(pending[u]) /\ Len(pending[u]) \in Nat
      BY <1>1, <3>1
    <3>3. ASSUME NEW i \in 1..Len(pending[u]) PROVE WriteAtMost(pending'[u][i], likes)
      <4>1. /\ pending[u][i] \in Write(u)
            /\ pending'[u][i] = [pending[u][i] EXCEPT !.then = Nothing]
        BY <1>1, <3>1
      <4>3. WriteAtMost(pending[u][i], likes)
        BY DEF CountInv, QueueAtMost
      <4>2. /\ pending'[u][i].doc = pending[u][i].doc
            /\ pending'[u][i].val = pending[u][i].val
        BY <4>1 DEF Write, WriteOf
      <4> QED BY <4>2, <4>3 DEF WriteAtMost
    <3> QED BY <2>1, <3>2, <3>3 DEF QueueAtMost
  <2>2. CASE v # u
    BY <1>1, <2>2 DEF Restart, RestartClient, CountInv
  <2> QED BY <2>1, <2>2
<1> QED BY <1>2, <1>3, <1>4, <1>5 DEF CountInv

-----------------------------------------------------------------------------
(* The theorems                                                            *)

\* At first nobody has liked and nothing is queued.
LEMMA InitCounts == Init => CountInv
<1> SUFFICES ASSUME Init PROVE CountInv
  OBVIOUS
<1>1. TypeOK
  BY InitType
<1>2. DocAtMost(db, likes)
  BY DEF Init, FirestoreInit, DocAtMost, Docs
<1>3. ASSUME NEW u \in User
      PROVE  ScreenAtMost(u, likes) /\ QueueAtMost(pending[u], likes) /\ AnswersAtMost(main[u], likes)
  BY DEF Init, FirestoreInit, ScreenAtMost, QueueAtMost, AnswersAtMost
<1> QED BY <1>1, <1>2, <1>3 DEF CountInv

\* Every step keeps every copy of the counter bounded.
LEMMA StepCounts == CountInv /\ [Next]_vars => CountInv'
<1> SUFFICES ASSUME CountInv, [Next]_vars PROVE CountInv'
  OBVIOUS
<1>1. TypeOK'
  BY StepType DEF CountInv
<1>2. CASE UNCHANGED vars
  BY <1>1, <1>2 DEF vars, firestoreVars, likesVars, CountInv, DocAtMost, ScreenAtMost
<1>3. CASE Next
  <2>1. PICK u \in User : Screen(u) \/ RunHandler(u) \/ Answer(u) \/ Client(u) \/ Restart(u)
    BY <1>3 DEF Next
  <2>2. CASE Screen(u)
    BY <1>1, <2>2, ScreenShows, ShowingKeeps, MenuWrites, WritingKeeps, TapsCount DEF Screen
  <2>3. CASE RunHandler(u)
    BY <1>1, <2>3, HandlerShows, ShowingKeeps, HandlerWrites, WritingKeeps DEF RunHandler
  <2>4. CASE Answer(u)
    BY <1>1, <2>4, AnswerShows, ShowingKeeps
  <2>5. CASE Client(u)
    BY <1>1, <2>5, ClientCounts
  <2>6. CASE Restart(u)
    BY <1>1, <2>6, RestartCounts
  <2> QED BY <2>1, <2>2, <2>3, <2>4, <2>5, <2>6
<1> QED BY <1>2, <1>3

\* The counter never shows more likes than were issued, whatever the number of
\* accounts and however old the copies are that likeCartoon counts from.
THEOREM CounterBounded == Spec => []LikeBounded
<1>1. CountInv => LikeBounded
  BY DEF CountInv, DocAtMost, LikeBounded, Exists
<1> QED BY <1>1, InitCounts, StepCounts, PTL DEF Spec

\* A deleted cartoon stays deleted: of all that a device can have queued for
\* it, likes, unlikes and edits, only updates and deletes reach it.
THEOREM StaysDeleted == Spec => NoResurrection
<1>1. ASSUME TypeOK, [Next]_vars, ~Exists(Cartoon)
      PROVE  db'[Cartoon] = NoDoc
  <2>1. CASE \E u \in User : Client(u) /\ Transmit(u)
    <3>1. PICK u \in User : Transmit(u)
      BY <2>1
    <3>2. /\ pending[u][sent[u] + 1] \in Write(u)
          /\ db' = Apply(db, pending[u][sent[u] + 1])
      <4>1. pending[u] \in Seq(Write(u)) /\ sent[u] \in Nat /\ sent[u] < Len(pending[u])
        BY <1>1, <3>1 DEF Transmit, TypeOK, QueuesOK
      <4> QED BY <3>1, <4>1 DEF Transmit
    <3>3. ASSUME NEW w \in Write(u) PROVE Apply(db, w)[Cartoon] = NoDoc
      <4>1. db[Cartoon] = NoDoc /\ DOMAIN db = Docs
        BY <1>1 DEF TypeOK, DocsOK, DocsType, Exists
      <4>2. CASE w.doc # Cartoon
        BY <4>1, <4>2 DEF Apply, Docs
      <4>3. CASE w.doc = Cartoon
        <5>1. w.op \in {"update", "delete"}
          BY <4>3 DEF Write, WriteOf, Cartoon, CartoonLike, UserLike, Notice
        <5> QED BY <4>1, <4>3, <5>1 DEF Apply, AfterWrite, Docs
      <4> QED BY <4>2, <4>3
    <3> QED BY <3>2, <3>3
  <2>2. CASE ~ \E u \in User : Client(u) /\ Transmit(u)
    <3>1. db' = db
      BY <1>1, <2>2
         DEF Next, Screen, RunHandler, Answer, Client, vars, firestoreVars, FetchList, Open, Close,
             Redisplay, TapLike, TapUnlike, TapUnlikeRefused, TapEdit, TapDelete, LikeStored,
             UnlikeStored, LikeMirrored, Checked, Edited, Deleted, AnswerLikeCheck, AnswerEdited,
             ReadFails, Acknowledge, Reconnect, Restart
    <3> QED BY <1>1, <3>1 DEF Exists
  <2> QED BY <2>1, <2>2
<1> QED BY <1>1, TypeCorrect, PTL DEF Spec, NoResurrection

-----------------------------------------------------------------------------
(* The edits                                                               *)

\* The invariant is about the author's queue, as the one above is about a
\* like's: its last edit is the author's last, or with none queued the
\* document carries that; and what the stream has delivered has taken
\* effect.  No other device queues an edit.

IsEdit(w) == w.doc = Cartoon /\ w.op = "update" /\ w.val \in [text : Nat]

\* The cartoon, if there still is one, has text n.
Says(data, n) == data[Cartoon] # NoDoc => data[Cartoon].text = n

\* When all but the first k writes of queue are through, the text is n.
EditEnds(data, queue, k, n) ==
    /\ \A i \in k + 1..Len(queue) :
          IsEdit(queue[i]) /\ (\A j \in i + 1..Len(queue) : ~IsEdit(queue[j]))
              => queue[i].val.text = n
    /\ (\A i \in k + 1..Len(queue) : ~IsEdit(queue[i])) => Says(data, n)

\* The last edit among the first k writes of queue has taken effect.
EditReached(data, queue, k) ==
    \A i \in 1..k : IsEdit(queue[i]) /\ (\A j \in i + 1..k : ~IsEdit(queue[j]))
                        => Says(data, queue[i].val.text)

NoEdit(queue) == \A i \in 1..Len(queue) : ~IsEdit(queue[i])

QueuesSay ==
    /\ \A v \in User \ {Author} : NoEdit(pending[v])
    /\ EditEnds(db, pending[Author], 0, edits)
    /\ EditReached(db, pending[Author], sent[Author])
AnswersSay ==
    /\ \A v \in User : \A r \in reads[v] : r.what = "cartoon" => v = Author /\ r.edit <= edits
    /\ EditShown

EditInv == TypeOK /\ QueuesSay /\ AnswersSay

-----------------------------------------------------------------------------
(* Documents and queues                                                    *)

\* A write that is no edit leaves the text; an edit makes it its own.
LEMMA ApplySays ==
    ASSUME NEW data, DocsType(data), NEW u \in User, NEW w \in Write(u), NEW n
    PROVE  /\ ~IsEdit(w) /\ Says(data, n) => Says(Apply(data, w), n)
           /\ IsEdit(w) => Says(Apply(data, w), w.val.text)
<1>1. CASE w.doc # Cartoon
  BY <1>1 DEF Apply, Says, DocsType, Docs, IsEdit
<1>2. CASE w.doc = Cartoon
  <2>1. \/ w.op = "update" /\ w.val \in [like : Nat] \cup [text : Nat]
        \/ w.op = "delete"
    BY <1>2 DEF Write, WriteOf, Cartoon, CartoonLike, UserLike, Notice
  <2>2. Apply(data, w)[Cartoon] = AfterWrite(data[Cartoon], w)
    BY <1>2 DEF Apply, DocsType, Docs
  <2>3. CASE w.op = "delete" \/ data[Cartoon] = NoDoc
    BY <2>1, <2>2, <2>3 DEF AfterWrite, Says, IsEdit
  <2>4. CASE w.op = "update" /\ data[Cartoon] # NoDoc
    <3>1. data[Cartoon] \in CartoonDoc
      BY <2>4 DEF DocsType
    <3>2. AfterWrite(data[Cartoon], w) = Merge(data[Cartoon], w.val)
      BY <2>4 DEF AfterWrite
    <3>3. CASE w.val \in [text : Nat]
      <4>1. Merge(data[Cartoon], w.val).text = w.val.text /\ IsEdit(w)
        BY <1>2, <2>4, <3>1, <3>3 DEF Merge, CartoonDoc, IsEdit
      <4> QED BY <2>2, <3>2, <4>1 DEF Says
    <3>4. CASE w.val \in [like : Nat]
      <4>1. Merge(data[Cartoon], w.val).text = data[Cartoon].text /\ ~IsEdit(w)
        BY <3>1, <3>4 DEF Merge, CartoonDoc, IsEdit
      <4> QED BY <2>2, <2>4, <3>2, <4>1 DEF Says
    <3> QED BY <2>1, <2>4, <3>3, <3>4
  <2> QED BY <2>1, <2>3, <2>4
<1> QED BY <1>1, <1>2

\* Where the queue ends with an edit, the device's view has it already.
LEMMA OverlaySays ==
    ASSUME NEW data, DocsType(data), NEW u \in User, NEW queue \in Seq(Write(u)), NEW n,
           EditEnds(data, queue, 0, n)
    PROVE  Says(Overlay(data, queue), n)
<1>0. Len(queue) \in Nat
  OBVIOUS
<1>1. PICK after :
         /\ after[0] = data
         /\ \A i \in 1..Len(queue) : after[i] = Apply(after[i - 1], queue[i])
         /\ Overlay(data, queue) = after[Len(queue)]
  BY <1>0, OverlaySteps
<1> DEFINE Off == {i \in 0..Len(queue) : ~ (DocsType(after[i]) /\ EditEnds(after[i], queue, i, n))}
<1>2. Off = {}
  <2> SUFFICES ASSUME Off # {} PROVE FALSE
    OBVIOUS
  <2>0. Off \in SUBSET Nat
    OBVIOUS
  <2>1. PICK m \in Off : \A k \in Off : m <= k
    <3> HIDE DEF Off
    <3> QED BY <2>0, Least
  <2>2. m # 0
    BY <1>1, <2>1
  <2>3. /\ DocsType(after[m - 1]) /\ EditEnds(after[m - 1], queue, m - 1, n)
        /\ queue[m] \in Write(u) /\ m \in 1..Len(queue)
    BY <2>1, <2>2
  <2>4. after[m] = Apply(after[m - 1], queue[m])
    BY <1>1, <2>1, <2>2
  <2>5. DocsType(after[m])
    BY <2>3, <2>4, ApplyType
  <2>6. ASSUME \A i \in m + 1..Len(queue) : ~IsEdit(queue[i])
        PROVE  Says(after[m], n)
    <3>1. CASE IsEdit(queue[m])
      <4>1. queue[m].val.text = n
        BY <2>3, <2>6, <3>1 DEF EditEnds
      <4> QED BY <2>3, <2>4, <3>1, <4>1, ApplySays
    <3>2. CASE ~IsEdit(queue[m])
      <4>1. \A i \in (m - 1) + 1..Len(queue) : ~IsEdit(queue[i])
        BY <2>3, <2>6, <3>2
      <4>2. Says(after[m - 1], n)
        BY <2>3, <4>1 DEF EditEnds
      <4> QED BY <2>3, <2>4, <3>2, <4>2, ApplySays
    <3> QED BY <3>1, <3>2
  <2>7. EditEnds(after[m], queue, m, n)
    BY <2>3, <2>6 DEF EditEnds
  <2> QED BY <2>1, <2>5, <2>7
<1>3. EditEnds(after[Len(queue)], queue, Len(queue), n)
  BY <1>2
<1> QED BY <1>1, <1>3 DEF EditEnds

\* What a queue comes to once a write has joined it.
LEMMA JoinSays ==
    ASSUME NEW u \in User, NEW queue \in Seq(Write(u)), NEW w \in Write(u), NEW data, NEW n,
           NEW k \in 0..Len(queue)
    PROVE  /\ ~IsEdit(w) /\ EditEnds(data, queue, 0, n) => EditEnds(data, Append(queue, w), 0, n)
           /\ IsEdit(w) => EditEnds(data, Append(queue, w), 0, w.val.text)
           /\ EditReached(data, queue, k) => EditReached(data, Append(queue, w), k)
<1> DEFINE r == Append(queue, w)
<1>1. /\ Len(queue) \in Nat /\ Len(r) = Len(queue) + 1
      /\ \A i \in 1..Len(queue) : r[i] = queue[i]
      /\ r[Len(queue) + 1] = w
  OBVIOUS
<1> HIDE DEF r
<1>2. ~IsEdit(w) /\ EditEnds(data, queue, 0, n) => EditEnds(data, r, 0, n)
  BY <1>1 DEF EditEnds
<1>3. IsEdit(w) => EditEnds(data, r, 0, w.val.text)
  BY <1>1 DEF EditEnds
<1>4. EditReached(data, queue, k) => EditReached(data, r, k)
  BY <1>1 DEF EditReached
<1> QED BY <1>2, <1>3, <1>4 DEF r

\* A queue without edits that another write joins is still without.
LEMMA JoinNoEdit ==
    ASSUME NEW S, NEW queue \in Seq(S), NEW w \in S, ~IsEdit(w), NoEdit(queue)
    PROVE  NoEdit(Append(queue, w))
<1>1. /\ Len(queue) \in Nat /\ Len(Append(queue, w)) = Len(queue) + 1
      /\ \A i \in 1..Len(queue) : Append(queue, w)[i] = queue[i]
      /\ Append(queue, w)[Len(queue) + 1] = w
  OBVIOUS
<1> QED BY <1>1 DEF NoEdit

\* An acknowledged write had taken effect, so the rest ends as the whole did.
LEMMA HeadSays ==
    ASSUME NEW u \in User, NEW queue \in Seq(Write(u)), queue # << >>, NEW data, NEW n,
           NEW k \in 1..Len(queue), EditEnds(data, queue, 0, n), EditReached(data, queue, k)
    PROVE  EditEnds(data, Tail(queue), 0, n) /\ EditReached(data, Tail(queue), k - 1)
<1> DEFINE r == Tail(queue)
<1>1. /\ Len(queue) \in Nat /\ Len(r) = Len(queue) - 1 /\ Len(r) \in Nat
      /\ \A i \in 1..Len(r) : r[i] = queue[i + 1]
      /\ \A i \in 2..Len(queue) : queue[i] = r[i - 1]
  OBVIOUS
<1> HIDE DEF r
<1>2. EditReached(data, r, k - 1)
  <2> SUFFICES ASSUME NEW i \in 1..k - 1, IsEdit(r[i]), \A j \in i + 1..k - 1 : ~IsEdit(r[j])
               PROVE  Says(data, r[i].val.text)
    BY DEF EditReached
  <2>1. i + 1 \in 1..k /\ r[i] = queue[i + 1]
    BY <1>1
  <2>2. ASSUME NEW j \in (i + 1) + 1..k PROVE ~IsEdit(queue[j])
    <3>1. j - 1 \in i + 1..k - 1 /\ j \in 2..Len(queue)
      BY <1>1
    <3> QED BY <1>1, <3>1
  <2> QED BY <2>1, <2>2 DEF EditReached
<1>3. ASSUME NEW i \in 1..Len(r), IsEdit(r[i]), \A j \in i + 1..Len(r) : ~IsEdit(r[j])
      PROVE  r[i].val.text = n
  <2>1. i + 1 \in 1..Len(queue) /\ r[i] = queue[i + 1]
    BY <1>1
  <2>2. \A j \in (i + 1) + 1..Len(queue) : ~IsEdit(queue[j])
    BY <1>1, <1>3
  <2> QED BY <1>3, <2>1, <2>2 DEF EditEnds
<1>4. ASSUME \A i \in 1..Len(r) : ~IsEdit(r[i])
      PROVE  Says(data, n)
  <2>1. \A j \in 2..Len(queue) : ~IsEdit(queue[j])
    BY <1>1, <1>4
  <2>2. CASE IsEdit(queue[1])
    <3>1. queue[1].val.text = n
      BY <1>1, <2>1, <2>2 DEF EditEnds
    <3>2. Says(data, queue[1].val.text)
      BY <1>1, <2>1, <2>2 DEF EditReached
    <3> QED BY <3>1, <3>2
  <2>3. CASE ~IsEdit(queue[1])
    BY <1>1, <2>1, <2>3 DEF EditEnds
  <2> QED BY <2>2, <2>3
<1>5. EditEnds(data, r, 0, n)
  BY <1>3, <1>4 DEF EditEnds
<1> QED BY <1>2, <1>5 DEF r

-----------------------------------------------------------------------------
(* Steps                                                                   *)

\* What a step may do to the answers on their way to u.
Kept(u) == main'[u] = main[u] \/ (main[u] # << >> /\ main'[u] = Tail(main[u]))

\* Answers that are only taken, never changed, show what they did.
LEMMA KeptAnswers ==
    ASSUME EditInv, edits' = edits, \A v \in User : reads'[v] \subseteq reads[v],
           \A v \in User : Kept(v)
    PROVE  AnswersSay'
<1>1. ASSUME NEW v \in User, NEW i \in DOMAIN main'[v], main'[v][i].do = "edited"
      PROVE  main'[v][i].cartoon.text >= main'[v][i].edit
  <2>1. main[v] \in Seq(Handler)
    BY DEF EditInv, TypeOK, QueuesOK
  <2>2. PICK j \in DOMAIN main[v] : main'[v][i] = main[v][j]
    <3>1. CASE main'[v] = main[v]
      BY <3>1
    <3>2. CASE main[v] # << >> /\ main'[v] = Tail(main[v])
      <4>1. i + 1 \in DOMAIN main[v] /\ main'[v][i] = main[v][i + 1]
        BY <2>1, <3>2
      <4> QED BY <4>1
    <3> QED BY <3>1, <3>2 DEF Kept
  <2> QED BY <1>1, <2>2 DEF EditInv, AnswersSay, EditShown
<1>2. EditShown'
  BY <1>1 DEF EditShown
<1> QED BY <1>2 DEF EditInv, AnswersSay

\* A step that leaves the queues and the documents alone.
LEMMA StillQueues ==
    ASSUME EditInv, UNCHANGED <<db, edits, pending, sent>>
    PROVE  QueuesSay'
BY DEF EditInv, QueuesSay

\* The screens' own steps, answers that are read and those that are no edit's.
LEMMA ScreenSays ==
    ASSUME EditInv, TypeOK', NEW u \in User,
           \/ FetchList(u) \/ Open(u) \/ Close(u) \/ Redisplay(u) \/ TapUnlikeRefused(u)
           \/ Checked(u) \/ Edited(u) \/ Deleted(u) \/ ReadFails(u)
    PROVE  EditInv'
<1>1. UNCHANGED <<db, edits, pending, sent>>
  BY DEF FetchList, Open, Close, Redisplay, TapUnlikeRefused, Checked, Edited, Deleted, ReadFails
<1>2. main \in [User -> Seq(Handler)] /\ reads \in [User -> SUBSET Read]
  BY DEF EditInv, TypeOK, QueuesOK, ScreensOK
<1>3. ASSUME NEW v \in User PROVE Kept(v)
  <2>1. main' = main \/ (Due(u, Head(main[u]).do) /\ main' = [main EXCEPT ![u] = Tail(@)])
    BY DEF FetchList, Open, Close, Redisplay, TapUnlikeRefused, Checked, Edited, Deleted, ReadFails, Due
  <2>2. main'[v] = main[v] \/ (main[v] # << >> /\ main'[v] = Tail(main[v]))
    <3>1. CASE v = u
      BY <1>2, <2>1, <3>1 DEF Due
    <3>2. CASE v # u
      BY <1>2, <2>1, <3>2
    <3> QED BY <3>1, <3>2
  <2> QED BY <2>2 DEF Kept
<1>4. CASE Open(u)
  <2>1. \A v \in User : \A r \in reads'[v] : r \in reads[v] \/ r.what = "like"
    BY <1>2, <1>4 DEF Open
  <2>2. main' = main
    BY <1>4 DEF Open
  <2>3. AnswersSay'
    BY <1>1, <2>1, <2>2 DEF EditInv, AnswersSay, EditShown
  <2> QED BY <1>1, <2>3, StillQueues DEF EditInv
<1>5. CASE ~Open(u)
  <2>1. \A v \in User : reads'[v] \subseteq reads[v]
    <3>1. CASE ReadFails(u)
      BY <1>2, <3>1 DEF ReadFails
    <3>2. CASE ~ReadFails(u)
      <4>1. reads' = reads
        BY <1>5, <3>2 DEF FetchList, Close, Redisplay, TapUnlikeRefused, Checked, Edited, Deleted
      <4> QED BY <4>1
    <3> QED BY <3>1, <3>2
  <2>2. AnswersSay'
    BY <1>1, <1>3, <2>1, KeptAnswers
  <2> QED BY <1>1, <2>2, StillQueues DEF EditInv
<1> QED BY <1>4, <1>5

\* The cartoon fetched after an edit is read from the view that has it.
LEMMA AnswerSays ==
    ASSUME EditInv, TypeOK', NEW u \in User, AnswerLikeCheck(u) \/ AnswerEdited(u)
    PROVE  EditInv'
<1>1. UNCHANGED <<db, edits, pending, sent>>
  BY DEF AnswerLikeCheck, AnswerEdited
<1>2. main \in [User -> Seq(Handler)] /\ reads \in [User -> SUBSET Read] /\ edits \in Nat
  <2>1. main \in [User -> Seq(Handler)]
    BY DEF EditInv, TypeOK, QueuesOK
  <2>2. reads \in [User -> SUBSET Read]
    BY DEF EditInv, TypeOK, ScreensOK
  <2>3. edits \in Nat
    BY BoundsAssumption DEF EditInv, TypeOK, CountsOK
  <2> QED BY <2>1, <2>2, <2>3
<1>3. ASSUME NEW h, h.do = "edited" => h.cartoon.text >= h.edit,
             main' = [main EXCEPT ![u] = Append(@, h)] \/ main' = main,
             \A v \in User : reads'[v] \subseteq reads[v]
      PROVE  EditInv'
  <2>1. ASSUME NEW v \in User, NEW i \in DOMAIN main'[v], main'[v][i].do = "edited"
        PROVE  main'[v][i].cartoon.text >= main'[v][i].edit
    <3>1. main[v] \in Seq(Handler)
      BY <1>2
    <3>2. main'[v] = main[v] \/ main'[v] = Append(main[v], h)
      BY <1>2, <1>3
    <3>3. (i \in DOMAIN main[v] /\ main'[v][i] = main[v][i]) \/ main'[v][i] = h
      BY <3>1, <3>2
    <3> QED BY <1>3, <2>1, <3>3 DEF EditInv, AnswersSay, EditShown
  <2>2. AnswersSay'
    BY <1>1, <1>3, <2>1 DEF EditInv, AnswersSay, EditShown
  <2> QED BY <1>1, <2>2, StillQueues DEF EditInv
<1>4. CASE AnswerLikeCheck(u)
  <2>1. PICK r \in reads[u] : AnswerLikeCheck(u)!(r)
    BY <1>4 DEF AnswerLikeCheck
  <2> DEFINE h == [do |-> "checked", visit |-> r.visit, exists |-> View(u)[UserLike(u)] # NoDoc]
  <2>2. /\ h.do # "edited" /\ main' = [main EXCEPT ![u] = Append(@, h)]
        /\ \A v \in User : reads'[v] \subseteq reads[v]
    BY <1>2, <2>1 DEF Post
  <2> HIDE DEF h
  <2> QED BY <1>3, <2>2
<1>5. CASE AnswerEdited(u)
  <2>1. PICK r \in reads[u] : AnswerEdited(u)!(r)
    BY <1>5 DEF AnswerEdited
  <2> DEFINE h == [do |-> "edited", visit |-> r.visit, edit |-> r.edit, cartoon |-> View(u)[Cartoon]]
  <2>2. \A v \in User : reads'[v] \subseteq reads[v]
    BY <1>2, <2>1
  <2>3. CASE View(u)[Cartoon] = NoDoc
    <3> DEFINE none == [do |-> "checked"]
    <3>1. main' = main /\ none.do # "edited"
      BY <2>1, <2>3
    <3> HIDE DEF none
    <3> QED BY <1>3, <2>2, <3>1
  <2>4. CASE View(u)[Cartoon] # NoDoc
    <3>1. u = Author /\ r.edit <= edits
      BY <2>1 DEF EditInv, AnswersSay
    <3>2. /\ pending[u] \in Seq(Write(u)) /\ DocsType(db)
          /\ EditEnds(db, pending[u], 0, edits)
      BY <3>1 DEF EditInv, TypeOK, QueuesOK, DocsOK, QueuesSay
    <3>3. Says(View(u), edits)
      BY <3>2, OverlaySays DEF View
    <3>4. h.cartoon.text >= h.edit
      <4>1. h.cartoon.text = edits /\ h.edit = r.edit
        BY <2>4, <3>3 DEF Says
      <4>2. r.edit \in Nat
        BY <1>2, <2>1 DEF Read
      <4> QED BY <1>2, <3>1, <4>1, <4>2
    <3>5. main' = [main EXCEPT ![u] = Append(@, h)]
      BY <2>1, <2>4 DEF Post
    <3> HIDE DEF h
    <3> QED BY <1>3, <2>2, <3>4, <3>5
  <2> QED BY <2>3, <2>4
<1> QED BY <1>4, <1>5

\* Steps that queue one or two writes that are no edits.
LEMMA QueuedSays ==
    ASSUME EditInv, TypeOK', NEW u \in User, NEW w1 \in Write(u), NEW w2 \in Write(u),
           ~IsEdit(w1), ~IsEdit(w2),
           pending' = pending \/ Issue(u, <<w1>>) \/ Issue(u, <<w1, w2>>),
           UNCHANGED <<db, edits, sent, reads>>, \A v \in User : Kept(v)
    PROVE  EditInv'
<1>1. /\ pending[u] \in Seq(Write(u)) /\ DOMAIN pending = User
      /\ pending[Author] \in Seq(Write(Author)) /\ sent[Author] \in 0..Len(pending[Author])
  BY AuthorAssumption DEF EditInv, TypeOK, QueuesOK
<1>2. /\ \A v \in User \ {u} : pending'[v] = pending[v]
      /\ \/ pending'[u] = pending[u]
         \/ pending'[u] = Append(pending[u], w1)
         \/ pending'[u] = Append(Append(pending[u], w1), w2)
  <2>1. /\ pending[u] \o <<w1>> = Append(pending[u], w1)
        /\ pending[u] \o <<w1, w2>> = Append(Append(pending[u], w1), w2)
    BY <1>1, AppendGrows, AppendTwo
  <2> QED BY <1>1, <2>1 DEF Issue
<1>3. Append(pending[u], w1) \in Seq(Write(u)) /\ sent[u] \in 0..Len(pending[u])
      /\ Len(Append(pending[u], w1)) = Len(pending[u]) + 1 /\ Len(pending[u]) \in Nat
  BY <1>1 DEF EditInv, TypeOK, QueuesOK
<1>4. NoEdit(pending[u]) => NoEdit(pending'[u])
  <2>1. NoEdit(pending[u]) => NoEdit(Append(pending[u], w1))
    BY <1>1, JoinNoEdit
  <2>2. NoEdit(Append(pending[u], w1)) => NoEdit(Append(Append(pending[u], w1), w2))
    BY <1>3, JoinNoEdit
  <2> QED BY <1>2, <2>1, <2>2
<1>5. EditEnds(db, pending[u], 0, edits) => EditEnds(db, pending'[u], 0, edits)
  <2>1. EditEnds(db, pending[u], 0, edits) => EditEnds(db, Append(pending[u], w1), 0, edits)
    BY <1>1, <1>3, JoinSays
  <2>2. EditEnds(db, Append(pending[u], w1), 0, edits)
           => EditEnds(db, Append(Append(pending[u], w1), w2), 0, edits)
    <3>1. 0 \in 0..Len(Append(pending[u], w1))
      BY <1>3
    <3> QED BY <1>3, <3>1, JoinSays
  <2> QED BY <1>2, <2>1, <2>2
<1>6. EditReached(db, pending[u], sent[u]) => EditReached(db, pending'[u], sent[u])
  <2>1. EditReached(db, pending[u], sent[u]) => EditReached(db, Append(pending[u], w1), sent[u])
    BY <1>1, <1>3, JoinSays
  <2>2. EditReached(db, Append(pending[u], w1), sent[u])
           => EditReached(db, Append(Append(pending[u], w1), w2), sent[u])
    <3>1. sent[u] \in 0..Len(Append(pending[u], w1))
      BY <1>3
    <3> QED BY <1>3, <3>1, JoinSays
  <2> QED BY <1>2, <2>1, <2>2
<1>7. QueuesSay'
  <2>1. \A v \in User \ {Author} : NoEdit(pending'[v])
    BY <1>2, <1>4 DEF EditInv, QueuesSay
  <2>2. EditEnds(db, pending'[Author], 0, edits) /\ EditReached(db, pending'[Author], sent[Author])
    BY <1>2, <1>5, <1>6, AuthorAssumption DEF EditInv, QueuesSay
  <2> QED BY <2>1, <2>2 DEF QueuesSay
<1>8. AnswersSay'
  BY KeptAnswers
<1> QED BY <1>7, <1>8 DEF EditInv

\* A tap on the heart and a deletion queue no edit.
LEMMA TapsSay ==
    ASSUME EditInv, TypeOK', NEW u \in User, TapLike(u) \/ TapUnlike(u) \/ TapDelete(u)
    PROVE  EditInv'
<1>1. UNCHANGED <<db, edits, sent, reads, main>> /\ \A v \in User : Kept(v)
  BY DEF TapLike, TapUnlike, TapDelete, Kept
<1>2. CASE TapLike(u)
  <2> DEFINE w1 == UpdateData(Cartoon, [like |-> cell[u].like + 1], Nothing)
             w2 == StoreLike(u, taps[u] + 1)
  <2>1. cell[u].like + 1 \in Nat /\ taps[u] + 1 \in 1..MaxTaps
    BY <1>2, BoundsAssumption
       DEF TapLike, Tap, EditInv, TypeOK, ScreensOK, CountsOK, Copy
  <2>2. w1 \in Write(u) /\ w2 \in Write(u)
    BY <2>1, CartoonWrites, LikeWrites
  <2>3. w1.val \notin [text : Nat] /\ w2.doc # Cartoon
    BY DEF UpdateData, StoreLike, SetData, CartoonLike, Cartoon
  <2>4. Issue(u, <<w1, w2>>)
    BY <1>2 DEF TapLike, LikeCartoon
  <2> HIDE DEF w1, w2
  <2>5. ~IsEdit(w1) /\ ~IsEdit(w2)
    BY <2>3 DEF IsEdit
  <2> QED BY <1>1, <2>2, <2>4, <2>5, QueuedSays
<1>3. CASE TapUnlike(u)
  <2> DEFINE w1 == UpdateData(Cartoon, [like |-> cell[u].like - 1], Nothing)
             w2 == StoreUnlike(u, taps[u] + 1)
  <2>1. cell[u].like - 1 \in Nat /\ taps[u] + 1 \in 1..MaxTaps
    BY <1>3, BoundsAssumption
       DEF TapUnlike, MayUnLike, Tap, EditInv, TypeOK, ScreensOK, CountsOK, Copy
  <2>2. w1 \in Write(u) /\ w2 \in Write(u)
    BY <2>1, CartoonWrites, LikeWrites
  <2>3. w1.val \notin [text : Nat] /\ w2.doc # Cartoon
    BY DEF UpdateData, StoreUnlike, DeleteDoc, CartoonLike, Cartoon
  <2>4. Issue(u, <<w1, w2>>)
    BY <1>3 DEF TapUnlike, UnLikeCartoon
  <2> HIDE DEF w1, w2
  <2>5. ~IsEdit(w1) /\ ~IsEdit(w2)
    BY <2>3 DEF IsEdit
  <2> QED BY <1>1, <2>2, <2>4, <2>5, QueuedSays
<1>4. CASE TapDelete(u)
  <2> DEFINE w == DeleteDoc(Cartoon, [do |-> "deleted", visit |-> visits[u]])
  <2>1. w \in Write(u) /\ w.op = "delete" /\ Issue(u, <<w>>)
    <3>1. visits[u] \in Nat
      BY BoundsAssumption DEF EditInv, TypeOK, CountsOK
    <3>2. w \in Write(u)
      BY <3>1, CartoonWrites
    <3>3. w.op = "delete"
      BY DEF DeleteDoc
    <3> QED BY <1>4, <3>2, <3>3 DEF TapDelete
  <2> HIDE DEF w
  <2>2. ~IsEdit(w)
    BY <2>1 DEF IsEdit
  <2> QED BY <1>1, <2>1, <2>2, QueuedSays
<1> QED BY <1>2, <1>3, <1>4

\* Nor do the handlers of a like's writes.
LEMMA HandlersSay ==
    ASSUME EditInv, TypeOK', NEW u \in User, LikeStored(u) \/ UnlikeStored(u) \/ LikeMirrored(u)
    PROVE  EditInv'
<1>1. /\ Head(main[u]) \in Handler /\ main[u] # << >>
      /\ main' = [main EXCEPT ![u] = Tail(@)] /\ main \in [User -> Seq(Handler)]
      /\ UNCHANGED <<db, edits, sent, reads>>
  BY DEF LikeStored, UnlikeStored, LikeMirrored, Due, EditInv, TypeOK, QueuesOK, likesVars
<1>2. \A v \in User : Kept(v)
  <2> TAKE v \in User
  <2>1. CASE v = u
    BY <1>1, <2>1 DEF Kept
  <2>2. CASE v # u
    BY <1>1, <2>2 DEF Kept
  <2> QED BY <2>1, <2>2
<1>3. ASSUME NEW w \in Write(u), w.doc # Cartoon, pending' = pending \/ Issue(u, <<w>>)
      PROVE  EditInv'
  BY <1>1, <1>2, <1>3, QueuedSays DEF IsEdit
<1>4. CASE LikeStored(u)
  <2> DEFINE w == SetData(UserLike(u), EmptyDoc, [do |-> "likeMirrored", tap |-> Head(main[u]).tap])
  <2>1. Head(main[u]).tap \in 1..MaxTaps
    BY <1>1, <1>4 DEF LikeStored, Due, Handler, TapHandler
  <2>2. w \in Write(u) /\ w.doc # Cartoon /\ Issue(u, <<w>>)
    BY <1>4, <2>1, LikeWrites DEF LikeStored, SetData, UserLike, Cartoon
  <2> HIDE DEF w
  <2> QED BY <1>3, <2>2
<1>5. CASE UnlikeStored(u)
  <2> DEFINE w == DeleteDoc(UserLike(u), Nothing)
  <2>1. w \in Write(u) /\ w.doc # Cartoon /\ Issue(u, <<w>>)
    BY <1>5, MirrorDelete DEF UnlikeStored, DeleteDoc, UserLike, Cartoon
  <2> HIDE DEF w
  <2> QED BY <1>3, <2>1
<1>6. CASE LikeMirrored(u)
  <2> DEFINE w == SetData(Notice(u, Head(main[u]).tap), EmptyDoc, Nothing)
  <2>1. Head(main[u]).tap \in 1..MaxTaps
    BY <1>1, <1>6 DEF LikeMirrored, Due, Handler, TapHandler
  <2>2. w \in Write(u) /\ w.doc # Cartoon
    BY <2>1, LikeWrites DEF SetData, Notice, Cartoon
  <2>3. pending' = pending \/ Issue(u, <<w>>)
    BY <1>6 DEF LikeMirrored, UploadFeedBack
  <2> HIDE DEF w
  <2> QED BY <1>3, <2>2, <2>3
<1> QED BY <1>4, <1>5, <1>6

\* An edit becomes the last of its author's queue.
LEMMA EditSays ==
    ASSUME EditInv, TypeOK', NEW u \in User, TapEdit(u)
    PROVE  EditInv'
<1> DEFINE w == UpdateData(Cartoon, [text |-> edits + 1], Nothing)
<1>1. /\ u = Author /\ Issue(u, <<w>>) /\ UNCHANGED <<db, sent, main>> /\ edits' = edits + 1
      /\ reads' = [reads EXCEPT ![u] = @ \cup {[what |-> "cartoon", visit |-> visits[u],
                                               edit |-> edits + 1]}]
  BY DEF TapEdit
<1>2. edits \in Nat
  BY BoundsAssumption DEF EditInv, TypeOK, CountsOK
<1>3. w \in Write(u) /\ IsEdit(w) /\ w.val.text = edits + 1
  <2>1. edits + 1 \in Nat
    BY <1>2
  <2>2. w \in Write(u)
    BY <2>1, CartoonWrites
  <2>3. w.doc = Cartoon /\ w.op = "update" /\ w.val = [text |-> edits + 1]
    BY DEF UpdateData
  <2> HIDE DEF w
  <2> QED BY <2>1, <2>2, <2>3 DEF IsEdit
<1> HIDE DEF w
<1>4. /\ pending[u] \in Seq(Write(u)) /\ DOMAIN pending = User /\ sent[u] \in 0..Len(pending[u])
  BY DEF EditInv, TypeOK, QueuesOK
<1>5. pending'[u] = Append(pending[u], w) /\ \A v \in User \ {u} : pending'[v] = pending[v]
  BY <1>1, <1>3, <1>4, AppendGrows DEF Issue
<1>6. QueuesSay'
  <2>1. EditEnds(db, pending'[u], 0, edits + 1)
    BY <1>3, <1>4, <1>5, JoinSays
  <2>2. EditReached(db, pending'[u], sent[u])
    BY <1>1, <1>3, <1>4, <1>5, JoinSays DEF EditInv, QueuesSay
  <2> QED BY <1>1, <1>5, <2>1, <2>2 DEF EditInv, QueuesSay
<1>7. AnswersSay'
  <2>1. reads \in [User -> SUBSET Read]
    BY DEF EditInv, TypeOK, ScreensOK
  <2>2. ASSUME NEW v \in User, NEW r \in reads'[v], r.what = "cartoon"
        PROVE  v = Author /\ r.edit <= edits'
    <3>1. CASE r \in reads[v]
      <4>1. v = Author /\ r.edit <= edits /\ r.edit \in Nat
        BY <2>1, <2>2, <3>1 DEF EditInv, AnswersSay, Read
      <4> QED BY <1>1, <1>2, <4>1
    <3>2. CASE r \notin reads[v]
      <4>1. v = u /\ r.edit = edits + 1
        BY <1>1, <2>1, <2>2, <3>2
      <4> QED BY <1>1, <1>2, <4>1
    <3> QED BY <3>1, <3>2
  <2> QED BY <1>1, <2>2 DEF EditInv, AnswersSay, EditShown
<1> QED BY <1>6, <1>7 DEF EditInv

\* A delivered edit takes effect, and no later write of its stream undoes it.
LEMMA TransmitSays ==
    ASSUME EditInv, TypeOK', NEW u \in User, Transmit(u), UNCHANGED likesVars
    PROVE  EditInv'
<1> DEFINE k == sent[u] + 1
           w == pending[u][k]
<1>1. /\ pending' = pending /\ main' = main /\ edits' = edits /\ reads' = reads
      /\ db' = Apply(db, w) /\ sent'[u] = k /\ \A v \in User \ {u} : sent'[v] = sent[v]
      /\ k \in 1..Len(pending[u]) /\ sent[u] \in Nat /\ k - 1 = sent[u]
      /\ w \in Write(u) /\ DocsType(db)
  <2>1. /\ pending[u] \in Seq(Write(u)) /\ sent \in [User -> Nat] /\ DocsType(db)
        /\ sent[u] < Len(pending[u])
    BY DEF Transmit, EditInv, TypeOK, QueuesOK, DocsOK
  <2>2. k \in 1..Len(pending[u]) /\ k - 1 = sent[u]
    BY <2>1
  <2> QED BY <2>1, <2>2 DEF Transmit, likesVars
<1> HIDE DEF k, w
<1>2. ASSUME NEW n PROVE ~IsEdit(w) /\ Says(db, n) => Says(db', n)
  BY <1>1, ApplySays
<1>3. CASE u = Author
  <2>1. EditEnds(db', pending[u], 0, edits)
    <3>1. CASE IsEdit(w)
      BY <1>1, <1>3, <3>1 DEF EditInv, QueuesSay, EditEnds, w
    <3>2. CASE ~IsEdit(w)
      BY <1>2, <1>3, <3>2 DEF EditInv, QueuesSay, EditEnds
    <3> QED BY <3>1, <3>2
  <2>2. EditReached(db', pending[u], k)
    <3> SUFFICES ASSUME NEW i \in 1..k, IsEdit(pending[u][i]),
                        \A j \in i + 1..k : ~IsEdit(pending[u][j])
                 PROVE  Says(db', pending[u][i].val.text)
      BY DEF EditReached
    <3>1. CASE i = k
      BY <1>1, <3>1, ApplySays DEF w
    <3>2. CASE i # k
      <4>1. i \in 1..sent[u] /\ k \in i + 1..k /\ \A j \in i + 1..sent[u] : ~IsEdit(pending[u][j])
        BY <1>1, <3>2
      <4>2. ~IsEdit(w)
        BY <4>1 DEF w
      <4>3. Says(db, pending[u][i].val.text)
        BY <1>3, <4>1 DEF EditInv, QueuesSay, EditReached
      <4> QED BY <1>2, <4>2, <4>3
    <3> QED BY <3>1, <3>2
  <2>3. QueuesSay'
    BY <1>1, <1>3, <2>1, <2>2 DEF EditInv, QueuesSay
  <2> QED BY <1>1, <2>3 DEF EditInv, AnswersSay, EditShown
<1>4. CASE u # Author
  <2>1. ~IsEdit(w)
    BY <1>1, <1>4 DEF EditInv, QueuesSay, NoEdit, w
  <2>2. EditEnds(db', pending[Author], 0, edits)
    BY <1>2, <2>1 DEF EditInv, QueuesSay, EditEnds
  <2>3. EditReached(db', pending[Author], sent[Author])
    BY <1>2, <2>1 DEF EditInv, QueuesSay, EditReached
  <2>4. QueuesSay'
    BY <1>1, <1>4, <2>2, <2>3, AuthorAssumption DEF EditInv, QueuesSay
  <2> QED BY <1>1, <2>4 DEF EditInv, AnswersSay, EditShown
<1> QED BY <1>3, <1>4

\* An acknowledged write leaves a queue that ends as it did.
LEMMA AcknowledgeSays ==
    ASSUME EditInv, TypeOK', NEW u \in User, Acknowledge(u), UNCHANGED likesVars
    PROVE  EditInv'
<1> DEFINE then == Head(pending[u]).then
<1>1. /\ pending[u] \in Seq(Write(u)) /\ sent[u] \in 1..Len(pending[u]) /\ pending[u] # << >>
      /\ Head(pending[u]) \in Write(u) /\ main \in [User -> Seq(Handler)]
  BY DEF Acknowledge, EditInv, TypeOK, QueuesOK
<1>2. /\ pending'[u] = Tail(pending[u]) /\ \A v \in User \ {u} : pending'[v] = pending[v]
      /\ sent'[u] = sent[u] - 1 /\ \A v \in User \ {u} : sent'[v] = sent[v]
      /\ db' = db /\ edits' = edits /\ reads' = reads
      /\ main' = IF then = Nothing THEN main ELSE [main EXCEPT ![u] = Append(@, then)]
  BY DEF Acknowledge, EditInv, TypeOK, QueuesOK, likesVars
<1>3. then = Nothing \/ then.do # "edited"
  BY <1>1 DEF Write, WriteOf, TapHandler
<1> HIDE DEF then
<1>4. ASSUME NEW v \in User, NEW i \in DOMAIN main'[v], main'[v][i].do = "edited"
      PROVE  main'[v][i].cartoon.text >= main'[v][i].edit
  <2>1. main'[v] = main[v] \/ (main'[v] = Append(main[v], then) /\ then # Nothing)
    BY <1>1, <1>2
  <2>2. i \in DOMAIN main[v] /\ main'[v][i] = main[v][i]
    <3>1. CASE main'[v] = main[v]
      BY <3>1
    <3>2. CASE main'[v] = Append(main[v], then) /\ then # Nothing
      <4>1. main[v] \in Seq(Handler)
        BY <1>1
      <4>2. (i \in DOMAIN main[v] /\ main'[v][i] = main[v][i]) \/ main'[v][i] = then
        BY <3>2, <4>1
      <4> QED BY <1>3, <1>4, <3>2, <4>2
    <3> QED BY <2>1, <3>1, <3>2
  <2> QED BY <1>4, <2>2 DEF EditInv, AnswersSay, EditShown
<1>5. AnswersSay'
  BY <1>2, <1>4 DEF EditInv, AnswersSay, EditShown
<1>6. NoEdit(pending[u]) => NoEdit(pending'[u])
  <2>1. Len(Tail(pending[u])) = Len(pending[u]) - 1 /\ Len(pending[u]) \in Nat
        /\ \A i \in 1..Len(Tail(pending[u])) : Tail(pending[u])[i] = pending[u][i + 1]
    BY <1>1
  <2> QED BY <1>2, <2>1 DEF NoEdit
<1>7. QueuesSay'
  <2>1. CASE u = Author
    <3>1. EditEnds(db, Tail(pending[u]), 0, edits) /\ EditReached(db, Tail(pending[u]), sent[u] - 1)
      BY <1>1, <2>1, HeadSays DEF EditInv, QueuesSay
    <3> QED BY <1>2, <2>1, <3>1 DEF EditInv, QueuesSay
  <2>2. CASE u # Author
    BY <1>2, <1>6, <2>2, AuthorAssumption DEF EditInv, QueuesSay
  <2> QED BY <2>1, <2>2
<1> QED BY <1>5, <1>7 DEF EditInv

\* A new stream has delivered nothing yet.
LEMMA ReconnectSays ==
    ASSUME EditInv, TypeOK', NEW u \in User, Reconnect(u), UNCHANGED likesVars
    PROVE  EditInv'
<1>1. /\ UNCHANGED <<db, pending, main, edits, reads>>
      /\ sent'[u] = 0 /\ \A v \in User \ {u} : sent'[v] = sent[v]
  BY DEF Reconnect, EditInv, TypeOK, QueuesOK, likesVars
<1>2. EditReached(db, pending[Author], 0)
  BY DEF EditReached
<1>3. EditReached(db, pending[Author], sent'[Author])
  BY <1>1, <1>2, AuthorAssumption DEF EditInv, QueuesSay
<1>4. QueuesSay'
  BY <1>1, <1>3 DEF EditInv, QueuesSay
<1> QED BY <1>1, <1>4 DEF EditInv, AnswersSay, EditShown

\* A restart drops handlers and reads, and of the writes nothing but those.
LEMMA RestartSays ==
    ASSUME EditInv, TypeOK', NEW u \in User, Restart(u)
    PROVE  EditInv'
<1>1. /\ pending[u] \in Seq(Write(u)) /\ DOMAIN pending = User
      /\ main \in [User -> Seq(Handler)] /\ sent \in [User -> Nat]
  BY DEF EditInv, TypeOK, QueuesOK
<1>2. reads \in [User -> SUBSET Read]
  BY DEF EditInv, TypeOK, ScreensOK
<1>3. /\ UNCHANGED <<db, edits>>
      /\ main'[u] = << >> /\ \A v \in User \ {u} : main'[v] = main[v]
      /\ reads'[u] = {} /\ \A v \in User \ {u} : reads'[v] = reads[v]
      /\ sent'[u] = 0 /\ \A v \in User \ {u} : sent'[v] = sent[v]
      /\ \A v \in User \ {u} : pending'[v] = pending[v]
      /\ pending'[u] = [i \in DOMAIN pending[u] |-> [pending[u][i] EXCEPT !.then = Nothing]]
  BY <1>1, <1>2 DEF Restart, RestartClient
<1>4. Len(pending'[u]) = Len(pending[u]) /\ Len(pending[u]) \in Nat
  BY <1>1, <1>3
<1>5. ASSUME NEW i \in 1..Len(pending[u])
      PROVE  /\ IsEdit(pending'[u][i]) <=> IsEdit(pending[u][i])
             /\ pending'[u][i].val = pending[u][i].val
  <2>1. /\ pending[u][i] \in Write(u)
        /\ pending'[u][i] = [pending[u][i] EXCEPT !.then = Nothing]
    <3>1. i \in DOMAIN pending[u]
      BY <1>1
    <3>2. pending'[u][i] = [pending[u][i] EXCEPT !.then = Nothing]
      BY <1>3, <3>1
    <3> QED BY <1>1, <3>2
  <2>2. /\ pending'[u][i].doc = pending[u][i].doc
        /\ pending'[u][i].op = pending[u][i].op
        /\ pending'[u][i].val = pending[u][i].val
    BY <2>1 DEF Write, WriteOf
  <2> QED BY <2>2 DEF IsEdit
<1>6. NoEdit(pending[u]) => NoEdit(pending'[u])
  BY <1>4, <1>5 DEF NoEdit
<1>7. EditEnds(db, pending[u], 0, edits) => EditEnds(db, pending'[u], 0, edits)
  BY <1>4, <1>5 DEF EditEnds
<1>8. EditReached(db, pending'[u], 0)
  BY DEF EditReached
<1>9. QueuesSay'
  BY <1>3, <1>6, <1>7, <1>8, AuthorAssumption DEF EditInv, QueuesSay
<1>10. ASSUME NEW v \in User, NEW i \in DOMAIN main'[v], main'[v][i].do = "edited"
       PROVE  main'[v][i].cartoon.text >= main'[v][i].edit
  <2>1. CASE v = u
    BY <1>3, <1>10, <2>1
  <2>2. CASE v # u
    BY <1>3, <1>10, <2>2 DEF EditInv, AnswersSay, EditShown
  <2> QED BY <2>1, <2>2
<1>11. AnswersSay'
  BY <1>3, <1>10 DEF EditInv, AnswersSay, EditShown
<1> QED BY <1>9, <1>11 DEF EditInv

-----------------------------------------------------------------------------
(* The theorem                                                             *)

\* Before the first edit the document carries the text it was made with.
LEMMA InitSays == Init => EditInv
<1> SUFFICES ASSUME Init PROVE EditInv
  OBVIOUS
<1>1. TypeOK
  BY InitType
<1>2. db[Cartoon].text = 0 /\ pending = [u \in User |-> << >>] /\ main = [u \in User |-> << >>]
      /\ sent = [u \in User |-> 0] /\ reads = [u \in User |-> {}] /\ edits = 0
  BY DEF Init, FirestoreInit, Docs
<1>3. QueuesSay
  BY <1>2, AuthorAssumption DEF QueuesSay, NoEdit, EditEnds, EditReached, Says
<1>4. AnswersSay
  BY <1>2 DEF AnswersSay, EditShown
<1> QED BY <1>1, <1>3, <1>4 DEF EditInv

\* Every step keeps the edits on their way.
LEMMA StepSays == EditInv /\ [Next]_vars => EditInv'
<1> SUFFICES ASSUME EditInv, [Next]_vars PROVE EditInv'
  OBVIOUS
<1>1. TypeOK'
  BY StepType DEF EditInv
<1>2. CASE UNCHANGED vars
  BY <1>1, <1>2 DEF vars, firestoreVars, likesVars, EditInv, QueuesSay, AnswersSay, EditShown
<1>3. CASE Next
  <2>1. PICK u \in User : Screen(u) \/ RunHandler(u) \/ Answer(u) \/ Client(u) \/ Restart(u)
    BY <1>3 DEF Next
  <2>2. CASE Screen(u)
    BY <1>1, <2>2, ScreenSays, TapsSay, EditSays DEF Screen
  <2>3. CASE RunHandler(u)
    BY <1>1, <2>3, ScreenSays, HandlersSay DEF RunHandler
  <2>4. CASE Answer(u)
    BY <1>1, <2>4, ScreenSays, AnswerSays DEF Answer
  <2>5. CASE Client(u)
    BY <1>1, <2>5, TransmitSays, AcknowledgeSays, ReconnectSays DEF Client
  <2>6. CASE Restart(u)
    BY <1>1, <2>6, RestartSays
  <2> QED BY <2>1, <2>2, <2>3, <2>4, <2>5, <2>6
<1> QED BY <1>2, <1>3

\* However many accounts like the cartoon from old copies while its author
\* edits it, resends and restarts: once the author's queue has drained the
\* document carries the last edit, and every fetch after an edit shows it
\* (editCartoon, and fetchCartoon which does not await it).
THEOREM EditsKept == Spec => []EditKept
<1>1. ASSUME EditInv PROVE EditStands
  <2>1. CASE pending[Author] = << >>
    <3>1. Len(pending[Author]) = 0
      BY <2>1
    <3> QED BY <1>1, <3>1 DEF EditInv, QueuesSay, EditEnds, EditStands, Says, Exists
  <2>2. CASE pending[Author] # << >>
    BY <2>2 DEF EditStands
  <2> QED BY <2>1, <2>2
<1>2. EditInv => EditKept
  BY <1>1 DEF EditInv, AnswersSay, EditKept
<1> QED BY <1>2, InitSays, StepSays, PTL DEF Spec

-----------------------------------------------------------------------------
(* What a step adds to u's queues and takes off them                       *)

\* Issued writes are added at the end, with their handlers.
LEMMA IssueAdds ==
    ASSUME QueuesOK, NEW u \in User, NEW ws \in Seq(Write(u)), Issue(u, ws)
    PROVE  /\ pending'[u] \in Seq(Write(u)) /\ Len(pending'[u]) = Len(pending[u]) + Len(ws)
           /\ Len(pending[u]) \in Nat /\ Len(ws) \in Nat
           /\ \A k \in 1..Len(pending[u]) : pending'[u][k] = pending[u][k]
           /\ \A k \in 1..Len(ws) : pending'[u][Len(pending[u]) + k] = ws[k]
           /\ \A v \in User \ {u} : pending'[v] = pending[v]
<1>1. pending[u] \in Seq(Write(u)) /\ pending'[u] = pending[u] \o ws
  BY DEF QueuesOK, Issue
<1>2. \A v \in User \ {u} : pending'[v] = pending[v]
  BY DEF QueuesOK, Issue
<1> QED BY <1>1, <1>2

\* Kinds of writes and of handlers that are not issued do not get more.
LEMMA IssueLonger ==
    ASSUME QueuesOK, NEW u \in User, NEW ws \in Seq(Write(u)), Issue(u, ws),
           NEW T, NEW U, \A k \in 1..Len(ws) : ws[k] \notin T /\ ws[k].then \notin U
    PROVE  Longer(pending[u], pending'[u], T) /\ Longer(Thens(pending[u]), Thens(pending'[u]), U)
<1>0. pending[u] \in Seq(Write(u)) /\ pending'[u] \in Seq(Write(u))
  BY IssueAdds DEF QueuesOK
<1>1. \A k \in Len(pending[u])+1..Len(pending'[u]) :
          pending'[u][k] \notin T /\ pending'[u][k].then \notin U
  <2> SUFFICES ASSUME NEW k \in Len(pending[u])+1..Len(pending'[u])
               PROVE  pending'[u][k] \notin T /\ pending'[u][k].then \notin U
    OBVIOUS
  <2> DEFINE j == k - Len(pending[u])
  <2>1. Len(pending'[u]) = Len(pending[u]) + Len(ws) /\ Len(pending[u]) \in Nat /\ Len(ws) \in Nat
    BY IssueAdds
  <2>2. j \in 1..Len(ws) /\ k = Len(pending[u]) + j
    BY <2>1
  <2> HIDE DEF j
  <2>3. pending'[u][k] = ws[j]
    BY <2>2, IssueAdds
  <2> QED BY <2>2, <2>3
<1>2. Longer(pending[u], pending'[u], T)
  <2>1. /\ Len(pending[u]) \in Nat /\ Len(pending'[u]) \in Nat /\ Len(pending'[u]) >= Len(pending[u])
        /\ \A k \in 1..Len(pending[u]) : pending'[u][k] = pending[u][k]
    BY IssueAdds
  <2> QED BY <1>1, <2>1 DEF Longer
<1>3. Longer(Thens(pending[u]), Thens(pending'[u]), U)
  BY <1>0, <1>1, <1>2, ThensFollow
<1> QED BY <1>2, <1>3

\* A step that posts a handler adds it at the end.
LEMMA PostAdds ==
    ASSUME QueuesOK, NEW u \in User, NEW h \in Handler, main' = [main EXCEPT ![u] = Append(@, h)]
    PROVE  Pushed(main[u], main'[u], h) /\ \A v \in User \ {u} : main'[v] = main[v]
<1>1. main[u] \in Seq(Handler) /\ main'[u] = Append(main[u], h)
  BY DEF QueuesOK
<1>2. \A v \in User \ {u} : main'[v] = main[v]
  BY DEF QueuesOK
<1> QED BY <1>1, <1>2, AppendPushes

\* A step that runs the handler that came due first takes it off.
LEMMA RunPops ==
    ASSUME QueuesOK, NEW u \in User, main[u] # << >>, main' = [main EXCEPT ![u] = Tail(@)]
    PROVE  /\ Popped(main[u], main'[u], Head(main[u])) /\ Head(main[u]) \in Handler
           /\ \A v \in User \ {u} : main'[v] = main[v]
<1>1. main[u] \in Seq(Handler) /\ main'[u] = Tail(main[u])
  BY DEF QueuesOK
<1>2. \A v \in User \ {u} : main'[v] = main[v]
  BY DEF QueuesOK
<1> QED BY <1>1, <1>2, TailPops

-----------------------------------------------------------------------------
(* The author's notices: the invariant behind NoticesMatchLikes            *)
(*                                                                         *)
(* A like's tap i leads through a chain of four stages to its notice: a    *)
(* handler hangs on the like's write, waits to run, hangs on the mirror's  *)
(* write, waits to run; then the notice is queued, and then it exists.     *)

\* The handlers of tap i that are still to lead to its notice, and the writes
\* of that notice.
Chain(i) == {h \in Handler : h.do \in {"likeStored", "likeMirrored"} /\ h.tap = i}
Notes(u, i) == {w \in Write(u) : w.doc = Notice(u, i)}

NoticeComing(u, i) ==
    \/ ~Came(Thens(pending[u]), main[u], Chain(i))
    \/ ~NoneIn(pending[u], Notes(u, i))
    \/ Exists(Notice(u, i))

NoticeInv(u, i) ==
    /\ NoticeComing(u, i) => i \in liked[u]
    /\ u = Author => NoneIn(pending[u], Notes(u, i)) /\ ~Exists(Notice(u, i))
    /\ i \in liked[u] /\ u # Author /\ restarts[u] = 0 => NoticeComing(u, i)
    /\ \A k \in 1..sent[u] : pending[u][k] \in Notes(u, i) => Exists(Notice(u, i))

\* A step that adds nothing to tap i's chain and takes nothing off it.
SameNotice(u, i) ==
    /\ Longer(pending[u], pending'[u], Notes(u, i))
    /\ Longer(Thens(pending[u]), Thens(pending'[u]), Chain(i))
    /\ \/ Longer(main[u], main'[u], Chain(i))
       \/ \E h : h \notin Chain(i) /\ Popped(main[u], main'[u], h)
    /\ Exists(Notice(u, i))' = Exists(Notice(u, i))
    /\ sent'[u] = sent[u] /\ restarts'[u] = restarts[u]
    /\ (i \in liked'[u]) = (i \in liked[u])

\* It keeps what the invariant says of the tap.
LEMMA SameNoticeKeeps ==
    ASSUME TypeOK, NEW u \in User, NEW i \in 1..MaxTaps, NoticeInv(u, i), SameNotice(u, i)
    PROVE  NoticeInv(u, i)'
<1>1. Came(Thens(pending'[u]), main'[u], Chain(i)) <=> Came(Thens(pending[u]), main[u], Chain(i))
  <2>1. CASE Longer(main[u], main'[u], Chain(i))
    <3> DEFINE Y == {}
    <3>1. FALSE \in BOOLEAN
      OBVIOUS
    <3>2. /\ Leads(Thens(pending[u]), main[u], Chain(i), Y, FALSE)
                => Leads(Thens(pending'[u]), main'[u], Chain(i), Y, FALSE)
          /\ Came(Thens(pending'[u]), main'[u], Chain(i)) <=> Came(Thens(pending[u]), main[u], Chain(i))
      BY <2>1, <3>1, LeadsLonger DEF SameNotice
    <3> QED BY <3>2
  <2>2. CASE \E h : h \notin Chain(i) /\ Popped(main[u], main'[u], h)
    BY <2>2, CamePop DEF SameNotice
  <2> QED BY <2>1, <2>2 DEF SameNotice
<1>2. NoneIn(pending'[u], Notes(u, i)) <=> NoneIn(pending[u], Notes(u, i))
  <2> DEFINE Y == {}
  <2>1. FALSE \in BOOLEAN
    OBVIOUS
  <2>2. /\ LastIn(pending[u], Notes(u, i), Y, FALSE) => LastIn(pending'[u], Notes(u, i), Y, FALSE)
        /\ NoneIn(pending'[u], Notes(u, i)) <=> NoneIn(pending[u], Notes(u, i))
    BY <2>1, LastLonger DEF SameNotice
  <2> QED BY <2>2
<1>3. ASSUME NEW k \in 1..sent[u] PROVE pending'[u][k] = pending[u][k]
  <2>1. k \in 1..Len(pending[u])
    BY DEF TypeOK, QueuesOK
  <2> QED BY <2>1 DEF SameNotice, Longer
<1>4. /\ Exists(Notice(u, i))' <=> Exists(Notice(u, i))
      /\ i \in liked'[u] <=> i \in liked[u]
      /\ sent'[u] = sent[u] /\ restarts'[u] = restarts[u]
  BY DEF SameNotice
<1>5. NoticeComing(u, i)' <=> NoticeComing(u, i)
  BY <1>1, <1>2, <1>4 DEF NoticeComing
<1>6. \A k \in 1..sent'[u] : pending'[u][k] \in Notes(u, i) => Exists(Notice(u, i))'
  BY <1>3, <1>4 DEF NoticeInv
<1> QED BY <1>2, <1>4, <1>5, <1>6 DEF NoticeInv

\* A notice is a document of its own.
LEMMA NoticeApart ==
    ASSUME NEW u \in User, NEW v \in User, NEW i \in 1..MaxTaps, NEW j \in 1..MaxTaps
    PROVE  /\ Notice(u, i) = Notice(v, j) <=> u = v /\ i = j
           /\ Notice(u, i) \notin {Cartoon, CartoonLike(v), UserLike(v)}
           /\ Notice(u, i) \in Docs
BY DEF Notice, Cartoon, CartoonLike, UserLike, Docs

\* An account's chains are left alone where its queues, its likes and its
\* notices are.
LEMMA UntouchedNotice ==
    ASSUME TypeOK, NEW u \in User, NEW i \in 1..MaxTaps,
           pending'[u] = pending[u], main'[u] = main[u], sent'[u] = sent[u],
           restarts'[u] = restarts[u], liked'[u] = liked[u],
           db'[Notice(u, i)] = db[Notice(u, i)]
    PROVE  SameNotice(u, i)
<1>1. /\ pending[u] \in Seq(Write(u)) /\ Len(pending[u]) \in Nat
      /\ main[u] \in Seq(Handler) /\ Len(main[u]) \in Nat
  BY DEF TypeOK, QueuesOK
<1>2. Len(Thens(pending[u])) \in Nat
  BY <1>1, ThensFacts
<1>3. /\ Longer(pending[u], pending[u], Notes(u, i)) /\ Longer(main[u], main[u], Chain(i))
      /\ Longer(Thens(pending[u]), Thens(pending[u]), Chain(i))
  BY <1>1, <1>2, SameLonger
<1> QED BY <1>3 DEF SameNotice, Exists

\* Writes and handlers of other kinds.
LEMMA IssueSame ==
    ASSUME TypeOK, NEW u \in User, NEW i \in 1..MaxTaps, NEW ws \in Seq(Write(u)),
           \A k \in 1..Len(ws) : ws[k].doc # Notice(u, i) /\ ws[k].then \notin Chain(i),
           Issue(u, ws), UNCHANGED <<db, sent, restarts>>, i \in liked'[u] <=> i \in liked[u],
           main'[u] = main[u] \/ \E h : h \notin Chain(i) /\ Popped(main[u], main'[u], h)
    PROVE  SameNotice(u, i)
<1>1. \A k \in 1..Len(ws) : ws[k] \notin Notes(u, i)
  BY DEF Notes
<1>2. /\ Longer(pending[u], pending'[u], Notes(u, i))
      /\ Longer(Thens(pending[u]), Thens(pending'[u]), Chain(i))
  BY <1>1, IssueLonger DEF TypeOK
<1>3. Longer(main[u], main[u], Chain(i))
  <2>1. main[u] \in Seq(Handler) /\ Len(main[u]) \in Nat
    BY DEF TypeOK, QueuesOK
  <2> QED BY <2>1, SameLonger
<1>4. (i \in liked'[u]) = (i \in liked[u])
  OBVIOUS
<1> QED BY <1>2, <1>3, <1>4 DEF SameNotice, Exists

\* What the screen, its reads and the handlers that only show do to them.
LEMMA ShowSame ==
    ASSUME TypeOK, NEW u \in User, NEW i \in 1..MaxTaps,
           \/ FetchList(u) \/ Open(u) \/ Close(u) \/ Redisplay(u) \/ TapUnlikeRefused(u)
           \/ Checked(u) \/ Edited(u) \/ Deleted(u) \/ Answer(u)
    PROVE  SameNotice(u, i)
<1>1. /\ UNCHANGED <<db, pending, sent, liked, restarts>>
      /\ main'[u] # main[u] => Checked(u) \/ Edited(u) \/ Deleted(u) \/ Answer(u)
  BY DEF FetchList, Open, Close, Redisplay, TapUnlikeRefused, Checked, Edited, Deleted,
         Answer, AnswerLikeCheck, AnswerEdited, ReadFails
<1>2. CASE main'[u] = main[u]
  BY <1>1, <1>2, UntouchedNotice
<1>3. ASSUME \/ Longer(main[u], main'[u], Chain(i))
             \/ \E h : h \notin Chain(i) /\ Popped(main[u], main'[u], h)
      PROVE  SameNotice(u, i)
  <2>1. pending[u] \in Seq(Write(u)) /\ Len(pending[u]) \in Nat
    BY DEF TypeOK, QueuesOK
  <2>2. Len(Thens(pending[u])) \in Nat
    BY <2>1, ThensFacts
  <2>3. /\ Longer(pending[u], pending[u], Notes(u, i))
        /\ Longer(Thens(pending[u]), Thens(pending[u]), Chain(i))
    BY <2>1, <2>2, SameLonger
  <2> QED BY <1>1, <1>3, <2>3 DEF SameNotice, Exists
<1>4. CASE Checked(u) \/ Edited(u) \/ Deleted(u)
  <2>1. /\ main[u] # << >> /\ main' = [main EXCEPT ![u] = Tail(@)]
        /\ Head(main[u]).do \in {"checked", "edited", "deleted"}
    BY <1>4 DEF Checked, Edited, Deleted, Due
  <2>2. Popped(main[u], main'[u], Head(main[u])) /\ Head(main[u]) \notin Chain(i)
    BY <2>1, RunPops DEF TypeOK, Chain
  <2> QED BY <1>3, <2>2
<1>5. CASE Answer(u) /\ main'[u] # main[u]
  <2>1. ASSUME NEW h \in Handler, h.do \in {"checked", "edited"},
               main' = [main EXCEPT ![u] = Append(@, h)]
        PROVE  SameNotice(u, i)
    <3>1. Pushed(main[u], main'[u], h) /\ h \notin Chain(i)
      BY <2>1, PostAdds DEF TypeOK, Chain
    <3> QED BY <1>3, <3>1, PushedLonger
  <2>2. CASE AnswerLikeCheck(u)
    <3>1. PICK r \in reads[u] :
             /\ r.what = "like"
             /\ main' = [main EXCEPT ![u] = Append(@, [do |-> "checked", visit |-> r.visit,
                                                      exists |-> View(u)[UserLike(u)] # NoDoc])]
      BY <2>2 DEF AnswerLikeCheck, Post
    <3> DEFINE h == [do |-> "checked", visit |-> r.visit, exists |-> View(u)[UserLike(u)] # NoDoc]
    <3>2. r \in Read
      BY DEF TypeOK, ScreensOK
    <3>3. h \in Handler /\ h.do = "checked"
      BY <3>1, <3>2 DEF Read, Handler
    <3> QED BY <2>1, <3>1, <3>3
  <2>3. CASE AnswerEdited(u)
    <3>1. PICK r \in reads[u] :
             /\ r.what = "cartoon"
             /\ main' = [main EXCEPT ![u] = Append(@, [do |-> "edited", visit |-> r.visit,
                                                edit |-> r.edit, cartoon |-> View(u)[Cartoon]])]
             /\ View(u)[Cartoon] # NoDoc
      BY <1>5, <2>3 DEF AnswerEdited, Post
    <3> DEFINE h == [do |-> "edited", visit |-> r.visit, edit |-> r.edit,
                     cartoon |-> View(u)[Cartoon]]
    <3>2. r \in Read /\ View(u)[Cartoon] \in CartoonDoc
      <4>1. pending[u] \in Seq(Write(u)) /\ DocsType(db)
        BY DEF TypeOK, QueuesOK, DocsOK
      <4>2. DocsType(View(u))
        BY <4>1, OverlayType DEF View
      <4>3. r \in Read
        BY DEF TypeOK, ScreensOK
      <4> QED BY <3>1, <4>2, <4>3 DEF DocsType
    <3>3. h \in Handler /\ h.do = "edited"
      BY <3>1, <3>2 DEF Read, Handler
    <3> QED BY <2>1, <3>1, <3>3
  <2>4. CASE ReadFails(u)
    BY <1>5, <2>4 DEF ReadFails
  <2> QED BY <1>5, <2>2, <2>3, <2>4 DEF Answer
<1> QED BY <1>1, <1>2, <1>4, <1>5

\* The author's menu and an unlike queue writes of other documents.
LEMMA MenuSame ==
    ASSUME TypeOK, NEW u \in User, NEW i \in 1..MaxTaps, TapUnlike(u) \/ TapEdit(u) \/ TapDelete(u)
    PROVE  SameNotice(u, i)
<1>0. QueuesOK /\ cell[u] \in Copy \cup {Closed} /\ taps[u] \in Nat /\ edits \in Nat /\ visits[u] \in Nat
  BY BoundsAssumption DEF TypeOK, ScreensOK, CountsOK
<1>1. ASSUME NEW ws \in Seq(Write(u)),
             \A k \in 1..Len(ws) : ws[k].doc # Notice(u, i) /\ ws[k].then \notin Chain(i),
             Issue(u, ws), UNCHANGED <<db, sent, main, restarts, liked>>
      PROVE  SameNotice(u, i)
  BY <1>1, IssueSame
<1>2. Nothing \notin Chain(i)
  BY NothingAssumption DEF Chain
<1>3. CASE TapUnlike(u)
  <2> DEFINE w1 == UpdateData(Cartoon, [like |-> cell[u].like - 1], Nothing)
             w2 == StoreUnlike(u, taps[u] + 1)
  <2>1. cell[u].like - 1 \in Nat /\ taps[u] + 1 \in 1..MaxTaps
    <3>1. cell[u] \in Copy /\ cell[u].like > 0 /\ taps[u] < MaxTaps
      BY <1>0, <1>3 DEF TapUnlike, Tap, MayUnLike, TypeOK, ScreensOK
    <3> QED BY <1>0, <3>1, BoundsAssumption DEF Copy
  <2>2. w1 \in Write(u) /\ w2 \in Write(u)
    BY <2>1, CartoonWrites, LikeWrites
  <2>3. w1.doc # Notice(u, i) /\ w2.doc # Notice(u, i) /\ w1.then \notin Chain(i) /\ w2.then \notin Chain(i)
    BY <1>2, NoticeApart DEF UpdateData, StoreUnlike, DeleteDoc, Chain
  <2>4. Issue(u, <<w1, w2>>) /\ UNCHANGED <<db, sent, main, restarts, liked>>
    BY <1>3 DEF TapUnlike, UnLikeCartoon
  <2> HIDE DEF w1, w2
  <2>5. <<w1, w2>> \in Seq(Write(u)) /\ \A k \in 1..Len(<<w1, w2>>) : <<w1, w2>>[k] \in {w1, w2}
    BY <2>2
  <2> QED BY <1>1, <2>3, <2>4, <2>5
<1>4. ASSUME NEW w \in Write(u), w.doc = Cartoon, w.then \notin Chain(i),
             Issue(u, <<w>>), UNCHANGED <<db, sent, main, restarts, liked>>
      PROVE  SameNotice(u, i)
  <2>1. <<w>> \in Seq(Write(u)) /\ \A k \in 1..Len(<<w>>) : <<w>>[k] = w
    OBVIOUS
  <2>2. Notice(u, i) # Cartoon
    BY NoticeApart
  <2>3. \A k \in 1..Len(<<w>>) : <<w>>[k].doc # Notice(u, i) /\ <<w>>[k].then \notin Chain(i)
    BY <1>4, <2>1, <2>2
  <2> DEFINE ws == <<w>>
  <2>4. ws \in Seq(Write(u)) /\ Issue(u, ws)
    BY <1>4, <2>1
  <2> HIDE DEF ws
  <2> QED BY <1>1, <1>4, <2>3, <2>4 DEF ws
<1>5. CASE TapEdit(u)
  <2> DEFINE w == UpdateData(Cartoon, [text |-> edits + 1], Nothing)
  <2>1. w \in Write(u) /\ w.doc = Cartoon /\ w.then \notin Chain(i)
    <3>1. edits + 1 \in Nat
      BY <1>0
    <3> QED BY <1>2, <3>1, CartoonWrites DEF UpdateData
  <2>2. Issue(u, <<w>>) /\ UNCHANGED <<db, sent, main, restarts, liked>>
    BY <1>5 DEF TapEdit
  <2> QED BY <1>4, <2>1, <2>2
<1>6. CASE TapDelete(u)
  <2> DEFINE w == DeleteDoc(Cartoon, [do |-> "deleted", visit |-> visits[u]])
  <2>1. w \in Write(u) /\ w.doc = Cartoon /\ w.then \notin Chain(i)
    BY <1>0, CartoonWrites DEF DeleteDoc, Chain
  <2>2. Issue(u, <<w>>) /\ UNCHANGED <<db, sent, main, restarts, liked>>
    BY <1>6 DEF TapDelete
  <2> QED BY <1>4, <2>1, <2>2
<1> QED BY <1>3, <1>5, <1>6

\* A like starts its tap's chain, and leaves the other taps' alone.
LEMMA LikeStarts ==
    ASSUME TypeOK, NEW u \in User, NEW i \in 1..MaxTaps, TapLike(u), NoticeInv(u, i)
    PROVE  NoticeInv(u, i)'
<1> DEFINE w1 == UpdateData(Cartoon, [like |-> cell[u].like + 1], Nothing)
           w2 == StoreLike(u, taps[u] + 1)
           ws == <<w1, w2>>
<1>0. /\ QueuesOK /\ cell[u].like + 1 \in Nat /\ taps[u] + 1 \in 1..MaxTaps
      /\ liked \in [User -> SUBSET (1..MaxTaps)]
  <2>1. cell[u] \in Copy /\ taps[u] < MaxTaps /\ taps[u] \in Nat
    BY BoundsAssumption DEF TapLike, Tap, TypeOK, ScreensOK, CountsOK
  <2> QED BY <2>1, BoundsAssumption DEF Copy, TypeOK, HistoryOK
<1>1. w1 \in Write(u) /\ w2 \in Write(u)
  BY <1>0, CartoonWrites, LikeWrites
<1>2. /\ w1.doc # Notice(u, i) /\ w2.doc # Notice(u, i) /\ w1.then \notin Chain(i)
      /\ i # taps[u] + 1 => w2.then \notin Chain(i)
      /\ i = taps[u] + 1 => w2.then \in Chain(i)
  BY <1>0, NothingAssumption, NoticeApart
     DEF UpdateData, StoreLike, SetData, Chain, Handler, TapHandler
<1>3. /\ Issue(u, ws) /\ UNCHANGED <<db, sent, main, restarts>>
      /\ liked'[u] = liked[u] \cup {taps[u] + 1}
  BY <1>0 DEF TapLike, LikeCartoon
<1> HIDE DEF w1, w2
<1>4. ws \in Seq(Write(u)) /\ \A k \in 1..Len(ws) : ws[k] \in {w1, w2}
  BY <1>1
<1> HIDE DEF ws
<1>5. CASE i # taps[u] + 1
  <2>1. \A k \in 1..Len(ws) : ws[k].doc # Notice(u, i) /\ ws[k].then \notin Chain(i)
    BY <1>2, <1>4, <1>5
  <2>2. main'[u] = main[u] /\ (i \in liked'[u] <=> i \in liked[u])
    BY <1>3, <1>5
  <2>3. SameNotice(u, i)
    BY <1>3, <1>4, <2>1, <2>2, IssueSame
  <2> QED BY <2>3, SameNoticeKeeps
<1>6. CASE i = taps[u] + 1
  <2>1. NoticeComing(u, i)'
    <3>1. pending'[u] \in Seq(Write(u)) /\ Len(pending[u]) + 2 \in 1..Len(pending'[u])
          /\ pending'[u][Len(pending[u]) + 2] = w2
      <4>1. Len(ws) = 2 /\ ws[2] = w2 /\ 2 \in 1..2
        BY DEF ws
      <4>2. /\ pending'[u] \in Seq(Write(u)) /\ Len(pending'[u]) = Len(pending[u]) + Len(ws)
            /\ Len(pending[u]) \in Nat
            /\ \A k \in 1..Len(ws) : pending'[u][Len(pending[u]) + k] = ws[k]
        BY <1>0, <1>3, <1>4, IssueAdds
      <4> QED BY <4>1, <4>2
    <3>2. Thens(pending'[u])[Len(pending[u]) + 2] \in Chain(i) /\ Len(Thens(pending'[u])) = Len(pending'[u])
      BY <1>2, <1>6, <3>1, ThensFacts
    <3>3. ~NoneIn(Thens(pending'[u]), Chain(i))
      BY <3>1, <3>2 DEF NoneIn
    <3> QED BY <3>3 DEF NoticeComing, Came
  <2>2. \A k \in 1..Len(ws) : ws[k] \notin Notes(u, i) /\ ws[k].then \notin {}
    BY <1>2, <1>4 DEF Notes
  <2> DEFINE none == {}
  <2>3. /\ Longer(pending[u], pending'[u], Notes(u, i))
        /\ Longer(Thens(pending[u]), Thens(pending'[u]), none)
    <3>1. \A k \in 1..Len(ws) : ws[k].then \notin none
      OBVIOUS
    <3> HIDE DEF none
    <3> QED BY <1>0, <1>3, <1>4, <2>2, <3>1, IssueLonger
  <2>4. NoneIn(pending[u], Notes(u, i)) => NoneIn(pending'[u], Notes(u, i))
    BY <2>3 DEF Longer, NoneIn
  <2>5. ASSUME NEW k \in 1..sent[u] PROVE pending'[u][k] = pending[u][k]
    <3>1. k \in 1..Len(pending[u])
      BY DEF TypeOK, QueuesOK
    <3> QED BY <2>3, <3>1 DEF Longer
  <2> QED BY <1>3, <1>6, <2>1, <2>4, <2>5 DEF NoticeInv, Exists
<1> QED BY <1>5, <1>6

\* The next stage of a tap's chain follows the one that ran.
LEMMA ChainMoves ==
    ASSUME TypeOK, NEW u \in User, NEW i \in 1..MaxTaps, NoticeInv(u, i),
           main[u] # << >>, Head(main[u]) \in Chain(i),
           NEW w \in Write(u), w.then \in Chain(i) \/ w \in Notes(u, i),
           u = Author => w \notin Notes(u, i),
           Issue(u, <<w>>), UNCHANGED <<db, sent, liked, restarts>>
    PROVE  NoticeInv(u, i)'
<1> DEFINE ws == <<w>>
           n == Len(pending[u]) + 1
<1>1. ws \in Seq(Write(u)) /\ Len(ws) = 1 /\ ws[1] = w /\ 1 \in 1..1 /\ Issue(u, ws)
  OBVIOUS
<1> HIDE DEF ws
<1>2. /\ pending'[u] \in Seq(Write(u)) /\ Len(pending'[u]) = Len(pending[u]) + Len(ws)
      /\ Len(pending[u]) \in Nat
      /\ \A k \in 1..Len(pending[u]) : pending'[u][k] = pending[u][k]
      /\ \A k \in 1..Len(ws) : pending'[u][Len(pending[u]) + k] = ws[k]
  BY <1>1, IssueAdds DEF TypeOK
<1>3. Len(pending'[u]) = n /\ n \in 1..n /\ pending'[u][n] = w
  BY <1>1, <1>2
<1>4. i \in liked[u]
  <2>1. 1 \in 1..Len(main[u]) /\ main[u][1] = Head(main[u])
    BY DEF TypeOK, QueuesOK
  <2>2. ~NoneIn(main[u], Chain(i))
    BY <2>1 DEF NoneIn
  <2> QED BY <2>2 DEF NoticeInv, NoticeComing, Came
<1>5. NoticeComing(u, i)'
  <2>1. CASE w.then \in Chain(i)
    <3>1. Thens(pending'[u])[n] = w.then /\ Len(Thens(pending'[u])) = n
      BY <1>2, <1>3, ThensFacts
    <3>2. ~NoneIn(Thens(pending'[u]), Chain(i))
      BY <1>3, <2>1, <3>1 DEF NoneIn
    <3> QED BY <3>2 DEF NoticeComing, Came
  <2>2. CASE w \in Notes(u, i)
    <3>1. ~NoneIn(pending'[u], Notes(u, i))
      BY <1>3, <2>2 DEF NoneIn
    <3> QED BY <3>1 DEF NoticeComing
  <2> QED BY <2>1, <2>2
<1>6. ASSUME NEW k \in 1..sent[u] PROVE pending'[u][k] = pending[u][k]
  <2>1. k \in 1..Len(pending[u])
    BY DEF TypeOK, QueuesOK
  <2> QED BY <1>2, <2>1
<1>7. w \notin Notes(u, i) /\ NoneIn(pending[u], Notes(u, i)) => NoneIn(pending'[u], Notes(u, i))
  <2>1. \A k \in 1..n : k \in 1..Len(pending[u]) \/ k = n
    BY <1>2
  <2> QED BY <1>2, <1>3, <2>1 DEF NoneIn
<1> QED BY <1>4, <1>5, <1>6, <1>7 DEF NoticeInv, Exists

\* The handlers of the writes, the last of which notifies the author.
LEMMA HandlersNotice ==
    ASSUME TypeOK, NEW u \in User, NEW i \in 1..MaxTaps, NoticeInv(u, i),
           LikeStored(u) \/ UnlikeStored(u) \/ LikeMirrored(u)
    PROVE  NoticeInv(u, i)'
<1> DEFINE h == Head(main[u])
<1>1. /\ main[u] # << >> /\ Popped(main[u], main'[u], h) /\ h \in Handler
      /\ h.do \in {"likeStored", "unlikeStored", "likeMirrored"} /\ h.tap \in 1..MaxTaps
      /\ UNCHANGED <<db, sent, liked, restarts>>
  <2>1. /\ main[u] # << >> /\ main' = [main EXCEPT ![u] = Tail(@)]
        /\ h.do \in {"likeStored", "unlikeStored", "likeMirrored"}
        /\ UNCHANGED <<db, sent, liked, restarts>>
    BY DEF LikeStored, UnlikeStored, LikeMirrored, Due, likesVars
  <2>2. Popped(main[u], main'[u], h) /\ h \in Handler
    BY <2>1, RunPops DEF TypeOK
  <2>3. h.tap \in 1..MaxTaps
    BY <2>1, <2>2 DEF Handler, TapHandler
  <2> QED BY <2>1, <2>2, <2>3
<1>2. ASSUME h \notin Chain(i), NEW w \in Write(u), w.doc # Notice(u, i), w.then \notin Chain(i),
             Issue(u, <<w>>)
      PROVE  NoticeInv(u, i)'
  <2> DEFINE ws == <<w>>
  <2>1. ws \in Seq(Write(u)) /\ Issue(u, ws) /\ \A k \in 1..Len(ws) : ws[k] = w
    BY <1>2
  <2> HIDE DEF ws, h
  <2>2. \A k \in 1..Len(ws) : ws[k].doc # Notice(u, i) /\ ws[k].then \notin Chain(i)
    BY <1>2, <2>1
  <2>3. i \in liked'[u] <=> i \in liked[u]
    BY <1>1
  <2>4. SameNotice(u, i)
    BY <1>1, <1>2, <2>1, <2>2, <2>3, IssueSame
  <2> QED BY <2>4, SameNoticeKeeps
<1>3. CASE UnlikeStored(u)
  <2> DEFINE w == DeleteDoc(UserLike(u), Nothing)
  <2>1. w \in Write(u) /\ w.doc # Notice(u, i) /\ w.then \notin Chain(i)
    BY MirrorDelete, NoticeApart, NothingAssumption DEF DeleteDoc, Chain
  <2>2. Issue(u, <<w>>) /\ h \notin Chain(i)
    BY <1>3 DEF UnlikeStored, Due, Chain
  <2> QED BY <1>2, <2>1, <2>2
<1>4. CASE LikeStored(u)
  <2> DEFINE w == SetData(UserLike(u), EmptyDoc, [do |-> "likeMirrored", tap |-> h.tap])
  <2>1. w \in Write(u) /\ w.doc = UserLike(u) /\ w.then = [do |-> "likeMirrored", tap |-> h.tap]
    BY <1>1, LikeWrites DEF SetData
  <2>2. w.doc # Notice(u, i) /\ w \notin Notes(u, i)
    BY <2>1, NoticeApart DEF Notes
  <2>3. Issue(u, <<w>>) /\ h.do = "likeStored"
    BY <1>4 DEF LikeStored, Due
  <2>4. w.then \in Handler
    BY <1>1, <2>1 DEF Handler, TapHandler
  <2> HIDE DEF w
  <2>5. CASE i = h.tap
    <3>1. h \in Chain(i) /\ w.then \in Chain(i)
      BY <1>1, <2>1, <2>3, <2>4, <2>5 DEF Chain
    <3> QED BY <1>1, <2>1, <2>2, <2>3, <3>1, ChainMoves
  <2>6. CASE i # h.tap
    <3>1. h \notin Chain(i) /\ w.then \notin Chain(i)
      BY <2>1, <2>6 DEF Chain
    <3> QED BY <1>2, <2>1, <2>2, <2>3, <3>1
  <2> QED BY <2>5, <2>6
<1>5. CASE LikeMirrored(u) /\ u # Author
  <2> DEFINE w == SetData(Notice(u, h.tap), EmptyDoc, Nothing)
  <2>1. w \in Write(u) /\ w.doc = Notice(u, h.tap) /\ w.then = Nothing
    BY <1>1, LikeWrites DEF SetData
  <2>2. Issue(u, <<w>>) /\ h.do = "likeMirrored"
    BY <1>5 DEF LikeMirrored, UploadFeedBack, Due
  <2>3. Nothing \notin Chain(i)
    BY NothingAssumption DEF Chain
  <2> HIDE DEF w
  <2>4. CASE i = h.tap
    <3>1. h \in Chain(i) /\ w \in Notes(u, i)
      BY <1>1, <2>1, <2>2, <2>4 DEF Chain, Notes
    <3> QED BY <1>1, <1>5, <2>1, <2>2, <3>1, ChainMoves
  <2>5. CASE i # h.tap
    <3>1. h \notin Chain(i) /\ w.doc # Notice(u, i)
      BY <1>1, <2>1, <2>5, NoticeApart DEF Chain
    <3> QED BY <1>2, <2>1, <2>2, <2>3, <3>1
  <2> QED BY <2>4, <2>5
<1>6. CASE LikeMirrored(u) /\ u = Author
  <2>1. pending' = pending
    BY <1>6 DEF LikeMirrored, UploadFeedBack
  <2> HIDE DEF h
  <2>2. NoneIn(main[u], Chain(i)) => NoneIn(main'[u], Chain(i))
    BY <1>1 DEF Popped, NoneIn
  <2>3. NoticeComing(u, i)' => NoticeComing(u, i)
    BY <1>1, <2>1, <2>2 DEF NoticeComing, Came, Exists
  <2> QED BY <1>1, <1>6, <2>1, <2>3 DEF NoticeInv, Exists
<1> QED BY <1>3, <1>4, <1>5, <1>6

\* Only u's own device writes its notices, and it only sets them.
LEMMA ApplyOnNotice ==
    ASSUME DocsOK, NEW u \in User, NEW w \in Write(u), NEW v \in User, NEW i \in 1..MaxTaps
    PROVE  /\ w.doc # Notice(v, i) => Apply(db, w)[Notice(v, i)] = db[Notice(v, i)]
           /\ w.doc = Notice(v, i) => u = v /\ Apply(db, w)[Notice(v, i)] # NoDoc
<1>1. Notice(v, i) \in DOMAIN db
  BY NoticeApart DEF DocsOK, DocsType
<1>2. ASSUME w.doc = Notice(v, i) PROVE u = v /\ w.op = "set" /\ w.val = EmptyDoc
  BY <1>2, NoticeApart DEF Write, WriteOf
<1>3. CASE w.doc # Notice(v, i)
  BY <1>1, <1>3 DEF Apply
<1>4. CASE w.doc = Notice(v, i)
  <2>1. Apply(db, w)[Notice(v, i)] = AfterWrite(db[Notice(v, i)], w)
    BY <1>1, <1>4 DEF Apply
  <2> QED BY <1>2, <1>4, <2>1, AbsentAssumption DEF AfterWrite
<1> QED BY <1>3, <1>4

\* A delivered notice exists.
LEMMA TransmitNotice ==
    ASSUME TypeOK, NEW u \in User, NEW i \in 1..MaxTaps, NoticeInv(u, i),
           Transmit(u), UNCHANGED likesVars
    PROVE  NoticeInv(u, i)'
<1> DEFINE k == sent[u] + 1
           w == pending[u][k]
<1>1. /\ pending' = pending /\ main' = main /\ liked' = liked /\ restarts' = restarts
      /\ db' = Apply(db, w) /\ sent'[u] = k /\ k \in 1..Len(pending[u])
      /\ sent[u] \in Nat /\ w \in Write(u) /\ DocsOK
  <2>1. pending[u] \in Seq(Write(u)) /\ sent \in [User -> Nat] /\ sent[u] < Len(pending[u])
    BY DEF Transmit, TypeOK, QueuesOK
  <2>2. k \in 1..Len(pending[u])
    BY <2>1
  <2> QED BY <2>1, <2>2 DEF Transmit, likesVars, TypeOK
<1> HIDE DEF k, w
<1>2. CASE w.doc = Notice(u, i)
  <2>1. w \in Notes(u, i) /\ ~NoneIn(pending[u], Notes(u, i))
    BY <1>1, <1>2 DEF Notes, NoneIn, w
  <2>2. i \in liked[u] /\ u # Author
    BY <2>1 DEF NoticeInv, NoticeComing
  <2>3. Exists(Notice(u, i))'
    BY <1>1, <1>2, ApplyOnNotice DEF Exists
  <2> QED BY <1>1, <2>2, <2>3 DEF NoticeInv, NoticeComing
<1>3. CASE w.doc # Notice(u, i)
  <2>1. Exists(Notice(u, i))' <=> Exists(Notice(u, i))
    BY <1>1, <1>3, ApplyOnNotice DEF Exists
  <2>2. NoticeComing(u, i)' <=> NoticeComing(u, i)
    BY <1>1, <2>1 DEF NoticeComing
  <2>3. ASSUME NEW j \in 1..k, pending[u][j] \in Notes(u, i) PROVE j \in 1..sent[u]
    <3>1. j # k
      BY <1>3, <2>3 DEF w, Notes
    <3> QED BY <1>1, <3>1 DEF k
  <2> QED BY <1>1, <2>1, <2>2, <2>3 DEF NoticeInv
<1> QED BY <1>2, <1>3

\* An acknowledged notice had been delivered; another write's handler stays
\* in its chain.
LEMMA AcknowledgeNotice ==
    ASSUME TypeOK, NEW u \in User, NEW i \in 1..MaxTaps, NoticeInv(u, i),
           Acknowledge(u), UNCHANGED likesVars
    PROVE  NoticeInv(u, i)'
<1> DEFINE e == Head(pending[u])
<1>1. /\ pending[u] \in Seq(Write(u)) /\ sent[u] \in 1..Len(pending[u]) /\ pending[u] # << >>
      /\ main[u] \in Seq(Handler) /\ QueuesOK
  BY DEF Acknowledge, TypeOK, QueuesOK
<1>2. /\ pending'[u] = Tail(pending[u]) /\ sent'[u] = sent[u] - 1
      /\ db' = db /\ liked' = liked /\ restarts' = restarts
      /\ main' = IF e.then = Nothing THEN main ELSE [main EXCEPT ![u] = Append(@, e.then)]
  BY <1>1 DEF Acknowledge, QueuesOK, likesVars
<1>3. Popped(pending[u], pending'[u], e) /\ pending'[u] \in Seq(Write(u)) /\ e \in Write(u)
  BY <1>1, <1>2, TailPops
<1> HIDE DEF e
<1>4. Popped(Thens(pending[u]), Thens(pending'[u]), e.then)
  BY <1>1, <1>3, ThensFollow
<1>5. Came(Thens(pending'[u]), main'[u], Chain(i)) <=> Came(Thens(pending[u]), main[u], Chain(i))
  <2> DEFINE Y == {}
  <2>1. FALSE \in BOOLEAN
    OBVIOUS
  <2> HIDE DEF Y
  <2>2. CASE e.then = Nothing
    <3>1. e.then \notin Chain(i)
      BY <2>2, NothingAssumption DEF Chain
    <3>2. /\ Leads(Thens(pending[u]), main[u], Chain(i), Y, FALSE)
                => Leads(Thens(pending'[u]), main[u], Chain(i), Y, FALSE)
          /\ Came(Thens(pending'[u]), main[u], Chain(i)) <=> Came(Thens(pending[u]), main[u], Chain(i))
      BY <1>4, <2>1, <3>1, LeadsDrop
    <3> QED BY <1>2, <2>2, <3>2
  <2>3. CASE e.then # Nothing
    <3>1. Pushed(main[u], main'[u], e.then)
      BY <1>1, <1>2, <1>3, <2>3, HandlersType, PostAdds
    <3>2. /\ Leads(Thens(pending[u]), main[u], Chain(i), Y, FALSE)
                => Leads(Thens(pending'[u]), main'[u], Chain(i), Y, FALSE)
          /\ Came(Thens(pending'[u]), main'[u], Chain(i)) <=> Came(Thens(pending[u]), main[u], Chain(i))
      BY <1>4, <2>1, <3>1, LeadsMove
    <3> QED BY <3>2
  <2> QED BY <2>2, <2>3
<1>6. NoneIn(pending[u], Notes(u, i)) => NoneIn(pending'[u], Notes(u, i))
  BY <1>3 DEF Popped, NoneIn
<1>7. CASE e \in Notes(u, i)
  <2>1. Exists(Notice(u, i))
    <3>1. 1 \in 1..sent[u] /\ pending[u][1] = e
      BY <1>1, <1>3 DEF Popped
    <3> QED BY <1>7, <3>1 DEF NoticeInv
  <2>2. NoticeComing(u, i) /\ NoticeComing(u, i)' /\ Exists(Notice(u, i))'
    BY <1>2, <2>1 DEF NoticeComing, Exists
  <2> QED BY <1>2, <1>6, <2>1, <2>2 DEF NoticeInv
<1>8. CASE e \notin Notes(u, i)
  <2>1. NoneIn(pending'[u], Notes(u, i)) => NoneIn(pending[u], Notes(u, i))
    <3>1. ASSUME NEW k \in 1..Len(pending[u]), k # 1
          PROVE  k - 1 \in 1..Len(pending'[u]) /\ pending[u][k] = pending'[u][k - 1]
      BY <1>3, <3>1 DEF Popped
    <3>2. pending[u][1] = e
      BY <1>3 DEF Popped
    <3> QED BY <1>8, <3>1, <3>2 DEF NoneIn
  <2>2. NoticeComing(u, i)' <=> NoticeComing(u, i)
    BY <1>2, <1>5, <1>6, <2>1 DEF NoticeComing, Exists
  <2>3. ASSUME NEW k \in 1..sent[u] - 1
        PROVE  k + 1 \in 1..sent[u] /\ pending'[u][k] = pending[u][k + 1]
    <3>1. k \in 1..Len(pending'[u]) /\ k + 1 \in 1..sent[u]
      BY <1>1, <1>3 DEF Popped
    <3> QED BY <1>3, <3>1 DEF Popped
  <2> QED BY <1>2, <1>6, <2>2, <2>3 DEF NoticeInv, Exists
<1> QED BY <1>7, <1>8

\* A new stream delivers everything again.
LEMMA ReconnectNotice ==
    ASSUME TypeOK, NEW u \in User, NEW i \in 1..MaxTaps, NoticeInv(u, i),
           Reconnect(u), UNCHANGED likesVars
    PROVE  NoticeInv(u, i)'
<1>1. /\ pending' = pending /\ main' = main /\ db' = db /\ liked' = liked /\ restarts' = restarts
      /\ sent'[u] = 0
  BY DEF Reconnect, likesVars, TypeOK, QueuesOK
<1> QED BY <1>1 DEF NoticeInv, NoticeComing, Exists

\* A restart drops every handler: the chain may end, and none starts.
LEMMA RestartNotice ==
    ASSUME TypeOK, NEW u \in User, NEW i \in 1..MaxTaps, NoticeInv(u, i), Restart(u)
    PROVE  NoticeInv(u, i)'
<1>1. /\ pending[u] \in Seq(Write(u)) /\ restarts[u] \in Nat
      /\ pending'[u] = [k \in 1..Len(pending[u]) |-> [pending[u][k] EXCEPT !.then = Nothing]]
      /\ main'[u] = << >> /\ sent'[u] = 0 /\ db' = db /\ liked' = liked
      /\ restarts'[u] = restarts[u] + 1
  BY BoundsAssumption DEF TypeOK, QueuesOK, CountsOK, Restart, RestartClient
<1>2. Len(pending'[u]) = Len(pending[u]) /\ Len(pending[u]) \in Nat
  BY <1>1
<1>3. ASSUME NEW k \in 1..Len(pending[u])
      PROVE  /\ pending'[u][k].then = Nothing
             /\ pending'[u][k] \in Notes(u, i) => pending[u][k] \in Notes(u, i)
  <2>1. pending[u][k] \in Write(u) /\ pending'[u][k] = [pending[u][k] EXCEPT !.then = Nothing]
    BY <1>1
  <2> QED BY <2>1, StrippedType DEF Notes
<1>4. NoneIn(pending[u], Notes(u, i)) => NoneIn(pending'[u], Notes(u, i))
  BY <1>2, <1>3 DEF NoneIn
<1>5. Came(Thens(pending'[u]), main'[u], Chain(i))
  <2>1. Len(Thens(pending'[u])) = Len(pending[u]) /\ Len(main'[u]) = 0
        /\ \A k \in 1..Len(pending[u]) : Thens(pending'[u])[k] = pending'[u][k].then
    BY <1>1, <1>2 DEF Thens
  <2>2. Nothing \notin Chain(i)
    BY NothingAssumption DEF Chain
  <2> QED BY <1>3, <2>1, <2>2 DEF Came, NoneIn
<1>6. NoticeComing(u, i)' => NoticeComing(u, i)
  BY <1>1, <1>4, <1>5 DEF NoticeComing, Exists
<1>7. restarts'[u] # 0
  BY <1>1
<1> QED BY <1>1, <1>4, <1>6, <1>7 DEF NoticeInv, Exists

\* A step of u's device changes nothing of another account's: its queues, its
\* screen, its reads and its history.
Left(v) ==
    /\ pending'[v] = pending[v] /\ main'[v] = main[v] /\ sent'[v] = sent[v]
    /\ vc'[v] = vc[v] /\ visits'[v] = visits[v] /\ reads'[v] = reads[v]
    /\ restarts'[v] = restarts[v] /\ want'[v] = want[v] /\ liked'[v] = liked[v]
    /\ torn'[v] = torn[v] /\ untouched'[v] = untouched[v]

\* A step of u's device.
StepOf(u) == Screen(u) \/ RunHandler(u) \/ Answer(u) \/ Client(u) \/ Restart(u)

\* It leaves every other account's part of the state alone.
LEMMA OthersLeft ==
    ASSUME TypeOK, NEW u \in User, NEW v \in User, v # u, StepOf(u)
    PROVE  Left(v)
<1>1. /\ v \in DOMAIN pending /\ v \in DOMAIN main /\ v \in DOMAIN sent /\ v \in DOMAIN vc
      /\ v \in DOMAIN visits /\ v \in DOMAIN reads /\ v \in DOMAIN restarts
      /\ v \in DOMAIN want /\ v \in DOMAIN liked /\ v \in DOMAIN torn /\ v \in DOMAIN untouched
  BY DEF TypeOK, QueuesOK, ScreensOK, CountsOK, HistoryOK
<1>2. CASE Screen(u)
  <2>1. CASE FetchList(u) \/ Open(u) \/ Close(u) \/ Redisplay(u)
    BY <1>1, <2>1 DEF FetchList, Open, Close, Redisplay, Leave, Left
  <2>2. CASE TapLike(u)
    BY <1>1, <2>2 DEF TapLike, Tap, LikeCartoon, Issue, Left
  <2>3. CASE TapUnlike(u) \/ TapUnlikeRefused(u)
    BY <1>1, <2>3 DEF TapUnlike, TapUnlikeRefused, Tap, UnLikeCartoon, Issue, Left
  <2>4. CASE TapEdit(u) \/ TapDelete(u)
    BY <1>1, <2>4 DEF TapEdit, TapDelete, Issue, Left
  <2> QED BY <1>2, <2>1, <2>2, <2>3, <2>4 DEF Screen
<1>3. CASE RunHandler(u)
  <2>1. CASE LikeStored(u) \/ UnlikeStored(u)
    BY <1>1, <2>1 DEF LikeStored, UnlikeStored, Issue, likesVars, Left
  <2>2. CASE LikeMirrored(u)
    BY <1>1, <2>2 DEF LikeMirrored, UploadFeedBack, Issue, likesVars, Left
  <2>3. CASE Checked(u) \/ Edited(u) \/ Deleted(u)
    BY <1>1, <2>3 DEF Checked, Edited, Deleted, Show, Leave, Left
  <2> QED BY <1>3, <2>1, <2>2, <2>3 DEF RunHandler
<1>4. CASE Answer(u)
  BY <1>1, <1>4 DEF Answer, AnswerLikeCheck, AnswerEdited, ReadFails, Post, Left
<1>5. CASE Client(u)
  BY <1>1, <1>5 DEF Client, Transmit, Acknowledge, Reconnect, likesVars, Left
<1>6. CASE Restart(u)
  BY <1>1, <1>6 DEF Restart, RestartClient, Leave, Left
<1> QED BY <1>2, <1>3, <1>4, <1>5, <1>6 DEF StepOf

\* Only a delivered write changes the documents.
LEMMA OnlyTransmit ==
    ASSUME NEW u \in User, StepOf(u), ~Transmit(u)
    PROVE  db' = db
<1>1. CASE Screen(u)
  BY <1>1 DEF Screen, FetchList, Open, Close, Redisplay, TapLike, TapUnlike,
              TapUnlikeRefused, TapEdit, TapDelete
<1>2. CASE RunHandler(u)
  BY <1>2 DEF RunHandler, LikeStored, UnlikeStored, LikeMirrored, Checked, Edited, Deleted
<1>3. CASE Answer(u)
  BY <1>3 DEF Answer, AnswerLikeCheck, AnswerEdited, ReadFails
<1>4. CASE Client(u) \/ Restart(u)
  BY <1>4 DEF Client, Acknowledge, Reconnect, Restart
<1> QED BY <1>1, <1>2, <1>3, <1>4 DEF StepOf

\* A delivered write of u's device is one of its queue.
LEMMA TransmitsOwn ==
    ASSUME TypeOK, NEW u \in User, Transmit(u)
    PROVE  \E w \in Write(u) : db' = Apply(db, w)
<1>1. pending[u] \in Seq(Write(u)) /\ sent[u] \in Nat /\ sent[u] < Len(pending[u])
  BY DEF TypeOK, QueuesOK, Transmit
<1>2. sent[u] + 1 \in 1..Len(pending[u])
  BY <1>1
<1> QED BY <1>1, <1>2 DEF Transmit

\* Another account's chains are left alone.
LEMMA OthersNotice ==
    ASSUME TypeOK, NEW u \in User, NEW v \in User, v # u, NEW i \in 1..MaxTaps,
           StepOf(u), NoticeInv(v, i)
    PROVE  NoticeInv(v, i)'
<1>1. db'[Notice(v, i)] = db[Notice(v, i)]
  <2>1. CASE Transmit(u)
    <3>1. PICK w \in Write(u) : db' = Apply(db, w)
      BY <2>1, TransmitsOwn
    <3> QED BY <3>1, ApplyOnNotice DEF TypeOK
  <2>2. CASE ~Transmit(u)
    BY <2>2, OnlyTransmit
  <2> QED BY <2>1, <2>2
<1>2. SameNotice(v, i)
  BY <1>1, OthersLeft, UntouchedNotice DEF Left
<1> QED BY <1>2, SameNoticeKeeps

\* No notice and no like at the start.
LEMMA InitNotices ==
    ASSUME Init, NEW u \in User, NEW i \in 1..MaxTaps
    PROVE  NoticeInv(u, i)
<1>1. /\ pending[u] = << >> /\ main[u] = << >> /\ sent[u] = 0 /\ liked[u] = {}
      /\ db[Notice(u, i)] = NoDoc
  BY NoticeApart DEF Init, FirestoreInit
<1>2. /\ Len(pending[u]) = 0 /\ Len(main[u]) = 0 /\ Len(Thens(pending[u])) = 0
  <2>1. << >> \in Seq(Write(u))
    OBVIOUS
  <2> QED BY <1>1, <2>1, ThensFacts
<1> QED BY <1>1, <1>2 DEF NoticeInv, NoticeComing, Came, NoneIn, Exists

\* Every step keeps every tap's chain.
LEMMA StepNotices ==
    ASSUME TypeOK, [Next]_vars, \A u \in User, i \in 1..MaxTaps : NoticeInv(u, i)
    PROVE  \A u \in User, i \in 1..MaxTaps : NoticeInv(u, i)'
<1> SUFFICES ASSUME NEW v \in User, NEW i \in 1..MaxTaps PROVE NoticeInv(v, i)'
  OBVIOUS
<1>0. NoticeInv(v, i)
  OBVIOUS
<1>1. ASSUME SameNotice(v, i) PROVE NoticeInv(v, i)'
  BY <1>0, <1>1, SameNoticeKeeps
<1>2. CASE UNCHANGED vars
  BY <1>1, <1>2, UntouchedNotice DEF vars, firestoreVars, likesVars
<1>3. CASE Next
  <2>1. PICK u \in User : StepOf(u)
    BY <1>3 DEF Next, StepOf
  <2>2. CASE u # v
    BY <1>0, <2>1, <2>2, OthersNotice
  <2>3. CASE u = v
    <3>1. CASE Screen(v)
      BY <1>0, <1>1, <3>1, ShowSame, MenuSame, LikeStarts DEF Screen
    <3>2. CASE RunHandler(v)
      BY <1>0, <1>1, <3>2, ShowSame, HandlersNotice DEF RunHandler
    <3>3. CASE Answer(v)
      BY <1>1, <3>3, ShowSame
    <3>4. CASE Client(v)
      BY <1>0, <3>4, TransmitNotice, AcknowledgeNotice, ReconnectNotice DEF Client
    <3>5. CASE Restart(v)
      BY <1>0, <3>5, RestartNotice
    <3> QED BY <2>1, <2>3, <3>1, <3>2, <3>3, <3>4, <3>5 DEF StepOf
  <2> QED BY <2>2, <2>3
<1> QED BY <1>2, <1>3

\* In every instance the author is told only of likes that other accounts
\* issued, and, of an account whose device was never restarted, of every one
\* once that device is settled: three completion handlers in a row
\* (likeCartoon's, the mirror's, the tap's) lose no like and invent none, for
\* any number of taps, resends and devices.
THEOREM NoticesCorrect == Spec => []NoticesMatchLikes
<1> DEFINE NInv == TypeOK /\ \A u \in User, i \in 1..MaxTaps : NoticeInv(u, i)
<1>1. Init => NInv
  BY InitType, InitNotices
<1>2. NInv /\ [Next]_vars => NInv'
  <2> SUFFICES ASSUME NInv, [Next]_vars PROVE NInv'
    OBVIOUS
  <2>1. \A u \in User, i \in 1..MaxTaps : NoticeInv(u, i)'
    BY StepNotices
  <2> QED BY <2>1, StepType
<1>3. NInv => NoticesMatchLikes
  <2> SUFFICES ASSUME NInv, NEW u \in User
               PROVE  LET noticed == {i \in 1..MaxTaps : Exists(Notice(u, i))}
                          due     == IF u = Author THEN {} ELSE liked[u]
                      IN  /\ noticed \subseteq due
                          /\ Settled(u) /\ restarts[u] = 0 => noticed = due
    BY DEF NoticesMatchLikes
  <2>1. ASSUME NEW i \in 1..MaxTaps, Exists(Notice(u, i)) PROVE i \in liked[u] /\ u # Author
    BY <2>1 DEF NoticeInv, NoticeComing
  <2>2. ASSUME Settled(u), restarts[u] = 0, u # Author, NEW i \in 1..MaxTaps, i \in liked[u]
        PROVE  Exists(Notice(u, i))
    <3>1. /\ Len(pending[u]) = 0 /\ Len(main[u]) = 0 /\ Len(Thens(pending[u])) = 0
      <4>1. pending[u] = << >> /\ main[u] = << >> /\ pending[u] \in Seq(Write(u))
        BY <2>2 DEF Settled, TypeOK, QueuesOK
      <4> QED BY <4>1, ThensFacts
    <3>2. Came(Thens(pending[u]), main[u], Chain(i)) /\ NoneIn(pending[u], Notes(u, i))
      BY <3>1 DEF Came, NoneIn
    <3>3. NoticeComing(u, i)
      BY <2>2 DEF NoticeInv
    <3> QED BY <3>2, <3>3 DEF NoticeComing
  <2>3. liked[u] \subseteq 1..MaxTaps
    BY DEF TypeOK, HistoryOK
  <2> QED BY <2>1, <2>2, <2>3
<1> HIDE DEF NInv
<1> QED BY <1>1, <1>2, <1>3, PTL DEF Spec
-----------------------------------------------------------------------------
(* The checked heart: the invariant behind CheckTruthful                   *)
(*                                                                         *)
(* On a visit the property speaks of, nothing that could change the        *)
(* account's own list is under way, so that every check that is answered   *)
(* sees what the account last asked for.                                   *)

Watching(u) == vc[u] # Closed /\ untouched[u] /\ ~torn[u]

\* A write that leaves the list alone, and whose handler does; a handler that
\* does, and says what the account asked for if it answers a check.
Idle(u, w) == w.doc # UserLike(u) /\ ~Owes(w.then)
Right(u, h) == ~Owes(h) /\ (h.do = "checked" => h.exists = want[u])

CheckInv(u) ==
    Watching(u) =>
        /\ \A k \in 1..Len(pending[u]) : Idle(u, pending[u][k])
        /\ \A k \in 1..Len(main[u]) : Right(u, main[u][k])
        /\ Exists(UserLike(u)) <=> want[u]
        /\ vc[u].checked => vc[u].didLike = want[u]

\* What a step may do to such a visit.
LEMMA WatchKeeps ==
    ASSUME NEW u \in User, Watching(u), CheckInv(u),
           want'[u] = want[u], db'[UserLike(u)] = db[UserLike(u)],
           \A k \in 1..Len(pending'[u]) : Idle(u, pending'[u][k]),
           \A k \in 1..Len(main'[u]) : Right(u, main'[u][k]),
           vc'[u].checked => vc'[u] = vc[u] \/ vc'[u].didLike = want[u]
    PROVE  CheckInv(u)'
BY DEF CheckInv, Idle, Right, Exists

\* The queue of writes gets one more idle write.
LEMMA IdleIssue ==
    ASSUME QueuesOK, NEW u \in User, NEW w \in Write(u), Issue(u, <<w>>), Idle(u, w),
           \A k \in 1..Len(pending[u]) : Idle(u, pending[u][k])
    PROVE  \A k \in 1..Len(pending'[u]) : Idle(u, pending'[u][k])
<1> DEFINE ws == <<w>>
<1>1. ws \in Seq(Write(u)) /\ Len(ws) = 1 /\ ws[1] = w /\ Issue(u, ws)
  OBVIOUS
<1> HIDE DEF ws
<1>2. /\ Len(pending'[u]) = Len(pending[u]) + Len(ws) /\ Len(pending[u]) \in Nat
      /\ \A k \in 1..Len(pending[u]) : pending'[u][k] = pending[u][k]
      /\ \A k \in 1..Len(ws) : pending'[u][Len(pending[u]) + k] = ws[k]
  BY <1>1, IssueAdds
<1>3. pending'[u][Len(pending[u]) + 1] = w
  BY <1>1, <1>2
<1>4. \A k \in 1..Len(pending'[u]) : k \in 1..Len(pending[u]) \/ k = Len(pending[u]) + 1
  BY <1>1, <1>2
<1> QED BY <1>2, <1>3, <1>4

\* The main queue loses its first handler, which says what it should.
LEMMA RightRun ==
    ASSUME QueuesOK, NEW u \in User, main[u] # << >>, main' = [main EXCEPT ![u] = Tail(@)],
           \A k \in 1..Len(main[u]) : Right(u, main[u][k])
    PROVE  Right(u, Head(main[u])) /\ \A k \in 1..Len(main'[u]) : Right(u, main'[u][k])
<1>1. Popped(main[u], main'[u], Head(main[u]))
  BY RunPops
<1>2. /\ 1 \in 1..Len(main[u]) /\ main[u][1] = Head(main[u])
      /\ \A k \in 1..Len(main'[u]) : k + 1 \in 1..Len(main[u]) /\ main'[u][k] = main[u][k + 1]
  BY <1>1 DEF Popped
<1> QED BY <1>2

\* The main queue gets one more handler that does.
LEMMA RightPost ==
    ASSUME QueuesOK, NEW u \in User, NEW h \in Handler, Post(u, h), Right(u, h),
           \A k \in 1..Len(main[u]) : Right(u, main[u][k])
    PROVE  \A k \in 1..Len(main'[u]) : Right(u, main'[u][k])
<1>1. Pushed(main[u], main'[u], h)
  BY PostAdds DEF Post
<1>2. /\ Len(main'[u]) = Len(main[u]) + 1 /\ Len(main[u]) \in Nat /\ main'[u][Len(main[u]) + 1] = h
      /\ \A k \in 1..Len(main[u]) : main'[u][k] = main[u][k]
  BY <1>1 DEF Pushed, Grows
<1>3. \A k \in 1..Len(main'[u]) : k \in 1..Len(main[u]) \/ k = Len(main[u]) + 1
  BY <1>2
<1> QED BY <1>2, <1>3

\* What such a visit's check is answered: the device sees no write of its own
\* to the list, and the list has what the account asked for.
LEMMA CheckSees ==
    ASSUME TypeOK, NEW u \in User, Watching(u), CheckInv(u)
    PROVE  View(u)[UserLike(u)] # NoDoc <=> want[u]
<1>1. /\ UserLike(u) \in DOMAIN db /\ Len(pending[u]) \in Nat /\ want[u] \in BOOLEAN
      /\ pending[u] \in Seq(Write(u))
  BY DEF TypeOK, DocsOK, DocsType, Docs, QueuesOK, HistoryOK
<1>2. \A k \in 1..Len(pending[u]) : pending[u][k].doc # UserLike(u)
  BY DEF CheckInv, Idle
<1>3. Ends(db, pending[u], UserLike(u), want[u])
  BY <1>2 DEF Ends, CheckInv, Exists
<1> QED BY <1>1, <1>2, <1>3, AbsentAssumption, OverlayEnds DEF View

\* Opening the screen on a settled device starts such a visit.
LEMMA OpenWatches ==
    ASSUME TypeOK, MirrorAgrees, NEW u \in User, Open(u)
    PROVE  CheckInv(u)'
<1> SUFFICES ASSUME Watching(u)' PROVE CheckInv(u)'
  BY DEF CheckInv
<1>1. /\ pending' = pending /\ main' = main /\ db' = db /\ want' = want /\ torn' = torn
      /\ untouched'[u] = Settled(u) /\ vc'[u] = NewCopy(listed[u])
  BY DEF Open, TypeOK, HistoryOK, ScreensOK
<1>2. pending[u] = << >> /\ main[u] = << >> /\ ~torn[u]
  BY <1>1 DEF Watching, Settled
<1>3. Exists(UserLike(u)) <=> want[u]
  BY <1>2 DEF MirrorAgrees, Settled
<1>4. ~vc'[u].checked /\ Len(pending'[u]) = 0 /\ Len(main'[u]) = 0
  BY <1>1, <1>2 DEF NewCopy
<1> QED BY <1>1, <1>3, <1>4 DEF CheckInv, Exists

\* The screen's other steps end such a visit or leave it alone; the author's
\* menu queues writes of the cartoon.
LEMMA ScreenWatches ==
    ASSUME TypeOK, NEW u \in User, CheckInv(u), Screen(u), ~Open(u)
    PROVE  CheckInv(u)'
<1> SUFFICES ASSUME Watching(u)' PROVE CheckInv(u)'
  BY DEF CheckInv
<1>1. CASE FetchList(u) \/ Redisplay(u)
  BY <1>1 DEF FetchList, Redisplay, CheckInv, Watching, Idle, Right, Exists
<1>2. CASE Close(u)
  BY <1>2 DEF Close, Leave, Watching, TypeOK, ScreensOK
<1>3. CASE TapLike(u) \/ TapUnlike(u) \/ TapUnlikeRefused(u)
  BY <1>3 DEF TapLike, TapUnlike, TapUnlikeRefused, Tap, Watching, TypeOK, HistoryOK
<1>4. ASSUME NEW w \in Write(u), Idle(u, w), Issue(u, <<w>>),
             UNCHANGED <<db, main, vc, want, torn, untouched>>
      PROVE  CheckInv(u)'
  <2>1. Watching(u)
    BY <1>4 DEF Watching
  <2>2. \A k \in 1..Len(pending[u]) : Idle(u, pending[u][k])
    BY <2>1 DEF CheckInv
  <2>3. \A k \in 1..Len(pending'[u]) : Idle(u, pending'[u][k])
    BY <1>4, <2>2, IdleIssue DEF TypeOK
  <2>4. \A k \in 1..Len(main'[u]) : Right(u, main'[u][k])
    BY <1>4, <2>1 DEF CheckInv
  <2> QED BY <1>4, <2>1, <2>3, <2>4, WatchKeeps
<1>5. CASE TapEdit(u)
  <2> DEFINE w == UpdateData(Cartoon, [text |-> edits + 1], Nothing)
  <2>1. edits + 1 \in Nat
    BY BoundsAssumption DEF TypeOK, CountsOK
  <2>2. w \in Write(u) /\ Idle(u, w)
    BY <2>1, CartoonWrites, DocsApart DEF UpdateData, Idle, Owes
  <2>3. Issue(u, <<w>>) /\ UNCHANGED <<db, main, vc, want, torn, untouched>>
    BY <1>5 DEF TapEdit
  <2> HIDE DEF w
  <2> QED BY <1>4, <2>2, <2>3
<1>6. CASE TapDelete(u)
  <2> DEFINE w == DeleteDoc(Cartoon, [do |-> "deleted", visit |-> visits[u]])
  <2>1. visits[u] \in Nat
    BY BoundsAssumption DEF TypeOK, CountsOK
  <2>2. w \in Write(u) /\ Idle(u, w)
    BY <2>1, CartoonWrites, DocsApart DEF DeleteDoc, Idle, Owes
  <2>3. Issue(u, <<w>>) /\ UNCHANGED <<db, main, vc, want, torn, untouched>>
    BY <1>6 DEF TapDelete
  <2> HIDE DEF w
  <2> QED BY <1>4, <2>2, <2>3
<1> QED BY <1>1, <1>2, <1>3, <1>5, <1>6 DEF Screen

\* No handler of a like or an unlike runs during such a visit; the others
\* leave the list alone, and a check's shows what it says.
LEMMA HandlersWatch ==
    ASSUME TypeOK, NEW u \in User, CheckInv(u), RunHandler(u)
    PROVE  CheckInv(u)'
<1> SUFFICES ASSUME Watching(u)' PROVE CheckInv(u)'
  BY DEF CheckInv
<1>0. /\ main[u] # << >> /\ main' = [main EXCEPT ![u] = Tail(@)]
      /\ UNCHANGED <<db, want, torn, untouched>>
      /\ vc'[u] # Closed => vc[u] # Closed
  <2>1. /\ main[u] # << >> /\ main' = [main EXCEPT ![u] = Tail(@)]
        /\ UNCHANGED <<db, want, torn, untouched>>
    BY DEF RunHandler, LikeStored, UnlikeStored, LikeMirrored, Checked, Edited, Deleted, Due,
           likesVars
  <2>2. vc'[u] # Closed => vc[u] # Closed
    BY DEF RunHandler, LikeStored, UnlikeStored, LikeMirrored, Checked, Edited, Deleted,
           likesVars, Show, Current, Leave, TypeOK, ScreensOK
  <2> QED BY <2>1, <2>2
<1>1. Watching(u)
  BY <1>0 DEF Watching
<1>2. /\ \A k \in 1..Len(pending[u]) : Idle(u, pending[u][k])
      /\ \A k \in 1..Len(main[u]) : Right(u, main[u][k])
  BY <1>1 DEF CheckInv
<1>3. Right(u, Head(main[u])) /\ \A k \in 1..Len(main'[u]) : Right(u, main'[u][k])
  BY <1>0, <1>2, RightRun DEF TypeOK
<1>4. Head(main[u]) \in Handler
  BY <1>0, RunPops DEF TypeOK
<1>5. CASE LikeStored(u) \/ UnlikeStored(u)
  BY <1>3, <1>4, <1>5, NothingAssumption DEF LikeStored, UnlikeStored, Due, Right, Owes
<1>6. CASE LikeMirrored(u)
  <2>1. vc' = vc
    BY <1>6 DEF LikeMirrored, likesVars
  <2>2. \A k \in 1..Len(pending'[u]) : Idle(u, pending'[u][k])
    <3>1. CASE u = Author
      BY <1>2, <1>6, <3>1 DEF LikeMirrored, UploadFeedBack
    <3>2. CASE u # Author
      <4> DEFINE tap == Head(main[u]).tap
                 w == SetData(Notice(u, tap), EmptyDoc, Nothing)
      <4>1. tap \in 1..MaxTaps
        BY <1>4, <1>6 DEF LikeMirrored, Due, Handler, TapHandler
      <4> HIDE DEF tap
      <4>2. w \in Write(u) /\ w.doc = Notice(u, tap) /\ w.then = Nothing
        BY <4>1, LikeWrites DEF SetData
      <4>3. Notice(u, tap) # UserLike(u)
        BY <4>1, NoticeApart
      <4>4. Idle(u, w)
        BY <4>2, <4>3 DEF Idle, Owes
      <4>5. Issue(u, <<w>>)
        BY <1>6, <3>2 DEF LikeMirrored, UploadFeedBack, tap
      <4> HIDE DEF w
      <4> QED BY <1>2, <4>2, <4>4, <4>5, IdleIssue DEF TypeOK
    <3> QED BY <3>1, <3>2
  <2> QED BY <1>0, <1>1, <1>3, <2>1, <2>2, WatchKeeps
<1>7. CASE Checked(u) \/ Edited(u) \/ Deleted(u)
  <2>1. pending' = pending
    BY <1>7 DEF Checked, Edited, Deleted
  <2>2. vc'[u].checked => vc'[u] = vc[u] \/ vc'[u].didLike = want[u]
    <3>1. vc[u] \in Copy /\ u \in DOMAIN vc
      BY <1>1 DEF Watching, TypeOK, ScreensOK
    <3>2. CASE Checked(u)
      <4>1. Head(main[u]).do = "checked" /\ Head(main[u]).exists = want[u]
        BY <1>3, <3>2 DEF Checked, Due, Right
      <4>2. vc'[u] = vc[u] \/ vc'[u] = [vc[u] EXCEPT !.didLike = Head(main[u]).exists, !.checked = TRUE]
        BY <3>1, <3>2 DEF Checked, Show
      <4> QED BY <3>1, <4>1, <4>2 DEF Copy
    <3>3. CASE Edited(u)
      <4>1. vc'[u] = vc[u] \/ vc'[u] = NewCopy(Head(main[u]).cartoon)
        BY <3>1, <3>3 DEF Edited, Show
      <4> QED BY <4>1 DEF NewCopy
    <3>4. CASE Deleted(u)
      <4>1. vc'[u] = vc[u] \/ vc'[u] = Closed
        BY <3>1, <3>4 DEF Deleted, Leave
      <4>2. vc'[u] # Closed
        BY DEF Watching
      <4> QED BY <4>1, <4>2
    <3> QED BY <1>7, <3>2, <3>3, <3>4
  <2> QED BY <1>0, <1>1, <1>2, <1>3, <2>1, <2>2, WatchKeeps
<1> QED BY <1>5, <1>6, <1>7 DEF RunHandler

\* A check that is answered says what the account asked for.
LEMMA AnswersWatch ==
    ASSUME TypeOK, NEW u \in User, CheckInv(u), Answer(u)
    PROVE  CheckInv(u)'
<1> SUFFICES ASSUME Watching(u)' PROVE CheckInv(u)'
  BY DEF CheckInv
<1>0. UNCHANGED <<db, pending, vc, want, torn, untouched>>
  BY DEF Answer, AnswerLikeCheck, AnswerEdited, ReadFails
<1>1. Watching(u)
  BY <1>0 DEF Watching
<1>2. \A k \in 1..Len(main[u]) : Right(u, main[u][k])
  BY <1>1 DEF CheckInv
<1>3. ASSUME \A k \in 1..Len(main'[u]) : Right(u, main'[u][k]) PROVE CheckInv(u)'
  <2>1. \A k \in 1..Len(pending'[u]) : Idle(u, pending'[u][k])
    BY <1>0, <1>1 DEF CheckInv
  <2> QED BY <1>0, <1>1, <1>3, <2>1, WatchKeeps
<1>4. ASSUME NEW h \in Handler, Post(u, h), Right(u, h) PROVE CheckInv(u)'
  BY <1>2, <1>3, <1>4, RightPost DEF TypeOK
<1>5. CASE main' = main
  BY <1>2, <1>3, <1>5
<1>6. CASE AnswerLikeCheck(u)
  <2> DEFINE seen == View(u)[UserLike(u)] # NoDoc
  <2>1. PICK r \in reads[u] :
           /\ r.what = "like"
           /\ Post(u, [do |-> "checked", visit |-> r.visit, exists |-> seen])
    BY <1>6 DEF AnswerLikeCheck
  <2>2. seen = want[u] /\ want[u] \in BOOLEAN
    <3>1. want[u] \in BOOLEAN /\ (seen <=> want[u])
      BY <1>1, CheckSees DEF TypeOK, HistoryOK
    <3> QED BY <3>1
  <2>3. r \in Read
    BY DEF TypeOK, ScreensOK
  <2> DEFINE h == [do |-> "checked", visit |-> r.visit, exists |-> seen]
  <2> HIDE DEF seen
  <2>4. h \in Handler
    BY <2>1, <2>2, <2>3 DEF Read, Handler
  <2>5. Right(u, h)
    BY <2>2 DEF Right, Owes
  <2>6. Post(u, h)
    BY <2>1
  <2> HIDE DEF h
  <2> QED BY <1>4, <2>4, <2>5, <2>6
<1>7. CASE AnswerEdited(u)
  <2>1. PICK r \in reads[u] :
           /\ r.what = "cartoon"
           /\ IF View(u)[Cartoon] = NoDoc THEN UNCHANGED main
              ELSE Post(u, [do |-> "edited", visit |-> r.visit,
                            edit |-> r.edit, cartoon |-> View(u)[Cartoon]])
    BY <1>7 DEF AnswerEdited
  <2>2. CASE View(u)[Cartoon] = NoDoc
    BY <1>5, <2>1, <2>2
  <2>3. CASE View(u)[Cartoon] # NoDoc
    <3> DEFINE h == [do |-> "edited", visit |-> r.visit, edit |-> r.edit,
                     cartoon |-> View(u)[Cartoon]]
    <3>1. View(u)[Cartoon] \in CartoonDoc
      <4>1. pending[u] \in Seq(Write(u)) /\ DocsType(db)
        BY DEF TypeOK, QueuesOK, DocsOK
      <4>2. DocsType(View(u))
        BY <4>1, OverlayType DEF View
      <4> QED BY <2>3, <4>2 DEF DocsType
    <3>2. r \in Read
      BY DEF TypeOK, ScreensOK
    <3>3. h \in Handler
      BY <2>1, <3>1, <3>2 DEF Read, Handler
    <3>4. Right(u, h) /\ Post(u, h)
      BY <2>1, <2>3 DEF Right, Owes
    <3> HIDE DEF h
    <3> QED BY <1>4, <3>3, <3>4
  <2> QED BY <2>2, <2>3
<1>8. CASE ReadFails(u)
  BY <1>5, <1>8 DEF ReadFails
<1> QED BY <1>6, <1>7, <1>8 DEF Answer

\* The client delivers and acknowledges other writes only.
LEMMA ClientWatches ==
    ASSUME TypeOK, NEW u \in User, CheckInv(u), Client(u)
    PROVE  CheckInv(u)'
<1> SUFFICES ASSUME Watching(u)' PROVE CheckInv(u)'
  BY DEF CheckInv
<1>0. UNCHANGED <<vc, want, torn, untouched>>
  BY DEF Client, likesVars
<1>1. Watching(u)
  BY <1>0 DEF Watching
<1>2. /\ \A k \in 1..Len(pending[u]) : Idle(u, pending[u][k])
      /\ \A k \in 1..Len(main[u]) : Right(u, main[u][k])
  BY <1>1 DEF CheckInv
<1>3. CASE Transmit(u)
  <2> DEFINE w == pending[u][sent[u] + 1]
  <2>1. /\ pending' = pending /\ main' = main /\ db' = Apply(db, w)
        /\ pending[u] \in Seq(Write(u)) /\ sent[u] + 1 \in 1..Len(pending[u])
    BY <1>3 DEF Transmit, TypeOK, QueuesOK
  <2>2. Idle(u, w)
    BY <1>2, <2>1
  <2> HIDE DEF w
  <2>3. db'[UserLike(u)] = db[UserLike(u)]
    BY <2>1, <2>2 DEF Idle, Apply, TypeOK, DocsOK, DocsType, Docs
  <2> QED BY <1>0, <1>1, <1>2, <2>1, <2>3, WatchKeeps
<1>4. CASE Acknowledge(u)
  <2> DEFINE e == Head(pending[u])
  <2>1. pending[u] \in Seq(Write(u)) /\ pending[u] # << >> /\ QueuesOK
    BY <1>4 DEF Acknowledge, TypeOK, QueuesOK
  <2>2. /\ pending'[u] = Tail(pending[u]) /\ db' = db
        /\ main' = IF e.then = Nothing THEN main ELSE [main EXCEPT ![u] = Append(@, e.then)]
    BY <1>4, <2>1 DEF Acknowledge, QueuesOK
  <2>3. Popped(pending[u], pending'[u], e) /\ e \in Write(u)
    BY <2>1, <2>2, TailPops
  <2> HIDE DEF e
  <2>4. \A k \in 1..Len(pending'[u]) : Idle(u, pending'[u][k])
    <3>1. \A k \in 1..Len(pending'[u]) :
              k + 1 \in 1..Len(pending[u]) /\ pending'[u][k] = pending[u][k + 1]
      BY <2>3 DEF Popped
    <3> QED BY <1>2, <3>1
  <2>5. \A k \in 1..Len(main'[u]) : Right(u, main'[u][k])
    <3>1. CASE e.then = Nothing
      BY <1>2, <2>2, <3>1
    <3>2. CASE e.then # Nothing
      <4>1. e.then \in Handler /\ Post(u, e.then)
        BY <2>2, <2>3, <3>2, HandlersType DEF Post
      <4>2. Right(u, e.then)
        <5>1. 1 \in 1..Len(pending[u]) /\ pending[u][1] = e
          BY <2>3 DEF Popped
        <5>2. ~Owes(e.then)
          BY <1>2, <5>1 DEF Idle
        <5>3. e.then.do # "checked"
          BY <2>3, <3>2 DEF Write, WriteOf, TapHandler
        <5> QED BY <5>2, <5>3 DEF Right
      <4> QED BY <1>2, <2>1, <4>1, <4>2, RightPost
    <3> QED BY <3>1, <3>2
  <2> QED BY <1>0, <1>1, <2>2, <2>4, <2>5, WatchKeeps
<1>5. CASE Reconnect(u)
  <2>1. UNCHANGED <<db, pending, main>>
    BY <1>5 DEF Reconnect
  <2> QED BY <1>0, <1>1, <1>2, <2>1, WatchKeeps
<1> QED BY <1>3, <1>4, <1>5 DEF Client

\* Another account's visit is left alone: nobody else writes its list.
LEMMA OthersWatch ==
    ASSUME TypeOK, NEW u \in User, NEW v \in User, v # u, StepOf(u), CheckInv(v)
    PROVE  CheckInv(v)'
<1>1. db'[UserLike(v)] = db[UserLike(v)]
  <2>1. CASE Transmit(u)
    <3>1. PICK w \in Write(u) : db' = Apply(db, w)
      BY <2>1, TransmitsOwn
    <3>2. w.doc # UserLike(v)
      BY DEF Write, WriteOf, Cartoon, CartoonLike, UserLike, Notice
    <3> QED BY <3>1, <3>2 DEF Apply, TypeOK, DocsOK, DocsType, Docs
  <2>2. CASE ~Transmit(u)
    BY <2>2, OnlyTransmit
  <2> QED BY <2>1, <2>2
<1>2. Left(v)
  BY OthersLeft
<1> QED BY <1>1, <1>2 DEF Left, CheckInv, Watching, Idle, Right, Exists

\* Every step keeps every such visit.
LEMMA StepWatches ==
    ASSUME TypeOK, MirrorAgrees, [Next]_vars, \A v \in User : CheckInv(v)
    PROVE  \A v \in User : CheckInv(v)'
<1> SUFFICES ASSUME NEW v \in User PROVE CheckInv(v)'
  OBVIOUS
<1>0. CheckInv(v)
  OBVIOUS
<1>1. CASE UNCHANGED vars
  BY <1>0, <1>1 DEF vars, firestoreVars, likesVars, CheckInv, Watching, Idle, Right, Exists
<1>2. CASE Next
  <2>1. PICK u \in User : StepOf(u)
    BY <1>2 DEF Next, StepOf
  <2>2. CASE u # v
    BY <1>0, <2>1, <2>2, OthersWatch
  <2>3. CASE u = v
    <3>1. CASE Restart(v)
      BY <3>1 DEF Restart, Leave, CheckInv, Watching, TypeOK, ScreensOK
    <3> QED BY <1>0, <2>1, <2>3, <3>1, OpenWatches, ScreenWatches, HandlersWatch,
               AnswersWatch, ClientWatches DEF StepOf
  <2> QED BY <2>2, <2>3
<1> QED BY <1>1, <1>2

\* In every instance the heart that checkUserLikeCartoon has checked, on a
\* visit that began on a settled device and saw no tap, shows what the
\* account last asked for: whatever the other accounts, resent writes and
\* answers of earlier visits do meanwhile.
THEOREM CheckCorrect == Spec => []CheckTruthful
<1> DEFINE Checks == \A u \in User : CheckInv(u)
<1>1. Init => Checks
  BY DEF Init, CheckInv, Watching
<1>2. TypeOK /\ MirrorAgrees /\ Checks /\ [Next]_vars => Checks'
  BY StepWatches
<1>3. Checks => CheckTruthful
  BY DEF CheckTruthful, CheckInv, Watching
<1> HIDE DEF Checks
<1> QED BY <1>1, <1>2, <1>3, TypeCorrect, MirrorCorrect, PTL DEF Spec
=============================================================================
