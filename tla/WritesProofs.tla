---------------------------- MODULE WritesProofs ----------------------------
(***************************************************************************)
(* Proofs about Writes, for every set of accounts, every window and all    *)
(* bounds: the types, the pipeline and the stream (StreamCorrect), a       *)
(* response is that of the first batch of the pipeline (AnswersRight), the *)
(* client implements the one the screens are modelled on                   *)
(* (ClientImplements), and what it tells the application is true           *)
(* (HearsTheTruth).                                                        *)
(*                                                                         *)
(* StreamSound is not inductive.  That the pipeline stays the beginning of *)
(* the queue when FillWritePipeline goes by the last id retrieved needs    *)
(* ids that grow and a counter above them (Numbered); that the idle timer, *)
(* a disabled network or a token leave a stream as they should needs to    *)
(* know for what it is started (StartedNeeded) and that none is while the  *)
(* network is disabled (NetworkOff).                                       *)
(*                                                                         *)
(* The argument has three layers: what joins a pipeline (Joined), leaves   *)
(* (HeadLeaves) or lengthens (BatchJoins) a queue; what the operators the  *)
(* steps share do to the queues (QueuesOK) and to the stream (StreamOK):   *)
(* HeadSettled, WriteQueued, QueuesOpened, Filled, NetworkRestarted,       *)
(* Closed; and one lemma per kind of step.                                 *)
(*                                                                         *)
(* The others rest on what is on the wire (WireOK).  The requests of a     *)
(* stream are together, its handshake first, the streams in order; so what *)
(* the server will have applied when it comes to a request can be counted  *)
(* from the last handshake before it, and the request is the write of that *)
(* number in the queue of the account of that handshake: also when it is   *)
(* of a stream the client has given up.  Queues only lose their head to an *)
(* answer of the open stream, when nothing older is on the wire.           *)
(*                                                                         *)
(* For the refinement, a registered handler is moreover that of a batch in *)
(* the queue (HandlersOK), so the handler found by a batch's id is its own *)
(* and the shown queue is Bar; then each step is one of the abstract       *)
(* client's, or one no screen can tell (one lemma, Seen..., per kind of    *)
(* step).                                                                  *)
(*                                                                         *)
(* For what is heard (HeardOK), a write is in one queue, once; what is due *)
(* at the main thread is of writes in no queue; who waits under a batch's  *)
(* id waits for none behind it; and a server that closed the stream        *)
(* refused the write that is answered next, whatever is answered before.   *)
(***************************************************************************)
EXTENDS Writes, FiniteSetTheorems, WellFoundedInduction, SequenceTheorems, TLAPS

-----------------------------------------------------------------------------
(* The least and the greatest of a set of numbers                          *)

\* The least-number principle, from the well-foundedness of strict inclusion
\* among the finite sets 1..n.
LEMMA Least ==
    ASSUME NEW Bad \in SUBSET Nat, Bad # {}
    PROVE  \E m \in Bad : \A k \in Bad : m <= k
<1> DEFINE Segments == {1..n : n \in Bad}
<1>1. Segments \subseteq FiniteSubsetsOf(Nat)
  <2>1. \A n \in Bad : IsFiniteSet(1..n) /\ 1..n \subseteq Nat
    BY FS_Interval
  <2> QED BY <2>1 DEF FiniteSubsetsOf
<1>2. PICK s \in Segments : \A t \in Segments : <<t, s>> \notin StrictSubsetOrdering(Nat)
  <2>1. Segments # {}
    OBVIOUS
  <2> HIDE DEF Segments
  <2>2. IsWellFoundedOn(StrictSubsetOrdering(Nat), FiniteSubsetsOf(Nat))
    BY FS_StrictSubsetOrderingWellFounded
  <2> QED BY <1>1, <2>1, <2>2, WFMin
<1>3. PICK m \in Bad : s = 1..m
  BY <1>2
<1>4. ASSUME NEW k \in Bad, k < m PROVE FALSE
  <2>1. 1..k \subseteq 1..m /\ m \in 1..m /\ m \notin 1..k
    BY <1>4
  <2>2. <<1..k, 1..m>> \in StrictSubsetOrdering(Nat)
    BY <2>1 DEF StrictSubsetOrdering
  <2> QED BY <1>2, <1>3, <2>2
<1> QED BY <1>4

\* What lies below a bound has a greatest member: its distance is the least.
LEMMA Greatest ==
    ASSUME NEW n \in Nat, NEW Some \in SUBSET (0..n), Some # {}
    PROVE  \E m \in Some : \A k \in Some : m >= k
<1> DEFINE Distance == {n - k : k \in Some}
<1>1. Distance \in SUBSET Nat /\ Distance # {}
  <2>1. \A k \in Some : n - k \in Nat
    OBVIOUS
  <2> QED BY <2>1
<1>2. PICK d \in Distance : \A e \in Distance : d <= e
  <2> HIDE DEF Distance
  <2> QED BY <1>1, Least
<1>3. PICK m \in Some : d = n - m
  BY <1>2
<1>4. ASSUME NEW k \in Some PROVE m >= k
  <2>1. n - m <= n - k
    BY <1>2, <1>3
  <2>2. m \in Int /\ k \in Int
    OBVIOUS
  <2> QED BY <2>1, <2>2
<1> QED BY <1>4

\* Induction up to a bound, over a set of numbers.
LEMMA Climb ==
    ASSUME NEW n \in Nat, NEW S, 0 \in S, \A k \in 0..n - 1 : k \in S => k + 1 \in S
    PROVE  \A k \in 0..n : k \in S
<1> DEFINE Bad == {k \in 0..n : k \notin S}
<1> SUFFICES ASSUME Bad # {} PROVE FALSE
  OBVIOUS
<1>1. Bad \in SUBSET Nat
  OBVIOUS
<1>2. PICK m \in Bad : \A k \in Bad : m <= k
  <2> HIDE DEF Bad
  <2> QED BY <1>1, Least
<1>3. m \in 0..n /\ m \notin S /\ m # 0
  BY <1>2
<1>4. m - 1 \in 0..n - 1 /\ m - 1 \in 0..n /\ (m - 1) + 1 = m /\ ~(m <= m - 1)
  BY <1>3
<1>5. m - 1 \in S
  BY <1>2, <1>4
<1> QED BY <1>3, <1>4, <1>5


-----------------------------------------------------------------------------
(* Queues                                                                  *)

\* A queue as the code fills it: ids are positive and grow.
Ordered(q) ==
    /\ q \in Seq(Batch)
    /\ \A i \in 1..Len(q) : q[i].id > 0
    /\ \A i, j \in 1..Len(q) : i < j => q[i].id < q[j].id

\* As much of a queue as the pipeline has room for.
Room(q) == IF Len(q) <= Window THEN Len(q) ELSE Window
Begin(q) == SubSeq(q, 1, Room(q))

\* The least of two numbers and the greatest of the first ones.
LEMMA MinOfTwo ==
    ASSUME NEW a \in Int, NEW b \in Int
    PROVE  Min({a, b}) = IF a <= b THEN a ELSE b
<1> DEFINE m == IF a <= b THEN a ELSE b
           Least2(x) == x \in {a, b} /\ \A y \in {a, b} : x =< y
<1>1. Least2(m)
  OBVIOUS
<1>2. \A x : Least2(x) => x = m
  OBVIOUS
<1>3. Min({a, b}) = CHOOSE x : Least2(x)
  BY DEF Min
<1> HIDE DEF m, Least2
<1>4. (CHOOSE x : Least2(x)) = m
  BY <1>1, <1>2
<1> QED BY <1>3, <1>4 DEF m

\* The greatest of a set of numbers is what Max returns.
LEMMA MaxIsGreatest ==
    ASSUME NEW S \in SUBSET Int, NEW m \in S, \A y \in S : m >= y
    PROVE  Max(S) = m
<1> DEFINE Top(x) == x \in S /\ \A y \in S : x >= y
<1>1. Top(m)
  OBVIOUS
<1>2. ASSUME NEW x, Top(x) PROVE x = m
  <2>1. x \in Int /\ m \in Int /\ x >= m /\ m >= x
    BY <1>2
  <2> QED BY <2>1
<1>3. Max(S) = CHOOSE x : Top(x)
  BY DEF Max
<1> HIDE DEF Top
<1>4. (CHOOSE x : Top(x)) = m
  BY <1>1, <1>2
<1> QED BY <1>3, <1>4

\* A bounded, non-empty set of numbers has a greatest one.
LEMMA MaxBelow ==
    ASSUME NEW n \in Nat, NEW S \in SUBSET (0..n), S # {}
    PROVE  Max(S) \in S /\ \A y \in S : Max(S) >= y
<1>1. PICK m \in S : \A k \in S : m >= k
  BY Greatest
<1> QED BY <1>1 DEF Max

\* As much as there is room for is not more than a window.
LEMMA RoomBounds ==
    ASSUME NEW q \in Seq(Batch)
    PROVE  /\ Room(q) \in Nat /\ Room(q) <= Window /\ Room(q) <= Len(q)
           /\ Min({Window, Len(q)}) = Room(q)
           /\ Begin(q) \in Seq(Batch) /\ Len(Begin(q)) = Room(q)
           /\ \A i \in 1..Room(q) : Begin(q)[i] = q[i]
           /\ Begin(q) = << >> <=> q = << >>
<1> USE BoundsAssumption
<1>1. /\ Len(q) \in Nat /\ Window \in Nat /\ Window > 0
      /\ \A i \in 1..Len(q) : q[i] \in Batch
  OBVIOUS
<1>2. /\ Room(q) \in Nat /\ Room(q) <= Window /\ Room(q) <= Len(q)
      /\ Room(q) = 0 <=> Len(q) = 0
  BY <1>1 DEF Room
<1>3. Min({Window, Len(q)}) = Room(q)
  BY <1>1, MinOfTwo DEF Room
<1>4. \A i \in 1..Room(q) : q[i] \in Batch
  BY <1>1, <1>2
<1>5. /\ Begin(q) \in Seq(Batch) /\ Len(Begin(q)) = Room(q)
      /\ \A i \in 1..Room(q) : Begin(q)[i] = q[i]
  BY <1>2, <1>4, SubSeqProperties DEF Begin
<1>6. Begin(q) = << >> <=> q = << >>
  BY <1>2, <1>5
<1> QED BY <1>2, <1>3, <1>5, <1>6

\* FillWritePipeline: a beginning of the queue, with what joins it, is the
\* beginning of the queue that there is room for.
LEMMA Joined ==
    ASSUME NEW q, Ordered(q), NEW m \in 0..Room(q)
    PROVE  /\ Joining(SubSeq(q, 1, m), q) = SubSeq(q, m + 1, Room(q))
           /\ SubSeq(q, 1, m) \o Joining(SubSeq(q, 1, m), q) = Begin(q)
           /\ SubSeq(q, 1, m) \in Seq(Batch) /\ Joining(SubSeq(q, 1, m), q) \in Seq(Batch)
<1> DEFINE p == SubSeq(q, 1, m)
           retrieved == IF p = << >> THEN 0 ELSE p[Len(p)].id
           behind == {0} \cup {i \in DOMAIN q : q[i].id <= retrieved}
<1> USE BoundsAssumption
<1>1. q \in Seq(Batch) /\ Len(q) \in Nat /\ DOMAIN q = 1..Len(q)
  BY DEF Ordered
<1>2. /\ Room(q) \in Nat /\ Room(q) <= Window /\ Room(q) <= Len(q)
      /\ Min({Window, Len(q)}) = Room(q)
  BY <1>1, RoomBounds
<1>3. m \in Nat /\ m <= Room(q) /\ m <= Len(q) /\ Window \in Nat
  BY <1>2
<1>4. /\ p \in Seq(Batch) /\ Len(p) = m
      /\ \A i \in 1..m : p[i] = q[i]
  <2>1. \A i \in 1..m : q[i] \in Batch
    BY <1>1, <1>3
  <2> QED BY <1>3, <2>1, SubSeqProperties
<1>5. \A i \in 1..Len(q) : q[i].id \in Nat
  <2>1. \A i \in 1..Len(q) : q[i] \in Batch
    BY <1>1
  <2> QED BY <2>1 DEF Batch
<1>6. retrieved = IF m = 0 THEN 0 ELSE q[m].id
  BY <1>3, <1>4
<1>7. Max(behind) = m
  <2>1. behind \in SUBSET Int /\ m \in behind
    BY <1>1, <1>3, <1>5, <1>6
  <2>2. ASSUME NEW i \in 1..Len(q), q[i].id <= retrieved PROVE i <= m
    <3>1. CASE m = 0
      BY <1>5, <1>6, <2>2, <3>1 DEF Ordered
    <3>2. CASE m # 0
      <4>1. m \in 1..Len(q) /\ q[m].id \in Nat /\ q[i].id \in Nat /\ q[i].id <= q[m].id
        BY <1>3, <1>5, <1>6, <2>2, <3>2
      <4>2. m < i => q[m].id < q[i].id
        BY <4>1 DEF Ordered
      <4> QED BY <1>3, <4>1, <4>2
    <3> QED BY <3>1, <3>2
  <2>3. \A y \in behind : m >= y
    BY <1>1, <1>3, <2>2
  <2> HIDE DEF behind
  <2> QED BY <2>1, <2>3, MaxIsGreatest
<1>8. Joining(p, q) = SubSeq(q, m + 1, Room(q))
  <2>1. Joining(p, q) = SubSeq(q, Max(behind) + 1,
                               Min({Max(behind) + Window - Len(p), Len(q)}))
    BY DEF Joining
  <2>2. m + Window - Len(p) = Window
    BY <1>3, <1>4
  <2> HIDE DEF p, behind
  <2> QED BY <1>2, <1>7, <2>1, <2>2
<1>9. SubSeq(q, 1, m) \o SubSeq(q, m + 1, Room(q)) = SubSeq(q, 1, Room(q))
  <2>1. 1 \in 1..Len(q) + 1 /\ m \in 1 - 1..Len(q) /\ Room(q) \in m..Len(q)
    BY <1>1, <1>2, <1>3
  <2> QED BY <1>1, <2>1, ConcatAdjacentSubSeq
<1>10. SubSeq(q, m + 1, Room(q)) \in Seq(Batch)
  <2>1. \A i \in m + 1..Room(q) : q[i] \in Batch
    BY <1>1, <1>2, <1>3
  <2> QED BY <1>2, <1>3, <2>1, SubSeqProperties
<1> QED BY <1>4, <1>8, <1>9, <1>10 DEF Begin

\* A pipeline that is empty is filled from the front of the queue.
LEMMA JoinedEmpty ==
    ASSUME NEW q, Ordered(q)
    PROVE  Joining(<< >>, q) = Begin(q)
<1>1. q \in Seq(Batch)
  BY DEF Ordered
<1>2. Room(q) \in Nat /\ 0 \in 0..Room(q)
  <2>1. Room(q) \in Nat
    BY <1>1, RoomBounds
  <2> QED BY <2>1
<1>3. SubSeq(q, 1, 0) = << >>
  BY SubSeqEmpty
<1>4. Joining(SubSeq(q, 1, 0), q) = SubSeq(q, 0 + 1, Room(q))
  BY <1>2, Joined
<1>5. 0 + 1 = 1
  OBVIOUS
<1> QED BY <1>3, <1>4, <1>5, Zenon DEF Begin

\* The head of a queue leaves it.
LEMMA HeadLeaves ==
    ASSUME NEW q, Ordered(q), q # << >>
    PROVE  /\ Without(q, Head(q).id) = Tail(q)
           /\ Ordered(Tail(q))
           /\ \A i \in 1..Len(Tail(q)) : i + 1 \in 1..Len(q) /\ Tail(q)[i] = q[i + 1]
           /\ Tail(Begin(q)) = SubSeq(Tail(q), 1, Room(q) - 1)
           /\ Room(q) - 1 \in 0..Room(Tail(q))
           /\ Head(Begin(q)) = Head(q)
<1> USE BoundsAssumption
<1> DEFINE t == Tail(q)
           r == Room(q)
<1>1. /\ q \in Seq(Batch) /\ Len(q) \in Nat /\ Len(q) > 0 /\ DOMAIN q = 1..Len(q)
      /\ Head(q) = q[1] /\ 1 \in 1..Len(q)
  BY DEF Ordered
<1>2. /\ t \in Seq(Batch) /\ Len(t) = Len(q) - 1 /\ Len(t) \in Nat
      /\ \A i \in 1..Len(t) : t[i] = q[i + 1]
  BY <1>1, HeadTailProperties
<1>3. \A i \in 1..Len(q) : q[i].id \in Nat
  <2>1. \A i \in 1..Len(q) : q[i] \in Batch
    BY <1>1
  <2> QED BY <2>1 DEF Batch
<1>4. Without(q, Head(q).id) = t
  <2>1. ASSUME NEW i \in 1..Len(q), q[i].id = q[1].id PROVE i = 1
    BY <1>1, <1>3, <2>1 DEF Ordered
  <2>2. (CHOOSE i \in DOMAIN q : q[i].id = q[1].id) = 1
    BY <1>1, <2>1
  <2>3. q[1].id \in Ids(q)
    BY <1>1 DEF Ids
  <2>4. SubSeq(q, 1, 1 - 1) = << >> /\ SubSeq(q, 1 + 1, Len(q)) = t
    BY <1>1, SubSeqEmpty, TailIsSubSeq
  <2>5. << >> \o t = t
    BY <1>2, ConcatEmptySeq
  <2> QED BY <1>1, <2>2, <2>3, <2>4, <2>5 DEF Without
<1>5. \A i \in 1..Len(t) : i + 1 \in 1..Len(q) /\ t[i] = q[i + 1]
  BY <1>1, <1>2
<1>6. Ordered(t)
  <2>1. \A i \in 1..Len(t) : t[i].id > 0
    BY <1>5 DEF Ordered
  <2>2. ASSUME NEW i \in 1..Len(t), NEW j \in 1..Len(t), i < j PROVE t[i].id < t[j].id
    BY <1>2, <1>5, <2>2 DEF Ordered
  <2> QED BY <1>2, <2>1, <2>2 DEF Ordered
<1>7. /\ r \in 1..Len(q) /\ r \in Nat /\ r - 1 \in 0..Room(t) /\ r <= Window
  BY <1>1, <1>2 DEF Room
<1>8. /\ Begin(q) \in Seq(Batch) /\ Len(Begin(q)) = r
      /\ \A i \in 1..r : Begin(q)[i] = q[i]
  BY <1>1, RoomBounds
<1>9. Begin(q) # << >> /\ Head(Begin(q)) = Head(q)
  BY <1>1, <1>7, <1>8
<1>10. Tail(Begin(q)) = SubSeq(t, 1, r - 1)
  <2>1. /\ Tail(Begin(q)) \in Seq(Batch) /\ Len(Tail(Begin(q))) = r - 1
        /\ \A i \in 1..r - 1 : Tail(Begin(q))[i] = Begin(q)[i + 1]
    BY <1>8, <1>9, HeadTailProperties
  <2>2. /\ r - 1 <= Len(t) /\ \A i \in 1..r - 1 : i \in 1..Len(t) /\ t[i] \in Batch
    BY <1>1, <1>2, <1>7
  <2>3. /\ SubSeq(t, 1, r - 1) \in Seq(Batch) /\ Len(SubSeq(t, 1, r - 1)) = r - 1
        /\ \A i \in 1..r - 1 : SubSeq(t, 1, r - 1)[i] = t[i]
    <3>1. 1 \in Int /\ r - 1 \in Int /\ r - 1 >= 0
      BY <1>7
    <3> QED BY <2>2, <3>1, SubSeqProperties
  <2>4. \A i \in 1..r - 1 : Tail(Begin(q))[i] = SubSeq(t, 1, r - 1)[i]
    <3>1. \A i \in 1..r - 1 : i + 1 \in 1..r
      BY <1>7
    <3> QED BY <1>5, <1>8, <2>1, <2>2, <2>3, <3>1
  <2> QED BY <2>1, <2>3, <2>4, SeqEqual
<1> QED BY <1>4, <1>5, <1>6, <1>7, <1>9, <1>10

\* A batch of the next id joins a queue.
LEMMA BatchJoins ==
    ASSUME NEW q, Ordered(q), NEW b \in Batch, b.id > 0,
           \A i \in 1..Len(q) : q[i].id < b.id
    PROVE  /\ Ordered(Append(q, b))
           /\ Len(Append(q, b)) = Len(q) + 1
           /\ \A i \in 1..Len(q) : Append(q, b)[i] = q[i]
           /\ Append(q, b)[Len(q) + 1] = b
           /\ Begin(q) = SubSeq(Append(q, b), 1, Room(q))
           /\ Room(q) \in 0..Room(Append(q, b))
<1> USE BoundsAssumption
<1> DEFINE a == Append(q, b)
<1>1. q \in Seq(Batch) /\ Len(q) \in Nat
  BY DEF Ordered
<1>2. /\ a \in Seq(Batch) /\ Len(a) = Len(q) + 1
      /\ \A i \in 1..Len(q) : a[i] = q[i]
      /\ a[Len(q) + 1] = b
  BY <1>1, AppendProperties
<1> HIDE DEF a
<1>3. ASSUME NEW i \in 1..Len(a) PROVE i \in 1..Len(q) \/ i = Len(q) + 1
  BY <1>1, <1>2
<1>4. Ordered(a)
  <2>1. \A i \in 1..Len(a) : a[i].id > 0
    BY <1>2, <1>3 DEF Ordered
  <2>2. ASSUME NEW i \in 1..Len(a), NEW j \in 1..Len(a), i < j PROVE a[i].id < a[j].id
    <3>1. i \in 1..Len(q)
      BY <1>1, <1>2, <2>2
    <3> QED BY <1>2, <1>3, <2>2, <3>1 DEF Ordered
  <2> QED BY <1>2, <2>1, <2>2 DEF Ordered
<1>5. Room(q) \in 0..Room(a) /\ Room(q) \in Nat /\ Room(q) <= Len(q)
  BY <1>1, <1>2 DEF Room
<1>6. Begin(q) = SubSeq(a, 1, Room(q))
  <2>1. /\ Begin(q) \in Seq(Batch) /\ Len(Begin(q)) = Room(q)
        /\ \A i \in 1..Room(q) : Begin(q)[i] = q[i]
    BY <1>1, RoomBounds
  <2>2. \A i \in 1..Room(q) : i \in 1..Len(q) /\ i \in 1..Len(a)
    BY <1>1, <1>2, <1>5
  <2>3. \A i \in 1..Room(q) : a[i] \in Batch /\ a[i] = q[i]
    BY <1>2, <2>2
  <2>4. /\ SubSeq(a, 1, Room(q)) \in Seq(Batch) /\ Len(SubSeq(a, 1, Room(q))) = Room(q)
        /\ \A i \in 1..Room(q) : SubSeq(a, 1, Room(q))[i] = a[i]
    BY <1>5, <2>3, SubSeqProperties
  <2> QED BY <2>1, <2>3, <2>4, SeqEqual
<1> QED BY <1>2, <1>4, <1>5, <1>6 DEF a

-----------------------------------------------------------------------------
(* The inductive invariant                                                 *)

\* Ids come from one counter: no id in a queue exceeds the writes issued, and
\* the present account's next one is larger than those in its queue.
Numbered ==
    /\ \A u \in User : Ordered(queue[u])
    /\ \A u \in User : \A i \in 1..Len(queue[u]) : queue[u][i].id <= issued
    /\ nextId <= issued + 1
    /\ \A i \in 1..Len(queue[user]) : queue[user][i].id < nextId

\* The stream is on its way up only for something to send.
StartedNeeded ==
    state \in {"Starting", "Backoff"} \/ (state = "Open" /\ ~handshake) => pipeline # << >>

\* Nothing is started without a network.
NetworkOff == ~enabled => ~Started(state)

IInv == StreamSound /\ Numbered /\ StartedNeeded /\ NetworkOff

\* The invariant by parts that a step disturbs together: the accounts' queues
\* and handlers, and the stream with its pipeline.
QueuesOK ==
    /\ user \in User
    /\ queue \in [User -> Seq(Batch)] /\ nextId \in Nat \ {0}
    /\ callbacks \in [User -> SUBSET Batch]
    /\ issued \in 0..MaxWrites
    /\ Numbered

StreamOK ==
    /\ closing \in {Nothing, "read", "writing"}
    /\ enabled \in BOOLEAN /\ handshake \in BOOLEAN /\ idle \in BOOLEAN
    /\ state \in {"Initial", "Starting", "Open", "Backoff", "Error"}
    /\ closeCount \in Nat /\ tokens \subseteq 0..closeCount
    /\ pipeline = IF enabled THEN Begin(queue[user]) ELSE << >>
    /\ StoppedUnneeded /\ TokensFresh /\ StartedNeeded /\ NetworkOff

\* The invariant, taken apart into what it says of each queue and of the stream.
LEMMA Parts == IInv <=> QueuesOK /\ StreamOK
<1> USE BoundsAssumption
<1>1. ASSUME NEW q, Ordered(q)
      PROVE  /\ SubSeq(q, 1, Min({Window, Len(q)})) = Begin(q)
             /\ Begin(q) \in Seq(Batch) /\ Len(Begin(q)) <= Window
  <2>1. q \in Seq(Batch)
    BY <1>1 DEF Ordered
  <2>2. /\ Min({Window, Len(q)}) = Room(q) /\ Room(q) <= Window
        /\ Begin(q) \in Seq(Batch) /\ Len(Begin(q)) = Room(q)
    BY <2>1, RoomBounds
  <2> QED BY <2>2 DEF Begin
<1>2. ASSUME IInv PROVE QueuesOK /\ StreamOK
  <2>1. QueuesOK
    BY <1>2 DEF IInv, StreamSound, TypeOK, QueuesOK
  <2>2. pipeline = IF enabled THEN Begin(queue[user]) ELSE << >>
    <3>1. Ordered(queue[user]) /\ PipelineIsPrefix
      BY <1>2, <2>1 DEF IInv, StreamSound, QueuesOK, Numbered
    <3> QED BY <1>1, <3>1 DEF PipelineIsPrefix
  <2> QED BY <1>2, <2>1, <2>2 DEF IInv, StreamSound, TypeOK, StreamOK
<1>3. ASSUME QueuesOK, StreamOK PROVE IInv
  <2>1. Ordered(queue[user])
    BY <1>3 DEF QueuesOK, Numbered
  <2>2. PipelineIsPrefix
    BY <1>1, <1>3, <2>1 DEF PipelineIsPrefix, StreamOK
  <2>3. pipeline \in Seq(Batch) /\ Len(pipeline) <= Window
    <3>1. << >> \in Seq(Batch) /\ Len(<< >>) <= Window
      OBVIOUS
    <3> QED BY <1>1, <1>3, <2>1, <3>1 DEF StreamOK
  <2>4. TypeOK
    BY <1>3, <2>3 DEF QueuesOK, StreamOK, TypeOK
  <2> QED BY <1>3, <2>2, <2>4 DEF QueuesOK, StreamOK, IInv, StreamSound
<1> QED BY <1>2, <1>3

\* The parts hold at the start.
LEMMA InitOK == Init => QueuesOK /\ StreamOK
<1> SUFFICES ASSUME Init PROVE QueuesOK /\ StreamOK
  OBVIOUS
<1> USE BoundsAssumption DEF Init
<1>1. Ordered(<< >>) /\ Begin(<< >>) = << >>
  <2>1. << >> \in Seq(Batch) /\ Len(<< >>) = 0
    OBVIOUS
  <2>2. Begin(<< >>) = << >>
    BY <2>1, RoomBounds
  <2>3. \A i \in 1..Len(<< >>) : FALSE
    BY <2>1
  <2> QED BY <2>1, <2>2, <2>3 DEF Ordered
<1>2. QueuesOK
  BY <1>1 DEF QueuesOK, Numbered
<1>3. StreamOK
  BY <1>1 DEF StreamOK, StoppedUnneeded, TokensFresh, StartedNeeded, NetworkOff, Started
<1> QED BY <1>2, <1>3

-----------------------------------------------------------------------------
(* The accounts' queues and handlers                                       *)

\* The present queue is as the code fills it.
LEMMA PresentQueue ==
    ASSUME QueuesOK
    PROVE  /\ user \in User /\ Ordered(queue[user]) /\ queue[user] \in Seq(Batch)
           /\ Len(queue[user]) \in Nat
BY DEF QueuesOK, Numbered, Ordered

\* Steps that leave them alone keep them.
LEMMA QueuesKept ==
    ASSUME QueuesOK, UNCHANGED <<user, queue, nextId, callbacks, issued>>
    PROVE  QueuesOK'
BY DEF QueuesOK, Numbered

\* The head of the present queue is answered.
LEMMA HeadSettled ==
    ASSUME QueuesOK, queue[user] # << >>, NEW ok, Settle(Head(queue[user]), ok),
           UNCHANGED <<user, nextId, issued>>
    PROVE  /\ QueuesOK'
           /\ queue'[user'] = Tail(queue[user])
<1> DEFINE q == queue[user]
<1>1. /\ user \in User /\ Ordered(q) /\ queue \in [User -> Seq(Batch)]
  BY PresentQueue DEF QueuesOK
<1>2. /\ Without(q, Head(q).id) = Tail(q) /\ Ordered(Tail(q))
      /\ \A i \in 1..Len(Tail(q)) : i + 1 \in 1..Len(q) /\ Tail(q)[i] = q[i + 1]
  BY <1>1, HeadLeaves
<1>3. queue' = [queue EXCEPT ![user] = Tail(q)]
  BY <1>2 DEF Settle
<1>4. /\ queue'[user] = Tail(q) /\ queue' \in [User -> Seq(Batch)]
      /\ \A u \in User \ {user} : queue'[u] = queue[u]
  BY <1>1, <1>2, <1>3 DEF Ordered
<1>5. callbacks' \in [User -> SUBSET Batch]
  <2>1. callbacks' = [callbacks EXCEPT ![user] = @ \ Owed(Head(q).id)]
    BY DEF Settle
  <2>2. callbacks[user] \ Owed(Head(q).id) \in SUBSET Batch
    BY <1>1 DEF QueuesOK
  <2> QED BY <2>1, <2>2 DEF QueuesOK
<1>6. Numbered'
  <2>1. \A u \in User : Ordered(queue'[u])
    BY <1>2, <1>4 DEF QueuesOK, Numbered
  <2>2. ASSUME NEW u \in User, NEW i \in 1..Len(queue'[u]) PROVE queue'[u][i].id <= issued
    <3>1. CASE u = user
      BY <1>1, <1>2, <1>4, <3>1 DEF QueuesOK, Numbered
    <3>2. CASE u # user
      BY <1>4, <3>2 DEF QueuesOK, Numbered
    <3> QED BY <3>1, <3>2
  <2>3. \A i \in 1..Len(queue'[user]) : queue'[user][i].id < nextId
    BY <1>2, <1>4 DEF QueuesOK, Numbered
  <2> QED BY <2>1, <2>2, <2>3 DEF QueuesOK, Numbered
<1> QED BY <1>4, <1>5, <1>6 DEF QueuesOK

\* A write is issued.
LEMMA WriteQueued ==
    ASSUME QueuesOK, WriteMutations
    PROVE  LET q == queue[user]
           IN  /\ QueuesOK'
               /\ Begin(q) = SubSeq(queue'[user'], 1, Room(q))
               /\ Room(q) \in 0..Room(queue'[user'])
<1> USE BoundsAssumption
<1> DEFINE q == queue[user]
           b == [id |-> nextId, write |-> issued + 1]
<1>1. /\ user \in User /\ Ordered(q) /\ queue \in [User -> Seq(Batch)]
      /\ q \in Seq(Batch) /\ Len(q) \in Nat
  BY PresentQueue DEF QueuesOK
<1>2. /\ b \in Batch /\ b.id = nextId /\ b.id > 0 /\ nextId \in Nat
      /\ issued \in Nat /\ issued' = issued + 1 /\ issued' \in 0..MaxWrites
      /\ nextId' = nextId + 1 /\ user' = user
  BY DEF Batch, WriteMutations, QueuesOK
<1>3. \A i \in 1..Len(q) : q[i].id < b.id
  BY <1>2 DEF QueuesOK, Numbered
<1>4. queue' = [queue EXCEPT ![user] = Append(q, b)]
  BY DEF WriteMutations
<1> HIDE DEF b
<1>5. /\ Ordered(Append(q, b)) /\ Len(Append(q, b)) = Len(q) + 1
      /\ \A i \in 1..Len(q) : Append(q, b)[i] = q[i]
      /\ Append(q, b)[Len(q) + 1] = b
      /\ Begin(q) = SubSeq(Append(q, b), 1, Room(q))
      /\ Room(q) \in 0..Room(Append(q, b))
  BY <1>1, <1>2, <1>3, BatchJoins
<1>6. /\ queue'[user] = Append(q, b) /\ queue' \in [User -> Seq(Batch)]
      /\ \A u \in User \ {user} : queue'[u] = queue[u]
  BY <1>1, <1>4, <1>5 DEF Ordered
<1>7. \A i \in 1..Len(Append(q, b)) : i \in 1..Len(q) \/ i = Len(q) + 1
  BY <1>1, <1>5
<1>8. \A u \in User : \A i \in 1..Len(queue[u]) : queue[u][i].id \in Nat
  <2>1. \A u \in User : \A i \in 1..Len(queue[u]) : queue[u][i] \in Batch
    BY <1>1
  <2> QED BY <2>1 DEF Batch
<1>9. Numbered'
  <2>1. \A u \in User : Ordered(queue'[u])
    BY <1>5, <1>6 DEF QueuesOK, Numbered
  <2>2. ASSUME NEW u \in User, NEW i \in 1..Len(queue'[u]) PROVE queue'[u][i].id <= issued'
    <3>1. CASE u # user
      BY <1>2, <1>6, <1>8, <3>1 DEF QueuesOK, Numbered
    <3>2. CASE u = user /\ i \in 1..Len(q)
      <4>1. queue'[u][i] = q[i] /\ q[i].id <= issued /\ q[i].id \in Nat
        BY <1>1, <1>5, <1>6, <1>8, <3>2 DEF QueuesOK, Numbered
      <4> QED BY <1>2, <4>1
    <3>3. CASE u = user /\ i = Len(q) + 1
      BY <1>2, <1>5, <1>6, <3>3 DEF QueuesOK, Numbered
    <3> QED BY <1>6, <1>7, <2>2, <3>1, <3>2, <3>3
  <2>3. ASSUME NEW i \in 1..Len(queue'[user]) PROVE queue'[user][i].id < nextId'
    <3>1. CASE i \in 1..Len(q)
      BY <1>1, <1>2, <1>3, <1>5, <1>6, <1>8, <3>1
    <3>2. CASE i = Len(q) + 1
      BY <1>2, <1>5, <1>6, <3>2
    <3> QED BY <1>6, <1>7, <2>3, <3>1, <3>2
  <2>4. nextId' <= issued' + 1
    BY <1>2 DEF QueuesOK, Numbered
  <2> QED BY <1>2, <2>1, <2>2, <2>3, <2>4 DEF Numbered
<1>10. callbacks' \in [User -> SUBSET Batch]
  <2>1. callbacks' = [callbacks EXCEPT ![user] = IF Owed(nextId) = {} THEN @ \cup {b} ELSE @]
    BY DEF WriteMutations, b
  <2>2. callbacks[user] \cup {b} \in SUBSET Batch
    BY <1>1, <1>2 DEF QueuesOK
  <2> QED BY <2>1, <2>2 DEF QueuesOK
<1> QED BY <1>1, <1>2, <1>5, <1>6, <1>9, <1>10 DEF QueuesOK

\* LoadNextBatchIdFromDb: larger than every id on disk.
LEMMA IdLoaded ==
    ASSUME QueuesOK
    PROVE  /\ LoadNextBatchId(queue) \in Nat \ {0}
           /\ LoadNextBatchId(queue) <= issued + 1
           /\ \A u \in User : \A i \in 1..Len(queue[u]) : queue[u][i].id < LoadNextBatchId(queue)
<1> DEFINE S == {0} \cup UNION {Ids(queue[u]) : u \in User}
<1>1. /\ issued \in Nat
      /\ \A u \in User : DOMAIN queue[u] = 1..Len(queue[u])
  BY BoundsAssumption DEF QueuesOK
<1>2. ASSUME NEW u \in User, NEW i \in 1..Len(queue[u])
      PROVE  queue[u][i].id \in 0..issued /\ queue[u][i].id \in S
  <2>1. queue[u][i] \in Batch
    BY DEF QueuesOK
  <2>2. queue[u][i].id \in Nat /\ queue[u][i].id <= issued
    BY <2>1 DEF QueuesOK, Numbered, Batch
  <2>3. queue[u][i].id \in Ids(queue[u])
    BY <1>1 DEF Ids
  <2> QED BY <1>1, <2>2, <2>3
<1>3. S \in SUBSET (0..issued) /\ 0 \in S
  <2>1. \A u \in User : \A x \in Ids(queue[u]) : x \in 0..issued
    BY <1>1, <1>2 DEF Ids
  <2> QED BY <1>1, <2>1
<1>4. LoadNextBatchId(queue) = Max(S) + 1
  BY DEF LoadNextBatchId
<1> HIDE DEF S
<1>5. Max(S) \in S /\ \A y \in S : Max(S) >= y
  BY <1>1, <1>3, MaxBelow
<1>6. Max(S) \in Nat /\ Max(S) <= issued
  <2>1. Max(S) \in 0..issued
    BY <1>3, <1>5
  <2> QED BY <1>1, <2>1
<1>7. ASSUME NEW u \in User, NEW i \in 1..Len(queue[u])
      PROVE  queue[u][i].id < Max(S) + 1
  BY <1>1, <1>2, <1>5, <1>6
<1> QED BY <1>1, <1>4, <1>6, <1>7

\* Another account signs in, or the process starts again: the queues stay and
\* the ids are counted anew.
LEMMA QueuesOpened ==
    ASSUME QueuesOK, UNCHANGED <<queue, issued>>, user' \in User,
           nextId' = LoadNextBatchId(queue), callbacks' \in [User -> SUBSET Batch]
    PROVE  QueuesOK'
BY IdLoaded DEF QueuesOK, Numbered

-----------------------------------------------------------------------------
(* The stream and its pipeline                                             *)

\* Steps that leave the stream alone keep it.
LEMMA StreamKept ==
    ASSUME StreamOK, closing' \in {Nothing, "read", "writing"},
           UNCHANGED <<enabled, streamVars, pipeline, user, queue>>
    PROVE  StreamOK'
BY DEF StreamOK, streamVars, StoppedUnneeded, TokensFresh, StartedNeeded, NetworkOff, Started

\* FillWritePipeline, given a beginning of the queue, leaves the pipeline full
\* and the stream started if it has anything to send.
LEMMA Filled ==
    ASSUME QueuesOK', StreamOK, closing' \in {Nothing, "read", "writing"},
           UNCHANGED <<closeCount, handshake>>, enabled' \in BOOLEAN, enabled => enabled',
           NEW p, NEW m \in 0..Room(queue'[user']),
           p = IF enabled THEN SubSeq(queue'[user'], 1, m) ELSE << >>,
           pipeline = << >> => p = << >> \/ ~idle,
           pipeline # << >> => p # << >> \/ (state = "Open" /\ handshake),
           FillWritePipeline(p, queue'[user'], state)
    PROVE  StreamOK'
<1> DEFINE q == queue'[user']
           more == IF enabled' THEN Joining(p, q) ELSE << >>
<1>1. Ordered(q) /\ q \in Seq(Batch)
  BY DEF QueuesOK, Numbered, Ordered
<1> HIDE DEF more
<1>2. /\ pipeline' = p \o more
      /\ idle' = CASE state = "Open" /\ handshake' /\ more # << >> -> FALSE
                   [] enabled' /\ pipeline' = << >> /\ state = "Open" -> TRUE
                   [] OTHER -> idle
      /\ StartIfNeeded(pipeline', state)
  BY DEF FillWritePipeline, more
<1>3. pipeline' = IF enabled' THEN Begin(q) ELSE << >>
  <2>1. CASE enabled
    BY <1>1, <1>2, <2>1, Joined DEF more
  <2>2. CASE ~enabled /\ enabled'
    <3>1. p = << >> /\ more = Begin(q)
      BY <1>1, <2>2, JoinedEmpty DEF more
    <3>2. << >> \o Begin(q) = Begin(q)
      BY <1>1, RoomBounds, ConcatEmptySeq
    <3> QED BY <1>2, <2>2, <3>1, <3>2
  <2>3. CASE ~enabled'
    <3>1. p = << >> /\ more = << >> /\ << >> \o << >> = << >>
      BY <2>3 DEF more
    <3> QED BY <1>2, <2>3, <3>1
  <2> QED BY <2>1, <2>2, <2>3
<1>4. more # << >> => pipeline' # << >>
  <2>1. p \in Seq(Batch) /\ more \in Seq(Batch)
    <3>1. CASE enabled
      BY <1>1, <3>1, Joined DEF more
    <3>2. CASE ~enabled
      <4>1. p = << >> /\ << >> \in Seq(Batch) /\ Begin(q) \in Seq(Batch)
        <5>1. Begin(q) \in Seq(Batch)
          BY <1>1, RoomBounds
        <5>2. p = << >> /\ << >> \in Seq(Batch)
          BY <3>2
        <5> QED BY <5>1, <5>2
      <4>2. more = << >> \/ more = Begin(q)
        BY <1>1, <4>1, JoinedEmpty DEF more
      <4> QED BY <4>1, <4>2
    <3> QED BY <3>1, <3>2
  <2> QED BY <1>2, <2>1, ConcatEqualIffEmpty
<1>5. /\ state \in {"Initial", "Starting", "Open", "Backoff", "Error"}
      /\ idle \in BOOLEAN /\ handshake \in BOOLEAN /\ enabled \in BOOLEAN
      /\ closeCount \in Nat /\ tokens \subseteq 0..closeCount
      /\ closeCount \in tokens <=> state = "Starting"
      /\ idle => state = "Open" /\ pipeline = << >> /\ handshake
      /\ enabled /\ pipeline # << >> => Started(state)
      /\ ~enabled => ~Started(state) /\ p = << >>
  BY DEF StreamOK, StoppedUnneeded, TokensFresh, StartedNeeded, NetworkOff
\* What FillWritePipeline does to the stream.
<1>6. \/ /\ enabled' /\ ~Started(state) /\ pipeline' # << >>
         /\ \/ state = "Error" /\ state' = "Backoff" /\ tokens' = tokens
            \/ /\ state # "Error" /\ state' = "Starting"
               /\ tokens' = tokens \cup {closeCount}
      \/ /\ ~(enabled' /\ ~Started(state) /\ pipeline' # << >>)
         /\ state' = state /\ tokens' = tokens
  BY <1>2 DEF StartIfNeeded
<1>7. p # << >> => pipeline' # << >>
  <2>1. CASE enabled
    <3>1. p # << >> => Room(q) # 0
      <4>1. Room(q) \in Nat
        BY <1>1, RoomBounds
      <4>2. m = 0 => p = << >>
        BY <2>1, SubSeqEmpty
      <4> QED BY <4>1, <4>2
    <3>2. Begin(q) = << >> => Room(q) = 0
      <4>1. Len(Begin(q)) = Room(q)
        BY <1>1, RoomBounds
      <4> QED BY <4>1
    <3> QED BY <1>1, <1>3, <2>1, <3>1, <3>2, RoomBounds
  <2>2. CASE ~enabled
    BY <2>2
  <2> QED BY <1>5, <2>1, <2>2
<1>8. idle' \in BOOLEAN /\ (idle' => state' = "Open" /\ pipeline' = << >>)
  <2>1. CASE state = "Open" /\ handshake' /\ more # << >>
    <3>1. idle' = FALSE
      BY <1>2, <1>4, <2>1
    <3> QED BY <3>1
  <2>2. CASE /\ ~(state = "Open" /\ handshake' /\ more # << >>)
             /\ enabled' /\ pipeline' = << >> /\ state = "Open"
    BY <1>2, <1>6, <2>2
  <2>3. CASE /\ ~(state = "Open" /\ handshake' /\ more # << >>)
             /\ ~(enabled' /\ pipeline' = << >> /\ state = "Open")
    <3>1. idle' = idle
      BY <1>2, <2>3
    <3>2. ~idle
      <4> SUFFICES ASSUME idle PROVE FALSE
        OBVIOUS
      <4>1. state = "Open" /\ handshake' /\ p = << >> /\ more = << >>
        BY <1>5, <2>3
      <4>2. pipeline' = << >>
        BY <1>2, <4>1
      <4>3. enabled
        BY <1>5, <4>1 DEF Started
      <4> QED BY <2>3, <4>1, <4>2, <4>3
    <3> QED BY <1>5, <3>1, <3>2
  <2> QED BY <2>1, <2>2, <2>3
<1>9. closeCount' \in tokens' <=> state' = "Starting"
  BY <1>5, <1>6 DEF Started
<1>10. tokens' \subseteq 0..closeCount'
  <2>1. closeCount' = closeCount /\ closeCount \in 0..closeCount
    BY <1>5
  <2>2. tokens' \subseteq tokens \cup {closeCount}
    BY <1>6
  <2> QED BY <1>5, <2>1, <2>2
<1>11. StartedNeeded'
  BY <1>5, <1>6, <1>7 DEF StartedNeeded, StreamOK, Started
<1>12. enabled' /\ pipeline' # << >> => Started(state')
  BY <1>6 DEF Started
<1>13. ~enabled' => ~Started(state')
  BY <1>5, <1>6
<1>14. state' \in {"Initial", "Starting", "Open", "Backoff", "Error"}
  BY <1>5, <1>6
<1> QED
  BY <1>3, <1>5, <1>8, <1>9, <1>10, <1>11, <1>12, <1>13, <1>14
  DEF StreamOK, StoppedUnneeded, TokensFresh, NetworkOff

\* What is known of the stream before a step that ends it.
LEMMA Before ==
    ASSUME StreamOK
    PROVE  /\ closeCount \in Nat /\ tokens \subseteq 0..closeCount
           /\ closeCount + 1 \in Nat /\ closeCount + 1 \notin tokens
           /\ tokens \subseteq 0..(closeCount + 1)
           /\ closeCount \in tokens <=> state = "Starting"
<1>1. closeCount \in Nat /\ tokens \subseteq 0..closeCount
  BY DEF StreamOK
<1>2. closeCount + 1 \notin 0..closeCount /\ closeCount + 1 \in Nat
      /\ \A t \in 0..closeCount : t \in 0..(closeCount + 1)
  BY <1>1
<1> QED BY <1>1, <1>2 DEF StreamOK, TokensFresh

\* A stream that is not up is started for a pipeline of the present queue.
LEMMA StartedAnew ==
    ASSUME QueuesOK', closing' \in {Nothing, "read", "writing"},
           enabled' = TRUE, handshake' \in BOOLEAN, idle' = FALSE,
           closeCount' \in Nat, NEW ts, ts \subseteq 0..closeCount', closeCount' \notin ts,
           pipeline' = Begin(queue'[user']),
           IF pipeline' = << >> THEN state' \in {"Initial", "Error"} /\ tokens' = ts
           ELSE \/ state' = "Backoff" /\ tokens' = ts
                \/ state' = "Starting" /\ tokens' = ts \cup {closeCount'}
    PROVE  StreamOK'
<1>1. tokens' \subseteq 0..closeCount'
  <2>1. closeCount' \in 0..closeCount' /\ tokens' \subseteq ts \cup {closeCount'}
    OBVIOUS
  <2> QED BY <2>1
<1>2. closeCount' \in tokens' <=> state' = "Starting"
  OBVIOUS
<1> QED BY <1>1, <1>2 DEF StreamOK, StoppedUnneeded, TokensFresh, StartedNeeded, NetworkOff, Started

\* RestartNetwork.
LEMMA NetworkRestarted ==
    ASSUME QueuesOK', StreamOK, RestartNetwork
    PROVE  StreamOK'
<1>1. Ordered(queue'[user'])
  BY DEF QueuesOK, Numbered
<1>2. pipeline' = Begin(queue'[user'])
  BY <1>1, JoinedEmpty DEF RestartNetwork
<1>3. /\ closing' = Nothing /\ enabled' = TRUE /\ handshake' = FALSE /\ idle' = FALSE
      /\ closeCount' = closeCount + (IF Started(state) THEN 1 ELSE 0)
      /\ StartIfNeeded(pipeline', "Initial")
  BY <1>2 DEF RestartNetwork, StopStream
<1>4. closeCount' \in Nat /\ tokens \subseteq 0..closeCount' /\ closeCount' \notin tokens
  BY <1>3, Before DEF Started
<1>5. IF pipeline' = << >> THEN state' = "Initial" /\ tokens' = tokens
      ELSE state' = "Starting" /\ tokens' = tokens \cup {closeCount'}
  BY <1>3 DEF StartIfNeeded, Started
<1> QED BY <1>2, <1>3, <1>4, <1>5, StartedAnew

\* The stream ends with an error.
LEMMA Closed ==
    ASSUME QueuesOK, StreamOK, state = "Open", NEW status, CloseWith(status),
           UNCHANGED issued
    PROVE  QueuesOK' /\ StreamOK'
<1>1. /\ enabled /\ enabled' = TRUE /\ user' = user /\ nextId' = nextId
      /\ closing' = Nothing /\ handshake' = FALSE /\ idle' = FALSE
      /\ closeCount' = closeCount + 1
      /\ pipeline = Begin(queue[user])
  BY DEF CloseWith, StreamOK, NetworkOff, Started
<1>2. Ordered(queue[user]) /\ queue[user] \in Seq(Batch)
  BY PresentQueue
<1>3. /\ QueuesOK' /\ pipeline' = Begin(queue'[user'])
      /\ StartIfNeeded(pipeline', "Initial") \/ StartIfNeeded(pipeline', "Error")
  <2>1. CASE IsPermanentWriteError(status) /\ handshake /\ pipeline # << >>
    <3>1. queue[user] # << >>
      BY <1>1, <1>2, <2>1, RoomBounds
    <3>2. /\ Head(pipeline) = Head(queue[user])
          /\ Tail(pipeline) = SubSeq(Tail(queue[user]), 1, Room(queue[user]) - 1)
          /\ Room(queue[user]) - 1 \in 0..Room(Tail(queue[user]))
          /\ Ordered(Tail(queue[user]))
      BY <1>1, <1>2, <3>1, HeadLeaves
    <3>3. /\ Settle(Head(queue[user]), FALSE)
          /\ pipeline' = Tail(pipeline) \o Joining(Tail(pipeline), queue'[user])
          /\ StartIfNeeded(pipeline', "Initial")
      BY <2>1, <3>2 DEF CloseWith
    <3>4. QueuesOK' /\ queue'[user'] = Tail(queue[user])
      BY <1>1, <3>1, <3>3, HeadSettled
    <3>5. pipeline' = Begin(Tail(queue[user]))
      BY <1>1, <3>2, <3>3, <3>4, Joined
    <3> QED BY <3>3, <3>4, <3>5
  <2>2. CASE ~(IsPermanentWriteError(status) /\ handshake /\ pipeline # << >>)
    <3>1. /\ UNCHANGED <<queue, callbacks, pipeline>>
          /\ StartIfNeeded(pipeline', "Error")
      BY <2>2 DEF CloseWith
    <3>2. QueuesOK'
      BY <1>1, <3>1, QueuesKept
    <3> QED BY <1>1, <3>1, <3>2
  <2> QED BY <2>1, <2>2
<1>4. IF pipeline' = << >> THEN state' \in {"Initial", "Error"} /\ tokens' = tokens
      ELSE \/ state' = "Backoff" /\ tokens' = tokens
           \/ state' = "Starting" /\ tokens' = tokens \cup {closeCount'}
  BY <1>1, <1>3 DEF StartIfNeeded, Started
<1>5. closeCount' \in Nat /\ tokens \subseteq 0..closeCount' /\ closeCount' \notin tokens
  BY <1>1, Before
<1> QED BY <1>1, <1>3, <1>4, <1>5, StartedAnew

-----------------------------------------------------------------------------
(* The steps                                                               *)

\* Both parts.
PartsOK == QueuesOK /\ StreamOK

\* Steps that leave all of it alone: waiting, the server, the main thread.
LEMMA QuietSteps ==
    ASSUME PartsOK,
           \/ WaitForPendingWrites \/ ServerHandshake \/ ServerApplies
           \/ ServerRefuses \/ RunHandler
    PROVE  PartsOK'
<1>1. closing' \in {Nothing, "read", "writing"}
  BY DEF PartsOK, StreamOK, WaitForPendingWrites, ServerHandshake, ServerApplies,
         ServerRefuses, RunHandler, streamVars
<1>2. UNCHANGED <<enabled, streamVars, pipeline, user, queue, nextId, callbacks, issued>>
  BY DEF WaitForPendingWrites, ServerHandshake, ServerApplies, ServerRefuses, RunHandler,
         storeVars
<1> QED BY <1>1, <1>2, QueuesKept, StreamKept DEF PartsOK

\* A write is issued: the pipeline takes it if there is room.
LEMMA StepWriteMutations == PartsOK /\ WriteMutations => PartsOK'
<1> SUFFICES ASSUME PartsOK, WriteMutations PROVE PartsOK'
  OBVIOUS
<1> DEFINE q == queue[user]
<1>1. /\ QueuesOK' /\ Begin(q) = SubSeq(queue'[user'], 1, Room(q))
      /\ Room(q) \in 0..Room(queue'[user'])
  BY WriteQueued DEF PartsOK
<1>2. /\ UNCHANGED <<enabled, closeCount, handshake, user, closing>>
      /\ FillWritePipeline(pipeline, queue'[user'], state)
  <2>1. user \in DOMAIN queue
    BY DEF PartsOK, QueuesOK
  <2> QED BY <2>1 DEF WriteMutations
<1>3. /\ closing' \in {Nothing, "read", "writing"} /\ enabled' \in BOOLEAN
      /\ pipeline = IF enabled THEN SubSeq(queue'[user'], 1, Room(q)) ELSE << >>
  BY <1>1, <1>2 DEF PartsOK, StreamOK
<1> QED BY <1>1, <1>2, <1>3, Filled DEF PartsOK

\* Another account signs in, or the same gets a new token.
LEMMA StepCredentialChange ==
    ASSUME NEW u \in User, PartsOK, HandleCredentialChange(u)
    PROVE  PartsOK'
<1>1. QueuesOK'
  <2>1. CASE u = user
    BY <2>1, QueuesKept DEF HandleCredentialChange, PartsOK
  <2>2. CASE u # user
    <3>1. callbacks' \in [User -> SUBSET Batch]
      BY DEF HandleCredentialChange, PartsOK, QueuesOK
    <3> QED BY <2>2, <3>1, QueuesOpened DEF HandleCredentialChange, PartsOK
  <2> QED BY <2>1, <2>2
<1>2. CASE enabled
  BY <1>1, <1>2, NetworkRestarted DEF HandleCredentialChange, PartsOK
<1>3. CASE ~enabled
  <2>1. UNCHANGED <<enabled, streamVars, pipeline, closing>>
    BY <1>3 DEF HandleCredentialChange
  <2> QED
    BY <1>1, <1>3, <2>1
    DEF PartsOK, StreamOK, streamVars, StoppedUnneeded, TokensFresh, StartedNeeded,
        NetworkOff, Started
<1> QED BY <1>2, <1>3

\* The network: reported, disabled, enabled.
LEMMA StepNetwork ==
    ASSUME PartsOK, ConnectivityChanged \/ DisableNetwork \/ EnableNetwork
    PROVE  PartsOK'
<1>1. QueuesOK'
  BY QueuesKept DEF PartsOK, ConnectivityChanged, DisableNetwork, EnableNetwork, storeVars
<1>2. CASE ConnectivityChanged
  BY <1>1, <1>2, NetworkRestarted DEF ConnectivityChanged, PartsOK
<1>3. CASE DisableNetwork
  <2>1. /\ enabled' = FALSE /\ handshake' = FALSE /\ idle' = FALSE /\ closing' = Nothing
        /\ pipeline' = << >> /\ tokens' = tokens
        /\ closeCount' = closeCount + (IF Started(state) THEN 1 ELSE 0)
        /\ state' = IF Started(state) THEN "Initial" ELSE state
    BY <1>3 DEF DisableNetwork, StopStream
  <2>2. closeCount' \in Nat /\ tokens' \subseteq 0..closeCount' /\ closeCount' \notin tokens'
    BY <2>1, Before DEF PartsOK, Started
  <2>3. ~Started(state') /\ state' \in {"Initial", "Starting", "Open", "Backoff", "Error"}
    BY <2>1 DEF PartsOK, StreamOK, Started
  <2> QED
    BY <1>1, <2>1, <2>2, <2>3
    DEF PartsOK, StreamOK, StoppedUnneeded, TokensFresh, StartedNeeded, NetworkOff, Started
<1>4. CASE EnableNetwork
  <2> DEFINE m == IF enabled THEN Room(queue[user]) ELSE 0
  <2>1. /\ UNCHANGED <<closeCount, handshake, closing, user, queue>> /\ enabled' = TRUE
        /\ FillWritePipeline(pipeline, queue'[user'], state)
    BY <1>4 DEF EnableNetwork, storeVars
  <2>2. m \in 0..Room(queue'[user'])
    <3>1. Room(queue[user]) \in Nat
      BY PresentQueue, RoomBounds DEF PartsOK
    <3> QED BY <2>1, <3>1
  <2>3. /\ closing' \in {Nothing, "read", "writing"}
        /\ pipeline = IF enabled THEN SubSeq(queue'[user'], 1, m) ELSE << >>
    BY <2>1 DEF PartsOK, StreamOK, Begin
  <2> HIDE DEF m
  <2> QED BY <1>1, <2>1, <2>2, <2>3, Filled DEF PartsOK
<1> QED BY <1>2, <1>3, <1>4

\* A token arrives or cannot be had, or the delay before the next is over.
LEMMA StepToken ==
    ASSUME PartsOK,
           (\E c \in tokens : ResumeStartWithCredentials(c)) \/ TokenFails \/ BackoffElapsed
    PROVE  PartsOK'
<1>1. UNCHANGED <<user, queue, nextId, callbacks, issued, enabled, pipeline, closing>>
  BY DEF ResumeStartWithCredentials, TokenFails, BackoffElapsed, storeVars
<1>2. QueuesOK'
  BY <1>1, QueuesKept DEF PartsOK
<1> USE DEF PartsOK, StreamOK, StoppedUnneeded, TokensFresh, StartedNeeded, NetworkOff, Started
<1>3. ASSUME NEW c \in tokens, ResumeStartWithCredentials(c) PROVE StreamOK'
  <2>1. UNCHANGED <<closeCount, handshake>> /\ tokens' = tokens \ {c}
    BY <1>3 DEF ResumeStartWithCredentials
  <2>2. CASE c # closeCount
    <3>1. UNCHANGED <<state, idle>>
      BY <1>3, <2>2 DEF ResumeStartWithCredentials
    <3> QED BY <1>1, <2>1, <2>2, <3>1
  <2>3. CASE c = closeCount
    <3>1. state' = "Open" /\ idle' = FALSE /\ state = "Starting"
      BY <1>3, <2>3 DEF ResumeStartWithCredentials
    <3> QED BY <1>1, <2>1, <2>3, <3>1
  <2> QED BY <2>2, <2>3
<1>4. CASE TokenFails
  <2>1. /\ state = "Starting" /\ closeCount' = closeCount + 1
        /\ handshake' = FALSE /\ idle' = FALSE /\ tokens' = tokens \ {closeCount}
        /\ state' = IF pipeline # << >> THEN "Backoff" ELSE "Error"
    BY <1>4 DEF TokenFails
  <2>2. closeCount' \in Nat /\ tokens' \subseteq 0..closeCount' /\ closeCount' \notin tokens'
    BY <2>1, Before
  <2>3. /\ enabled' = TRUE /\ pipeline' = Begin(queue'[user'])
        /\ closing' \in {Nothing, "read", "writing"}
    BY <1>1, <2>1
  <2> HIDE DEF StreamOK
  <2> QED BY <1>1, <1>2, <2>1, <2>2, <2>3, StartedAnew
<1>5. CASE BackoffElapsed
  <2>1. /\ state = "Backoff" /\ state' = "Starting" /\ tokens' = tokens \cup {closeCount}
        /\ UNCHANGED <<closeCount, handshake, idle>>
    BY <1>5 DEF BackoffElapsed
  <2>2. /\ tokens \subseteq 0..closeCount' /\ closeCount' \notin tokens /\ closeCount' \in Nat
        /\ idle' = FALSE /\ handshake' \in BOOLEAN /\ pipeline' # << >>
        /\ enabled' = TRUE /\ pipeline' = Begin(queue'[user'])
        /\ closing' \in {Nothing, "read", "writing"}
    BY <1>1, <2>1
  <2> HIDE DEF StreamOK
  <2> QED BY <1>1, <1>2, <2>1, <2>2, StartedAnew
<1> QED BY <1>2, <1>3, <1>4, <1>5

\* The handshake is answered.
LEMMA StepHandshake == PartsOK /\ HandshakeComplete => PartsOK'
<1> SUFFICES ASSUME PartsOK, HandshakeComplete PROVE PartsOK'
  OBVIOUS
<1>1. /\ UNCHANGED <<user, queue, nextId, callbacks, issued, enabled, pipeline, closing,
                     closeCount, tokens, state>>
      /\ handshake' = TRUE /\ idle' = (idle /\ pipeline = << >>)
  BY DEF HandshakeComplete, storeVars
<1>2. QueuesOK'
  BY <1>1, QueuesKept DEF PartsOK
<1> QED
  BY <1>1, <1>2
  DEF PartsOK, StreamOK, StoppedUnneeded, TokensFresh, StartedNeeded, NetworkOff, Started

\* A write is answered: the batch leaves the pipeline and the disk, and the
\* next one joins.
LEMMA StepMutationResult == PartsOK /\ MutationResult => PartsOK'
<1> SUFFICES ASSUME PartsOK, MutationResult PROVE PartsOK'
  OBVIOUS
<1> DEFINE q == queue[user]
<1>1. /\ handshake /\ state = "Open" /\ pipeline # << >>
      /\ UNCHANGED <<user, nextId, closing, enabled, closeCount, handshake, issued>>
      /\ Settle(Head(pipeline), TRUE)
      /\ FillWritePipeline(Tail(pipeline), queue'[user], state)
  BY DEF MutationResult, Answered
<1>2. enabled /\ pipeline = Begin(q) /\ Ordered(q) /\ q \in Seq(Batch)
  BY <1>1, PresentQueue DEF PartsOK, StreamOK, NetworkOff, Started
<1>3. q # << >>
  BY <1>1, <1>2, RoomBounds
<1>4. /\ Head(pipeline) = Head(q)
      /\ Tail(pipeline) = SubSeq(Tail(q), 1, Room(q) - 1)
      /\ Room(q) - 1 \in 0..Room(Tail(q))
  BY <1>2, <1>3, HeadLeaves
<1>5. QueuesOK' /\ queue'[user'] = Tail(q)
  BY <1>1, <1>3, <1>4, HeadSettled DEF PartsOK
<1>6. /\ closing' \in {Nothing, "read", "writing"} /\ enabled' \in BOOLEAN
      /\ Tail(pipeline) = IF enabled THEN SubSeq(queue'[user'], 1, Room(q) - 1) ELSE << >>
      /\ Room(q) - 1 \in 0..Room(queue'[user'])
      /\ FillWritePipeline(Tail(pipeline), queue'[user'], state)
  BY <1>1, <1>2, <1>4, <1>5 DEF PartsOK, StreamOK
<1> QED BY <1>1, <1>2, <1>5, <1>6, Filled DEF PartsOK

\* The stream ends with a status, with a break or with the idle timer.
LEMMA StepEnds ==
    ASSUME PartsOK, StreamClosed \/ ConnectionBreaks \/ IdleTimeout
    PROVE  PartsOK'
<1>1. CASE StreamClosed
  BY <1>1, Closed DEF StreamClosed, PartsOK
<1>2. CASE ConnectionBreaks
  BY <1>2, Closed DEF ConnectionBreaks, PartsOK
<1>3. CASE IdleTimeout
  <2>1. /\ state = "Open" /\ pipeline = << >> /\ enabled
        /\ UNCHANGED <<user, queue, nextId, callbacks, issued, enabled, pipeline>>
        /\ closeCount' = closeCount + 1 /\ handshake' = FALSE /\ closing' = Nothing
        /\ idle' = FALSE /\ StartIfNeeded(pipeline, "Initial")
    BY <1>3 DEF IdleTimeout, StopStream, storeVars, PartsOK, StreamOK, StoppedUnneeded,
                NetworkOff, Started
  <2>2. state' = "Initial" /\ tokens' = tokens
    BY <2>1 DEF StartIfNeeded
  <2>3. closeCount' \in Nat /\ tokens' \subseteq 0..closeCount' /\ closeCount' \notin tokens'
    BY <2>1, <2>2, Before DEF PartsOK
  <2>4. QueuesOK'
    BY <2>1, QueuesKept DEF PartsOK
  <2> QED
    BY <2>1, <2>2, <2>3, <2>4
    DEF PartsOK, StreamOK, StoppedUnneeded, TokensFresh, StartedNeeded, NetworkOff, Started
<1> QED BY <1>1, <1>2, <1>3

\* The process starts again with the queues on disk.
LEMMA StepRestart == PartsOK /\ Restart => PartsOK'
<1> SUFFICES ASSUME PartsOK, Restart PROVE PartsOK'
  OBVIOUS
<1> DEFINE more == Joining(<< >>, queue[user])
<1>1. /\ UNCHANGED <<user, queue, issued>> /\ nextId' = LoadNextBatchId(queue)
      /\ callbacks' = [u \in User |-> {}] /\ closing' = Nothing
      /\ enabled' = TRUE /\ closeCount' = 0 /\ handshake' = FALSE /\ idle' = FALSE
      /\ pipeline' = more
      /\ state' = IF more = << >> THEN "Initial" ELSE "Starting"
      /\ tokens' = IF more = << >> THEN {} ELSE {0}
  BY DEF Restart
<1>2. more = Begin(queue[user])
  BY PresentQueue, JoinedEmpty DEF PartsOK
<1>3. QueuesOK'
  <2>1. callbacks' \in [User -> SUBSET Batch] /\ user' \in User
    BY <1>1 DEF PartsOK, QueuesOK
  <2> QED BY <1>1, <2>1, QueuesOpened DEF PartsOK
<1>4. StreamOK'
  <2>1. pipeline' = Begin(queue'[user'])
    BY <1>1, <1>2
  <2> DEFINE none == {}
  <2>2. /\ none \subseteq 0..closeCount' /\ closeCount' \notin none /\ closeCount' \in Nat
        /\ none \cup {closeCount'} = {0}
    BY <1>1
  <2>3. IF pipeline' = << >> THEN state' = "Initial" /\ tokens' = none
        ELSE state' = "Starting" /\ tokens' = none \cup {closeCount'}
    BY <1>1, <2>2
  <2> HIDE DEF none
  <2> QED BY <1>1, <1>3, <2>1, <2>2, <2>3, StartedAnew
<1> QED BY <1>3, <1>4 DEF PartsOK

-----------------------------------------------------------------------------
(* The theorems                                                            *)

\* Every step of the client keeps both parts.
LEMMA NextOK ==
    ASSUME PartsOK, [Next]_vars
    PROVE  PartsOK'
<1>1. CASE WriteMutations
  BY <1>1, StepWriteMutations
<1>2. CASE \/ WaitForPendingWrites \/ ServerHandshake \/ ServerApplies
           \/ ServerRefuses \/ RunHandler
  BY <1>2, QuietSteps
<1>3. CASE \E u \in User : HandleCredentialChange(u)
  BY <1>3, StepCredentialChange
<1>4. CASE ConnectivityChanged \/ DisableNetwork \/ EnableNetwork
  BY <1>4, StepNetwork
<1>5. CASE (\E c \in tokens : ResumeStartWithCredentials(c)) \/ TokenFails \/ BackoffElapsed
  BY <1>5, StepToken
<1>6. CASE HandshakeComplete
  BY <1>6, StepHandshake
<1>7. CASE MutationResult
  BY <1>7, StepMutationResult
<1>8. CASE StreamClosed \/ ConnectionBreaks \/ IdleTimeout
  BY <1>8, StepEnds
<1>9. CASE Restart
  BY <1>9, StepRestart
<1>10. CASE UNCHANGED vars
  <2>1. /\ UNCHANGED <<enabled, streamVars, pipeline, user, queue, nextId, callbacks, issued>>
        /\ closing' = closing
    BY <1>10 DEF vars, storeVars
  <2>2. closing' \in {Nothing, "read", "writing"}
    BY <2>1 DEF PartsOK, StreamOK
  <2> QED BY <2>1, <2>2, QueuesKept, StreamKept DEF PartsOK
<1> QED
  BY <1>1, <1>2, <1>3, <1>4, <1>5, <1>6, <1>7, <1>8, <1>9, <1>10 DEF Next

\* The strengthened invariant holds of every behaviour of the client, for any
\* accounts, any window and any number of writes, calls and faults: queues in
\* the order of their ids, ids below the counter they are loaded into
\* (LoadNextBatchIdFromDb), a stream on its way up only for something to send.
THEOREM Inductive == Spec => []IInv
<1>1. Init => PartsOK
  BY InitOK DEF PartsOK
<1>2. PartsOK /\ [Next]_vars => PartsOK'
  BY NextOK
<1>3. PartsOK => IInv
  BY Parts DEF PartsOK
<1> QED BY <1>1, <1>2, <1>3, PTL DEF Spec

\* The pipeline is always the beginning of the present account's queue, no
\* stream is stopped while it is needed, and no token reaches a stream that
\* does not wait for it (FillWritePipeline, OnWriteStreamClose,
\* ResumeStartWithCredentials).
THEOREM StreamCorrect == Spec => []StreamSound
<1>1. IInv => StreamSound
  BY DEF IInv
<1> QED BY <1>1, Inductive, PTL

-----------------------------------------------------------------------------
(* What is on the wire                                                     *)

Request ==
    [kind : {"handshake"}, user : User, stream : Nat]
        \cup [kind : {"write"}, write : 1..MaxWrites, stream : Nat]

\* The answer to a write.
Answer == [kind : {"result"}, write : 1..MaxWrites]

\* The streams in their order, each with its handshake first.
WireOrdered ==
    /\ wire \in Seq(Request)
    /\ \A i \in 1..Len(wire) : wire[i].stream <= closeCount
    /\ \A i, j \in 1..Len(wire) : i < j => wire[i].stream <= wire[j].stream
    /\ \A i, j \in 1..Len(wire) : i < j /\ wire[j].kind = "handshake" =>
          wire[i].stream < wire[j].stream
    /\ \A i \in 2..Len(wire) : wire[i].kind = "write" => wire[i - 1].stream = wire[i].stream

\* The requests behind the h-th, a handshake, up to the i-th are writes; h is
\* 0 where the handshake is one that the server has seen.
Behind(h, i) ==
    /\ h \in 0..i - 1
    /\ h > 0 => wire[h].kind = "handshake"
    /\ \A j \in h + 1..i : wire[j].kind = "write"

\* The write i is then the one of that number in the queue of that account.
Sender(h) == IF h = 0 THEN server.user ELSE wire[h].user
Number(h, i) == (IF h = 0 THEN server.applied ELSE 0) + i - h
Meets(h, i) ==
    /\ Number(h, i) \in 1..Len(queue[Sender(h)])
    /\ Number(h, i) <= Window
    /\ wire[i].write = queue[Sender(h)][Number(h, i)].write
WireMatches == \A i \in 1..Len(wire) : \A h \in 0..i - 1 : Behind(h, i) => Meets(h, i)

ServerOK == server \in [user : User, applied : 0..Window]

\* The stream is not open: nothing of it is under way.
Unopened ==
    /\ ~handshake /\ answers = << >> /\ closing = Nothing
    /\ \A i \in 1..Len(wire) : wire[i].stream < closeCount

\* It is open and has asked for the handshake; it is answered; it writes.
Asked ==
    /\ ~handshake /\ answers = << >> /\ closing = Nothing
    /\ Len(wire) > 0
    /\ wire[Len(wire)] = [kind |-> "handshake", user |-> user, stream |-> closeCount]
Greeted ==
    /\ ~handshake /\ answers = << [kind |-> "handshake", write |-> 0] >> /\ closing = Nothing
    /\ wire = << >>
    /\ server.user = user /\ server.applied = 0
Writing ==
    /\ handshake
    /\ answers \in Seq(Answer)
    /\ server.user = user /\ server.applied = Len(answers)
    /\ Len(answers) <= Len(pipeline)
    /\ \A i \in 1..Len(answers) : answers[i].write = pipeline[i].write
    /\ \A i \in 1..Len(wire) : wire[i].kind = "write" /\ wire[i].stream = closeCount
    /\ IF closing = Nothing THEN Len(answers) + Len(wire) = Len(pipeline)
       ELSE wire = << >> /\ Len(answers) < Len(pipeline)

OpenOK == IF state = "Open" THEN Asked \/ Greeted \/ Writing ELSE Unopened

WireOK == WireOrdered /\ WireMatches /\ ServerOK /\ OpenOK

-----------------------------------------------------------------------------
(* The wire                                                                *)

\* What a request is.
LEMMA Requests ==
    ASSUME NEW q \in Seq(Request)
    PROVE  /\ Len(q) \in Nat
           /\ \A i \in 1..Len(q) : /\ q[i] \in Request /\ q[i].stream \in Nat
                                   /\ q[i].kind \in {"handshake", "write"}
                                   /\ q[i].kind = "handshake" => q[i].user \in User
                                   /\ q[i].kind = "write" => q[i].write \in 1..MaxWrites
<1>1. Len(q) \in Nat /\ \A i \in 1..Len(q) : q[i] \in Request
  OBVIOUS
<1>2. ASSUME NEW r \in Request
      PROVE  /\ r.stream \in Nat /\ r.kind \in {"handshake", "write"}
             /\ r.kind = "handshake" => r.user \in User
             /\ r.kind = "write" => r.write \in 1..MaxWrites
  BY <1>2 DEF Request
<1> QED BY <1>1, <1>2

\* A stream that ends may lose the last of its requests.
LEMMA WireCut ==
    ASSUME WireOrdered, WireMatches, NEW n \in 0..Len(wire), wire' = SubSeq(wire, 1, n),
           UNCHANGED <<server, queue>>, closeCount \in Nat, closeCount' \in Nat,
           closeCount' >= closeCount
    PROVE  /\ WireOrdered' /\ WireMatches'
           /\ Len(wire') = n /\ \A i \in 1..n : wire'[i] = wire[i]
<1>1. wire \in Seq(Request) /\ Len(wire) \in Nat /\ n \in Nat /\ n <= Len(wire)
  BY DEF WireOrdered
<1>2. \A i \in 1..n : i \in 1..Len(wire) /\ wire[i] \in Request
  BY <1>1
<1>3. wire' \in Seq(Request) /\ Len(wire') = n /\ \A i \in 1..n : wire'[i] = wire[i]
  BY <1>1, <1>2, SubSeqProperties
<1>4. WireOrdered'
  <2>1. \A i \in 1..n : wire'[i].stream <= closeCount'
    BY <1>1, <1>2, <1>3, Requests DEF WireOrdered
  <2>2. \A i \in 2..n : i \in 2..Len(wire) /\ i - 1 \in 1..n /\ i \in 1..n
    BY <1>1
  <2> QED BY <1>2, <1>3, <2>1, <2>2 DEF WireOrdered
<1>5. WireMatches'
  <2> SUFFICES ASSUME NEW i \in 1..n, NEW h \in 0..i - 1, Behind(h, i)' PROVE Meets(h, i)'
    BY <1>3 DEF WireMatches
  <2>1. h > 0 => h \in 1..n /\ wire'[h] = wire[h]
    BY <1>1, <1>3
  <2>2. \A j \in h + 1..i : j \in 1..n /\ wire'[j] = wire[j]
    BY <1>1, <1>3
  <2>3. Behind(h, i)
    BY <2>1, <2>2 DEF Behind
  <2>4. i \in 1..Len(wire) /\ Meets(h, i)
    BY <1>2, <2>3 DEF WireMatches
  <2> QED BY <1>3, <2>1, <2>4 DEF Meets, Number, Sender
<1> QED BY <1>3, <1>4, <1>5

\* One place back in a segment.
LEMMA StepBack ==
    ASSUME NEW h \in Nat, NEW i \in Nat, NEW j \in h + 2..i + 1
    PROVE  /\ j - 1 \in h + 1..i /\ (j - 1) + 1 = j
           /\ \A n \in Nat : i <= n => j - 1 \in 1..n
OBVIOUS

\* The server reads the first request.
LEMMA HeadServed ==
    ASSUME WireOrdered, WireMatches, ServerOK, wire # << >>, wire' = Tail(wire),
           UNCHANGED <<queue, closeCount>>, queue \in [User -> Seq(Batch)],
           \/ /\ wire[1].kind = "handshake"
              /\ server' = [user |-> wire[1].user, applied |-> 0]
           \/ /\ wire[1].kind = "write"
              /\ server' = [server EXCEPT !.applied = @ + 1]
    PROVE  /\ WireOrdered' /\ WireMatches' /\ ServerOK'
           /\ Len(wire') = Len(wire) - 1
           /\ \A i \in 1..Len(wire') : i + 1 \in 1..Len(wire) /\ wire'[i] = wire[i + 1]
           /\ wire[1].kind = "write" =>
                 /\ server.applied + 1 \in 1..Len(queue[server.user])
                 /\ server.applied < Window
                 /\ wire[1].write = queue[server.user][server.applied + 1].write
<1> USE BoundsAssumption
<1>1. /\ wire \in Seq(Request) /\ Len(wire) \in Nat /\ Len(wire) > 0
      /\ server.user \in User /\ server.applied \in 0..Window
      /\ server = [user |-> server.user, applied |-> server.applied]
  BY DEF WireOrdered, ServerOK
<1>2. /\ wire' \in Seq(Request) /\ Len(wire') = Len(wire) - 1
      /\ \A i \in 1..Len(wire') : wire'[i] = wire[i + 1]
  BY <1>1, HeadTailProperties
<1>3. \A i \in 1..Len(wire') : i + 1 \in 1..Len(wire) /\ i + 1 \in 2..Len(wire)
  BY <1>1, <1>2
<1>4. WireOrdered'
  <2>1. \A i \in 2..Len(wire') : i + 1 \in 2..Len(wire) /\ i - 1 \in 1..Len(wire')
                                 /\ (i + 1) - 1 = (i - 1) + 1 /\ i \in 1..Len(wire')
    <3>1. Len(wire) \in Nat /\ Len(wire') = Len(wire) - 1
      BY <1>1, <1>2
    <3> QED BY <3>1
  <2>2. \A i \in 2..Len(wire') : wire'[i].kind = "write" => wire'[i - 1].stream = wire'[i].stream
    BY <1>2, <2>1 DEF WireOrdered
  <2>3. \A i, j \in 1..Len(wire') : i < j => i + 1 < j + 1
    OBVIOUS
  <2> QED BY <1>2, <1>3, <2>2, <2>3 DEF WireOrdered
<1>5. wire[1].kind = "write" => Meets(0, 1)
  <2> SUFFICES ASSUME wire[1].kind = "write" PROVE Meets(0, 1)
    OBVIOUS
  <2>1. 1 \in 1..Len(wire) /\ 0 \in 0..1 - 1
    BY <1>1
  <2>2. \A j \in 0 + 1..1 : j = 1
    OBVIOUS
  <2>3. Behind(0, 1)
    BY <2>1, <2>2 DEF Behind
  <2> QED BY <2>1, <2>3 DEF WireMatches
<1>6. wire[1].kind = "write" =>
         /\ server.applied + 1 \in 1..Len(queue[server.user]) /\ server.applied < Window
         /\ wire[1].write = queue[server.user][server.applied + 1].write
  <2>1. Number(0, 1) = server.applied + 1 /\ Sender(0) = server.user
    BY <1>1 DEF Number, Sender
  <2> QED BY <1>1, <1>5, <2>1 DEF Meets
<1>7. ServerOK'
  <2>1. CASE wire[1].kind = "handshake" /\ server' = [user |-> wire[1].user, applied |-> 0]
    <3>1. 1 \in 1..Len(wire) /\ 0 \in 0..Window
      BY <1>1
    <3>2. wire[1].user \in User
      BY <1>1, <2>1, <3>1, Requests
    <3> QED BY <2>1, <3>1, <3>2 DEF ServerOK
  <2>2. CASE wire[1].kind = "write" /\ server' = [server EXCEPT !.applied = @ + 1]
    <3>1. server.applied + 1 \in 0..Window
      BY <1>1, <1>6, <2>2
    <3> QED BY <1>1, <2>2, <3>1 DEF ServerOK
  <2> QED BY <2>1, <2>2
<1>8. WireMatches'
  <2> SUFFICES ASSUME NEW i \in 1..Len(wire'), NEW h \in 0..i - 1, Behind(h, i)' PROVE Meets(h, i)'
    BY DEF WireMatches
  <2>0. i \in Nat /\ h \in Nat /\ h < i /\ i + 1 \in 1..Len(wire) /\ wire'[i] = wire[i + 1]
    BY <1>1, <1>2, <1>3
  <2>1. \A j \in h + 2..i + 1 : wire[j].kind = "write"
    <3> TAKE j \in h + 2..i + 1
    <3>1. /\ j - 1 \in h + 1..i /\ (j - 1) + 1 = j
          /\ \A n \in Nat : i <= n => j - 1 \in 1..n
      BY <2>0, StepBack
    <3>2. Len(wire') \in Nat /\ i <= Len(wire')
      BY <1>2
    <3> QED BY <1>2, <3>1, <3>2 DEF Behind
  <2>2. CASE h > 0 \/ wire[1].kind = "handshake"
    <3>1. Behind(h + 1, i + 1)
      <4>1. wire[h + 1].kind = "handshake"
        <5>1. CASE h > 0
          <6>1. h \in 1..Len(wire')
            BY <2>0, <1>1, <1>2, <5>1
          <6> QED BY <1>2, <5>1, <6>1 DEF Behind
        <5>2. CASE h = 0
          BY <2>2, <5>2
        <5> QED BY <2>0, <5>1, <5>2
      <4>2. h + 1 \in 0..(i + 1) - 1
        BY <2>0
      <4>3. (h + 1) + 1 = h + 2
        BY <2>0
      <4> QED BY <2>1, <4>1, <4>2, <4>3 DEF Behind
    <3>2. Meets(h + 1, i + 1)
      <4>1. h + 1 \in 0..(i + 1) - 1
        BY <2>0
      <4> QED BY <2>0, <3>1, <4>1 DEF WireMatches
    <3>3. Sender(h + 1) = wire[h + 1].user /\ Number(h + 1, i + 1) = i - h
      <4>1. i \in Nat /\ h \in Nat
        BY <2>0
      <4>2. \A a, b \in Nat : b + 1 # 0 /\ 0 + (a + 1) - (b + 1) = a - b
        OBVIOUS
      <4> QED BY <4>1, <4>2 DEF Sender, Number
    <3>4. Sender(h)' = wire[h + 1].user /\ Number(h, i)' = i - h
      <4>1. CASE h > 0
        <5>1. h \in 1..Len(wire')
          BY <1>1, <1>2, <2>0, <4>1
        <5> QED BY <1>2, <2>0, <4>1, <5>1 DEF Sender, Number
      <4>2. CASE h = 0
        <5>1. server'.user = wire[1].user /\ server'.applied = 0
          BY <2>2, <4>2
        <5> QED BY <2>0, <4>2, <5>1 DEF Sender, Number
      <4> QED BY <2>0, <4>1, <4>2
    <3> QED BY <2>0, <3>2, <3>3, <3>4 DEF Meets
  <2>3. CASE h = 0 /\ wire[1].kind = "write"
    <3>1. Behind(0, i + 1)
      <4>1. \A j \in 0 + 1..i + 1 : j = 1 \/ j \in h + 2..i + 1
        BY <2>0, <2>3
      <4>2. 0 \in 0..(i + 1) - 1
        BY <2>0
      <4> QED BY <2>1, <2>3, <4>1, <4>2 DEF Behind
    <3>2. Meets(0, i + 1)
      <4>1. 0 \in 0..(i + 1) - 1
        BY <2>0
      <4> QED BY <2>0, <3>1, <4>1 DEF WireMatches
    <3>3. server'.user = server.user /\ server'.applied = server.applied + 1
      BY <1>1, <2>3
    <3>4. Sender(0)' = Sender(0) /\ Number(0, i)' = Number(0, i + 1)
      BY <1>1, <2>0, <3>3 DEF Sender, Number
    <3> QED BY <2>0, <2>3, <3>2, <3>4 DEF Meets
  <2> QED BY <1>1, <2>0, <2>2, <2>3, Requests
<1> QED BY <1>2, <1>3, <1>4, <1>6, <1>7, <1>8

\* The server reads no more of the stream of the first request: what is left
\* begins with the next handshake.
LEMMA StreamRefused ==
    ASSUME WireOrdered, WireMatches, NEW last \in 1..Len(wire),
           wire[last].stream = wire[1].stream,
           \A i \in 1..Len(wire) : wire[i].stream = wire[1].stream => i <= last,
           wire' = SubSeq(wire, last + 1, Len(wire)),
           UNCHANGED <<server, queue, closeCount>>
    PROVE  /\ WireOrdered' /\ WireMatches'
           /\ Len(wire') = Len(wire) - last
           /\ \A i \in 1..Len(wire') : i + last \in 1..Len(wire) /\ wire'[i] = wire[i + last]
<1>1. wire \in Seq(Request) /\ Len(wire) \in Nat /\ last \in Nat /\ last >= 1 /\ last <= Len(wire)
  BY DEF WireOrdered
<1>2. \A i \in last + 1..Len(wire) : wire[i] \in Request
  BY <1>1
<1>3. /\ wire' \in Seq(Request) /\ Len(wire') = Len(wire) - last
      /\ \A i \in 1..Len(wire') : wire'[i] = wire[i + last]
  <2>1. /\ SubSeq(wire, last + 1, Len(wire)) \in Seq(Request)
        /\ Len(SubSeq(wire, last + 1, Len(wire))) =
              IF last + 1 <= Len(wire) THEN Len(wire) - (last + 1) + 1 ELSE 0
        /\ \A i \in 1..Len(wire) - (last + 1) + 1 :
              SubSeq(wire, last + 1, Len(wire))[i] = wire[last + 1 + i - 1]
    BY <1>1, <1>2, SubSeqProperties
  <2>2. Len(wire') = Len(wire) - last /\ Len(wire) - (last + 1) + 1 = Len(wire) - last
    BY <1>1, <2>1
  <2>3. \A i \in Nat : last + 1 + i - 1 = i + last
    BY <1>1
  <2>4. \A i \in 1..Len(wire') : i \in Nat
    OBVIOUS
  <2> QED BY <2>1, <2>2, <2>3, <2>4
<1>4. \A i \in 1..Len(wire') : i \in Nat /\ i + last \in 1..Len(wire) /\ i + last \in 2..Len(wire)
  BY <1>1, <1>3
<1>5. WireOrdered'
  <2>1. \A i \in 2..Len(wire') : /\ i - 1 \in 1..Len(wire') /\ i \in 1..Len(wire')
                                 /\ (i + last) - 1 = (i - 1) + last
    BY <1>1, <1>3
  <2>2. \A i \in 2..Len(wire') : wire'[i].kind = "write" => wire'[i - 1].stream = wire'[i].stream
    BY <1>3, <1>4, <2>1 DEF WireOrdered
  <2>3. \A i, j \in 1..Len(wire') : i < j => i + last < j + last
    BY <1>1, <1>4
  <2> QED BY <1>3, <1>4, <2>2, <2>3 DEF WireOrdered
<1>6. Len(wire') > 0 => wire'[1].kind # "write"
  <2> SUFFICES ASSUME Len(wire') > 0, wire'[1].kind = "write" PROVE FALSE
    OBVIOUS
  <2>1. 1 \in 1..Len(wire') /\ 1 + last = last + 1 /\ last + 1 \in 2..Len(wire)
        /\ (last + 1) - 1 = last /\ last + 1 \in 1..Len(wire) /\ ~(last + 1 <= last)
    BY <1>1, <1>3
  <2>2. wire[last].stream = wire[last + 1].stream
    BY <1>3, <2>1 DEF WireOrdered
  <2> QED BY <2>1, <2>2
<1>7. WireMatches'
  <2> SUFFICES ASSUME NEW i \in 1..Len(wire'), NEW h \in 0..i - 1, Behind(h, i)' PROVE Meets(h, i)'
    BY DEF WireMatches
  <2>0. i \in Nat /\ h \in Nat /\ h < i /\ i + last \in 1..Len(wire) /\ wire'[i] = wire[i + last]
    BY <1>1, <1>3, <1>4
  <2>8. i \in Nat /\ h \in Nat /\ h < i /\ i <= Len(wire')
    BY <1>1, <1>3, <2>0
  <2>1. h > 0
    <3>1. h = 0 => 1 \in h + 1..i /\ Len(wire') > 0
      BY <1>3, <2>0
    <3>2. h = 0 => wire'[1].kind = "write"
      BY <3>1 DEF Behind
    <3> QED BY <1>6, <2>0, <3>1, <3>2
  <2>2. h \in 1..Len(wire') /\ wire'[h] = wire[h + last] /\ wire[h + last].kind = "handshake"
    <3>1. h \in 1..Len(wire')
      BY <1>1, <1>3, <2>0, <2>1
    <3> QED BY <1>3, <2>1, <3>1 DEF Behind
  <2>3. \A j \in (h + last) + 1..i + last : wire[j].kind = "write"
    <3> TAKE j \in (h + last) + 1..i + last
    <3>1. j - last \in h + 1..i /\ (j - last) + last = j
      BY <1>1, <2>8
    <3>2. j - last \in 1..Len(wire')
      BY <1>1, <1>3, <2>8, <3>1
    <3> QED BY <1>3, <3>1, <3>2 DEF Behind
  <2>4. h + last \in 0..(i + last) - 1
    BY <1>1, <2>8
  <2>5. Behind(h + last, i + last)
    BY <2>2, <2>3, <2>4 DEF Behind
  <2>6. Meets(h + last, i + last)
    BY <2>0, <2>4, <2>5 DEF WireMatches
  <2>7. /\ Sender(h + last) = Sender(h)' /\ Number(h + last, i + last) = i - h
        /\ Number(h, i)' = i - h
    <3>1. h # 0 /\ h + last # 0 /\ 0 + (i + last) - (h + last) = i - h /\ 0 + i - h = i - h
      BY <1>1, <2>0, <2>1
    <3> QED BY <2>2, <3>1 DEF Sender, Number
  <2> QED BY <2>0, <2>6, <2>7 DEF Meets
<1> QED BY <1>3, <1>4, <1>5, <1>7

\* A new stream asks for its handshake.
LEMMA HandshakeAsked ==
    ASSUME WireOrdered, WireMatches, user \in User, closeCount \in Nat,
           \A i \in 1..Len(wire) : wire[i].stream < closeCount,
           wire' = Append(wire, HandshakeRequest), UNCHANGED <<server, queue, closeCount>>
    PROVE  /\ WireOrdered' /\ WireMatches'
           /\ Len(wire') > 0 /\ wire'[Len(wire')] = HandshakeRequest
<1> DEFINE r == HandshakeRequest
           n == Len(wire)
<1>1. wire \in Seq(Request) /\ n \in Nat
  BY DEF WireOrdered
<1>2. r \in Request /\ r.kind = "handshake" /\ r.stream = closeCount
  BY DEF Request, HandshakeRequest
<1>3. /\ wire' \in Seq(Request) /\ Len(wire') = n + 1
      /\ \A i \in 1..n : wire'[i] = wire[i]
      /\ wire'[n + 1] = r
  <2> HIDE DEF r
  <2> QED BY <1>1, <1>2, AppendProperties DEF r
<1> HIDE DEF r
<1>4. \A i \in 1..Len(wire') : i \in 1..n \/ i = n + 1
  BY <1>1, <1>3
<1>5. \A i \in 1..n : wire[i].stream \in Nat
  BY <1>1, Requests
<1>6. WireOrdered'
  <2>1. \A i \in 1..Len(wire') : wire'[i].stream <= closeCount'
    BY <1>2, <1>3, <1>4, <1>5
  <2>2. ASSUME NEW i \in 1..Len(wire'), NEW j \in 1..Len(wire'), i < j
        PROVE  /\ wire'[i].stream <= wire'[j].stream
               /\ wire'[j].kind = "handshake" => wire'[i].stream < wire'[j].stream
    <3>1. i \in 1..n
      BY <1>1, <1>3, <2>2
    <3>2. CASE j \in 1..n
      BY <1>3, <2>2, <3>1, <3>2 DEF WireOrdered
    <3>3. CASE j = n + 1
      BY <1>2, <1>3, <1>5, <3>1, <3>3
    <3> QED BY <1>4, <3>2, <3>3
  <2>3. ASSUME NEW i \in 2..Len(wire'), wire'[i].kind = "write"
        PROVE  wire'[i - 1].stream = wire'[i].stream
    <3>1. i # n + 1
      BY <1>2, <1>3, <2>3
    <3>2. i \in 2..n /\ i \in 1..n /\ i - 1 \in 1..n
      BY <1>1, <1>3, <3>1
    <3> QED BY <1>3, <2>3, <3>2 DEF WireOrdered
  <2> QED BY <1>3, <2>1, <2>2, <2>3 DEF WireOrdered
<1>7. WireMatches'
  <2> SUFFICES ASSUME NEW i \in 1..Len(wire'), NEW h \in 0..i - 1, Behind(h, i)' PROVE Meets(h, i)'
    BY DEF WireMatches
  <2>1. i \in h + 1..i
    OBVIOUS
  <2>2. wire'[i].kind = "write"
    BY <2>1 DEF Behind
  <2>3. i \in 1..n
    BY <1>2, <1>3, <1>4, <2>2
  <2>4. h > 0 => h \in 1..n
    BY <1>1, <2>3
  <2>5. \A j \in h + 1..i : j \in 1..n
    BY <1>1, <2>3
  <2>6. Behind(h, i)
    BY <1>3, <2>4, <2>5 DEF Behind
  <2>7. Meets(h, i)
    BY <2>3, <2>6 DEF WireMatches
  <2> QED BY <1>3, <2>3, <2>4, <2>7 DEF Meets, Number, Sender
<1>8. n + 1 > 0
  BY <1>1
<1> QED BY <1>3, <1>6, <1>7, <1>8 DEF r

\* Writes join a queue.
LEMMA QueueGrown ==
    ASSUME WireOrdered, WireMatches, queue \in [User -> Seq(Batch)], server.user \in User,
           UNCHANGED <<wire, server, closeCount>>,
           \A u \in User : /\ Len(queue'[u]) \in Nat /\ Len(queue[u]) <= Len(queue'[u])
                           /\ \A i \in 1..Len(queue[u]) : queue'[u][i] = queue[u][i]
    PROVE  WireOrdered' /\ WireMatches'
<1>1. wire \in Seq(Request) /\ Len(wire) \in Nat
  BY DEF WireOrdered
<1>2. WireOrdered'
  BY DEF WireOrdered
<1>3. WireMatches'
  <2> SUFFICES ASSUME NEW i \in 1..Len(wire), NEW h \in 0..i - 1, Behind(h, i)' PROVE Meets(h, i)'
    BY DEF WireMatches
  <2>1. Behind(h, i)
    BY DEF Behind
  <2>2. Meets(h, i)
    BY <2>1 DEF WireMatches
  <2>3. Sender(h) \in User
    <3>1. h > 0 => h \in 1..Len(wire) /\ wire[h].kind = "handshake"
      BY <1>1, <2>1 DEF Behind
    <3>2. h > 0 => wire[h].user \in User
      BY <1>1, <3>1, Requests
    <3> QED BY <3>2 DEF Sender
  <2>4. Sender(h)' = Sender(h) /\ Number(h, i)' = Number(h, i)
    BY DEF Sender, Number
  <2>5. Number(h, i) \in 1..Len(queue[Sender(h)]) /\ Len(queue[Sender(h)]) \in Nat
    BY <2>2, <2>3 DEF Meets
  <2>6. Number(h, i) \in 1..Len(queue'[Sender(h)])
    BY <2>3, <2>5
  <2> QED BY <2>2, <2>3, <2>4, <2>5, <2>6 DEF Meets
<1> QED BY <1>2, <1>3

-----------------------------------------------------------------------------
(* The wire of a stream that writes                                        *)

\* A stream that has its handshake carries the writes of the pipeline, those
\* that are answered first.
LEMMA Carries ==
    ASSUME PartsOK, WireOK, state = "Open", handshake
    PROVE  /\ Writing
           /\ enabled /\ pipeline = Begin(queue[user])
           /\ pipeline \in Seq(Batch) /\ Len(pipeline) \in Nat
           /\ wire \in Seq(Request) /\ Len(wire) \in Nat /\ Len(answers) \in Nat
           /\ \A i \in 1..Len(wire) : /\ Len(answers) + i \in 1..Len(pipeline)
                                      /\ wire[i].write = pipeline[Len(answers) + i].write
<1>1. Writing
  BY DEF WireOK, OpenOK, Asked, Greeted
<1>2. enabled /\ pipeline = Begin(queue[user]) /\ queue[user] \in Seq(Batch)
  BY PresentQueue DEF PartsOK, StreamOK, NetworkOff, Started
<1>3. /\ pipeline \in Seq(Batch) /\ Len(pipeline) = Room(queue[user]) /\ Len(pipeline) \in Nat
      /\ \A i \in 1..Len(pipeline) : pipeline[i] = queue[user][i]
  BY <1>2, RoomBounds
<1>4. /\ wire \in Seq(Request) /\ Len(wire) \in Nat /\ Len(answers) \in Nat
      /\ server.user = user /\ server.applied = Len(answers)
  BY <1>1 DEF WireOK, WireOrdered, Writing
<1>5. ASSUME NEW i \in 1..Len(wire)
      PROVE  /\ Len(answers) + i \in 1..Len(pipeline)
             /\ wire[i].write = pipeline[Len(answers) + i].write
  <2>1. closing = Nothing /\ Len(answers) + Len(wire) = Len(pipeline)
    <3>1. wire # << >>
      BY <1>4
    <3> QED BY <1>1, <3>1 DEF Writing
  <2>2. i \in Nat /\ Len(answers) + i \in 1..Len(pipeline)
    BY <1>3, <1>4, <2>1
  <2>3. Behind(0, i)
    <3>1. \A j \in 0 + 1..i : j \in 1..Len(wire)
      BY <1>4
    <3>2. 0 \in 0..i - 1
      BY <1>4
    <3> QED BY <1>1, <3>1, <3>2 DEF Behind, Writing
  <2>4. Meets(0, i)
    <3>1. 0 \in 0..i - 1
      BY <1>4
    <3> QED BY <2>3, <3>1 DEF WireOK, WireMatches
  <2>5. Sender(0) = user /\ Number(0, i) = Len(answers) + i
    <3>1. Len(answers) + i - 0 = Len(answers) + i
      BY <1>4, <2>2
    <3> QED BY <1>4, <3>1 DEF Sender, Number
  <2> QED BY <1>3, <2>2, <2>4, <2>5 DEF Meets
<1> QED BY <1>1, <1>2, <1>3, <1>4, <1>5

\* The answers a and the requests w of stream k are for the batches p in turn.
Fits(a, w, p, k) ==
    /\ a \in Seq(Answer) /\ w \in Seq(Request) /\ p \in Seq(Batch)
    /\ \A i \in 1..Len(a) : a[i].write = p[i].write
    /\ \A i \in 1..Len(w) : /\ w[i].kind = "write" /\ w[i].stream = k
                            /\ w[i].write = p[Len(a) + i].write

\* And that is all there is to it: such a wire is as it should be.
LEMMA Carried ==
    ASSUME PartsOK', state' = "Open", handshake', closing' \in {Nothing, "read", "writing"},
           server' = [user |-> user', applied |-> Len(answers')],
           Len(answers') <= Len(pipeline'),
           Fits(answers', wire', pipeline', closeCount'),
           IF closing' = Nothing THEN Len(answers') + Len(wire') = Len(pipeline')
           ELSE wire' = << >> /\ Len(answers') < Len(pipeline')
    PROVE  WireOK'
<1> DEFINE q == queue'[user']
<1>1. /\ pipeline' = Begin(q) /\ q \in Seq(Batch) /\ user' \in User /\ closeCount' \in Nat
  BY DEF PartsOK, StreamOK, NetworkOff, Started, QueuesOK
<1> HIDE DEF q
<1>2. /\ Len(pipeline') \in Nat /\ Len(pipeline') <= Window /\ Len(pipeline') <= Len(q)
      /\ Len(q) \in Nat
      /\ \A i \in 1..Len(pipeline') : pipeline'[i] = q[i]
  <2>1. /\ Len(pipeline') = Room(q) /\ Room(q) \in Nat /\ Room(q) <= Window
        /\ Room(q) <= Len(q) /\ \A i \in 1..Room(q) : pipeline'[i] = q[i]
    BY <1>1, RoomBounds
  <2>2. Len(q) \in Nat
    BY <1>1
  <2> QED BY <2>1, <2>2
<1>3. /\ Len(wire') \in Nat /\ Len(answers') \in Nat
      /\ server'.user = user' /\ server'.applied = Len(answers')
      /\ wire' \in Seq(Request) /\ answers' \in Seq(Answer)
  BY DEF Fits
<1>4. WireOrdered'
  <2>1. \A i \in 2..Len(wire') : i \in 1..Len(wire') /\ i - 1 \in 1..Len(wire')
    BY <1>3
  <2>2. \A i \in 1..Len(wire') : /\ wire'[i].stream = closeCount' /\ wire'[i].kind # "handshake"
                                 /\ closeCount' <= closeCount'
    BY <1>1 DEF Fits
  <2> QED BY <1>3, <2>1, <2>2 DEF WireOrdered
<1>5. WireMatches'
  <2> SUFFICES ASSUME NEW i \in 1..Len(wire'), NEW h \in 0..i - 1, Behind(h, i)' PROVE Meets(h, i)'
    BY DEF WireMatches
  <2>1. i \in Nat /\ h \in Nat /\ i >= 1 /\ i <= Len(wire') /\ h < i
    BY <1>3
  <2>2. h = 0
    <3>1. h > 0 => h \in 1..Len(wire')
      BY <1>3, <2>1
    <3>2. h > 0 => wire'[h].kind = "handshake" /\ wire'[h].kind = "write"
      BY <3>1 DEF Behind, Fits
    <3> QED BY <2>1, <3>2
  <2>3. Sender(h)' = user' /\ Number(h, i)' = Len(answers') + i
    <3>1. Len(answers') + i - 0 = Len(answers') + i
      BY <1>3, <2>1
    <3> QED BY <1>3, <2>2, <3>1 DEF Sender, Number
  <2>4. Len(answers') + i \in 1..Len(pipeline')
    <3>1. Len(answers') + Len(wire') = Len(pipeline')
      <4>1. wire' # << >>
        BY <2>1
      <4> QED BY <4>1
    <3> QED BY <1>2, <1>3, <2>1, <3>1
  <2>5. Len(answers') + i \in 1..Len(q) /\ Len(answers') + i <= Window
    BY <1>2, <1>3, <2>1, <2>4, BoundsAssumption
  <2>6. wire'[i].write = pipeline'[Len(answers') + i].write
    BY DEF Fits
  <2> QED BY <1>2, <2>3, <2>4, <2>5, <2>6 DEF Meets, q
<1>6. ServerOK'
  <2>1. Len(answers') \in 0..Window
    BY <1>2, <1>3, BoundsAssumption
  <2> QED BY <1>1, <2>1 DEF ServerOK
<1>7. OpenOK'
  BY <1>3 DEF OpenOK, Writing, Fits
<1> QED BY <1>4, <1>5, <1>6, <1>7 DEF WireOK

\* The batches that join a pipeline follow its others onto the wire.
LEMMA RequestsJoin ==
    ASSUME NEW p, NEW more \in Seq(Batch), NEW w, NEW a, closeCount \in Nat,
           Len(a) + Len(w) = Len(p), Fits(a, w, p, closeCount)
    PROVE  LET out == w \o WriteRequests(more)
               q == p \o more
           IN  /\ Len(a) + Len(out) = Len(q)
               /\ Fits(a, out, q, closeCount)
<1> DEFINE r == WriteRequests(more)
           out == w \o r
           q == p \o more
<1>1. /\ Len(p) \in Nat /\ Len(more) \in Nat /\ Len(w) \in Nat /\ Len(a) \in Nat
      /\ DOMAIN more = 1..Len(more)
  BY DEF Fits
<1>10. a \in Seq(Answer) /\ w \in Seq(Request) /\ p \in Seq(Batch)
  BY DEF Fits
<1>2. /\ r \in Seq(Request) /\ Len(r) = Len(more)
      /\ \A i \in 1..Len(more) : r[i] = [kind |-> "write", write |-> more[i].write,
                                         stream |-> closeCount]
  <2>1. ASSUME NEW i \in 1..Len(more)
        PROVE  [kind |-> "write", write |-> more[i].write, stream |-> closeCount] \in Request
    <3>1. more[i] \in Batch
      BY <1>1
    <3> QED BY <3>1 DEF Batch, Request
  <2>2. r = [i \in 1..Len(more) |-> [kind |-> "write", write |-> more[i].write,
                                    stream |-> closeCount]]
    BY <1>1 DEF WriteRequests
  <2> HIDE DEF r
  <2> QED BY <1>1, <2>1, <2>2
<1> HIDE DEF r
<1>3. /\ out \in Seq(Request) /\ Len(out) = Len(w) + Len(more)
      /\ \A i \in 1..Len(w) + Len(more) : out[i] = IF i <= Len(w) THEN w[i] ELSE r[i - Len(w)]
  <2>1. /\ out \in Seq(Request) /\ Len(out) = Len(w) + Len(r)
        /\ \A i \in 1..Len(w) + Len(r) : out[i] = IF i <= Len(w) THEN w[i] ELSE r[i - Len(w)]
    <3>1. r \in Seq(Request)
      BY <1>2
    <3> QED BY <1>10, <3>1, ConcatProperties
  <2> QED BY <1>2, <2>1
<1>4. /\ q \in Seq(Batch) /\ Len(q) = Len(p) + Len(more)
      /\ \A i \in 1..Len(p) + Len(more) : q[i] = IF i <= Len(p) THEN p[i] ELSE more[i - Len(p)]
  BY <1>10, ConcatProperties
<1> HIDE DEF out, q
<1>8. Len(out) = Len(w) + Len(more) /\ Len(q) = Len(p) + Len(more) /\ Len(a) + Len(w) = Len(p)
  BY <1>3, <1>4
<1>5. Len(a) + Len(out) = Len(q)
  <2>1. Len(a) \in Nat /\ Len(w) \in Nat /\ Len(more) \in Nat
    BY <1>1
  <2> QED BY <1>8, <2>1
<1>6. \A i \in 1..Len(a) : a[i].write = q[i].write
  <2>1. \A i \in 1..Len(a) : i \in 1..Len(p) + Len(more) /\ i <= Len(p)
    BY <1>1, <1>8
  <2> QED BY <1>4, <2>1 DEF Fits
<1>7. ASSUME NEW i \in 1..Len(out)
      PROVE  /\ out[i].kind = "write" /\ out[i].stream = closeCount
             /\ out[i].write = q[Len(a) + i].write
  <2>1. i \in Nat /\ i >= 1 /\ i <= Len(w) + Len(more)
        /\ i \in 1..Len(w) + Len(more) /\ Len(a) + i \in 1..Len(p) + Len(more)
    BY <1>1, <1>8
  <2>2. CASE i <= Len(w)
    <3>1. i \in 1..Len(w) /\ Len(a) + i <= Len(p)
      BY <1>1, <1>8, <2>1, <2>2
    <3>2. /\ w[i].kind = "write" /\ w[i].stream = closeCount
          /\ w[i].write = p[Len(a) + i].write
      BY <3>1 DEF Fits
    <3>3. out[i] = w[i] /\ q[Len(a) + i] = p[Len(a) + i]
      BY <1>3, <1>4, <2>1, <2>2, <3>1
    <3> QED BY <3>2, <3>3
  <2>3. CASE ~(i <= Len(w))
    <3>1. i - Len(w) \in 1..Len(more)
      BY <1>1, <2>1, <2>3
    <3>2. ~(Len(a) + i <= Len(p)) /\ (Len(a) + i) - Len(p) = i - Len(w)
      <4>2. i \in Nat /\ Len(a) \in Nat /\ Len(w) \in Nat /\ Len(p) \in Nat
        BY <1>1, <2>1
      <4> QED BY <1>8, <2>3, <4>2
    <3>3. out[i] = r[i - Len(w)]
      BY <1>3, <2>1, <2>3
    <3>4. q[Len(a) + i] = more[i - Len(w)]
      BY <1>4, <2>1, <3>2
    <3>5. /\ r[i - Len(w)].kind = "write" /\ r[i - Len(w)].stream = closeCount
          /\ r[i - Len(w)].write = more[i - Len(w)].write
      <4>1. r[i - Len(w)] = [kind |-> "write", write |-> more[i - Len(w)].write,
                             stream |-> closeCount]
        BY <1>2, <3>1
      <4> QED BY <4>1
    <3> QED BY <3>3, <3>4, <3>5
  <2> QED BY <2>2, <2>3
<1>9. Fits(a, out, q, closeCount)
  BY <1>3, <1>4, <1>6, <1>7, <1>10 DEF Fits
<1> QED BY <1>5, <1>9 DEF out, q, r

-----------------------------------------------------------------------------
(* The steps                                                               *)

\* A stream that ends: nothing more of it is under way but what it wrote.
LEMMA StreamEnds ==
    ASSUME PartsOK, WireOK, NEW n \in 0..Len(wire), wire' = SubSeq(wire, 1, n),
           UNCHANGED <<server, queue>>,
           closeCount' = closeCount + (IF Started(state) THEN 1 ELSE 0),
           ~handshake', answers' = << >>, closing' = Nothing, state' # "Open"
    PROVE  WireOK'
<1>1. closeCount \in Nat /\ closeCount' \in Nat /\ closeCount' >= closeCount
  BY DEF PartsOK, StreamOK
<1>2. /\ WireOrdered' /\ WireMatches' /\ Len(wire') = n
      /\ \A i \in 1..n : wire'[i] = wire[i]
  BY <1>1, WireCut DEF WireOK
<1>3. wire \in Seq(Request) /\ \A i \in 1..n : i \in 1..Len(wire) /\ wire[i].stream \in Nat
  <2>1. wire \in Seq(Request) /\ Len(wire) \in Nat
    BY DEF WireOK, WireOrdered
  <2>2. \A i \in 1..n : i \in 1..Len(wire)
    BY <2>1
  <2> QED BY <2>1, <2>2, Requests
<1>4. \A i \in 1..n : wire[i].stream < closeCount'
  <2>1. CASE Started(state)
    <3>1. \A i \in 1..n : wire[i].stream <= closeCount
      BY <1>3 DEF WireOK, WireOrdered
    <3>2. closeCount' = closeCount + 1
      BY <2>1
    <3> QED BY <1>1, <1>3, <3>1, <3>2
  <2>2. CASE ~Started(state)
    <3>1. closeCount' = closeCount /\ state # "Open"
      BY <1>1, <2>2 DEF Started
    <3> QED BY <1>3, <3>1 DEF WireOK, OpenOK, Unopened
  <2> QED BY <2>1, <2>2
<1>5. ServerOK' /\ OpenOK'
  BY <1>2, <1>4 DEF WireOK, ServerOK, OpenOK, Unopened
<1> QED BY <1>2, <1>5 DEF WireOK

\* Steps that leave the wire and what is read from it alone.
LEMMA WireKept ==
    ASSUME WireOK, UNCHANGED <<wire, server, queue, closeCount, answers, closing, handshake>>,
           \/ state # "Open" /\ state' # "Open"
           \/ UNCHANGED <<state, user, pipeline>>
    PROVE  WireOK'
<1>1. WireOrdered' /\ WireMatches' /\ ServerOK'
  BY DEF WireOK, WireOrdered, WireMatches, Behind, Meets, Sender, Number, ServerOK
<1>2. OpenOK'
  BY DEF WireOK, OpenOK, Unopened, Asked, Greeted, Writing
<1> QED BY <1>1, <1>2 DEF WireOK

\* Nothing is on the wire.
LEMMA WireEmpty ==
    ASSUME wire' = << >>, ServerOK', ~handshake', answers' = << >>, closing' = Nothing,
           state' # "Open"
    PROVE  WireOK'
<1>1. wire' \in Seq(Request) /\ Len(wire') = 0
  OBVIOUS
<1>2. (\A i \in 1..Len(wire') : FALSE) /\ (\A i \in 2..Len(wire') : FALSE)
  BY <1>1
<1>3. WireOrdered'
  BY <1>1, <1>2 DEF WireOrdered
<1>4. WireMatches' /\ OpenOK'
  BY <1>2 DEF WireMatches, OpenOK, Unopened
<1> QED BY <1>3, <1>4 DEF WireOK

\* FillWritePipeline on a stream that writes.
LEMMA FilledWire ==
    ASSUME PartsOK', PartsOK, state = "Open", handshake, enabled',
           UNCHANGED <<handshake, closing, closeCount>>,
           NEW p, FillWritePipeline(p, queue'[user'], state),
           Joining(p, queue'[user']) \in Seq(Batch),
           server' = [user |-> user', applied |-> Len(answers')],
           Fits(answers', wire, p, closeCount),
           IF closing = Nothing THEN Len(answers') + Len(wire) = Len(p)
           ELSE wire = << >> /\ Len(answers') < Len(p)
    PROVE  WireOK'
<1> DEFINE more == Joining(p, queue'[user'])
<1>1. /\ closeCount \in Nat /\ closing' \in {Nothing, "read", "writing"}
  BY DEF PartsOK, StreamOK
<1>2. /\ pipeline' = p \o more /\ state' = "Open" /\ handshake'
      /\ wire' = IF more # << >> /\ closing = Nothing THEN wire \o WriteRequests(more) ELSE wire
  BY DEF FillWritePipeline, StartIfNeeded, Started, Send
<1> HIDE DEF more
<1>3. p \in Seq(Batch) /\ wire \in Seq(Request) /\ answers' \in Seq(Answer) /\ more \in Seq(Batch)
  BY DEF Fits, more
<1>4. CASE closing = Nothing
  <2>1. wire' = wire \o WriteRequests(more)
    <3>1. CASE more = << >>
      <4>1. WriteRequests(more) = << >>
        BY <3>1 DEF WriteRequests
      <4> QED BY <1>2, <1>3, <3>1, <4>1, ConcatEmptySeq
    <3> QED BY <1>2, <1>4, <3>1
  <2>2. /\ Len(answers') + Len(wire') = Len(pipeline')
        /\ Fits(answers', wire', pipeline', closeCount)
    <3>1. Len(answers') + Len(wire) = Len(p)
      BY <1>4
    <3>2. /\ Len(answers') + Len(wire \o WriteRequests(more)) = Len(p \o more)
          /\ Fits(answers', wire \o WriteRequests(more), p \o more, closeCount)
      BY <1>1, <1>3, <3>1, RequestsJoin
    <3> QED BY <1>2, <2>1, <3>2
  <2>3. Len(answers') <= Len(pipeline')
    <3>1. Len(answers') \in Nat /\ Len(wire') \in Nat
      BY <2>2 DEF Fits
    <3> QED BY <2>2, <3>1
  <2> QED BY <1>1, <1>2, <1>4, <2>2, <2>3, Carried
<1>5. CASE closing # Nothing
  <2>1. wire' = << >> /\ wire = << >> /\ Len(answers') < Len(p)
    BY <1>2, <1>5
  <2>2. /\ pipeline' \in Seq(Batch) /\ Len(pipeline') = Len(p) + Len(more)
        /\ \A i \in 1..Len(p) + Len(more) :
              pipeline'[i] = IF i <= Len(p) THEN p[i] ELSE more[i - Len(p)]
    BY <1>2, <1>3, ConcatProperties
  <2>3. Len(p) \in Nat /\ Len(more) \in Nat /\ Len(answers') \in Nat
    BY <1>3
  <2>4. Len(answers') < Len(pipeline') /\ Len(answers') <= Len(pipeline')
        /\ \A i \in 1..Len(answers') : i \in 1..Len(p) + Len(more) /\ i <= Len(p)
    BY <2>1, <2>2, <2>3
  <2>5. Fits(answers', wire', pipeline', closeCount)
    <3>1. \A i \in 1..Len(answers') : answers'[i].write = pipeline'[i].write
      BY <2>2, <2>4 DEF Fits
    <3>2. wire' \in Seq(Request) /\ \A i \in 1..Len(wire') : FALSE
      BY <2>1
    <3> QED BY <1>3, <2>2, <3>1, <3>2 DEF Fits
  <2> QED BY <1>1, <1>2, <1>5, <2>1, <2>4, <2>5, Carried
<1> QED BY <1>4, <1>5

\* The stream is stopped or breaks; what it wrote may still arrive in part.
LEMMA WireStops ==
    ASSUME PartsOK, WireOK,
           \/ \E u \in User : HandleCredentialChange(u) /\ enabled
           \/ ConnectivityChanged \/ DisableNetwork \/ IdleTimeout
           \/ ConnectionBreaks \/ TokenFails
    PROVE  WireOK'
<1> DEFINE Ended == /\ UNCHANGED <<server, queue>>
                    /\ closeCount' = closeCount + (IF Started(state) THEN 1 ELSE 0)
                    /\ ~handshake' /\ answers' = << >> /\ closing' = Nothing
                    /\ state' # "Open"
<1>1. ASSUME RestartNetwork, UNCHANGED <<server, queue>> PROVE Ended /\ Leave
  <2>1. StopStream /\ Leave /\ (state' = "Starting" \/ state' = "Backoff" \/ state' = "Initial")
    BY <1>1 DEF RestartNetwork, StartIfNeeded
  <2> QED BY <1>1, <2>1 DEF StopStream
<1>2. CASE (\E u \in User : HandleCredentialChange(u) /\ enabled) \/ ConnectivityChanged
  <2>1. RestartNetwork /\ UNCHANGED <<server, queue>>
    BY <1>2 DEF HandleCredentialChange, ConnectivityChanged, serverVars, storeVars
  <2>2. Ended /\ Leave
    BY <1>1, <2>1
  <2> QED BY <2>2, StreamEnds DEF Leave
<1>3. CASE DisableNetwork
  <2>1. Ended /\ Leave
    BY <1>3 DEF DisableNetwork, StopStream, serverVars, storeVars, Started
  <2> QED BY <2>1, StreamEnds DEF Leave
<1>4. CASE IdleTimeout
  <2>1. Ended /\ Leave
    BY <1>4 DEF IdleTimeout, StopStream, StartIfNeeded, serverVars, storeVars
  <2> QED BY <2>1, StreamEnds DEF Leave
<1>5. CASE ConnectionBreaks
  <2>1. Ended /\ Leave
    BY <1>5 DEF ConnectionBreaks, CloseWith, IsPermanentWriteError, StartIfNeeded, serverVars,
                Started
  <2> QED BY <2>1, StreamEnds DEF Leave
<1>6. CASE TokenFails
  <2>1. state = "Starting"
    BY <1>6 DEF TokenFails, PartsOK, StreamOK, TokensFresh
  <2>2. Unopened
    BY <2>1 DEF WireOK, OpenOK
  <2>3. Ended /\ wire' = wire
    BY <1>6, <2>1, <2>2 DEF TokenFails, serverVars, storeVars, Started, Unopened
  <2>4. wire \in Seq(Request) /\ Len(wire) \in 0..Len(wire)
    BY DEF WireOK, WireOrdered
  <2>5. wire' = SubSeq(wire, 1, Len(wire))
    BY <2>3, <2>4, SubSeqFull
  <2> QED BY <2>3, <2>4, <2>5, StreamEnds
<1> QED BY <1>2, <1>3, <1>4, <1>5, <1>6

\* Waiting, handlers, the backoff, an account that signs in without a network.
LEMMA WireQuiet ==
    ASSUME PartsOK, WireOK,
           \/ WaitForPendingWrites \/ RunHandler \/ BackoffElapsed \/ UNCHANGED vars
           \/ \E u \in User : HandleCredentialChange(u) /\ ~enabled
    PROVE  WireOK'
<1>1. CASE WaitForPendingWrites \/ RunHandler
  BY <1>1, WireKept DEF WaitForPendingWrites, RunHandler, serverVars, streamVars
<1>2. CASE BackoffElapsed
  BY <1>2, WireKept DEF BackoffElapsed, serverVars, storeVars
<1>3. CASE UNCHANGED vars
  BY <1>3, WireKept DEF vars, serverVars, storeVars, streamVars
<1>4. CASE \E u \in User : HandleCredentialChange(u) /\ ~enabled
  <2>1. state # "Open"
    BY <1>4 DEF PartsOK, StreamOK, NetworkOff, Started
  <2> QED BY <1>4, <2>1, WireKept DEF HandleCredentialChange, serverVars, streamVars
<1> QED BY <1>1, <1>2, <1>3, <1>4

\* The handshake is asked for when the token has arrived.
LEMMA WireToken ==
    ASSUME PartsOK, WireOK, NEW c \in tokens, ResumeStartWithCredentials(c)
    PROVE  WireOK'
<1>1. UNCHANGED <<server, user, queue, answers, closing, closeCount, handshake, pipeline>>
  BY DEF ResumeStartWithCredentials, serverVars, storeVars
<1>2. CASE c # closeCount
  BY <1>1, <1>2, WireKept DEF ResumeStartWithCredentials
<1>3. CASE c = closeCount
  <2>1. state = "Starting"
    BY <1>3 DEF PartsOK, StreamOK, TokensFresh
  <2>2. Unopened
    BY <2>1 DEF WireOK, OpenOK
  <2>3. state' = "Open" /\ wire' = Append(wire, HandshakeRequest)
    BY <1>3 DEF ResumeStartWithCredentials
  <2>4. user \in User /\ closeCount \in Nat
    BY DEF PartsOK, StreamOK, QueuesOK
  <2>5. /\ WireOrdered' /\ WireMatches'
        /\ Len(wire') > 0 /\ wire'[Len(wire')] = HandshakeRequest
    BY <1>1, <2>2, <2>3, <2>4, HandshakeAsked DEF WireOK, Unopened
  <2>6. Asked'
    BY <1>1, <2>2, <2>5 DEF Asked, Unopened, HandshakeRequest
  <2> QED BY <1>1, <2>3, <2>5, <2>6 DEF WireOK, ServerOK, OpenOK
<1> QED BY <1>2, <1>3

\* A write joins the queue, and what is written if there is room.
LEMMA WireWritten ==
    ASSUME PartsOK, PartsOK', WireOK, WriteMutations
    PROVE  WireOK'
<1> DEFINE q == queue[user]
<1>1. /\ Begin(q) = SubSeq(queue'[user'], 1, Room(q)) /\ Room(q) \in 0..Room(queue'[user'])
      /\ Ordered(queue'[user'])
  BY WriteQueued DEF PartsOK, QueuesOK, Numbered
<1>2. /\ UNCHANGED <<enabled, closeCount, handshake, user, closing, answers, server>>
      /\ FillWritePipeline(pipeline, queue'[user'], state)
  <2>1. user \in DOMAIN queue
    BY DEF PartsOK, QueuesOK
  <2> QED BY <2>1 DEF WriteMutations, serverVars
<1>3. CASE handshake
  <2>1. state = "Open"
    BY <1>3 DEF WireOK, OpenOK, Unopened
  <2>2. /\ Writing /\ enabled /\ pipeline = Begin(q)
        /\ pipeline \in Seq(Batch) /\ Len(pipeline) \in Nat
        /\ wire \in Seq(Request)
        /\ \A i \in 1..Len(wire) : wire[i].write = pipeline[Len(answers) + i].write
    BY <1>3, <2>1, Carries
  <2>3. Joining(pipeline, queue'[user']) \in Seq(Batch)
    BY <1>1, <2>2, Joined
  <2>4. Fits(answers', wire, pipeline, closeCount)
    BY <1>2, <2>2 DEF Fits, Writing
  <2>5. server' = [user |-> user', applied |-> Len(answers')]
    BY <1>2, <2>2 DEF Writing, WireOK, ServerOK
  <2>6. IF closing = Nothing THEN Len(answers') + Len(wire) = Len(pipeline)
        ELSE wire = << >> /\ Len(answers') < Len(pipeline)
    BY <1>2, <2>2 DEF Writing
  <2> QED BY <1>2, <1>3, <2>1, <2>2, <2>3, <2>4, <2>5, <2>6, FilledWire
<1>4. CASE ~handshake
  <2>1. wire' = wire /\ (state' = state \/ (~Started(state) /\ state' # "Open"))
    BY <1>2, <1>4 DEF FillWritePipeline, StartIfNeeded
  <2>2. state' = "Open" <=> state = "Open"
    BY <2>1 DEF Started
  <2>3. /\ queue \in [User -> Seq(Batch)] /\ server.user \in User /\ user \in User
        /\ queue' = [queue EXCEPT ![user] = Append(q, [id |-> nextId, write |-> issued + 1])]
        /\ [id |-> nextId, write |-> issued + 1] \in Batch
    <3>1. queue \in [User -> Seq(Batch)] /\ server.user \in User /\ user \in User
      BY DEF PartsOK, QueuesOK, WireOK, ServerOK
    <3>2. nextId \in Nat /\ issued + 1 \in 1..MaxWrites
      BY BoundsAssumption DEF PartsOK, QueuesOK, WriteMutations
    <3>3. [id |-> nextId, write |-> issued + 1] \in Batch
      BY <3>2 DEF Batch
    <3> QED BY <3>1, <3>3 DEF WriteMutations
  <2>4. ASSUME NEW u \in User
        PROVE  /\ Len(queue'[u]) \in Nat /\ Len(queue[u]) <= Len(queue'[u])
               /\ \A i \in 1..Len(queue[u]) : queue'[u][i] = queue[u][i]
    <3>1. queue[u] \in Seq(Batch) /\ Len(queue[u]) \in Nat
      BY <2>3
    <3>2. CASE u # user
      <4>1. queue'[u] = queue[u]
        BY <2>3, <3>2
      <4> QED BY <3>1, <4>1
    <3>3. CASE u = user
      <4>1. queue'[u] = Append(queue[u], [id |-> nextId, write |-> issued + 1])
        BY <2>3, <3>3
      <4>2. /\ Len(queue'[u]) = Len(queue[u]) + 1
            /\ \A i \in 1..Len(queue[u]) : queue'[u][i] = queue[u][i]
        BY <2>3, <3>1, <4>1, AppendProperties
      <4> QED BY <3>1, <4>2
    <3> QED BY <3>2, <3>3
  <2>5. WireOrdered' /\ WireMatches'
    BY <1>2, <2>1, <2>3, <2>4, QueueGrown DEF WireOK
  <2>6. ServerOK' /\ OpenOK'
    BY <1>2, <1>4, <2>1, <2>2 DEF WireOK, ServerOK, OpenOK, Unopened, Asked, Greeted, Writing
  <2> QED BY <2>5, <2>6 DEF WireOK
<1> QED BY <1>3, <1>4

\* The network is enabled: the stream was not open, or nothing is missing.
LEMMA WireEnabled ==
    ASSUME PartsOK, PartsOK', WireOK, EnableNetwork
    PROVE  WireOK'
<1> DEFINE q == queue[user]
<1>1. /\ UNCHANGED <<closeCount, handshake, user, queue, closing, answers, server>>
      /\ FillWritePipeline(pipeline, q, state) /\ enabled'
  BY DEF EnableNetwork, serverVars, storeVars
<1>2. CASE state # "Open"
  <2>1. wire' = wire /\ state' # "Open"
    BY <1>1, <1>2 DEF FillWritePipeline, StartIfNeeded
  <2> QED BY <1>1, <1>2, <2>1, WireKept
<1>3. CASE state = "Open"
  <2>1. enabled /\ pipeline = Begin(q) /\ Ordered(q) /\ q \in Seq(Batch)
    BY <1>3, PresentQueue DEF PartsOK, StreamOK, NetworkOff, Started
  <2>2. Joining(pipeline, q) = << >> /\ pipeline \in Seq(Batch)
    <3>0. Room(q) \in Nat /\ pipeline \in Seq(Batch)
      BY <2>1, RoomBounds
    <3>1. Room(q) \in 0..Room(q) /\ pipeline \in Seq(Batch)
      BY <3>0
    <3>2. Joining(pipeline, q) \in Seq(Batch) /\ pipeline \o Joining(pipeline, q) = pipeline
      BY <2>1, <3>1, Joined DEF Begin
    <3> QED BY <3>1, <3>2, ConcatEqualIffEmpty
  <2>3. wire' = wire /\ pipeline' = pipeline \o << >> /\ state' = state
    BY <1>1, <1>3, <2>2 DEF FillWritePipeline, StartIfNeeded, Started
  <2>4. pipeline' = pipeline
    BY <2>2, <2>3, ConcatEmptySeq
  <2> QED BY <1>1, <2>3, <2>4, WireKept
<1> QED BY <1>2, <1>3

\* While the handshake is asked for it is the only request of the open stream.
LEMMA AskedLast ==
    ASSUME WireOrdered, Asked, closeCount \in Nat
    PROVE  /\ wire # << >> /\ Len(wire) \in Nat /\ Len(wire) > 0
           /\ \A i \in 1..Len(wire) : wire[i].stream = closeCount => i = Len(wire)
<1>1. /\ wire \in Seq(Request) /\ Len(wire) \in Nat /\ Len(wire) > 0 /\ wire # << >>
      /\ Len(wire) \in 1..Len(wire)
  <2>1. wire \in Seq(Request) /\ Len(wire) \in Nat /\ Len(wire) > 0
    BY DEF WireOrdered, Asked
  <2> QED BY <2>1
<1>2. wire[Len(wire)].kind = "handshake" /\ wire[Len(wire)].stream = closeCount
  BY DEF Asked
<1>3. ASSUME NEW i \in 1..Len(wire), i # Len(wire) PROVE wire[i].stream # closeCount
  <2>1. i < Len(wire)
    BY <1>1, <1>3
  <2>2. wire[i].stream < closeCount
    BY <1>1, <1>2, <2>1 DEF WireOrdered
  <2>3. wire[i].stream \in Nat
    BY <1>1, Requests
  <2> QED BY <2>2, <2>3
<1> QED BY <1>1, <1>3

\* The server reads a request that is not the one its open stream waits for.
LEMMA ServedBefore ==
    ASSUME WireOK, closeCount \in Nat, state # "Open" \/ Asked,
           UNCHANGED <<state, user, closeCount, handshake, answers, closing>>,
           WireOrdered', WireMatches', ServerOK',
           NEW k \in Nat, Len(wire') = Len(wire) - k,
           \A i \in 1..Len(wire') : i + k \in 1..Len(wire) /\ wire'[i] = wire[i + k],
           state = "Open" => Len(wire) > k
    PROVE  WireOK'
<1>1. Len(wire) \in Nat /\ Len(wire') \in Nat
  BY DEF WireOK, WireOrdered
<1>2. CASE state # "Open"
  <2>1. Unopened'
    BY <1>2 DEF WireOK, OpenOK, Unopened
  <2> QED BY <1>2, <2>1 DEF WireOK, OpenOK
<1>3. CASE state = "Open"
  <2>1. Len(wire') > 0 /\ Len(wire') \in 1..Len(wire') /\ Len(wire') + k = Len(wire)
    BY <1>1, <1>3
  <2>2. wire'[Len(wire')] = wire[Len(wire)]
    BY <2>1
  <2>3. Asked'
    BY <1>3, <2>1, <2>2 DEF Asked
  <2> QED BY <1>3, <2>3 DEF WireOK, OpenOK
<1> QED BY <1>2, <1>3

\* The server sees a handshake: of the open stream, or of one before it.
LEMMA WireGreeted ==
    ASSUME PartsOK, WireOK, ServerHandshake
    PROVE  WireOK'
<1>1. /\ wire # << >> /\ wire \in Seq(Request) /\ Len(wire) \in Nat /\ Len(wire) > 0
      /\ Head(wire) = wire[1] /\ closeCount \in Nat /\ queue \in [User -> Seq(Batch)]
  <2>1. wire # << >> /\ wire \in Seq(Request) /\ closeCount \in Nat /\ queue \in [User -> Seq(Batch)]
    BY DEF ServerHandshake, WireOK, WireOrdered, PartsOK, StreamOK, QueuesOK
  <2>2. Len(wire) \in Nat /\ Len(wire) > 0 /\ Head(wire) = wire[1]
    BY <2>1
  <2> QED BY <2>1, <2>2
<1>8. Len(wire) \in Nat /\ Len(wire) > 0 /\ 1 \in 1..Len(wire) /\ closeCount \in Nat
  <2>1. Len(wire) \in Nat /\ Len(wire) > 0 /\ closeCount \in Nat
    BY <1>1
  <2> QED BY <2>1
<1>2. /\ wire[1].kind = "handshake" /\ wire' = Tail(wire)
      /\ server' = [user |-> wire[1].user, applied |-> 0]
      /\ UNCHANGED <<queue, user, state, closeCount, handshake, closing, pipeline>>
      /\ answers' = IF state = "Open" /\ wire[1].stream = closeCount
                    THEN Append(answers, [kind |-> "handshake", write |-> 0]) ELSE answers
  BY <1>1 DEF ServerHandshake, Respond, Live, storeVars, streamVars
<1>3. /\ WireOrdered' /\ WireMatches' /\ ServerOK'
      /\ Len(wire') = Len(wire) - 1
      /\ \A i \in 1..Len(wire') : i + 1 \in 1..Len(wire) /\ wire'[i] = wire[i + 1]
  BY <1>1, <1>2, HeadServed DEF WireOK
<1>4. CASE state # "Open"
  BY <1>1, <1>2, <1>3, <1>4, ServedBefore
<1>5. CASE state = "Open" /\ Asked /\ Len(wire) # 1
  <2>1. answers' = answers /\ Len(wire) > 1
    <3>1. wire[1].stream # closeCount
      BY <1>5, <1>8, AskedLast DEF WireOK
    <3>2. Len(wire) # 1
      BY <1>5
    <3>3. Len(wire) > 1
      BY <1>8, <3>2
    <3> QED BY <1>2, <3>1, <3>3
  <2> QED BY <1>1, <1>2, <1>3, <1>5, <2>1, ServedBefore
<1>6. CASE state = "Open" /\ Asked /\ Len(wire) = 1
  <2>1. wire[1] = [kind |-> "handshake", user |-> user, stream |-> closeCount]
        /\ answers = << >> /\ closing = Nothing /\ ~handshake
    BY <1>6 DEF Asked
  <2>2. answers' = << [kind |-> "handshake", write |-> 0] >>
    BY <1>2, <1>6, <2>1
  <2>3. server'.user = user /\ server'.applied = 0
    BY <1>2, <2>1
  <2>4. wire' = << >>
    <3>1. Len(wire') = 0 /\ wire' \in Seq(Request)
      BY <1>3, <1>6 DEF WireOrdered
    <3> QED BY <3>1
  <2>5. Greeted'
    BY <1>2, <2>1, <2>2, <2>3, <2>4 DEF Greeted
  <2> QED BY <1>2, <1>3, <1>6, <2>5 DEF WireOK, OpenOK
<1>7. ~(state = "Open" /\ (Greeted \/ Writing))
  <2>1. 1 \in 1..Len(wire) /\ wire # << >> /\ wire[1].kind # "write"
    BY <1>1, <1>2
  <2> QED BY <2>1 DEF Greeted, Writing
<1> QED BY <1>4, <1>5, <1>6, <1>7 DEF WireOK, OpenOK

\* A write takes effect: of the open stream, or of one before it.
LEMMA WireApplied ==
    ASSUME PartsOK, WireOK, ServerApplies
    PROVE  WireOK'
<1>1. /\ wire # << >> /\ wire \in Seq(Request) /\ Len(wire) \in Nat /\ Len(wire) > 0
      /\ Head(wire) = wire[1] /\ closeCount \in Nat /\ queue \in [User -> Seq(Batch)]
  <2>1. wire # << >> /\ wire \in Seq(Request) /\ closeCount \in Nat /\ queue \in [User -> Seq(Batch)]
    BY DEF ServerApplies, WireOK, WireOrdered, PartsOK, StreamOK, QueuesOK
  <2>2. Len(wire) \in Nat /\ Len(wire) > 0 /\ Head(wire) = wire[1]
    BY <2>1
  <2> QED BY <2>1, <2>2
<1>8. Len(wire) \in Nat /\ Len(wire) > 0 /\ 1 \in 1..Len(wire) /\ closeCount \in Nat
  <2>1. Len(wire) \in Nat /\ Len(wire) > 0 /\ closeCount \in Nat
    BY <1>1
  <2> QED BY <2>1
<1>2. /\ wire[1].kind = "write" /\ wire' = Tail(wire)
      /\ server' = [server EXCEPT !.applied = @ + 1]
      /\ UNCHANGED <<queue, user, state, closeCount, handshake, closing, pipeline>>
      /\ answers' = IF state = "Open" /\ wire[1].stream = closeCount
                    THEN Append(answers, [kind |-> "result", write |-> wire[1].write]) ELSE answers
  BY <1>1 DEF ServerApplies, Respond, Live, storeVars, streamVars
<1>3. /\ WireOrdered' /\ WireMatches' /\ ServerOK'
      /\ Len(wire') = Len(wire) - 1
      /\ \A i \in 1..Len(wire') : i + 1 \in 1..Len(wire) /\ wire'[i] = wire[i + 1]
  BY <1>1, <1>2, HeadServed DEF WireOK
<1>4. CASE state # "Open"
  BY <1>1, <1>2, <1>3, <1>4, ServedBefore
<1>5. CASE state = "Open" /\ Asked
  <2>1. Len(wire) # 1
    BY <1>2, <1>5 DEF Asked
  <2>2. answers' = answers /\ Len(wire) > 1
    <3>1. wire[1].stream # closeCount
      BY <1>5, <1>8, <2>1, AskedLast DEF WireOK
    <3>2. answers' = answers
      BY <1>2, <3>1
    <3>3. Len(wire) > 1
      BY <1>8, <2>1
    <3> QED BY <3>2, <3>3
  <2> QED BY <1>1, <1>2, <1>3, <1>5, <2>2, ServedBefore
<1>6. CASE state = "Open" /\ Greeted
  BY <1>1, <1>6 DEF Greeted
<1>7. CASE state = "Open" /\ Writing
  <2> DEFINE r == [kind |-> "result", write |-> wire[1].write]
             n == Len(answers)
  <2>1. 1 \in 1..Len(wire) /\ wire[1].write \in 1..MaxWrites
    <3>1. 1 \in 1..Len(wire)
      BY <1>1
    <3> QED BY <1>1, <1>2, <3>1, Requests
  <2>2. r \in Answer
    BY <2>1 DEF Answer
  <2>3. /\ closing = Nothing /\ n + Len(wire) = Len(pipeline)
        /\ answers \in Seq(Answer) /\ n \in Nat
        /\ server.user = user /\ server.applied = n
        /\ answers' = Append(answers, r)
    <3>1. wire[1].stream = closeCount /\ answers \in Seq(Answer)
      BY <1>7, <2>1 DEF Writing
    <3>2. n \in Nat
      BY <3>1
    <3> QED BY <1>1, <1>2, <1>7, <3>1, <3>2 DEF Writing
  <2> HIDE DEF r
  <2>4. /\ answers' \in Seq(Answer) /\ Len(answers') = n + 1
        /\ \A i \in 1..n : answers'[i] = answers[i]
        /\ answers'[n + 1] = r
    BY <2>2, <2>3, AppendProperties
  <2>5. /\ n + 1 \in 1..Len(pipeline) /\ wire[1].write = pipeline[n + 1].write
        /\ Len(pipeline) \in Nat
    BY <1>7, <2>1, Carries DEF Writing
  <2>6. \A i \in 1..Len(answers') : answers'[i].write = pipeline[i].write
    <3>1. \A i \in 1..n : answers'[i].write = pipeline[i].write
      BY <1>7, <2>4 DEF Writing
    <3>2. r.write = wire[1].write
      BY DEF r
    <3>3. \A i \in 1..Len(answers') : i \in 1..n \/ i = n + 1
      BY <2>3, <2>4
    <3> QED BY <2>4, <2>5, <3>1, <3>2, <3>3
  <2>7. /\ Len(answers') <= Len(pipeline)
        /\ Len(answers') + Len(wire') = Len(pipeline)
    BY <1>1, <1>3, <2>3, <2>4, <2>5
  <2>8. server'.user = user /\ server'.applied = Len(answers')
    BY <1>2, <2>3, <2>4 DEF WireOK, ServerOK
  <2>9. \A i \in 1..Len(wire') : wire'[i].kind = "write" /\ wire'[i].stream = closeCount
    BY <1>3, <1>7 DEF Writing
  <2>10. Writing'
    BY <1>2, <1>7, <2>3, <2>4, <2>6, <2>7, <2>8, <2>9 DEF Writing
  <2> QED BY <1>2, <1>3, <1>7, <2>10 DEF WireOK, OpenOK
<1> QED BY <1>4, <1>5, <1>6, <1>7 DEF WireOK, OpenOK

\* A write is refused, and what was written behind it on its stream is not read.
LEMMA WireRefused ==
    ASSUME PartsOK, WireOK, ServerRefuses
    PROVE  WireOK'
<1> DEFINE S == {i \in DOMAIN wire : wire[i].stream = wire[1].stream}
           last == Max(S)
<1>1. /\ wire # << >> /\ wire \in Seq(Request) /\ Len(wire) \in Nat /\ Len(wire) > 0
      /\ Head(wire) = wire[1] /\ closeCount \in Nat /\ DOMAIN wire = 1..Len(wire)
      /\ 1 \in 1..Len(wire)
  <2>1. wire # << >> /\ wire \in Seq(Request) /\ closeCount \in Nat
    BY DEF ServerRefuses, WireOK, WireOrdered, PartsOK, StreamOK
  <2>2. Len(wire) \in Nat /\ Len(wire) > 0 /\ Head(wire) = wire[1] /\ DOMAIN wire = 1..Len(wire)
    BY <2>1
  <2>3. 1 \in 1..Len(wire)
    BY <2>2
  <2> QED BY <2>1, <2>2, <2>3
<1>2. /\ wire[1].kind = "write" /\ wire' = SubSeq(wire, last + 1, Len(wire))
      /\ UNCHANGED <<server, queue, user, state, closeCount, handshake, answers, pipeline>>
      /\ closing' = IF ~(state = "Open" /\ wire[1].stream = closeCount) THEN closing
                    ELSE IF last = 1 THEN "read" ELSE "writing"
  BY <1>1 DEF ServerRefuses, Live, serverVars, storeVars, streamVars
<1>3. last \in S /\ \A i \in S : last >= i
  <2>1. S \in SUBSET (0..Len(wire)) /\ S # {}
    BY <1>1
  <2> HIDE DEF S
  <2> QED BY <1>1, <2>1, MaxBelow
<1>4. /\ last \in 1..Len(wire) /\ wire[last].stream = wire[1].stream
      /\ \A i \in 1..Len(wire) : wire[i].stream = wire[1].stream => i <= last
  <2>1. last \in 1..Len(wire) /\ wire[last].stream = wire[1].stream
    BY <1>1, <1>3
  <2>2. ASSUME NEW i \in 1..Len(wire), wire[i].stream = wire[1].stream PROVE i <= last
    <3>1. i \in S
      BY <1>1, <2>2
    <3>2. last >= i
      BY <1>3, <3>1
    <3> HIDE DEF last
    <3> QED BY <2>1, <3>2
  <2> QED BY <2>1, <2>2
<1> HIDE DEF last
<1>5. last \in Nat /\ last > 0 /\ last <= Len(wire)
  BY <1>1, <1>4
<1>6. /\ WireOrdered' /\ WireMatches' /\ ServerOK'
      /\ Len(wire') = Len(wire) - last
      /\ \A i \in 1..Len(wire') : i + last \in 1..Len(wire) /\ wire'[i] = wire[i + last]
  <2>1. WireOrdered /\ WireMatches /\ UNCHANGED <<server, queue, closeCount>>
    BY <1>2 DEF WireOK
  <2>2. ServerOK'
    BY <1>2 DEF WireOK, ServerOK
  <2> QED BY <1>2, <1>4, <2>1, <2>2, StreamRefused
<1>7. CASE state # "Open"
  BY <1>1, <1>2, <1>5, <1>6, <1>7, ServedBefore
<1>8. CASE state = "Open" /\ Asked
  <2>1. Len(wire) # 1 /\ wire[Len(wire)].stream = closeCount
    BY <1>2, <1>8 DEF Asked
  <2>2. wire[1].stream # closeCount
    BY <1>1, <1>8, <2>1, AskedLast DEF WireOK
  <2>3. closing' = closing /\ Len(wire) > last
    <3>1. last # Len(wire)
      BY <1>4, <2>1, <2>2
    <3>2. Len(wire) \in Nat
      BY <1>1
    <3> QED BY <1>2, <1>5, <2>2, <3>1, <3>2
  <2> QED BY <1>1, <1>2, <1>5, <1>6, <1>8, <2>3, ServedBefore
<1>9. CASE state = "Open" /\ Greeted
  BY <1>1, <1>9 DEF Greeted
<1>10. CASE state = "Open" /\ Writing
  <2>1. wire[1].stream = closeCount /\ wire[Len(wire)].stream = closeCount
        /\ Len(wire) \in 1..Len(wire)
    <3>1. Len(wire) \in 1..Len(wire)
      BY <1>1
    <3> QED BY <1>1, <1>10, <3>1 DEF Writing
  <2>2. wire' = << >>
    <3>1. last = Len(wire)
      <4>1. Len(wire) <= last
        BY <1>4, <2>1
      <4>2. Len(wire) \in Nat
        BY <1>1
      <4> QED BY <1>5, <4>1, <4>2
    <3>2. Len(wire') = 0 /\ wire' \in Seq(Request)
      BY <1>1, <1>6, <3>1 DEF WireOrdered
    <3> QED BY <3>2
  <2>3. closing' # Nothing
    BY <1>2, <1>10, <2>1, AbsentAssumption
  <2>4. Len(answers) < Len(pipeline) /\ answers \in Seq(Answer)
    <3>1. /\ Len(answers) + Len(wire) = Len(pipeline) /\ answers \in Seq(Answer)
      BY <1>1, <1>10 DEF Writing
    <3>2. Len(answers) \in Nat
      BY <3>1
    <3> QED BY <1>1, <3>1, <3>2
  <2>5. \A i \in 1..Len(wire') : FALSE
    BY <2>2
  <2>6. Writing'
    BY <1>2, <1>10, <2>2, <2>3, <2>4, <2>5 DEF Writing
  <2> QED BY <1>2, <1>6, <1>10, <2>6 DEF WireOK, OpenOK
<1> QED BY <1>7, <1>8, <1>9, <1>10 DEF WireOK, OpenOK

\* The handshake is answered: the whole pipeline is written.
LEMMA WireStarts ==
    ASSUME PartsOK, PartsOK', WireOK, HandshakeComplete
    PROVE  WireOK'
<1>1. /\ state = "Open" /\ answers # << >> /\ ~handshake
      /\ UNCHANGED <<server, closing, user, queue, closeCount, state, pipeline>>
      /\ handshake' = TRUE /\ answers' = Tail(answers)
      /\ Send(WriteRequests(pipeline))
  BY DEF HandshakeComplete, Answered, serverVars, storeVars
<1>2. Greeted
  BY <1>1 DEF WireOK, OpenOK, Asked, Writing
<1>3. /\ answers' = << >> /\ closing = Nothing /\ wire = << >>
      /\ server = [user |-> user, applied |-> 0]
      /\ wire' = << >> \o WriteRequests(pipeline)
  BY <1>1, <1>2 DEF Greeted, Send, WireOK, ServerOK
<1>4. pipeline = Begin(queue[user]) /\ pipeline \in Seq(Batch) /\ closeCount \in Nat
  <2>1. pipeline = Begin(queue[user]) /\ queue[user] \in Seq(Batch) /\ closeCount \in Nat
    BY <1>1, PresentQueue DEF PartsOK, StreamOK, NetworkOff, Started
  <2> QED BY <2>1, RoomBounds
<1>5. Fits(<< >>, << >>, << >>, closeCount) /\ Len(<< >>) + Len(<< >>) = Len(<< >>)
  <2>1. << >> \in Seq(Answer) /\ << >> \in Seq(Request) /\ << >> \in Seq(Batch)
    OBVIOUS
  <2>2. Len(<< >>) = 0
    OBVIOUS
  <2>3. \A i \in 1..Len(<< >>) : FALSE
    BY <2>2
  <2> QED BY <2>1, <2>2, <2>3 DEF Fits
<1>6. /\ Len(<< >>) + Len(<< >> \o WriteRequests(pipeline)) = Len(<< >> \o pipeline)
      /\ Fits(<< >>, << >> \o WriteRequests(pipeline), << >> \o pipeline, closeCount)
  BY <1>4, <1>5, RequestsJoin
<1>7. << >> \o pipeline = pipeline'
  BY <1>1, <1>4, ConcatEmptySeq
<1>8. Fits(answers', wire', pipeline', closeCount') /\ Len(answers') + Len(wire') = Len(pipeline')
  BY <1>1, <1>3, <1>6, <1>7
<1>9. /\ Len(answers') <= Len(pipeline') /\ closing' = Nothing /\ state' = "Open"
      /\ server' = [user |-> user', applied |-> Len(answers')]
  <2>1. Len(answers') = 0
    BY <1>3
  <2>2. Len(pipeline') \in Nat
    BY <1>1, <1>4
  <2>3. Len(answers') <= Len(pipeline')
    BY <2>1, <2>2
  <2>4. server' = [user |-> user', applied |-> Len(answers')]
    BY <1>1, <1>3, <2>1
  <2> QED BY <1>1, <1>3, <2>3, <2>4
<1> QED BY <1>1, <1>8, <1>9, Carried

\* A response is taken for the first batch of the pipeline, which it is for.
LEMMA WireAnswered ==
    ASSUME PartsOK, PartsOK', WireOK, MutationResult
    PROVE  WireOK'
<1> DEFINE q == queue[user]
           n == Len(answers)
           t == Tail(pipeline)
<1>1. /\ handshake /\ state = "Open" /\ pipeline # << >> /\ answers # << >>
      /\ UNCHANGED <<user, closing, enabled, closeCount, handshake>>
      /\ answers' = Tail(answers)
      /\ server' = [server EXCEPT !.applied = @ - 1]
      /\ Settle(Head(pipeline), TRUE) /\ UNCHANGED <<nextId, issued>>
      /\ FillWritePipeline(t, queue'[user], state)
  BY DEF MutationResult, Answered
<1>2. /\ Writing /\ enabled /\ pipeline = Begin(q) /\ Ordered(q) /\ q \in Seq(Batch)
      /\ pipeline \in Seq(Batch) /\ Len(pipeline) \in Nat /\ wire \in Seq(Request)
      /\ n \in Nat /\ Len(wire) \in Nat
      /\ \A i \in 1..Len(wire) : /\ n + i \in 1..Len(pipeline)
                                 /\ wire[i].write = pipeline[n + i].write
  BY <1>1, Carries, PresentQueue DEF PartsOK
<1>3. q # << >>
  BY <1>1, <1>2, RoomBounds
<1>4. /\ Head(pipeline) = Head(q) /\ t = SubSeq(Tail(q), 1, Room(q) - 1)
      /\ Room(q) - 1 \in 0..Room(Tail(q)) /\ Ordered(Tail(q))
  BY <1>2, <1>3, HeadLeaves
<1>5. queue'[user'] = Tail(q)
  BY <1>1, <1>3, <1>4, HeadSettled DEF PartsOK
<1>6. Joining(t, queue'[user']) \in Seq(Batch)
  BY <1>4, <1>5, Joined
<1>7. /\ answers' \in Seq(Answer) /\ Len(answers') = n - 1
      /\ \A i \in 1..Len(answers') : answers'[i] = answers[i + 1]
  BY <1>1, <1>2, HeadTailProperties DEF Writing
<1>8. /\ t \in Seq(Batch) /\ Len(t) = Len(pipeline) - 1
      /\ \A i \in 1..Len(t) : t[i] = pipeline[i + 1]
  BY <1>1, <1>2, HeadTailProperties
<1>9. n > 0 /\ n \in Nat /\ Len(pipeline) \in Nat /\ n <= Len(pipeline) /\ Len(wire) \in Nat
  <2>1. answers \in Seq(Answer)
    BY <1>2 DEF Writing
  <2>2. n > 0
    BY <1>1, <2>1
  <2> QED BY <1>2, <2>2 DEF Writing
<1> HIDE DEF n, t, q
<1>10. Fits(answers', wire, t, closeCount)
  <2>1. ASSUME NEW i \in 1..Len(answers') PROVE answers'[i].write = t[i].write
    <3>1. i + 1 \in 1..n /\ i \in 1..Len(t)
      BY <1>7, <1>8, <1>9
    <3>2. answers[i + 1].write = pipeline[i + 1].write
      BY <1>2, <3>1 DEF Writing, n
    <3> QED BY <1>7, <1>8, <3>1, <3>2
  <2>2. ASSUME NEW i \in 1..Len(wire) PROVE wire[i].write = t[Len(answers') + i].write
    <3>1. n + i \in 1..Len(pipeline) /\ i \in Nat /\ i >= 1
      BY <1>2, <1>9
    <3>2. Len(answers') + i \in 1..Len(t) /\ (Len(answers') + i) + 1 = n + i
      BY <1>7, <1>8, <1>9, <3>1
    <3> QED BY <1>2, <1>8, <3>2
  <2>3. \A i \in 1..Len(wire) : wire[i].kind = "write" /\ wire[i].stream = closeCount
    BY <1>2 DEF Writing
  <2> QED BY <1>2, <1>7, <1>8, <2>1, <2>2, <2>3 DEF Fits
<1>11. server' = [user |-> user', applied |-> Len(answers')]
  <2>1. server.user = user /\ server.applied = n
    BY <1>2 DEF Writing, n
  <2> QED BY <1>1, <1>7, <2>1 DEF WireOK, ServerOK
<1>12. IF closing = Nothing THEN Len(answers') + Len(wire) = Len(t)
       ELSE wire = << >> /\ Len(answers') < Len(t)
  <2>1. IF closing = Nothing THEN n + Len(wire) = Len(pipeline)
        ELSE wire = << >> /\ n < Len(pipeline)
    BY <1>2 DEF Writing, n
  <2>2. Len(answers') = n - 1 /\ Len(t) = Len(pipeline) - 1
    BY <1>7, <1>8
  <2> QED BY <1>9, <2>1, <2>2
<1>13. FillWritePipeline(t, queue'[user'], state) /\ enabled'
  BY <1>1, <1>2
<1> QED BY <1>1, <1>6, <1>10, <1>11, <1>12, <1>13, FilledWire

\* The status arrives, or the process starts again: nothing is on the wire.
LEMMA WireCleared ==
    ASSUME PartsOK, WireOK, StreamClosed \/ Restart
    PROVE  WireOK'
<1>1. CASE StreamClosed
  <2>1. closing # Nothing /\ state = "Open"
    BY <1>1 DEF StreamClosed
  <2>2. Writing /\ wire = << >>
    BY <2>1 DEF WireOK, OpenOK, Asked, Greeted, Writing
  <2>3. /\ wire' = << >> /\ server' = server /\ ~handshake' /\ answers' = << >>
        /\ closing' = Nothing
    BY <1>1, <2>2 DEF StreamClosed, CloseWith, serverVars
  <2>4. state' # "Open"
    BY <1>1 DEF StreamClosed, CloseWith, StartIfNeeded
  <2>5. ServerOK'
    BY <2>3 DEF WireOK, ServerOK
  <2> QED BY <2>3, <2>4, <2>5, WireEmpty
<1>2. CASE Restart
  <2>1. /\ wire' = << >> /\ server' = [server EXCEPT !.applied = 0] /\ ~handshake'
        /\ answers' = << >> /\ closing' = Nothing /\ state' # "Open"
    BY <1>2 DEF Restart
  <2>2. 0 \in 0..Window
    BY BoundsAssumption
  <2>3. ServerOK'
    BY <2>1, <2>2 DEF WireOK, ServerOK
  <2> QED BY <2>1, <2>3, WireEmpty
<1> QED BY <1>1, <1>2

\* At the start nothing is on the wire.
LEMMA WireInit == Init => WireOK
<1> SUFFICES ASSUME Init PROVE WireOK
  OBVIOUS
<1> USE DEF Init
<1>1. wire \in Seq(Request) /\ Len(wire) = 0 /\ 0 \in 0..Window
  BY BoundsAssumption
<1>2. (\A i \in 1..Len(wire) : FALSE) /\ (\A i \in 2..Len(wire) : FALSE)
  BY <1>1
<1>3. WireOrdered
  BY <1>1, <1>2 DEF WireOrdered
<1>4. WireMatches /\ OpenOK
  BY <1>2 DEF WireMatches, OpenOK, Unopened
<1>5. ServerOK
  BY <1>1, BoundsAssumption DEF ServerOK
<1> QED BY <1>3, <1>4, <1>5 DEF WireOK

\* Every step keeps the wire as it should be.
LEMMA WireNext ==
    ASSUME PartsOK, WireOK, [Next]_vars
    PROVE  PartsOK' /\ WireOK'
<1>1. PartsOK'
  BY NextOK
<1>2. CASE WriteMutations
  BY <1>1, <1>2, WireWritten
<1>3. CASE WaitForPendingWrites \/ RunHandler \/ BackoffElapsed \/ UNCHANGED vars
  BY <1>1, <1>3, WireQuiet
<1>4. CASE \E u \in User : HandleCredentialChange(u)
  BY <1>1, <1>4, WireStops, WireQuiet
<1>5. CASE ConnectivityChanged \/ DisableNetwork \/ IdleTimeout \/ ConnectionBreaks \/ TokenFails
  BY <1>1, <1>5, WireStops
<1>6. CASE EnableNetwork
  BY <1>1, <1>6, WireEnabled
<1>7. CASE \E c \in tokens : ResumeStartWithCredentials(c)
  BY <1>1, <1>7, WireToken
<1>8. CASE HandshakeComplete
  BY <1>1, <1>8, WireStarts
<1>9. CASE MutationResult
  BY <1>1, <1>9, WireAnswered
<1>10. CASE StreamClosed \/ Restart
  BY <1>1, <1>10, WireCleared
<1>11. CASE ServerHandshake
  BY <1>1, <1>11, WireGreeted
<1>12. CASE ServerApplies
  BY <1>1, <1>12, WireApplied
<1>13. CASE ServerRefuses
  BY <1>1, <1>13, WireRefused
<1>14. WireOK'
  BY <1>2, <1>3, <1>4, <1>5, <1>6, <1>7, <1>8, <1>9, <1>10, <1>11, <1>12, <1>13 DEF Next
<1> QED BY <1>1, <1>14

\* The invariant: queues and stream, and the wire.
LEMMA WireInductive == Spec => [](PartsOK /\ WireOK)
<1>1. Init => PartsOK /\ WireOK
  BY InitOK, WireInit DEF PartsOK
<1>2. (PartsOK /\ WireOK) /\ [Next]_vars => (PartsOK /\ WireOK)'
  BY WireNext
<1> QED BY <1>1, <1>2, PTL DEF Spec

-----------------------------------------------------------------------------
(* A response is that of the first batch of the pipeline                   *)

\* The least of a set of numbers is what Min returns.
LEMMA MinIsLeast ==
    ASSUME NEW S \in SUBSET Int, NEW m \in S, \A y \in S : m <= y
    PROVE  Min(S) = m
<1> DEFINE Bottom(x) == x \in S /\ \A y \in S : x =< y
<1>1. Bottom(m)
  OBVIOUS
<1>2. ASSUME NEW x, Bottom(x) PROVE x = m
  <2>1. x \in Int /\ m \in Int /\ x <= m /\ m <= x
    BY <1>2
  <2> QED BY <2>1
<1>3. Min(S) = CHOOSE x : Bottom(x)
  BY DEF Min
<1> HIDE DEF Bottom
<1>4. (CHOOSE x : Bottom(x)) = m
  BY <1>1, <1>2
<1> QED BY <1>3, <1>4

\* What is on the wire of a stream that writes is all of that stream.
LEMMA WireWhole ==
    ASSUME wire \in Seq(Request), \A i \in 1..Len(wire) : wire[i].stream = closeCount
    PROVE  LET first == Min({i \in DOMAIN wire : wire[i].stream = closeCount} \cup {Len(wire) + 1})
           IN  SubSeq(wire, first, Len(wire)) = wire
<1> DEFINE S == {i \in DOMAIN wire : wire[i].stream = closeCount} \cup {Len(wire) + 1}
<1>1. Len(wire) \in Nat /\ DOMAIN wire = 1..Len(wire)
  OBVIOUS
<1>2. S = 1..Len(wire) + 1
  BY <1>1
<1>3. Min(S) = 1
  <2>1. S \in SUBSET Int /\ 1 \in S /\ \A y \in S : 1 <= y
    BY <1>1, <1>2
  <2> HIDE DEF S
  <2> QED BY <2>1, MinIsLeast
<1> HIDE DEF S
<1>4. SubSeq(wire, 1, Len(wire)) = wire
  BY SubSeqFull
<1> QED BY <1>3, <1>4 DEF S

\* The writes of a sequence of answers, requests or batches.
LEMMA WritesIn ==
    ASSUME NEW s, NEW n \in Nat, DOMAIN s = 1..n,
           \A i \in 1..n : s[i].write \in 1..MaxWrites
    PROVE  LET w == [i \in DOMAIN s |-> s[i].write]
           IN  /\ w \in Seq(1..MaxWrites) /\ Len(w) = n
               /\ \A i \in 1..n : w[i] = s[i].write
OBVIOUS

\* What the server has answered and has yet to read is the pipeline.
LEMMA DueHeld ==
    ASSUME PartsOK, WireOK, state = "Open", handshake
    PROVE  LET due == [i \in DOMAIN answers |-> answers[i].write]
                      \o [i \in DOMAIN wire |-> wire[i].write]
               held == [i \in DOMAIN pipeline |-> pipeline[i].write]
           IN  IF closing = Nothing THEN due = held ELSE IsPrefix(due, held)
<1> DEFINE a == [i \in DOMAIN answers |-> answers[i].write]
           w == [i \in DOMAIN wire |-> wire[i].write]
           due == a \o w
           held == [i \in DOMAIN pipeline |-> pipeline[i].write]
<1>1. /\ Writing /\ pipeline \in Seq(Batch) /\ Len(pipeline) \in Nat
      /\ wire \in Seq(Request) /\ Len(wire) \in Nat /\ Len(answers) \in Nat
      /\ \A i \in 1..Len(wire) : /\ Len(answers) + i \in 1..Len(pipeline)
                                 /\ wire[i].write = pipeline[Len(answers) + i].write
  BY Carries
<1>2. /\ held \in Seq(1..MaxWrites) /\ Len(held) = Len(pipeline)
      /\ \A i \in 1..Len(pipeline) : held[i] = pipeline[i].write
  <2>1. \A i \in 1..Len(pipeline) : pipeline[i] \in Batch
    BY <1>1
  <2>2. DOMAIN pipeline = 1..Len(pipeline)
    BY <1>1
  <2>3. \A i \in 1..Len(pipeline) : pipeline[i].write \in 1..MaxWrites
    BY <2>1 DEF Batch
  <2> QED BY <1>1, <2>2, <2>3, WritesIn
<1>3. /\ a \in Seq(1..MaxWrites) /\ Len(a) = Len(answers)
      /\ \A i \in 1..Len(answers) : a[i] = answers[i].write
  <2>1. answers \in Seq(Answer)
    BY <1>1 DEF Writing
  <2>2. DOMAIN answers = 1..Len(answers) /\ \A i \in 1..Len(answers) : answers[i] \in Answer
    BY <2>1
  <2>3. \A i \in 1..Len(answers) : answers[i].write \in 1..MaxWrites
    BY <2>2 DEF Answer
  <2> QED BY <1>1, <2>2, <2>3, WritesIn
<1>4. /\ w \in Seq(1..MaxWrites) /\ Len(w) = Len(wire)
      /\ \A i \in 1..Len(wire) : w[i] = wire[i].write
  <2>1. DOMAIN wire = 1..Len(wire)
    BY <1>1
  <2>2. \A i \in 1..Len(wire) : wire[i].write \in 1..MaxWrites
    BY <1>1, Requests DEF Writing
  <2> QED BY <1>1, <2>1, <2>2, WritesIn
<1> HIDE DEF a, w, held
<1>5. /\ due \in Seq(1..MaxWrites) /\ Len(due) = Len(answers) + Len(wire)
      /\ \A i \in 1..Len(answers) + Len(wire) :
            due[i] = IF i <= Len(answers) THEN a[i] ELSE w[i - Len(answers)]
  <2>1. a \in Seq(1..MaxWrites) /\ w \in Seq(1..MaxWrites)
    BY <1>3, <1>4
  <2>2. /\ due \in Seq(1..MaxWrites) /\ Len(due) = Len(a) + Len(w)
        /\ \A i \in 1..Len(a) + Len(w) :
              due[i] = IF i <= Len(a) THEN a[i] ELSE w[i - Len(a)]
    BY <2>1, ConcatProperties
  <2>3. Len(a) = Len(answers) /\ Len(w) = Len(wire)
    BY <1>3, <1>4
  <2> HIDE DEF due
  <2> QED BY <2>2, <2>3
<1> HIDE DEF due
<1>6. /\ Len(answers) \in Nat /\ Len(wire) \in Nat /\ Len(pipeline) \in Nat
      /\ Len(answers) + Len(wire) <= Len(pipeline)
      /\ closing = Nothing => Len(answers) + Len(wire) = Len(pipeline)
  <2>1. Len(<< >>) = 0
    OBVIOUS
  <2>2. /\ closing = Nothing => Len(answers) + Len(wire) = Len(pipeline)
        /\ closing # Nothing => Len(wire) = 0 /\ Len(answers) < Len(pipeline)
    BY <1>1, <2>1 DEF Writing
  <2>3. Len(answers) \in Nat /\ Len(wire) \in Nat /\ Len(pipeline) \in Nat
    BY <1>1
  <2> QED BY <2>2, <2>3
<1>7. ASSUME NEW i \in 1..Len(due) PROVE due[i] = held[i]
  <2>0. /\ i \in Nat /\ i >= 1 /\ i <= Len(answers) + Len(wire)
        /\ i \in 1..Len(answers) + Len(wire)
    BY <1>5, <1>6
  <2>1. i \in 1..Len(pipeline)
    <3>1. /\ Len(answers) \in Nat /\ Len(wire) \in Nat /\ Len(pipeline) \in Nat
          /\ Len(answers) + Len(wire) <= Len(pipeline)
      BY <1>6
    <3>2. i \in Nat /\ i >= 1 /\ i <= Len(answers) + Len(wire)
      BY <2>0
    <3> QED BY <3>1, <3>2
  <2>2. CASE i <= Len(answers)
    <3>1. i \in 1..Len(answers)
      BY <2>0, <1>6, <2>2
    <3>2. answers[i].write = pipeline[i].write
      BY <1>1, <3>1 DEF Writing
    <3> QED BY <1>2, <1>3, <1>5, <2>0, <2>1, <2>2, <3>1, <3>2
  <2>3. CASE ~(i <= Len(answers))
    <3>1. i - Len(answers) \in 1..Len(wire) /\ Len(answers) + (i - Len(answers)) = i
      BY <1>6, <2>0, <2>3
    <3>2. wire[i - Len(answers)].write = pipeline[i].write
      BY <1>1, <3>1
    <3>3. due[i] = w[i - Len(answers)]
      BY <1>5, <2>0, <2>3
    <3> QED BY <1>2, <1>4, <2>1, <3>1, <3>2, <3>3
  <2> QED BY <2>2, <2>3
<1>8. /\ Len(due) \in Nat /\ Len(due) <= Len(held)
      /\ closing = Nothing => Len(due) = Len(held)
  BY <1>2, <1>5, <1>6
<1>9. closing = Nothing => due = held
  <2>1. due \in Seq(1..MaxWrites) /\ held \in Seq(1..MaxWrites)
    BY <1>2, <1>5
  <2> QED BY <1>7, <1>8, <2>1, SeqEqual
<1>10. IsPrefix(due, held)
  <2>1. Len(due) \in Nat /\ Len(due) <= Len(held) /\ Len(held) \in Nat
    <3>1. Len(held) = Len(pipeline) /\ Len(pipeline) \in Nat
      BY <1>2, <1>6
    <3> QED BY <1>8, <3>1
  <2>2. \A i \in 1..Len(due) : i \in 1..Len(held)
    BY <2>1
  <2>3. /\ SubSeq(held, 1, Len(due)) \in Seq(1..MaxWrites)
        /\ Len(SubSeq(held, 1, Len(due))) = Len(due)
        /\ \A i \in 1..Len(due) : SubSeq(held, 1, Len(due))[i] = held[i]
    <3>0. \A i \in 1..Len(held) : held[i] \in 1..MaxWrites
      <4>1. held \in Seq(1..MaxWrites)
        BY <1>2
      <4> QED BY <4>1, ElementOfSeq
    <3>1. \A i \in 1..Len(due) : held[i] \in 1..MaxWrites
      BY <2>2, <3>0
    <3> QED BY <2>1, <3>1, SubSeqProperties
  <2>4. SubSeq(held, 1, Len(due)) = due
    BY <1>5, <1>7, <2>3, SeqEqual
  <2>5. SubSeq(due, 1, Len(due)) = due
    BY <1>5, SubSeqFull
  <2> QED BY <2>1, <2>4, <2>5 DEF IsPrefix
<1> QED BY <1>9, <1>10 DEF due, a, w, held

\* A response carries no id: that it belongs to the first batch of the pipeline
\* (OnWriteStreamMutationResult) holds for every window and any number of
\* accounts, writes, breaks, refusals and restarts.
THEOREM AnswersRight == Spec => []AnswersMatch
<1>1. ASSUME PartsOK, WireOK PROVE AnswersMatch
  <2>1. ASSUME state = "Open", handshake
        PROVE  /\ wire \in Seq(Request)
               /\ \A i \in 1..Len(wire) : wire[i].kind = "write" /\ wire[i].stream = closeCount
    BY <1>1, <2>1, Carries DEF Writing
  <2>2. ASSUME state = "Open", handshake
        PROVE  LET first == Min({i \in DOMAIN wire : wire[i].stream = closeCount}
                                    \cup {Len(wire) + 1})
               IN  SubSeq(wire, first, Len(wire)) = wire
    BY <2>1, <2>2, WireWhole
  <2>3. ASSUME state = "Open", handshake
        PROVE  LET due == [i \in DOMAIN answers |-> answers[i].write]
                          \o [i \in DOMAIN wire |-> wire[i].write]
                   held == [i \in DOMAIN pipeline |-> pipeline[i].write]
               IN  IF closing = Nothing THEN due = held ELSE IsPrefix(due, held)
    BY <1>1, <2>3, DueHeld
  <2>4. server \in [user : User, applied : 0..Window]
    BY <1>1 DEF WireOK, ServerOK
  <2>5. ASSUME state = "Open", handshake
        PROVE  \A i \in DOMAIN wire : wire[i].kind = "write"
    BY <2>1, <2>5
  <2> QED BY <2>2, <2>3, <2>4, <2>5 DEF AnswersMatch
<1> QED BY <1>1, WireInductive, PTL

-----------------------------------------------------------------------------
(* The handlers that are due                                               *)

\* An entry of the main queue, and a handler as the abstract client has it.
Entry ==
    [kind : {"written"}, user : User, write : 1..MaxWrites, ok : BOOLEAN]
        \cup [kind : {"waited"}, user : User, writes : SUBSET (1..MaxWrites), ok : BOOLEAN]
Due == [do : {"written", "refused"}, write : 1..MaxWrites]

\* An entry that is a handler of that account.
For(u, e) == e.kind = "written" /\ e.user = u

\* HandlersOf's recursive function exists, so it is what its equation says.
LEMMA HandlersSteps ==
    ASSUME NEW u, NEW s, Len(s) \in Nat
    PROVE  \E due :
              /\ due[0] = << >>
              /\ \A n \in 1..Len(s) :
                    due[n] = IF For(u, s[n]) THEN Append(due[n - 1], DueHandler(s[n]))
                             ELSE due[n - 1]
              /\ HandlersOf(u, s) = due[Len(s)]
<1> DEFINE Step(f, n) == IF n = 0 THEN << >>
                         ELSE IF s[n].kind = "written" /\ s[n].user = u
                              THEN Append(f[n - 1], DueHandler(s[n])) ELSE f[n - 1]
           Upto(f, n) == f = [i \in 0..n |-> Step(f, i)]
           Good == {n \in Nat : \E f : Upto(f, n)}
<1>1. 0 \in Good
  <2>1. Upto([i \in 0..0 |-> << >>], 0)
    OBVIOUS
  <2> QED BY <2>1
<1>2. ASSUME NEW k \in 0..Len(s) - 1, k \in Good PROVE k + 1 \in Good
  <2>1. PICK g : Upto(g, k)
    BY <1>2
  <2>2. k \in Nat /\ k + 1 \in Nat /\ k + 1 # 0 /\ (k + 1) - 1 = k
    OBVIOUS
  <2> DEFINE f == [i \in 0..k + 1 |-> IF i = k + 1 THEN Step(g, k + 1) ELSE g[i]]
  <2>3. Upto(f, k + 1)
    <3>1. ASSUME NEW i \in 0..k + 1 PROVE f[i] = Step(f, i)
      <4>1. CASE i = k + 1
        <5>1. k \in 0..k + 1 /\ k # k + 1 /\ i - 1 = k
          BY <2>2, <4>1
        <5>2. f[k] = g[k] /\ f[i] = Step(g, k + 1)
          BY <4>1, <5>1
        <5> QED BY <2>2, <4>1, <5>1, <5>2
      <4>2. CASE i # k + 1
        <5>1. i \in 0..k /\ (i # 0 => i - 1 \in 0..k + 1 /\ i - 1 # k + 1)
          BY <2>2, <4>2
        <5>2. f[i] = g[i] /\ (i # 0 => f[i - 1] = g[i - 1])
          BY <4>2, <5>1
        <5>3. g[i] = Step(g, i)
          BY <2>1, <5>1
        <5> HIDE DEF f
        <5> QED BY <5>2, <5>3
      <4> QED BY <4>1, <4>2
    <3> QED BY <3>1
  <2> HIDE DEF Upto, f
  <2> QED BY <2>2, <2>3
<1>3. Len(s) \in 0..Len(s)
  OBVIOUS
<1>4. Len(s) \in Good
  <2> HIDE DEF Good
  <2> QED BY <1>1, <1>2, <1>3, Climb
<1> DEFINE due == CHOOSE f : Upto(f, Len(s))
<1>5. Upto(due, Len(s))
  BY <1>4
<1>6. HandlersOf(u, s) = due[Len(s)]
  BY DEF HandlersOf
<1> HIDE DEF due
<1>7. due[0] = << >>
  BY <1>5
<1>8. ASSUME NEW n \in 1..Len(s)
      PROVE  due[n] = IF For(u, s[n]) THEN Append(due[n - 1], DueHandler(s[n])) ELSE due[n - 1]
  <2>1. n \in 0..Len(s) /\ n # 0
    OBVIOUS
  <2>2. due[n] = Step(due, n)
    BY <1>5, <2>1
  <2> QED BY <2>1, <2>2 DEF For
<1> QED BY <1>6, <1>7, <1>8

\* What an entry's handler is.
LEMMA DueIsDue ==
    ASSUME NEW e \in Entry, e.kind = "written"
    PROVE  /\ DueHandler(e) \in Due
           /\ DueHandler(e) = [do |-> IF e.ok THEN "written" ELSE "refused", write |-> e.write]
<1>1. e.write \in 1..MaxWrites /\ e.ok \in BOOLEAN
  BY DEF Entry
<1> QED BY <1>1 DEF DueHandler, Handler, Due

\* One more behind two sequences is one more behind the second.
LEMMA AppendBehind ==
    ASSUME NEW p \in Seq(Due), NEW q \in Seq(Due), NEW h \in Due
    PROVE  Append(p \o q, h) = p \o Append(q, h)
<1>1. p \o q \in Seq(Due) /\ << h >> \in Seq(Due)
  BY ConcatProperties
<1>2. Append(p \o q, h) = (p \o q) \o << h >> /\ Append(q, h) = q \o << h >>
  BY <1>1, AppendIsConcat
<1>3. (p \o q) \o << h >> = p \o (q \o << h >>)
  BY <1>1, ConcatAssociative
<1> QED BY <1>2, <1>3

\* The handlers of a queue are those of its parts in turn.
LEMMA HandlersConcat ==
    ASSUME NEW u, NEW s \in Seq(Entry), NEW t \in Seq(Entry)
    PROVE  /\ HandlersOf(u, s) \in Seq(Due)
           /\ HandlersOf(u, s \o t) = HandlersOf(u, s) \o HandlersOf(u, t)
<1> DEFINE m == Len(s)
           l == Len(t)
           st == s \o t
<1>1. m \in Nat /\ l \in Nat
  OBVIOUS
<1>2. /\ Len(st) = m + l /\ Len(st) \in Nat
      /\ \A i \in 1..m + l : st[i] = IF i <= m THEN s[i] ELSE t[i - m]
  <2>1. /\ Len(st) = m + l /\ \A i \in 1..m + l : st[i] = IF i <= m THEN s[i] ELSE t[i - m]
    BY ConcatProperties
  <2> QED BY <1>1, <2>1
<1>3. (\A i \in 1..m : s[i] \in Entry) /\ (\A i \in 1..l : t[i] \in Entry)
  OBVIOUS
<1> HIDE DEF m, l, st
<1>4. PICK a : /\ a[0] = << >>
               /\ \A n \in 1..m : a[n] = IF For(u, s[n]) THEN Append(a[n - 1], DueHandler(s[n]))
                                         ELSE a[n - 1]
               /\ HandlersOf(u, s) = a[m]
  BY <1>1, HandlersSteps DEF m
<1>5. PICK b : /\ b[0] = << >>
               /\ \A n \in 1..l : b[n] = IF For(u, t[n]) THEN Append(b[n - 1], DueHandler(t[n]))
                                         ELSE b[n - 1]
               /\ HandlersOf(u, t) = b[l]
  BY <1>1, HandlersSteps DEF l
<1>6. PICK c : /\ c[0] = << >>
               /\ \A n \in 1..Len(st) :
                     c[n] = IF For(u, st[n]) THEN Append(c[n - 1], DueHandler(st[n]))
                            ELSE c[n - 1]
               /\ HandlersOf(u, st) = c[Len(st)]
  BY <1>2, HandlersSteps
<1>7. \A n \in 0..m : n \in {k \in Nat : a[k] \in Seq(Due) /\ c[k] = a[k]}
  <2> DEFINE S == {k \in Nat : a[k] \in Seq(Due) /\ c[k] = a[k]}
  <2>1. 0 \in S
    <3>1. << >> \in Seq(Due)
      OBVIOUS
    <3> QED BY <1>4, <1>6, <3>1
  <2>2. ASSUME NEW k \in 0..m - 1, k \in S PROVE k + 1 \in S
    <3>1. /\ k + 1 \in 1..m /\ k + 1 \in 1..m + l /\ k + 1 \in Nat /\ (k + 1) - 1 = k
          /\ k + 1 <= m
      BY <1>1
    <3>2. st[k + 1] = s[k + 1] /\ s[k + 1] \in Entry
      BY <1>2, <1>3, <3>1
    <3>3. a[k + 1] = IF For(u, s[k + 1]) THEN Append(a[k], DueHandler(s[k + 1])) ELSE a[k]
      BY <1>4, <3>1
    <3>4. c[k + 1] = IF For(u, s[k + 1]) THEN Append(c[k], DueHandler(s[k + 1])) ELSE c[k]
      BY <1>2, <1>6, <3>1, <3>2
    <3>5. a[k] \in Seq(Due) /\ c[k] = a[k]
      BY <2>2
    <3>6. a[k + 1] \in Seq(Due)
      <4>1. CASE For(u, s[k + 1])
        <5>1. DueHandler(s[k + 1]) \in Due
          BY <3>2, <4>1, DueIsDue DEF For
        <5> QED BY <3>3, <3>5, <4>1, <5>1, AppendProperties
      <4>2. CASE ~For(u, s[k + 1])
        BY <3>3, <3>5, <4>2
      <4> QED BY <4>1, <4>2
    <3>7. c[k + 1] = a[k + 1]
      BY <3>3, <3>4, <3>5
    <3> QED BY <3>1, <3>6, <3>7
  <2> HIDE DEF S
  <2>3. \A n \in 0..m : n \in S
    BY <1>1, <2>1, <2>2, Climb
  <2> QED BY <2>3 DEF S
<1>8. a[m] \in Seq(Due) /\ c[m] = a[m]
  <2>1. m \in 0..m
    BY <1>1
  <2> QED BY <1>7, <2>1
<1>9. \A n \in 0..l : n \in {k \in Nat : b[k] \in Seq(Due) /\ c[m + k] = a[m] \o b[k]}
  <2> DEFINE S == {k \in Nat : b[k] \in Seq(Due) /\ c[m + k] = a[m] \o b[k]}
  <2>1. 0 \in S
    <3>1. << >> \in Seq(Due) /\ a[m] \o << >> = a[m] /\ m + 0 = m
      BY <1>1, <1>8, ConcatEmptySeq
    <3> QED BY <1>5, <1>8, <3>1
  <2>2. ASSUME NEW k \in 0..l - 1, k \in S PROVE k + 1 \in S
    <3>1. /\ k + 1 \in 1..l /\ m + (k + 1) \in 1..m + l /\ k + 1 \in Nat /\ (k + 1) - 1 = k
          /\ ~(m + (k + 1) <= m) /\ (m + (k + 1)) - m = k + 1 /\ (m + (k + 1)) - 1 = m + k
      BY <1>1
    <3>2. st[m + (k + 1)] = t[k + 1] /\ t[k + 1] \in Entry
      BY <1>2, <1>3, <3>1
    <3>3. b[k + 1] = IF For(u, t[k + 1]) THEN Append(b[k], DueHandler(t[k + 1])) ELSE b[k]
      BY <1>5, <3>1
    <3>4. c[m + (k + 1)] = IF For(u, t[k + 1]) THEN Append(c[m + k], DueHandler(t[k + 1]))
                           ELSE c[m + k]
      BY <1>2, <1>6, <3>1, <3>2
    <3>5. b[k] \in Seq(Due) /\ c[m + k] = a[m] \o b[k]
      BY <2>2
    <3>6. CASE For(u, t[k + 1])
      <4> DEFINE h == DueHandler(t[k + 1])
      <4>1. h \in Due
        BY <3>2, <3>6, DueIsDue DEF For
      <4> HIDE DEF h
      <4>2. Append(b[k], h) \in Seq(Due)
        BY <3>5, <4>1, AppendProperties
      <4>3. Append(a[m] \o b[k], h) = a[m] \o Append(b[k], h)
        <5>1. a[m] \in Seq(Due) /\ b[k] \in Seq(Due)
          BY <1>8, <3>5
        <5> QED BY <4>1, <5>1, AppendBehind
      <4> QED BY <3>1, <3>3, <3>4, <3>5, <3>6, <4>2, <4>3 DEF h
    <3>7. CASE ~For(u, t[k + 1])
      BY <3>1, <3>3, <3>4, <3>5, <3>7
    <3> QED BY <3>6, <3>7
  <2> HIDE DEF S
  <2>3. \A n \in 0..l : n \in S
    BY <1>1, <2>1, <2>2, Climb
  <2> QED BY <2>3 DEF S
<1>10. l \in 0..l
  BY <1>1
<1>11. c[m + l] = a[m] \o b[l]
  BY <1>9, <1>10
<1> QED BY <1>2, <1>4, <1>5, <1>6, <1>8, <1>11 DEF st

\* The handler of one entry.
LEMMA HandlersOne ==
    ASSUME NEW u, NEW e \in Entry
    PROVE  HandlersOf(u, << e >>) = IF For(u, e) THEN << DueHandler(e) >> ELSE << >>
<1>1. Len(<< e >>) = 1 /\ << e >>[1] = e /\ Len(<< e >>) \in Nat
  OBVIOUS
<1>2. PICK due : /\ due[0] = << >>
                 /\ \A n \in 1..Len(<< e >>) :
                       due[n] = IF For(u, << e >>[n])
                                THEN Append(due[n - 1], DueHandler(<< e >>[n])) ELSE due[n - 1]
                 /\ HandlersOf(u, << e >>) = due[Len(<< e >>)]
  BY <1>1, HandlersSteps
<1>3. 1 \in 1..1 /\ 1 - 1 = 0
  OBVIOUS
<1>4. due[1] = IF For(u, e) THEN Append(<< >>, DueHandler(e)) ELSE << >>
  BY <1>1, <1>2, <1>3
<1>5. Append(<< >>, DueHandler(e)) = << DueHandler(e) >>
  OBVIOUS
<1> QED BY <1>1, <1>2, <1>4, <1>5

\* Entries that are not the account's leave its handlers alone.
LEMMA HandlersNone ==
    ASSUME NEW u, NEW s \in Seq(Entry), \A i \in 1..Len(s) : ~For(u, s[i])
    PROVE  HandlersOf(u, s) = << >>
<1>1. Len(s) \in Nat
  OBVIOUS
<1>2. PICK due : /\ due[0] = << >>
                 /\ \A n \in 1..Len(s) :
                       due[n] = IF For(u, s[n]) THEN Append(due[n - 1], DueHandler(s[n]))
                                ELSE due[n - 1]
                 /\ HandlersOf(u, s) = due[Len(s)]
  BY <1>1, HandlersSteps
<1> DEFINE S == {k \in Nat : due[k] = << >>}
<1>3. 0 \in S
  BY <1>2
<1>4. ASSUME NEW k \in 0..Len(s) - 1, k \in S PROVE k + 1 \in S
  <2>1. k + 1 \in 1..Len(s) /\ k + 1 \in Nat /\ (k + 1) - 1 = k
    BY <1>1
  <2>2. due[k + 1] = due[k]
    BY <1>2, <2>1
  <2> QED BY <1>4, <2>1, <2>2
<1>5. Len(s) \in 0..Len(s)
  BY <1>1
<1> HIDE DEF S
<1>6. Len(s) \in S
  BY <1>1, <1>3, <1>4, <1>5, Climb
<1> QED BY <1>2, <1>6 DEF S

\* Entries of waits join: no handler is due.
LEMMA WaitsJoin ==
    ASSUME NEW u, NEW s \in Seq(Entry), NEW t \in Seq(Entry), \A i \in 1..Len(t) : ~For(u, t[i])
    PROVE  HandlersOf(u, s \o t) = HandlersOf(u, s)
<1>1. HandlersOf(u, t) = << >>
  BY HandlersNone
<1>2. HandlersOf(u, s) \in Seq(Due) /\ HandlersOf(u, s \o t) = HandlersOf(u, s) \o HandlersOf(u, t)
  BY HandlersConcat
<1> QED BY <1>1, <1>2, ConcatEmptySeq

\* The entry that is due first is dealt with.
LEMMA HandlersTail ==
    ASSUME NEW u, NEW s \in Seq(Entry), s # << >>
    PROVE  IF For(u, Head(s))
           THEN /\ HandlersOf(u, s) # << >>
                /\ HandlersOf(u, Tail(s)) = Tail(HandlersOf(u, s))
           ELSE HandlersOf(u, Tail(s)) = HandlersOf(u, s)
<1>1. Head(s) \in Entry /\ Tail(s) \in Seq(Entry) /\ << Head(s) >> \in Seq(Entry)
  <2>1. Head(s) \in Entry /\ Tail(s) \in Seq(Entry)
    BY HeadTailProperties
  <2> QED BY <2>1
<1>2. s = << Head(s) >> \o Tail(s)
  OBVIOUS
<1>3. /\ HandlersOf(u, s) = HandlersOf(u, << Head(s) >>) \o HandlersOf(u, Tail(s))
      /\ HandlersOf(u, Tail(s)) \in Seq(Due)
  BY <1>1, <1>2, HandlersConcat
<1>4. HandlersOf(u, << Head(s) >>) =
         IF For(u, Head(s)) THEN << DueHandler(Head(s)) >> ELSE << >>
  BY <1>1, HandlersOne
<1>5. CASE ~For(u, Head(s))
  BY <1>3, <1>4, <1>5, ConcatEmptySeq
<1>6. CASE For(u, Head(s))
  <2> DEFINE h == DueHandler(Head(s))
             t == HandlersOf(u, Tail(s))
  <2>1. h \in Due /\ t \in Seq(Due) /\ HandlersOf(u, s) = << h >> \o t
    BY <1>1, <1>3, <1>4, <1>6, DueIsDue DEF For
  <2> HIDE DEF h, t
  <2>2. << h >> \o t # << >> /\ Tail(<< h >> \o t) = t
    BY <2>1
  <2> QED BY <1>6, <2>1, <2>2 DEF t
<1> QED BY <1>5, <1>6

-----------------------------------------------------------------------------
(* What becomes due in one step                                            *)

\* A sequence of the members of a finite set.
LEMMA SeqOfSet ==
    ASSUME NEW S, IsFiniteSet(S)
    PROVE  SetToSeq(S) \in Seq(S)
<1>1. /\ Cardinality(S) \in Nat
      /\ \E f \in [1..Cardinality(S) -> S] : IsInjective(f)
  BY FS_CardinalityType DEF ExistsBijection, Bijection, Injection, IsInjective
<1>2. SetToSeq(S) \in [1..Cardinality(S) -> S]
  BY <1>1 DEF SetToSeq
<1> QED BY <1>1, <1>2

\* Of a single one.
LEMMA SeqOfOne ==
    ASSUME NEW x
    PROVE  SetToSeq({x}) = << x >>
<1>1. IsFiniteSet({x}) /\ Cardinality({x}) = 1
  BY FS_Singleton
<1>2. \E f \in [1..1 -> {x}] : IsInjective(f)
  BY <1>1, FS_CardinalityType DEF ExistsBijection, Bijection, Injection, IsInjective
<1>3. SetToSeq({x}) \in [1..1 -> {x}]
  BY <1>1, <1>2 DEF SetToSeq
<1>4. \A f \in [1..1 -> {x}] : f = << x >>
  OBVIOUS
<1> QED BY <1>3, <1>4

\* Of none.
LEMMA SeqOfNone == SetToSeq({}) = << >>
<1>1. IsFiniteSet({}) /\ Cardinality({}) = 0
  BY FS_EmptySet
<1>2. \E f \in [1..0 -> {}] : IsInjective(f)
  BY <1>1, FS_CardinalityType DEF ExistsBijection, Bijection, Injection, IsInjective
<1>3. SetToSeq({}) \in [1..0 -> {}]
  BY <1>1, <1>2 DEF SetToSeq
<1>4. \A f \in [1..0 -> {}] : f = << >>
  OBVIOUS
<1> QED BY <1>3, <1>4

\* Who waits is a finite number, for writes that were issued.
WaitsOK(ws) == IsFiniteSet(ws) /\ \A w \in ws : w.writes \in SUBSET (1..MaxWrites)

\* The waits that end together.
LEMMA WaitsEnd ==
    ASSUME user \in User, NEW ws, WaitsOK(ws), NEW ok \in BOOLEAN
    PROVE  /\ WaitedAll(ws, ok) \in Seq(Entry)
           /\ \A u : \A i \in 1..Len(WaitedAll(ws, ok)) : ~For(u, WaitedAll(ws, ok)[i])
<1> DEFINE S == {Waited(w, ok) : w \in ws}
           W == {e \in Entry : e.kind = "waited"}
<1>1. IsFiniteSet(S)
  <2> DEFINE f == [w \in ws |-> Waited(w, ok)]
  <2>1. f \in Surjection(ws, S)
    BY DEF Surjection
  <2>2. IsFiniteSet(ws)
    BY DEF WaitsOK
  <2> HIDE DEF f, S
  <2> QED BY <2>1, <2>2, FS_Surjection
<1>2. S \in SUBSET W
  <2>1. ASSUME NEW w \in ws PROVE Waited(w, ok) \in W
    BY DEF WaitsOK, Waited, Entry
  <2> QED BY <2>1
<1> HIDE DEF S
<1>3. WaitedAll(ws, ok) = SetToSeq(S)
  BY DEF WaitedAll, S
<1>4. WaitedAll(ws, ok) \in Seq(S)
  BY <1>1, <1>3, SeqOfSet
<1>5. \A i \in 1..Len(WaitedAll(ws, ok)) : WaitedAll(ws, ok)[i] \in W
  BY <1>2, <1>4, ElementOfSeq
<1>6. WaitedAll(ws, ok) \in Seq(Entry)
  <2>1. S \subseteq Entry
    BY <1>2
  <2> QED BY <1>4, <2>1
<1> QED BY <1>5, <1>6 DEF For

-----------------------------------------------------------------------------
(* The queue as the abstract client has it                                 *)

\* The handlers cs of a queue q are those of batches in it.
Held(q, cs) == \A c \in cs : \E i \in 1..Len(q) : c = q[i]

\* A batch whose handler is among cs, and a queue of such.
Shown(b, cs) == [op |-> "set", doc |-> TheDoc, val |-> [number |-> b.write],
                 then |-> IF b \in cs THEN Handler(b.write) ELSE Nothing]
Bar(q, cs) == [i \in 1..Len(q) |-> Shown(q[i], cs)]

\* Ids tell the batches of a queue apart.
LEMMA OneById ==
    ASSUME NEW q, Ordered(q), NEW i \in 1..Len(q), NEW j \in 1..Len(q), q[i].id = q[j].id
    PROVE  i = j
<1>1. Len(q) \in Nat /\ q[i] \in Batch /\ q[j] \in Batch
  BY DEF Ordered
<1>2. q[i].id \in Nat /\ q[j].id \in Nat
  BY <1>1 DEF Batch
<1>3. (i < j => q[i].id < q[j].id) /\ (j < i => q[j].id < q[i].id)
  BY DEF Ordered
<1>4. i \in Int /\ j \in Int
  OBVIOUS
<1> QED BY <1>2, <1>3, <1>4

\* The handler found by the id of a batch is the batch's.
LEMMA FoundById ==
    ASSUME NEW q, Ordered(q), NEW cs, Held(q, cs), NEW i \in 1..Len(q)
    PROVE  /\ {c \in cs : c.id = q[i].id} = cs \cap {q[i]}
           /\ (\E c \in cs : c.id = q[i].id) <=> q[i] \in cs
           /\ q[i] \in cs => (CHOOSE c \in cs : c.id = q[i].id) = q[i]
<1>1. ASSUME NEW c \in cs, c.id = q[i].id PROVE c = q[i]
  <2>1. PICK j \in 1..Len(q) : c = q[j]
    BY DEF Held
  <2> QED BY <1>1, <2>1, OneById
<1> QED BY <1>1

\* What is shown of it.
LEMMA ShownById ==
    ASSUME NEW q, Ordered(q), NEW cs, Held(q, cs), NEW i \in 1..Len(q)
    PROVE  [Mutation(q[i].write) EXCEPT !.then =
               IF \E c \in cs : c.id = q[i].id
               THEN Handler((CHOOSE c \in cs : c.id = q[i].id).write) ELSE Nothing]
           = Shown(q[i], cs)
<1>1. (\E c \in cs : c.id = q[i].id) <=> q[i] \in cs
  BY FoundById
<1>2. q[i] \in cs => (CHOOSE c \in cs : c.id = q[i].id) = q[i]
  BY FoundById
<1> DEFINE h == IF \E c \in cs : c.id = q[i].id
                THEN Handler((CHOOSE c \in cs : c.id = q[i].id).write) ELSE Nothing
<1>3. h = IF q[i] \in cs THEN Handler(q[i].write) ELSE Nothing
  BY <1>1, <1>2
<1> HIDE DEF h
<1>4. [Mutation(q[i].write) EXCEPT !.then = h] = Shown(q[i], cs)
  BY <1>3 DEF Mutation, Shown
<1> QED BY <1>4 DEF h

\* What may be shown.
Written ==
    [op : {"set"}, doc : {TheDoc}, val : [number : 1..MaxWrites], then : Due \cup {Nothing}]

\* A shown queue is a sequence of writes.
LEMMA BarIsSeq ==
    ASSUME NEW q \in Seq(Batch), NEW cs
    PROVE  /\ Bar(q, cs) \in Seq(Written) /\ Len(Bar(q, cs)) = Len(q) /\ Len(q) \in Nat
           /\ \A i \in 1..Len(q) : Bar(q, cs)[i] = Shown(q[i], cs)
<1>1. Len(q) \in Nat /\ \A i \in 1..Len(q) : q[i] \in Batch
  OBVIOUS
<1>2. ASSUME NEW b \in Batch PROVE Shown(b, cs) \in Written
  <2>1. b.write \in 1..MaxWrites
    BY DEF Batch
  <2>2. Handler(b.write) \in Due
    BY <2>1 DEF Handler, Due
  <2> QED BY <2>1, <2>2 DEF Shown, Written
<1>3. \A i \in 1..Len(q) : Shown(q[i], cs) \in Written
  BY <1>1, <1>2
<1> QED BY <1>1, <1>3 DEF Bar

\* A write joins it.
LEMMA BarGrows ==
    ASSUME NEW q, Ordered(q), NEW cs, Held(q, cs), NEW b \in Batch, b.id > 0,
           \A i \in 1..Len(q) : q[i].id < b.id
    PROVE  /\ Bar(Append(q, b), cs \cup {b}) = Bar(q, cs) \o << Mutation(b.write) >>
           /\ Held(Append(q, b), cs \cup {b})
<1> DEFINE a == Append(q, b)
           n == Len(q)
           m == Mutation(b.write)
           l == Bar(a, cs \cup {b})
           r == Bar(q, cs) \o << m >>
<1>1. q \in Seq(Batch) /\ n \in Nat
  BY DEF Ordered
<1>2. /\ a \in Seq(Batch) /\ Len(a) = n + 1 /\ a[n + 1] = b
      /\ \A i \in 1..n : a[i] = q[i]
  BY <1>1, AppendProperties
<1>3. b \notin cs /\ \A i \in 1..n : q[i] # b
  <2>1. \A i \in 1..n : q[i] # b
    <3>1. b.id \in Nat
      BY DEF Batch
    <3>2. \A i \in 1..n : q[i].id < b.id
      OBVIOUS
    <3>3. ~(b.id < b.id)
      BY <3>1
    <3> QED BY <3>2, <3>3
  <2> QED BY <2>1 DEF Held
<1>4. m = Shown(b, cs \cup {b}) /\ m \in Written
  <2>1. m = Shown(b, cs \cup {b})
    BY DEF Mutation, Shown
  <2>2. b.write \in 1..MaxWrites
    BY DEF Batch
  <2>3. Handler(b.write) \in Due
    BY <2>2 DEF Handler, Due
  <2> QED BY <2>1, <2>2, <2>3 DEF Mutation, Written
<1> HIDE DEF a, m
<1>5. /\ l \in Seq(Written) /\ Len(l) = n + 1
      /\ \A i \in 1..n + 1 : l[i] = Shown(a[i], cs \cup {b})
  BY <1>2, BarIsSeq
<1>6. /\ Bar(q, cs) \in Seq(Written) /\ Len(Bar(q, cs)) = n
      /\ \A i \in 1..n : Bar(q, cs)[i] = Shown(q[i], cs)
  BY <1>1, BarIsSeq
<1>7. /\ r \in Seq(Written) /\ Len(r) = n + 1
      /\ \A i \in 1..n : r[i] = Bar(q, cs)[i]
      /\ r[n + 1] = m
  <2>1. r = Append(Bar(q, cs), m)
    BY <1>4, <1>6, AppendIsConcat
  <2>2. Bar(q, cs) \in Seq(Written) /\ m \in Written
    BY <1>4, <1>6
  <2> HIDE DEF r
  <2>3. /\ r \in Seq(Written) /\ Len(r) = Len(Bar(q, cs)) + 1
        /\ \A i \in 1..Len(Bar(q, cs)) : r[i] = Bar(q, cs)[i]
        /\ r[Len(Bar(q, cs)) + 1] = m
    BY <2>1, <2>2, AppendProperties
  <2> QED BY <1>6, <2>3
<1> HIDE DEF l, r
<1>8. ASSUME NEW i \in 1..n + 1 PROVE l[i] = r[i]
  <2>1. i \in 1..n \/ i = n + 1
    BY <1>1
  <2>2. CASE i \in 1..n
    <3>1. Shown(q[i], cs \cup {b}) = Shown(q[i], cs)
      BY <1>3, <2>2 DEF Shown
    <3> QED BY <1>2, <1>5, <1>6, <1>7, <2>2, <3>1
  <2>3. CASE i = n + 1
    BY <1>2, <1>4, <1>5, <1>7, <2>3
  <2> QED BY <2>1, <2>2, <2>3
<1>9. l = r
  <2>1. l \in Seq(Written) /\ r \in Seq(Written) /\ Len(l) = Len(r)
    BY <1>5, <1>7
  <2>2. \A i \in 1..Len(l) : l[i] = r[i]
    BY <1>5, <1>8
  <2> QED BY <2>1, <2>2, SeqEqual
<1>10. Held(a, cs \cup {b})
  <2>1. \A i \in 1..n : i \in 1..n + 1
    BY <1>1
  <2>2. n + 1 \in 1..n + 1
    BY <1>1
  <2> QED BY <1>2, <2>1, <2>2 DEF Held
<1> QED BY <1>9, <1>10 DEF l, r, m, a

\* The first write leaves it.
LEMMA BarShrinks ==
    ASSUME NEW q, Ordered(q), q # << >>, NEW cs, Held(q, cs)
    PROVE  LET owed == {c \in cs : c.id = Head(q).id}
           IN  /\ Bar(Tail(q), cs \ owed) = Tail(Bar(q, cs))
               /\ Held(Tail(q), cs \ owed)
               /\ owed = cs \cap {Head(q)}
               /\ Bar(q, cs) # << >> /\ Head(Bar(q, cs)) = Shown(Head(q), cs)
<1> DEFINE n == Len(q)
           owed == {c \in cs : c.id = Head(q).id}
           t == Tail(q)
           l == Bar(t, cs \ owed)
           r == Tail(Bar(q, cs))
<1>1. /\ q \in Seq(Batch) /\ n \in Nat /\ n > 0 /\ 1 \in 1..n /\ Head(q) = q[1]
  BY DEF Ordered
<1>2. /\ t \in Seq(Batch) /\ Len(t) = n - 1
      /\ \A i \in 1..n - 1 : t[i] = q[i + 1]
  BY <1>1, HeadTailProperties
<1>3. owed = cs \cap {q[1]}
  BY <1>1, FoundById
<1> HIDE DEF owed, t
<1>4. /\ l \in Seq(Written) /\ Len(l) = n - 1
      /\ \A i \in 1..n - 1 : l[i] = Shown(t[i], cs \ owed)
  BY <1>2, BarIsSeq
<1>5. /\ Bar(q, cs) \in Seq(Written) /\ Len(Bar(q, cs)) = n
      /\ \A i \in 1..n : Bar(q, cs)[i] = Shown(q[i], cs)
  BY <1>1, BarIsSeq
<1>6. Bar(q, cs) # << >> /\ Head(Bar(q, cs)) = Shown(q[1], cs)
  <2>1. Bar(q, cs) # << >>
    BY <1>1, <1>5
  <2>2. Head(Bar(q, cs)) = Bar(q, cs)[1]
    BY <1>5, <2>1
  <2> QED BY <1>1, <1>5, <2>1, <2>2
<1>7. /\ r \in Seq(Written) /\ Len(r) = n - 1
      /\ \A i \in 1..n - 1 : r[i] = Bar(q, cs)[i + 1]
  BY <1>5, <1>6, HeadTailProperties
<1> HIDE DEF l, r
<1>8. ASSUME NEW i \in 1..n - 1 PROVE l[i] = r[i]
  <2>1. i + 1 \in 1..n /\ i + 1 # 1
    BY <1>1
  <2>2. q[i + 1] # q[1]
    BY <1>1, <2>1, OneById
  <2>3. Shown(q[i + 1], cs \ owed) = Shown(q[i + 1], cs)
    BY <1>3, <2>2 DEF Shown
  <2> QED BY <1>2, <1>4, <1>5, <1>7, <2>1, <2>3
<1>9. l = r
  <2>1. l \in Seq(Written) /\ r \in Seq(Written) /\ Len(l) = Len(r)
    BY <1>4, <1>7
  <2>2. \A i \in 1..Len(l) : l[i] = r[i]
    BY <1>4, <1>8
  <2> QED BY <2>1, <2>2, SeqEqual
<1>10. Held(t, cs \ owed)
  <2> SUFFICES ASSUME NEW c \in cs \ owed PROVE \E i \in 1..Len(t) : c = t[i]
    BY DEF Held
  <2>1. PICK j \in 1..n : c = q[j]
    BY DEF Held
  <2>2. j # 1
    BY <1>3, <2>1
  <2>3. j - 1 \in 1..n - 1 /\ (j - 1) + 1 = j
    BY <1>1, <2>2
  <2> QED BY <1>2, <2>1, <2>3
<1> QED BY <1>1, <1>3, <1>6, <1>9, <1>10 DEF l, r, t, owed

\* Its handlers are forgotten.
LEMMA BarForgets ==
    ASSUME NEW q \in Seq(Batch), NEW cs
    PROVE  Bar(q, {}) = [i \in DOMAIN Bar(q, cs) |-> [Bar(q, cs)[i] EXCEPT !.then = Nothing]]
<1>1. DOMAIN Bar(q, cs) = 1..Len(q)
  BY DEF Bar
<1>2. \A i \in 1..Len(q) : [Bar(q, cs)[i] EXCEPT !.then = Nothing] = Shown(q[i], {})
  BY DEF Bar, Shown
<1> QED BY <1>1, <1>2 DEF Bar

\* The queue of an account as module Writes shows it.
LEMMA ShownQueue ==
    ASSUME NEW q, Ordered(q), NEW cs, Held(q, cs)
    PROVE  [i \in DOMAIN q |-> [Mutation(q[i].write) EXCEPT !.then =
               IF \E c \in cs : c.id = q[i].id
               THEN Handler((CHOOSE c \in cs : c.id = q[i].id).write) ELSE Nothing]]
           = Bar(q, cs)
<1>1. DOMAIN q = 1..Len(q)
  BY DEF Ordered
<1>2. \A i \in 1..Len(q) :
         [Mutation(q[i].write) EXCEPT !.then =
             IF \E c \in cs : c.id = q[i].id
             THEN Handler((CHOOSE c \in cs : c.id = q[i].id).write) ELSE Nothing]
         = Shown(q[i], cs)
  BY ShownById
<1> QED BY <1>1, <1>2 DEF Bar

-----------------------------------------------------------------------------
(* The handlers, registered and due                                        *)

\* A registered handler is that of a batch in the queue; what is due and who
\* waits is well formed.
HandlersOK ==
    /\ \A u \in User : Held(queue[u], callbacks[u])
    /\ main \in Seq(Entry)
    /\ WaitsOK(waiting)

\* The queues as they are shown, before a step and after it.
LEMMA PendingIs ==
    /\ QueuesOK /\ HandlersOK => pendingBar = [u \in User |-> Bar(queue[u], callbacks[u])]
    /\ QueuesOK' /\ HandlersOK' =>
          pendingBar' = [u \in User |-> Bar(queue'[u], callbacks'[u])]
<1>1. ASSUME QueuesOK, HandlersOK
      PROVE  pendingBar = [u \in User |-> Bar(queue[u], callbacks[u])]
  <2>1. \A u \in User : Ordered(queue[u]) /\ Held(queue[u], callbacks[u])
    BY <1>1 DEF QueuesOK, Numbered, HandlersOK
  <2> QED BY <2>1, ShownQueue DEF pendingBar, HandlerOf
<1>2. ASSUME QueuesOK', HandlersOK'
      PROVE  pendingBar' = [u \in User |-> Bar(queue'[u], callbacks'[u])]
  <2>1. \A u \in User : Ordered(queue'[u]) /\ Held(queue'[u], callbacks'[u])
    BY <1>2 DEF QueuesOK, Numbered, HandlersOK
  <2> QED BY <2>1, ShownQueue DEF pendingBar, HandlerOf
<1> QED BY <1>1, <1>2

\* A part of those who wait.
LEMMA WaitsPart ==
    ASSUME NEW ws, WaitsOK(ws), NEW part \in SUBSET ws
    PROVE  WaitsOK(part)
<1>1. IsFiniteSet(part)
  BY FS_Subset DEF WaitsOK
<1> QED BY <1>1 DEF WaitsOK

\* The oldest write of the account is answered: its handler, if it has one, is
\* due behind the others, and nobody else's is.
LEMMA Settled ==
    ASSUME PartsOK, HandlersOK, NEW ok \in BOOLEAN, queue[user] # << >>,
           Settle(Head(queue[user]), ok)
    PROVE  LET bar == Bar(queue[user], callbacks[user])
               then == Head(bar).then
           IN  /\ HandlersOK'
               /\ bar # << >>
               /\ [u \in User |-> Bar(queue'[u], callbacks'[u])]
                  = [[u \in User |-> Bar(queue[u], callbacks[u])] EXCEPT ![user] = Tail(@)]
               /\ mainBar' =
                     IF then = Nothing THEN mainBar
                     ELSE [mainBar EXCEPT ![user] =
                              Append(@, IF ok THEN then ELSE [then EXCEPT !.do = "refused"])]
<1> DEFINE q == queue[user]
           cs == callbacks[user]
           b == Head(q)
           owed == {c \in cs : c.id = b.id}
           then == Head(Bar(q, cs)).then
           e == [kind |-> "written", user |-> user, write |-> b.write, ok |-> ok]
           W == WrittenAll(b, ok)
           V == WaitedAll(Waiters(b), TRUE)
<1>1. /\ user \in User /\ queue \in [User -> Seq(Batch)] /\ callbacks \in [User -> SUBSET Batch]
      /\ \A u \in User : Ordered(queue[u]) /\ Held(queue[u], callbacks[u])
      /\ main \in Seq(Entry) /\ WaitsOK(waiting)
  BY DEF PartsOK, QueuesOK, Numbered, HandlersOK
<1>2. b \in Batch /\ b.write \in 1..MaxWrites
  <2>1. q \in Seq(Batch) /\ q # << >>
    BY <1>1
  <2>2. b \in Batch
    BY <2>1, HeadTailProperties
  <2> QED BY <2>2 DEF Batch
<1>3. /\ Bar(Tail(q), cs \ owed) = Tail(Bar(q, cs))
      /\ Held(Tail(q), cs \ owed)
      /\ owed = cs \cap {b}
      /\ Bar(q, cs) # << >> /\ Head(Bar(q, cs)) = Shown(b, cs)
  BY <1>1, BarShrinks
<1>4. /\ queue' = [queue EXCEPT ![user] = Tail(q)]
      /\ callbacks' = [callbacks EXCEPT ![user] = cs \ owed]
      /\ main' = main \o W \o V
      /\ waiting' = waiting \ Waiters(b)
  <2>1. Without(q, b.id) = Tail(q)
    BY <1>1, HeadLeaves
  <2> QED BY <2>1 DEF Settle, Owed
<1>5. e \in Entry /\ W = IF b \in cs THEN << e >> ELSE << >>
  <2>1. e \in Entry
    BY <1>1, <1>2 DEF Entry
  <2> DEFINE S == {[kind |-> "written", user |-> user, write |-> c.write, ok |-> ok] :
                      c \in cs \cap {b}}
  <2>2. W = SetToSeq(S)
    BY <1>3 DEF WrittenAll, Owed
  <2>3. S = IF b \in cs THEN {e} ELSE {}
    <3>1. CASE b \in cs
      <4>1. cs \cap {b} = {b}
        BY <3>1
      <4> QED BY <3>1, <4>1
    <3>2. CASE b \notin cs
      <4>1. cs \cap {b} = {}
        BY <3>2
      <4> QED BY <3>2, <4>1
    <3> QED BY <3>1, <3>2
  <2> HIDE DEF S, W, e
  <2>4. CASE b \in cs
    BY <2>1, <2>2, <2>3, <2>4, SeqOfOne
  <2>5. CASE b \notin cs
    BY <2>1, <2>2, <2>3, <2>5, SeqOfNone
  <2> QED BY <2>1, <2>4, <2>5
<1>6. V \in Seq(Entry) /\ \A u : \A i \in 1..Len(V) : ~For(u, V[i])
  <2>1. WaitsOK(Waiters(b))
    BY <1>1, WaitsPart DEF Waiters
  <2> QED BY <1>1, <2>1, WaitsEnd
<1>7. W \in Seq(Entry)
  <2> HIDE DEF W, e
  <2>1. << e >> \in Seq(Entry) /\ << >> \in Seq(Entry)
    BY <1>5
  <2> QED BY <1>5, <2>1
<1>8. HandlersOK'
  <2>1. ASSUME NEW u \in User PROVE Held(queue'[u], callbacks'[u])
    BY <1>1, <1>3, <1>4
  <2>2. main \o W \in Seq(Entry)
    BY <1>1, <1>7, ConcatProperties
  <2>3. main' \in Seq(Entry)
    BY <1>4, <1>6, <2>2, ConcatProperties
  <2>4. WaitsOK(waiting')
    BY <1>1, <1>4, WaitsPart
  <2> QED BY <2>1, <2>3, <2>4 DEF HandlersOK
<1>9. [u \in User |-> Bar(queue'[u], callbacks'[u])]
      = [[u \in User |-> Bar(queue[u], callbacks[u])] EXCEPT ![user] = Tail(@)]
  <2>1. ASSUME NEW u \in User
        PROVE  Bar(queue'[u], callbacks'[u])
               = IF u = user THEN Tail(Bar(q, cs)) ELSE Bar(queue[u], callbacks[u])
    BY <1>1, <1>3, <1>4
  <2> QED BY <1>1, <2>1
<1> DEFINE h == IF ok THEN then ELSE [then EXCEPT !.do = "refused"]
<1>10. then = IF b \in cs THEN Handler(b.write) ELSE Nothing
  BY <1>3 DEF Shown
<1>11. then # Nothing <=> b \in cs
  BY <1>2, <1>10, AbsentAssumption
<1>12. b \in cs => DueHandler(e) = h
  BY <1>10 DEF DueHandler
<1> HIDE DEF e, then, h, W, V
<1>13. ASSUME NEW u \in User
       PROVE  HandlersOf(u, main') = IF u = user /\ then # Nothing
                                     THEN Append(HandlersOf(u, main), h) ELSE HandlersOf(u, main)
  <2>1. main \o W \in Seq(Entry)
    BY <1>1, <1>7, ConcatProperties
  <2>2. HandlersOf(u, main') = HandlersOf(u, main \o W)
    BY <1>4, <1>6, <2>1, WaitsJoin
  <2>3. /\ HandlersOf(u, main) \in Seq(Due)
        /\ HandlersOf(u, main \o W) = HandlersOf(u, main) \o HandlersOf(u, W)
    BY <1>1, <1>7, HandlersConcat
  <2>4. CASE b \in cs
    <3>1. HandlersOf(u, W) = IF For(u, e) THEN << DueHandler(e) >> ELSE << >>
      BY <1>5, <2>4, HandlersOne
    <3>2. For(u, e) <=> u = user
      BY DEF For, e
    <3>3. CASE u = user
      <4>1. DueHandler(e) \in Due
        BY <1>5, DueIsDue DEF e
      <4>2. HandlersOf(u, main) \o << DueHandler(e) >> = Append(HandlersOf(u, main), DueHandler(e))
        BY <2>3, <4>1, AppendIsConcat
      <4> QED BY <1>11, <1>12, <2>2, <2>3, <2>4, <3>1, <3>2, <3>3, <4>2
    <3>4. CASE u # user
      BY <2>2, <2>3, <3>1, <3>2, <3>4, ConcatEmptySeq
    <3> QED BY <3>3, <3>4
  <2>5. CASE b \notin cs
    <3>1. main \o W = main
      BY <1>1, <1>5, <2>5, ConcatEmptySeq
    <3> QED BY <1>11, <2>2, <2>5, <3>1
  <2> QED BY <2>4, <2>5
<1>14. mainBar' = IF then = Nothing THEN mainBar ELSE [mainBar EXCEPT ![user] = Append(@, h)]
  BY <1>1, <1>13 DEF mainBar
<1> QED BY <1>3, <1>8, <1>9, <1>14 DEF then, h

-----------------------------------------------------------------------------
(* Each step is one of the abstract client, or none                        *)

AllWrites == {Mutation(n) : n \in 1..MaxWrites}
barVars == <<db, pendingBar, sentBar, mainBar>>
ClientStep == [Abs!ClientNext(AllWrites)]_barVars

\* What is sent, for a server as it may be.
LEMMA SentIs ==
    ASSUME ServerOK
    PROVE  /\ server.user \in User /\ server.applied \in Nat /\ server.applied <= Window
           /\ server = [user |-> server.user, applied |-> server.applied]
           /\ sentBar[server.user] = server.applied
<1> USE BoundsAssumption
<1>1. /\ server.user \in User /\ server.applied \in 0..Window
      /\ server = [user |-> server.user, applied |-> server.applied]
  BY DEF ServerOK
<1>2. server.applied \in Nat /\ server.applied <= Window
  BY <1>1
<1> QED BY <1>1, <1>2 DEF sentBar

\* The main thread waits with what it has: handlers of nobody's writes join.
LEMMA OnlyWaits ==
    ASSUME main \in Seq(Entry), NEW t \in Seq(Entry), \A u : \A i \in 1..Len(t) : ~For(u, t[i]),
           main' = main \o t
    PROVE  mainBar' = mainBar /\ main' \in Seq(Entry)
<1>1. \A u : HandlersOf(u, main \o t) = HandlersOf(u, main)
  BY WaitsJoin
<1>2. main \o t \in Seq(Entry)
  BY ConcatProperties
<1> QED BY <1>1, <1>2 DEF mainBar

\* A step of the stream, or of the device, that no screen can tell.
LEMMA SeenQuiet ==
    ASSUME HandlersOK, UNCHANGED <<db, server, queue, callbacks, main, waiting>>
    PROVE  HandlersOK' /\ ClientStep
<1>1. HandlersOK'
  BY DEF HandlersOK
<1>2. UNCHANGED barVars
  BY DEF barVars, pendingBar, HandlerOf, sentBar, mainBar
<1> QED BY <1>1, <1>2 DEF ClientStep

\* Somebody waits for the writes that are pending.
LEMMA SeenWait ==
    ASSUME PartsOK, HandlersOK, WaitForPendingWrites
    PROVE  HandlersOK' /\ ClientStep
<1> DEFINE w == [id |-> HighestId(queue[user]), writes |-> WritesOf(queue[user])]
<1>1. /\ UNCHANGED <<db, server, queue, callbacks>>
      /\ user \in User /\ queue[user] \in Seq(Batch)
      /\ main \in Seq(Entry)
  BY DEF WaitForPendingWrites, serverVars, PartsOK, QueuesOK, HandlersOK
<1>2. w.writes \in SUBSET (1..MaxWrites)
  <2>1. \A i \in 1..Len(queue[user]) : queue[user][i] \in Batch
    BY <1>1
  <2>2. DOMAIN queue[user] = 1..Len(queue[user])
    BY <1>1
  <2> QED BY <2>1, <2>2 DEF WritesOf, Batch
<1>3. CASE queue[user] = << >>
  <2> DEFINE e == Waited(w, TRUE)
  <2>1. main' = Append(main, e) /\ waiting' = waiting
    BY <1>3 DEF WaitForPendingWrites
  <2>2. e \in Entry /\ e.kind = "waited"
    BY <1>1, <1>2 DEF Waited, Entry
  <2> HIDE DEF e
  <2>3. << e >> \in Seq(Entry) /\ \A u : \A i \in 1..Len(<< e >>) : ~For(u, << e >>[i])
    <3>1. << e >> \in Seq(Entry) /\ Len(<< e >>) = 1 /\ << e >>[1] = e
      BY <2>2
    <3>2. \A i \in 1..1 : i = 1
      OBVIOUS
    <3> QED BY <2>2, <3>1, <3>2 DEF For
  <2>4. main' = main \o << e >>
    BY <1>1, <2>1, <2>2, AppendIsConcat
  <2>5. mainBar' = mainBar /\ main' \in Seq(Entry)
    BY <1>1, <2>3, <2>4, OnlyWaits
  <2>6. HandlersOK'
    BY <1>1, <2>1, <2>5 DEF HandlersOK
  <2>7. UNCHANGED barVars
    BY <1>1, <2>5 DEF barVars, pendingBar, HandlerOf, sentBar
  <2> QED BY <2>6, <2>7 DEF ClientStep
<1>4. CASE queue[user] # << >>
  <2>1. waiting' = waiting \cup {w} /\ main' = main
    BY <1>4 DEF WaitForPendingWrites
  <2> HIDE DEF w
  <2>2. IsFiniteSet(waiting \cup {w})
    BY FS_AddElement DEF HandlersOK, WaitsOK
  <2>3. WaitsOK(waiting')
    BY <1>2, <2>1, <2>2 DEF HandlersOK, WaitsOK
  <2>4. HandlersOK'
    BY <1>1, <2>1, <2>3 DEF HandlersOK
  <2>5. UNCHANGED barVars
    BY <1>1, <2>1 DEF barVars, pendingBar, HandlerOf, sentBar, mainBar
  <2> QED BY <2>4, <2>5 DEF ClientStep
<1> QED BY <1>3, <1>4

\* Another account signs in, or the same again: the waits end.
LEMMA SeenCredential ==
    ASSUME PartsOK, HandlersOK, NEW u \in User, HandleCredentialChange(u)
    PROVE  HandlersOK' /\ ClientStep
<1>1. UNCHANGED <<db, server, queue, callbacks>>
  BY DEF HandleCredentialChange, serverVars
<1>2. CASE u = user
  <2>1. UNCHANGED <<main, waiting>>
    BY <1>2 DEF HandleCredentialChange
  <2> QED BY <1>1, <2>1, SeenQuiet
<1>3. CASE u # user
  <2> DEFINE t == WaitedAll(waiting, FALSE)
  <2>1. waiting' = {} /\ main' = main \o t
    BY <1>3 DEF HandleCredentialChange
  <2>2. user \in User /\ main \in Seq(Entry) /\ WaitsOK(waiting)
    BY DEF PartsOK, QueuesOK, HandlersOK
  <2>3. t \in Seq(Entry) /\ \A v : \A i \in 1..Len(t) : ~For(v, t[i])
    BY <2>2, WaitsEnd
  <2> HIDE DEF t
  <2>4. mainBar' = mainBar /\ main' \in Seq(Entry)
    BY <2>1, <2>2, <2>3, OnlyWaits
  <2>5. WaitsOK({})
    BY FS_EmptySet DEF WaitsOK
  <2>6. HandlersOK'
    BY <1>1, <2>1, <2>4, <2>5 DEF HandlersOK
  <2>7. UNCHANGED barVars
    BY <1>1, <2>4 DEF barVars, pendingBar, HandlerOf, sentBar
  <2> QED BY <2>6, <2>7 DEF ClientStep
<1> QED BY <1>2, <1>3

\* A write joins the queue of the account, with its handler.
LEMMA SeenIssue ==
    ASSUME PartsOK, PartsOK', HandlersOK, WriteMutations
    PROVE  HandlersOK' /\ ClientStep
<1> DEFINE n == issued + 1
           b == [id |-> nextId, write |-> n]
           q == queue[user]
           cs == callbacks[user]
<1>1. /\ user \in User /\ queue \in [User -> Seq(Batch)] /\ callbacks \in [User -> SUBSET Batch]
      /\ \A u \in User : Ordered(queue[u]) /\ Held(queue[u], callbacks[u])
      /\ QueuesOK /\ QueuesOK'
  BY DEF PartsOK, QueuesOK, Numbered, HandlersOK
<1>2. n \in 1..MaxWrites /\ b \in Batch /\ b.id > 0 /\ b.id = nextId /\ b.write = n
  <2>1. nextId \in Nat /\ nextId > 0 /\ n \in 1..MaxWrites
    BY BoundsAssumption DEF PartsOK, QueuesOK, WriteMutations
  <2> QED BY <2>1 DEF Batch
<1>3. \A i \in 1..Len(q) : q[i].id < b.id
  BY <1>2 DEF PartsOK, QueuesOK, Numbered
<1>4. /\ UNCHANGED <<db, server, main, waiting>>
      /\ queue' = [queue EXCEPT ![user] = Append(q, b)]
      /\ callbacks' = [callbacks EXCEPT ![user] = IF Owed(nextId) = {} THEN @ \cup {b} ELSE @]
  BY DEF WriteMutations, serverVars
<1> HIDE DEF b, n
<1>5. Owed(nextId) = {}
  <2> SUFFICES ASSUME NEW c \in cs, c.id = nextId PROVE FALSE
    BY DEF Owed
  <2>1. PICK i \in 1..Len(q) : c = q[i]
    BY <1>1 DEF Held
  <2>2. nextId \in Nat /\ nextId < nextId
    BY <1>2, <1>3, <2>1 DEF PartsOK, QueuesOK
  <2> QED BY <2>2
<1>6. callbacks' = [callbacks EXCEPT ![user] = cs \cup {b}]
  BY <1>4, <1>5
<1>7. /\ Bar(Append(q, b), cs \cup {b}) = Bar(q, cs) \o << Mutation(b.write) >>
      /\ Held(Append(q, b), cs \cup {b})
  BY <1>1, <1>2, <1>3, BarGrows
<1>8. HandlersOK'
  <2>1. \A u \in User : Held(queue'[u], callbacks'[u])
    BY <1>1, <1>4, <1>6, <1>7
  <2> QED BY <1>4, <2>1 DEF HandlersOK
<1>9. Abs!Issue(user, << Mutation(n) >>)
  <2>1. /\ pendingBar = [u \in User |-> Bar(queue[u], callbacks[u])]
        /\ pendingBar' = [u \in User |-> Bar(queue'[u], callbacks'[u])]
    BY <1>1, <1>8, PendingIs
  <2>2. ASSUME NEW u \in User
        PROVE  Bar(queue'[u], callbacks'[u])
               = IF u = user THEN Bar(q, cs) \o << Mutation(n) >> ELSE Bar(queue[u], callbacks[u])
    BY <1>1, <1>2, <1>4, <1>6, <1>7
  <2>3. pendingBar' = [pendingBar EXCEPT ![user] = @ \o << Mutation(n) >>]
    BY <1>1, <2>1, <2>2
  <2> QED BY <2>3 DEF Abs!Issue
<1>10. UNCHANGED <<db, sentBar, mainBar>>
  BY <1>4 DEF sentBar, mainBar
<1>11. Mutation(n) \in AllWrites
  BY <1>2 DEF AllWrites
<1>12. Abs!ClientNext(AllWrites)
  BY <1>1, <1>9, <1>10, <1>11 DEF Abs!ClientNext
<1> QED BY <1>8, <1>12 DEF ClientStep

\* The server sees another stream: what it did for the last one is unheard.
LEMMA SeenReconnect ==
    ASSUME WireOK, HandlersOK, ServerHandshake
    PROVE  HandlersOK' /\ ClientStep
<1>1. /\ UNCHANGED <<db, queue, callbacks, main, waiting>>
      /\ server' = [user |-> Head(wire).user, applied |-> 0]
  BY DEF ServerHandshake, storeVars
<1>2. HandlersOK'
  BY <1>1 DEF HandlersOK
<1>3. UNCHANGED <<db, pendingBar, mainBar>>
  BY <1>1 DEF pendingBar, HandlerOf, mainBar
<1>4. /\ server.user \in User /\ server.applied \in Nat
      /\ sentBar[server.user] = server.applied
  BY SentIs DEF WireOK
<1>5. sentBar' = [u \in User |-> 0]
  BY <1>1 DEF sentBar
<1>6. sentBar' = [sentBar EXCEPT ![server.user] = 0]
  BY <1>4, <1>5 DEF sentBar
<1>7. CASE server.applied > 0
  <2>1. Abs!Reconnect(server.user)
    BY <1>3, <1>4, <1>6, <1>7 DEF Abs!Reconnect
  <2>2. Abs!ClientNext(AllWrites)
    BY <1>4, <2>1 DEF Abs!ClientNext
  <2> QED BY <1>2, <2>2 DEF ClientStep
<1>8. CASE server.applied = 0
  <2>1. sentBar' = sentBar
    BY <1>5, <1>8 DEF sentBar
  <2> QED BY <1>2, <1>3, <2>1 DEF ClientStep, barVars
<1> QED BY <1>4, <1>7, <1>8

\* A write takes effect: the next one of the queue.
LEMMA SeenTransmit ==
    ASSUME PartsOK, WireOK, HandlersOK, ServerApplies
    PROVE  HandlersOK' /\ ClientStep
<1> DEFINE s == server.user
           k == server.applied + 1
<1>1. /\ wire # << >> /\ wire \in Seq(Request) /\ Head(wire) = wire[1]
      /\ queue \in [User -> Seq(Batch)]
  <2>1. wire # << >> /\ wire \in Seq(Request) /\ queue \in [User -> Seq(Batch)]
    BY DEF ServerApplies, WireOK, WireOrdered, PartsOK, QueuesOK
  <2>2. Head(wire) = wire[1]
    BY <2>1
  <2> QED BY <2>1, <2>2
<1>2. /\ wire[1].kind = "write" /\ wire' = Tail(wire)
      /\ db' = [db EXCEPT ![TheDoc] = Mutation(wire[1].write).val]
      /\ server' = [server EXCEPT !.applied = @ + 1]
      /\ UNCHANGED <<queue, closeCount, callbacks, main, waiting>>
  BY <1>1 DEF ServerApplies, storeVars, streamVars
<1>3. /\ k \in 1..Len(queue[s]) /\ server.applied < Window
      /\ wire[1].write = queue[s][k].write
  BY <1>1, <1>2, HeadServed DEF WireOK
<1>4. HandlersOK'
  BY <1>2 DEF HandlersOK
<1>5. UNCHANGED <<pendingBar, mainBar>>
  BY <1>2 DEF pendingBar, HandlerOf, mainBar
<1>6. /\ s \in User /\ server.applied \in Nat /\ sentBar[s] = server.applied
      /\ server = [user |-> s, applied |-> server.applied]
  BY SentIs DEF WireOK
<1>7. /\ pendingBar[s] = Bar(queue[s], callbacks[s])
      /\ Len(pendingBar[s]) = Len(queue[s]) /\ Len(queue[s]) \in Nat
      /\ pendingBar[s][k] = Shown(queue[s][k], callbacks[s])
  <2>1. pendingBar = [u \in User |-> Bar(queue[u], callbacks[u])]
    BY PendingIs DEF PartsOK
  <2>2. pendingBar[s] = Bar(queue[s], callbacks[s]) /\ queue[s] \in Seq(Batch)
    BY <1>1, <1>6, <2>1
  <2> QED BY <1>3, <2>2, BarIsSeq
<1>8. sentBar[s] < Len(pendingBar[s]) /\ sentBar[s] < Window
  BY <1>3, <1>6, <1>7
<1>9. db' = Abs!Apply(db, pendingBar[s][k])
  BY <1>2, <1>3, <1>7 DEF Abs!Apply, Abs!AfterWrite, Shown, Mutation
<1>10. sentBar' = [sentBar EXCEPT ![s] = @ + 1]
  <2>1. server'.user = s /\ server'.applied = server.applied + 1
    BY <1>2, <1>6
  <2> QED BY <1>6, <2>1 DEF sentBar
<1>11. Abs!Transmit(s)
  BY <1>5, <1>6, <1>8, <1>9, <1>10 DEF Abs!Transmit
<1>12. Abs!ClientNext(AllWrites)
  BY <1>6, <1>11 DEF Abs!ClientNext
<1> QED BY <1>4, <1>12 DEF ClientStep

\* The pipeline's first batch is the oldest write of the account.
LEMMA OldestFirst ==
    ASSUME PartsOK, pipeline # << >>
    PROVE  queue[user] # << >> /\ Head(pipeline) = Head(queue[user]) /\ user \in User
<1>1. pipeline = Begin(queue[user]) /\ Ordered(queue[user]) /\ queue[user] \in Seq(Batch)
  BY PresentQueue DEF PartsOK, StreamOK, NetworkOff
<1>2. queue[user] # << >>
  BY <1>1, RoomBounds
<1> QED BY <1>1, <1>2, HeadLeaves DEF PartsOK, QueuesOK

\* A response arrives: it is for the oldest write.
LEMMA SeenAcknowledge ==
    ASSUME PartsOK, PartsOK', WireOK, HandlersOK, MutationResult
    PROVE  HandlersOK' /\ ClientStep
<1> DEFINE bar == Bar(queue[user], callbacks[user])
<1>1. /\ handshake /\ state = "Open" /\ pipeline # << >> /\ answers # << >>
      /\ Settle(Head(pipeline), TRUE) /\ db' = db
      /\ server' = [server EXCEPT !.applied = @ - 1]
  BY DEF MutationResult, Answered
<1>2. /\ HandlersOK'
      /\ [u \in User |-> Bar(queue'[u], callbacks'[u])]
         = [[u \in User |-> Bar(queue[u], callbacks[u])] EXCEPT ![user] = Tail(@)]
      /\ mainBar' = IF Head(bar).then = Nothing THEN mainBar
                    ELSE [mainBar EXCEPT ![user] = Append(@, Head(bar).then)]
  BY <1>1, OldestFirst, Settled
<1>3. user \in User
  BY DEF PartsOK, QueuesOK
<1>4. /\ pendingBar = [u \in User |-> Bar(queue[u], callbacks[u])]
      /\ pendingBar' = [u \in User |-> Bar(queue'[u], callbacks'[u])]
  BY <1>2, PendingIs DEF PartsOK
<1>5. pendingBar' = [pendingBar EXCEPT ![user] = Tail(@)] /\ pendingBar[user] = bar
  BY <1>2, <1>3, <1>4
<1>6. server.user = user /\ server.applied = Len(answers) /\ Len(answers) > 0
  <2>1. Writing
    BY <1>1 DEF WireOK, OpenOK, Asked, Greeted
  <2>2. answers \in Seq(Answer) /\ server.user = user /\ server.applied = Len(answers)
    BY <2>1 DEF Writing
  <2>3. Len(answers) > 0
    BY <1>1, <2>2
  <2> QED BY <2>2, <2>3
<1>7. /\ sentBar[user] = server.applied /\ server.applied \in Nat
      /\ server = [user |-> server.user, applied |-> server.applied]
  BY <1>6, SentIs DEF WireOK
<1>8. sentBar[user] > 0
  BY <1>6, <1>7
<1>9. sentBar' = [sentBar EXCEPT ![user] = @ - 1]
  <2>1. server'.user = user /\ server'.applied = server.applied - 1
    BY <1>1, <1>6, <1>7
  <2> QED BY <1>3, <1>6, <1>7, <2>1 DEF sentBar
<1> HIDE DEF bar
<1>10. Abs!Acknowledge(user)
  BY <1>1, <1>2, <1>5, <1>8, <1>9 DEF Abs!Acknowledge
<1>11. Abs!ClientNext(AllWrites)
  BY <1>3, <1>10 DEF Abs!ClientNext
<1> QED BY <1>2, <1>11 DEF ClientStep

\* The status arrives behind the responses: the oldest write was refused.
LEMMA SeenReject ==
    ASSUME CutShort = FALSE, PartsOK, PartsOK', WireOK, HandlersOK, StreamClosed
    PROVE  HandlersOK' /\ ClientStep
<1> DEFINE bar == Bar(queue[user], callbacks[user])
<1>1. /\ state = "Open" /\ closing # Nothing /\ answers = << >>
      /\ CloseWith("permanent") /\ db' = db /\ server' = server
  BY DEF StreamClosed, serverVars
<1>2. Writing
  BY <1>1 DEF WireOK, OpenOK, Asked, Greeted
<1>3. handshake /\ pipeline # << >> /\ server.user = user /\ server.applied = 0
  <2>1. Len(answers) = 0
    BY <1>1
  <2>2. 0 < Len(pipeline)
    BY <1>1, <1>2, <2>1 DEF Writing
  <2>3. pipeline # << >>
    BY <2>2
  <2> QED BY <1>1, <1>2, <2>1, <2>3 DEF Writing
<1>4. Settle(Head(pipeline), FALSE)
  BY <1>1, <1>3 DEF CloseWith, IsPermanentWriteError
<1>5. /\ HandlersOK' /\ bar # << >>
      /\ [u \in User |-> Bar(queue'[u], callbacks'[u])]
         = [[u \in User |-> Bar(queue[u], callbacks[u])] EXCEPT ![user] = Tail(@)]
      /\ mainBar' = IF Head(bar).then = Nothing THEN mainBar
                    ELSE [mainBar EXCEPT ![user] =
                             Append(@, [Head(bar).then EXCEPT !.do = "refused"])]
  BY <1>3, <1>4, OldestFirst, Settled
<1>6. user \in User
  BY DEF PartsOK, QueuesOK
<1>7. /\ pendingBar = [u \in User |-> Bar(queue[u], callbacks[u])]
      /\ pendingBar' = [u \in User |-> Bar(queue'[u], callbacks'[u])]
  BY <1>5, PendingIs DEF PartsOK
<1>8. pendingBar' = [pendingBar EXCEPT ![user] = Tail(@)] /\ pendingBar[user] = bar
  BY <1>5, <1>6, <1>7
<1>9. sentBar[user] = 0 /\ sentBar' = sentBar
  BY <1>1, <1>3, <1>6 DEF sentBar
<1> HIDE DEF bar
<1>10. Abs!Reject(user)
  BY <1>1, <1>5, <1>8, <1>9 DEF Abs!Reject
<1>11. Abs!ClientNext(AllWrites)
  BY <1>6, <1>10 DEF Abs!ClientNext
<1> QED BY <1>5, <1>11 DEF ClientStep

\* The main thread runs what is due first, the handler of a write or not.
LEMMA SeenHandler ==
    ASSUME HandlersOK, RunHandler
    PROVE  HandlersOK' /\ ClientStep
<1> DEFINE s == Head(main).user
<1>1. /\ main # << >> /\ main' = Tail(main) /\ main \in Seq(Entry)
      /\ UNCHANGED <<db, server, queue, callbacks, waiting>>
  BY DEF RunHandler, HandlersOK, serverVars
<1>2. main' \in Seq(Entry) /\ Head(main) \in Entry
  BY <1>1, HeadTailProperties
<1>3. HandlersOK'
  BY <1>1, <1>2 DEF HandlersOK
<1>4. UNCHANGED <<db, pendingBar, sentBar>>
  BY <1>1 DEF pendingBar, HandlerOf, sentBar
<1>5. \A u : IF For(u, Head(main))
             THEN /\ HandlersOf(u, main) # << >>
                  /\ HandlersOf(u, main') = Tail(HandlersOf(u, main))
             ELSE HandlersOf(u, main') = HandlersOf(u, main)
  BY <1>1, HandlersTail
<1>6. CASE Head(main).kind = "written"
  <2>1. s \in User /\ \A u : For(u, Head(main)) <=> u = s
    BY <1>2, <1>6 DEF Entry, For
  <2>2. mainBar[s] # << >> /\ mainBar' = [mainBar EXCEPT ![s] = Tail(@)]
    BY <1>5, <2>1 DEF mainBar
  <2>3. Abs!HandlerRuns(s)
    BY <1>4, <2>2 DEF Abs!HandlerRuns
  <2>4. Abs!ClientNext(AllWrites)
    BY <2>1, <2>3 DEF Abs!ClientNext
  <2> QED BY <1>3, <2>4 DEF ClientStep
<1>7. CASE Head(main).kind # "written"
  <2>1. mainBar' = mainBar
    BY <1>5, <1>7 DEF mainBar, For
  <2> QED BY <1>3, <1>4, <2>1 DEF ClientStep, barVars
<1> QED BY <1>6, <1>7

\* The process starts again: the queues stay, the handlers are forgotten.
LEMMA SeenRestart ==
    ASSUME PartsOK, PartsOK', WireOK, HandlersOK, Restart
    PROVE  HandlersOK' /\ ClientStep
<1>1. /\ UNCHANGED <<db, queue>> /\ callbacks' = [u \in User |-> {}]
      /\ waiting' = {} /\ main' = << >>
      /\ server' = [server EXCEPT !.applied = 0]
  BY DEF Restart
<1>2. HandlersOK'
  <2>1. WaitsOK({}) /\ << >> \in Seq(Entry)
    BY FS_EmptySet DEF WaitsOK
  <2>2. \A u \in User : Held(queue'[u], callbacks'[u])
    BY <1>1 DEF Held
  <2> QED BY <1>1, <2>1, <2>2 DEF HandlersOK
<1>3. /\ pendingBar = [u \in User |-> Bar(queue[u], callbacks[u])]
      /\ pendingBar' = [u \in User |-> Bar(queue[u], {})]
  <2>1. pendingBar' = [u \in User |-> Bar(queue'[u], callbacks'[u])]
    BY <1>2, PendingIs DEF PartsOK
  <2>2. pendingBar = [u \in User |-> Bar(queue[u], callbacks[u])]
    BY PendingIs DEF PartsOK
  <2> QED BY <1>1, <2>1, <2>2
<1>4. pendingBar' = [u \in User |->
         [i \in DOMAIN pendingBar[u] |-> [pendingBar[u][i] EXCEPT !.then = Nothing]]]
  <2>1. ASSUME NEW u \in User
        PROVE  Bar(queue[u], {}) = [i \in DOMAIN pendingBar[u] |->
                                       [pendingBar[u][i] EXCEPT !.then = Nothing]]
    <3>1. queue[u] \in Seq(Batch) /\ pendingBar[u] = Bar(queue[u], callbacks[u])
      BY <1>3 DEF PartsOK, QueuesOK
    <3> QED BY <3>1, BarForgets
  <2> QED BY <1>3, <2>1
<1>5. mainBar' = [u \in User |-> << >>]
  <2>1. \A u : HandlersOf(u, << >>) = << >>
    <3>1. << >> \in Seq(Entry) /\ \A u : \A i \in 1..Len(<< >>) : ~For(u, << >>[i])
      OBVIOUS
    <3> QED BY <3>1, HandlersNone
  <2> QED BY <1>1, <2>1 DEF mainBar
<1>6. sentBar' = [u \in User |-> 0]
  <2>1. server'.applied = 0
    BY <1>1, SentIs DEF WireOK
  <2> QED BY <2>1 DEF sentBar
<1>7. Abs!RestartDevice
  BY <1>1, <1>4, <1>5, <1>6 DEF Abs!RestartDevice
<1>8. Abs!ClientNext(AllWrites)
  BY <1>7 DEF Abs!ClientNext
<1> QED BY <1>2, <1>8 DEF ClientStep

\* The other steps are the stream's own.
LEMMA SeenStream ==
    ASSUME HandlersOK,
           \/ ConnectivityChanged \/ DisableNetwork \/ EnableNetwork
           \/ (\E c \in tokens : ResumeStartWithCredentials(c))
           \/ TokenFails \/ BackoffElapsed \/ HandshakeComplete
           \/ ConnectionBreaks \/ IdleTimeout \/ ServerRefuses \/ UNCHANGED vars
    PROVE  HandlersOK' /\ ClientStep
<1>1. CASE ConnectionBreaks
  <2>1. UNCHANGED <<db, server, queue, callbacks, main, waiting>>
    BY <1>1 DEF ConnectionBreaks, CloseWith, IsPermanentWriteError, serverVars
  <2> QED BY <2>1, SeenQuiet
<1>2. CASE ~ConnectionBreaks
  <2>1. UNCHANGED <<db, server, queue, callbacks, main, waiting>>
    BY <1>2
    DEF ConnectivityChanged, DisableNetwork, EnableNetwork, ResumeStartWithCredentials,
        TokenFails, BackoffElapsed, HandshakeComplete, IdleTimeout, ServerRefuses, vars,
        serverVars, storeVars
  <2> QED BY <2>1, SeenQuiet
<1> QED BY <1>1, <1>2

\* At the start nothing is pending, sent or due.
LEMMA SeenInit == Init => HandlersOK /\ Abs!FirestoreInit([d \in {TheDoc} |-> NoDoc])
<1> SUFFICES ASSUME Init PROVE HandlersOK /\ Abs!FirestoreInit([d \in {TheDoc} |-> NoDoc])
  OBVIOUS
<1>1. /\ queue = [u \in User |-> << >>] /\ callbacks = [u \in User |-> {}]
      /\ main = << >> /\ waiting = {} /\ db = [d \in {TheDoc} |-> NoDoc]
      /\ server.applied = 0
  BY DEF Init
<1>2. HandlersOK
  <2>1. WaitsOK({}) /\ << >> \in Seq(Entry)
    BY FS_EmptySet DEF WaitsOK
  <2>2. \A u \in User : Held(queue[u], callbacks[u])
    BY <1>1 DEF Held
  <2> QED BY <1>1, <2>1, <2>2 DEF HandlersOK
<1>3. pendingBar = [u \in User |-> << >>]
  <2>1. \A u \in User : Bar(queue[u], callbacks[u]) = << >>
    BY <1>1 DEF Bar
  <2>2. QueuesOK
    BY InitOK
  <2> QED BY <1>2, <2>1, <2>2, PendingIs
<1>4. mainBar = [u \in User |-> << >>]
  <2>1. \A u : HandlersOf(u, << >>) = << >>
    <3>1. << >> \in Seq(Entry) /\ \A u : \A i \in 1..Len(<< >>) : ~For(u, << >>[i])
      OBVIOUS
    <3> QED BY <3>1, HandlersNone
  <2> QED BY <1>1, <2>1 DEF mainBar
<1>5. sentBar = [u \in User |-> 0]
  BY <1>1 DEF sentBar
<1> QED BY <1>1, <1>2, <1>3, <1>4, <1>5 DEF Abs!FirestoreInit

\* Every step keeps the invariant and is one of the abstract client's, or none.
LEMMA SeenNext ==
    ASSUME CutShort = FALSE, PartsOK, WireOK, HandlersOK, [Next]_vars
    PROVE  /\ PartsOK' /\ WireOK' /\ HandlersOK' /\ ClientStep
<1>1. PartsOK' /\ WireOK'
  BY WireNext
<1>2. CASE WriteMutations
  BY <1>1, <1>2, SeenIssue
<1>3. CASE WaitForPendingWrites
  BY <1>1, <1>3, SeenWait
<1>4. CASE \E u \in User : HandleCredentialChange(u)
  BY <1>1, <1>4, SeenCredential
<1>5. CASE ServerHandshake
  BY <1>1, <1>5, SeenReconnect
<1>6. CASE ServerApplies
  BY <1>1, <1>6, SeenTransmit
<1>7. CASE MutationResult
  BY <1>1, <1>7, SeenAcknowledge
<1>8. CASE StreamClosed
  BY <1>1, <1>8, SeenReject
<1>9. CASE RunHandler
  BY <1>1, <1>9, SeenHandler
<1>10. CASE Restart
  BY <1>1, <1>10, SeenRestart
<1>11. CASE \/ ConnectivityChanged \/ DisableNetwork \/ EnableNetwork
            \/ (\E c \in tokens : ResumeStartWithCredentials(c))
            \/ TokenFails \/ BackoffElapsed \/ HandshakeComplete
            \/ ConnectionBreaks \/ IdleTimeout \/ ServerRefuses \/ UNCHANGED vars
  BY <1>1, <1>11, SeenStream
<1> QED
  BY <1>1, <1>2, <1>3, <1>4, <1>5, <1>6, <1>7, <1>8, <1>9, <1>10, <1>11 DEF Next

\* The detailed client implements the abstract one, whose steps the screens'
\* modules use: a write takes effect when the server applies it, in the order
\* of its queue; its handler is due at most once, in order, and says what
\* happened; a restart keeps the queues and drops the handlers.  For every set
\* of accounts, window and bounds; not where a write that fails may end the
\* stream ahead of the responses (CutShort), where it is false.
THEOREM ClientImplements ==
    ASSUME CutShort = FALSE
    PROVE  Spec => Implements
<1>1. Init => PartsOK /\ WireOK /\ HandlersOK /\ Abs!FirestoreInit([d \in {TheDoc} |-> NoDoc])
  BY InitOK, WireInit, SeenInit DEF PartsOK
<1>2. (PartsOK /\ WireOK /\ HandlersOK) /\ [Next]_vars =>
         (PartsOK /\ WireOK /\ HandlersOK)' /\ ClientStep
  BY SeenNext
<1>3. ClientStep =>
         [Abs!ClientNext({Mutation(n) : n \in 1..MaxWrites})]_<<db, pendingBar, sentBar, mainBar>>
  BY DEF ClientStep, barVars, AllWrites
<1> QED BY <1>1, <1>2, <1>3, PTL DEF Spec, Implements

-----------------------------------------------------------------------------
(* What the application hears                                              *)

\* A write is in one queue, once, and was issued.
Alone ==
    /\ \A u \in User : \A i \in 1..Len(queue[u]) : queue[u][i].write <= issued
    /\ \A u, v \in User : \A i \in 1..Len(queue[u]), j \in 1..Len(queue[v]) :
          queue[u][i].write = queue[v][j].write => u = v /\ i = j

\* What is due of a write that is in no queue any more, and of a wait for
\* writes of which none is.
HeardWrite(e) ==
    /\ e.write <= issued
    /\ \A u \in User : \A j \in 1..Len(queue[u]) : queue[u][j].write # e.write
    /\ ~e.ok => e.write \in refused
HeardWait(e) ==
    e.ok => /\ \A n \in e.writes : n <= issued
            /\ \A j \in 1..Len(queue[e.user]) : queue[e.user][j].write \notin e.writes
Heard == {e \in Entry : IF e.kind = "written" THEN HeardWrite(e) ELSE HeardWait(e)}

\* Who waits under the id of a batch waits for none behind it.
WaitsFor ==
    \A w \in waiting :
        /\ \A n \in w.writes : n <= issued
        /\ \A j \in 1..Len(queue[user]) :
              queue[user][j].write \in w.writes => queue[user][j].id <= w.id

\* A server that closed the stream refused the write that is answered next.
RefusedNext ==
    closing # Nothing =>
        /\ Len(answers) + 1 \in 1..Len(pipeline)
        /\ pipeline[Len(answers) + 1].write \in refused

HeardOK == Alone /\ main \in Seq(Heard) /\ WaitsFor /\ RefusedNext

\* The invariant says so.
LEMMA HeardIs == PartsOK /\ HandlersOK /\ HeardOK => HeardTruthful
<1> SUFFICES ASSUME PartsOK, HandlersOK, HeardOK PROVE HeardTruthful
  OBVIOUS
<1>1. \A u \in User : queue[u] \in Seq(Batch) /\ DOMAIN queue[u] = 1..Len(queue[u])
  BY DEF PartsOK, QueuesOK
<1>2. main \in Seq(Heard) /\ DOMAIN main = 1..Len(main)
  BY DEF HeardOK
<1>3. \A i \in 1..Len(main) : main[i] \in Heard
  BY <1>2, ElementOfSeq
<1>4. HandlersMatch
  <2>1. ASSUME NEW u \in User, NEW c \in callbacks[u] PROVE c \in ToSet(queue[u])
    <3>1. PICK i \in 1..Len(queue[u]) : c = queue[u][i]
      BY DEF HandlersOK, Held
    <3> QED BY <1>1, <3>1 DEF ToSet
  <2>2. ASSUME NEW i \in 1..Len(main), main[i].kind = "written", NEW u \in User
        PROVE  main[i].write \notin WritesOf(queue[u])
    <3>1. HeardWrite(main[i])
      BY <1>3, <2>2 DEF Heard
    <3> QED BY <1>1, <3>1 DEF HeardWrite, WritesOf
  <2> QED BY <1>2, <2>1, <2>2 DEF HandlersMatch
<1>5. WaitTruthful
  <2> SUFFICES ASSUME NEW i \in 1..Len(main), main[i].kind = "waited", main[i].ok
               PROVE  main[i].writes \cap WritesOf(queue[main[i].user]) = {}
    BY <1>2 DEF WaitTruthful
  <2>1. HeardWait(main[i]) /\ main[i].user \in User
    BY <1>3 DEF Heard, Entry
  <2> QED BY <1>1, <2>1 DEF HeardWait, WritesOf
<1>6. RefusalTruthful
  <2> SUFFICES ASSUME NEW i \in 1..Len(main), main[i].kind = "written", ~main[i].ok
               PROVE  main[i].write \in refused
    BY <1>2 DEF RefusalTruthful
  <2>1. HeardWrite(main[i])
    BY <1>3 DEF Heard
  <2> QED BY <2>1 DEF HeardWrite
<1> QED BY <1>4, <1>5, <1>6 DEF HeardTruthful

\* What was heard stays heard while no queue grows.
LEMMA HeardStays ==
    ASSUME main \in Seq(Heard), issued' = issued, refused \subseteq refused',
           \A u \in User : \A j \in 1..Len(queue'[u]) :
              \E i \in 1..Len(queue[u]) : queue'[u][j] = queue[u][i]
    PROVE  main \in Seq(Heard')
<1>1. Heard \subseteq Heard'
  <2> SUFFICES ASSUME NEW e \in Heard PROVE e \in Heard'
    OBVIOUS
  <2>1. e \in Entry /\ e.user \in User
    BY DEF Heard, Entry
  <2>2. CASE e.kind = "written"
    <3>1. HeardWrite(e)
      BY <2>2 DEF Heard
    <3>2. HeardWrite(e)'
      BY <3>1 DEF HeardWrite
    <3> QED BY <2>1, <2>2, <3>2 DEF Heard
  <2>3. CASE e.kind # "written"
    <3>1. HeardWait(e)
      BY <2>3 DEF Heard
    <3>2. HeardWait(e)'
      <4>1. \A j \in 1..Len(queue'[e.user]) :
                \E i \in 1..Len(queue[e.user]) : queue'[e.user][j] = queue[e.user][i]
        BY <2>1
      <4>2. \A n \in e.writes : n <= issued => n <= issued'
        OBVIOUS
      <4> QED BY <3>1, <4>1, <4>2 DEF HeardWait
    <3> QED BY <2>1, <2>3, <3>2 DEF Heard
  <2> QED BY <2>2, <2>3
<1> DEFINE a == Heard
           b == Heard'
<1> HIDE DEF a, b
<1>2. main \in Seq(a) /\ a \subseteq b
  BY <1>1 DEF a, b
<1>3. main \in Seq(b)
  BY <1>2
<1> QED BY <1>3 DEF b

\* A write is issued: no one has heard of it, and nobody waits for it.
LEMMA HeardIssue ==
    ASSUME PartsOK, HandlersOK, Alone, main \in Seq(Heard), WaitsFor, WriteMutations
    PROVE  Alone' /\ main' \in Seq(Heard') /\ WaitsFor'
<1> DEFINE n == issued + 1
           b == [id |-> nextId, write |-> n]
           q == queue[user]
<1>1. /\ user \in User /\ queue \in [User -> Seq(Batch)]
      /\ issued \in Nat /\ issued' = n /\ user' = user
      /\ queue' = [queue EXCEPT ![user] = Append(q, b)]
      /\ UNCHANGED <<main, waiting, refused>>
  BY BoundsAssumption DEF PartsOK, QueuesOK, WriteMutations
<1>2. b \in Batch /\ b.write = n
  <2>1. nextId \in Nat /\ n \in 1..MaxWrites
    BY BoundsAssumption DEF PartsOK, QueuesOK, WriteMutations
  <2> QED BY <2>1 DEF Batch
<1> HIDE DEF b
<1>3. /\ Len(q) \in Nat /\ Len(Append(q, b)) = Len(q) + 1
      /\ \A i \in 1..Len(q) : Append(q, b)[i] = q[i]
      /\ Append(q, b)[Len(q) + 1] = b
  <2>1. q \in Seq(Batch)
    BY <1>1
  <2>2. Len(q) \in Nat
    BY <2>1
  <2> QED BY <1>2, <2>1, <2>2, AppendProperties
<1>4. ASSUME NEW u \in User, NEW i \in 1..Len(queue'[u])
      PROVE  \/ i \in 1..Len(queue[u]) /\ queue'[u][i] = queue[u][i]
             \/ u = user /\ i = Len(q) + 1 /\ queue'[u][i] = b
  <2>1. CASE u # user
    BY <1>1, <1>4, <2>1
  <2>2. CASE u = user
    <3>1. queue'[u] = Append(q, b)
      BY <1>1, <2>2
    <3>2. i \in 1..Len(q) \/ i = Len(q) + 1
      BY <1>3, <3>1
    <3> QED BY <1>3, <2>2, <3>1, <3>2
  <2> QED BY <2>1, <2>2
<1>5. \A u \in User : \A i \in 1..Len(queue[u]) :
         queue[u][i].write \in Nat /\ queue[u][i].write <= issued
  <2>1. \A u \in User : \A i \in 1..Len(queue[u]) : queue[u][i] \in Batch
    BY <1>1
  <2> QED BY <2>1 DEF Batch, Alone
<1>6. ~(n <= issued) /\ \A k \in Nat : k <= issued => k <= n /\ k # n
  BY <1>1
<1> HIDE DEF n
<1>7. n <= n
  BY <1>1 DEF n
<1>8. Alone'
  <2>1. ASSUME NEW u \in User, NEW i \in 1..Len(queue'[u]) PROVE queue'[u][i].write <= issued'
    BY <1>1, <1>2, <1>4, <1>5, <1>6, <1>7
  <2>2. ASSUME NEW u \in User, NEW v \in User,
               NEW i \in 1..Len(queue'[u]), NEW j \in 1..Len(queue'[v]),
               queue'[u][i].write = queue'[v][j].write
        PROVE  u = v /\ i = j
    <3>1. CASE i \in 1..Len(queue[u]) /\ queue'[u][i] = queue[u][i]
      <4>1. queue'[v][j].write # n
        BY <1>5, <1>6, <2>2, <3>1
      <4>2. j \in 1..Len(queue[v]) /\ queue'[v][j] = queue[v][j]
        BY <1>2, <1>4, <4>1
      <4> QED BY <2>2, <3>1, <4>2 DEF Alone
    <3>2. CASE u = user /\ i = Len(q) + 1 /\ queue'[u][i] = b
      <4>1. ~(j \in 1..Len(queue[v]) /\ queue'[v][j] = queue[v][j])
        BY <1>2, <1>5, <1>6, <2>2, <3>2
      <4> QED BY <1>4, <3>2, <4>1
    <3> QED BY <1>4, <3>1, <3>2
  <2> QED BY <2>1, <2>2 DEF Alone
<1>9. main' \in Seq(Heard')
  <2>1. Heard \subseteq Heard'
    <3> SUFFICES ASSUME NEW e \in Heard PROVE e \in Heard'
      OBVIOUS
    <3>1. /\ e \in Entry /\ e.user \in User
          /\ e.kind = "written" => e.write \in Nat
          /\ e.kind # "written" => \A k \in e.writes : k \in Nat
      BY BoundsAssumption DEF Heard, Entry
    <3>2. CASE e.kind = "written"
      <4>1. HeardWrite(e)
        BY <3>2 DEF Heard
      <4>2. e.write <= n /\ e.write # n
        BY <1>6, <3>1, <3>2, <4>1 DEF HeardWrite
      <4>3. HeardWrite(e)'
        BY <1>1, <1>2, <1>4, <4>1, <4>2 DEF HeardWrite
      <4> QED BY <3>1, <3>2, <4>3 DEF Heard
    <3>3. CASE e.kind # "written"
      <4>1. HeardWait(e)
        BY <3>3 DEF Heard
      <4>2. e.ok => \A k \in e.writes : k <= n /\ k # n
        BY <1>6, <3>1, <3>3, <4>1 DEF HeardWait
      <4>3. HeardWait(e)'
        BY <1>1, <1>2, <1>4, <3>1, <4>1, <4>2 DEF HeardWait
      <4> QED BY <3>1, <3>3, <4>3 DEF Heard
    <3> QED BY <3>2, <3>3
  <2> DEFINE x == Heard
             y == Heard'
  <2> HIDE DEF x, y
  <2>2. main \in Seq(x) /\ x \subseteq y
    BY <2>1 DEF x, y
  <2>3. main \in Seq(y)
    BY <2>2
  <2> QED BY <1>1, <2>3 DEF y
<1>10. WaitsFor'
  <2> SUFFICES ASSUME NEW w \in waiting
               PROVE  /\ \A k \in w.writes : k <= n
                      /\ \A j \in 1..Len(queue'[user]) :
                            queue'[user][j].write \in w.writes => queue'[user][j].id <= w.id
    BY <1>1 DEF WaitsFor
  <2>1. \A k \in w.writes : k \in Nat
    <3>1. w.writes \in SUBSET (1..MaxWrites)
      BY DEF HandlersOK, WaitsOK
    <3>2. \A k \in 1..MaxWrites : k \in Nat
      BY BoundsAssumption
    <3> QED BY <3>1, <3>2
  <2>2. \A k \in w.writes : k <= n /\ k # n
    BY <1>6, <2>1 DEF WaitsFor
  <2> QED BY <1>1, <1>2, <1>4, <2>2 DEF WaitsFor
<1> QED BY <1>8, <1>9, <1>10

\* The entries of the waits that end together.
LEMMA SomeWait ==
    ASSUME NEW ws, WaitsOK(ws), NEW ok \in BOOLEAN
    PROVE  WaitedAll(ws, ok) \in Seq({Waited(w, ok) : w \in ws})
<1> DEFINE S == {Waited(w, ok) : w \in ws}
           f == [w \in ws |-> Waited(w, ok)]
<1>1. f \in Surjection(ws, S)
  BY DEF Surjection
<1>2. IsFiniteSet(ws) /\ WaitedAll(ws, ok) = SetToSeq(S)
  BY DEF WaitsOK, WaitedAll
<1> HIDE DEF f, S
<1>3. IsFiniteSet(S)
  BY <1>1, <1>2, FS_Surjection
<1>4. SetToSeq(S) \in Seq(S)
  BY <1>3, SeqOfSet
<1> QED BY <1>2, <1>4 DEF S

\* The handler of the write that is answered, if it has one.
LEMMA OneWritten ==
    ASSUME NEW q, Ordered(q), q # << >>, q = queue[user], Held(q, callbacks[user]), NEW ok
    PROVE  LET e == [kind |-> "written", user |-> user, write |-> Head(q).write, ok |-> ok]
           IN  WrittenAll(Head(q), ok) = IF Head(q) \in callbacks[user] THEN << e >> ELSE << >>
<1> DEFINE cs == callbacks[user]
           b == Head(q)
           e == [kind |-> "written", user |-> user, write |-> b.write, ok |-> ok]
           S == {[kind |-> "written", user |-> user, write |-> c.write, ok |-> ok] :
                    c \in cs \cap {b}}
<1>1. {c \in cs : c.id = b.id} = cs \cap {b}
  BY BarShrinks
<1>2. WrittenAll(b, ok) = SetToSeq(S)
  BY <1>1 DEF WrittenAll, Owed
<1>3. S = IF b \in cs THEN {e} ELSE {}
  <2>1. CASE b \in cs
    <3>1. cs \cap {b} = {b}
      BY <2>1
    <3> QED BY <2>1, <3>1
  <2>2. CASE b \notin cs
    <3>1. cs \cap {b} = {}
      BY <2>2
    <3> QED BY <2>2, <3>1
  <2> QED BY <2>1, <2>2
<1> HIDE DEF S, e
<1>4. CASE b \in cs
  BY <1>2, <1>3, <1>4, SeqOfOne DEF e
<1>5. CASE b \notin cs
  BY <1>2, <1>3, <1>5, SeqOfNone
<1> QED BY <1>4, <1>5 DEF e

\* Somebody waits for all that is pending, or another account signs in and the
\* waits end without success.
LEMMA HeardWaits ==
    ASSUME PartsOK, HandlersOK, Alone, main \in Seq(Heard), WaitsFor,
           WaitForPendingWrites \/ \E u \in User : HandleCredentialChange(u)
    PROVE  Alone' /\ main' \in Seq(Heard') /\ WaitsFor'
<1> DEFINE q == queue[user]
           H == Heard
<1>1. /\ UNCHANGED <<queue, issued, refused>>
      /\ user \in User /\ q \in Seq(Batch) /\ Ordered(q)
  BY DEF WaitForPendingWrites, HandleCredentialChange, PartsOK, QueuesOK, Numbered
<1>2. Alone' /\ H' = H
  BY <1>1 DEF Alone, Heard, HeardWrite, HeardWait
<1>3. \A i \in 1..Len(q) : q[i] \in Batch /\ q[i].write \in 1..MaxWrites /\ q[i].write <= issued
  <2>1. \A i \in 1..Len(q) : q[i] \in Batch
    BY <1>1
  <2> QED BY <1>1, <2>1 DEF Batch, Alone
<1>4. WritesOf(q) = {q[i].write : i \in 1..Len(q)}
  BY <1>1 DEF WritesOf
<1>5. CASE WaitForPendingWrites
  <2> DEFINE w == [id |-> HighestId(q), writes |-> WritesOf(q)]
  <2>1. user' = user
    BY <1>5 DEF WaitForPendingWrites
  <2>2. CASE q = << >>
    <3> DEFINE e == Waited(w, TRUE)
    <3>1. main' = Append(main, e) /\ waiting' = waiting
      BY <1>5, <2>2 DEF WaitForPendingWrites
    <3>2. WritesOf(q) = {}
      BY <1>4, <2>2
    <3>3. e \in Heard
      BY <1>1, <3>2 DEF Waited, Heard, Entry, HeardWait
    <3> HIDE DEF e, H
    <3>4. main \in Seq(H) /\ e \in H
      BY <3>3 DEF H
    <3>5. main' \in Seq(H)
      BY <3>1, <3>4, AppendProperties
    <3>6. WaitsFor'
      BY <1>1, <2>1, <3>1 DEF WaitsFor
    <3> QED BY <1>2, <3>5, <3>6 DEF H
  <2>3. CASE q # << >>
    <3>1. waiting' = waiting \cup {w} /\ main' = main
      BY <1>5, <2>3 DEF WaitForPendingWrites
    <3>2. \A n \in w.writes : n <= issued
      BY <1>3, <1>4
    <3>3. \A j \in 1..Len(q) : q[j].id <= w.id
      <4>1. Len(q) \in Nat /\ Len(q) > 0 /\ Len(q) \in 1..Len(q) /\ w.id = q[Len(q)].id
        BY <1>1, <2>3 DEF HighestId, Last
      <4>2. \A j \in 1..Len(q) : q[j].id \in Nat
        BY <1>3 DEF Batch
      <4>3. \A j \in 1..Len(q) : j < Len(q) => q[j].id < q[Len(q)].id
        BY <1>1, <4>1 DEF Ordered
      <4>4. \A j \in 1..Len(q) : j < Len(q) \/ j = Len(q)
        BY <4>1
      <4> QED BY <4>1, <4>2, <4>3, <4>4
    <3> HIDE DEF w
    <3>4. WaitsFor'
      BY <1>1, <2>1, <3>1, <3>2, <3>3 DEF WaitsFor
    <3> QED BY <1>2, <3>1, <3>4
  <2> QED BY <2>2, <2>3
<1>6. ASSUME NEW u \in User, HandleCredentialChange(u)
      PROVE  Alone' /\ main' \in Seq(Heard') /\ WaitsFor'
  <2>1. CASE u = user
    <3>1. UNCHANGED <<main, waiting, user>>
      BY <1>6, <2>1 DEF HandleCredentialChange
    <3>2. WaitsFor'
      BY <1>1, <3>1 DEF WaitsFor
    <3> QED BY <1>2, <3>1, <3>2
  <2>2. CASE u # user
    <3> DEFINE S == {Waited(w, FALSE) : w \in waiting}
               t == WaitedAll(waiting, FALSE)
    <3>1. main' = main \o t /\ waiting' = {}
      BY <1>6, <2>2 DEF HandleCredentialChange
    <3>2. t \in Seq(S)
      BY SomeWait DEF HandlersOK
    <3>3. S \subseteq Heard
      <4> SUFFICES ASSUME NEW w \in waiting PROVE Waited(w, FALSE) \in Heard
        OBVIOUS
      <4>1. w.writes \in SUBSET (1..MaxWrites)
        BY DEF HandlersOK, WaitsOK
      <4> QED BY <1>1, <4>1 DEF Waited, Heard, Entry, HeardWait
    <3> HIDE DEF S, t, H
    <3>4. main \in Seq(H) /\ t \in Seq(H)
      <4>1. S \subseteq H
        BY <3>3 DEF H
      <4>2. t \in Seq(H)
        BY <3>2, <4>1
      <4> QED BY <4>2 DEF H
    <3>5. main' \in Seq(H)
      BY <3>1, <3>4, ConcatProperties
    <3>6. WaitsFor'
      BY <3>1 DEF WaitsFor
    <3> QED BY <1>2, <3>5, <3>6 DEF H
  <2> QED BY <2>1, <2>2
<1> QED BY <1>5, <1>6

\* The oldest write is answered, truthfully: what is due of it and of those
\* who waited for it is true.
LEMMA HeardSettled ==
    ASSUME PartsOK, HandlersOK, Alone, main \in Seq(Heard), WaitsFor,
           NEW ok \in BOOLEAN, queue[user] # << >>, Settle(Head(queue[user]), ok),
           ok \/ Head(queue[user]).write \in refused,
           UNCHANGED <<user, issued, refused>>
    PROVE  Alone' /\ main' \in Seq(Heard') /\ WaitsFor'
<1> DEFINE q == queue[user]
           b == Head(q)
           e == [kind |-> "written", user |-> user, write |-> b.write, ok |-> ok]
           W == WrittenAll(b, ok)
           V == WaitedAll(Waiters(b), TRUE)
           S == {Waited(w, TRUE) : w \in Waiters(b)}
           H == Heard'
<1>1. /\ user \in User /\ queue \in [User -> Seq(Batch)] /\ q \in Seq(Batch) /\ Ordered(q)
      /\ WaitsOK(waiting) /\ Held(q, callbacks[user])
  BY DEF PartsOK, QueuesOK, Numbered, HandlersOK
<1>2. /\ queue' = [queue EXCEPT ![user] = Tail(q)]
      /\ main' = main \o W \o V
      /\ waiting' = waiting \ Waiters(b)
  <2>1. Without(q, b.id) = Tail(q)
    BY <1>1, HeadLeaves
  <2> QED BY <2>1 DEF Settle
<1>3. /\ b = q[1] /\ 1 \in 1..Len(q) /\ b \in Batch
      /\ b.write \in 1..MaxWrites /\ b.write <= issued
  <2>1. b = q[1] /\ 1 \in 1..Len(q)
    BY <1>1
  <2>2. b \in Batch
    BY <1>1, <2>1
  <2> QED BY <1>1, <2>1, <2>2 DEF Batch, Alone
<1>4. \A j \in 1..Len(Tail(q)) : j + 1 \in 1..Len(q) /\ Tail(q)[j] = q[j + 1]
  BY <1>1, HeadLeaves
<1> DEFINE at(u, j) == IF u = user THEN j + 1 ELSE j
<1>5. ASSUME NEW u \in User, NEW j \in 1..Len(queue'[u])
      PROVE  /\ at(u, j) \in 1..Len(queue[u]) /\ queue'[u][j] = queue[u][at(u, j)]
             /\ u = user => at(u, j) # 1
  <2>1. CASE u # user
    BY <1>1, <1>2, <2>1
  <2>2. CASE u = user
    BY <1>1, <1>2, <1>4, <2>2
  <2> QED BY <2>1, <2>2
<1>6. Alone'
  <2>1. ASSUME NEW u \in User, NEW i \in 1..Len(queue'[u]) PROVE queue'[u][i].write <= issued'
    <3> HIDE DEF at
    <3> QED BY <1>5 DEF Alone
  <2>2. ASSUME NEW u \in User, NEW v \in User,
               NEW i \in 1..Len(queue'[u]), NEW j \in 1..Len(queue'[v]),
               queue'[u][i].write = queue'[v][j].write
        PROVE  u = v /\ i = j
    <3>1. u = v /\ at(u, i) = at(v, j)
      <4> HIDE DEF at
      <4>1. at(u, i) \in 1..Len(queue[u]) /\ queue'[u][i] = queue[u][at(u, i)]
        BY <1>5
      <4>2. at(v, j) \in 1..Len(queue[v]) /\ queue'[v][j] = queue[v][at(v, j)]
        BY <1>5
      <4>3. queue[u][at(u, i)].write = queue[v][at(v, j)].write
        BY <2>2, <4>1, <4>2
      <4> QED BY <4>1, <4>2, <4>3 DEF Alone
    <3>2. i \in Int /\ j \in Int
      OBVIOUS
    <3> QED BY <3>1, <3>2
  <2> QED BY <2>1, <2>2 DEF Alone
<1>7. main \in Seq(H)
  <2>1. \A u \in User : \A j \in 1..Len(queue'[u]) :
           \E i \in 1..Len(queue[u]) : queue'[u][j] = queue[u][i]
    <3> HIDE DEF at
    <3> QED BY <1>5
  <2> QED BY <2>1, HeardStays
<1>8. ASSUME NEW x, x = e PROVE x \in H
  <2>1. /\ x \in Entry /\ x.kind = "written" /\ x.write = b.write /\ x.ok = ok
        /\ x.write <= issued /\ (ok \/ x.write \in refused)
    BY <1>1, <1>3, <1>8 DEF Entry
  <2>2. ASSUME NEW u \in User, NEW j \in 1..Len(queue'[u]) PROVE queue'[u][j].write # x.write
    <3> HIDE DEF at
    <3>1. ~(u = user /\ at(u, j) = 1)
      BY <1>5
    <3>2. x.write = queue[user][1].write /\ 1 \in 1..Len(queue[user])
      BY <1>3, <2>1
    <3>3. at(u, j) \in 1..Len(queue[u]) /\ queue'[u][j] = queue[u][at(u, j)]
      BY <1>5
    <3>4. queue[u][at(u, j)].write # queue[user][1].write
      BY <1>1, <3>1, <3>2, <3>3 DEF Alone
    <3> QED BY <3>2, <3>3, <3>4
  <2>3. HeardWrite(x)'
    BY <2>1, <2>2 DEF HeardWrite
  <2> QED BY <2>1, <2>3 DEF Heard
<1>9. W \in Seq(H)
  <2> HIDE DEF e, H
  <2>1. W = << e >> \/ W = << >>
    BY <1>1, OneWritten DEF e
  <2>2. << e >> \in Seq(H) /\ << >> \in Seq(H)
    BY <1>8
  <2> QED BY <2>1, <2>2
<1>10. V \in Seq(H)
  <2>1. V \in Seq(S)
    <3>1. WaitsOK(Waiters(b))
      BY <1>1, WaitsPart DEF Waiters
    <3> QED BY <3>1, SomeWait
  <2>2. S \subseteq H
    <3> SUFFICES ASSUME NEW w \in Waiters(b), NEW f, f = Waited(w, TRUE) PROVE f \in H
      OBVIOUS
    <3>1. /\ w \in waiting /\ w.id = b.id /\ w.writes \in SUBSET (1..MaxWrites)
          /\ \A n \in w.writes : n <= issued
          /\ \A j \in 1..Len(q) : q[j].write \in w.writes => q[j].id <= w.id
      BY <1>1 DEF Waiters, WaitsOK, WaitsFor
    <3>2. f \in Entry /\ f.kind = "waited" /\ f.user = user /\ f.writes = w.writes
      BY <1>1, <3>1 DEF Waited, Entry
    <3>3. ASSUME NEW j \in 1..Len(queue'[f.user]) PROVE queue'[f.user][j].write \notin f.writes
      <4>1. j + 1 \in 1..Len(q) /\ queue'[f.user][j] = q[j + 1] /\ 1 < j + 1
        <5>1. f.user \in User /\ f.user = user
          BY <1>1, <3>2
        <5>2. j + 1 \in 1..Len(q) /\ queue'[f.user][j] = q[j + 1]
          BY <1>5, <5>1
        <5>3. 1 < j + 1
          OBVIOUS
        <5> QED BY <5>2, <5>3
      <4>2. q[1].id < q[j + 1].id
        BY <1>1, <1>3, <4>1 DEF Ordered
      <4>3. q[1].id \in Nat /\ q[j + 1].id \in Nat
        <5>1. q[1] \in Batch /\ q[j + 1] \in Batch
          BY <1>1, <1>3, <4>1
        <5> QED BY <5>1 DEF Batch
      <4>4. ~(q[j + 1].id <= w.id)
        BY <1>3, <3>1, <4>2, <4>3
      <4> QED BY <3>1, <3>2, <4>1, <4>4
    <3>4. HeardWait(f)'
      BY <3>1, <3>2, <3>3 DEF HeardWait
    <3> QED BY <3>2, <3>4 DEF Heard
  <2> HIDE DEF S, V, H
  <2> QED BY <2>1, <2>2
<1> HIDE DEF W, V, H
<1>11. main' \in Seq(H)
  <2>1. main \o W \in Seq(H)
    BY <1>7, <1>9, ConcatProperties
  <2> QED BY <1>2, <1>10, <2>1, ConcatProperties
<1>12. WaitsFor'
  <2> SUFFICES ASSUME NEW w \in waiting, NEW j \in 1..Len(queue'[user]),
                      queue'[user][j].write \in w.writes
               PROVE  queue'[user][j].id <= w.id
    BY <1>2 DEF WaitsFor
  <2> QED BY <1>1, <1>5 DEF WaitsFor
<1> QED BY <1>6, <1>11, <1>12 DEF H

\* While the server has the stream closed it is open at the client, which
\* writes and hears no more than it wrote.
LEMMA Closing ==
    ASSUME PartsOK, WireOK, closing # Nothing
    PROVE  /\ state = "Open" /\ handshake /\ enabled /\ wire = << >>
           /\ pipeline = Begin(queue[user]) /\ queue[user] \in Seq(Batch)
           /\ Ordered(queue[user]) /\ Len(answers) \in Nat
<1>1. state = "Open" /\ Writing
  BY DEF WireOK, OpenOK, Unopened, Asked, Greeted
<1>2. handshake /\ wire = << >>
  BY <1>1 DEF Writing
<1> QED BY <1>1, <1>2, Carries, PresentQueue DEF PartsOK

\* The write that is answered next stays the same, d places nearer to the
\* front where d of those before it were answered.
LEMMA RefusedMoves ==
    ASSUME NEW p \in Seq(Batch), NEW r \in Seq(Batch), pipeline = Begin(p), pipeline' = Begin(r),
           RefusedNext, closing' = closing, refused \subseteq refused',
           NEW d \in Nat, Len(answers) \in Nat, Len(answers) >= d,
           Len(answers') = Len(answers) - d,
           \A k \in 1..Len(p) : k > d => k - d \in 1..Len(r) /\ r[k - d] = p[k]
    PROVE  RefusedNext'
<1> SUFFICES ASSUME closing # Nothing
             PROVE  /\ Len(answers') + 1 \in 1..Len(pipeline')
                    /\ pipeline'[Len(answers') + 1].write \in refused'
  BY DEF RefusedNext
<1> DEFINE k == Len(answers) + 1
<1>1. /\ Len(pipeline) = Room(p) /\ Len(pipeline') = Room(r)
      /\ Room(p) \in Nat /\ Room(p) <= Len(p) /\ Room(p) <= Window
      /\ \A i \in 1..Room(p) : pipeline[i] = p[i]
      /\ \A i \in 1..Room(r) : pipeline'[i] = r[i]
  BY RoomBounds
<1>2. Len(p) \in Nat /\ Len(r) \in Nat /\ Window \in Nat
  BY BoundsAssumption
<1>3. k \in 1..Room(p) /\ p[k].write \in refused
  BY <1>1 DEF RefusedNext
<1>4. k \in Nat /\ k > d /\ k \in 1..Len(p) /\ Len(answers') + 1 = k - d
      /\ k - d <= Window
  BY <1>1, <1>2, <1>3
<1>5. k - d \in 1..Len(r) /\ r[k - d] = p[k]
  BY <1>4
<1> HIDE DEF k
<1>6. k - d \in 1..Room(r)
  BY <1>2, <1>4, <1>5 DEF Room
<1> QED BY <1>1, <1>3, <1>4, <1>5, <1>6

\* Writes join the pipeline behind it.
LEMMA RefusedFilled ==
    ASSUME PartsOK, PartsOK', WireOK, RefusedNext, WriteMutations \/ EnableNetwork
    PROVE  RefusedNext'
<1>1. UNCHANGED <<answers, closing, refused, user>> /\ (enabled => enabled')
  BY DEF WriteMutations, EnableNetwork, storeVars
<1>2. CASE closing = Nothing
  BY <1>1, <1>2 DEF RefusedNext
<1>3. CASE closing # Nothing
  <2> DEFINE p == queue[user]
             r == queue'[user']
  <2>1. /\ pipeline = Begin(p) /\ p \in Seq(Batch) /\ Len(answers) \in Nat /\ enabled
        /\ user \in User
    BY <1>3, Closing DEF PartsOK, QueuesOK
  <2>2. pipeline' = Begin(r) /\ r \in Seq(Batch)
    <3>1. queue' \in [User -> Seq(Batch)] /\ user' \in User
      BY DEF PartsOK, QueuesOK
    <3> QED BY <1>1, <2>1, <3>1 DEF PartsOK, StreamOK
  <2>3. \A k \in 1..Len(p) : k \in 1..Len(r) /\ r[k] = p[k]
    <3>1. CASE WriteMutations
      <4> DEFINE b == [id |-> nextId, write |-> issued + 1]
      <4>1. r = Append(p, b)
        BY <1>1, <2>1, <3>1 DEF WriteMutations, PartsOK, QueuesOK
      <4>2. b \in Batch
        BY <3>1, BoundsAssumption DEF WriteMutations, PartsOK, QueuesOK, Batch
      <4> HIDE DEF b
      <4>3. Len(r) = Len(p) + 1 /\ \A k \in 1..Len(p) : r[k] = p[k]
        BY <2>1, <4>1, <4>2, AppendProperties
      <4>4. Len(p) \in Nat
        BY <2>1
      <4>5. \A k \in 1..Len(p) : k \in 1..Len(p) + 1
        BY <4>4
      <4> QED BY <4>3, <4>5
    <3>2. CASE EnableNetwork
      BY <3>2 DEF EnableNetwork, storeVars
    <3> QED BY <3>1, <3>2
  <2>4. 0 \in Nat /\ Len(answers) >= 0 /\ Len(answers') = Len(answers) - 0
    BY <1>1, <2>1
  <2>5. \A k \in 1..Len(p) : k > 0 => k - 0 \in 1..Len(r) /\ r[k - 0] = p[k]
    <3>1. \A k \in 1..Len(p) : k - 0 = k
      OBVIOUS
    <3> QED BY <2>3, <3>1
  <2> HIDE DEF p, r
  <2> QED BY <1>1, <2>1, <2>2, <2>4, <2>5, RefusedMoves
<1> QED BY <1>2, <1>3

\* One before it is answered.
LEMMA RefusedNearer ==
    ASSUME PartsOK, PartsOK', WireOK, RefusedNext, MutationResult
    PROVE  RefusedNext'
<1>1. /\ answers # << >> /\ answers' = Tail(answers) /\ UNCHANGED <<closing, refused, user, enabled>>
      /\ Settle(Head(pipeline), TRUE) /\ pipeline # << >>
  BY DEF MutationResult, Answered
<1>2. CASE closing = Nothing
  BY <1>1, <1>2 DEF RefusedNext
<1>3. CASE closing # Nothing
  <2> DEFINE p == queue[user]
             r == queue'[user']
  <2>1. /\ pipeline = Begin(p) /\ p \in Seq(Batch) /\ Ordered(p) /\ Len(answers) \in Nat
        /\ enabled /\ user \in User /\ queue \in [User -> Seq(Batch)]
    BY <1>3, Closing DEF PartsOK, QueuesOK
  <2>2. p # << >> /\ Head(pipeline) = Head(p)
    BY <1>1, OldestFirst
  <2>3. r = Tail(p)
    <3>1. Without(p, Head(p).id) = Tail(p)
      BY <2>1, <2>2, HeadLeaves
    <3> QED BY <1>1, <2>1, <2>2, <3>1 DEF Settle
  <2>4. pipeline' = Begin(r) /\ r \in Seq(Batch)
    <3>1. queue' \in [User -> Seq(Batch)] /\ user' \in User
      BY DEF PartsOK, QueuesOK
    <3> QED BY <1>1, <2>1, <3>1 DEF PartsOK, StreamOK
  <2>5. /\ Len(answers) >= 1 /\ Len(answers') = Len(answers) - 1
    <3>1. answers \in Seq(Answer)
      BY <1>3, Closing, Carries DEF Writing
    <3> QED BY <1>1, <3>1, HeadTailProperties
  <2>6. \A k \in 1..Len(p) : k > 1 => k - 1 \in 1..Len(r) /\ r[k - 1] = p[k]
    <3>1. Len(r) = Len(p) - 1 /\ \A i \in 1..Len(r) : r[i] = p[i + 1]
      BY <2>1, <2>2, <2>3, HeadTailProperties
    <3>2. Len(p) \in Nat
      BY <2>1
    <3>3. \A k \in 1..Len(p) : k > 1 => k - 1 \in 1..Len(p) - 1 /\ (k - 1) + 1 = k
      BY <3>2
    <3> QED BY <3>1, <3>3
  <2> HIDE DEF p, r
  <2>7. 1 \in Nat
    OBVIOUS
  <2> QED BY <1>1, <2>1, <2>4, <2>5, <2>6, <2>7, RefusedMoves
<1> QED BY <1>2, <1>3

\* The server refuses a write: on the open stream, the one answered next.
LEMMA RefusedOpen ==
    ASSUME PartsOK, WireOK, ServerRefuses
    PROVE  RefusedNext'
<1>1. /\ wire # << >> /\ wire \in Seq(Request) /\ Len(wire) \in Nat /\ Len(wire) > 0
      /\ Head(wire) = wire[1] /\ 1 \in 1..Len(wire) /\ closeCount \in Nat
  <2>1. wire # << >> /\ wire \in Seq(Request) /\ closeCount \in Nat
    BY DEF ServerRefuses, WireOK, WireOrdered, PartsOK, StreamOK
  <2>2. Len(wire) \in Nat /\ Len(wire) > 0 /\ Head(wire) = wire[1]
    BY <2>1
  <2>3. 1 \in 1..Len(wire)
    BY <2>2
  <2> QED BY <2>1, <2>2, <2>3
<1>2. closing = Nothing
  BY <1>1, Closing
<1>3. /\ wire[1].kind = "write" /\ UNCHANGED <<answers, pipeline>>
      /\ refused' = refused \cup {wire[1].write}
      /\ ~(state = "Open" /\ wire[1].stream = closeCount) => closing' = closing
  BY <1>1 DEF ServerRefuses, Live
<1>4. CASE ~(state = "Open" /\ wire[1].stream = closeCount)
  BY <1>2, <1>3, <1>4 DEF RefusedNext
<1>5. CASE state = "Open" /\ wire[1].stream = closeCount
  <2>1. ~Asked
    <3> SUFFICES ASSUME Asked PROVE FALSE
      OBVIOUS
    <3>1. 1 = Len(wire)
      BY <1>1, <1>5, AskedLast DEF WireOK
    <3>2. wire[Len(wire)].kind = "handshake"
      BY DEF Asked
    <3>3. wire[1].kind = "handshake"
      BY <3>1, <3>2
    <3> QED BY <1>3, <3>3
  <2>2. handshake
    BY <1>1, <1>5, <2>1 DEF WireOK, OpenOK, Greeted, Writing
  <2>3. /\ Len(answers) + 1 \in 1..Len(pipeline)
        /\ wire[1].write = pipeline[Len(answers) + 1].write
    BY <1>1, <1>5, <2>2, Carries
  <2> QED BY <1>3, <2>3 DEF RefusedNext
<1> QED BY <1>4, <1>5

\* The other steps leave it alone, or end the stream.
LEMMA RefusedKept ==
    ASSUME PartsOK, WireOK, RefusedNext,
           \/ WaitForPendingWrites \/ (\E u \in User : HandleCredentialChange(u))
           \/ ConnectivityChanged \/ DisableNetwork
           \/ (\E c \in tokens : ResumeStartWithCredentials(c))
           \/ TokenFails \/ BackoffElapsed \/ HandshakeComplete \/ StreamClosed
           \/ ConnectionBreaks \/ IdleTimeout \/ ServerHandshake \/ ServerApplies
           \/ RunHandler \/ Restart \/ UNCHANGED vars
    PROVE  RefusedNext'
<1>1. CASE closing' = Nothing
  BY <1>1 DEF RefusedNext
<1>2. CASE closing = Nothing /\ closing' = closing
  BY <1>2 DEF RefusedNext
<1>3. CASE UNCHANGED <<closing, answers, pipeline, refused>>
  BY <1>3 DEF RefusedNext
<1>4. CASE WaitForPendingWrites \/ TokenFails \/ BackoffElapsed \/ RunHandler \/ UNCHANGED vars
  BY <1>3, <1>4 DEF WaitForPendingWrites, TokenFails, BackoffElapsed, RunHandler, vars
<1>5. CASE \E c \in tokens : ResumeStartWithCredentials(c)
  BY <1>3, <1>5 DEF ResumeStartWithCredentials
<1>6. CASE \E u \in User : HandleCredentialChange(u)
  BY <1>1, <1>3, <1>6 DEF HandleCredentialChange, RestartNetwork, StopStream
<1>7. CASE ConnectivityChanged \/ DisableNetwork \/ IdleTimeout
  BY <1>1, <1>7 DEF ConnectivityChanged, RestartNetwork, DisableNetwork, IdleTimeout, StopStream
<1>8. CASE StreamClosed \/ ConnectionBreaks \/ Restart
  BY <1>1, <1>8 DEF StreamClosed, ConnectionBreaks, CloseWith, Restart
<1>9. CASE HandshakeComplete
  <2>1. closing = Nothing
    BY <1>9, Closing DEF HandshakeComplete
  <2> QED BY <1>2, <1>9, <2>1 DEF HandshakeComplete
<1>10. CASE ServerHandshake \/ ServerApplies
  <2>1. closing = Nothing
    BY <1>10, Closing DEF ServerHandshake, ServerApplies
  <2> QED BY <1>2, <1>10, <2>1 DEF ServerHandshake, ServerApplies
<1> QED BY <1>4, <1>5, <1>6, <1>7, <1>8, <1>9, <1>10

\* Steps that touch neither queues nor what is due.
LEMMA HeardKept ==
    ASSUME Alone, main \in Seq(Heard), WaitsFor,
           UNCHANGED <<queue, issued, user, main, waiting>>, refused \subseteq refused'
    PROVE  Alone' /\ main' \in Seq(Heard') /\ WaitsFor'
<1>1. main \in Seq(Heard')
  BY HeardStays
<1> QED BY <1>1 DEF Alone, WaitsFor

\* The main thread runs a handler; the process starts again.
LEMMA HeardRuns ==
    ASSUME Alone, main \in Seq(Heard), WaitsFor, RunHandler \/ Restart
    PROVE  Alone' /\ main' \in Seq(Heard') /\ WaitsFor'
<1> DEFINE H == Heard
<1>1. UNCHANGED <<queue, issued, user, refused>>
  BY DEF RunHandler, Restart
<1>2. Alone' /\ Heard' = Heard
  BY <1>1 DEF Alone, Heard, HeardWrite, HeardWait
<1>3. CASE RunHandler
  <2>1. main # << >> /\ main' = Tail(main) /\ waiting' = waiting
    BY <1>3 DEF RunHandler
  <2>2. main' \in Seq(H)
    <3> HIDE DEF H
    <3>1. main \in Seq(H)
      BY DEF H
    <3> QED BY <2>1, <3>1, HeadTailProperties
  <2>3. WaitsFor'
    BY <1>1, <2>1 DEF WaitsFor
  <2> QED BY <1>2, <2>2, <2>3
<1>4. CASE Restart
  <2>1. main' = << >> /\ waiting' = {}
    BY <1>4 DEF Restart
  <2> QED BY <1>2, <2>1 DEF WaitsFor
<1> QED BY <1>3, <1>4

\* Every step keeps what is heard true.
LEMMA HeardNext ==
    ASSUME CutShort = FALSE, PartsOK, PartsOK', WireOK, HandlersOK, HeardOK, [Next]_vars
    PROVE  HeardOK'
<1> USE DEF HeardOK
<1>1. CASE WriteMutations
  BY <1>1, HeardIssue, RefusedFilled
<1>2. CASE WaitForPendingWrites \/ \E u \in User : HandleCredentialChange(u)
  BY <1>2, HeardWaits, RefusedKept
<1>3. CASE EnableNetwork
  <2>1. UNCHANGED <<queue, issued, user, main, waiting, refused>>
    BY <1>3 DEF EnableNetwork, storeVars
  <2> QED BY <1>3, <2>1, HeardKept, RefusedFilled
<1>4. CASE MutationResult
  <2>1. /\ UNCHANGED <<user, issued, refused>> /\ Settle(Head(queue[user]), TRUE)
        /\ queue[user] # << >>
    BY <1>4, OldestFirst DEF MutationResult
  <2> QED BY <1>4, <2>1, HeardSettled, RefusedNearer
<1>5. CASE StreamClosed
  <2>1. /\ closing # Nothing /\ answers = << >> /\ CloseWith("permanent")
        /\ UNCHANGED <<issued, refused, user>>
    BY <1>5 DEF StreamClosed, CloseWith
  <2>2. handshake /\ pipeline = Begin(queue[user]) /\ queue[user] \in Seq(Batch)
    BY <2>1, Closing
  <2>3. Len(answers) = 0 /\ Len(answers) + 1 = 1
    BY <2>1
  <2>4. 1 \in 1..Len(pipeline) /\ pipeline[1].write \in refused
    BY <2>1, <2>3 DEF RefusedNext
  <2>5. pipeline # << >> /\ Head(pipeline) = pipeline[1]
    <3>1. pipeline \in Seq(Batch)
      BY <2>2, RoomBounds
    <3> QED BY <2>4, <3>1
  <2>6. /\ Settle(Head(queue[user]), FALSE) /\ queue[user] # << >>
        /\ Head(queue[user]).write \in refused
    BY <2>1, <2>2, <2>4, <2>5, OldestFirst DEF CloseWith, IsPermanentWriteError
  <2> QED BY <1>5, <2>1, <2>6, HeardSettled, RefusedKept
<1>6. CASE RunHandler \/ Restart
  BY <1>6, HeardRuns, RefusedKept
<1>7. CASE ServerRefuses
  <2>1. UNCHANGED <<queue, issued, user, main, waiting>> /\ refused \subseteq refused'
    BY <1>7 DEF ServerRefuses, storeVars
  <2> QED BY <1>7, <2>1, HeardKept, RefusedOpen
<1>8. CASE \/ ConnectivityChanged \/ DisableNetwork
           \/ (\E c \in tokens : ResumeStartWithCredentials(c))
           \/ TokenFails \/ BackoffElapsed \/ HandshakeComplete
           \/ ConnectionBreaks \/ IdleTimeout \/ ServerHandshake \/ ServerApplies
           \/ UNCHANGED vars
  <2>1. UNCHANGED <<queue, issued, user, main, waiting, refused>>
    <3>1. CASE ConnectionBreaks
      BY <3>1 DEF ConnectionBreaks, CloseWith, IsPermanentWriteError
    <3>2. CASE ~ConnectionBreaks
      BY <1>8, <3>2
      DEF ConnectivityChanged, DisableNetwork, ResumeStartWithCredentials, TokenFails,
          BackoffElapsed, HandshakeComplete, IdleTimeout, ServerHandshake, ServerApplies,
          storeVars, vars
    <3> QED BY <3>1, <3>2
  <2> QED BY <1>8, <2>1, HeardKept, RefusedKept
<1> QED BY <1>1, <1>2, <1>3, <1>4, <1>5, <1>6, <1>7, <1>8 DEF Next

\* At the start nothing was issued.
LEMMA HeardInit == Init => HeardOK
<1> SUFFICES ASSUME Init PROVE HeardOK
  OBVIOUS
<1>1. /\ queue = [u \in User |-> << >>] /\ main = << >> /\ waiting = {} /\ closing = Nothing
  BY DEF Init
<1>2. \A u \in User : Len(queue[u]) = 0 /\ \A i \in 1..Len(queue[u]) : FALSE
  BY <1>1
<1>3. Alone
  BY <1>2 DEF Alone
<1> QED BY <1>1, <1>3 DEF HeardOK, WaitsFor, RefusedNext

\* What the application hears of its writes is about those writes, and true:
\* a handler is its write's and fires once, a wait ends with success only
\* after all it waited for, a write reported as refused is one the server
\* refused (NotifyUser, TriggerPendingWriteCallbacks, HandleRejectedWrite).
\* For every set of accounts, window and bounds, without CutShort.
THEOREM HearsTheTruth ==
    ASSUME CutShort = FALSE
    PROVE  Spec => []HeardTruthful
<1>1. Init => PartsOK /\ WireOK /\ HandlersOK /\ HeardOK
  BY InitOK, WireInit, SeenInit, HeardInit DEF PartsOK
<1>2. (PartsOK /\ WireOK /\ HandlersOK /\ HeardOK) /\ [Next]_vars =>
         (PartsOK /\ WireOK /\ HandlersOK /\ HeardOK)'
  BY SeenNext, HeardNext
<1>3. PartsOK /\ WireOK /\ HandlersOK /\ HeardOK => HeardTruthful
  BY HeardIs
<1> QED BY <1>1, <1>2, <1>3, PTL DEF Spec
=============================================================================
