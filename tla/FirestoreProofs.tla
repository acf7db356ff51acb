--------------------------- MODULE FirestoreProofs ---------------------------
(***************************************************************************)
(* What a queue of writes laid over documents comes to (Overlay): the last *)
(* of a sequence of documents, one per write.  The modules about what a    *)
(* device sees argue by that sequence.                                     *)
(*                                                                         *)
(* What a queue of writes or of handlers will come to: the last write to a *)
(* document decides it (Ends), a write that was delivered has decided      *)
(* (Reached), and the last of the handlers of some kind decides what that  *)
(* kind leads to (LastIn).                                                 *)
(***************************************************************************)
EXTENDS Firestore, FiniteSetTheorems, WellFoundedInduction, TLAPS

-----------------------------------------------------------------------------
(* The least and the greatest of a set of numbers                          *)

\* The least-number principle, from the well-foundedness of strict inclusion
\* among the finite sets 1..n.
LEMMA Least ==
    ASSUME NEW Bad \in SUBSET Nat, Bad # {}
    PROVE  \E m \in Bad : \A k \in Bad : m <= k
<1> DEFINE Segments == {1..n : n \in Bad}
<1>1. Segments \subseteq FiniteSubsetsOf(Nat)
  <2>1. \A n \in Bad : IsFiniteSet(1..n) /\ 1..n \subseteq Nat
    BY FS_Interval
  <2> QED BY <2>1 DEF FiniteSubsetsOf
<1>2. PICK s \in Segments : \A t \in Segments : <<t, s>> \notin StrictSubsetOrdering(Nat)
  <2>1. Segments # {}
    OBVIOUS
  <2> HIDE DEF Segments
  <2>2. IsWellFoundedOn(StrictSubsetOrdering(Nat), FiniteSubsetsOf(Nat))
    BY FS_StrictSubsetOrderingWellFounded
  <2> QED BY <1>1, <2>1, <2>2, WFMin
<1>3. PICK m \in Bad : s = 1..m
  BY <1>2
<1>4. ASSUME NEW k \in Bad, k < m PROVE FALSE
  <2>1. 1..k \subseteq 1..m /\ m \in 1..m /\ m \notin 1..k
    BY <1>4
  <2>2. <<1..k, 1..m>> \in StrictSubsetOrdering(Nat)
    BY <2>1 DEF StrictSubsetOrdering
  <2> QED BY <1>2, <1>3, <2>2
<1> QED BY <1>4

\* What lies below a bound has a greatest member: its distance is the least.
LEMMA Greatest ==
    ASSUME NEW n \in Nat, NEW Some \in SUBSET (0..n), Some # {}
    PROVE  \E m \in Some : \A k \in Some : m >= k
<1> DEFINE Distance == {n - k : k \in Some}
<1>1. Distance \in SUBSET Nat /\ Distance # {}
  <2>1. \A k \in Some : n - k \in Nat
    OBVIOUS
  <2> QED BY <2>1
<1>2. PICK d \in Distance : \A e \in Distance : d <= e
  <2> HIDE DEF Distance
  <2> QED BY <1>1, Least
<1>3. PICK m \in Some : d = n - m
  BY <1>2
<1>4. ASSUME NEW k \in Some PROVE m >= k
  <2>1. n - m <= n - k
    BY <1>2, <1>3
  <2>2. m \in Int /\ k \in Int
    OBVIOUS
  <2> QED BY <2>1, <2>2
<1> QED BY <1>4

\* Induction up to a bound, over a set of numbers.
LEMMA Climb ==
    ASSUME NEW n \in Nat, NEW S, 0 \in S, \A k \in 0..n - 1 : k \in S => k + 1 \in S
    PROVE  \A k \in 0..n : k \in S
<1> DEFINE Bad == {k \in 0..n : k \notin S}
<1> SUFFICES ASSUME Bad # {} PROVE FALSE
  OBVIOUS
<1>1. Bad \in SUBSET Nat
  OBVIOUS
<1>2. PICK m \in Bad : \A k \in Bad : m <= k
  <2> HIDE DEF Bad
  <2> QED BY <1>1, Least
<1>3. m \in 0..n /\ m \notin S /\ m # 0
  BY <1>2
<1>4. m - 1 \in 0..n - 1 /\ m - 1 \in 0..n /\ (m - 1) + 1 = m /\ ~(m <= m - 1)
  BY <1>3
<1>5. m - 1 \in S
  BY <1>2, <1>4
<1> QED BY <1>3, <1>4, <1>5


-----------------------------------------------------------------------------
(* What a queue comes to                                                   *)

\* Overlay's recursive function exists, so it is what its equation says.
LEMMA OverlaySteps ==
    ASSUME NEW data, NEW queue, Len(queue) \in Nat
    PROVE  \E after :
              /\ after[0] = data
              /\ \A n \in 1..Len(queue) : after[n] = Apply(after[n - 1], queue[n])
              /\ Overlay(data, queue) = after[Len(queue)]
<1> DEFINE Step(f, n) == IF n = 0 THEN data ELSE Apply(f[n - 1], queue[n])
           Upto(f, n) == f = [i \in 0..n |-> Step(f, i)]
           Bad == {n \in 0..Len(queue) : ~ \E f : Upto(f, n)}
<1>1. Bad = {}
  <2> SUFFICES ASSUME Bad # {} PROVE FALSE
    OBVIOUS
  <2>0. Bad \in SUBSET Nat
    OBVIOUS
  <2>1. PICK m \in Bad : \A k \in Bad : m <= k
    <3> HIDE DEF Bad
    <3> QED BY <2>0, Least
  <2>2. m # 0
    <3>1. Upto([i \in 0..0 |-> data], 0)
      OBVIOUS
    <3> QED BY <2>1, <3>1
  <2>3. PICK g : Upto(g, m - 1)
    <3>1. m \in 0..Len(queue)
      OBVIOUS
    <3>3. m - 1 \in 0..Len(queue) /\ m - 1 \in Nat /\ m - 1 < m
      BY <2>2, <3>1
    <3>4. m - 1 \notin Bad
      <4> HIDE DEF Bad
      <4> QED BY <2>1, <3>1, <3>3
    <3> QED BY <3>3, <3>4
  <2> DEFINE f == [i \in 0..m |-> IF i = m THEN Step(g, m) ELSE g[i]]
  <2>4. Upto(f, m)
    <3>1. ASSUME NEW i \in 0..m PROVE f[i] = Step(f, i)
      BY <2>1, <2>2, <2>3
    <3> QED BY <3>1
  <2> QED BY <2>1, <2>4
<1> DEFINE after == CHOOSE f : Upto(f, Len(queue))
<1>2. Upto(after, Len(queue))
  BY <1>1
<1>3. Overlay(data, queue) = after[Len(queue)]
  BY DEF Overlay
<1> HIDE DEF after
<1>4. after[0] = data
  BY <1>2
<1>5. ASSUME NEW n \in 1..Len(queue) PROVE after[n] = Apply(after[n - 1], queue[n])
  BY <1>2, <1>5
<1> QED BY <1>3, <1>4, <1>5

-----------------------------------------------------------------------------
(* The last write to a document                                            *)

\* When queue is through, document d exists just in case b.
Ends(data, queue, d, b) ==
    /\ \A i \in 1..Len(queue) :
          queue[i].doc = d /\ (\A j \in i+1..Len(queue) : queue[j].doc # d)
              => (queue[i].op = "set" <=> b)
    /\ (\A i \in 1..Len(queue) : queue[i].doc # d) => (data[d] # NoDoc <=> b)

\* The last of the first n writes of queue that concerns d has taken effect.
Reached(data, queue, n, d) ==
    \A i \in 1..n :
        queue[i].doc = d /\ (\A j \in i+1..n : queue[j].doc # d)
            => (data[d] # NoDoc <=> queue[i].op = "set")

\* The handlers of a queue's writes.
Thens(queue) == [i \in 1..Len(queue) |-> queue[i].then]

-----------------------------------------------------------------------------
(* Lemmas about queues                                                     *)

\* r is queue q with one more element.
Grows(q, r) ==
    /\ Len(q) \in Nat /\ Len(r) = Len(q) + 1
    /\ \A i \in 1..Len(q) : r[i] = q[i]

\* Appending one write or handler makes a queue grow by it.
LEMMA AppendGrows ==
    ASSUME NEW S, NEW q \in Seq(S), NEW e \in S
    PROVE  /\ Grows(q, Append(q, e)) /\ Append(q, e)[Len(q) + 1] = e
           /\ Append(q, e) \in Seq(S)
           /\ q \o <<e>> = Append(q, e)
BY DEF Grows

\* Issuing two writes is issuing one, then the other.
LEMMA AppendTwo ==
    ASSUME NEW S, NEW q \in Seq(S), NEW e \in S, NEW f \in S
    PROVE  q \o <<e, f>> = Append(Append(q, e), f)
OBVIOUS

\* A new last write decides its own document and leaves the others to the
\* writes before it.
LEMMA EndsGrows ==
    ASSUME NEW data, NEW d, NEW b \in BOOLEAN, NEW q, NEW r, Grows(q, r)
    PROVE  /\ r[Len(r)].doc # d /\ Ends(data, q, d, b) => Ends(data, r, d, b)
           /\ r[Len(r)].doc = d => Ends(data, r, d, r[Len(r)].op = "set")
<1>1. ASSUME r[Len(r)].doc # d, Ends(data, q, d, b) PROVE Ends(data, r, d, b)
  BY <1>1 DEF Ends, Grows
<1>2. ASSUME r[Len(r)].doc = d PROVE Ends(data, r, d, r[Len(r)].op = "set")
  BY <1>2 DEF Ends, Grows
<1> QED BY <1>1, <1>2

\* Reached depends only on the document and on the operations and paths of
\* the first n writes ...
LEMMA ReachedPrefix ==
    ASSUME NEW data, NEW other, NEW d, NEW q, NEW r, NEW n \in Nat,
           other[d] = data[d],
           \A i \in 1..n : r[i].doc = q[i].doc /\ r[i].op = q[i].op,
           Reached(data, q, n, d)
    PROVE  Reached(other, r, n, d)
BY DEF Reached

\* ... and Ends on those of the whole queue.
LEMMA EndsSame ==
    ASSUME NEW data, NEW other, NEW d, NEW b \in BOOLEAN, NEW q, NEW r,
           other[d] = data[d], Len(r) = Len(q), Len(q) \in Nat,
           \A i \in 1..Len(q) : r[i].doc = q[i].doc /\ r[i].op = q[i].op,
           Ends(data, q, d, b)
    PROVE  Ends(other, r, d, b)
BY DEF Ends

\* The same writes to the same documents, whatever handlers hang on them.
SameWrites(q, r) ==
    /\ Len(r) = Len(q) /\ Len(q) \in Nat
    /\ \A i \in 1..Len(q) : r[i].doc = q[i].doc /\ r[i].op = q[i].op

\* Ends depends on no more than these.
LEMMA EndsSameWrites ==
    ASSUME NEW data, NEW other, NEW d, NEW b \in BOOLEAN, NEW q, NEW r,
           other[d] = data[d], SameWrites(q, r), Ends(data, q, d, b)
    PROVE  Ends(other, r, d, b)
BY DEF SameWrites, Ends

\* Acknowledging the oldest write, which had taken effect.
LEMMA AcknowledgeStep ==
    ASSUME NEW data, NEW d, NEW b \in BOOLEAN, NEW q, NEW r, NEW n \in Nat,
           Len(q) \in Nat, n > 0, n <= Len(q), Len(r) = Len(q) - 1,
           \A i \in 1..Len(r) : r[i] = q[i + 1],
           Reached(data, q, n, d)
    PROVE  /\ Reached(data, r, n - 1, d)
           /\ Ends(data, q, d, b) => Ends(data, r, d, b)
<1>1. \A i \in 2..Len(q) : i - 1 \in 1..Len(r) /\ q[i] = r[i - 1]
  OBVIOUS
<1>2. Reached(data, r, n - 1, d)
  <2> SUFFICES ASSUME NEW i \in 1..n-1, r[i].doc = d,
                      \A j \in i+1..n-1 : r[j].doc # d
               PROVE  data[d] # NoDoc <=> r[i].op = "set"
    BY DEF Reached
  <2>1. i + 1 \in 1..n /\ q[i + 1] = r[i]
    OBVIOUS
  <2>2. ASSUME NEW j \in (i+1)+1..n PROVE q[j].doc # d
    <3>1. j - 1 \in i+1..n-1 /\ j \in 2..Len(q)
      OBVIOUS
    <3> QED BY <1>1, <3>1
  <2> QED BY <2>1, <2>2 DEF Reached
<1>3. ASSUME Ends(data, q, d, b) PROVE Ends(data, r, d, b)
  <2>1. ASSUME NEW i \in 1..Len(r), r[i].doc = d,
               \A j \in i+1..Len(r) : r[j].doc # d
        PROVE  r[i].op = "set" <=> b
    <3>1. i + 1 \in 1..Len(q) /\ q[i + 1] = r[i]
      OBVIOUS
    <3>2. \A j \in (i+1)+1..Len(q) : q[j].doc # d
      BY <1>1, <2>1
    <3> QED BY <1>3, <2>1, <3>1, <3>2 DEF Ends
  <2>2. ASSUME \A i \in 1..Len(r) : r[i].doc # d
        PROVE  data[d] # NoDoc <=> b
    <3>1. \A j \in 2..Len(q) : q[j].doc # d
      BY <1>1, <2>2
    <3>2. CASE q[1].doc = d
      <4>1. data[d] # NoDoc <=> q[1].op = "set"
        BY <3>1, <3>2 DEF Reached
      <4>2. q[1].op = "set" <=> b
        BY <1>3, <3>1, <3>2 DEF Ends
      <4> QED BY <4>1, <4>2
    <3>3. CASE q[1].doc # d
      <4>1. \A i \in 1..Len(q) : q[i].doc # d
        BY <3>1, <3>3
      <4> QED BY <1>3, <4>1 DEF Ends
    <3> QED BY <3>2, <3>3
  <2> QED BY <2>1, <2>2 DEF Ends
<1> QED BY <1>2, <1>3

\* The handlers of a queue are as many as its writes ...
LEMMA ThensFacts ==
    ASSUME NEW S, NEW q \in Seq(S)
    PROVE  /\ DOMAIN Thens(q) = 1..Len(q) /\ Len(Thens(q)) = Len(q)
           /\ Len(q) \in Nat
           /\ \A i \in 1..Len(q) : Thens(q)[i] = q[i].then
<1>1. Len(q) \in Nat
  OBVIOUS
<1>2. Thens(q) \in [1..Len(q) -> {q[i].then : i \in 1..Len(q)}]
  BY DEF Thens
<1>3. Thens(q) \in Seq({q[i].then : i \in 1..Len(q)})
  BY <1>1, <1>2
<1>4. Len(Thens(q)) = Len(q)
  BY <1>1, <1>2, <1>3
<1> QED BY <1>1, <1>4 DEF Thens

\* ... and grow with it.
LEMMA ThensGrows ==
    ASSUME NEW S, NEW q \in Seq(S), NEW r \in Seq(S), Grows(q, r)
    PROVE  /\ Grows(Thens(q), Thens(r))
           /\ Thens(r)[Len(Thens(r))] = r[Len(r)].then
<1>1. /\ Len(Thens(q)) = Len(q) /\ Len(q) \in Nat
      /\ \A i \in 1..Len(q) : Thens(q)[i] = q[i].then
  BY ThensFacts
<1>2. /\ Len(Thens(r)) = Len(r) /\ Len(r) \in Nat
      /\ \A i \in 1..Len(r) : Thens(r)[i] = r[i].then
  BY ThensFacts
<1> QED BY <1>1, <1>2 DEF Grows

-----------------------------------------------------------------------------
(* Chains of handlers                                                      *)

\* The last element of s that is in T is in Y just in case b.
LastIn(s, T, Y, b) ==
    \A i \in 1..Len(s) :
        s[i] \in T /\ (\A j \in i+1..Len(s) : s[j] \notin T) => (s[i] \in Y <=> b)
NoneIn(s, T) == \A i \in 1..Len(s) : s[i] \notin T

\* r is q with e as its new last element, q without its head e, and q with new
\* elements none of which is in T.
Pushed(q, r, e) == Grows(q, r) /\ r[Len(r)] = e
Popped(q, r, e) ==
    /\ Len(q) \in Nat /\ Len(q) > 0 /\ q[1] = e /\ Len(r) = Len(q) - 1
    /\ \A i \in 1..Len(r) : r[i] = q[i + 1]
Longer(q, r, T) ==
    /\ Len(q) \in Nat /\ Len(r) \in Nat /\ Len(r) >= Len(q)
    /\ \A i \in 1..Len(q) : r[i] = q[i]
    /\ \A i \in Len(q)+1..Len(r) : r[i] \notin T

\* Taking the head off a queue.
LEMMA TailPops ==
    ASSUME NEW S, NEW q \in Seq(S), q # << >>
    PROVE  Popped(q, Tail(q), Head(q)) /\ Tail(q) \in Seq(S) /\ Head(q) \in S
BY DEF Popped

\* Appending one element.
LEMMA AppendPushes ==
    ASSUME NEW S, NEW q \in Seq(S), NEW e \in S
    PROVE  Pushed(q, Append(q, e), e) /\ Append(q, e) \in Seq(S)
           /\ q \o <<e>> = Append(q, e)
BY AppendGrows DEF Pushed, Grows

\* A queue that did not change is longer by nothing.
LEMMA SameLonger ==
    ASSUME NEW q, NEW T, Len(q) \in Nat
    PROVE  Longer(q, q, T)
BY DEF Longer

\* A queue that grew by an element outside T is longer by nothing of T.
LEMMA PushedLonger ==
    ASSUME NEW q, NEW r, NEW e, NEW T, Pushed(q, r, e), e \notin T
    PROVE  Longer(q, r, T)
BY DEF Longer, Pushed, Grows

\* A new last element of T decides ...
LEMMA LastPush ==
    ASSUME NEW q, NEW r, NEW e, NEW T, NEW Y, Pushed(q, r, e), e \in T
    PROVE  LastIn(r, T, Y, e \in Y) /\ ~NoneIn(r, T)
BY DEF LastIn, NoneIn, Pushed, Grows

\* ... new elements of other kinds decide nothing ...
LEMMA LastLonger ==
    ASSUME NEW q, NEW r, NEW T, NEW Y, NEW b \in BOOLEAN, Longer(q, r, T)
    PROVE  /\ LastIn(q, T, Y, b) => LastIn(r, T, Y, b)
           /\ NoneIn(r, T) <=> NoneIn(q, T)
<1>1. ASSUME LastIn(q, T, Y, b) PROVE LastIn(r, T, Y, b)
  <2> SUFFICES ASSUME NEW i \in 1..Len(r), r[i] \in T, \A j \in i+1..Len(r) : r[j] \notin T
               PROVE  r[i] \in Y <=> b
    BY DEF LastIn
  <2>1. i \in 1..Len(q) /\ q[i] = r[i]
    BY DEF Longer
  <2>2. \A j \in i+1..Len(q) : j \in i+1..Len(r) /\ q[j] = r[j]
    BY <2>1 DEF Longer
  <2> QED BY <1>1, <2>1, <2>2 DEF LastIn
<1>2. NoneIn(r, T) <=> NoneIn(q, T)
  <2>1. ASSUME NoneIn(r, T) PROVE NoneIn(q, T)
    BY <2>1 DEF NoneIn, Longer
  <2>2. ASSUME NoneIn(q, T), NEW i \in 1..Len(r) PROVE r[i] \notin T
    BY <2>2 DEF NoneIn, Longer
  <2> QED BY <2>1, <2>2 DEF NoneIn
<1> QED BY <1>1, <1>2

\* ... and a head of T decides once no element of T is left.
LEMMA LastPop ==
    ASSUME NEW q, NEW r, NEW e, NEW T, NEW Y, NEW b \in BOOLEAN, Popped(q, r, e)
    PROVE  /\ LastIn(q, T, Y, b) => LastIn(r, T, Y, b)
           /\ e \notin T => (NoneIn(r, T) <=> NoneIn(q, T))
           /\ e \in T => ~NoneIn(q, T)
           /\ e \in T /\ LastIn(q, T, Y, b) /\ NoneIn(r, T) => (e \in Y <=> b)
<1>0. \A i \in 2..Len(q) : i - 1 \in 1..Len(r) /\ q[i] = r[i - 1]
  BY DEF Popped
<1>1. ASSUME LastIn(q, T, Y, b) PROVE LastIn(r, T, Y, b)
  <2> SUFFICES ASSUME NEW i \in 1..Len(r), r[i] \in T, \A j \in i+1..Len(r) : r[j] \notin T
               PROVE  r[i] \in Y <=> b
    BY DEF LastIn
  <2>1. i + 1 \in 1..Len(q) /\ q[i + 1] = r[i]
    BY DEF Popped
  <2>2. ASSUME NEW j \in (i+1)+1..Len(q) PROVE q[j] \notin T
    <3>1. j - 1 \in i+1..Len(r) /\ j \in 2..Len(q)
      BY DEF Popped
    <3> QED BY <1>0, <3>1
  <2> QED BY <1>1, <2>1, <2>2 DEF LastIn
<1>2. ASSUME e \notin T PROVE NoneIn(r, T) <=> NoneIn(q, T)
  <2>1. ASSUME NoneIn(q, T) PROVE NoneIn(r, T)
    BY <2>1 DEF NoneIn, Popped
  <2>2. ASSUME NoneIn(r, T), NEW i \in 1..Len(q) PROVE q[i] \notin T
    <3>1. CASE i = 1
      BY <1>2, <3>1 DEF Popped
    <3>2. CASE i # 1
      <4>1. i \in 2..Len(q)
        BY <3>2
      <4> QED BY <1>0, <2>2, <4>1 DEF NoneIn
    <3> QED BY <3>1, <3>2
  <2> QED BY <2>1, <2>2 DEF NoneIn
<1>3. ASSUME e \in T PROVE ~NoneIn(q, T)
  BY <1>3 DEF NoneIn, Popped
<1>4. ASSUME e \in T, LastIn(q, T, Y, b), NoneIn(r, T) PROVE e \in Y <=> b
  <2>1. 1 \in 1..Len(q) /\ q[1] = e
    BY DEF Popped
  <2>2. \A j \in 1+1..Len(q) : q[j] \notin T
    BY <1>0, <1>4 DEF NoneIn
  <2> QED BY <1>4, <2>1, <2>2 DEF LastIn
<1> QED BY <1>1, <1>2, <1>3, <1>4

\* Where there is none, the last one is whatever one likes.
LEMMA NoneLast ==
    ASSUME NEW s, NEW T, NEW Y, NEW b, NoneIn(s, T)
    PROVE  LastIn(s, T, Y, b)
BY DEF NoneIn, LastIn

\* The handlers of a queue follow its writes.
LEMMA ThensFollow ==
    ASSUME NEW S, NEW q \in Seq(S), NEW r \in Seq(S)
    PROVE  /\ \A w : Pushed(q, r, w) => Pushed(Thens(q), Thens(r), w.then)
           /\ \A w : Popped(q, r, w) => Popped(Thens(q), Thens(r), w.then)
           /\ \A T, U :
                 Longer(q, r, U) /\ (\A i \in Len(q)+1..Len(r) : r[i].then \notin T)
                     => Longer(Thens(q), Thens(r), T)
<1>1. /\ Len(Thens(q)) = Len(q) /\ Len(q) \in Nat
      /\ \A i \in 1..Len(q) : Thens(q)[i] = q[i].then
  BY ThensFacts
<1>2. /\ Len(Thens(r)) = Len(r) /\ Len(r) \in Nat
      /\ \A i \in 1..Len(r) : Thens(r)[i] = r[i].then
  BY ThensFacts
<1>3. ASSUME NEW w, Pushed(q, r, w) PROVE Pushed(Thens(q), Thens(r), w.then)
  BY <1>1, <1>2, <1>3 DEF Pushed, Grows
<1>4. ASSUME NEW w, Popped(q, r, w) PROVE Popped(Thens(q), Thens(r), w.then)
  BY <1>1, <1>2, <1>4 DEF Popped
<1>5. ASSUME NEW T, NEW U, Longer(q, r, U), \A i \in Len(q)+1..Len(r) : r[i].then \notin T
      PROVE  Longer(Thens(q), Thens(r), T)
  BY <1>1, <1>2, <1>5 DEF Longer
<1> QED BY <1>3, <1>4, <1>5

-----------------------------------------------------------------------------
(* Handlers on their way: first a write's, then one that came due          *)

\* The last handler of kind T that is still to run, p being those the queued
\* writes carry and m those that came due, is in Y just in case b.
Leads(p, m, T, Y, b) ==
    /\ LastIn(p, T, Y, b)
    /\ NoneIn(p, T) => LastIn(m, T, Y, b)
Came(p, m, T) == NoneIn(p, T) /\ NoneIn(m, T)

\* Nothing of kind T is added.
LEMMA LeadsLonger ==
    ASSUME NEW p, NEW r, NEW m, NEW n, NEW T, NEW Y, NEW b \in BOOLEAN,
           Longer(p, r, T), Longer(m, n, T)
    PROVE  /\ Leads(p, m, T, Y, b) => Leads(r, n, T, Y, b)
           /\ Came(r, n, T) <=> Came(p, m, T)
BY LastLonger DEF Leads, Came

\* A write is added that carries a handler of kind T: it decides.
LEMMA LeadsPush ==
    ASSUME NEW p, NEW r, NEW m, NEW e, NEW T, NEW Y, Pushed(p, r, e), e \in T
    PROVE  Leads(r, m, T, Y, e \in Y) /\ ~Came(r, m, T)
BY LastPush DEF Leads, Came

\* A handler of kind T comes due that says what it should.
LEMMA LeadsLate ==
    ASSUME NEW p, NEW m, NEW n, NEW e, NEW T, NEW Y, NEW b \in BOOLEAN,
           Pushed(m, n, e), e \in T, e \in Y <=> b, Leads(p, m, T, Y, b)
    PROVE  Leads(p, n, T, Y, b) /\ ~Came(p, n, T)
<1>1. LastIn(n, T, Y, e \in Y) /\ ~NoneIn(n, T)
  BY LastPush
<1>2. LastIn(n, T, Y, b)
  BY <1>1 DEF LastIn
<1> QED BY <1>1, <1>2 DEF Leads, Came

\* The oldest write's handler comes due.
LEMMA LeadsMove ==
    ASSUME NEW p, NEW r, NEW m, NEW n, NEW e, NEW T, NEW Y, NEW b \in BOOLEAN,
           Popped(p, r, e), Pushed(m, n, e)
    PROVE  /\ Leads(p, m, T, Y, b) => Leads(r, n, T, Y, b)
           /\ Came(r, n, T) <=> Came(p, m, T)
<1>1. CASE e \in T
  <2>1. LastIn(n, T, Y, e \in Y) /\ ~NoneIn(n, T)
    BY <1>1, LastPush
  <2>2. ~NoneIn(p, T) /\ (LastIn(p, T, Y, b) => LastIn(r, T, Y, b))
        /\ (LastIn(p, T, Y, b) /\ NoneIn(r, T) => (e \in Y <=> b))
    BY <1>1, LastPop
  <2>3. ASSUME e \in Y <=> b PROVE LastIn(n, T, Y, b)
    BY <2>1, <2>3 DEF LastIn
  <2> QED BY <2>1, <2>2, <2>3 DEF Leads, Came
<1>2. CASE e \notin T
  <2>1. Longer(m, n, T)
    BY <1>2, PushedLonger
  <2>2. /\ LastIn(m, T, Y, b) => LastIn(n, T, Y, b)
        /\ NoneIn(n, T) <=> NoneIn(m, T)
    BY <2>1, LastLonger
  <2>3. /\ LastIn(p, T, Y, b) => LastIn(r, T, Y, b)
        /\ NoneIn(r, T) <=> NoneIn(p, T)
    BY <1>2, LastPop
  <2> QED BY <2>2, <2>3 DEF Leads, Came
<1> QED BY <1>1, <1>2

\* The oldest write is through, and carried no handler of kind T.
LEMMA LeadsDrop ==
    ASSUME NEW p, NEW r, NEW m, NEW e, NEW T, NEW Y, NEW b \in BOOLEAN,
           Popped(p, r, e), e \notin T
    PROVE  /\ Leads(p, m, T, Y, b) => Leads(r, m, T, Y, b)
           /\ Came(r, m, T) <=> Came(p, m, T)
<1>1. /\ LastIn(p, T, Y, b) => LastIn(r, T, Y, b)
      /\ NoneIn(r, T) <=> NoneIn(p, T)
  BY LastPop
<1> QED BY <1>1 DEF Leads, Came

\* The handler that came due first runs, and adds no write of kind T.
LEMMA LeadsPop ==
    ASSUME NEW p, NEW r, NEW m, NEW n, NEW e, NEW T, NEW Y, NEW b \in BOOLEAN,
           Longer(p, r, T), Popped(m, n, e)
    PROVE  /\ Leads(p, m, T, Y, b) => Leads(r, n, T, Y, b)
           /\ e \notin T => (Came(r, n, T) <=> Came(p, m, T))
           /\ e \in T /\ Leads(p, m, T, Y, b) /\ Came(r, n, T) => (e \in Y <=> b)
<1>1. /\ LastIn(p, T, Y, b) => LastIn(r, T, Y, b)
      /\ NoneIn(r, T) <=> NoneIn(p, T)
  BY LastLonger
<1>2. /\ LastIn(m, T, Y, b) => LastIn(n, T, Y, b)
      /\ e \notin T => (NoneIn(n, T) <=> NoneIn(m, T))
      /\ e \in T /\ LastIn(m, T, Y, b) /\ NoneIn(n, T) => (e \in Y <=> b)
  BY LastPop
<1> QED BY <1>1, <1>2 DEF Leads, Came

\* Running and adding handlers of other kinds leaves none where there is none.
LEMMA CamePop ==
    ASSUME NEW p, NEW r, NEW m, NEW n, NEW e, NEW T,
           Longer(p, r, T), Popped(m, n, e), e \notin T
    PROVE  Came(r, n, T) <=> Came(p, m, T)
<1>1. NoneIn(r, T) <=> NoneIn(p, T)
  BY LastLonger
<1>2. NoneIn(n, T) <=> NoneIn(m, T)
  BY LastPop
<1> QED BY <1>1, <1>2 DEF Came

\* Nothing of kind T is under way, as nothing of a wider kind is.
LEMMA CameLess ==
    ASSUME NEW p, NEW m, NEW T, NEW U, NEW Y, NEW b, Came(p, m, U), T \subseteq U
    PROVE  Came(p, m, T) /\ Leads(p, m, T, Y, b)
<1>1. NoneIn(p, T) /\ NoneIn(m, T)
  BY DEF Came, NoneIn
<1> QED BY <1>1, NoneLast DEF Came, Leads

-----------------------------------------------------------------------------
(* Documents under several new writes, and as a device sees them           *)

\* Writes of other documents leave d to the writes before them, and a batch
\* of writes that all do the same to d, one of them at least, decides it.
LEMMA EndsBatch ==
    ASSUME NEW data, NEW d, NEW b \in BOOLEAN, NEW q, NEW r, Longer(q, r, {})
    PROVE  /\ (\A i \in Len(q)+1..Len(r) : r[i].doc # d) /\ Ends(data, q, d, b)
                => Ends(data, r, d, b)
           /\ (\E i \in Len(q)+1..Len(r) : r[i].doc = d)
              /\ (\A i \in Len(q)+1..Len(r) : r[i].doc = d => (r[i].op = "set" <=> b))
                => Ends(data, r, d, b)
<1>1. ASSUME \A i \in Len(q)+1..Len(r) : r[i].doc # d, Ends(data, q, d, b)
      PROVE  Ends(data, r, d, b)
  <2>1. ASSUME NEW i \in 1..Len(r), r[i].doc = d, \A j \in i+1..Len(r) : r[j].doc # d
        PROVE  r[i].op = "set" <=> b
    <3>1. i \in 1..Len(q) /\ q[i] = r[i]
      BY <1>1, <2>1 DEF Longer
    <3>2. \A j \in i+1..Len(q) : j \in i+1..Len(r) /\ q[j] = r[j]
      BY <3>1 DEF Longer
    <3> QED BY <1>1, <2>1, <3>1, <3>2 DEF Ends
  <2>2. ASSUME \A i \in 1..Len(r) : r[i].doc # d PROVE data[d] # NoDoc <=> b
    <3>1. \A i \in 1..Len(q) : i \in 1..Len(r) /\ q[i] = r[i]
      BY DEF Longer
    <3> QED BY <1>1, <2>2, <3>1 DEF Ends
  <2> QED BY <2>1, <2>2 DEF Ends
<1>2. ASSUME NEW k \in Len(q)+1..Len(r), r[k].doc = d,
             \A i \in Len(q)+1..Len(r) : r[i].doc = d => (r[i].op = "set" <=> b)
      PROVE  Ends(data, r, d, b)
  <2>1. k \in 1..Len(r) /\ Len(q) \in Nat /\ Len(r) \in Nat /\ k > Len(q)
    BY DEF Longer
  <2>2. ASSUME NEW i \in 1..Len(r), r[i].doc = d, \A j \in i+1..Len(r) : r[j].doc # d
        PROVE  i \in Len(q)+1..Len(r)
    <3>1. ~(k \in i+1..Len(r))
      BY <1>2, <2>2
    <3> QED BY <2>1, <3>1
  <2> QED BY <1>2, <2>1, <2>2 DEF Ends
<1> QED BY <1>1, <1>2

\* New writes leave what was delivered alone.
LEMMA ReachedLonger ==
    ASSUME NEW data, NEW d, NEW q, NEW r, NEW n \in Nat, Longer(q, r, {}), n <= Len(q),
           Reached(data, q, n, d)
    PROVE  Reached(data, r, n, d)
<1>1. \A i \in 1..n : r[i] = q[i]
  BY DEF Longer
<1> QED BY <1>1 DEF Reached

\* The server applies the next write, or a write that is not to d.
LEMMA TransmitStep ==
    ASSUME NEW data, NEW now, NEW d, NEW q, NEW n \in Nat,
           Len(q) \in Nat, n < Len(q),
           q[n + 1].doc # d => now[d] = data[d],
           q[n + 1].doc = d => (now[d] # NoDoc <=> q[n + 1].op = "set"),
           Reached(data, q, n, d)
    PROVE  Reached(now, q, n + 1, d)
BY DEF Reached

\* What the device sees of a document that is only ever set or deleted is
\* what its queue will come to.
LEMMA OverlayEnds ==
    ASSUME NEW data, NEW d \in DOMAIN data, NEW b \in BOOLEAN, NEW q, Len(q) \in Nat,
           NoDoc # EmptyDoc,
           \A i \in 1..Len(q) : q[i].doc = d => q[i].op \in {"set", "delete"} /\ q[i].val = EmptyDoc,
           Ends(data, q, d, b)
    PROVE  Overlay(data, q)[d] # NoDoc <=> b
<1>1. PICK after :
         /\ after[0] = data
         /\ \A n \in 1..Len(q) : after[n] = Apply(after[n - 1], q[n])
         /\ Overlay(data, q) = after[Len(q)]
  BY OverlaySteps
<1> DEFINE Right == {n \in 0..Len(q) :
                       /\ DOMAIN after[n] = DOMAIN data
                       /\ (\A i \in 1..n : q[i].doc # d) => after[n][d] = data[d]
                       /\ Reached(after[n], q, n, d)}
<1>2. 0 \in Right
  BY <1>1 DEF Reached
<1>3. ASSUME NEW k \in 0..Len(q)-1, k \in Right PROVE k + 1 \in Right
  <2>1. k + 1 \in 1..Len(q) /\ (k + 1) - 1 = k /\ k \in Nat /\ k < Len(q)
    OBVIOUS
  <2>2. after[k + 1] = Apply(after[k], q[k + 1])
    BY <1>1, <2>1
  <2> DEFINE old == after[k]
             new == after[k + 1]
  <2>3. DOMAIN new = DOMAIN data /\ DOMAIN old = DOMAIN data
    BY <1>3, <2>2 DEF Apply
  <2>4. q[k + 1].doc # d => new[d] = old[d]
    BY <2>2, <2>3 DEF Apply
  <2>5. ASSUME q[k + 1].doc = d PROVE new[d] # NoDoc <=> q[k + 1].op = "set"
    <3>1. q[k + 1].op \in {"set", "delete"} /\ q[k + 1].val = EmptyDoc
      BY <2>1, <2>5
    <3> QED BY <2>2, <2>3, <2>5, <3>1 DEF Apply, AfterWrite
  <2>6. Reached(old, q, k, d)
    BY <1>3
  <2>7. (\A i \in 1..k+1 : q[i].doc # d) => new[d] = data[d]
    BY <1>3, <2>1, <2>4
  <2> HIDE DEF old, new
  <2>8. Reached(new, q, k + 1, d)
    BY <2>1, <2>4, <2>5, <2>6 DEF Reached
  <2> QED BY <2>1, <2>3, <2>7, <2>8 DEF old, new
<1>4. Len(q) \in Right
  <2> HIDE DEF Right
  <2>1. \A k \in 0..Len(q) : k \in Right
    BY <1>2, <1>3, Climb
  <2> QED BY <2>1
<1>5. /\ (\A i \in 1..Len(q) : q[i].doc # d) => Overlay(data, q)[d] = data[d]
      /\ Reached(Overlay(data, q), q, Len(q), d)
  BY <1>1, <1>4
<1>6. CASE \A i \in 1..Len(q) : q[i].doc # d
  BY <1>5, <1>6 DEF Ends
<1>7. CASE \E i \in 1..Len(q) : q[i].doc = d
  <2> DEFINE Some == {i \in 0..Len(q) : i \in 1..Len(q) /\ q[i].doc = d}
  <2>1. Some \in SUBSET (0..Len(q)) /\ Some # {}
    BY <1>7
  <2>2. PICK m \in Some : \A k \in Some : m >= k
    <3> HIDE DEF Some
    <3> QED BY <2>1, Greatest
  <2>3. m \in 1..Len(q) /\ q[m].doc = d /\ \A j \in m+1..Len(q) : q[j].doc # d
    BY <2>2
  <2>4. q[m].op = "set" <=> b
    BY <2>3 DEF Ends
  <2>5. Overlay(data, q)[d] # NoDoc <=> q[m].op = "set"
    BY <1>5, <2>3 DEF Reached
  <2> QED BY <2>4, <2>5
<1> QED BY <1>6, <1>7
=============================================================================
