---------------------------- MODULE ListensProofs ----------------------------
(***************************************************************************)
(* Proofs about module Listens, for any number of documents, lookups,      *)
(* calls and mishaps: the client's state is well typed, what is looked up  *)
(* is what the view has in limbo, the answers awaited of a target are      *)
(* those that are due, and no assertion of the read path fails; what is    *)
(* shown is what is on disk, no get is answered twice and no listener      *)
(* misses what the view shows.                                             *)
(***************************************************************************)
EXTENDS Listens, FiniteSetTheorems, SequenceTheorems, WellFoundedInduction, TLAPS

-----------------------------------------------------------------------------
(* Numbers, sets and sequences                                             *)

\* The least-number principle, from the well-foundedness of strict inclusion
\* among the finite sets 1..n.
LEMMA Least ==
    ASSUME NEW Bad \in SUBSET Nat, Bad # {}
    PROVE  \E m \in Bad : \A k \in Bad : m <= k
<1> DEFINE Segments == {1..n : n \in Bad}
<1>1. Segments \subseteq FiniteSubsetsOf(Nat)
  <2>1. \A n \in Bad : IsFiniteSet(1..n) /\ 1..n \subseteq Nat
    BY FS_Interval
  <2> QED BY <2>1 DEF FiniteSubsetsOf
<1>2. PICK s \in Segments : \A t \in Segments : <<t, s>> \notin StrictSubsetOrdering(Nat)
  <2>1. Segments # {}
    OBVIOUS
  <2> HIDE DEF Segments
  <2>2. IsWellFoundedOn(StrictSubsetOrdering(Nat), FiniteSubsetsOf(Nat))
    BY FS_StrictSubsetOrderingWellFounded
  <2> QED BY <1>1, <2>1, <2>2, WFMin
<1>3. PICK m \in Bad : s = 1..m
  BY <1>2
<1>4. ASSUME NEW k \in Bad, k < m PROVE FALSE
  <2>1. 1..k \subseteq 1..m /\ m \in 1..m /\ m \notin 1..k
    BY <1>4
  <2>2. <<1..k, 1..m>> \in StrictSubsetOrdering(Nat)
    BY <2>1 DEF StrictSubsetOrdering
  <2> QED BY <1>2, <1>3, <2>2
<1> QED BY <1>4

\* Induction up to a bound, over a set of numbers.
LEMMA Climb ==
    ASSUME NEW n \in Nat, NEW S, 0 \in S, \A k \in 0..n - 1 : k \in S => k + 1 \in S
    PROVE  \A k \in 0..n : k \in S
<1> DEFINE Bad == {k \in 0..n : k \notin S}
<1> SUFFICES ASSUME Bad # {} PROVE FALSE
  OBVIOUS
<1>1. Bad \in SUBSET Nat
  OBVIOUS
<1>2. PICK m \in Bad : \A k \in Bad : m <= k
  <2> HIDE DEF Bad
  <2> QED BY <1>1, Least
<1>3. m \in 0..n /\ m \notin S /\ m # 0
  BY <1>2
<1>4. m - 1 \in 0..n - 1 /\ m - 1 \in 0..n /\ (m - 1) + 1 = m /\ ~(m <= m - 1)
  BY <1>3
<1>5. m - 1 \in S
  BY <1>2, <1>4
<1> QED BY <1>3, <1>4, <1>5

\* The greatest of a set of numbers up to k that k is in.
LEMMA MaxBelow ==
    ASSUME NEW k \in Nat, NEW z \in SUBSET (1..k), k \in z
    PROVE  Max(z) = k
<1>1. \A y \in z : y \in Int /\ k >= y
  OBVIOUS
<1>2. ASSUME NEW x \in z, \A y \in z : x >= y PROVE x = k
  BY <1>1, <1>2
<1>3. \A x : (x \in z /\ \A y \in z : x >= y) <=> x = k
  BY <1>1, <1>2
<1> QED BY <1>3 DEF Max

\* The lookups are started one after the other.
LEMMA StartsOneByOne ==
    ASSUME NEW s, NEW q, Len(q) \in Nat, DOMAIN q = 1..Len(q)
    PROVE  \E after :
              /\ after[0] = s
              /\ \A n \in 1..Len(q) : after[n] = StartResolution(after[n - 1], q[n])
              /\ FoldLeft(StartResolution, s, q) = after[Len(q)]
<1> DEFINE top == Len(q)
           Op(t, k) == StartResolution(t, k)
           Step(g, z) == IF z = {} THEN s ELSE Op(g[z \ {Max(z)}], q[Max(z)])
           Upto(g, m) == g = [z \in SUBSET (1..m) |-> Step(g, z)]
           Bad == {m \in 0..top : ~ \E g : Upto(g, m)}
<1> HIDE DEF Op
<1>1. Bad = {}
  <2> SUFFICES ASSUME Bad # {} PROVE FALSE
    OBVIOUS
  <2>0. Bad \in SUBSET Nat
    OBVIOUS
  <2>1. PICK m \in Bad : \A k \in Bad : m <= k
    <3> HIDE DEF Bad
    <3> QED BY <2>0, Least
  <2>2. m \in 0..top /\ ~ \E g : Upto(g, m)
    BY <2>1
  <2>3. m # 0
    <3>1. Upto([z \in SUBSET (1..0) |-> s], 0)
      OBVIOUS
    <3> HIDE DEF Upto
    <3> QED BY <2>2, <3>1
  <2>4. PICK g : Upto(g, m - 1)
    <3>1. m - 1 \in 0..top /\ m - 1 \in Nat /\ m - 1 < m /\ m \in Nat
      BY <2>2, <2>3
    <3>2. m - 1 \notin Bad
      <4> HIDE DEF Bad
      <4> QED BY <2>1, <3>1
    <3> QED BY <3>1, <3>2
  <2> DEFINE f == [z \in SUBSET (1..m) |-> IF m \in z THEN Op(g[z \ {m}], q[m]) ELSE g[z]]
  <2>5. Upto(f, m)
    <3>1. m \in Nat /\ m \in 1..m /\ (1..m) \ {m} = 1..(m - 1)
      BY <2>2, <2>3
    <3>2. ASSUME NEW z \in SUBSET (1..m) PROVE f[z] = Step(f, z)
      <4>1. CASE m \in z
        <5>1. Max(z) = m /\ z # {}
          BY <3>1, <4>1, MaxBelow
        <5>2. z \ {m} \in SUBSET (1..m) /\ m \notin z \ {m} /\ f[z \ {m}] = g[z \ {m}]
          OBVIOUS
        <5> QED BY <4>1, <5>1, <5>2
      <4>2. CASE m \notin z
        <5>1. z \in SUBSET (1..(m - 1))
          BY <3>1, <4>2
        <5>2. f[z] = g[z] /\ g[z] = Step(g, z)
          BY <2>4, <4>2, <5>1
        <5>3. CASE z # {}
          <6>1. f[z \ {Max(z)}] = g[z \ {Max(z)}]
            BY <4>2
          <6> QED BY <5>2, <5>3, <6>1
        <5> QED BY <5>2, <5>3
      <4> QED BY <4>1, <4>2
    <3> HIDE DEF Step
    <3> QED BY <3>2
  <2> HIDE DEF Upto
  <2> QED BY <2>2, <2>5
<1> DEFINE all == CHOOSE g : Upto(g, top)
<1>2. Upto(all, top)
  <2>1. top \notin Bad /\ top \in 0..top
    <3> HIDE DEF Bad
    <3> QED BY <1>1
  <2>2. \E g : Upto(g, top)
    BY <2>1
  <2> HIDE DEF Upto
  <2> QED BY <2>2
<1>3. FoldLeft(StartResolution, s, q) = all[1..top]
  BY DEF FoldLeft, MapThenFoldSet, Op
<1> HIDE DEF all
<1> DEFINE after == [n \in 0..top |-> all[1..n]]
<1>4. after[0] = s
  BY <1>2
<1>5. ASSUME NEW n \in 1..top PROVE after[n] = Op(after[n - 1], q[n])
  <2>1. 1..n \in SUBSET (1..top) /\ n \in 1..n /\ n \in Nat /\ n - 1 \in 0..top /\ n \in 0..top
        /\ (1..n) \ {n} = 1..(n - 1)
    OBVIOUS
  <2>2. Max(1..n) = n
    BY <2>1, MaxBelow
  <2>3. all[1..n] = Op(all[1..(n - 1)], q[n])
    BY <1>2, <2>1, <2>2
  <2> QED BY <2>1, <2>3
<1>6. \A n \in 1..top : after[n] = StartResolution(after[n - 1], q[n])
  BY <1>5 DEF Op
<1>7. top \in 0..top
  OBVIOUS
<1> QED BY <1>3, <1>4, <1>6, <1>7

\* The documents new in limbo are tracked one after the other.
LEMMA TracksOneByOne ==
    ASSUME NEW s, NEW q, Len(q) \in Nat, DOMAIN q = 1..Len(q)
    PROVE  \E after :
              /\ after[0] = s
              /\ \A n \in 1..Len(q) : after[n] = TrackLimboChange(after[n - 1], q[n])
              /\ FoldLeft(TrackLimboChange, s, q) = after[Len(q)]
<1> DEFINE top == Len(q)
           Op(t, k) == TrackLimboChange(t, k)
           Step(g, z) == IF z = {} THEN s ELSE Op(g[z \ {Max(z)}], q[Max(z)])
           Upto(g, m) == g = [z \in SUBSET (1..m) |-> Step(g, z)]
           Bad == {m \in 0..top : ~ \E g : Upto(g, m)}
<1> HIDE DEF Op
<1>1. Bad = {}
  <2> SUFFICES ASSUME Bad # {} PROVE FALSE
    OBVIOUS
  <2>0. Bad \in SUBSET Nat
    OBVIOUS
  <2>1. PICK m \in Bad : \A k \in Bad : m <= k
    <3> HIDE DEF Bad
    <3> QED BY <2>0, Least
  <2>2. m \in 0..top /\ ~ \E g : Upto(g, m)
    BY <2>1
  <2>3. m # 0
    <3>1. Upto([z \in SUBSET (1..0) |-> s], 0)
      OBVIOUS
    <3> HIDE DEF Upto
    <3> QED BY <2>2, <3>1
  <2>4. PICK g : Upto(g, m - 1)
    <3>1. m - 1 \in 0..top /\ m - 1 \in Nat /\ m - 1 < m /\ m \in Nat
      BY <2>2, <2>3
    <3>2. m - 1 \notin Bad
      <4> HIDE DEF Bad
      <4> QED BY <2>1, <3>1
    <3> QED BY <3>1, <3>2
  <2> DEFINE f == [z \in SUBSET (1..m) |-> IF m \in z THEN Op(g[z \ {m}], q[m]) ELSE g[z]]
  <2>5. Upto(f, m)
    <3>1. m \in Nat /\ m \in 1..m /\ (1..m) \ {m} = 1..(m - 1)
      BY <2>2, <2>3
    <3>2. ASSUME NEW z \in SUBSET (1..m) PROVE f[z] = Step(f, z)
      <4>1. CASE m \in z
        <5>1. Max(z) = m /\ z # {}
          BY <3>1, <4>1, MaxBelow
        <5>2. z \ {m} \in SUBSET (1..m) /\ m \notin z \ {m} /\ f[z \ {m}] = g[z \ {m}]
          OBVIOUS
        <5> QED BY <4>1, <5>1, <5>2
      <4>2. CASE m \notin z
        <5>1. z \in SUBSET (1..(m - 1))
          BY <3>1, <4>2
        <5>2. f[z] = g[z] /\ g[z] = Step(g, z)
          BY <2>4, <4>2, <5>1
        <5>3. CASE z # {}
          <6>1. f[z \ {Max(z)}] = g[z \ {Max(z)}]
            BY <4>2
          <6> QED BY <5>2, <5>3, <6>1
        <5> QED BY <5>2, <5>3
      <4> QED BY <4>1, <4>2
    <3> HIDE DEF Step
    <3> QED BY <3>2
  <2> HIDE DEF Upto
  <2> QED BY <2>2, <2>5
<1> DEFINE all == CHOOSE g : Upto(g, top)
<1>2. Upto(all, top)
  <2>1. top \notin Bad /\ top \in 0..top
    <3> HIDE DEF Bad
    <3> QED BY <1>1
  <2>2. \E g : Upto(g, top)
    BY <2>1
  <2> HIDE DEF Upto
  <2> QED BY <2>2
<1>3. FoldLeft(TrackLimboChange, s, q) = all[1..top]
  BY DEF FoldLeft, MapThenFoldSet, Op
<1> HIDE DEF all
<1> DEFINE after == [n \in 0..top |-> all[1..n]]
<1>4. after[0] = s
  BY <1>2
<1>5. ASSUME NEW n \in 1..top PROVE after[n] = Op(after[n - 1], q[n])
  <2>1. 1..n \in SUBSET (1..top) /\ n \in 1..n /\ n \in Nat /\ n - 1 \in 0..top /\ n \in 0..top
        /\ (1..n) \ {n} = 1..(n - 1)
    OBVIOUS
  <2>2. Max(1..n) = n
    BY <2>1, MaxBelow
  <2>3. all[1..n] = Op(all[1..(n - 1)], q[n])
    BY <1>2, <2>1, <2>2
  <2> QED BY <2>1, <2>3
<1>6. \A n \in 1..top : after[n] = TrackLimboChange(after[n - 1], q[n])
  BY <1>5 DEF Op
<1>7. top \in 0..top
  OBVIOUS
<1> QED BY <1>3, <1>4, <1>6, <1>7

\* The documents out of limbo are removed one after the other.
LEMMA RemovesOneByOne ==
    ASSUME NEW s, NEW q, Len(q) \in Nat, DOMAIN q = 1..Len(q)
    PROVE  \E after :
              /\ after[0] = s
              /\ \A n \in 1..Len(q) : after[n] = RemoveLimboTarget(after[n - 1], q[n])
              /\ FoldLeft(RemoveLimboTarget, s, q) = after[Len(q)]
<1> DEFINE top == Len(q)
           Op(t, k) == RemoveLimboTarget(t, k)
           Step(g, z) == IF z = {} THEN s ELSE Op(g[z \ {Max(z)}], q[Max(z)])
           Upto(g, m) == g = [z \in SUBSET (1..m) |-> Step(g, z)]
           Bad == {m \in 0..top : ~ \E g : Upto(g, m)}
<1> HIDE DEF Op
<1>1. Bad = {}
  <2> SUFFICES ASSUME Bad # {} PROVE FALSE
    OBVIOUS
  <2>0. Bad \in SUBSET Nat
    OBVIOUS
  <2>1. PICK m \in Bad : \A k \in Bad : m <= k
    <3> HIDE DEF Bad
    <3> QED BY <2>0, Least
  <2>2. m \in 0..top /\ ~ \E g : Upto(g, m)
    BY <2>1
  <2>3. m # 0
    <3>1. Upto([z \in SUBSET (1..0) |-> s], 0)
      OBVIOUS
    <3> HIDE DEF Upto
    <3> QED BY <2>2, <3>1
  <2>4. PICK g : Upto(g, m - 1)
    <3>1. m - 1 \in 0..top /\ m - 1 \in Nat /\ m - 1 < m /\ m \in Nat
      BY <2>2, <2>3
    <3>2. m - 1 \notin Bad
      <4> HIDE DEF Bad
      <4> QED BY <2>1, <3>1
    <3> QED BY <3>1, <3>2
  <2> DEFINE f == [z \in SUBSET (1..m) |-> IF m \in z THEN Op(g[z \ {m}], q[m]) ELSE g[z]]
  <2>5. Upto(f, m)
    <3>1. m \in Nat /\ m \in 1..m /\ (1..m) \ {m} = 1..(m - 1)
      BY <2>2, <2>3
    <3>2. ASSUME NEW z \in SUBSET (1..m) PROVE f[z] = Step(f, z)
      <4>1. CASE m \in z
        <5>1. Max(z) = m /\ z # {}
          BY <3>1, <4>1, MaxBelow
        <5>2. z \ {m} \in SUBSET (1..m) /\ m \notin z \ {m} /\ f[z \ {m}] = g[z \ {m}]
          OBVIOUS
        <5> QED BY <4>1, <5>1, <5>2
      <4>2. CASE m \notin z
        <5>1. z \in SUBSET (1..(m - 1))
          BY <3>1, <4>2
        <5>2. f[z] = g[z] /\ g[z] = Step(g, z)
          BY <2>4, <4>2, <5>1
        <5>3. CASE z # {}
          <6>1. f[z \ {Max(z)}] = g[z \ {Max(z)}]
            BY <4>2
          <6> QED BY <5>2, <5>3, <6>1
        <5> QED BY <5>2, <5>3
      <4> QED BY <4>1, <4>2
    <3> HIDE DEF Step
    <3> QED BY <3>2
  <2> HIDE DEF Upto
  <2> QED BY <2>2, <2>5
<1> DEFINE all == CHOOSE g : Upto(g, top)
<1>2. Upto(all, top)
  <2>1. top \notin Bad /\ top \in 0..top
    <3> HIDE DEF Bad
    <3> QED BY <1>1
  <2>2. \E g : Upto(g, top)
    BY <2>1
  <2> HIDE DEF Upto
  <2> QED BY <2>2
<1>3. FoldLeft(RemoveLimboTarget, s, q) = all[1..top]
  BY DEF FoldLeft, MapThenFoldSet, Op
<1> HIDE DEF all
<1> DEFINE after == [n \in 0..top |-> all[1..n]]
<1>4. after[0] = s
  BY <1>2
<1>5. ASSUME NEW n \in 1..top PROVE after[n] = Op(after[n - 1], q[n])
  <2>1. 1..n \in SUBSET (1..top) /\ n \in 1..n /\ n \in Nat /\ n - 1 \in 0..top /\ n \in 0..top
        /\ (1..n) \ {n} = 1..(n - 1)
    OBVIOUS
  <2>2. Max(1..n) = n
    BY <2>1, MaxBelow
  <2>3. all[1..n] = Op(all[1..(n - 1)], q[n])
    BY <1>2, <2>1, <2>2
  <2> QED BY <2>1, <2>3
<1>6. \A n \in 1..top : after[n] = RemoveLimboTarget(after[n - 1], q[n])
  BY <1>5 DEF Op
<1>7. top \in 0..top
  OBVIOUS
<1> QED BY <1>3, <1>4, <1>6, <1>7

\* The targets of a stream that opens are watched one after the other.
LEMMA WatchesOneByOne ==
    ASSUME NEW s, NEW q, Len(q) \in Nat, DOMAIN q = 1..Len(q)
    PROVE  \E after :
              /\ after[0] = s
              /\ \A n \in 1..Len(q) : after[n] = SendWatchRequest(after[n - 1], q[n])
              /\ FoldLeft(SendWatchRequest, s, q) = after[Len(q)]
<1> DEFINE top == Len(q)
           Op(t, k) == SendWatchRequest(t, k)
           Step(g, z) == IF z = {} THEN s ELSE Op(g[z \ {Max(z)}], q[Max(z)])
           Upto(g, m) == g = [z \in SUBSET (1..m) |-> Step(g, z)]
           Bad == {m \in 0..top : ~ \E g : Upto(g, m)}
<1> HIDE DEF Op
<1>1. Bad = {}
  <2> SUFFICES ASSUME Bad # {} PROVE FALSE
    OBVIOUS
  <2>0. Bad \in SUBSET Nat
    OBVIOUS
  <2>1. PICK m \in Bad : \A k \in Bad : m <= k
    <3> HIDE DEF Bad
    <3> QED BY <2>0, Least
  <2>2. m \in 0..top /\ ~ \E g : Upto(g, m)
    BY <2>1
  <2>3. m # 0
    <3>1. Upto([z \in SUBSET (1..0) |-> s], 0)
      OBVIOUS
    <3> HIDE DEF Upto
    <3> QED BY <2>2, <3>1
  <2>4. PICK g : Upto(g, m - 1)
    <3>1. m - 1 \in 0..top /\ m - 1 \in Nat /\ m - 1 < m /\ m \in Nat
      BY <2>2, <2>3
    <3>2. m - 1 \notin Bad
      <4> HIDE DEF Bad
      <4> QED BY <2>1, <3>1
    <3> QED BY <3>1, <3>2
  <2> DEFINE f == [z \in SUBSET (1..m) |-> IF m \in z THEN Op(g[z \ {m}], q[m]) ELSE g[z]]
  <2>5. Upto(f, m)
    <3>1. m \in Nat /\ m \in 1..m /\ (1..m) \ {m} = 1..(m - 1)
      BY <2>2, <2>3
    <3>2. ASSUME NEW z \in SUBSET (1..m) PROVE f[z] = Step(f, z)
      <4>1. CASE m \in z
        <5>1. Max(z) = m /\ z # {}
          BY <3>1, <4>1, MaxBelow
        <5>2. z \ {m} \in SUBSET (1..m) /\ m \notin z \ {m} /\ f[z \ {m}] = g[z \ {m}]
          OBVIOUS
        <5> QED BY <4>1, <5>1, <5>2
      <4>2. CASE m \notin z
        <5>1. z \in SUBSET (1..(m - 1))
          BY <3>1, <4>2
        <5>2. f[z] = g[z] /\ g[z] = Step(g, z)
          BY <2>4, <4>2, <5>1
        <5>3. CASE z # {}
          <6>1. f[z \ {Max(z)}] = g[z \ {Max(z)}]
            BY <4>2
          <6> QED BY <5>2, <5>3, <6>1
        <5> QED BY <5>2, <5>3
      <4> QED BY <4>1, <4>2
    <3> HIDE DEF Step
    <3> QED BY <3>2
  <2> HIDE DEF Upto
  <2> QED BY <2>2, <2>5
<1> DEFINE all == CHOOSE g : Upto(g, top)
<1>2. Upto(all, top)
  <2>1. top \notin Bad /\ top \in 0..top
    <3> HIDE DEF Bad
    <3> QED BY <1>1
  <2>2. \E g : Upto(g, top)
    BY <2>1
  <2> HIDE DEF Upto
  <2> QED BY <2>2
<1>3. FoldLeft(SendWatchRequest, s, q) = all[1..top]
  BY DEF FoldLeft, MapThenFoldSet, Op
<1> HIDE DEF all
<1> DEFINE after == [n \in 0..top |-> all[1..n]]
<1>4. after[0] = s
  BY <1>2
<1>5. ASSUME NEW n \in 1..top PROVE after[n] = Op(after[n - 1], q[n])
  <2>1. 1..n \in SUBSET (1..top) /\ n \in 1..n /\ n \in Nat /\ n - 1 \in 0..top /\ n \in 0..top
        /\ (1..n) \ {n} = 1..(n - 1)
    OBVIOUS
  <2>2. Max(1..n) = n
    BY <2>1, MaxBelow
  <2>3. all[1..n] = Op(all[1..(n - 1)], q[n])
    BY <1>2, <2>1, <2>2
  <2> QED BY <2>1, <2>3
<1>6. \A n \in 1..top : after[n] = SendWatchRequest(after[n - 1], q[n])
  BY <1>5 DEF Op
<1>7. top \in 0..top
  OBVIOUS
<1> QED BY <1>3, <1>4, <1>6, <1>7

\* A finite set of numbers has an order, which lists each of them once.
LEMMA SortedFacts ==
    ASSUME NEW S \in SUBSET Nat, IsFiniteSet(S)
    PROVE  /\ Sorted(S) \in Seq(S) /\ DOMAIN Sorted(S) = 1..Cardinality(S)
           /\ Len(Sorted(S)) = Cardinality(S) /\ Cardinality(S) \in Nat
           /\ \A i, j \in DOMAIN Sorted(S) : Sorted(S)[i] = Sorted(S)[j] => i = j
           /\ \A x \in S : \E i \in DOMAIN Sorted(S) : Sorted(S)[i] = x
<1> DEFINE n == Cardinality(S)
           Good(q) == /\ q \in [1..n -> S]
                      /\ \A i, j \in 1..n : i < j => q[i] < q[j]
           Upto(x) == {y \in S : y <= x}
           r == [x \in S |-> Cardinality(Upto(x))]
<1>1. n \in Nat /\ IsFiniteSet(1..n) /\ Cardinality(1..n) = n
  BY FS_CardinalityType, FS_Interval
<1>2. ASSUME NEW x \in S PROVE r[x] \in 1..n
  <2>1. IsFiniteSet(Upto(x)) /\ Cardinality(Upto(x)) <= n
    BY FS_Subset
  <2>2. Cardinality(Upto(x)) \in Nat
    BY <2>1, FS_CardinalityType
  <2>3. x \in Upto(x)
    OBVIOUS
  <2>4. Cardinality(Upto(x)) # 0
    <3> HIDE DEF Upto
    <3> QED BY <2>1, <2>3, FS_EmptySet
  <2> QED BY <1>1, <2>1, <2>2, <2>4
<1>3. ASSUME NEW x \in S, NEW y \in S, x < y PROVE r[x] < r[y]
  <2>1. IsFiniteSet(Upto(y))
    BY FS_Subset
  <2>2. Upto(x) \in SUBSET Upto(y) /\ y \in Upto(y) /\ y \notin Upto(x)
    <3>1. x \in Nat /\ y \in Nat /\ \A z \in S : z \in Nat
      OBVIOUS
    <3>2. y <= y /\ ~(y <= x)
      BY <1>3, <3>1
    <3>3. ASSUME NEW z \in S, z <= x PROVE z <= y
      BY <1>3, <3>1, <3>3
    <3> QED BY <3>2, <3>3
  <2>3. Cardinality(Upto(x)) <= Cardinality(Upto(y)) /\ Cardinality(Upto(x)) # Cardinality(Upto(y))
    <3> HIDE DEF Upto
    <3> QED BY <2>1, <2>2, FS_Subset
  <2>4. r[x] = Cardinality(Upto(x)) /\ r[y] = Cardinality(Upto(y))
    OBVIOUS
  <2>5. r[x] \in 1..n /\ r[y] \in 1..n
    BY <1>2
  <2> HIDE DEF r, Upto
  <2> QED BY <1>1, <2>3, <2>4, <2>5
<1>4. r \in [S -> 1..n]
  <2>1. r = [x \in S |-> r[x]]
    OBVIOUS
  <2> HIDE DEF r
  <2> QED BY <1>2, <2>1
<1>5. r \in Surjection(S, 1..n)
  <2>1. r \in Injection(S, 1..n)
    <3>1. ASSUME NEW x \in S, NEW y \in S, r[x] = r[y] PROVE x = y
      <4>1. x \in Nat /\ y \in Nat /\ r[x] \in Int
        BY <1>1, <1>2
      <4> HIDE DEF r
      <4> QED BY <1>3, <3>1, <4>1
    <3> HIDE DEF r
    <3> QED BY <1>4, <3>1 DEF Injection, IsInjective
  <2> HIDE DEF r
  <2> QED BY <1>1, <2>1, FS_Injection
<1>6. \E q : Good(q)
  <2> DEFINE q == [i \in 1..n |-> CHOOSE x \in S : r[x] = i]
  <2> HIDE DEF r
  <2>1. ASSUME NEW i \in 1..n PROVE q[i] \in S /\ r[q[i]] = i
    BY <1>5 DEF Surjection
  <2>2. q \in [1..n -> S]
    BY <2>1
  <2>3. ASSUME NEW i \in 1..n, NEW j \in 1..n, i < j PROVE q[i] < q[j]
    <3>1. q[i] \in S /\ q[j] \in S /\ r[q[i]] = i /\ r[q[j]] = j
      BY <2>1
    <3> HIDE DEF q
    <3>2. q[i] \in Nat /\ q[j] \in Nat
      BY <3>1
    <3>3. ~(q[j] < q[i])
      <4> SUFFICES ASSUME q[j] < q[i] PROVE FALSE
        OBVIOUS
      <4>1. r[q[j]] < r[q[i]]
        BY <1>3, <3>1
      <4>2. j < i /\ i \in Int /\ j \in Int
        BY <1>1, <3>1, <4>1
      <4> QED BY <2>3, <4>2
    <3>4. q[j] # q[i]
      <4>1. i # j
        BY <1>1, <2>3
      <4> QED BY <3>1, <4>1
    <3> QED BY <3>2, <3>3, <3>4
  <2>4. Good(q)
    <3> HIDE DEF q
    <3> QED BY <2>2, <2>3
  <2> QED BY <2>4
<1> DEFINE o == Sorted(S)
<1>7. Good(o)
  <2>1. Sorted(S) = CHOOSE q : Good(q)
    BY DEF Sorted
  <2> HIDE DEF Good
  <2> QED BY <1>6, <2>1
<1> HIDE DEF o
<1>8. o \in Seq(S) /\ DOMAIN o = 1..n /\ Len(o) = n
  BY <1>1, <1>7
<1>9. ASSUME NEW i \in 1..n, NEW j \in 1..n, o[i] = o[j] PROVE i = j
  <2>1. o[i] \in Nat /\ i \in Int /\ j \in Int
    <3>1. o[i] \in S
      <4>1. o \in [1..n -> S]
        BY <1>7
      <4>2. i \in 1..n
        BY <1>9
      <4> HIDE DEF n
      <4> QED BY <4>1, <4>2
    <3>2. o[i] \in Nat
      BY <3>1
    <3>3. n \in Nat
      BY <1>1
    <3>4. \A k \in 1..n : k \in Int
      <4> HIDE DEF n
      <4> QED BY <3>3
    <3>5. i \in 1..n /\ j \in 1..n
      BY <1>9
    <3> QED BY <3>2, <3>4, <3>5
  <2>2. ~(o[i] < o[j]) /\ ~(o[j] < o[i])
    BY <1>9, <2>1
  <2>3. ~(i < j) /\ ~(j < i)
    BY <1>7, <2>2
  <2> HIDE DEF n
  <2> QED BY <2>1, <2>3
<1>10. o \in Surjection(1..n, S)
  <2>1. o \in Injection(1..n, S)
    BY <1>7, <1>9 DEF Injection, IsInjective
  <2> QED BY <1>1, <2>1, FS_Injection
<1>11. \A x \in S : \E i \in 1..n : o[i] = x
  BY <1>10 DEF Surjection
<1> QED BY <1>1, <1>8, <1>9, <1>11 DEF o

\* Documents, and numbers below a bound, can be sorted.
LEMMA SortedDocs ==
    ASSUME NEW S \in SUBSET Doc
    PROVE  S \in SUBSET Nat /\ IsFiniteSet(S)
<1>1. MaxDocs \in Nat
  BY BoundsAssumption
<1>2. IsFiniteSet(Doc) /\ Doc \in SUBSET Nat
  BY <1>1, FS_Interval DEF Doc
<1> QED BY <1>2, FS_Subset

\* A set of identifiers below n is finite, as Sorted wants it.
LEMMA SortedBelow ==
    ASSUME NEW n \in Nat, NEW S \in SUBSET (0..n - 1)
    PROVE  S \in SUBSET Nat /\ IsFiniteSet(S)
<1>1. IsFiniteSet(0..n - 1) /\ 0..n - 1 \subseteq Nat
  BY FS_Interval
<1> QED BY <1>1, FS_Subset

-----------------------------------------------------------------------------
(* Partial functions                                                       *)

Partial(T) == UNION {[S -> T] : S \in SUBSET Nat}

\* With keeps the values of their type.
LEMMA WithType ==
    ASSUME NEW T, NEW f \in Partial(T), NEW id \in Nat, NEW e \in T
    PROVE  With(f, id, e) \in Partial(T)
<1>1. DOMAIN f \in SUBSET Nat /\ \A i \in DOMAIN f : f[i] \in T
  BY DEF Partial
<1>2. DOMAIN f \cup {id} \in SUBSET Nat /\ With(f, id, e) \in [DOMAIN f \cup {id} -> T]
  BY <1>1 DEF With
<1> QED BY <1>1, <1>2 DEF Partial

\* Without keeps the values of their type.
LEMMA WithoutType ==
    ASSUME NEW T, NEW f \in Partial(T), NEW id
    PROVE  Without(f, id) \in Partial(T)
<1>1. DOMAIN f \in SUBSET Nat /\ \A i \in DOMAIN f : f[i] \in T
  BY DEF Partial
<1>2. DOMAIN f \ {id} \in SUBSET Nat /\ Without(f, id) \in [DOMAIN f \ {id} -> T]
  BY <1>1 DEF Without
<1> QED BY <1>1, <1>2 DEF Partial

\* What is known of a function on some of the identifiers.
LEMMA PartialFacts ==
    ASSUME NEW T, NEW f \in Partial(T)
    PROVE  DOMAIN f \in SUBSET Nat /\ f = [i \in DOMAIN f |-> f[i]] /\ \A i \in DOMAIN f : f[i] \in T
BY DEF Partial

\* And what makes a function such a one.
LEMMA PartialIs ==
    ASSUME NEW T, NEW f, f = [i \in DOMAIN f |-> f[i]], DOMAIN f \in SUBSET Nat,
           \A i \in DOMAIN f : f[i] \in T
    PROVE  f \in Partial(T)
<1>1. f \in [DOMAIN f -> T]
  OBVIOUS
<1> QED BY <1>1 DEF Partial

\* The empty function is one, and is the empty sequence.
LEMMA PartialNone ==
    ASSUME NEW T
    PROVE  << >> \in Partial(T) /\ DOMAIN << >> = {}
<1>1. << >> \in [{} -> T] /\ {} \in SUBSET Nat
  OBVIOUS
<1> QED BY <1>1 DEF Partial

-----------------------------------------------------------------------------
(* Sequences                                                               *)

\* Length, domain and elements of a sequence.
LEMMA SeqFacts ==
    ASSUME NEW T, NEW q \in Seq(T)
    PROVE  /\ Len(q) \in Nat /\ DOMAIN q = 1..Len(q)
           /\ \A i \in 1..Len(q) : q[i] \in T
           /\ q = << >> <=> Len(q) = 0
OBVIOUS

\* Of one more element.
LEMMA AppendFacts ==
    ASSUME NEW T, NEW q \in Seq(T), NEW e \in T
    PROVE  /\ Append(q, e) \in Seq(T) /\ Len(Append(q, e)) = Len(q) + 1
           /\ DOMAIN Append(q, e) = 1..Len(q) + 1
           /\ Append(q, e)[Len(q) + 1] = e
           /\ \A i \in 1..Len(q) : Append(q, e)[i] = q[i]
OBVIOUS

\* Of a sequence without its first.
LEMMA TailFacts ==
    ASSUME NEW T, NEW q \in Seq(T), q # << >>
    PROVE  /\ Tail(q) \in Seq(T) /\ Len(Tail(q)) = Len(q) - 1 /\ Len(q) \in Nat \ {0}
           /\ DOMAIN Tail(q) = 1..Len(q) - 1 /\ Head(q) = q[1] /\ q[1] \in T
           /\ \A i \in 1..Len(q) - 1 : Tail(q)[i] = q[i + 1]
OBVIOUS

\* Of two sequences, one behind the other.
LEMMA ConcatFacts ==
    ASSUME NEW T, NEW p \in Seq(T), NEW q \in Seq(T)
    PROVE  /\ p \o q \in Seq(T) /\ Len(p \o q) = Len(p) + Len(q)
           /\ DOMAIN (p \o q) = 1..Len(p) + Len(q)
           /\ \A i \in 1..Len(p) : (p \o q)[i] = p[i]
           /\ \A i \in 1..Len(q) : (p \o q)[Len(p) + i] = q[i]
OBVIOUS

\* Of a part of a sequence.
LEMMA SubSeqFacts ==
    ASSUME NEW T, NEW q \in Seq(T), NEW m \in 1..Len(q) + 1, NEW n \in 0..Len(q), m <= n + 1
    PROVE  /\ SubSeq(q, m, n) \in Seq(T) /\ Len(SubSeq(q, m, n)) = n - m + 1
           /\ DOMAIN SubSeq(q, m, n) = 1..n - m + 1
           /\ \A i \in 1..n - m + 1 : SubSeq(q, m, n)[i] = q[i + m - 1]
<1>1. m \in Int /\ n \in Int /\ \A i \in m..n : q[i] \in T
  OBVIOUS
<1> QED BY <1>1, SubSeqProperties

IsInj(q) == \A i, j \in DOMAIN q : q[i] = q[j] => i = j

\* Removing a member of a sequence without repetition leaves the others.
LEMMA RemoveFirstFacts ==
    ASSUME NEW T, NEW q \in Seq(T), IsInj(q), NEW e
    PROVE  /\ RemoveFirst(q, e) \in Seq(T) /\ IsInj(RemoveFirst(q, e))
           /\ Range(RemoveFirst(q, e)) = Range(q) \ {e}
<1>1. Len(q) \in Nat /\ DOMAIN q = 1..Len(q) /\ \A i \in 1..Len(q) : q[i] \in T
  BY SeqFacts
<1>2. CASE \A i \in 1..Len(q) : q[i] # e
  <2>1. RemoveFirst(q, e) = q
    BY <1>2 DEF RemoveFirst
  <2> QED BY <1>1, <1>2, <2>1 DEF Range
<1>3. ASSUME NEW k \in 1..Len(q), q[k] = e
      PROVE  /\ RemoveFirst(q, e) \in Seq(T) /\ IsInj(RemoveFirst(q, e))
             /\ Range(RemoveFirst(q, e)) = Range(q) \ {e}
  <2>1. {i \in 1..Len(q) : q[i] = e} = {k}
    BY <1>1, <1>3 DEF IsInj
  <2>2. Min({k}) = k
    BY <1>1 DEF Min
  <2>3. SelectInSeq(q, LAMBDA v : v = e) = k
    BY <2>1, <2>2 DEF SelectInSeq
  <2>4. RemoveFirst(q, e) = RemoveAt(q, k)
    BY <1>3, <2>3 DEF RemoveFirst
  <2> DEFINE a == SubSeq(q, 1, k - 1)
             b == SubSeq(q, k + 1, Len(q))
             r == a \o b
             n == Len(q)
  <2>5. RemoveFirst(q, e) = r
    BY <2>4 DEF RemoveAt
  <2>0. /\ n \in Nat /\ k \in 1..n /\ 1 \in 1..n + 1 /\ k - 1 \in 0..n /\ 1 <= (k - 1) + 1
        /\ k + 1 \in 1..n + 1 /\ n \in 0..n /\ k + 1 <= n + 1
    BY <1>1
  <2>6. /\ a \in Seq(T) /\ Len(a) = k - 1 /\ \A i \in 1..k - 1 : a[i] = q[i]
    <3>1. /\ a \in Seq(T) /\ Len(a) = (k - 1) - 1 + 1
          /\ \A i \in 1..(k - 1) - 1 + 1 : a[i] = q[i + 1 - 1]
      BY <2>0, SubSeqFacts
    <3>2. (k - 1) - 1 + 1 = k - 1 /\ \A i \in 1..k - 1 : i + 1 - 1 = i
      BY <2>0
    <3> HIDE DEF a
    <3> QED BY <3>1, <3>2
  <2>7. /\ b \in Seq(T) /\ Len(b) = n - k /\ \A i \in 1..n - k : b[i] = q[i + k]
    <3>1. /\ b \in Seq(T) /\ Len(b) = n - (k + 1) + 1
          /\ \A i \in 1..n - (k + 1) + 1 : b[i] = q[i + (k + 1) - 1]
      BY <2>0, SubSeqFacts
    <3>2. n - (k + 1) + 1 = n - k /\ \A i \in 1..n - k : i + (k + 1) - 1 = i + k
      BY <2>0
    <3> HIDE DEF b
    <3> QED BY <3>1, <3>2
  <2>8. /\ r \in Seq(T) /\ DOMAIN r = 1..n - 1
        /\ \A i \in 1..n - 1 : r[i] = IF i < k THEN q[i] ELSE q[i + 1]
    <3>1. /\ r \in Seq(T) /\ DOMAIN r = 1..Len(a) + Len(b)
          /\ \A i \in 1..Len(a) : r[i] = a[i]
          /\ \A i \in 1..Len(b) : r[Len(a) + i] = b[i]
      <4>1. a \in Seq(T) /\ b \in Seq(T)
        BY <2>6, <2>7
      <4> HIDE DEF a, b
      <4> QED BY <4>1, ConcatFacts
    <3> HIDE DEF a, b, r
    <3>2. Len(a) + Len(b) = n - 1
      BY <2>0, <2>6, <2>7
    <3>3. ASSUME NEW i \in 1..n - 1, i < k PROVE r[i] = q[i]
      <4>1. i \in 1..k - 1
        BY <2>0, <3>3
      <4> QED BY <2>6, <3>1, <4>1
    <3>4. ASSUME NEW i \in 1..n - 1, ~(i < k) PROVE r[i] = q[i + 1]
      <4>1. i - (k - 1) \in 1..n - k /\ (k - 1) + (i - (k - 1)) = i /\ (i - (k - 1)) + k = i + 1
        BY <2>0, <3>4
      <4>2. r[Len(a) + (i - (k - 1))] = b[i - (k - 1)]
        BY <2>7, <3>1, <4>1
      <4> QED BY <2>6, <2>7, <4>1, <4>2
    <3> QED BY <3>1, <3>2, <3>3, <3>4
  <2> HIDE DEF r
  <2> DEFINE at(i) == IF i < k THEN i ELSE i + 1
  <2>9. \A i \in 1..n - 1 : at(i) \in 1..n /\ at(i) # k /\ r[i] = q[at(i)]
    BY <2>0, <2>8
  <2>10. \A i, j \in 1..n - 1 : at(i) = at(j) => i = j
    BY <2>0
  <2>11. \A j \in 1..n : j # k => \E i \in 1..n - 1 : at(i) = j
    <3>1. ASSUME NEW j \in 1..n, j # k PROVE \E i \in 1..n - 1 : at(i) = j
      <4>1. CASE j < k
        <5>1. j \in 1..n - 1 /\ at(j) = j
          BY <2>0, <4>1
        <5> QED BY <5>1
      <4>2. CASE ~(j < k)
        <5>1. j - 1 \in 1..n - 1 /\ at(j - 1) = j
          BY <2>0, <3>1, <4>2
        <5> QED BY <5>1
      <4> QED BY <4>1, <4>2
    <3> QED BY <3>1
  <2> HIDE DEF at, n
  <2>12. IsInj(r)
    <3>1. ASSUME NEW i \in 1..n - 1, NEW j \in 1..n - 1, r[i] = r[j] PROVE i = j
      <4>1. at(i) \in DOMAIN q /\ at(j) \in DOMAIN q /\ q[at(i)] = q[at(j)]
        BY <1>1, <2>9, <3>1 DEF n
      <4>2. at(i) = at(j)
        BY <4>1 DEF IsInj
      <4> QED BY <2>10, <4>2
    <3> QED BY <2>8, <3>1 DEF IsInj
  <2>13. Range(r) = Range(q) \ {e}
    <3>1. ASSUME NEW i \in 1..n - 1 PROVE r[i] \in Range(q) \ {e}
      <4>1. at(i) \in DOMAIN q /\ k \in DOMAIN q /\ at(i) # k /\ r[i] = q[at(i)]
        BY <1>1, <2>9 DEF n
      <4> QED BY <1>3, <4>1 DEF Range, IsInj
    <3>2. ASSUME NEW j \in 1..n, q[j] # e PROVE q[j] \in Range(r)
      <4>1. PICK i \in 1..n - 1 : at(i) = j
        BY <1>3, <2>11, <3>2
      <4> QED BY <2>8, <2>9, <4>1 DEF Range
    <3> QED BY <1>1, <2>8, <3>1, <3>2 DEF Range, n
  <2> QED BY <2>5, <2>8, <2>12, <2>13
<1> QED BY <1>2, <1>3

-----------------------------------------------------------------------------
(* Counting the members of a sequence that are of a kind                   *)

Marked(q, M) == {i \in DOMAIN q : q[i] \in M}

\* The places of a sequence that hold one of M are finitely many.
LEMMA MarkedFinite ==
    ASSUME NEW T, NEW q \in Seq(T), NEW M
    PROVE  IsFiniteSet(Marked(q, M)) /\ Cardinality(Marked(q, M)) \in Nat
<1>1. IsFiniteSet(DOMAIN q) /\ Marked(q, M) \in SUBSET DOMAIN q
  BY SeqFacts, FS_Interval DEF Marked
<1> QED BY <1>1, FS_Subset, FS_CardinalityType

\* One place more if the new element is one of M.
LEMMA MarkedAppend ==
    ASSUME NEW T, NEW q \in Seq(T), NEW e \in T, NEW M
    PROVE  Cardinality(Marked(Append(q, e), M)) =
              Cardinality(Marked(q, M)) + (IF e \in M THEN 1 ELSE 0)
<1>1. /\ Len(q) \in Nat /\ DOMAIN q = 1..Len(q) /\ DOMAIN Append(q, e) = 1..Len(q) + 1
      /\ Append(q, e)[Len(q) + 1] = e /\ \A i \in 1..Len(q) : Append(q, e)[i] = q[i]
  BY SeqFacts, AppendFacts
<1>2. Len(q) + 1 \notin Marked(q, M) /\ Len(q) + 1 \in 1..Len(q) + 1
      /\ 1..Len(q) + 1 = (1..Len(q)) \cup {Len(q) + 1}
  BY <1>1 DEF Marked
<1>3. Marked(Append(q, e), M) =
         IF e \in M THEN Marked(q, M) \cup {Len(q) + 1} ELSE Marked(q, M)
  BY <1>1, <1>2 DEF Marked
<1>4. IsFiniteSet(Marked(q, M)) /\ Cardinality(Marked(q, M)) \in Nat
  BY MarkedFinite
<1>5. Cardinality(Marked(q, M) \cup {Len(q) + 1}) = Cardinality(Marked(q, M)) + 1
  BY <1>2, <1>4, FS_AddElement
<1> QED BY <1>3, <1>4, <1>5

\* One place less if the first element was one of M.
LEMMA MarkedTail ==
    ASSUME NEW T, NEW q \in Seq(T), q # << >>, NEW M
    PROVE  Cardinality(Marked(q, M)) =
              Cardinality(Marked(Tail(q), M)) + (IF q[1] \in M THEN 1 ELSE 0)
<1>1. /\ Len(q) \in Nat \ {0} /\ DOMAIN q = 1..Len(q) /\ DOMAIN Tail(q) = 1..Len(q) - 1
      /\ Tail(q) \in Seq(T)
      /\ \A i \in 1..Len(q) - 1 : Tail(q)[i] = q[i + 1]
  BY SeqFacts, TailFacts
<1> DEFINE A == Marked(Tail(q), M)
           B == Marked(q, M) \ {1}
           f == [i \in A |-> i + 1]
<1>2. /\ IsFiniteSet(A) /\ IsFiniteSet(Marked(q, M)) /\ Cardinality(A) \in Nat
      /\ Cardinality(Marked(q, M)) \in Nat /\ 1 \in DOMAIN q
  <2>1. IsFiniteSet(A) /\ Cardinality(A) \in Nat
    BY <1>1, MarkedFinite
  <2>2. IsFiniteSet(Marked(q, M)) /\ Cardinality(Marked(q, M)) \in Nat
    BY MarkedFinite
  <2>3. 1 \in DOMAIN q
    BY <1>1
  <2> QED BY <2>1, <2>2, <2>3
<1>3. f \in Bijection(A, B)
  <2>1. \A i \in A : i \in 1..Len(q) - 1 /\ i + 1 \in 1..Len(q) /\ i + 1 # 1 /\ q[i + 1] \in M
    BY <1>1 DEF Marked
  <2>2. f \in [A -> B]
    BY <1>1, <2>1 DEF Marked
  <2>3. \A i, j \in A : f[i] = f[j] => i = j
    BY <1>1, <2>1
  <2>4. ASSUME NEW b \in B PROVE \E i \in A : f[i] = b
    <3>1. b \in 1..Len(q) /\ b # 1 /\ q[b] \in M
      BY <1>1 DEF Marked
    <3>2. b - 1 \in 1..Len(q) - 1 /\ (b - 1) + 1 = b
      BY <1>1, <3>1
    <3>3. b - 1 \in A
      BY <1>1, <3>1, <3>2 DEF Marked
    <3>4. f[b - 1] = b
      BY <3>2, <3>3
    <3> QED BY <3>3, <3>4
  <2> HIDE DEF A, B, f
  <2>5. f \in Injection(A, B) /\ f \in Surjection(A, B)
    BY <2>2, <2>3, <2>4 DEF Injection, IsInjective, Surjection
  <2> QED BY <2>5 DEF Bijection
<1>4. Cardinality(B) = Cardinality(A)
  <2> HIDE DEF A, B, f
  <2> QED BY <1>2, <1>3, FS_Bijection DEF ExistsBijection
<1>5. 1 \in Marked(q, M) <=> q[1] \in M
  BY <1>2 DEF Marked
<1>6. Cardinality(B) = IF 1 \in Marked(q, M) THEN Cardinality(Marked(q, M)) - 1
                       ELSE Cardinality(Marked(q, M))
  BY <1>2, FS_RemoveElement
<1> HIDE DEF A, B
<1> QED BY <1>2, <1>4, <1>5, <1>6 DEF A

\* No place more if none of what is added is one of M.
LEMMA MarkedConcat ==
    ASSUME NEW T, NEW p \in Seq(T), NEW q \in Seq(T), NEW M, \A i \in DOMAIN q : q[i] \notin M
    PROVE  Marked(p \o q, M) = Marked(p, M)
<1>1. /\ Len(p) \in Nat /\ DOMAIN p = 1..Len(p) /\ Len(q) \in Nat /\ DOMAIN q = 1..Len(q)
      /\ DOMAIN (p \o q) = 1..Len(p) + Len(q)
      /\ \A i \in 1..Len(p) : (p \o q)[i] = p[i]
      /\ \A i \in 1..Len(q) : (p \o q)[Len(p) + i] = q[i]
  BY SeqFacts, ConcatFacts
<1>2. ASSUME NEW i \in 1..Len(p) + Len(q), i \notin 1..Len(p) PROVE (p \o q)[i] \notin M
  <2>1. i - Len(p) \in 1..Len(q) /\ Len(p) + (i - Len(p)) = i
    BY <1>1, <1>2
  <2> QED BY <1>1, <2>1
<1>3. 1..Len(p) \subseteq 1..Len(p) + Len(q)
  BY <1>1
<1> QED BY <1>1, <1>2, <1>3 DEF Marked

\* Two marks count for two.
LEMMA MarkedTwo ==
    ASSUME NEW T, NEW q \in Seq(T), NEW M, NEW i \in Marked(q, M)
    PROVE  /\ Cardinality(Marked(q, M)) >= 1
           /\ \A j \in Marked(q, M) : i # j => Cardinality(Marked(q, M)) >= 2
<1>1. IsFiniteSet(Marked(q, M)) /\ Cardinality(Marked(q, M)) \in Nat
  BY MarkedFinite
<1>2. Cardinality(Marked(q, M)) # 0
  BY <1>1, FS_EmptySet
<1>3. ASSUME NEW j \in Marked(q, M), i # j PROVE Cardinality(Marked(q, M)) # 1
  BY <1>1, <1>3, FS_Singleton
<1> QED BY <1>1, <1>2, <1>3

-----------------------------------------------------------------------------
(* The invariant: the client                                               *)

KnownDoc == {d \in Document : d.found => d.version \in Version}
Asking == [op : {"watch", "unwatch"}, id : Nat, target : {Query} \cup Doc, token : Version]
Lookup == [key : Doc, received : BOOLEAN]

SyncRec ==
    [stream : {"off", "starting", "open"}, idle : BOOLEAN,
     listening : Partial(Listening), states : Partial(TargetState),
     updates : [Doc -> KnownDoc], mismatch : BOOLEAN, requests : Seq(Asking),
     online : {"unknown", "online", "offline"}, failed : BOOLEAN, timer : BOOLEAN,
     resolving : Partial(Lookup), enqueued : Seq(Doc), nextId : Nat \ {0},
     broken : BOOLEAN]

\* The timer runs only while it is not known whether the server is there, and
\* the stream is there or about to be; it is idle only without targets.
Conn(s) ==
    /\ s.timer => s.online = "unknown" /\ ~s.failed /\ s.stream # "off"
    /\ s.failed => s.online = "offline"
    /\ s.idle => s.stream = "open" /\ DOMAIN s.listening = {}
    /\ s.stream = "off" => DOMAIN s.listening = {}
    /\ s.stream # "open" => s.requests = << >> /\ DOMAIN s.states = {}

\* An id is new when it is given to a lookup.
Ids(s) ==
    /\ DOMAIN s.resolving \subseteq 1..s.nextId - 1
    /\ DOMAIN s.listening \subseteq 0..s.nextId - 1
    /\ DOMAIN s.states \subseteq 0..s.nextId - 1
    /\ \A i \in DOMAIN s.requests : s.requests[i].id \in 0..s.nextId - 1

\* A document is looked up or enqueued once.
Lookups(s) ==
    /\ \A i, j \in DOMAIN s.resolving : s.resolving[i].key = s.resolving[j].key => i = j
    /\ IsInj(s.enqueued)
    /\ Resolving(s) \cap Range(s.enqueued) = {}
    /\ IsFiniteSet(DOMAIN s.resolving) /\ Cardinality(DOMAIN s.resolving) <= MaxResolutions

\* What is modified or removed of a lookup was received, what is modified of
\* the query is among its keys.
Received(s) ==
    \A id \in DOMAIN s.states : id \in DOMAIN s.resolving =>
        \A d \in Doc : s.states[id].changes[d] \in {"modified", "removed"} =>
            s.resolving[id].received
Held(s, keys) ==
    Query \in DOMAIN s.states =>
        \A d \in Doc : s.states[Query].changes[d] = "modified" => d \in keys

Good(s, keys) ==
    /\ s \in SyncRec /\ ~s.broken
    /\ Conn(s) /\ Ids(s) /\ Lookups(s) /\ Received(s) /\ Held(s, keys)

Looked(s) == Resolving(s) \cup Range(s.enqueued)

-----------------------------------------------------------------------------
(* The invariant: answers awaited                                          *)

Asked(q, id) == Cardinality({i \in DOMAIN q : q[i].id = id})
Answered(q, id) ==
    Cardinality({i \in DOMAIN q : q[i].kind \in {"added", "removed", "refused"} /\ q[i].id = id})

\* All that was asked of a target that is not listened to any more is followed
\* by the request to remove it, or by its answer.
LetGo(asked, answers, id) ==
    /\ \A i \in DOMAIN asked : asked[i].id = id /\ asked[i].op = "watch" =>
          \E j \in DOMAIN asked : j > i /\ asked[j].id = id /\ asked[j].op = "unwatch"
    /\ \A i \in DOMAIN answers : answers[i].kind = "refused" /\ answers[i].id = id =>
          \/ \E j \in DOMAIN answers : j > i /\ answers[j].kind = "removed" /\ answers[j].id = id
          \/ \E j \in DOMAIN asked : asked[j].id = id /\ asked[j].op = "unwatch"

Awaited(s, q) ==
    \A id \in Nat : StateOf(s, id).outstanding = Asked(s.requests, id) + Answered(q, id)
Exact(s, q) ==
    /\ Awaited(s, q)
    /\ \A id \in Nat \ DOMAIN s.listening : LetGo(s.requests, q, id)

-----------------------------------------------------------------------------
(* Requests                                                                *)

\* A state that nothing is known of is a state.
LEMMA FreshType == Fresh \in TargetState
BY BoundsAssumption DEF Fresh, TargetState, Version

\* And so is that of any target.
LEMMA StateOfType ==
    ASSUME NEW s \in SyncRec, NEW id
    PROVE  StateOf(s, id) \in TargetState
<1>1. s.states \in Partial(TargetState)
  BY DEF SyncRec
<1> QED BY <1>1, FreshType, PartialFacts DEF StateOf

\* What a request does to the client.
Requested(s, t, id, r) ==
    /\ t.requests = Append(s.requests, r) /\ ~t.idle
    /\ \A i : i \in DOMAIN t.states <=> i \in DOMAIN s.states \/ i = id
    /\ \A i \in DOMAIN s.states : i # id => t.states[i] = s.states[i]
    /\ t.states[id].changes = StateOf(s, id).changes
    /\ t.states[id].outstanding = StateOf(s, id).outstanding + 1
    /\ t.stream = s.stream /\ t.listening = s.listening /\ t.updates = s.updates
    /\ t.mismatch = s.mismatch /\ t.online = s.online /\ t.failed = s.failed
    /\ t.timer = s.timer /\ t.resolving = s.resolving /\ t.enqueued = s.enqueued
    /\ t.nextId = s.nextId /\ t.broken = s.broken

\* What Request makes of the client: one request and one awaited answer more.
LEMMA RequestIs ==
    ASSUME NEW s \in SyncRec, NEW id \in Nat, NEW r \in Asking
    PROVE  Request(s, id, r) \in SyncRec /\ Requested(s, Request(s, id, r), id, r)
<1> DEFINE t == Request(s, id, r)
           more == Append(s.requests, r)
           state == [StateOf(s, id) EXCEPT !.outstanding = @ + 1]
           states == With(s.states, id, state)
<1>1. StateOf(s, id) \in TargetState
  BY StateOfType
<1>2. /\ state \in TargetState /\ state.changes = StateOf(s, id).changes
      /\ state.outstanding = StateOf(s, id).outstanding + 1
  BY <1>1 DEF TargetState
<1>3. s.states \in Partial(TargetState) /\ s.requests \in Seq(Asking)
  BY DEF SyncRec
<1>4. states \in Partial(TargetState) /\ more \in Seq(Asking)
  BY <1>2, <1>3, WithType, AppendFacts
<1>5. t = [s EXCEPT !.requests = more, !.idle = FALSE, !.states = states]
  BY DEF Request, WithState, SyncRec
<1>6. /\ \A i : i \in DOMAIN states <=> i \in DOMAIN s.states \/ i = id
      /\ \A i \in DOMAIN s.states : i # id => states[i] = s.states[i]
      /\ states[id] = state
  BY DEF With
<1> HIDE DEF more, state, states, t
<1>7. /\ t \in SyncRec
      /\ t.requests = more /\ t.idle = FALSE
      /\ t.states = states
      /\ t.stream = s.stream /\ t.listening = s.listening /\ t.updates = s.updates
      /\ t.mismatch = s.mismatch /\ t.online = s.online /\ t.failed = s.failed
      /\ t.timer = s.timer /\ t.resolving = s.resolving /\ t.enqueued = s.enqueued
      /\ t.nextId = s.nextId /\ t.broken = s.broken
  BY <1>4, <1>5 DEF SyncRec
<1> QED BY <1>2, <1>6, <1>7 DEF more, t, Requested

\* A request on an open stream keeps the client good.
LEMMA RequestGood ==
    ASSUME NEW s \in SyncRec, NEW keys, ~s.broken, s.stream = "open",
           s.timer => s.online = "unknown" /\ ~s.failed, s.failed => s.online = "offline",
           Ids(s), Lookups(s), Received(s), Held(s, keys),
           NEW id \in 0..s.nextId - 1, NEW r \in Asking, r.id = id
    PROVE  Good(Request(s, id, r), keys)
<1> DEFINE t == Request(s, id, r)
<1>1. /\ s.nextId \in Nat \ {0} /\ id \in Nat /\ s.states \in Partial(TargetState)
      /\ s.requests \in Seq(Asking)
  BY DEF SyncRec
<1>2. t \in SyncRec /\ Requested(s, t, id, r)
  BY <1>1, RequestIs
<1> HIDE DEF t
<1>6. /\ DOMAIN t.requests = 1..Len(s.requests) + 1 /\ DOMAIN s.requests = 1..Len(s.requests)
      /\ Len(s.requests) \in Nat
      /\ t.requests[Len(s.requests) + 1] = r
      /\ \A i \in 1..Len(s.requests) : t.requests[i] = s.requests[i]
  BY <1>1, <1>2, AppendFacts, SeqFacts DEF Requested
<1>7. Conn(t)
  BY <1>2 DEF Requested, Conn
<1>8. Ids(t)
  <2>1. \A i \in DOMAIN t.requests : t.requests[i].id \in 0..t.nextId - 1
    <3>1. ASSUME NEW i \in 1..Len(s.requests) + 1 PROVE t.requests[i].id \in 0..t.nextId - 1
      <4>1. i \in 1..Len(s.requests) \/ i = Len(s.requests) + 1
        BY <1>6
      <4> QED BY <1>2, <1>6, <4>1 DEF Requested, Ids
    <3> QED BY <1>6, <3>1
  <2> QED BY <1>2, <2>1 DEF Requested, Ids
<1>9. Lookups(t)
  BY <1>2 DEF Requested, Lookups, Resolving
<1>10. \A i \in DOMAIN t.states : \A d \in Doc :
          t.states[i].changes[d] # "none" =>
             i \in DOMAIN s.states /\ t.states[i].changes[d] = s.states[i].changes[d]
  BY <1>2 DEF Requested, StateOf, Fresh
<1>11. Received(t)
  BY <1>2, <1>10 DEF Requested, Received
<1>12. Held(t, keys)
  BY <1>10 DEF Held
<1> QED BY <1>2, <1>7, <1>8, <1>9, <1>11, <1>12 DEF Requested, Good, t

Response ==
    [kind : {"added", "removed", "refused"}, id : Nat]
    \cup [kind : {"current"}, id : Nat, version : Version]
    \cup [kind : {"change"}, key : Doc, doc : KnownDoc, to : SUBSET Nat, from : SUBSET Nat]
    \cup [kind : {"filter"}, id : Nat, count : Nat]
    \cup [kind : {"snapshot"}, version : Version]

IsAnswer(m) == m.kind \in {"added", "removed", "refused"}

\* The requests under way of one target are a number.
LEMMA AskedNat ==
    ASSUME NEW q \in Seq(Asking), NEW id
    PROVE  Asked(q, id) \in Nat
<1> DEFINE M == {r \in Asking : r.id = id}
<1>1. Marked(q, M) = {i \in DOMAIN q : q[i].id = id}
  BY SeqFacts DEF Marked
<1> QED BY <1>1, MarkedFinite DEF Asked

\* One more with a request of that target.
LEMMA AskedAppend ==
    ASSUME NEW q \in Seq(Asking), NEW r \in Asking, NEW id
    PROVE  Asked(Append(q, r), id) = Asked(q, id) + (IF r.id = id THEN 1 ELSE 0)
<1> DEFINE M == {x \in Asking : x.id = id}
<1>1. Marked(q, M) = {i \in DOMAIN q : q[i].id = id}
  BY SeqFacts DEF Marked
<1>2. Append(q, r) \in Seq(Asking)
  BY AppendFacts
<1>3. Marked(Append(q, r), M) = {i \in DOMAIN Append(q, r) : Append(q, r)[i].id = id}
  <2> DEFINE p == Append(q, r)
  <2>1. p \in Seq(Asking)
    BY <1>2
  <2> HIDE DEF p
  <2>2. \A i \in DOMAIN p : p[i] \in Asking
    BY <2>1, SeqFacts
  <2>3. Marked(p, M) = {i \in DOMAIN p : p[i].id = id}
    BY <2>2 DEF Marked
  <2> QED BY <2>3 DEF p
<1>4. r \in M <=> r.id = id
  OBVIOUS
<1> HIDE DEF M
<1>5. Cardinality(Marked(Append(q, r), M)) = Cardinality(Marked(q, M)) + (IF r \in M THEN 1 ELSE 0)
  BY MarkedAppend
<1> QED BY <1>1, <1>3, <1>4, <1>5 DEF Asked

\* One less once the first, if it is of that target, was answered.
LEMMA AskedTail ==
    ASSUME NEW q \in Seq(Asking), q # << >>, NEW id
    PROVE  Asked(q, id) = Asked(Tail(q), id) + (IF q[1].id = id THEN 1 ELSE 0)
<1> DEFINE M == {x \in Asking : x.id = id}
<1>1. Marked(q, M) = {i \in DOMAIN q : q[i].id = id}
  BY SeqFacts DEF Marked
<1>2. Tail(q) \in Seq(Asking) /\ q[1] \in Asking
  BY TailFacts
<1>3. Marked(Tail(q), M) = {i \in DOMAIN Tail(q) : Tail(q)[i].id = id}
  <2> DEFINE p == Tail(q)
  <2>1. p \in Seq(Asking)
    BY <1>2
  <2> HIDE DEF p
  <2>2. \A i \in DOMAIN p : p[i] \in Asking
    BY <2>1, SeqFacts
  <2>3. Marked(p, M) = {i \in DOMAIN p : p[i].id = id}
    BY <2>2 DEF Marked
  <2> QED BY <2>3 DEF p
<1>4. q[1] \in M <=> q[1].id = id
  BY <1>2
<1> HIDE DEF M
<1>5. Cardinality(Marked(q, M)) = Cardinality(Marked(Tail(q), M)) + (IF q[1] \in M THEN 1 ELSE 0)
  BY MarkedTail
<1> QED BY <1>1, <1>3, <1>4, <1>5 DEF Asked

\* Nothing is under way of nothing.
LEMMA NoneAsked == \A id : Asked(<< >>, id) = 0 /\ Answered(<< >>, id) = 0
<1>1. \A id : {i \in DOMAIN << >> : << >>[i].id = id} = {}
  OBVIOUS
<1>2. \A id : {i \in DOMAIN << >> : << >>[i].kind \in {"added", "removed", "refused"}
                                    /\ << >>[i].id = id} = {}
  OBVIOUS
<1> QED BY <1>1, <1>2, FS_EmptySet DEF Asked, Answered

AnswersOf(id) == {m \in Response : IsAnswer(m) /\ m.id = id}

\* The answers of one target are marked by their kind and target.
LEMMA AnsweredIs ==
    ASSUME NEW q \in Seq(Response), NEW id
    PROVE  /\ Answered(q, id) = Cardinality(Marked(q, AnswersOf(id)))
           /\ Answered(q, id) \in Nat
<1>1. \A i \in DOMAIN q : q[i] \in Response
  BY SeqFacts
<1>2. Marked(q, AnswersOf(id)) =
         {i \in DOMAIN q : q[i].kind \in {"added", "removed", "refused"} /\ q[i].id = id}
  BY <1>1 DEF Marked, AnswersOf, IsAnswer
<1> QED BY <1>2, MarkedFinite DEF Answered

\* One more with an answer to that target.
LEMMA AnsweredAppend ==
    ASSUME NEW q \in Seq(Response), NEW m \in Response, NEW id
    PROVE  Answered(Append(q, m), id) =
              Answered(q, id) + (IF IsAnswer(m) /\ m.id = id THEN 1 ELSE 0)
<1>1. Append(q, m) \in Seq(Response)
  BY AppendFacts
<1>2. m \in AnswersOf(id) <=> IsAnswer(m) /\ m.id = id
  BY DEF AnswersOf
<1>3. Answered(Append(q, m), id) = Cardinality(Marked(Append(q, m), AnswersOf(id)))
  BY <1>1, AnsweredIs
<1>4. Cardinality(Marked(Append(q, m), AnswersOf(id))) =
         Cardinality(Marked(q, AnswersOf(id))) + (IF m \in AnswersOf(id) THEN 1 ELSE 0)
  BY MarkedAppend
<1> QED BY <1>2, <1>3, <1>4, AnsweredIs

\* One less once the first, if it is to that target, was received.
LEMMA AnsweredTail ==
    ASSUME NEW q \in Seq(Response), q # << >>, NEW id
    PROVE  Answered(q, id) =
              Answered(Tail(q), id) + (IF IsAnswer(q[1]) /\ q[1].id = id THEN 1 ELSE 0)
<1>1. Tail(q) \in Seq(Response) /\ q[1] \in Response
  BY TailFacts
<1>2. q[1] \in AnswersOf(id) <=> IsAnswer(q[1]) /\ q[1].id = id
  BY <1>1 DEF AnswersOf
<1>3. Answered(Tail(q), id) = Cardinality(Marked(Tail(q), AnswersOf(id)))
  BY <1>1, AnsweredIs
<1>4. Cardinality(Marked(q, AnswersOf(id))) =
         Cardinality(Marked(Tail(q), AnswersOf(id))) + (IF q[1] \in AnswersOf(id) THEN 1 ELSE 0)
  BY MarkedTail
<1> QED BY <1>2, <1>3, <1>4, AnsweredIs

\* No more with responses that are not answers.
LEMMA AnsweredConcat ==
    ASSUME NEW q \in Seq(Response), NEW p \in Seq(Response), \A i \in DOMAIN p : ~IsAnswer(p[i]),
           NEW id
    PROVE  Answered(q \o p, id) = Answered(q, id)
<1>1. q \o p \in Seq(Response)
  BY ConcatFacts
<1>2. \A i \in DOMAIN p : p[i] \notin AnswersOf(id)
  BY DEF AnswersOf
<1>3. Answered(q \o p, id) = Cardinality(Marked(q \o p, AnswersOf(id)))
  BY <1>1, AnsweredIs
<1>4. Marked(q \o p, AnswersOf(id)) = Marked(q, AnswersOf(id))
  BY <1>2, MarkedConcat
<1> QED BY <1>3, <1>4, AnsweredIs

\* Nothing was asked.
LEMMA LetGoNone == \A id : LetGo(<< >>, << >>, id)
BY DEF LetGo

\* One more request.
LEMMA LetGoAppend ==
    ASSUME NEW asked \in Seq(Asking), NEW r \in Asking, NEW q, NEW id,
           LetGo(asked, q, id), r.id # id \/ r.op = "unwatch"
    PROVE  LetGo(Append(asked, r), q, id)
<1> DEFINE more == Append(asked, r)
           n == Len(asked)
<1>1. /\ n \in Nat /\ DOMAIN asked = 1..n /\ DOMAIN more = 1..n + 1 /\ more[n + 1] = r
      /\ \A i \in 1..n : more[i] = asked[i] /\ i \in 1..n + 1
  BY SeqFacts, AppendFacts
<1> HIDE DEF more, n
<1>2. ASSUME NEW i \in DOMAIN more, more[i].id = id, more[i].op = "watch"
      PROVE  \E j \in DOMAIN more : j > i /\ more[j].id = id /\ more[j].op = "unwatch"
  <2>1. i \in 1..n \/ i = n + 1
    BY <1>1
  <2>2. i \in 1..n
    BY <1>1, <1>2, <2>1
  <2>3. asked[i].id = id /\ asked[i].op = "watch" /\ i \in DOMAIN asked
    BY <1>1, <1>2, <2>2
  <2>4. PICK j \in DOMAIN asked : j > i /\ asked[j].id = id /\ asked[j].op = "unwatch"
    BY <2>3 DEF LetGo
  <2> QED BY <1>1, <2>4
<1>3. ASSUME NEW j \in DOMAIN asked PROVE j \in DOMAIN more /\ more[j] = asked[j]
  BY <1>1
<1> QED BY <1>2, <1>3 DEF LetGo, more

\* The request to remove the target, after all that was asked of it.
LEMMA LetGoUnwatch ==
    ASSUME NEW asked \in Seq(Asking), NEW r \in Asking, NEW q, NEW id,
           r.id = id, r.op = "unwatch"
    PROVE  LetGo(Append(asked, r), q, id)
<1> DEFINE more == Append(asked, r)
           n == Len(asked)
<1>1. /\ n \in Nat /\ DOMAIN more = 1..n + 1 /\ more[n + 1] = r
      /\ n + 1 \in 1..n + 1
  BY SeqFacts, AppendFacts
<1> HIDE DEF more, n
<1>2. ASSUME NEW i \in DOMAIN more, more[i].op = "watch" PROVE n + 1 > i
  <2>1. i \in Nat /\ i <= n + 1 /\ i # n + 1
    BY <1>1, <1>2
  <2> QED BY <1>1, <2>1
<1> QED BY <1>1, <1>2 DEF LetGo, more

\* The oldest request is answered.
LEMMA LetGoAnswered ==
    ASSUME NEW asked \in Seq(Asking), asked # << >>, NEW q \in Seq(Response), NEW id,
           LetGo(asked, q, id), NEW m \in Response, IsAnswer(m), m.id = asked[1].id,
           asked[1].op = "watch" => m.kind # "removed",
           asked[1].op = "unwatch" => m.kind = "removed"
    PROVE  LetGo(Tail(asked), Append(q, m), id)
<1> DEFINE rest == Tail(asked)
           more == Append(q, m)
           n == Len(asked)
           k == Len(q)
<1>1. /\ n \in Nat \ {0} /\ DOMAIN asked = 1..n /\ DOMAIN rest = 1..n - 1
      /\ \A i \in 1..n - 1 : rest[i] = asked[i + 1]
  BY SeqFacts, TailFacts
<1>2. /\ k \in Nat /\ DOMAIN q = 1..k /\ DOMAIN more = 1..k + 1 /\ more[k + 1] = m
      /\ \A i \in 1..k : more[i] = q[i] /\ i \in 1..k + 1
  BY SeqFacts, AppendFacts
<1>0. asked[1] \in Asking
  BY TailFacts
<1> HIDE DEF rest, more, n, k
<1>3. ASSUME NEW i \in DOMAIN rest, rest[i].id = id, rest[i].op = "watch"
      PROVE  \E j \in DOMAIN rest : j > i /\ rest[j].id = id /\ rest[j].op = "unwatch"
  <2>1. i + 1 \in DOMAIN asked /\ asked[i + 1] = rest[i]
    BY <1>1
  <2>2. PICK j \in DOMAIN asked : j > i + 1 /\ asked[j].id = id /\ asked[j].op = "unwatch"
    BY <1>3, <2>1 DEF LetGo
  <2>3. i \in 1..n - 1 /\ j \in 1..n
    BY <1>1
  <2>4. j - 1 \in 1..n - 1 /\ (j - 1) + 1 = j /\ j - 1 > i
    BY <1>1, <2>2, <2>3
  <2>5. j - 1 \in DOMAIN rest /\ rest[j - 1] = asked[j]
    BY <1>1, <2>4
  <2> QED BY <2>2, <2>4, <2>5
<1>4. ASSUME NEW i \in DOMAIN more, more[i].kind = "refused", more[i].id = id
      PROVE  \/ \E j \in DOMAIN more : j > i /\ more[j].kind = "removed" /\ more[j].id = id
             \/ \E j \in DOMAIN rest : rest[j].id = id /\ rest[j].op = "unwatch"
  <2>1. i \in 1..k \/ i = k + 1
    BY <1>2
  <2>2. ASSUME NEW j \in DOMAIN asked, j # 1, asked[j].id = id, asked[j].op = "unwatch"
        PROVE  \E h \in DOMAIN rest : rest[h].id = id /\ rest[h].op = "unwatch"
    <3>1. j \in 1..n
      BY <1>1
    <3>2. j - 1 \in 1..n - 1 /\ (j - 1) + 1 = j
      BY <1>1, <2>2, <3>1
    <3> QED BY <1>1, <2>2, <3>2
  <2>3. CASE i = k + 1
    <3>1. m.kind = "refused" /\ m.id = id
      BY <1>2, <1>4, <2>3
    <3>2. asked[1].op = "watch" /\ asked[1].id = id
      BY <1>0, <3>1 DEF Asking
    <3>3. 1 \in DOMAIN asked
      BY <1>1
    <3>4. PICK j \in DOMAIN asked : j > 1 /\ asked[j].id = id /\ asked[j].op = "unwatch"
      BY <3>2, <3>3 DEF LetGo
    <3>5. j # 1
      BY <3>4
    <3> QED BY <2>2, <3>4, <3>5
  <2>4. CASE i \in 1..k
    <3>1. i \in DOMAIN q /\ q[i].kind = "refused" /\ q[i].id = id
      BY <1>2, <1>4, <2>4
    <3>2. CASE \E j \in DOMAIN q : j > i /\ q[j].kind = "removed" /\ q[j].id = id
      BY <1>2, <3>2
    <3>3. CASE \E j \in DOMAIN asked : asked[j].id = id /\ asked[j].op = "unwatch"
      <4>1. PICK j \in DOMAIN asked : asked[j].id = id /\ asked[j].op = "unwatch"
        BY <3>3
      <4>2. CASE j = 1
        <5>1. m.kind = "removed" /\ m.id = id
          BY <4>1, <4>2
        <5>2. k + 1 \in DOMAIN more /\ k + 1 > i
          BY <1>2, <2>4
        <5> QED BY <1>2, <5>1, <5>2
      <4> QED BY <2>2, <4>1, <4>2
    <3> QED BY <3>1, <3>2, <3>3 DEF LetGo
  <2> QED BY <2>1, <2>3, <2>4
<1> QED BY <1>3, <1>4 DEF LetGo, rest, more

\* The oldest response is received.
LEMMA LetGoReceived ==
    ASSUME NEW asked, NEW q \in Seq(Response), q # << >>, NEW id, LetGo(asked, q, id)
    PROVE  LetGo(asked, Tail(q), id)
<1> DEFINE rest == Tail(q)
           n == Len(q)
<1>1. /\ n \in Nat \ {0} /\ DOMAIN q = 1..n /\ DOMAIN rest = 1..n - 1
      /\ \A i \in 1..n - 1 : rest[i] = q[i + 1]
  BY SeqFacts, TailFacts
<1> HIDE DEF rest, n
<1>2. ASSUME NEW i \in DOMAIN rest, rest[i].kind = "refused", rest[i].id = id
      PROVE  \/ \E j \in DOMAIN rest : j > i /\ rest[j].kind = "removed" /\ rest[j].id = id
             \/ \E j \in DOMAIN asked : asked[j].id = id /\ asked[j].op = "unwatch"
  <2>1. i + 1 \in DOMAIN q /\ q[i + 1] = rest[i] /\ i \in 1..n - 1
    BY <1>1
  <2>2. CASE \E j \in DOMAIN q : j > i + 1 /\ q[j].kind = "removed" /\ q[j].id = id
    <3>1. PICK j \in DOMAIN q : j > i + 1 /\ q[j].kind = "removed" /\ q[j].id = id
      BY <2>2
    <3>2. j \in 1..n
      BY <1>1
    <3>3. j - 1 \in 1..n - 1 /\ (j - 1) + 1 = j /\ j - 1 > i
      BY <1>1, <2>1, <3>1, <3>2
    <3>4. j - 1 \in DOMAIN rest /\ rest[j - 1] = q[j]
      BY <1>1, <3>3
    <3> QED BY <3>1, <3>3, <3>4
  <2> QED BY <1>2, <2>1, <2>2 DEF LetGo
<1> QED BY <1>2 DEF LetGo, rest

\* The server sends what is no answer.
LEMMA LetGoPushed ==
    ASSUME NEW asked, NEW q \in Seq(Response), NEW p \in Seq(Response),
           \A i \in DOMAIN p : ~IsAnswer(p[i]), NEW id, LetGo(asked, q, id)
    PROVE  LetGo(asked, q \o p, id)
<1> DEFINE more == q \o p
           n == Len(q)
           k == Len(p)
<1>1. /\ n \in Nat /\ k \in Nat /\ DOMAIN q = 1..n /\ DOMAIN p = 1..k /\ DOMAIN more = 1..n + k
      /\ \A i \in 1..n : more[i] = q[i]
      /\ \A i \in 1..k : more[n + i] = p[i]
  BY SeqFacts, ConcatFacts
<1> HIDE DEF more, n, k
<1>2. ASSUME NEW i \in DOMAIN more, more[i].kind = "refused", more[i].id = id
      PROVE  \/ \E j \in DOMAIN more : j > i /\ more[j].kind = "removed" /\ more[j].id = id
             \/ \E j \in DOMAIN asked : asked[j].id = id /\ asked[j].op = "unwatch"
  <2>1. i \in 1..n
    <3> SUFFICES ASSUME i \notin 1..n PROVE FALSE
      OBVIOUS
    <3>1. i - n \in 1..k /\ n + (i - n) = i
      BY <1>1
    <3>2. more[i] = p[i - n] /\ i - n \in DOMAIN p
      BY <1>1, <3>1
    <3> QED BY <1>2, <3>2 DEF IsAnswer
  <2>2. i \in DOMAIN q /\ q[i] = more[i]
    BY <1>1, <2>1
  <2>3. ASSUME NEW j \in DOMAIN q PROVE j \in DOMAIN more /\ more[j] = q[j]
    BY <1>1
  <2> QED BY <1>2, <2>2, <2>3 DEF LetGo
<1> QED BY <1>2 DEF LetGo, more

\* A target that was let go and is refused now has another answer due.
LEMMA LetGoRefused ==
    ASSUME NEW asked \in Seq(Asking), NEW q \in Seq(Response), q # << >>, NEW id,
           LetGo(asked, q, id), q[1].kind = "refused", q[1].id = id
    PROVE  Asked(asked, id) + Answered(q, id) # 1
<1>1. 1 \in DOMAIN q /\ \A i \in DOMAIN q : q[i] \in Response
  BY SeqFacts, TailFacts
<1>2. /\ Answered(q, id) = Cardinality(Marked(q, AnswersOf(id)))
      /\ Answered(q, id) \in Nat /\ Asked(asked, id) \in Nat
  BY AnsweredIs, AskedNat
<1>3. 1 \in Marked(q, AnswersOf(id))
  BY <1>1 DEF Marked, AnswersOf, IsAnswer
<1>4. CASE \E j \in DOMAIN q : j > 1 /\ q[j].kind = "removed" /\ q[j].id = id
  <2>1. PICK j \in DOMAIN q : j > 1 /\ q[j].kind = "removed" /\ q[j].id = id
    BY <1>4
  <2>2. j \in Marked(q, AnswersOf(id)) /\ 1 # j
    BY <1>1, <2>1 DEF Marked, AnswersOf, IsAnswer
  <2>3. Answered(q, id) >= 2
    BY <1>2, <1>3, <2>2, MarkedTwo
  <2> QED BY <1>2, <2>3
<1>5. CASE \E j \in DOMAIN asked : asked[j].id = id
  <2> DEFINE M == {r \in Asking : r.id = id}
  <2>1. Marked(asked, M) = {i \in DOMAIN asked : asked[i].id = id}
    BY SeqFacts DEF Marked
  <2>2. Asked(asked, id) = Cardinality(Marked(asked, M))
    BY <2>1 DEF Asked
  <2>3. PICK j \in Marked(asked, M) : TRUE
    BY <1>5, <2>1
  <2> HIDE DEF M
  <2>4. Asked(asked, id) >= 1 /\ Answered(q, id) >= 1
    BY <1>2, <1>3, <2>2, <2>3, MarkedTwo
  <2> QED BY <1>2, <2>4
<1> QED BY <1>1, <1>4, <1>5 DEF LetGo

\* The client is good; unless a target was refused while another answer was
\* due for it (exact), the answers awaited are those that are due; and nothing
\* is on the way while the stream is not open.
Sound(s, keys, q, exact) ==
    /\ Good(s, keys)
    /\ exact => Exact(s, q)
    /\ s.stream # "open" => q = << >>

\* Where the client's targets are changed, its lookups and stream are not.
Kept(s, t) ==
    /\ t.resolving = s.resolving /\ t.enqueued = s.enqueued /\ t.nextId = s.nextId
    /\ s.stream # "off" => t.stream = s.stream
Listened(s, t, id) ==
    Kept(s, t) /\ DOMAIN t.listening = DOMAIN s.listening \cup {id} /\ t.stream # "off"
Stopped(s, t, id) ==
    Kept(s, t) /\ DOMAIN t.listening = DOMAIN s.listening \ {id} /\ t.stream = s.stream

\* A request is awaited: the count of its target goes with it.
LEMMA RequestAwaited ==
    ASSUME NEW s \in SyncRec, NEW q, NEW id \in Nat, NEW r \in Asking, r.id = id, Awaited(s, q),
           \A i \in Nat : Answered(q, i) \in Nat
    PROVE  Awaited(Request(s, id, r), q)
<1> DEFINE t == Request(s, id, r)
<1>1. t \in SyncRec /\ Requested(s, t, id, r)
  BY RequestIs
<1>2. StateOf(s, id) \in TargetState /\ s.requests \in Seq(Asking)
  BY StateOfType DEF SyncRec
<1> HIDE DEF t
<1>4. ASSUME NEW i \in Nat
      PROVE  StateOf(t, i).outstanding = Asked(t.requests, i) + Answered(q, i)
  <2>1. StateOf(s, i).outstanding = Asked(s.requests, i) + Answered(q, i)
    BY DEF Awaited
  <2>2. Asked(t.requests, i) = Asked(s.requests, i) + (IF i = id THEN 1 ELSE 0)
    <3>1. t.requests = Append(s.requests, r)
      BY <1>1 DEF Requested
    <3>2. Asked(Append(s.requests, r), i) = Asked(s.requests, i) + (IF r.id = i THEN 1 ELSE 0)
      BY <1>2, AskedAppend
    <3> QED BY <3>1, <3>2
  <2>3. Asked(s.requests, i) \in Nat /\ Answered(q, i) \in Nat
    BY <1>2, AskedNat
  <2>4. CASE i = id
    <3>1. StateOf(t, i) = t.states[id] /\ t.states[id].outstanding = StateOf(s, id).outstanding + 1
      BY <1>1, <2>4 DEF StateOf, Requested
    <3> QED BY <2>1, <2>2, <2>3, <2>4, <3>1
  <2>5. CASE i # id
    <3>1. StateOf(t, i) = StateOf(s, i)
      BY <1>1, <2>5 DEF StateOf, Requested
    <3> QED BY <2>1, <2>2, <2>3, <2>5, <3>1
  <2> QED BY <2>4, <2>5
<1> QED BY <1>4 DEF Awaited, t

\* A stream is started, with targets or without.
LEMMA StartIs ==
    ASSUME NEW s \in SyncRec, NEW keys, ~s.broken, s.stream = "off", ~s.timer, ~s.idle,
           s.failed => s.online = "offline", s.requests = << >>,
           DOMAIN s.states = {}, Ids(s), Lookups(s)
    PROVE  /\ Good(StartWatchStream(s), keys)
           /\ StartWatchStream(s).stream = "starting" /\ StartWatchStream(s).states = << >>
           /\ StartWatchStream(s).requests = << >>
           /\ StartWatchStream(s).listening = s.listening
           /\ StartWatchStream(s).resolving = s.resolving
           /\ StartWatchStream(s).enqueued = s.enqueued
           /\ StartWatchStream(s).nextId = s.nextId
<1> DEFINE t == StartWatchStream(s)
           u == [s EXCEPT !.stream = "starting", !.states = << >>,
                          !.updates = NoUpdates, !.mismatch = FALSE]
<1>1. << >> \in Partial(TargetState) /\ DOMAIN << >> = {} /\ NoUpdates \in [Doc -> KnownDoc]
  BY PartialNone DEF NoUpdates, Invalid, NoDocument, KnownDoc, Document
<1>2. /\ u \in SyncRec /\ u.stream = "starting" /\ u.states = << >> /\ u.requests = << >>
      /\ u.listening = s.listening /\ u.resolving = s.resolving /\ u.enqueued = s.enqueued
      /\ u.nextId = s.nextId /\ ~u.broken /\ ~u.timer /\ ~u.idle /\ u.failed = s.failed
      /\ u.online = s.online
  BY <1>1 DEF SyncRec
<1>3. t = IF u.failed THEN u ELSE [u EXCEPT !.online = "unknown", !.timer = TRUE,
                                            !.broken = u.broken \/ u.timer]
  BY <1>2 DEF StartWatchStream, HandleWatchStreamStart, SyncRec
<1> HIDE DEF t, u
<1>4. /\ t \in SyncRec /\ t.stream = "starting" /\ t.states = << >> /\ t.requests = << >>
      /\ t.listening = s.listening /\ t.resolving = s.resolving /\ t.enqueued = s.enqueued
      /\ t.nextId = s.nextId /\ ~t.broken /\ ~t.idle /\ t.failed = s.failed
      /\ (t.timer => t.online = "unknown" /\ ~t.failed) /\ (t.failed => t.online = "offline")
  BY <1>2, <1>3 DEF SyncRec
<1>5. Conn(t)
  BY <1>1, <1>4 DEF Conn
<1>6. Ids(t)
  BY <1>1, <1>4 DEF Ids
<1>7. Lookups(t)
  BY <1>4 DEF Lookups, Resolving
<1>8. Received(t) /\ Held(t, keys)
  BY <1>1, <1>4 DEF Received, Held
<1> QED BY <1>4, <1>5, <1>6, <1>7, <1>8 DEF Good, t

\* RemoteStore::Listen.
LEMMA ListenSound ==
    ASSUME NEW s, NEW keys, NEW q \in Seq(Response), NEW exact, Sound(s, keys, q, exact),
           NEW id \in 0..s.nextId - 1, NEW target \in {Query} \cup Doc, NEW token \in Version
    PROVE  /\ Sound(Listen(s, id, target, token), keys, q, exact)
           /\ Listened(s, Listen(s, id, target, token), id)
<1> DEFINE t == Listen(s, id, target, token)
           entry == [target |-> target, token |-> token]
           added == [s EXCEPT !.listening = With(s.listening, id, entry)]
<1>1. /\ s \in SyncRec /\ s.nextId \in Nat \ {0} /\ s.listening \in Partial(Listening)
      /\ s.requests \in Seq(Asking) /\ Good(s, keys)
  BY DEF Sound, Good, SyncRec
<1>2. id \in Nat /\ entry \in Listening
  BY <1>1 DEF Listening
<1>3. With(s.listening, id, entry) \in Partial(Listening)
  BY <1>1, <1>2, WithType
<1>4. /\ DOMAIN With(s.listening, id, entry) = DOMAIN s.listening \cup {id}
      /\ With(s.listening, id, entry)[id] = entry
  BY DEF With
<1>5. /\ added \in SyncRec /\ added.listening = With(s.listening, id, entry)
      /\ added.stream = s.stream /\ added.idle = s.idle /\ added.states = s.states
      /\ added.updates = s.updates /\ added.mismatch = s.mismatch /\ added.requests = s.requests
      /\ added.online = s.online /\ added.failed = s.failed /\ added.timer = s.timer
      /\ added.resolving = s.resolving /\ added.enqueued = s.enqueued
      /\ added.nextId = s.nextId /\ added.broken = s.broken
  BY <1>1, <1>3 DEF SyncRec
<1>6. t = CASE s.stream = "off" -> StartWatchStream(added)
            [] s.stream = "open" -> SendWatchRequest(added, id)
            [] OTHER -> added
  BY DEF Listen
<1>7. Ids(added) /\ Lookups(added) /\ Received(added) /\ Held(added, keys)
  BY <1>1, <1>4, <1>5 DEF Good, Ids, Lookups, Resolving, Received, Held
<1>8. exact => Awaited(added, q)
  BY <1>5 DEF Sound, Exact, Awaited, StateOf
<1>9. exact => \A i \in Nat \ DOMAIN added.listening : LetGo(added.requests, q, i)
  BY <1>4, <1>5 DEF Sound, Exact
<1> HIDE DEF t, added, entry
<1>10. CASE s.stream = "off"
  <2>1. t = StartWatchStream(added)
    BY <1>6, <1>10
  <2>2. /\ ~added.broken /\ added.stream = "off" /\ ~added.timer /\ ~added.idle
        /\ (added.failed => added.online = "offline") /\ added.requests = << >>
        /\ DOMAIN added.states = {}
    BY <1>1, <1>5, <1>10 DEF Good, Conn
  <2>3. /\ Good(t, keys) /\ t.stream = "starting" /\ t.states = << >> /\ t.requests = << >>
        /\ t.listening = added.listening /\ t.resolving = added.resolving
        /\ t.enqueued = added.enqueued /\ t.nextId = added.nextId
    BY <1>5, <1>7, <2>1, <2>2, StartIs
  <2>4. exact => Awaited(t, q)
    <3>1. \A i : StateOf(t, i) = StateOf(added, i)
      BY <2>2, <2>3, PartialNone DEF StateOf
    <3> QED BY <1>8, <2>2, <2>3, <3>1 DEF Awaited
  <2>5. exact => Exact(t, q)
    BY <1>9, <2>2, <2>3, <2>4 DEF Exact
  <2> QED BY <1>4, <1>5, <1>10, <2>3, <2>5 DEF Sound, Kept, Listened, t
<1>11. CASE s.stream = "open"
  <2> DEFINE r == [op |-> "watch", id |-> id, target |-> added.listening[id].target,
                   token |-> added.listening[id].token]
  <2>1. t = Request(added, id, r)
    BY <1>6, <1>11 DEF SendWatchRequest
  <2>2. r \in Asking /\ r.id = id /\ r.op = "watch"
    BY <1>2, <1>4, <1>5 DEF Asking, Listening
  <2> HIDE DEF r
  <2>6. Good(t, keys)
    <3>1. /\ added.stream = "open" /\ ~added.broken /\ id \in 0..added.nextId - 1
          /\ (added.timer => added.online = "unknown" /\ ~added.failed)
          /\ (added.failed => added.online = "offline")
      BY <1>1, <1>5, <1>11 DEF Good, Conn
    <3> QED BY <1>5, <1>7, <2>1, <2>2, <3>1, RequestGood
  <2>7. /\ t.requests = Append(s.requests, r) /\ t.listening = added.listening
        /\ t.resolving = s.resolving /\ t.enqueued = s.enqueued /\ t.nextId = s.nextId
        /\ t.stream = "open"
    <3>1. t \in SyncRec /\ Requested(added, t, id, r)
      BY <1>2, <1>5, <2>1, <2>2, RequestIs
    <3> QED BY <1>5, <1>11, <3>1 DEF Requested
  <2>8. exact => Awaited(t, q)
    <3>1. \A i \in Nat : Answered(q, i) \in Nat
      BY AnsweredIs
    <3> QED BY <1>2, <1>5, <1>8, <2>1, <2>2, <3>1, RequestAwaited
  <2>9. exact => \A i \in Nat \ DOMAIN t.listening : LetGo(t.requests, q, i)
    <3>1. \A i \in Nat \ DOMAIN t.listening : i # id
      BY <1>4, <1>5, <2>7
    <3> QED BY <1>1, <1>5, <1>9, <2>2, <2>7, <3>1, LetGoAppend
  <2> QED BY <1>4, <1>5, <1>11, <2>6, <2>7, <2>8, <2>9 DEF Sound, Exact, Kept, Listened, t
<1>12. CASE s.stream = "starting"
  <2>1. t = added
    BY <1>6, <1>12
  <2>2. Conn(added)
    BY <1>1, <1>5, <1>12 DEF Good, Conn
  <2>3. Good(added, keys)
    BY <1>1, <1>5, <1>7, <2>2 DEF Good
  <2> QED BY <1>4, <1>5, <1>8, <1>9, <1>12, <2>1, <2>3 DEF Sound, Exact, Kept, Listened, t
<1>13. s.stream \in {"off", "starting", "open"}
  BY <1>1 DEF SyncRec
<1> QED BY <1>10, <1>11, <1>12, <1>13

\* RemoteStore::StopListening, of a target that is listened to.
LEMMA StopListeningSound ==
    ASSUME NEW s, NEW keys, NEW q \in Seq(Response), NEW exact, Sound(s, keys, q, exact),
           NEW id \in DOMAIN s.listening
    PROVE  /\ Sound(StopListening(s, id), keys, q, exact)
           /\ Stopped(s, StopListening(s, id), id)
<1> DEFINE t == StopListening(s, id)
           rest == Without(s.listening, id)
           left == [s EXCEPT !.listening = rest, !.broken = s.broken \/ id \notin DOMAIN s.listening]
           told == IF s.stream = "open" THEN SendUnwatchRequest(left, id) ELSE left
<1>1. /\ s \in SyncRec /\ s.nextId \in Nat \ {0} /\ s.listening \in Partial(Listening)
      /\ s.requests \in Seq(Asking) /\ Good(s, keys) /\ ~s.broken
  BY DEF Sound, Good, SyncRec
<1>2. id \in 0..s.nextId - 1 /\ id \in Nat /\ ~s.idle /\ s.stream \in {"starting", "open"}
  BY <1>1 DEF Good, Ids, Conn, SyncRec
<1>3. rest \in Partial(Listening) /\ \A i : i \in DOMAIN rest <=> i \in DOMAIN s.listening /\ i # id
  <2>1. rest \in Partial(Listening)
    BY <1>1, WithoutType
  <2> QED BY <2>1 DEF Without
<1> HIDE DEF rest
<1>4. /\ left \in SyncRec /\ left.listening = rest /\ ~left.broken
      /\ left.stream = s.stream /\ left.idle = s.idle /\ left.states = s.states
      /\ left.updates = s.updates /\ left.mismatch = s.mismatch /\ left.requests = s.requests
      /\ left.online = s.online /\ left.failed = s.failed /\ left.timer = s.timer
      /\ left.resolving = s.resolving /\ left.enqueued = s.enqueued
      /\ left.nextId = s.nextId
  BY <1>1, <1>3 DEF SyncRec
<1>5. t = CASE DOMAIN left.listening # {} -> told
            [] DOMAIN left.listening = {} /\ s.stream = "open" -> [told EXCEPT !.idle = TRUE]
            [] OTHER -> UpdateState(told, "unknown")
  BY DEF StopListening, rest
<1>6. Ids(left) /\ Lookups(left) /\ Received(left) /\ Held(left, keys)
  BY <1>1, <1>3, <1>4 DEF Good, Ids, Lookups, Resolving, Received, Held
<1>7. exact => Awaited(left, q)
  BY <1>4 DEF Sound, Exact, Awaited, StateOf
<1>8. exact => \A i \in Nat \ DOMAIN left.listening : i # id => LetGo(s.requests, q, i)
  BY <1>3, <1>4 DEF Sound, Exact
<1>9. /\ left.timer => left.online = "unknown" /\ ~left.failed
      /\ left.failed => left.online = "offline"
  BY <1>1, <1>4 DEF Good, Conn
<1>10. CASE s.stream = "open"
  <2> DEFINE r == [op |-> "unwatch", id |-> id, target |-> Query, token |-> 0]
  <2>1. told = Request(left, id, r)
    BY <1>10 DEF SendUnwatchRequest
  <2>2. r \in Asking /\ r.id = id /\ r.op = "unwatch"
    BY <1>2, BoundsAssumption DEF Asking, Version
  <2> HIDE DEF r, left
  <2>3. Good(told, keys)
    BY <1>2, <1>4, <1>6, <1>9, <1>10, <2>1, <2>2, RequestGood
  <2>4. told \in SyncRec /\ Requested(left, told, id, r)
    BY <1>2, <1>4, <2>1, <2>2, RequestIs
  <2>5. exact => Awaited(told, q)
    <3>1. \A i \in Nat : Answered(q, i) \in Nat
      BY AnsweredIs
    <3> QED BY <1>2, <1>4, <1>7, <2>1, <2>2, <3>1, RequestAwaited
  <2>6. told.requests = Append(s.requests, r)
    BY <1>4, <2>4 DEF Requested
  <2>7. exact => \A i \in Nat \ DOMAIN left.listening : LetGo(told.requests, q, i)
    <3>1. LetGo(Append(s.requests, r), q, id)
      BY <1>1, <2>2, LetGoUnwatch
    <3>2. ASSUME exact, NEW i \in Nat \ DOMAIN left.listening, i # id
          PROVE  LetGo(Append(s.requests, r), q, i)
      BY <1>1, <1>8, <2>2, <3>2, LetGoAppend
    <3> QED BY <2>6, <3>1, <3>2
  <2>8. /\ t \in SyncRec /\ t.requests = told.requests /\ t.listening = told.listening
        /\ t.states = told.states /\ t.stream = told.stream /\ t.resolving = told.resolving
        /\ t.enqueued = told.enqueued /\ t.nextId = told.nextId /\ t.broken = told.broken
        /\ t.timer = told.timer /\ t.failed = told.failed /\ t.online = told.online
        /\ (t.idle => told.idle \/ DOMAIN left.listening = {})
    <3> HIDE DEF told, t
    <3>1. t = IF DOMAIN left.listening # {} THEN told ELSE [told EXCEPT !.idle = TRUE]
      BY <1>5, <1>10
    <3> QED BY <2>4, <3>1 DEF SyncRec
  <2> HIDE DEF t, told
  <2>9. /\ told.listening = rest /\ told.stream = "open" /\ told.resolving = s.resolving
        /\ told.enqueued = s.enqueued /\ told.nextId = s.nextId
    BY <1>4, <1>10, <2>4 DEF Requested
  <2>10. Good(t, keys)
    <3>1. Conn(t)
      BY <1>4, <2>3, <2>8, <2>9 DEF Good, Conn
    <3> QED BY <2>3, <2>8, <3>1 DEF Good, Ids, Lookups, Resolving, Received, Held
  <2>11. exact => Exact(t, q)
    BY <1>4, <2>5, <2>7, <2>8, <2>9 DEF Exact, Awaited, StateOf
  <2>12. Stopped(s, t, id)
    BY <1>3, <1>10, <2>8, <2>9 DEF Stopped, Kept
  <2> QED BY <2>8, <2>9, <2>10, <2>11, <2>12 DEF Sound, t
<1>11. CASE s.stream = "starting"
  <2>1. told = left
    BY <1>11
  <2> HIDE DEF told, left, t
  <2>2. t = IF DOMAIN left.listening # {} THEN left ELSE UpdateState(left, "unknown")
    BY <1>5, <1>11, <2>1
  <2>3. UpdateState(left, "unknown") =
           [left EXCEPT !.online = "unknown", !.failed = FALSE, !.timer = FALSE]
    BY DEF UpdateState
  <2>4. /\ t \in SyncRec /\ t.requests = s.requests /\ t.listening = rest
        /\ t.states = s.states /\ t.stream = s.stream /\ t.resolving = s.resolving
        /\ t.enqueued = s.enqueued /\ t.nextId = s.nextId /\ ~t.broken /\ ~t.idle
        /\ (t.timer => t.online = "unknown" /\ ~t.failed) /\ (t.failed => t.online = "offline")
    BY <1>2, <1>4, <1>9, <2>2, <2>3 DEF SyncRec
  <2>5. t.requests = << >> /\ q = << >> /\ DOMAIN t.states = {}
    BY <1>1, <1>11, <2>4 DEF Sound, Good, Conn
  <2>6. Conn(t)
    BY <1>11, <2>4, <2>5 DEF Conn
  <2>7. Good(t, keys)
    BY <1>4, <1>6, <2>4, <2>6 DEF Good, Ids, Lookups, Resolving, Received, Held
  <2>8. exact => Exact(t, q)
    <3>1. \A i : LetGo(t.requests, q, i)
      BY <2>5, LetGoNone
    <3> QED BY <1>4, <1>7, <2>4, <3>1 DEF Exact, Awaited, StateOf
  <2>9. Stopped(s, t, id)
    BY <1>3, <2>4 DEF Stopped, Kept
  <2> QED BY <2>5, <2>7, <2>8, <2>9 DEF Sound, t
<1> QED BY <1>2, <1>10, <1>11

\* Ids are given out one after the other, and a stream that is there stays.
Onward(s, t) ==
    t.nextId \in Nat /\ s.nextId <= t.nextId /\ (s.stream # "off" => t.stream = s.stream)

\* What is listened to: the lookups, and the query or not.
Backed(s, Q) == DOMAIN s.listening = DOMAIN s.resolving \cup Q

\* Identifiers only grow, in one step as in two.
LEMMA OnwardTwice ==
    ASSUME NEW s, s.nextId \in Nat, NEW t, NEW u, Onward(s, t), Onward(t, u)
    PROVE  Onward(s, u)
BY DEF Onward

\* A sound client is well typed.
LEMMA SoundType ==
    ASSUME NEW s, NEW keys, NEW q, NEW exact, Sound(s, keys, q, exact)
    PROVE  s \in SyncRec /\ s.nextId \in Nat \ {0}
BY DEF Sound, Good, SyncRec

\* The lookups enqueued are others.
Requeued(s, t, more) ==
    /\ t.enqueued = more /\ t.resolving = s.resolving /\ t.listening = s.listening
    /\ t.nextId = s.nextId /\ t.stream = s.stream

\* Keys that are not looked up may be enqueued.
LEMMA EnqueuedSound ==
    ASSUME NEW s, NEW keys, NEW q, NEW exact, Sound(s, keys, q, exact),
           NEW more \in Seq(Doc), IsInj(more), Resolving(s) \cap Range(more) = {}
    PROVE  /\ Sound([s EXCEPT !.enqueued = more], keys, q, exact)
           /\ Requeued(s, [s EXCEPT !.enqueued = more], more)
<1> DEFINE t == [s EXCEPT !.enqueued = more]
<1>1. s \in SyncRec
  BY DEF Sound, Good
<1>2. /\ t \in SyncRec /\ t.enqueued = more
      /\ t.stream = s.stream /\ t.idle = s.idle /\ t.states = s.states
      /\ t.updates = s.updates /\ t.mismatch = s.mismatch /\ t.requests = s.requests
      /\ t.online = s.online /\ t.failed = s.failed /\ t.timer = s.timer
      /\ t.resolving = s.resolving /\ t.listening = s.listening
      /\ t.nextId = s.nextId /\ t.broken = s.broken
  BY <1>1 DEF SyncRec
<1> HIDE DEF t
<1>3. Conn(t) /\ Ids(t) /\ Received(t) /\ Held(t, keys)
  BY <1>2 DEF Sound, Good, Conn, Ids, Received, Held
<1>4. Lookups(t)
  BY <1>2 DEF Sound, Good, Lookups, Resolving
<1>5. Good(t, keys)
  BY <1>2, <1>3, <1>4 DEF Sound, Good
<1>6. exact => Exact(t, q)
  BY <1>2 DEF Sound, Exact, Awaited, StateOf
<1>7. Requeued(s, t, more)
  BY <1>2 DEF Requeued
<1> QED BY <1>2, <1>5, <1>6, <1>7 DEF Sound, t

\* A lookup is forgotten.
Forgot(s, t, id) ==
    /\ t.resolving = Without(s.resolving, id) /\ t.enqueued = s.enqueued
    /\ t.listening = s.listening /\ t.nextId = s.nextId /\ t.stream = s.stream

\* A lookup may be forgotten.
LEMMA ForgetSound ==
    ASSUME NEW s, NEW keys, NEW q, NEW exact, Sound(s, keys, q, exact), NEW id
    PROVE  /\ Sound([s EXCEPT !.resolving = Without(@, id)], keys, q, exact)
           /\ Forgot(s, [s EXCEPT !.resolving = Without(@, id)], id)
<1> DEFINE rest == Without(s.resolving, id)
           t == [s EXCEPT !.resolving = rest]
<1>1. s \in SyncRec /\ s.resolving \in Partial(Lookup)
  BY DEF Sound, Good, SyncRec
<1>2. rest \in Partial(Lookup)
  BY <1>1, WithoutType
<1>3. DOMAIN rest \subseteq DOMAIN s.resolving /\ \A i \in DOMAIN rest : rest[i] = s.resolving[i]
  BY DEF Without
<1> HIDE DEF rest
<1>4. /\ t \in SyncRec /\ t.resolving = rest
      /\ t.stream = s.stream /\ t.idle = s.idle /\ t.states = s.states
      /\ t.updates = s.updates /\ t.mismatch = s.mismatch /\ t.requests = s.requests
      /\ t.online = s.online /\ t.failed = s.failed /\ t.timer = s.timer
      /\ t.enqueued = s.enqueued /\ t.listening = s.listening
      /\ t.nextId = s.nextId /\ t.broken = s.broken
  BY <1>1, <1>2 DEF SyncRec
<1> HIDE DEF t
<1>5. Conn(t) /\ Ids(t) /\ Received(t) /\ Held(t, keys)
  BY <1>3, <1>4 DEF Sound, Good, Conn, Ids, Received, Held
<1>6. Lookups(t)
  <2>1. IsFiniteSet(DOMAIN s.resolving) /\ Cardinality(DOMAIN s.resolving) <= MaxResolutions
    BY DEF Sound, Good, Lookups
  <2>2. /\ IsFiniteSet(DOMAIN rest) /\ Cardinality(DOMAIN rest) <= Cardinality(DOMAIN s.resolving)
        /\ Cardinality(DOMAIN rest) \in Nat /\ Cardinality(DOMAIN s.resolving) \in Nat
    BY <1>3, <2>1, FS_Subset, FS_CardinalityType
  <2>3. IsFiniteSet(DOMAIN rest) /\ Cardinality(DOMAIN rest) <= MaxResolutions
    BY <2>1, <2>2, BoundsAssumption
  <2>4. Resolving(t) \subseteq Resolving(s)
    BY <1>3, <1>4 DEF Resolving
  <2> QED BY <1>3, <1>4, <2>3, <2>4 DEF Sound, Good, Lookups
<1>7. Good(t, keys)
  BY <1>4, <1>5, <1>6 DEF Sound, Good
<1>8. exact => Exact(t, q)
  BY <1>4 DEF Sound, Exact, Awaited, StateOf
<1>9. Forgot(s, t, id)
  BY <1>4 DEF Forgot, rest
<1>10. t = [s EXCEPT !.resolving = Without(@, id)]
  BY <1>1 DEF t, rest, SyncRec
<1> QED BY <1>4, <1>7, <1>8, <1>9, <1>10 DEF Sound

\* A document is looked up, with an id of its own.
Started(s, t, key, Q) ==
    /\ Onward(s, t)
    /\ Backed(t, Q) /\ t.enqueued = s.enqueued
    /\ Resolving(t) = Resolving(s) \cup {key}
    /\ Cardinality(DOMAIN t.resolving) = Cardinality(DOMAIN s.resolving) + 1

\* A lookup of a new key takes a new identifier and is listened to.
LEMMA StartResolutionSound ==
    ASSUME NEW s, NEW keys, NEW q \in Seq(Response), NEW exact, Sound(s, keys, q, exact),
           NEW key \in Doc, key \notin Looked(s), NEW Q, Backed(s, Q),
           Cardinality(DOMAIN s.resolving) < MaxResolutions
    PROVE  /\ Sound(StartResolution(s, key), keys, q, exact)
           /\ Started(s, StartResolution(s, key), key, Q)
<1> DEFINE n == s.nextId
           lookup == [key |-> key, received |-> FALSE]
           more == With(s.resolving, n, lookup)
           u == [s EXCEPT !.nextId = @ + 1, !.resolving = more]
           t == StartResolution(s, key)
<1>1. /\ s \in SyncRec /\ s.resolving \in Partial(Lookup) /\ n \in Nat \ {0} /\ Good(s, keys)
      /\ lookup \in Lookup
  BY DEF Sound, Good, SyncRec, Lookup
<1>2. more \in Partial(Lookup) /\ n + 1 \in Nat \ {0}
  BY <1>1, WithType
<1>3. n \notin DOMAIN s.resolving /\ n \notin DOMAIN s.states
  BY <1>1 DEF Good, Ids
<1>4. /\ \A i : i \in DOMAIN more <=> i \in DOMAIN s.resolving \/ i = n
      /\ more[n] = lookup /\ \A i \in DOMAIN s.resolving : more[i] = s.resolving[i]
  BY <1>3 DEF With
<1>5. lookup.key = key
  OBVIOUS
<1> HIDE DEF more, lookup
<1>22. u = [s EXCEPT !.nextId = n + 1, !.resolving = more]
  BY <1>1 DEF SyncRec
<1> HIDE DEF u, n
<1>6. /\ u \in SyncRec /\ u.resolving = more /\ u.nextId = n + 1
      /\ u.stream = s.stream /\ u.idle = s.idle /\ u.states = s.states
      /\ u.updates = s.updates /\ u.mismatch = s.mismatch /\ u.requests = s.requests
      /\ u.online = s.online /\ u.failed = s.failed /\ u.timer = s.timer
      /\ u.enqueued = s.enqueued /\ u.listening = s.listening
      /\ u.broken = s.broken
  BY <1>1, <1>2, <1>22 DEF SyncRec
<1>7. Conn(u) /\ Held(u, keys) /\ Received(u)
  BY <1>1, <1>3, <1>4, <1>6 DEF Good, Conn, Held, Received
<1>8. Ids(u)
  <2>1. /\ \A i \in 1..n - 1 : i \in 1..(n + 1) - 1
        /\ \A i \in 0..n - 1 : i \in 0..(n + 1) - 1
        /\ n \in 1..(n + 1) - 1
    BY <1>1
  <2>2. /\ DOMAIN s.resolving \subseteq 1..n - 1 /\ DOMAIN s.listening \subseteq 0..n - 1
        /\ DOMAIN s.states \subseteq 0..n - 1
        /\ \A i \in DOMAIN s.requests : s.requests[i].id \in 0..n - 1
    BY <1>1 DEF Good, Ids, n
  <2> QED BY <1>4, <1>6, <2>1, <2>2 DEF Ids
<1>9. Resolving(u) = Resolving(s) \cup {key}
  BY <1>4, <1>5, <1>6 DEF Resolving
<1>10. /\ IsFiniteSet(DOMAIN more)
       /\ Cardinality(DOMAIN more) = Cardinality(DOMAIN s.resolving) + 1
       /\ Cardinality(DOMAIN s.resolving) \in Nat
  <2>1. IsFiniteSet(DOMAIN s.resolving)
    BY <1>1 DEF Good, Lookups
  <2>2. DOMAIN more = DOMAIN s.resolving \cup {n}
    BY <1>4
  <2> QED BY <1>3, <2>1, <2>2, FS_AddElement, FS_CardinalityType
<1>11. Lookups(u)
  <2>1. Cardinality(DOMAIN more) <= MaxResolutions
    BY <1>10, BoundsAssumption
  <2>2. key \notin Resolving(s) /\ key \notin Range(s.enqueued)
    BY DEF Looked
  <2>3. \A i \in DOMAIN s.resolving : s.resolving[i].key # key
    BY <2>2 DEF Resolving
  <2>4. \A i, j \in DOMAIN more : more[i].key = more[j].key => i = j
    BY <1>1, <1>4, <1>5, <2>3 DEF Good, Lookups
  <2> QED BY <1>1, <1>6, <1>9, <1>10, <2>1, <2>2, <2>4 DEF Good, Lookups
<1>12. Good(u, keys)
  BY <1>1, <1>6, <1>7, <1>8, <1>11 DEF Good
<1>13. Sound(u, keys, q, exact)
  <2>1. exact => Exact(u, q)
    BY <1>6 DEF Sound, Exact, Awaited, StateOf
  <2> QED BY <1>6, <1>12, <2>1 DEF Sound
<1>14. n \in 0..u.nextId - 1 /\ key \in {Query} \cup Doc /\ 0 \in Version
  BY <1>1, <1>6, BoundsAssumption DEF Version
<1>15. t = Listen(u, n, key, 0)
  BY DEF StartResolution, u, n, more, lookup
<1> HIDE DEF t
<1>16. Sound(t, keys, q, exact) /\ Listened(u, t, n)
  BY <1>13, <1>14, <1>15, ListenSound
<1>17. DOMAIN t.listening = DOMAIN s.listening \cup {n}
  BY <1>6, <1>16 DEF Listened
<1>18. t.resolving = more /\ t.enqueued = s.enqueued /\ t.nextId = n + 1
       /\ (s.stream # "off" => t.stream = s.stream)
  BY <1>6, <1>16 DEF Listened, Kept
<1>19. Resolving(t) = Resolving(s) \cup {key}
  <2>1. t.resolving = u.resolving
    BY <1>6, <1>18
  <2>2. Resolving(t) = Resolving(u)
    BY <2>1 DEF Resolving
  <2> QED BY <1>9, <2>2
<1>20. Backed(t, Q)
  BY <1>4, <1>17, <1>18 DEF Backed
<1>21. Onward(s, t)
  BY <1>1, <1>18 DEF Onward, n
<1> QED BY <1>10, <1>16, <1>18, <1>19, <1>20, <1>21 DEF Started, t

\* What is looked up or enqueued is changed to wanted.
Tracked(s, t, Q, wanted) == Onward(s, t) /\ Backed(t, Q) /\ Looked(t) = wanted

\* What is tracked in two steps is tracked.
LEMMA TrackedTwice ==
    ASSUME NEW s, s.nextId \in Nat, NEW t, NEW u, NEW Q, NEW wanted, NEW more,
           Tracked(s, t, Q, wanted), Tracked(t, u, Q, more)
    PROVE  Tracked(s, u, Q, more)
BY OnwardTwice DEF Tracked

\* The lesser of two numbers is one of them.
LEMMA MinOfTwo ==
    ASSUME NEW a \in Nat, NEW b \in Nat
    PROVE  Min({a, b}) \in Nat /\ Min({a, b}) <= a /\ Min({a, b}) <= b
<1>1. \E x \in {a, b} : \A y \in {a, b} : x <= y
  <2>1. CASE a <= b
    BY <2>1
  <2>2. CASE b <= a
    BY <2>2
  <2> QED BY <2>1, <2>2
<1>2. Min({a, b}) \in {a, b} /\ \A y \in {a, b} : Min({a, b}) <= y
  BY <1>1 DEF Min
<1> QED BY <1>2

\* As many as may be are taken off the queue, in order.
LEMMA PumpSound ==
    ASSUME NEW s, NEW keys, NEW q \in Seq(Response), NEW exact, Sound(s, keys, q, exact),
           NEW Q, Backed(s, Q)
    PROVE  Sound(Pump(s), keys, q, exact) /\ Tracked(s, Pump(s), Q, Looked(s))
<1> DEFINE m == Len(s.enqueued)
           c == Cardinality(DOMAIN s.resolving)
           n == Min({m, MaxResolutions - c})
           first == SubSeq(s.enqueued, 1, n)
           rest == SubSeq(s.enqueued, n + 1, m)
           base == [s EXCEPT !.enqueued = rest]
           t == Pump(s)
<1>1. /\ s \in SyncRec /\ s.nextId \in Nat /\ s.enqueued \in Seq(Doc)
  BY DEF Sound, Good, SyncRec
<1>2. /\ IsInj(s.enqueued) /\ Resolving(s) \cap Range(s.enqueued) = {}
      /\ IsFiniteSet(DOMAIN s.resolving) /\ c <= MaxResolutions
  BY DEF Sound, Good, Lookups
<1>3. m \in Nat /\ c \in Nat /\ MaxResolutions \in Nat /\ MaxResolutions - c \in Nat
  BY <1>1, <1>2, SeqFacts, FS_CardinalityType, BoundsAssumption
<1>4. n \in Nat /\ n <= m /\ n <= MaxResolutions - c
  <2> HIDE DEF m, c
  <2> QED BY <1>3, MinOfTwo
<1>5. t = FoldLeft(StartResolution, base, first)
  BY <1>1 DEF Pump, SyncRec
<1> HIDE DEF n, t, c
<1>6. /\ DOMAIN s.enqueued = 1..m /\ \A i \in 1..m : s.enqueued[i] \in Doc
  BY <1>1, SeqFacts
<1>7. /\ first \in Seq(Doc) /\ Len(first) = n /\ DOMAIN first = 1..n
      /\ \A i \in 1..n : first[i] = s.enqueued[i]
  <2>1. 1 \in 1..m + 1 /\ n \in 0..m /\ 1 <= n + 1 /\ n - 1 + 1 = n
    BY <1>3, <1>4
  <2>2. \A i \in 1..n : i + 1 - 1 = i
    BY <1>4
  <2> HIDE DEF m
  <2>3. /\ SubSeq(s.enqueued, 1, n) \in Seq(Doc) /\ Len(SubSeq(s.enqueued, 1, n)) = n - 1 + 1
        /\ DOMAIN SubSeq(s.enqueued, 1, n) = 1..n - 1 + 1
        /\ \A i \in 1..n - 1 + 1 : SubSeq(s.enqueued, 1, n)[i] = s.enqueued[i + 1 - 1]
    BY <1>1, <2>1, SubSeqFacts DEF m
  <2> QED BY <2>1, <2>2, <2>3
<1>8. /\ rest \in Seq(Doc) /\ DOMAIN rest = 1..m - n
      /\ \A i \in 1..m - n : rest[i] = s.enqueued[i + n] /\ i + n \in n + 1..m
  <2>1. n + 1 \in 1..m + 1 /\ m \in 0..m /\ n + 1 <= m + 1 /\ m - (n + 1) + 1 = m - n
    BY <1>3, <1>4
  <2>2. \A i \in 1..m - n : i + (n + 1) - 1 = i + n /\ i + n \in n + 1..m
    BY <1>3, <1>4
  <2>3. /\ rest \in Seq(Doc) /\ DOMAIN rest = 1..m - (n + 1) + 1
        /\ \A i \in 1..m - (n + 1) + 1 : rest[i] = s.enqueued[i + (n + 1) - 1]
    BY <1>1, <2>1, SubSeqFacts
  <2> HIDE DEF rest
  <2> QED BY <2>1, <2>2, <2>3
<1>19. \A i, j \in 1..m : s.enqueued[i] = s.enqueued[j] => i = j
  BY <1>2, <1>6 DEF IsInj
<1>20. \A x : x \in Range(s.enqueued) <=> \E i \in 1..m : x = s.enqueued[i]
  BY <1>6 DEF Range
<1> HIDE DEF first, rest, m
<1>9. /\ \A i \in 1..n : i \in 1..m /\ i \notin n + 1..m
      /\ \A i \in n + 1..m : i \in 1..m /\ \E j \in 1..m - n : i = j + n
      /\ \A i \in 1..m : i \in 1..n \/ i \in n + 1..m
  <2>1. \A i \in n + 1..m : i - n \in 1..m - n /\ i = (i - n) + n
    BY <1>3, <1>4
  <2> QED BY <1>3, <1>4, <2>1
<1>10. IsInj(rest)
  <2>1. ASSUME NEW i \in 1..m - n, NEW j \in 1..m - n, rest[i] = rest[j] PROVE i = j
    <3>1. i + n \in 1..m /\ j + n \in 1..m
      BY <1>8, <1>9
    <3>2. s.enqueued[i + n] = s.enqueued[j + n]
      BY <1>8, <2>1
    <3>3. i + n = j + n
      BY <1>19, <3>1, <3>2
    <3> QED BY <1>3, <1>4, <3>3
  <2> QED BY <1>8, <2>1 DEF IsInj
<1>11. Range(rest) \subseteq Range(s.enqueued)
  BY <1>8, <1>9, <1>20 DEF Range
<1>12. Sound(base, keys, q, exact) /\ Requeued(s, base, rest)
  BY <1>2, <1>8, <1>10, <1>11, EnqueuedSound
<1>13. PICK after :
          /\ after[0] = base
          /\ \A k \in 1..n : after[k] = StartResolution(after[k - 1], first[k])
          /\ t = after[n]
  <2> HIDE DEF base
  <2>1. Len(first) \in Nat /\ DOMAIN first = 1..Len(first)
    BY <1>4, <1>7
  <2>2. \E after :
           /\ after[0] = base
           /\ \A k \in 1..Len(first) : after[k] = StartResolution(after[k - 1], first[k])
           /\ FoldLeft(StartResolution, base, first) = after[Len(first)]
    BY <2>1, StartsOneByOne
  <2> QED BY <1>5, <1>7, <2>2
<1> HIDE DEF base
<1> DEFINE S == {k \in 0..n :
                   /\ Sound(after[k], keys, q, exact)
                   /\ Onward(s, after[k]) /\ Backed(after[k], Q)
                   /\ after[k].enqueued = rest
                   /\ Resolving(after[k]) = Resolving(s) \cup {first[i] : i \in 1..k}
                   /\ Cardinality(DOMAIN after[k].resolving) = c + k}
<1>14. 0 \in S
  <2>1. Resolving(base) = Resolving(s)
    BY <1>12 DEF Requeued, Resolving
  <2>2. {first[i] : i \in 1..0} = {}
    OBVIOUS
  <2>3. Cardinality(DOMAIN base.resolving) = c + 0
    BY <1>3, <1>12 DEF Requeued, c
  <2>4. Onward(s, base) /\ Backed(base, Q) /\ base.enqueued = rest
    BY <1>1, <1>12 DEF Requeued, Onward, Backed
  <2> QED BY <1>4, <1>12, <1>13, <2>1, <2>2, <2>3, <2>4
<1>15. ASSUME NEW k \in 0..n - 1, k \in S PROVE k + 1 \in S
  <2>1. k + 1 \in 1..n /\ k + 1 \in 0..n /\ (k + 1) - 1 = k /\ k \in Nat
    BY <1>4
  <2> DEFINE u == after[k]
             v == after[k + 1]
             key == first[k + 1]
  <2>2. v = StartResolution(u, key)
    BY <1>13, <2>1
  <2>3. /\ Sound(u, keys, q, exact) /\ Onward(s, u) /\ Backed(u, Q)
        /\ u.enqueued = rest
        /\ Resolving(u) = Resolving(s) \cup {first[i] : i \in 1..k}
        /\ Cardinality(DOMAIN u.resolving) = c + k
    BY <1>15
  <2> HIDE DEF u, v
  <2>4. key = s.enqueued[k + 1] /\ key \in Doc /\ k + 1 \in 1..m
    BY <1>6, <1>7, <1>9, <2>1
  <2>5. key \notin Resolving(u)
    <3>1. key \notin Resolving(s)
      BY <1>2, <1>20, <2>4
    <3>2. ASSUME NEW i \in 1..k PROVE first[i] # key
      <4>1. i \in 1..n /\ i # k + 1 /\ i \in 1..m
        BY <1>3, <1>4, <2>1
      <4> QED BY <1>7, <1>19, <2>4, <4>1
    <3> HIDE DEF key
    <3> QED BY <2>3, <3>1, <3>2
  <2>6. key \notin Range(rest)
    <3>1. ASSUME NEW i \in 1..m - n PROVE rest[i] # key
      <4>1. i + n \in 1..m /\ i + n # k + 1
        BY <1>3, <1>4, <1>8, <1>9, <2>1
      <4> QED BY <1>8, <1>19, <2>4, <4>1
    <3> QED BY <1>8, <3>1 DEF Range
  <2>7. key \notin Looked(u)
    BY <2>3, <2>5, <2>6 DEF Looked
  <2>8. Cardinality(DOMAIN u.resolving) < MaxResolutions
    BY <1>3, <1>4, <2>1, <2>3
  <2> HIDE DEF key
  <2>9. Sound(v, keys, q, exact) /\ Started(u, v, key, Q)
    BY <2>2, <2>3, <2>4, <2>7, <2>8, StartResolutionSound
  <2>10. Onward(s, v)
    BY <1>1, <2>3, <2>9, OnwardTwice DEF Started
  <2>11. Resolving(v) = Resolving(s) \cup {first[i] : i \in 1..k + 1}
    <3>1. {first[i] : i \in 1..k + 1} = {first[i] : i \in 1..k} \cup {first[k + 1]}
      <4>1. \A i : i \in 1..k + 1 <=> i \in 1..k \/ i = k + 1
        BY <2>1
      <4> QED BY <4>1
    <3>2. Resolving(v) = Resolving(u) \cup {key}
      BY <2>9 DEF Started
    <3> QED BY <2>3, <3>1, <3>2 DEF key
  <2>12. Cardinality(DOMAIN v.resolving) = c + (k + 1)
    BY <1>3, <2>1, <2>3, <2>9 DEF Started
  <2>13. Backed(v, Q) /\ v.enqueued = rest
    BY <2>3, <2>9 DEF Started
  <2> QED BY <2>1, <2>9, <2>10, <2>11, <2>12, <2>13 DEF v
<1> HIDE DEF S
<1>16. n \in S
  <2>1. \A k \in 0..n : k \in S
    BY <1>4, <1>14, <1>15, Climb
  <2> QED BY <1>4, <2>1
<1>17. /\ Sound(t, keys, q, exact) /\ Onward(s, t) /\ Backed(t, Q) /\ t.enqueued = rest
       /\ Resolving(t) = Resolving(s) \cup {first[i] : i \in 1..n}
  BY <1>13, <1>16 DEF S
<1>18. Looked(t) = Looked(s)
  <2>1. Range(s.enqueued) = {first[i] : i \in 1..n} \cup Range(rest)
    <3>1. ASSUME NEW x \in Range(s.enqueued) PROVE x \in {first[i] : i \in 1..n} \/ x \in Range(rest)
      <4>1. PICK i \in 1..m : x = s.enqueued[i]
        BY <1>20
      <4>2. CASE i \in 1..n
        BY <1>7, <4>1, <4>2
      <4>3. CASE i \in n + 1..m
        <5>1. PICK j \in 1..m - n : i = j + n
          BY <1>9, <4>3
        <5>2. x = rest[j] /\ j \in DOMAIN rest
          BY <1>8, <4>1, <5>1
        <5> QED BY <5>2 DEF Range
      <4> QED BY <1>9, <4>2, <4>3
    <3>2. {first[i] : i \in 1..n} \subseteq Range(s.enqueued)
      BY <1>7, <1>9, <1>20
    <3> QED BY <1>11, <3>1, <3>2
  <2> QED BY <1>17, <2>1 DEF Looked
<1> QED BY <1>17, <1>18 DEF Tracked, t

\* SyncEngine::TrackLimboChange.
LEMMA TrackSound ==
    ASSUME NEW s, NEW keys, NEW q \in Seq(Response), NEW exact, Sound(s, keys, q, exact),
           NEW Q, Backed(s, Q), NEW key \in Doc
    PROVE  /\ Sound(TrackLimboChange(s, key), keys, q, exact)
           /\ Tracked(s, TrackLimboChange(s, key), Q, Looked(s) \cup {key})
<1>1. s.nextId \in Nat /\ s.enqueued \in Seq(Doc) /\ s \in SyncRec
  BY DEF Sound, Good, SyncRec
<1>2. CASE key \in Looked(s)
  <2>1. TrackLimboChange(s, key) = s
    BY <1>2 DEF TrackLimboChange, Looked
  <2>2. Looked(s) \cup {key} = Looked(s)
    BY <1>2
  <2> QED BY <1>1, <2>1, <2>2 DEF Tracked, Onward
<1>3. CASE key \notin Looked(s)
  <2> DEFINE more == Append(s.enqueued, key)
             t == [s EXCEPT !.enqueued = more]
  <2>1. TrackLimboChange(s, key) = Pump(t)
    BY <1>1, <1>3 DEF TrackLimboChange, Looked, SyncRec
  <2>2. /\ more \in Seq(Doc) /\ DOMAIN more = 1..Len(s.enqueued) + 1
        /\ DOMAIN s.enqueued = 1..Len(s.enqueued) /\ Len(s.enqueued) \in Nat
        /\ more[Len(s.enqueued) + 1] = key
        /\ \A i \in 1..Len(s.enqueued) : more[i] = s.enqueued[i]
    BY <1>1, AppendFacts, SeqFacts
  <2>3. \A i \in 1..Len(s.enqueued) + 1 : i \in 1..Len(s.enqueued) \/ i = Len(s.enqueued) + 1
    BY <2>2
  <2>4. /\ IsInj(s.enqueued) /\ Resolving(s) \cap Range(s.enqueued) = {}
    BY DEF Sound, Good, Lookups
  <2>5. key \notin Resolving(s) /\ \A i \in 1..Len(s.enqueued) : s.enqueued[i] # key
    BY <1>3, <2>2 DEF Looked, Range
  <2> HIDE DEF more
  <2>6. IsInj(more)
    BY <2>2, <2>3, <2>4, <2>5 DEF IsInj
  <2>7. Range(more) = Range(s.enqueued) \cup {key}
    <3>1. Len(s.enqueued) + 1 \in DOMAIN more
      BY <2>2
    <3>2. \A i \in 1..Len(s.enqueued) : i \in DOMAIN more
      BY <2>2
    <3> QED BY <2>2, <2>3, <3>1, <3>2 DEF Range
  <2>8. Sound(t, keys, q, exact) /\ Requeued(s, t, more)
    BY <2>2, <2>4, <2>5, <2>6, <2>7, EnqueuedSound
  <2> HIDE DEF t
  <2>9. Resolving(t) = Resolving(s)
    BY <2>8 DEF Requeued, Resolving
  <2>10. Looked(t) = Looked(s) \cup {key}
    BY <2>7, <2>8, <2>9 DEF Requeued, Looked
  <2>11. Backed(t, Q) /\ Onward(s, t)
    BY <1>1, <2>8 DEF Requeued, Backed, Onward
  <2>12. Sound(Pump(t), keys, q, exact) /\ Tracked(t, Pump(t), Q, Looked(t))
    BY <2>8, <2>11, PumpSound
  <2>13. Onward(s, Pump(t))
    BY <1>1, <2>11, <2>12, OnwardTwice DEF Tracked
  <2> QED BY <2>1, <2>10, <2>12, <2>13 DEF Tracked
<1> QED BY <1>2, <1>3

\* SyncEngine::RemoveLimboTarget.
LEMMA RemoveSound ==
    ASSUME NEW s, NEW keys, NEW q \in Seq(Response), NEW exact, Sound(s, keys, q, exact),
           NEW Q \in SUBSET {Query}, Backed(s, Q), NEW key
    PROVE  /\ Sound(RemoveLimboTarget(s, key), keys, q, exact)
           /\ Tracked(s, RemoveLimboTarget(s, key), Q, Looked(s) \ {key})
<1> DEFINE less == RemoveFirst(s.enqueued, key)
           d == [s EXCEPT !.enqueued = less]
           ids == {id \in DOMAIN s.resolving : s.resolving[id].key = key}
           id == CHOOSE i \in ids : TRUE
           u == StopListening(d, id)
           v == [u EXCEPT !.resolving = Without(@, id)]
           t == RemoveLimboTarget(s, key)
<1>1. s.nextId \in Nat /\ s.enqueued \in Seq(Doc) /\ s \in SyncRec
  BY DEF Sound, Good, SyncRec
<1>2. /\ IsInj(s.enqueued) /\ Resolving(s) \cap Range(s.enqueued) = {}
      /\ \A i, j \in DOMAIN s.resolving : s.resolving[i].key = s.resolving[j].key => i = j
      /\ DOMAIN s.resolving \subseteq 1..s.nextId - 1
  BY DEF Sound, Good, Lookups, Ids
<1>3. less \in Seq(Doc) /\ IsInj(less) /\ Range(less) = Range(s.enqueued) \ {key}
  BY <1>1, <1>2, RemoveFirstFacts
<1>4. t = IF ids = {} THEN d ELSE Pump(v)
  BY <1>1 DEF RemoveLimboTarget, SyncRec
<1> HIDE DEF less, t
<1>5. Sound(d, keys, q, exact) /\ Requeued(s, d, less)
  BY <1>2, <1>3, EnqueuedSound
<1> HIDE DEF d
<1>6. Resolving(d) = Resolving(s) /\ d.resolving = s.resolving
  BY <1>5 DEF Requeued, Resolving
<1>7. Backed(d, Q) /\ Onward(s, d)
  BY <1>1, <1>5 DEF Requeued, Backed, Onward
<1>8. CASE ids = {}
  <2>1. key \notin Resolving(s)
    BY <1>8 DEF Resolving
  <2>2. Looked(d) = Looked(s) \ {key}
    BY <1>3, <1>5, <1>6, <2>1 DEF Looked, Requeued
  <2>3. t = d
    BY <1>4, <1>8
  <2> QED BY <1>5, <1>7, <2>2, <2>3 DEF Tracked, t
<1>9. CASE ids # {}
  <2>1. id \in DOMAIN s.resolving /\ s.resolving[id].key = key
    BY <1>9
  <2>2. t = Pump(v)
    BY <1>4, <1>9
  <2> HIDE DEF ids, id
  <2>3. id \in DOMAIN d.listening /\ id \notin Q
    <3>1. id # Query
      BY <1>1, <1>2, <2>1 DEF Query
    <3> QED BY <1>6, <1>7, <2>1, <3>1 DEF Backed
  <2>4. Sound(u, keys, q, exact) /\ Stopped(d, u, id)
    BY <1>5, <2>3, StopListeningSound
  <2> HIDE DEF u
  <2>5. Sound(v, keys, q, exact) /\ Forgot(u, v, id)
    BY <2>4, ForgetSound
  <2> HIDE DEF v
  <2>6. v.resolving = Without(s.resolving, id) /\ v.enqueued = less
    BY <1>5, <1>6, <2>4, <2>5 DEF Forgot, Stopped, Kept, Requeued
  <2>7. Backed(v, Q)
    <3>1. DOMAIN v.listening = (DOMAIN s.resolving \cup Q) \ {id}
      BY <1>6, <1>7, <2>4, <2>5 DEF Forgot, Stopped, Backed
    <3>2. DOMAIN v.resolving = DOMAIN s.resolving \ {id}
      BY <2>6 DEF Without
    <3> QED BY <2>3, <3>1, <3>2 DEF Backed
  <2>8. Onward(d, v)
    <3>1. d.nextId \in Nat /\ d.stream # "off" => v.stream = d.stream
      BY <2>4, <2>5 DEF Forgot, Stopped, Kept
    <3>2. v.nextId = d.nextId /\ v.stream = d.stream
      BY <2>4, <2>5 DEF Forgot, Stopped, Kept
    <3>3. d.nextId \in Nat
      BY <1>5, SoundType
    <3> QED BY <3>2, <3>3 DEF Onward
  <2>9. Resolving(v) = Resolving(s) \ {key}
    <3>1. /\ \A i : i \in DOMAIN v.resolving <=> i \in DOMAIN s.resolving /\ i # id
          /\ \A i \in DOMAIN v.resolving : v.resolving[i] = s.resolving[i]
      BY <2>6 DEF Without
    <3> QED BY <1>2, <2>1, <3>1 DEF Resolving
  <2>10. Looked(v) = Looked(s) \ {key}
    BY <1>3, <2>6, <2>9 DEF Looked
  <2>11. Sound(Pump(v), keys, q, exact) /\ Tracked(v, Pump(v), Q, Looked(v))
    BY <2>5, <2>7, PumpSound
  <2>12. Onward(s, Pump(v))
    <3>1. Onward(s, v)
      BY <1>1, <1>7, <2>8, OnwardTwice
    <3> QED BY <1>1, <2>11, <3>1, OnwardTwice DEF Tracked
  <2> QED BY <2>2, <2>10, <2>11, <2>12 DEF Tracked, t
<1> QED BY <1>8, <1>9

\* SyncEngine::UpdateTrackedLimboDocuments.
LEMMA UpdateTrackedSound ==
    ASSUME NEW s, NEW keys, NEW q \in Seq(Response), NEW exact, Sound(s, keys, q, exact),
           NEW Q \in SUBSET {Query}, Backed(s, Q), NEW old \in SUBSET Doc, NEW new \in SUBSET Doc
    PROVE  /\ Sound(UpdateTrackedLimboDocuments(s, old, new), keys, q, exact)
           /\ Tracked(s, UpdateTrackedLimboDocuments(s, old, new), Q,
                      (Looked(s) \ (old \ new)) \cup (new \ old))
<1> DEFINE gone == old \ new
           came == new \ old
           lost == Sorted(gone)
           won == Sorted(came)
           t == FoldLeft(RemoveLimboTarget, s, lost)
           u == FoldLeft(TrackLimboChange, t, won)
<1>1. s.nextId \in Nat
  BY SoundType
<1>2. /\ Len(lost) \in Nat /\ DOMAIN lost = 1..Len(lost)
      /\ \A i \in 1..Len(lost) : lost[i] \in gone
      /\ \A x \in gone : \E i \in 1..Len(lost) : lost[i] = x
  <2>1. gone \in SUBSET Doc
    OBVIOUS
  <2> HIDE DEF gone
  <2>2. gone \in SUBSET Nat /\ IsFiniteSet(gone)
    BY <2>1, SortedDocs
  <2>3. /\ lost \in Seq(gone) /\ DOMAIN lost = 1..Cardinality(gone)
        /\ Len(lost) = Cardinality(gone) /\ Cardinality(gone) \in Nat
        /\ \A x \in gone : \E k \in DOMAIN lost : lost[k] = x
    BY <2>2, SortedFacts
  <2> HIDE DEF lost
  <2>4. \A k \in 1..Len(lost) : lost[k] \in gone
    BY <2>3, SeqFacts
  <2> QED BY <2>3, <2>4
<1>3. /\ Len(won) \in Nat /\ DOMAIN won = 1..Len(won)
      /\ \A i \in 1..Len(won) : won[i] \in came
      /\ \A x \in came : \E i \in 1..Len(won) : won[i] = x
  <2>1. came \in SUBSET Doc
    OBVIOUS
  <2> HIDE DEF came
  <2>2. came \in SUBSET Nat /\ IsFiniteSet(came)
    BY <2>1, SortedDocs
  <2>3. /\ won \in Seq(came) /\ DOMAIN won = 1..Cardinality(came)
        /\ Len(won) = Cardinality(came) /\ Cardinality(came) \in Nat
        /\ \A x \in came : \E k \in DOMAIN won : won[k] = x
    BY <2>2, SortedFacts
  <2> HIDE DEF won
  <2>4. \A k \in 1..Len(won) : won[k] \in came
    BY <2>3, SeqFacts
  <2> QED BY <2>3, <2>4
<1> HIDE DEF lost, won, gone, came
<1>4. Sound(t, keys, q, exact) /\ Tracked(s, t, Q, Looked(s) \ gone)
  <2>1. PICK after :
           /\ after[0] = s
           /\ \A n \in 1..Len(lost) : after[n] = RemoveLimboTarget(after[n - 1], lost[n])
           /\ t = after[Len(lost)]
    <3> HIDE DEF t
    <3>1. \E after :
             /\ after[0] = s
             /\ \A n \in 1..Len(lost) : after[n] = RemoveLimboTarget(after[n - 1], lost[n])
             /\ FoldLeft(RemoveLimboTarget, s, lost) = after[Len(lost)]
      <4>1. Len(lost) \in Nat /\ DOMAIN lost = 1..Len(lost)
        BY <1>2
      <4> QED BY <4>1, RemovesOneByOne
    <3> QED BY <3>1 DEF t
  <2> HIDE DEF t
  <2> DEFINE top == Len(lost)
             S == {k \in 0..top :
                     /\ Sound(after[k], keys, q, exact)
                     /\ Tracked(s, after[k], Q, Looked(s) \ {lost[i] : i \in 1..k})}
  <2> HIDE DEF top
  <2>2. 0 \in S
    <3>1. Looked(s) \ {lost[i] : i \in 1..0} = Looked(s)
      OBVIOUS
    <3> QED BY <1>1, <1>2, <2>1, <3>1 DEF Tracked, Onward, top
  <2>3. ASSUME NEW k \in 0..top - 1, k \in S PROVE k + 1 \in S
    <3> DEFINE a == after[k]
               b == after[k + 1]
               x == lost[k + 1]
    <3>1. k + 1 \in 1..top /\ k + 1 \in 0..top /\ (k + 1) - 1 = k /\ k \in Nat
      BY <1>2 DEF top
    <3>2. b = RemoveLimboTarget(a, x)
      BY <2>1, <3>1 DEF top
    <3>3. Sound(a, keys, q, exact) /\ Tracked(s, a, Q, Looked(s) \ {lost[i] : i \in 1..k})
      BY <2>3
    <3> HIDE DEF a, b, x
    <3>4. Sound(b, keys, q, exact) /\ Tracked(a, b, Q, Looked(a) \ {x})
      BY <3>2, <3>3, RemoveSound DEF Tracked
    <3>5. Looked(a) \ {x} = Looked(s) \ {lost[i] : i \in 1..k + 1}
      <4>1. \A i : i \in 1..k + 1 <=> i \in 1..k \/ i = k + 1
        BY <3>1
      <4>2. {lost[i] : i \in 1..k + 1} = {lost[i] : i \in 1..k} \cup {x}
        BY <4>1 DEF x
      <4> QED BY <3>3, <4>2 DEF Tracked
    <3>6. Tracked(s, b, Q, Looked(s) \ {lost[i] : i \in 1..k + 1})
      <4>1. Onward(s, b)
        BY <1>1, <3>3, <3>4, OnwardTwice DEF Tracked
      <4> QED BY <3>4, <3>5, <4>1 DEF Tracked
    <3> QED BY <3>1, <3>4, <3>6 DEF b
  <2> HIDE DEF S
  <2>4. top \in S
    <3>1. \A k \in 0..top : k \in S
      BY <1>2, <2>2, <2>3, Climb DEF top
    <3> QED BY <1>2, <3>1 DEF top
  <2>5. {lost[i] : i \in 1..top} = gone
    BY <1>2 DEF top
  <2> QED BY <2>1, <2>4, <2>5 DEF S, top
<1>5. Sound(u, keys, q, exact) /\ Tracked(t, u, Q, Looked(t) \cup came)
  <2>1. PICK after :
           /\ after[0] = t
           /\ \A n \in 1..Len(won) : after[n] = TrackLimboChange(after[n - 1], won[n])
           /\ u = after[Len(won)]
    <3> HIDE DEF t, u
    <3>1. \E after :
             /\ after[0] = t
             /\ \A n \in 1..Len(won) : after[n] = TrackLimboChange(after[n - 1], won[n])
             /\ FoldLeft(TrackLimboChange, t, won) = after[Len(won)]
      <4>1. Len(won) \in Nat /\ DOMAIN won = 1..Len(won)
        BY <1>3
      <4> QED BY <4>1, TracksOneByOne
    <3> QED BY <3>1 DEF u
  <2> HIDE DEF t, u
  <2> DEFINE top == Len(won)
             S == {k \in 0..top :
                     /\ Sound(after[k], keys, q, exact)
                     /\ Tracked(t, after[k], Q, Looked(t) \cup {won[i] : i \in 1..k})}
  <2> HIDE DEF top
  <2>6. t.nextId \in Nat
    BY <1>4, SoundType
  <2>2. 0 \in S
    <3>1. Looked(t) \cup {won[i] : i \in 1..0} = Looked(t)
      OBVIOUS
    <3> QED BY <1>3, <1>4, <2>1, <2>6, <3>1 DEF Tracked, Onward, top
  <2>3. ASSUME NEW k \in 0..top - 1, k \in S PROVE k + 1 \in S
    <3> DEFINE a == after[k]
               b == after[k + 1]
               x == won[k + 1]
    <3>1. k + 1 \in 1..top /\ k + 1 \in 0..top /\ (k + 1) - 1 = k /\ k \in Nat
      BY <1>3 DEF top
    <3>2. b = TrackLimboChange(a, x) /\ x \in Doc
      BY <1>3, <2>1, <3>1 DEF top, came
    <3>3. Sound(a, keys, q, exact) /\ Tracked(t, a, Q, Looked(t) \cup {won[i] : i \in 1..k})
      BY <2>3
    <3> HIDE DEF a, b, x
    <3>4. Sound(b, keys, q, exact) /\ Tracked(a, b, Q, Looked(a) \cup {x})
      BY <3>2, <3>3, TrackSound DEF Tracked
    <3>5. Looked(a) \cup {x} = Looked(t) \cup {won[i] : i \in 1..k + 1}
      <4>1. \A i : i \in 1..k + 1 <=> i \in 1..k \/ i = k + 1
        BY <3>1
      <4>2. {won[i] : i \in 1..k + 1} = {won[i] : i \in 1..k} \cup {x}
        BY <4>1 DEF x
      <4> QED BY <3>3, <4>2 DEF Tracked
    <3>6. Tracked(t, b, Q, Looked(t) \cup {won[i] : i \in 1..k + 1})
      <4>1. Onward(t, b)
        BY <2>6, <3>3, <3>4, OnwardTwice DEF Tracked
      <4> QED BY <3>4, <3>5, <4>1 DEF Tracked
    <3> QED BY <3>1, <3>4, <3>6 DEF b
  <2> HIDE DEF S
  <2>4. top \in S
    <3>1. \A k \in 0..top : k \in S
      BY <1>3, <2>2, <2>3, Climb DEF top
    <3> QED BY <1>3, <3>1 DEF top
  <2>5. {won[i] : i \in 1..top} = came
    BY <1>3 DEF top
  <2> QED BY <2>1, <2>4, <2>5 DEF S, top
<1> HIDE DEF t, u
<1>6. Looked(t) = Looked(s) \ gone
  BY <1>4 DEF Tracked
<1>7. Tracked(s, u, Q, Looked(t) \cup came)
  BY <1>1, <1>4, <1>5, TrackedTwice
<1>8. u = UpdateTrackedLimboDocuments(s, old, new)
  BY DEF u, t, lost, won, gone, came, UpdateTrackedLimboDocuments
<1> QED BY <1>5, <1>6, <1>7, <1>8 DEF gone, came

\* What is collected of the targets changes; the lookups and ids do not.
Collected(s, t) ==
    /\ t.resolving = s.resolving /\ t.enqueued = s.enqueued /\ t.nextId = s.nextId
    /\ t.stream = s.stream /\ DOMAIN t.listening = DOMAIN s.listening

CollectedInto(s, t, listening, states) ==
    /\ t.listening = listening /\ t.states = states /\ t.requests = s.requests
    /\ t.resolving = s.resolving /\ t.enqueued = s.enqueued /\ t.nextId = s.nextId
    /\ t.stream = s.stream

Rewritten(s, t, listening, states, updates, mismatch) ==
    t = [s EXCEPT !.listening = listening, !.states = states,
                  !.updates = updates, !.mismatch = mismatch]

\* The states fit the answers of p that are due, and what was received.
Fit(s, keys, p, exact, states) ==
    /\ DOMAIN states \subseteq 0..s.nextId - 1
    /\ \A id \in DOMAIN states : id \in DOMAIN s.resolving =>
          \A d \in Doc : states[id].changes[d] \in {"modified", "removed"} =>
             s.resolving[id].received
    /\ Query \in DOMAIN states =>
          \A d \in Doc : states[Query].changes[d] = "modified" => d \in keys
    /\ exact => \A id \in Nat :
          (IF id \in DOMAIN states THEN states[id].outstanding ELSE 0)
             = Asked(s.requests, id) + Answered(p, id)
    /\ exact => \A id \in Nat \ DOMAIN s.listening : LetGo(s.requests, p, id)

\* The states of targets may change while the answers they await stay.
LEMMA StatesSound ==
    ASSUME NEW s, NEW keys, NEW q, NEW exact, Sound(s, keys, q, exact), s.stream = "open",
           NEW listening \in Partial(Listening), DOMAIN listening = DOMAIN s.listening,
           NEW states \in Partial(TargetState),
           NEW updates \in [Doc -> KnownDoc], NEW mismatch \in BOOLEAN, NEW p,
           Fit(s, keys, p, exact, states),
           NEW t, Rewritten(s, t, listening, states, updates, mismatch)
    PROVE  Sound(t, keys, p, exact) /\ Collected(s, t) /\ CollectedInto(s, t, listening, states)
<1>1. s \in SyncRec /\ Good(s, keys)
  BY DEF Sound, Good
<1>2. /\ t \in SyncRec /\ t.listening = listening /\ t.states = states
      /\ t.stream = s.stream /\ t.idle = s.idle /\ t.requests = s.requests
      /\ t.online = s.online /\ t.failed = s.failed /\ t.timer = s.timer
      /\ t.resolving = s.resolving /\ t.enqueued = s.enqueued
      /\ t.nextId = s.nextId /\ t.broken = s.broken
  BY <1>1 DEF SyncRec, Rewritten
<1>3. Conn(t)
  BY <1>1, <1>2 DEF Good, Conn
<1>4. Ids(t) /\ Lookups(t)
  BY <1>1, <1>2 DEF Fit, Good, Ids, Lookups, Resolving
<1>5. Received(t) /\ Held(t, keys)
  BY <1>2 DEF Received, Held, Fit
<1>6. Good(t, keys)
  BY <1>1, <1>2, <1>3, <1>4, <1>5 DEF Good
<1>7. exact => Awaited(t, p)
  <2>1. \A id : StateOf(t, id).outstanding = IF id \in DOMAIN states THEN states[id].outstanding ELSE 0
    BY <1>2 DEF StateOf, Fresh
  <2> QED BY <1>2, <2>1 DEF Awaited, Fit
<1>8. exact => Exact(t, p)
  BY <1>2, <1>7 DEF Exact, Fit
<1>9. Collected(s, t) /\ CollectedInto(s, t, listening, states)
  BY <1>2 DEF Collected, CollectedInto
<1> QED BY <1>2, <1>6, <1>8, <1>9 DEF Sound

\* A response makes the client believe that it is online.
LEMMA OnlineSound ==
    ASSUME NEW s, NEW keys, NEW q, NEW exact, Sound(s, keys, q, exact)
    PROVE  /\ Sound(UpdateState(s, "online"), keys, q, exact)
           /\ Collected(s, UpdateState(s, "online"))
           /\ CollectedInto(s, UpdateState(s, "online"), s.listening, s.states)
<1> DEFINE t == UpdateState(s, "online")
<1>1. s \in SyncRec /\ Good(s, keys)
  BY DEF Sound, Good
<1>2. /\ t \in SyncRec /\ t.listening = s.listening /\ t.states = s.states
      /\ t.stream = s.stream /\ t.idle = s.idle /\ t.requests = s.requests
      /\ t.online = "online" /\ ~t.failed /\ ~t.timer
      /\ t.resolving = s.resolving /\ t.enqueued = s.enqueued
      /\ t.nextId = s.nextId /\ t.broken = s.broken
  BY <1>1 DEF SyncRec, UpdateState
<1> HIDE DEF t
<1>10. CollectedInto(s, t, s.listening, s.states)
  BY <1>2 DEF CollectedInto
<1>3. Conn(t)
  BY <1>1, <1>2 DEF Good, Conn
<1>4. Ids(t) /\ Lookups(t)
  BY <1>1, <1>2 DEF Good, Ids, Lookups, Resolving
<1>5. Received(t) /\ Held(t, keys)
  BY <1>1, <1>2 DEF Good, Received, Held
<1>6. Good(t, keys)
  BY <1>1, <1>2, <1>3, <1>4, <1>5 DEF Good
<1>7. exact => Exact(t, q)
  BY <1>2 DEF Sound, Exact, Awaited, StateOf
<1>8. Collected(s, t)
  BY <1>2 DEF Collected
<1> QED BY <1>2, <1>6, <1>7, <1>8, <1>10 DEF Sound, t

\* A response that answers nothing is taken off the wire.
LEMMA PassedSound ==
    ASSUME NEW s, NEW keys, NEW q \in Seq(Response), NEW exact, Sound(s, keys, q, exact),
           q # << >>, ~IsAnswer(q[1])
    PROVE  Sound(s, keys, Tail(q), exact)
<1>1. s.stream = "open"
  BY DEF Sound
<1>2. \A id : Answered(Tail(q), id) = Answered(q, id)
  <2>1. ASSUME NEW id PROVE Answered(Tail(q), id) = Answered(q, id)
    <3>1. Answered(q, id) = Answered(Tail(q), id) + 0
      BY AnsweredTail
    <3>2. Tail(q) \in Seq(Response)
      BY TailFacts
    <3>3. Answered(Tail(q), id) \in Nat
      BY <3>2, AnsweredIs
    <3> QED BY <3>1, <3>3
  <2> QED BY <2>1
<1>3. exact => Exact(s, Tail(q))
  BY <1>2, LetGoReceived DEF Sound, Exact, Awaited
<1> QED BY <1>1, <1>3 DEF Sound

\* A target is in another state, with the same answers awaited.
FitOne(s, keys, id, state) ==
    /\ state.outstanding = StateOf(s, id).outstanding
    /\ id \in DOMAIN s.resolving =>
          \A d \in Doc : state.changes[d] \in {"modified", "removed"} => s.resolving[id].received
    /\ id = Query => \A d \in Doc : state.changes[d] = "modified" => d \in keys
RewrittenOne(s, t, id, state, updates, mismatch) ==
    t = [WithState(s, id, state) EXCEPT !.updates = updates, !.mismatch = mismatch]

\* And so may the state of one target.
LEMMA WithStateSound ==
    ASSUME NEW s, NEW keys, NEW p, NEW exact, Sound(s, keys, p, exact), s.stream = "open",
           NEW id \in DOMAIN s.listening, NEW state \in TargetState, FitOne(s, keys, id, state),
           NEW updates \in [Doc -> KnownDoc], NEW mismatch \in BOOLEAN,
           NEW t, RewrittenOne(s, t, id, state, updates, mismatch)
    PROVE  Sound(t, keys, p, exact) /\ Collected(s, t)
<1> DEFINE states == With(s.states, id, state)
<1>1. /\ s \in SyncRec /\ Good(s, keys) /\ s.listening \in Partial(Listening)
      /\ s.states \in Partial(TargetState)
  BY DEF Sound, Good, SyncRec
<1>2. id \in 0..s.nextId - 1 /\ id \in Nat /\ DOMAIN s.states \subseteq 0..s.nextId - 1
  BY <1>1 DEF Good, Ids, SyncRec
<1>3. states \in Partial(TargetState)
  BY <1>1, <1>2, WithType
<1>4. /\ \A i : i \in DOMAIN states <=> i \in DOMAIN s.states \/ i = id
      /\ states[id] = state /\ \A i \in DOMAIN s.states : i # id => states[i] = s.states[i]
  BY DEF With
<1>5. Rewritten(s, t, s.listening, states, updates, mismatch)
  BY <1>1 DEF WithState, SyncRec, Rewritten, RewrittenOne
<1> HIDE DEF states
<1>6. DOMAIN states \subseteq 0..s.nextId - 1
  BY <1>2, <1>4
<1>7. \A i \in DOMAIN states : i \in DOMAIN s.resolving =>
         \A d \in Doc : states[i].changes[d] \in {"modified", "removed"} => s.resolving[i].received
  BY <1>1, <1>4 DEF Good, Received, FitOne
<1>8. Query \in DOMAIN states => \A d \in Doc : states[Query].changes[d] = "modified" => d \in keys
  BY <1>1, <1>4 DEF Good, Held, FitOne
<1>9. exact => \A i \in Nat :
         (IF i \in DOMAIN states THEN states[i].outstanding ELSE 0) = Asked(s.requests, i) + Answered(p, i)
  <2>1. \A i : (IF i \in DOMAIN states THEN states[i].outstanding ELSE 0) = StateOf(s, i).outstanding
    BY <1>4 DEF StateOf, Fresh, FitOne
  <2> QED BY <2>1 DEF Sound, Exact, Awaited
<1>10. exact => \A i \in Nat \ DOMAIN s.listening : LetGo(s.requests, p, i)
  BY DEF Sound, Exact
<1>11. Fit(s, keys, p, exact, states)
  BY <1>6, <1>7, <1>8, <1>9, <1>10 DEF Fit
<1> QED BY <1>1, <1>3, <1>5, <1>11, StatesSound

\* A target becomes current with what it holds.
LEMMA TargetCurrentSound ==
    ASSUME NEW s, NEW keys, NEW p, NEW exact, Sound(s, keys, p, exact), s.stream = "open",
           NEW id, NEW version \in Version
    PROVE  /\ Sound(TargetCurrent(s, id, version), keys, p, exact)
           /\ Collected(s, TargetCurrent(s, id, version))
<1> DEFINE t == TargetCurrent(s, id, version)
<1>1. s \in SyncRec /\ Good(s, keys)
  BY DEF Sound, Good
<1>2. CASE ~IsActive(s, id)
  BY <1>2 DEF TargetCurrent, Collected
<1>3. CASE IsActive(s, id)
  <2> DEFINE state == [UpdateResumeToken(StateOf(s, id), version) EXCEPT !.current = TRUE]
  <2>1. StateOf(s, id) \in TargetState
    BY <1>1, StateOfType
  <2>2. /\ state \in TargetState /\ state.outstanding = StateOf(s, id).outstanding
        /\ state.changes = StateOf(s, id).changes
    BY <2>1 DEF UpdateResumeToken, TargetState
  <2>3. t = WithState(s, id, state)
    BY <1>3 DEF TargetCurrent
  <2> HIDE DEF state, t
  <2>4. id \in DOMAIN s.listening
    BY <1>3 DEF IsActive
  <2>5. \A d \in Doc : state.changes[d] # "none" =>
           id \in DOMAIN s.states /\ state.changes[d] = s.states[id].changes[d]
    BY <2>2 DEF StateOf, Fresh
  <2>6. FitOne(s, keys, id, state)
    BY <1>1, <2>2, <2>5 DEF Good, Received, Held, FitOne
  <2>7. /\ RewrittenOne(s, t, id, state, s.updates, s.mismatch)
        /\ s.updates \in [Doc -> KnownDoc] /\ s.mismatch \in BOOLEAN
    BY <1>1, <2>3 DEF WithState, SyncRec, RewrittenOne
  <2>8. Sound(t, keys, p, exact) /\ Collected(s, t)
    BY <2>2, <2>4, <2>6, <2>7, WithStateSound
  <2> QED BY <2>8 DEF t
<1> QED BY <1>2, <1>3

\* What is known to be at the server is received, or among the keys.
LEMMA RemoteKeysHeld ==
    ASSUME NEW s, NEW keys, Ids(s), NEW v, v.open => v.synced \subseteq keys, NEW id, NEW d,
           d \in RemoteKeys(s, v, id), s \in SyncRec
    PROVE  /\ id \in DOMAIN s.resolving => s.resolving[id].received
           /\ id = Query => d \in keys
<1>1. Query \notin DOMAIN s.resolving
  BY DEF Ids, Query, SyncRec
<1>2. CASE id \in DOMAIN s.resolving
  BY <1>1, <1>2 DEF RemoteKeys
<1>3. CASE id \notin DOMAIN s.resolving
  BY <1>3 DEF RemoteKeys
<1> QED BY <1>2, <1>3

\* A count that is not met starts the query from nothing, and the document
\* that does not exist is removed from its target.
LEMMA ExistenceFilterSound ==
    ASSUME NEW s, NEW keys, NEW p, NEW exact, Sound(s, keys, p, exact), s.stream = "open",
           view.open => view.synced \subseteq keys, NEW id, NEW count
    PROVE  /\ Sound(ExistenceFilter(s, id, count), keys, p, exact)
           /\ Collected(s, ExistenceFilter(s, id, count))
<1> DEFINE t == ExistenceFilter(s, id, count)
           state == StateOf(s, id)
           key == s.listening[id].target
           size == Cardinality(RemoteKeys(s, view, id)) + Cardinality(ChangesOf(state, "added"))
                      - Cardinality(ChangesOf(state, "removed"))
           reset == [Fresh EXCEPT !.changes = [d \in Doc |->
                        IF d \in RemoteKeys(s, view, id) THEN "removed" ELSE "none"]]
           gone == RemoveDocument(state, key, key \in RemoteKeys(s, view, id))
<1>1. s \in SyncRec /\ Good(s, keys) /\ Ids(s)
  BY DEF Sound, Good
<1>2. state \in TargetState
  BY <1>1, StateOfType
<1>3. t = CASE ~IsActive(s, id) -> s
            [] IsActive(s, id) /\ key # Query /\ count = 0 ->
                  [WithState(s, id, gone) EXCEPT !.updates[key] = NoDocument(0)]
            [] IsActive(s, id) /\ key = Query /\ size # count ->
                  [WithState(s, id, reset) EXCEPT !.mismatch = TRUE]
            [] OTHER -> s
  BY DEF ExistenceFilter
<1>4. \A d : d \in RemoteKeys(s, view, id) =>
         /\ id \in DOMAIN s.resolving => s.resolving[id].received
         /\ id = Query => d \in keys
  BY <1>1, RemoteKeysHeld
<1>5. s.updates \in [Doc -> KnownDoc] /\ s.mismatch \in BOOLEAN /\ s.listening \in Partial(Listening)
  BY <1>1 DEF SyncRec
<1>6. Sound(s, keys, p, exact) /\ Collected(s, s)
  BY DEF Collected
<1>7. CASE IsActive(s, id) /\ key # Query /\ count = 0
  <2>1. id \in DOMAIN s.listening /\ key \in Doc
    <3>1. id \in DOMAIN s.listening
      BY <1>7 DEF IsActive
    <3>2. s.listening[id] \in Listening
      BY <1>5, <3>1, PartialFacts
    <3> QED BY <1>7, <3>1, <3>2 DEF Listening
  <2>2. t = [WithState(s, id, gone) EXCEPT !.updates[key] = NoDocument(0)]
    BY <1>3, <1>7
  <2> DEFINE updates == [s.updates EXCEPT ![key] = NoDocument(0)]
  <2>3. updates \in [Doc -> KnownDoc]
    BY <1>5, <2>1, BoundsAssumption DEF NoDocument, KnownDoc, Document, Version
  <2>4. RewrittenOne(s, t, id, gone, updates, s.mismatch)
    BY <1>1, <2>2 DEF WithState, SyncRec, RewrittenOne
  <2>5. /\ gone \in TargetState /\ gone.outstanding = state.outstanding
        /\ \A d \in Doc : gone.changes[d] = IF d # key THEN state.changes[d]
              ELSE IF key \in RemoteKeys(s, view, id) THEN "removed" ELSE "none"
    BY <1>2, <2>1 DEF RemoveDocument, TargetState
  <2> HIDE DEF gone, updates, t, key
  <2>6. \A d \in Doc : state.changes[d] # "none" =>
           id \in DOMAIN s.states /\ state.changes[d] = s.states[id].changes[d]
    BY DEF StateOf, Fresh
  <2> HIDE DEF state
  <2>7. FitOne(s, keys, id, gone)
    <3>1. gone.outstanding = StateOf(s, id).outstanding
      BY <2>5 DEF state
    <3> QED BY <1>1, <1>4, <2>5, <2>6, <3>1 DEF Good, Received, Held, FitOne
  <2>9. Sound(t, keys, p, exact) /\ Collected(s, t)
    BY <1>5, <2>1, <2>3, <2>4, <2>5, <2>7, WithStateSound
  <2> QED BY <2>9 DEF t
<1>8. CASE IsActive(s, id) /\ key = Query /\ size # count
  <2>1. id \in DOMAIN s.listening /\ state.outstanding = 0
    BY <1>8 DEF IsActive
  <2>2. t = [WithState(s, id, reset) EXCEPT !.mismatch = TRUE]
    BY <1>3, <1>8
  <2>4. RewrittenOne(s, t, id, reset, s.updates, TRUE)
    BY <1>1, <2>2 DEF WithState, SyncRec, RewrittenOne
  <2>5. /\ reset \in TargetState /\ reset.outstanding = 0
        /\ \A d \in Doc : reset.changes[d] =
              IF d \in RemoteKeys(s, view, id) THEN "removed" ELSE "none"
    BY FreshType DEF Fresh, TargetState
  <2> HIDE DEF reset, t
  <2>7. FitOne(s, keys, id, reset)
    BY <1>4, <2>1, <2>5 DEF FitOne
  <2>9. Sound(t, keys, p, exact) /\ Collected(s, t)
    BY <1>5, <2>1, <2>4, <2>5, <2>7, WithStateSound
  <2> QED BY <2>9 DEF t
<1>9. CASE ~IsActive(s, id)
  BY <1>3, <1>6, <1>9
<1>10. CASE /\ IsActive(s, id) /\ ~(key # Query /\ count = 0)
            /\ ~(key = Query /\ size # count)
  BY <1>3, <1>6, <1>10
<1> QED BY <1>7, <1>8, <1>9, <1>10

\* A document is added to the changes of a target, or removed.
ChangedAt(state, t, k, in) ==
    /\ t.outstanding = state.outstanding
    /\ \A d \in Doc : \/ t.changes[d] = state.changes[d]
                      \/ d = k /\ (t.changes[d] \in {"modified", "removed"} => in)

\* What AddDocument does to a state.
LEMMA AddDocumentIs ==
    ASSUME NEW state \in TargetState, NEW k \in Doc, NEW in
    PROVE  /\ AddDocument(state, k, in) \in TargetState
           /\ ChangedAt(state, AddDocument(state, k, in), k, in)
BY DEF AddDocument, TargetState, ChangedAt

\* What RemoveDocument does to a state.
LEMMA RemoveDocumentIs ==
    ASSUME NEW state \in TargetState, NEW k \in Doc, NEW in
    PROVE  /\ RemoveDocument(state, k, in) \in TargetState
           /\ ChangedAt(state, RemoveDocument(state, k, in), k, in)
BY DEF RemoveDocument, TargetState, ChangedAt

\* A change is collected by the active targets it is of.
LEMMA DocumentChangedSound ==
    ASSUME NEW s, NEW keys, NEW p, NEW exact, Sound(s, keys, p, exact), s.stream = "open",
           view.open => view.synced \subseteq keys,
           NEW m, m.key \in Doc, m.doc \in KnownDoc
    PROVE  /\ Sound(DocumentChanged(s, m), keys, p, exact)
           /\ Collected(s, DocumentChanged(s, m))
<1> DEFINE active == {id \in m.to \cup m.from : IsActive(s, id)}
           known(id) == m.key \in RemoteKeys(s, view, id)
           Changed(id) == IF id \in m.to /\ m.doc.found
                          THEN AddDocument(StateOf(s, id), m.key, known(id))
                          ELSE RemoveDocument(StateOf(s, id), m.key, known(id))
           states == [id \in DOMAIN s.states \cup active |->
                         IF id \in active THEN Changed(id) ELSE s.states[id]]
           updates == [s.updates EXCEPT ![m.key] = IF active = {} THEN s.updates[m.key] ELSE m.doc]
           t == DocumentChanged(s, m)
<1>1. /\ s \in SyncRec /\ Good(s, keys) /\ Ids(s) /\ s.listening \in Partial(Listening)
      /\ s.states \in Partial(TargetState) /\ s.updates \in [Doc -> KnownDoc]
      /\ s.mismatch \in BOOLEAN
  BY DEF Sound, Good, SyncRec
<1>2. updates \in [Doc -> KnownDoc]
  BY <1>1
<1>3. Rewritten(s, t, s.listening, states, updates, s.mismatch)
  BY <1>1 DEF Rewritten, DocumentChanged, SyncRec
<1>4. active \subseteq DOMAIN s.listening /\ \A id \in active : StateOf(s, id).outstanding = 0
  BY DEF IsActive
<1>5. DOMAIN s.listening \subseteq 0..s.nextId - 1 /\ DOMAIN s.states \subseteq 0..s.nextId - 1
      /\ 0..s.nextId - 1 \subseteq Nat
  BY <1>1 DEF Ids, SyncRec
<1>6. ASSUME NEW id \in active
      PROVE  /\ Changed(id) \in TargetState /\ Changed(id).outstanding = 0
             /\ \A d \in Doc : Changed(id).changes[d] \in {"modified", "removed"} =>
                   (id \in DOMAIN s.resolving => s.resolving[id].received)
             /\ id = Query => \A d \in Doc : Changed(id).changes[d] = "modified" => d \in keys
  <2> DEFINE state == StateOf(s, id)
             in == known(id)
  <2>1. state \in TargetState /\ state.outstanding = 0
    BY <1>1, <1>4, <1>6, StateOfType
  <2>2. \A d \in Doc : state.changes[d] # "none" =>
           id \in DOMAIN s.states /\ state.changes[d] = s.states[id].changes[d]
    BY DEF StateOf, Fresh
  <2>3. in => /\ id \in DOMAIN s.resolving => s.resolving[id].received
              /\ id = Query => m.key \in keys
    BY <1>1, RemoteKeysHeld
  <2>4. Changed(id) = IF id \in m.to /\ m.doc.found THEN AddDocument(state, m.key, in)
                     ELSE RemoveDocument(state, m.key, in)
    OBVIOUS
  <2> HIDE DEF state, in, Changed
  <2>5. /\ Changed(id) \in TargetState /\ Changed(id).outstanding = 0
        /\ \A d \in Doc : \/ Changed(id).changes[d] = state.changes[d]
                          \/ d = m.key /\ (Changed(id).changes[d] \in {"modified", "removed"} => in)
    <3>1. CASE id \in m.to /\ m.doc.found
      <4>1. Changed(id) \in TargetState /\ ChangedAt(state, Changed(id), m.key, in)
        BY <2>1, <2>4, <3>1, AddDocumentIs
      <4> QED BY <2>1, <4>1 DEF ChangedAt
    <3>2. CASE ~(id \in m.to /\ m.doc.found)
      <4>1. Changed(id) \in TargetState /\ ChangedAt(state, Changed(id), m.key, in)
        BY <2>1, <2>4, <3>2, RemoveDocumentIs
      <4> QED BY <2>1, <4>1 DEF ChangedAt
    <3> QED BY <3>1, <3>2
  <2> QED BY <1>1, <2>2, <2>3, <2>5 DEF Good, Received, Held
<1> HIDE DEF Changed, active, t, updates
<1>7. /\ \A i : i \in DOMAIN states <=> i \in DOMAIN s.states \/ i \in active
      /\ \A i \in active : states[i] = Changed(i)
      /\ \A i \in DOMAIN s.states : i \notin active => states[i] = s.states[i]
      /\ states = [i \in DOMAIN states |-> states[i]]
  OBVIOUS
<1> HIDE DEF states
<1>8. states \in Partial(TargetState)
  <2>1. \A i \in DOMAIN s.states : s.states[i] \in TargetState
    BY <1>1, PartialFacts
  <2>2. DOMAIN states \in SUBSET Nat /\ \A i \in DOMAIN states : states[i] \in TargetState
    BY <1>4, <1>5, <1>6, <1>7, <2>1
  <2> QED BY <1>7, <2>2, PartialIs
<1>9. Fit(s, keys, p, exact, states)
  <2>1. DOMAIN states \subseteq 0..s.nextId - 1
    BY <1>4, <1>5, <1>7
  <2>2. \A id \in DOMAIN states : id \in DOMAIN s.resolving =>
           \A d \in Doc : states[id].changes[d] \in {"modified", "removed"} => s.resolving[id].received
    BY <1>1, <1>6, <1>7 DEF Good, Received
  <2>3. Query \in DOMAIN states => \A d \in Doc : states[Query].changes[d] = "modified" => d \in keys
    BY <1>1, <1>6, <1>7 DEF Good, Held
  <2>4. \A i : (IF i \in DOMAIN states THEN states[i].outstanding ELSE 0) = StateOf(s, i).outstanding
    <3>1. ASSUME NEW i \in active
          PROVE  (IF i \in DOMAIN states THEN states[i].outstanding ELSE 0) = StateOf(s, i).outstanding
      BY <1>4, <1>6, <1>7
    <3>2. ASSUME NEW i, i \notin active
          PROVE  (IF i \in DOMAIN states THEN states[i].outstanding ELSE 0) = StateOf(s, i).outstanding
      BY <1>7, <3>2 DEF StateOf, Fresh
    <3> QED BY <3>1, <3>2
  <2> QED BY <2>1, <2>2, <2>3, <2>4 DEF Fit, Sound, Exact, Awaited
<1> QED BY <1>1, <1>2, <1>3, <1>8, <1>9, StatesSound DEF t

\* WatchChangeAggregator::HandleTargetChange, of an answer.
LEMMA TargetAcknowledgedSound ==
    ASSUME NEW s, NEW keys, NEW q \in Seq(Response), NEW exact, Sound(s, keys, q, exact),
           q # << >>, IsAnswer(q[1]), NEW id \in 0..s.nextId - 1, q[1].id = id, NEW removed
    PROVE  /\ Sound(TargetAcknowledged(s, id, removed), keys, Tail(q), exact)
           /\ Collected(s, TargetAcknowledged(s, id, removed))
<1> DEFINE t == TargetAcknowledged(s, id, removed)
           old == StateOf(s, id)
           state == [old EXCEPT !.outstanding = @ - 1]
           cleared == ClearPendingChanges(state)
           states == IF state.outstanding # 0 THEN With(s.states, id, state)
                     ELSE IF removed THEN Without(s.states, id)
                     ELSE With(s.states, id, cleared)
<1>1. /\ s \in SyncRec /\ Good(s, keys) /\ Ids(s) /\ s.listening \in Partial(Listening)
      /\ s.states \in Partial(TargetState) /\ s.updates \in [Doc -> KnownDoc]
      /\ s.mismatch \in BOOLEAN /\ s.stream = "open" /\ id \in Nat
  BY DEF Sound, Good, SyncRec
<1>2. old \in TargetState
  BY <1>1, StateOfType
<1>3. /\ state \in TargetState /\ state.outstanding = old.outstanding - 1
      /\ state.changes = old.changes
      /\ cleared \in TargetState /\ cleared.outstanding = old.outstanding - 1
      /\ cleared.changes = [d \in Doc |-> "none"]
  <2>1. /\ state \in TargetState /\ state.outstanding = old.outstanding - 1
        /\ state.changes = old.changes
    BY <1>2 DEF TargetState
  <2>2. cleared = [state EXCEPT !.changes = [d \in Doc |-> "none"], !.dirty = FALSE]
    BY DEF ClearPendingChanges, Fresh
  <2> HIDE DEF state, cleared
  <2> QED BY <2>1, <2>2 DEF TargetState
<1>4. Rewritten(s, t, s.listening, states, s.updates, s.mismatch)
  <2>1. t = [s EXCEPT !.states = states]
    <3>1. t = CASE state.outstanding # 0 -> WithState(s, id, state)
                [] state.outstanding = 0 /\ removed -> [s EXCEPT !.states = Without(@, id)]
                [] OTHER -> WithState(s, id, cleared)
      BY DEF TargetAcknowledged
    <3> HIDE DEF t, cleared, state
    <3>2. CASE state.outstanding # 0
      BY <1>1, <3>1, <3>2 DEF WithState, SyncRec
    <3>3. CASE state.outstanding = 0 /\ removed
      BY <1>1, <3>1, <3>3 DEF WithState, SyncRec
    <3>4. CASE state.outstanding = 0 /\ ~removed
      BY <1>1, <3>1, <3>4 DEF WithState, SyncRec
    <3> QED BY <3>2, <3>3, <3>4
  <2> HIDE DEF t, states
  <2> QED BY <1>1, <2>1 DEF Rewritten, SyncRec
<1> HIDE DEF state, cleared, t
<1>5. /\ \A i : i \in DOMAIN states => i \in DOMAIN s.states \/ i = id
      /\ \A i : i # id => (i \in DOMAIN states <=> i \in DOMAIN s.states)
      /\ \A i \in DOMAIN states : i # id => states[i] = s.states[i]
      /\ id \in DOMAIN states => \/ states[id] = state
                                 \/ states[id] = cleared
      /\ id \notin DOMAIN states => state.outstanding = 0
  <2>1. CASE state.outstanding # 0
    <3>1. states = With(s.states, id, state)
      BY <2>1
    <3> HIDE DEF states
    <3> QED BY <2>1, <3>1 DEF With
  <2>2. CASE state.outstanding = 0 /\ removed
    <3>1. states = Without(s.states, id)
      BY <2>2
    <3> HIDE DEF states
    <3> QED BY <2>2, <3>1 DEF Without
  <2>3. CASE state.outstanding = 0 /\ ~removed
    <3>1. states = With(s.states, id, cleared)
      BY <2>3
    <3> HIDE DEF states
    <3> QED BY <2>3, <3>1 DEF With
  <2> QED BY <2>1, <2>2, <2>3
<1>6. states \in Partial(TargetState)
  BY <1>1, <1>3, WithType, WithoutType
<1> HIDE DEF states
<1>7. \A d \in Doc : old.changes[d] # "none" =>
         id \in DOMAIN s.states /\ old.changes[d] = s.states[id].changes[d]
  BY DEF StateOf, Fresh
<1>8. Fit(s, keys, Tail(q), exact, states)
  <2>1. DOMAIN states \subseteq 0..s.nextId - 1
    BY <1>1, <1>5 DEF Ids
  <2> HIDE DEF old
  <2>2. ASSUME NEW i \in DOMAIN states, NEW d \in Doc, states[i].changes[d] # "none"
        PROVE  i \in DOMAIN s.states /\ s.states[i].changes[d] = states[i].changes[d]
    <3>1. CASE i # id
      BY <1>5, <3>1
    <3>2. CASE i = id
      BY <1>3, <1>5, <1>7, <2>2, <3>2
    <3> QED BY <3>1, <3>2
  <2>3. \A i \in DOMAIN states : i \in DOMAIN s.resolving =>
           \A d \in Doc : states[i].changes[d] \in {"modified", "removed"} => s.resolving[i].received
    BY <1>1, <2>2 DEF Good, Received
  <2>4. Query \in DOMAIN states => \A d \in Doc : states[Query].changes[d] = "modified" => d \in keys
    BY <1>1, <2>2 DEF Good, Held
  <2>5. ASSUME exact, NEW i \in Nat
        PROVE  (IF i \in DOMAIN states THEN states[i].outstanding ELSE 0)
                  = Asked(s.requests, i) + Answered(Tail(q), i)
    <3>1. StateOf(s, i).outstanding = Asked(s.requests, i) + Answered(q, i)
      BY <2>5 DEF Sound, Exact, Awaited
    <3>2. Answered(q, i) = Answered(Tail(q), i) + (IF q[1].id = i THEN 1 ELSE 0)
      <4>1. Answered(q, i) = Answered(Tail(q), i) + (IF IsAnswer(q[1]) /\ q[1].id = i THEN 1 ELSE 0)
        BY AnsweredTail
      <4> QED BY <4>1
    <3>3. Tail(q) \in Seq(Response) /\ s.requests \in Seq(Asking)
      BY <1>1, TailFacts DEF SyncRec
    <3>4. Answered(Tail(q), i) \in Nat /\ Asked(s.requests, i) \in Nat
      BY <3>3, AnsweredIs, AskedNat
    <3>5. CASE i = id
      <4>1. old.outstanding = Asked(s.requests, i) + Answered(Tail(q), i) + 1
        BY <3>1, <3>2, <3>4, <3>5 DEF old
      <4>2. old.outstanding - 1 = Asked(s.requests, i) + Answered(Tail(q), i)
        BY <3>4, <4>1
      <4> QED BY <1>3, <1>5, <3>5, <4>2
    <3>6. CASE i # id
      <4>1. Answered(q, i) = Answered(Tail(q), i)
        BY <3>2, <3>4, <3>6
      <4>2. (IF i \in DOMAIN states THEN states[i].outstanding ELSE 0) = StateOf(s, i).outstanding
        BY <1>5, <3>6 DEF StateOf, Fresh
      <4> QED BY <3>1, <4>1, <4>2
    <3> QED BY <3>5, <3>6
  <2>6. exact => \A i \in Nat \ DOMAIN s.listening : LetGo(s.requests, Tail(q), i)
    BY LetGoReceived DEF Sound, Exact
  <2> QED BY <2>1, <2>3, <2>4, <2>5, <2>6 DEF Fit
<1>9. Sound(t, keys, Tail(q), exact) /\ Collected(s, t)
  BY <1>1, <1>4, <1>6, <1>8, StatesSound
<1> QED BY <1>9 DEF t

\* Who is not asked for and not answered has no place in either queue.
LEMMA NoneAskedOf ==
    ASSUME NEW asked \in Seq(Asking), NEW q \in Seq(Response), NEW id,
           Asked(asked, id) = 0, Answered(q, id) = 0
    PROVE  LetGo(asked, q, id)
<1> DEFINE M == {r \in Asking : r.id = id}
<1>1. Marked(asked, M) = {i \in DOMAIN asked : asked[i].id = id}
  BY SeqFacts DEF Marked
<1>2. Cardinality(Marked(asked, M)) = 0
  BY <1>1 DEF Asked
<1>3. \A i \in DOMAIN asked : asked[i].id # id
  <2> HIDE DEF M
  <2>1. ASSUME NEW i \in Marked(asked, M) PROVE FALSE
    BY <1>2, <2>1, MarkedTwo
  <2> QED BY <1>1, <2>1
<1>4. \A i \in DOMAIN q : q[i] \in Response
  BY SeqFacts
<1>5. \A i \in DOMAIN q : ~(q[i].kind = "refused" /\ q[i].id = id)
  <2>1. Cardinality(Marked(q, AnswersOf(id))) = 0
    BY AnsweredIs
  <2>2. ASSUME NEW i \in Marked(q, AnswersOf(id)) PROVE FALSE
    BY <2>1, <2>2, MarkedTwo
  <2>3. ASSUME NEW i \in DOMAIN q, q[i].kind = "refused", q[i].id = id
        PROVE  i \in Marked(q, AnswersOf(id))
    BY <1>4, <2>3 DEF Marked, AnswersOf, IsAnswer
  <2> QED BY <2>2, <2>3
<1> QED BY <1>3, <1>5 DEF LetGo

\* A target that is not listened to any more was refused: it is another answer
\* that is due for it, the one to the request to remove it.
LEMMA IgnoredSound ==
    ASSUME NEW s, NEW keys, NEW q \in Seq(Response), NEW exact, Sound(s, keys, q, exact),
           q # << >>, q[1].kind = "refused", NEW id \in Nat, q[1].id = id, id \notin DOMAIN s.listening,
           NEW still, still => exact /\ StateOf(s, id).outstanding = 1
    PROVE  Sound(s, keys, Tail(q), still)
<1>1. s.requests \in Seq(Asking) /\ s.stream = "open"
  BY DEF Sound, Good, SyncRec
<1>2. ~still
  <2>1. ASSUME still PROVE FALSE
    <3>1. LetGo(s.requests, q, id)
      BY <2>1 DEF Sound, Exact
    <3>2. Asked(s.requests, id) + Answered(q, id) # 1
      BY <1>1, <3>1, LetGoRefused
    <3>3. StateOf(s, id).outstanding = Asked(s.requests, id) + Answered(q, id)
      BY <2>1 DEF Sound, Exact, Awaited
    <3> QED BY <2>1, <3>2, <3>3
  <2> QED BY <2>1
<1> QED BY <1>1, <1>2 DEF Sound

\* A target that is listened to was refused.
Left(s, t, id) ==
    /\ t.resolving = s.resolving /\ t.enqueued = s.enqueued /\ t.nextId = s.nextId
    /\ t.stream = s.stream /\ DOMAIN t.listening = DOMAIN s.listening \ {id}

\* A target whose last answer refuses it is forgotten.
LEMMA RefusedSound ==
    ASSUME NEW s, NEW keys, NEW q \in Seq(Response), NEW exact, Sound(s, keys, q, exact),
           q # << >>, q[1].kind = "refused", NEW id \in Nat, q[1].id = id, id \in DOMAIN s.listening,
           NEW still, still => exact /\ StateOf(s, id).outstanding = 1
    PROVE  /\ Sound([s EXCEPT !.listening = Without(@, id), !.states = Without(@, id)],
                    keys, Tail(q), still)
           /\ Left(s, [s EXCEPT !.listening = Without(@, id), !.states = Without(@, id)], id)
<1> DEFINE listening == Without(s.listening, id)
           states == Without(s.states, id)
           t == [s EXCEPT !.listening = Without(@, id), !.states = Without(@, id)]
<1>1. /\ s \in SyncRec /\ Good(s, keys) /\ s.listening \in Partial(Listening)
      /\ s.states \in Partial(TargetState) /\ s.stream = "open" /\ s.requests \in Seq(Asking)
  BY DEF Sound, Good, SyncRec
<1>2. listening \in Partial(Listening) /\ states \in Partial(TargetState)
  BY <1>1, WithoutType
<1>3. t = [s EXCEPT !.listening = listening, !.states = states]
  BY <1>1 DEF SyncRec
<1>4. /\ \A i : i \in DOMAIN listening <=> i \in DOMAIN s.listening /\ i # id
      /\ \A i : i \in DOMAIN states <=> i \in DOMAIN s.states /\ i # id
      /\ \A i \in DOMAIN states : states[i] = s.states[i]
  BY DEF Without
<1> HIDE DEF listening, states, t
<1>5. /\ t \in SyncRec /\ t.listening = listening /\ t.states = states
      /\ t.stream = s.stream /\ t.idle = s.idle /\ t.requests = s.requests
      /\ t.online = s.online /\ t.failed = s.failed /\ t.timer = s.timer
      /\ t.resolving = s.resolving /\ t.enqueued = s.enqueued
      /\ t.nextId = s.nextId /\ t.broken = s.broken
  BY <1>1, <1>2, <1>3 DEF SyncRec
<1>6. Conn(t)
  BY <1>1, <1>4, <1>5 DEF Good, Conn
<1>7. Ids(t) /\ Lookups(t)
  BY <1>1, <1>4, <1>5 DEF Good, Ids, Lookups, Resolving
<1>8. Received(t) /\ Held(t, keys)
  BY <1>1, <1>4, <1>5 DEF Good, Received, Held
<1>9. Good(t, keys)
  BY <1>1, <1>5, <1>6, <1>7, <1>8 DEF Good
<1>10. Tail(q) \in Seq(Response) /\ q[1] \in Response
  BY TailFacts
<1>11. ASSUME NEW i \in Nat
       PROVE  /\ Answered(q, i) = Answered(Tail(q), i) + (IF i = id THEN 1 ELSE 0)
              /\ Answered(Tail(q), i) \in Nat /\ Asked(s.requests, i) \in Nat
  <2>1. IsAnswer(q[1])
    BY DEF IsAnswer
  <2>2. Answered(q, i) = Answered(Tail(q), i) + (IF IsAnswer(q[1]) /\ q[1].id = i THEN 1 ELSE 0)
    BY AnsweredTail
  <2> QED BY <1>1, <1>10, <2>1, <2>2, AnsweredIs, AskedNat
<1>12. ASSUME exact, NEW i \in Nat
       PROVE  StateOf(s, i).outstanding = Asked(s.requests, i) + Answered(q, i)
  BY <1>12 DEF Sound, Exact, Awaited
<1>13. ASSUME still PROVE Asked(s.requests, id) = 0 /\ Answered(Tail(q), id) = 0
  <2>1. 1 = Asked(s.requests, id) + (Answered(Tail(q), id) + 1)
    BY <1>11, <1>12, <1>13
  <2> QED BY <1>11, <2>1
<1>14. still => Awaited(t, Tail(q))
  <2>1. ASSUME still, NEW i \in Nat
        PROVE  StateOf(t, i).outstanding = Asked(t.requests, i) + Answered(Tail(q), i)
    <3>1. CASE i = id
      <4>1. StateOf(t, i).outstanding = 0
        BY <1>4, <1>5, <3>1 DEF StateOf, Fresh
      <4> QED BY <1>5, <1>13, <2>1, <3>1, <4>1
    <3>2. CASE i # id
      <4>1. StateOf(t, i) = StateOf(s, i)
        BY <1>4, <1>5, <3>2 DEF StateOf
      <4>2. Answered(q, i) = Answered(Tail(q), i)
        BY <1>11, <3>2
      <4> QED BY <1>5, <1>12, <2>1, <4>1, <4>2
    <3> QED BY <3>1, <3>2
  <2> QED BY <2>1 DEF Awaited
<1>15. still => \A i \in Nat \ DOMAIN t.listening : LetGo(t.requests, Tail(q), i)
  <2>1. ASSUME still, NEW i \in Nat \ DOMAIN t.listening PROVE LetGo(s.requests, Tail(q), i)
    <3>1. CASE i = id
      BY <1>1, <1>10, <1>13, <2>1, <3>1, NoneAskedOf
    <3>2. CASE i # id
      <4>1. LetGo(s.requests, q, i)
        BY <1>4, <1>5, <2>1, <3>2 DEF Sound, Exact
      <4> QED BY <4>1, LetGoReceived
    <3> QED BY <3>1, <3>2
  <2> QED BY <1>5, <2>1
<1>16. Left(s, t, id)
  BY <1>4, <1>5 DEF Left
<1>17. Sound(t, keys, Tail(q), still)
  BY <1>1, <1>5, <1>9, <1>14, <1>15 DEF Sound, Exact
<1> QED BY <1>16, <1>17 DEF t

\* One more request for a target that is listened to.
LEMMA RequestSound ==
    ASSUME NEW s, NEW keys, NEW q \in Seq(Response), NEW exact, Sound(s, keys, q, exact),
           s.stream = "open", NEW id \in DOMAIN s.listening, NEW r \in Asking, r.id = id
    PROVE  /\ Sound(Request(s, id, r), keys, q, exact)
           /\ Request(s, id, r) \in SyncRec /\ Requested(s, Request(s, id, r), id, r)
<1> DEFINE t == Request(s, id, r)
<1>1. /\ s \in SyncRec /\ Good(s, keys) /\ s.requests \in Seq(Asking)
  BY DEF Sound, Good, SyncRec
<1>2. /\ Ids(s) /\ Lookups(s) /\ Received(s) /\ Held(s, keys) /\ ~s.broken
      /\ (s.timer => s.online = "unknown" /\ ~s.failed) /\ (s.failed => s.online = "offline")
  BY <1>1 DEF Good, Conn
<1>3. id \in 0..s.nextId - 1 /\ id \in Nat
  BY <1>1, <1>2 DEF Ids, SyncRec
<1>4. Good(t, keys)
  BY <1>1, <1>2, <1>3, RequestGood
<1>5. t \in SyncRec /\ Requested(s, t, id, r)
  BY <1>1, <1>3, RequestIs
<1>6. exact => Awaited(t, q)
  <2>1. \A i \in Nat : Answered(q, i) \in Nat
    BY AnsweredIs
  <2>2. exact => Awaited(s, q)
    BY DEF Sound, Exact
  <2> QED BY <1>1, <1>3, <2>1, <2>2, RequestAwaited
<1> HIDE DEF t
<1>7. t.requests = Append(s.requests, r) /\ t.listening = s.listening /\ t.stream = "open"
  BY <1>5 DEF Requested
<1>8. exact => \A i \in Nat \ DOMAIN t.listening : LetGo(t.requests, q, i)
  <2>1. ASSUME exact, NEW i \in Nat \ DOMAIN s.listening PROVE LetGo(Append(s.requests, r), q, i)
    <3>1. LetGo(s.requests, q, i) /\ i # id
      BY <2>1 DEF Sound, Exact
    <3> QED BY <1>1, <3>1, LetGoAppend
  <2> QED BY <1>7, <2>1
<1>9. Sound(t, keys, q, exact)
  BY <1>4, <1>6, <1>7, <1>8 DEF Sound, Exact
<1> QED BY <1>5, <1>9 DEF t

\* A target that is listened to may be asked for.
LEMMA SendWatchSound ==
    ASSUME NEW s, NEW keys, NEW q \in Seq(Response), NEW exact, Sound(s, keys, q, exact),
           s.stream = "open", NEW id \in DOMAIN s.listening
    PROVE  /\ Sound(SendWatchRequest(s, id), keys, q, exact)
           /\ Collected(s, SendWatchRequest(s, id))
<1> DEFINE r == [op |-> "watch", id |-> id, target |-> s.listening[id].target,
                 token |-> s.listening[id].token]
           t == SendWatchRequest(s, id)
<1>1. /\ s \in SyncRec /\ s.listening \in Partial(Listening) /\ id \in 0..s.nextId - 1
      /\ id \in Nat
  BY DEF Sound, Good, SyncRec, Ids
<1>2. s.listening[id] \in Listening
  BY <1>1, PartialFacts
<1>3. r \in Asking /\ r.id = id
  BY <1>1, <1>2 DEF Asking, Listening
<1>4. t = Request(s, id, r)
  BY DEF SendWatchRequest
<1> HIDE DEF r, t
<1>5. Sound(t, keys, q, exact) /\ t \in SyncRec /\ Requested(s, t, id, r)
  BY <1>3, <1>4, RequestSound
<1>6. Collected(s, t)
  BY <1>5 DEF Requested, Collected
<1> QED BY <1>5, <1>6 DEF t

-----------------------------------------------------------------------------
(* Remote events                                                           *)

TargetChange ==
    [added : SUBSET Doc, modified : SUBSET Doc, removed : SUBSET Doc,
     current : BOOLEAN, token : Version]
Remote == [version : Version, changes : Partial(TargetChange), updates : [Doc -> KnownDoc]]

\* What a remote event modifies or removes was received.
EventFits(s, keys, event) ==
    /\ DOMAIN event.changes \subseteq DOMAIN s.listening
    /\ \A id \in DOMAIN event.changes : id \in DOMAIN s.resolving =>
          (event.changes[id].modified # {} \/ event.changes[id].removed # {} =>
              s.resolving[id].received)
    /\ Query \in DOMAIN event.changes =>
          /\ event.changes[Query].modified \subseteq keys
          /\ event.changes[Query].added \cap event.changes[Query].removed = {}

\* What is in the event is not collected any more.
Cleared(s, event) ==
    \A id \in DOMAIN event.changes : id \in DOMAIN s.states =>
        \A d \in Doc : s.states[id].changes[d] = "none"

\* An event is of the changes that the states hold, each fit for its target.
LEMMA RemoteEventIs ==
    ASSUME NEW s, NEW keys, Good(s, keys), NEW version \in Version
    PROVE  /\ RemoteEvent(s, version) \in Remote
           /\ EventFits(s, keys, RemoteEvent(s, version))
<1> DEFINE gone == {id \in DOMAIN s.states : Gone(s, id)}
           changing == gone \cup {id \in DOMAIN s.states :
                                     IsActive(s, id) /\ s.states[id].dirty}
           change(id) == [added    |-> ChangesOf(s.states[id], "added"),
                          modified |-> ChangesOf(s.states[id], "modified"),
                          removed  |-> ChangesOf(s.states[id], "removed"),
                          current  |-> s.states[id].current,
                          token    |-> s.states[id].token]
           changes == [id \in changing |-> change(id)]
           updates == [d \in Doc |->
                         IF \E id \in gone : s.listening[id].target = d
                         THEN NoDocument(version) ELSE s.updates[d]]
           event == RemoteEvent(s, version)
<1>1. /\ s \in SyncRec /\ s.states \in Partial(TargetState) /\ s.updates \in [Doc -> KnownDoc]
      /\ Received(s) /\ Held(s, keys)
  BY DEF Good, SyncRec
<1>2. event = [version |-> version, changes |-> changes, updates |-> updates]
  BY DEF RemoteEvent
<1>3. changing \subseteq DOMAIN s.states /\ \A id \in changing : IsActive(s, id)
  BY DEF Gone
<1>4. NoDocument(version) \in KnownDoc
  BY DEF NoDocument, KnownDoc, Document
<1>5. updates \in [Doc -> KnownDoc]
  BY <1>1, <1>4
<1> HIDE DEF gone, changing, updates, event
<1>6. \A id \in DOMAIN s.states : s.states[id] \in TargetState
  BY <1>1, PartialFacts
<1>7. \A id \in changing : change(id) \in TargetChange
  BY <1>3, <1>6 DEF TargetChange, TargetState, ChangesOf
<1>8. DOMAIN s.states \in SUBSET Nat
  BY <1>1, PartialFacts
<1>9. changes \in Partial(TargetChange)
  <2>1. changing \in SUBSET Nat /\ changes \in [changing -> TargetChange]
    BY <1>3, <1>7, <1>8
  <2> QED BY <2>1 DEF Partial
<1>10. ASSUME NEW id \in changing
       PROVE  /\ id \in DOMAIN s.listening
              /\ changes[id].modified = ChangesOf(s.states[id], "modified")
              /\ changes[id].removed = ChangesOf(s.states[id], "removed")
              /\ changes[id].added = ChangesOf(s.states[id], "added")
  BY <1>3 DEF IsActive
<1>11. DOMAIN changes = changing
  OBVIOUS
<1> HIDE DEF changes
<1>12. event \in Remote /\ event.changes = changes
  BY <1>2, <1>5, <1>9 DEF Remote
<1>13. EventFits(s, keys, event)
  <2>1. ASSUME NEW id \in changing, id \in DOMAIN s.resolving,
               changes[id].modified # {} \/ changes[id].removed # {}
        PROVE  s.resolving[id].received
    BY <1>1, <1>3, <1>10, <2>1 DEF Received, ChangesOf
  <2>2. ASSUME Query \in changing PROVE changes[Query].modified \subseteq keys
    BY <1>1, <1>3, <1>10, <2>2 DEF Held, ChangesOf
  <2>3. ASSUME Query \in changing
        PROVE  changes[Query].added \cap changes[Query].removed = {}
    BY <1>10, <2>3 DEF ChangesOf
  <2> QED BY <1>10, <1>11, <1>12, <2>1, <2>2, <2>3 DEF EventFits
<1> QED BY <1>12, <1>13 DEF event

\* The changes are taken into the event.
Taken(s, t, event) ==
    t = [s EXCEPT
            !.states = [id \in DOMAIN @ |-> IF id \in DOMAIN event.changes
                                            THEN ClearPendingChanges(@[id]) ELSE @[id]],
            !.updates = NoUpdates,
            !.mismatch = FALSE,
            !.listening = [id \in DOMAIN @ |->
                IF id \in DOMAIN event.changes /\ event.changes[id].token > 0
                THEN [@[id] EXCEPT !.token = event.changes[id].token] ELSE @[id]]]

\* Without pending changes a state is fit for any keys.
LEMMA ClearedState ==
    ASSUME NEW state \in TargetState
    PROVE  /\ ClearPendingChanges(state) \in TargetState
           /\ ClearPendingChanges(state).outstanding = state.outstanding
           /\ \A d \in Doc : ClearPendingChanges(state).changes[d] = "none"
BY DEF ClearPendingChanges, TargetState, Fresh

\* Once an event was taken, the states hold none of it.
LEMMA TakenSound ==
    ASSUME NEW s, NEW keys, NEW p, NEW exact, Sound(s, keys, p, exact), s.stream = "open",
           NEW event \in Remote, NEW t, Taken(s, t, event)
    PROVE  Sound(t, keys, p, exact) /\ Collected(s, t) /\ Cleared(t, event)
<1> DEFINE states == [id \in DOMAIN s.states |-> IF id \in DOMAIN event.changes
                         THEN ClearPendingChanges(s.states[id]) ELSE s.states[id]]
           listening == [id \in DOMAIN s.listening |->
                IF id \in DOMAIN event.changes /\ event.changes[id].token > 0
                THEN [s.listening[id] EXCEPT !.token = event.changes[id].token]
                ELSE s.listening[id]]
<1>1. /\ s \in SyncRec /\ Good(s, keys) /\ s.listening \in Partial(Listening)
      /\ s.states \in Partial(TargetState) /\ event.changes \in Partial(TargetChange)
  BY DEF Sound, Good, SyncRec, Remote
<1>2. Rewritten(s, t, listening, states, NoUpdates, FALSE)
  BY <1>1 DEF Rewritten, Taken, SyncRec
<1>3. \A id \in DOMAIN s.states : s.states[id] \in TargetState
  BY <1>1, PartialFacts
<1>4. \A id \in DOMAIN s.listening : s.listening[id] \in Listening
  BY <1>1, PartialFacts
<1>5. \A id \in DOMAIN event.changes : event.changes[id].token \in Version
  <2>1. \A id \in DOMAIN event.changes : event.changes[id] \in TargetChange
    BY <1>1, PartialFacts
  <2> QED BY <2>1 DEF TargetChange
<1>6. DOMAIN s.states \in SUBSET Nat /\ DOMAIN s.listening \in SUBSET Nat
  BY <1>1, PartialFacts
<1>7. listening \in Partial(Listening) /\ DOMAIN listening = DOMAIN s.listening
  <2>1. \A id \in DOMAIN s.listening : listening[id] \in Listening
    BY <1>4, <1>5 DEF Listening
  <2>2. listening \in [DOMAIN s.listening -> Listening]
    BY <2>1
  <2> HIDE DEF listening
  <2>3. DOMAIN listening = DOMAIN s.listening
    BY <2>2
  <2> QED BY <1>6, <2>2, <2>3 DEF Partial
<1>8. /\ \A id \in DOMAIN s.states : states[id] \in TargetState
      /\ \A id \in DOMAIN s.states : states[id].outstanding = s.states[id].outstanding
      /\ \A id \in DOMAIN s.states : \A d \in Doc :
            states[id].changes[d] # "none" =>
               id \notin DOMAIN event.changes /\ states[id].changes[d] = s.states[id].changes[d]
  BY <1>3, ClearedState
<1>9. states \in Partial(TargetState) /\ DOMAIN states = DOMAIN s.states
  <2>1. states \in [DOMAIN s.states -> TargetState]
    BY <1>8
  <2> HIDE DEF states
  <2>2. DOMAIN states = DOMAIN s.states
    BY <2>1
  <2> QED BY <1>6, <2>1, <2>2 DEF Partial
<1> HIDE DEF states, listening
<1>10. Fit(s, keys, p, exact, states)
  <2>1. DOMAIN states \subseteq 0..s.nextId - 1
    BY <1>1, <1>9 DEF Good, Ids
  <2>2. \A id \in DOMAIN states : id \in DOMAIN s.resolving =>
           \A d \in Doc : states[id].changes[d] \in {"modified", "removed"} => s.resolving[id].received
    BY <1>1, <1>8, <1>9 DEF Good, Received
  <2>3. Query \in DOMAIN states => \A d \in Doc : states[Query].changes[d] = "modified" => d \in keys
    BY <1>1, <1>8, <1>9 DEF Good, Held
  <2>4. \A i : (IF i \in DOMAIN states THEN states[i].outstanding ELSE 0) = StateOf(s, i).outstanding
    BY <1>8, <1>9 DEF StateOf, Fresh
  <2> QED BY <2>1, <2>2, <2>3, <2>4 DEF Fit, Sound, Exact, Awaited
<1>11. NoUpdates \in [Doc -> KnownDoc] /\ FALSE \in BOOLEAN
  BY DEF NoUpdates, Invalid, NoDocument, KnownDoc, Document
<1>12. Sound(t, keys, p, exact) /\ Collected(s, t) /\ CollectedInto(s, t, listening, states)
  BY <1>2, <1>7, <1>9, <1>10, <1>11, StatesSound
<1>13. t.states = states
  BY <1>12 DEF CollectedInto
<1>14. Cleared(t, event)
  BY <1>8, <1>9, <1>13 DEF Cleared
<1> QED BY <1>12, <1>14

\* The states that a sound client has fit it.
LEMMA FitSelf ==
    ASSUME NEW s, NEW keys, NEW p, NEW exact, Sound(s, keys, p, exact)
    PROVE  Fit(s, keys, p, exact, s.states)
<1>1. /\ DOMAIN s.states \subseteq 0..s.nextId - 1 /\ Received(s) /\ Held(s, keys)
  BY DEF Sound, Good, Ids
<1>2. \A i : (IF i \in DOMAIN s.states THEN s.states[i].outstanding ELSE 0) = StateOf(s, i).outstanding
  BY DEF StateOf, Fresh
<1> QED BY <1>1, <1>2 DEF Fit, Received, Held, Sound, Exact, Awaited

\* What is collected in two steps is collected.
LEMMA CollectedTwice ==
    ASSUME NEW s, NEW t, NEW u, Collected(s, t), Collected(t, u)
    PROVE  Collected(s, u)
BY DEF Collected

\* A request does not bring back what was taken.
LEMMA RequestCleared ==
    ASSUME NEW s \in SyncRec, NEW event, Cleared(s, event), NEW id, NEW r, NEW t,
           Requested(s, t, id, r)
    PROVE  Cleared(t, event) /\ Collected(s, t)
<1>1. ASSUME NEW i \in DOMAIN event.changes, i \in DOMAIN t.states, NEW d \in Doc
      PROVE  t.states[i].changes[d] = "none"
  <2>1. CASE i = id
    BY <1>1, <2>1 DEF Requested, Cleared, StateOf, Fresh
  <2>2. CASE i # id
    BY <1>1, <2>2 DEF Requested, Cleared
  <2> QED BY <2>1, <2>2
<1> QED BY <1>1 DEF Cleared, Collected, Requested

\* The query may be asked for anew.
LEMMA RewatchSound ==
    ASSUME NEW s, NEW keys, NEW q \in Seq(Response), NEW exact, Sound(s, keys, q, exact),
           s.stream = "open", Query \in DOMAIN s.listening, NEW event, Cleared(s, event)
    PROVE  /\ Sound(Rewatch(s), keys, q, exact)
           /\ Collected(s, Rewatch(s)) /\ Cleared(Rewatch(s), event)
<1> DEFINE entry == [s.listening[Query] EXCEPT !.token = 0]
           listening == [s.listening EXCEPT ![Query] = entry]
           a == [s EXCEPT !.listening[Query].token = 0]
           r == [op |-> "unwatch", id |-> Query, target |-> Query, token |-> 0]
           b == Request(a, Query, r)
           w == [op |-> "watch", id |-> Query, target |-> b.listening[Query].target,
                 token |-> b.listening[Query].token]
           c == Request(b, Query, w)
<1>1. /\ s \in SyncRec /\ s.listening \in Partial(Listening) /\ s.states \in Partial(TargetState)
      /\ s.updates \in [Doc -> KnownDoc] /\ s.mismatch \in BOOLEAN
  BY DEF Sound, Good, SyncRec
<1>2. 0 \in Version /\ Query \in Nat
  BY BoundsAssumption DEF Version, Query
<1>3. entry \in Listening
  <2>1. s.listening[Query] \in Listening
    BY <1>1, PartialFacts
  <2> QED BY <1>2, <2>1 DEF Listening
<1>4. listening \in Partial(Listening) /\ DOMAIN listening = DOMAIN s.listening
  <2>1. /\ DOMAIN s.listening \in SUBSET Nat /\ s.listening \in [DOMAIN s.listening -> Listening]
    BY <1>1, PartialFacts
  <2> HIDE DEF entry
  <2>2. listening \in [DOMAIN s.listening -> Listening] /\ DOMAIN listening = DOMAIN s.listening
    BY <1>3, <2>1
  <2> HIDE DEF listening
  <2> QED BY <2>1, <2>2 DEF Partial
<1>5. Rewritten(s, a, listening, s.states, s.updates, s.mismatch)
  BY <1>1 DEF Rewritten, SyncRec
<1> HIDE DEF entry, listening, a
<1>6. Fit(s, keys, q, exact, s.states)
  BY FitSelf
<1>7. Sound(a, keys, q, exact) /\ Collected(s, a) /\ CollectedInto(s, a, listening, s.states)
  BY <1>1, <1>4, <1>5, <1>6, StatesSound
<1>8. a \in SyncRec /\ a.stream = "open" /\ Query \in DOMAIN a.listening
  BY <1>7 DEF Collected, Sound, Good
<1>9. Cleared(a, event)
  BY <1>7 DEF CollectedInto, Cleared
<1>10. r \in Asking /\ r.id = Query
  BY <1>2 DEF Asking
<1> HIDE DEF r
<1>11. Sound(b, keys, q, exact) /\ b \in SyncRec /\ Requested(a, b, Query, r)
  BY <1>7, <1>8, <1>10, RequestSound
<1>12. Cleared(b, event) /\ Collected(a, b)
  BY <1>8, <1>9, <1>11, RequestCleared
<1>19. b = SendUnwatchRequest(a, Query)
  BY DEF SendUnwatchRequest, r
<1> HIDE DEF b
<1>13. b.stream = "open" /\ Query \in DOMAIN b.listening /\ b.listening \in Partial(Listening)
  BY <1>8, <1>11, <1>12 DEF Collected, SyncRec
<1>14. b.listening[Query] \in Listening
  BY <1>13, PartialFacts
<1>15. w \in Asking /\ w.id = Query
  BY <1>2, <1>14 DEF Asking, Listening
<1>20. c = SendWatchRequest(b, Query)
  BY DEF SendWatchRequest
<1> HIDE DEF w
<1>16. Sound(c, keys, q, exact) /\ c \in SyncRec /\ Requested(b, c, Query, w)
  BY <1>11, <1>13, <1>15, RequestSound
<1>17. Cleared(c, event) /\ Collected(b, c)
  BY <1>11, <1>12, <1>16, RequestCleared
<1> HIDE DEF c
<1>18. Collected(s, c)
  BY <1>7, <1>12, <1>17, CollectedTwice
<1>21. c = Rewatch(s)
  BY <1>19, <1>20 DEF Rewatch, a
<1> QED BY <1>16, <1>17, <1>18, <1>21

\* The lookups hear what was received for them.
ReceivedInto(s, t) ==
    /\ DOMAIN t.resolving = DOMAIN s.resolving
    /\ \A id \in DOMAIN s.resolving : t.resolving[id].key = s.resolving[id].key
    /\ t.enqueued = s.enqueued /\ t.listening = s.listening /\ t.nextId = s.nextId
    /\ t.stream = s.stream

\* No assertion of SyncEngine::ApplyRemoteEvent fails: what is modified or
\* removed of a lookup was received.
LEMMA ReceiveLimboSound ==
    ASSUME NEW s, NEW keys, NEW p, NEW exact, Sound(s, keys, p, exact),
           NEW event \in Remote, NEW held, Cleared(s, event), EventFits(s, held, event)
    PROVE  /\ Sound(ReceiveLimbo(s, event), keys, p, exact)
           /\ ReceivedInto(s, ReceiveLimbo(s, event))
<1> DEFINE ids == DOMAIN event.changes \cap DOMAIN s.resolving
           Has(id, kind) == event.changes[id][kind] # {}
           bad == {id \in ids :
                      /\ Has(id, "modified") \/ Has(id, "removed")
                      /\ ~s.resolving[id].received}
           Got(id) == Has(id, "added") \/ (s.resolving[id].received /\ ~Has(id, "removed"))
           got(id) == IF id \in ids THEN Got(id) ELSE s.resolving[id].received
           resolving == [id \in DOMAIN s.resolving |->
                            IF id \in ids THEN [s.resolving[id] EXCEPT !.received = Got(id)]
                            ELSE s.resolving[id]]
           t == ReceiveLimbo(s, event)
<1>1. /\ s \in SyncRec /\ Good(s, keys) /\ s.resolving \in Partial(Lookup)
  BY DEF Sound, Good, SyncRec
<1>2. bad = {}
  BY DEF EventFits
<1>3. t = [s EXCEPT !.resolving = resolving, !.broken = s.broken \/ bad # {}]
  BY Zenon DEF ReceiveLimbo
<1>4. /\ DOMAIN s.resolving \in SUBSET Nat
      /\ \A id \in DOMAIN s.resolving : s.resolving[id] \in Lookup
  BY <1>1, PartialFacts
<1>5. \A id \in DOMAIN s.resolving : 
          /\ got(id) \in BOOLEAN
          /\ id \notin ids => got(id) = s.resolving[id].received
          /\ id \in ids => got(id) = Got(id)
  BY <1>4 DEF Lookup
<1> HIDE DEF bad, t, got, Got, Has, ids
<1>6. /\ \A id \in DOMAIN s.resolving :
            /\ resolving[id] \in Lookup /\ resolving[id].key = s.resolving[id].key
            /\ resolving[id].received = got(id)
      /\ DOMAIN resolving = DOMAIN s.resolving
      /\ resolving = [id \in DOMAIN resolving |-> resolving[id]]
  BY <1>4, <1>5 DEF Lookup
<1> HIDE DEF resolving
<1>7. resolving \in Partial(Lookup)
  BY <1>4, <1>6, PartialIs
<1>8. /\ t \in SyncRec /\ t.resolving = resolving /\ ~t.broken
      /\ t.stream = s.stream /\ t.idle = s.idle /\ t.requests = s.requests
      /\ t.online = s.online /\ t.failed = s.failed /\ t.timer = s.timer
      /\ t.listening = s.listening /\ t.enqueued = s.enqueued
      /\ t.nextId = s.nextId /\ t.states = s.states
  BY <1>1, <1>2, <1>3, <1>7 DEF SyncRec, Good
<1>9. ReceivedInto(s, t)
  BY <1>6, <1>8 DEF ReceivedInto
<1>10. Conn(t) /\ Ids(t) /\ Held(t, keys)
  BY <1>1, <1>6, <1>8 DEF Good, Conn, Ids, Held
<1>11. Lookups(t)
  <2>1. Resolving(t) = Resolving(s)
    BY <1>6, <1>8 DEF Resolving
  <2> QED BY <1>1, <1>6, <1>8, <2>1 DEF Good, Lookups
<1>12. Received(t)
  <2>1. ASSUME NEW id \in DOMAIN s.states, id \in DOMAIN s.resolving, NEW d \in Doc,
               s.states[id].changes[d] \in {"modified", "removed"}
        PROVE  resolving[id].received
    <3>1. id \notin ids
      BY <2>1 DEF Cleared, ids
    <3>2. s.resolving[id].received
      BY <1>1, <2>1 DEF Good, Received
    <3> QED BY <1>5, <1>6, <2>1, <3>1, <3>2
  <2> QED BY <1>6, <1>8, <2>1 DEF Received
<1>13. Good(t, keys)
  BY <1>8, <1>10, <1>11, <1>12 DEF Good
<1>14. exact => Exact(t, p)
  BY <1>8 DEF Sound, Exact, Awaited, StateOf
<1>15. Sound(t, keys, p, exact)
  BY <1>8, <1>13, <1>14 DEF Sound
<1> QED BY <1>9, <1>15 DEF t

-----------------------------------------------------------------------------
(* The invariant: calls and events                                         *)

Task == [op : {"add", "remove"}, listener : Nat]
Handed == [listener : Nat, added : SUBSET Doc, error : BOOLEAN]

\* The events under way are those of calls that were made.
Told(ls, events) ==
    /\ ls \in Seq(Listener) /\ events \in Seq(Handed)
    /\ \A i \in DOMAIN events : events[i].listener \in 1..Len(ls)

\* Who is listened to does not change.
SamePhases(ls, now) ==
    /\ now \in Seq(Listener) /\ Len(now) = Len(ls)
    /\ \A l \in 1..Len(ls) : now[l].phase = ls[l].phase

\* Raised marks the calls that were handed an event, and nothing else.
LEMMA RaisedIs ==
    ASSUME NEW ls \in Seq(Listener), NEW heard
    PROVE  SamePhases(ls, Raised(ls, heard))
<1> DEFINE now == Raised(ls, heard)
<1>1. Len(ls) \in Nat /\ DOMAIN ls = 1..Len(ls) /\ \A l \in 1..Len(ls) : ls[l] \in Listener
  BY SeqFacts
<1>2. now = [l \in 1..Len(ls) |-> [ls[l] EXCEPT !.raised = @ \/ l \in heard]]
  BY <1>1 DEF Raised
<1>3. ASSUME NEW l \in 1..Len(ls)
      PROVE  now[l] \in Listener /\ now[l].phase = ls[l].phase
  <2>1. ls[l] \in Listener
    BY <1>1
  <2>2. now[l] = [ls[l] EXCEPT !.raised = ls[l].raised \/ l \in heard]
    BY <1>2
  <2> HIDE DEF now
  <2> QED BY <2>1, <2>2 DEF Listener
<1>4. now \in [1..Len(ls) -> Listener]
  <2>1. DOMAIN now = 1..Len(ls) /\ now = [l \in 1..Len(ls) |-> now[l]]
    BY <1>2
  <2> HIDE DEF now
  <2> QED BY <1>3, <2>1
<1> HIDE DEF now
<1>5. now \in Seq(Listener) /\ Len(now) = Len(ls)
  BY <1>1, <1>4
<1> QED BY <1>3, <1>5 DEF SamePhases, now

\* EventsFor makes one event for each listener that hears of the change.
LEMMA EventsForIs ==
    ASSUME NEW ls \in Seq(Listener), NEW heard \in SUBSET DOMAIN ls, NEW old, NEW new
    PROVE  Told(ls, EventsFor(ls, heard, old, new))
<1> DEFINE order == Sorted(heard)
           q == EventsFor(ls, heard, old, new)
           n == Cardinality(heard)
<1>1. Len(ls) \in Nat /\ DOMAIN ls = 1..Len(ls)
  BY SeqFacts
<1>2. heard \in SUBSET Nat /\ IsFiniteSet(heard)
  <2>1. heard \in SUBSET (1..Len(ls)) /\ IsFiniteSet(1..Len(ls))
    BY <1>1, FS_Interval
  <2> QED BY <2>1, FS_Subset
<1>3. DOMAIN order = 1..n /\ n \in Nat /\ order \in Seq(heard)
  BY <1>2, SortedFacts
<1>4. \A i \in 1..n : order[i] \in 1..Len(ls)
  BY <1>1, <1>3
<1>5. q = [i \in 1..n |-> Event(order[i], IF ls[order[i]].raised THEN old ELSE NoView, new)]
  BY <1>3 DEF EventsFor
<1> HIDE DEF order, n
<1>6. ASSUME NEW i \in 1..n PROVE q[i] \in Handed /\ q[i].listener \in 1..Len(ls)
  <2>1. \A v : In(v) \subseteq Doc
    BY DEF In
  <2> DEFINE from == IF ls[order[i]].raised THEN old ELSE NoView
             got == In(new.docs) \ In(from.docs)
  <2>2. q[i] = [listener |-> order[i], error |-> FALSE, added |-> got]
    BY <1>5 DEF Event
  <2>3. got \in SUBSET Doc
    BY <2>1
  <2> HIDE DEF got, q
  <2> QED BY <1>1, <1>4, <2>2, <2>3 DEF Handed
<1>7. q \in [1..n -> Handed]
  <2>1. q = [i \in 1..n |-> q[i]]
    BY <1>5
  <2> HIDE DEF q
  <2> QED BY <1>6, <2>1
<1> HIDE DEF q
<1>8. q \in Seq(Handed) /\ DOMAIN q = 1..n
  BY <1>3, <1>7
<1> QED BY <1>6, <1>8 DEF Told, q

\* Events are queued behind those under way.
LEMMA ToldMore ==
    ASSUME NEW ls, NEW p, NEW q, Told(ls, p), Told(ls, q)
    PROVE  Told(ls, p \o q)
<1>1. p \in Seq(Handed) /\ q \in Seq(Handed) /\ Len(p) \in Nat /\ Len(q) \in Nat
      /\ DOMAIN p = 1..Len(p) /\ DOMAIN q = 1..Len(q)
  BY SeqFacts DEF Told
<1>2. p \o q \in Seq(Handed) /\ DOMAIN (p \o q) = 1..Len(p) + Len(q)
      /\ (\A i \in 1..Len(p) : (p \o q)[i] = p[i])
      /\ (\A i \in 1..Len(q) : (p \o q)[Len(p) + i] = q[i])
  BY <1>1, ConcatFacts
<1>3. ASSUME NEW i \in 1..Len(p) + Len(q) PROVE (p \o q)[i].listener \in 1..Len(ls)
  <2>1. CASE i \in 1..Len(p)
    BY <1>1, <1>2, <2>1 DEF Told
  <2>2. CASE i \notin 1..Len(p)
    <3>1. i - Len(p) \in 1..Len(q) /\ i = Len(p) + (i - Len(p))
      BY <1>1, <2>2
    <3>2. (p \o q)[i] = q[i - Len(p)]
      BY <1>2, <3>1
    <3> QED BY <1>1, <3>1, <3>2 DEF Told
  <2> QED BY <2>1, <2>2
<1> QED BY <1>2, <1>3 DEF Told

\* The calls of which the phases are the same hear of the same events.
LEMMA ToldSame ==
    ASSUME NEW ls, NEW now, NEW q, Told(ls, q), now \in Seq(Listener), Len(now) = Len(ls)
    PROVE  Told(now, q)
BY DEF Told

\* Notified tells calls that were made.
LEMMA NotifiedIs ==
    ASSUME NEW ls, NEW old, NEW new, NEW online
    PROVE  Notified(ls, old, new, online) \in SUBSET DOMAIN ls
BY DEF Notified

\* Who hears of a change is told once, and nobody is taken off.
LEMMA OnViewSnapshotsTells ==
    ASSUME NEW ls, NEW old, NEW new, NEW online, Told(ls, main),
           OnViewSnapshots(ls, old, new, online)
    PROVE  SamePhases(ls, listeners') /\ Told(listeners', main')
<1> DEFINE heard == IF HasSnapshot(old, new) THEN Notified(ls, old, new, online) ELSE {}
<1>1. heard \in SUBSET DOMAIN ls
  BY NotifiedIs
<1>2. main' = main \o EventsFor(ls, heard, old, new) /\ listeners' = Raised(ls, heard)
  BY DEF OnViewSnapshots
<1> HIDE DEF heard
<1>3. ls \in Seq(Listener)
  BY DEF Told
<1>4. Told(ls, EventsFor(ls, heard, old, new))
  BY <1>1, <1>3, EventsForIs
<1>5. Told(ls, main')
  BY <1>2, <1>4, ToldMore
<1>6. SamePhases(ls, listeners')
  BY <1>2, <1>3, RaisedIs
<1>7. listeners' \in Seq(Listener) /\ Len(listeners') = Len(ls)
  BY <1>6 DEF SamePhases
<1> QED BY <1>5, <1>6, <1>7, ToldSame

\* Who goes offline tells calls that were made.
LEMMA GoOfflineTells ==
    ASSUME NEW online, Told(listeners, main), GoOffline(online)
    PROVE  SamePhases(listeners, listeners') /\ Told(listeners', main')
<1> DEFINE new == IF view.current
                  THEN ApplyChanges(view, view.docs, view.synced, FALSE) ELSE view
           heard == IF HasSnapshot(view, new)
                    THEN Notified(listeners, view, new, online) ELSE {}
           waiting == {l \in DOMAIN listeners \ heard :
                          listeners[l].phase = "on" /\ ~listeners[l].raised}
           both == heard \cup waiting
           p == EventsFor(listeners, heard, view, new)
           q == EventsFor(listeners, waiting, view, new)
<1>1. heard \in SUBSET DOMAIN listeners
  BY NotifiedIs
<1>2. waiting \in SUBSET DOMAIN listeners
  OBVIOUS
<1>3. main' = (main \o p) \o q /\ listeners' = Raised(listeners, both)
  BY DEF GoOffline
<1> HIDE DEF heard, waiting, new, both
<1>4. listeners \in Seq(Listener)
  BY DEF Told
<1>5. Told(listeners, p) /\ Told(listeners, q)
  BY <1>1, <1>2, <1>4, EventsForIs
<1> HIDE DEF p, q
<1>8. Told(listeners, main \o p)
  BY <1>5, ToldMore
<1>6. Told(listeners, main')
  BY <1>3, <1>5, <1>8, ToldMore
<1>7. SamePhases(listeners, listeners')
  BY <1>3, <1>4, RaisedIs
<1>9. listeners' \in Seq(Listener) /\ Len(listeners') = Len(listeners)
  BY <1>7 DEF SamePhases
<1> QED BY <1>6, <1>7, <1>9, ToldSame

-----------------------------------------------------------------------------
(* The invariant: what is on disk and what is shown                        *)

Known == [token : Version, free : Version]
StoreRec ==
    [cache : [Doc -> KnownDoc], read : [Doc -> Version], keys : SUBSET Doc,
     saved : Known, live : Known, active : BOOLEAN, last : Version]
ViewRec ==
    [open : BOOLEAN, docs : [Doc -> Version], synced : SUBSET Doc, current : BOOLEAN,
     limbo : SUBSET Doc, state : {"none", "local", "synced"}]

\* The view is of the keys on disk, and its limbo is what it holds beyond them.
ViewFits(st, v) ==
    /\ st \in StoreRec /\ v \in ViewRec
    /\ st.active = v.open
    /\ v.open => v.synced = st.keys
    /\ ~v.open => v = NoView
    /\ v.current => v.limbo = In(v.docs) \ v.synced

\* The closed view is a view.
LEMMA NoViewIs == NoView \in ViewRec /\ ~NoView.open /\ ~NoView.current /\ NoView.limbo = {}
<1>1. NoDocs \in [Doc -> Version]
  BY BoundsAssumption DEF NoDocs, Version
<1> QED BY <1>1 DEF NoView, ViewRec

\* What ApplyChanges makes of a view.
Applying(v, out, docs, synced, current) ==
    /\ out \in ViewRec /\ out.open
    /\ out.docs = docs /\ out.synced = synced /\ out.current = current
    /\ out.limbo = IF current THEN In(docs) \ synced ELSE v.limbo

\* And what ApplyChanges makes of a view is one.
LEMMA ApplyChangesIs ==
    ASSUME NEW v \in ViewRec, NEW docs \in [Doc -> Version], NEW synced \in SUBSET Doc,
           NEW current \in BOOLEAN
    PROVE  Applying(v, ApplyChanges(v, docs, synced, current), docs, synced, current)
<1> DEFINE limbo == IF current THEN In(docs) \ synced ELSE v.limbo
           state == IF current /\ limbo = {} THEN "synced" ELSE "local"
           out == ApplyChanges(v, docs, synced, current)
<1>1. out = [open |-> TRUE, docs |-> docs, synced |-> synced, current |-> current,
             limbo |-> limbo, state |-> state]
  BY DEF ApplyChanges
<1>2. limbo \in SUBSET Doc
  BY DEF ViewRec, In
<1>3. state \in {"none", "local", "synced"}
  OBVIOUS
<1>4. limbo = IF current THEN In(docs) \ synced ELSE v.limbo
  OBVIOUS
<1> HIDE DEF limbo, state, out
<1> QED BY <1>1, <1>2, <1>3, <1>4 DEF Applying, ViewRec, out

\* What a remote event leaves on disk.
Stored(st, out, event) ==
    /\ out \in StoreRec /\ out.active = st.active
    /\ out.keys = IF st.active /\ Query \in DOMAIN event.changes
                  THEN (st.keys \ event.changes[Query].removed) \cup event.changes[Query].added
                  ELSE st.keys

\* What StoreRemoteEvent does to the keys and tokens.
LEMMA StoredIs ==
    ASSUME NEW st \in StoreRec, NEW event \in Remote
    PROVE  Stored(st, StoreRemoteEvent(st, event), event)
<1> DEFINE changed == Applied(st, event.updates)
           known == st.active /\ Query \in DOMAIN event.changes
           c == event.changes[Query]
           moved == c.added \cup c.modified \cup c.removed # {}
           live == IF known /\ c.token > 0 THEN [st.live EXCEPT !.token = c.token] ELSE st.live
           cache == [d \in Doc |-> CASE d \notin changed -> st.cache[d]
                                     [] event.updates[d] = NoDocument(0) -> Invalid
                                     [] OTHER -> event.updates[d]]
           read == [d \in Doc |-> IF d \in changed THEN event.version ELSE st.read[d]]
           keys == IF known THEN (st.keys \ c.removed) \cup c.added ELSE st.keys
           saved == IF known /\ c.token > 0 /\ (moved \/ st.live.token = 0) THEN live ELSE st.saved
           last == IF event.version > 0 THEN event.version ELSE st.last
           out == StoreRemoteEvent(st, event)
<1>1. /\ st.cache \in [Doc -> KnownDoc] /\ st.read \in [Doc -> Version]
      /\ st.keys \in SUBSET Doc /\ st.saved \in Known /\ st.live \in Known
      /\ st.last \in Version /\ st.active \in BOOLEAN
  BY DEF StoreRec
<1>2. /\ event.version \in Version /\ event.changes \in Partial(TargetChange)
      /\ event.updates \in [Doc -> KnownDoc]
  BY DEF Remote
<1>3. Query \in DOMAIN event.changes => c \in TargetChange
  BY <1>2, PartialFacts
<1>4. out = [st EXCEPT !.cache = cache, !.read = read, !.keys = keys, !.live = live,
                       !.saved = saved, !.last = last]
  BY Zenon DEF StoreRemoteEvent
<1>5. cache \in [Doc -> KnownDoc]
  <2>1. Invalid \in KnownDoc
    BY DEF Invalid, NoDocument, KnownDoc, Document
  <2>2. ASSUME NEW d \in Doc PROVE cache[d] \in KnownDoc
    <3>1. st.cache[d] \in KnownDoc /\ event.updates[d] \in KnownDoc
      BY <1>1, <1>2
    <3>2. d \notin changed => event.updates[d] # NoDocument(0)
      BY DEF Applied, Invalid, NoDocument
    <3> HIDE DEF changed
    <3>3. CASE d \notin changed
      BY <3>1, <3>2, <3>3
    <3>4. CASE d \in changed /\ event.updates[d] = NoDocument(0)
      BY <2>1, <3>4
    <3>5. CASE d \in changed /\ event.updates[d] # NoDocument(0)
      BY <3>1, <3>5
    <3> QED BY <3>3, <3>4, <3>5
  <2>3. cache = [d \in Doc |-> cache[d]]
    OBVIOUS
  <2> HIDE DEF cache
  <2> QED BY <2>2, <2>3
<1>6. read \in [Doc -> Version]
  BY <1>1, <1>2
<1>7. keys \in SUBSET Doc
  <2>1. CASE known
    BY <1>1, <1>3, <2>1 DEF TargetChange
  <2> QED BY <1>1, <2>1
<1>8. live \in Known
  <2>1. CASE known
    BY <1>1, <1>3, <2>1 DEF TargetChange, Known
  <2> QED BY <1>1, <2>1
<1>9. saved \in Known
  <2> HIDE DEF live
  <2> QED BY <1>1, <1>8
<1>10. last \in Version
  BY <1>1, <1>2
<1>11. keys = IF st.active /\ Query \in DOMAIN event.changes
              THEN (st.keys \ event.changes[Query].removed) \cup event.changes[Query].added
              ELSE st.keys
  OBVIOUS
<1> HIDE DEF cache, read, keys, live, saved, last, out
<1>12. out \in StoreRec /\ out.active = st.active /\ out.keys = keys
  BY <1>1, <1>4, <1>5, <1>6, <1>7, <1>8, <1>9, <1>10 DEF StoreRec
<1> QED BY <1>11, <1>12 DEF Stored, out

-----------------------------------------------------------------------------
(* The invariant: lookups                                                  *)

\* The query is listened to while its view is open.
Targets(v) == IF v.open THEN {Query} ELSE {}

\* Nothing is looked up that is not in limbo; all of it is, but for lookups
\* that were abandoned.
LimboFits(s, v, whole) ==
    /\ Backed(s, Targets(v))
    /\ Looked(s) \subseteq v.limbo
    /\ whole => Looked(s) = v.limbo

Shifted(looked, old, new) == (looked \ (old \ new)) \cup (new \ old)

\* What a remote event does to the store, the view, the lookups and the calls.
EventApplied(s, event, q, exact) ==
    /\ Sound(sync', store'.keys, q, exact)
    /\ Tracked(s, sync', Targets(view), Shifted(Looked(s), view.limbo, view'.limbo))
    /\ ViewFits(store', view') /\ view'.open = view.open
    /\ SamePhases(listeners, listeners') /\ Told(listeners', main')
    /\ \A d \in Doc : view'.current /\ event.updates[d] = NoDocument(0) => d \notin view'.limbo
    /\ Query \notin DOMAIN event.changes => view'.current = view.current

\* Where the changes of the query are cleared, what it holds may be anything.
LEMMA HeldElse ==
    ASSUME NEW s, NEW keys, NEW q, NEW exact, Sound(s, keys, q, exact),
           NEW event, Cleared(s, event), NEW now,
           now # keys => Query \in DOMAIN event.changes
    PROVE  Sound(s, now, q, exact)
<1>1. Held(s, keys)
  BY DEF Sound, Good
<1>2. Held(s, now)
  <2>1. CASE now = keys
    BY <1>1, <2>1
  <2>2. CASE now # keys
    BY <2>2 DEF Cleared, Held
  <2> QED BY <2>1, <2>2
<1> QED BY <1>2 DEF Sound, Good

\* A remote event keeps the view's keys those on disk.
LEMMA EventViewIs ==
    ASSUME ViewFits(store, view), NEW event \in Remote, NEW s, EventFits(s, store.keys, event),
           ApplyRemoteEvent(s, event)
    PROVE  /\ ViewFits(store', view') /\ view'.open = view.open
           /\ \A d \in Doc : view'.current /\ event.updates[d] = NoDocument(0) => d \notin view'.limbo
           /\ Query \notin DOMAIN event.changes => view'.current = view.current
           /\ store'.keys # store.keys => Query \in DOMAIN event.changes
<1> DEFINE changed == Applied(store, event.updates)
           saved == StoreRemoteEvent(store, event)
           docs == [d \in Doc |-> IF d \notin changed THEN view.docs[d]
                                  ELSE IF event.updates[d].found
                                  THEN event.updates[d].version ELSE 0]
           told == Query \in DOMAIN event.changes
           c == event.changes[Query]
           synced == IF told THEN (view.synced \cup c.added) \ c.removed ELSE view.synced
           current == IF told THEN c.current ELSE view.current
           new == IF view.open THEN ApplyChanges(view, docs, synced, current) ELSE view
           limboFree == view.open /\ HasSnapshot(view, new) /\ ~FromCache(new)
<1>1. /\ view' = new
      /\ store' = IF limboFree THEN [saved EXCEPT !.live.free = saved.live.token] ELSE saved
  BY DEF ApplyRemoteEvent
<1>2. store \in StoreRec /\ view \in ViewRec
  BY DEF ViewFits
<1>3. Stored(store, saved, event)
  BY <1>2, StoredIs
<1>4. /\ event.changes \in Partial(TargetChange) /\ event.updates \in [Doc -> KnownDoc]
  BY DEF Remote
<1>5. told => c \in TargetChange
  BY <1>4, PartialFacts
<1>6. docs \in [Doc -> Version]
  <2>1. \A d \in Doc : event.updates[d] \in KnownDoc
    BY <1>4
  <2>2. \A d \in Doc : event.updates[d].found => event.updates[d].version \in Version
    BY <2>1 DEF KnownDoc
  <2>3. 0 \in Version
    BY BoundsAssumption DEF Version
  <2>4. view.docs \in [Doc -> Version]
    BY <1>2 DEF ViewRec
  <2> HIDE DEF changed
  <2> QED BY <2>2, <2>3, <2>4
<1>7. synced \in SUBSET Doc /\ current \in BOOLEAN
  <2>1. view.synced \in SUBSET Doc /\ view.current \in BOOLEAN
    BY <1>2 DEF ViewRec
  <2>2. CASE told
    BY <1>5, <2>1, <2>2 DEF TargetChange
  <2>3. CASE ~told
    BY <2>1, <2>3
  <2> QED BY <2>2, <2>3
<1>8. view.open => Applying(view, new, docs, synced, current)
  BY <1>2, <1>6, <1>7, ApplyChangesIs
<1>9. ~view.open => new = NoView
  BY DEF ViewFits
<1>10. new \in ViewRec /\ new.open = view.open
  <2>1. CASE view.open
    BY <1>8, <2>1 DEF Applying
  <2>2. CASE ~view.open
    BY <1>2, <1>9, <2>2, NoViewIs DEF ViewRec
  <2> QED BY <2>1, <2>2
<1>11. store' \in StoreRec /\ store'.active = saved.active /\ store'.keys = saved.keys
  <2>1. saved \in StoreRec
    BY <1>3 DEF Stored
  <2>2. saved.live \in Known
    BY <2>1 DEF StoreRec
  <2> DEFINE live == [saved.live EXCEPT !.free = saved.live.token]
  <2>3. live \in Known
    BY <2>2 DEF Known
  <2>4. store' = saved \/ store' = [saved EXCEPT !.live = live]
    BY <1>1, <2>1 DEF StoreRec
  <2> HIDE DEF live, saved
  <2> QED BY <2>1, <2>3, <2>4 DEF StoreRec
<1>12. store'.active = view'.open
  BY <1>1, <1>3, <1>10, <1>11 DEF Stored, ViewFits
<1>13. ASSUME view.open PROVE view'.synced = store'.keys
  <2>1. view.synced = store.keys /\ store.active
    BY <1>13 DEF ViewFits
  <2>2. view'.synced = synced
    BY <1>1, <1>8, <1>13 DEF Applying
  <2>3. CASE told
    <3>1. c.added \cap c.removed = {}
      BY <2>3 DEF EventFits
    <3>2. store'.keys = (store.keys \ c.removed) \cup c.added
      BY <1>3, <1>11, <2>1, <2>3 DEF Stored
    <3> QED BY <2>1, <2>2, <2>3, <3>1, <3>2
  <2>4. CASE ~told
    BY <1>3, <1>11, <2>1, <2>2, <2>4 DEF Stored
  <2> QED BY <2>3, <2>4
<1>14. new.current => new.limbo = In(new.docs) \ new.synced
  <2>1. CASE view.open
    BY <1>8, <2>1 DEF Applying
  <2>2. CASE ~view.open
    BY <1>9, <2>2, NoViewIs
  <2> QED BY <2>1, <2>2
<1>15. ASSUME NEW d \in Doc, new.current, event.updates[d] = NoDocument(0)
       PROVE  d \notin new.limbo
  <2>1. view.open
    BY <1>9, <1>15, NoViewIs
  <2>2. d \in changed
    BY <1>15 DEF Applied, NoDocument, Invalid
  <2>3. docs[d] = 0
    BY <1>15, <2>2 DEF NoDocument
  <2>4. new.docs = docs
    BY <1>8, <2>1 DEF Applying
  <2> HIDE DEF docs, new
  <2> QED BY <1>14, <1>15, <2>3, <2>4 DEF In
<1>16. ~told => new.current = view.current
  <2>1. CASE view.open
    BY <1>8, <2>1 DEF Applying
  <2>2. CASE ~view.open
    BY <2>2
  <2> QED BY <2>1, <2>2
<1>17. store'.keys # store.keys => told
  BY <1>3, <1>11 DEF Stored
<1> HIDE DEF new, saved, docs, synced, current, told
<1>18. ViewFits(store', view')
  <2>1. ~view'.open => view' = NoView
    BY <1>1, <1>9, <1>10
  <2> QED BY <1>1, <1>10, <1>11, <1>12, <1>13, <1>14, <2>1 DEF ViewFits
<1> QED BY <1>1, <1>10, <1>15, <1>16, <1>17, <1>18 DEF told

\* A remote event keeps client, disk and view sound, and the limbo looked up.
LEMMA ApplyRemoteEventIs ==
    ASSUME NEW s, NEW q \in Seq(Response), NEW exact, Sound(s, store.keys, q, exact),
           Backed(s, Targets(view)), ViewFits(store, view), Told(listeners, main),
           NEW event \in Remote, EventFits(s, store.keys, event), Cleared(s, event),
           ApplyRemoteEvent(s, event)
    PROVE  EventApplied(s, event, q, exact)
<1> DEFINE Q == Targets(view)
           received == ReceiveLimbo(s, event)
           u == UpdateTrackedLimboDocuments(received, view.limbo, view'.limbo)
           told == Query \in DOMAIN event.changes
           c == event.changes[Query]
           bad == view.open /\ told /\ ~(c.modified \subseteq view.synced \cup c.added)
<1>1. /\ ViewFits(store', view') /\ view'.open = view.open
      /\ \A d \in Doc : view'.current /\ event.updates[d] = NoDocument(0) => d \notin view'.limbo
      /\ Query \notin DOMAIN event.changes => view'.current = view.current
      /\ store'.keys # store.keys => Query \in DOMAIN event.changes
  BY EventViewIs
<1>2. /\ OnViewSnapshots(listeners, view, view', s.online)
      /\ sync' = [u EXCEPT !.broken = @ \/ bad]
  BY DEF ApplyRemoteEvent
<1>3. SamePhases(listeners, listeners') /\ Told(listeners', main')
  BY <1>2, OnViewSnapshotsTells
<1>4. ~bad
  BY DEF ViewFits, EventFits
<1>5. Sound(s, store'.keys, q, exact)
  BY <1>1, HeldElse
<1>6. Sound(received, store'.keys, q, exact) /\ ReceivedInto(s, received)
  BY <1>5, ReceiveLimboSound
<1> HIDE DEF received
<1>7. Backed(received, Q) /\ Looked(received) = Looked(s) /\ Onward(s, received)
  <2>1. Resolving(received) = Resolving(s)
    BY <1>6 DEF ReceivedInto, Resolving
  <2>2. s.nextId \in Nat
    BY <1>5, SoundType
  <2> QED BY <1>6, <2>1, <2>2 DEF ReceivedInto, Backed, Looked, Onward
<1>8. view.limbo \in SUBSET Doc /\ view'.limbo \in SUBSET Doc
  BY <1>1 DEF ViewFits, ViewRec
<1>9. Q \in SUBSET {Query}
  BY DEF Targets
<1> HIDE DEF Q
<1>10. /\ Sound(u, store'.keys, q, exact)
       /\ Tracked(received, u, Q, (Looked(received) \ (view.limbo \ view'.limbo))
                                      \cup (view'.limbo \ view.limbo))
  BY <1>6, <1>7, <1>8, <1>9, UpdateTrackedSound
<1> HIDE DEF u, bad
<1>11. u \in SyncRec
  BY <1>10, SoundType
<1>12. sync' = u
  BY <1>2, <1>4, <1>11 DEF SyncRec
<1>13. Tracked(s, u, Q, Shifted(Looked(s), view.limbo, view'.limbo))
  <2>1. s.nextId \in Nat
    BY <1>5, SoundType
  <2>2. Onward(s, u)
    BY <1>7, <1>10, <2>1, OnwardTwice DEF Tracked
  <2> QED BY <1>7, <1>10, <2>2 DEF Tracked, Shifted
<1> QED BY <1>1, <1>3, <1>10, <1>12, <1>13 DEF EventApplied, Q

-----------------------------------------------------------------------------
(* The invariant                                                           *)

Uncrossed(causes) == "crossed" \notin causes
Whole(causes) == "abandoned" \notin causes

\* The server serves no target of a stream that is not there.
ServerFits ==
    /\ mishaps \in 0..MaxMishaps
    /\ \E n \in 0..2 + mishaps : history \in [0..n -> [Doc -> Version]]
    /\ DOMAIN watched \in SUBSET Nat /\ IsFiniteSet(DOMAIN watched)
    /\ sync.stream # "open" => DOMAIN watched = {}

\* An answer is to a target that was asked for.
AnswersFit(q, n) ==
    q \in Seq(Response) /\ \A i \in DOMAIN q : IsAnswer(q[i]) => q[i].id \in 0..n - 1

ClientFits ==
    /\ Sound(sync, store.keys, responses, Uncrossed(tainted))
    /\ AnswersFit(responses, sync.nextId)
    /\ ViewFits(store, view) /\ LimboFits(sync, view, Whole(tainted))

\* The tasks and what is shown are those of calls that were made.
TasksFit(ls, calls, lists) ==
    /\ calls \in Seq(Task) /\ \A i \in DOMAIN calls : calls[i].listener \in 1..Len(ls)
    /\ lists \in Seq([Doc -> Nat]) /\ Len(lists) = Len(ls)

\* The view is open while anybody listens.
Wanted(ls, v) == \A l \in 1..Len(ls) : ls[l].phase = "on" => v.open

CallsFit == Told(listeners, main) /\ TasksFit(listeners, tasks, shown) /\ Wanted(listeners, view)

ListensInv == ServerFits /\ ClientFits /\ CallsFit

\* Whose phases stay stays known to tasks and view.
LEMMA SamePhasesFit ==
    ASSUME NEW ls, NEW now, SamePhases(ls, now), NEW calls, NEW lists, NEW v
    PROVE  /\ TasksFit(ls, calls, lists) => TasksFit(now, calls, lists)
           /\ Wanted(ls, v) => Wanted(now, v)
BY DEF SamePhases, TasksFit, Wanted

-----------------------------------------------------------------------------
(* The calls                                                               *)

\* A new call keeps the invariant.
LEMMA AskFits ==
    ASSUME ListensInv, NEW kind \in {"get", "listen"}, Ask(kind)
    PROVE  ListensInv'
<1> DEFINE l == Len(listeners) + 1
           call == [kind |-> kind, phase |-> "asked", raised |-> FALSE,
                    muted |-> FALSE, handed |-> 0]
           task == [op |-> "add", listener |-> l]
<1>1. /\ listeners' = Append(listeners, call) /\ tasks' = Append(tasks, task)
      /\ shown' = Append(shown, NoDocs)
      /\ UNCHANGED <<history, watched, responses, sync, store, view, main, tainted, mishaps>>
  BY DEF Ask, serverVars
<1>2. /\ listeners \in Seq(Listener) /\ tasks \in Seq(Task) /\ shown \in Seq([Doc -> Nat])
      /\ Len(shown) = Len(listeners)
  BY DEF ListensInv, CallsFit, Told, TasksFit
<1>3. call \in Listener /\ NoDocs \in [Doc -> Nat]
  BY DEF Listener, NoDocs
<1> HIDE DEF call
<1>4. /\ listeners' \in Seq(Listener) /\ Len(listeners') = l /\ Len(listeners) \in Nat
      /\ listeners'[l] = call
      /\ \A i \in 1..Len(listeners) : listeners'[i] = listeners[i]
  BY <1>1, <1>2, <1>3, AppendFacts, SeqFacts
<1>5. l \in Nat /\ task \in Task
  BY <1>4 DEF Task
<1>6. /\ tasks' \in Seq(Task) /\ DOMAIN tasks' = 1..Len(tasks) + 1 /\ DOMAIN tasks = 1..Len(tasks)
      /\ tasks'[Len(tasks) + 1] = task /\ \A i \in 1..Len(tasks) : tasks'[i] = tasks[i]
      /\ Len(tasks) \in Nat
  BY <1>1, <1>2, <1>5, AppendFacts, SeqFacts
<1>7. shown' \in Seq([Doc -> Nat]) /\ Len(shown') = Len(shown) + 1
  BY <1>1, <1>2, <1>3, AppendFacts
<1>8. task.listener = l
  OBVIOUS
<1>9. ASSUME NEW i \in 1..Len(tasks) + 1 PROVE tasks'[i].listener \in 1..l
  <2>1. CASE i = Len(tasks) + 1
    BY <1>4, <1>6, <1>8, <2>1
  <2>2. CASE i # Len(tasks) + 1
    <3>1. i \in 1..Len(tasks)
      BY <1>6, <2>2
    <3>2. tasks[i].listener \in 1..Len(listeners)
      BY <1>6, <3>1 DEF ListensInv, CallsFit, TasksFit
    <3> QED BY <1>4, <1>6, <3>1, <3>2
  <2> QED BY <2>1, <2>2
<1> HIDE DEF task
<1>10. TasksFit(listeners', tasks', shown')
  BY <1>2, <1>4, <1>6, <1>7, <1>9 DEF TasksFit
<1>11. Told(listeners', main')
  <2>1. main' = main /\ main \in Seq(Handed) /\ \A i \in DOMAIN main : main[i].listener \in 1..Len(listeners)
    BY <1>1 DEF ListensInv, CallsFit, Told
  <2> QED BY <1>4, <2>1 DEF Told
<1>12. Wanted(listeners', view')
  <2>1. call.phase = "asked"
    BY DEF call
  <2>2. \A i \in 1..l : i = l \/ i \in 1..Len(listeners)
    BY <1>4
  <2> QED BY <1>1, <1>4, <2>1, <2>2 DEF ListensInv, CallsFit, Wanted
<1>13. ServerFits' /\ ClientFits'
  BY <1>1 DEF ListensInv, ServerFits, ClientFits
<1> QED BY <1>10, <1>11, <1>12, <1>13 DEF ListensInv, CallsFit

\* So does an event that is handed over.
LEMMA DeliverFits ==
    ASSUME ListensInv, Deliver
    PROVE  ListensInv'
<1> DEFINE event == Head(main)
           l == event.listener
           get == listeners[l].kind = "get"
           task == [op |-> "remove", listener |-> l]
<1>1. /\ main # << >> /\ main' = Tail(main)
      /\ UNCHANGED <<history, watched, responses, sync, store, view, tainted, mishaps>>
  BY DEF Deliver, serverVars
<1>2. /\ listeners \in Seq(Listener) /\ tasks \in Seq(Task) /\ shown \in Seq([Doc -> Nat])
      /\ Len(shown) = Len(listeners) /\ main \in Seq(Handed)
      /\ \A i \in DOMAIN main : main[i].listener \in 1..Len(listeners)
  BY DEF ListensInv, CallsFit, Told, TasksFit
<1>3. /\ main' \in Seq(Handed) /\ DOMAIN main' = 1..Len(main) - 1 /\ Len(main) \in Nat \ {0}
      /\ \A i \in 1..Len(main) - 1 : main'[i] = main[i + 1]
      /\ DOMAIN main = 1..Len(main) /\ event = main[1]
  BY <1>1, <1>2, TailFacts, SeqFacts
<1>4. l \in 1..Len(listeners)
  <2>1. 1 \in DOMAIN main
    BY <1>3
  <2>2. main[1].listener \in 1..Len(listeners)
    BY <1>2, <2>1
  <2> QED BY <1>3, <2>2
<1>5. \A i \in DOMAIN main' : main'[i].listener \in 1..Len(listeners)
  <2>1. ASSUME NEW i \in 1..Len(main) - 1 PROVE main'[i].listener \in 1..Len(listeners)
    <3>1. i + 1 \in 1..Len(main)
      BY <1>3
    <3> QED BY <1>2, <1>3, <3>1
  <2> QED BY <1>3, <2>1
<1>6. Told(listeners, main')
  BY <1>2, <1>3, <1>5 DEF Told
<1>7. ServerFits' /\ ClientFits'
  BY <1>1 DEF ListensInv, ServerFits, ClientFits
<1>8. CASE UNCHANGED <<listeners, tasks, shown>>
  BY <1>1, <1>6, <1>7, <1>8 DEF ListensInv, CallsFit
<1>9. CASE ~UNCHANGED <<listeners, tasks, shown>>
  <2>1. /\ listeners' = [listeners EXCEPT
               ![l].handed = @ + (IF get THEN 1 ELSE 0),
               ![l].muted = get /\ ~event.error]
        /\ tasks' = IF get /\ ~event.error THEN Append(tasks, task) ELSE tasks
        /\ shown' = [shown EXCEPT ![l] =
               [d \in Doc |-> @[d] + (IF listeners[l].kind = "listen"
                                         /\ d \in event.added THEN 1 ELSE 0)]]
    BY <1>9 DEF Deliver
  <2> HIDE DEF event, l
  <2>2. /\ Len(listeners) \in Nat /\ DOMAIN listeners = 1..Len(listeners)
        /\ \A i \in 1..Len(listeners) : listeners[i] \in Listener
    BY <1>2, SeqFacts
  <2>3. SamePhases(listeners, listeners')
    <3> DEFINE times == listeners[l].handed + (IF get THEN 1 ELSE 0)
               muted == get /\ ~event.error
               heard == [listeners[l] EXCEPT !.handed = times, !.muted = muted]
    <3>1. listeners[l] \in Listener
      BY <1>4, <2>2
    <3>6. times \in Nat /\ muted \in BOOLEAN
      BY <3>1 DEF Listener
    <3>7. listeners' = [listeners EXCEPT ![l].handed = times, ![l].muted = muted]
      BY <2>1
    <3> HIDE DEF times, muted
    <3>2. heard \in Listener /\ heard.phase = listeners[l].phase
      BY <3>1, <3>6 DEF Listener
    <3>3. listeners' = [listeners EXCEPT ![l] = heard]
      BY <1>2, <1>4, <3>7, <2>2
    <3> HIDE DEF heard
    <3>4. listeners' \in Seq(Listener) /\ Len(listeners') = Len(listeners)
      BY <1>2, <1>4, <3>2, <3>3
    <3>5. \A i \in 1..Len(listeners) : listeners'[i].phase = listeners[i].phase
      BY <2>2, <3>2, <3>3
    <3> QED BY <3>4, <3>5 DEF SamePhases
  <2>4. Told(listeners', main') /\ Wanted(listeners', view')
    <3>1. Wanted(listeners', view)
      BY <2>3, SamePhasesFit DEF ListensInv, CallsFit
    <3>2. listeners' \in Seq(Listener) /\ Len(listeners') = Len(listeners)
      BY <2>3 DEF SamePhases
    <3> QED BY <1>1, <1>6, <3>1, <3>2, ToldSame
  <2>5. tasks' \in Seq(Task) /\ \A i \in DOMAIN tasks' : tasks'[i].listener \in 1..Len(listeners)
    <3>1. \A i \in DOMAIN tasks : tasks[i].listener \in 1..Len(listeners)
      BY DEF ListensInv, CallsFit, TasksFit
    <3>2. CASE tasks' = tasks
      BY <1>2, <3>1, <3>2
    <3>3. CASE tasks' = Append(tasks, task)
      <4>1. task \in Task /\ task.listener = l
        BY <1>4, <2>2 DEF Task
      <4> HIDE DEF task
      <4>2. /\ tasks' \in Seq(Task) /\ DOMAIN tasks' = 1..Len(tasks) + 1 /\ DOMAIN tasks = 1..Len(tasks)
            /\ tasks'[Len(tasks) + 1] = task /\ \A i \in 1..Len(tasks) : tasks'[i] = tasks[i]
            /\ Len(tasks) \in Nat
        BY <1>2, <3>3, <4>1, AppendFacts, SeqFacts
      <4>3. \A i \in 1..Len(tasks) + 1 : i \in 1..Len(tasks) \/ i = Len(tasks) + 1
        BY <4>2
      <4> QED BY <1>4, <3>1, <4>1, <4>2, <4>3
    <3> QED BY <2>1, <3>2, <3>3
  <2>6. shown' \in Seq([Doc -> Nat]) /\ Len(shown') = Len(shown)
    <3> DEFINE more == [d \in Doc |-> shown[l][d] + (IF listeners[l].kind = "listen"
                                         /\ d \in event.added THEN 1 ELSE 0)]
    <3>1. /\ Len(shown) \in Nat /\ DOMAIN shown = 1..Len(shown)
          /\ \A i \in 1..Len(shown) : shown[i] \in [Doc -> Nat]
      BY <1>2, SeqFacts
    <3>2. shown[l] \in [Doc -> Nat]
      BY <1>2, <1>4, <3>1
    <3>3. more \in [Doc -> Nat]
      BY <3>2
    <3>4. shown' = [shown EXCEPT ![l] = more]
      BY <1>2, <1>4, <2>1, <3>1
    <3> HIDE DEF more
    <3> QED BY <1>2, <1>4, <3>3, <3>4
  <2>7. TasksFit(listeners', tasks', shown')
    BY <1>2, <2>3, <2>5, <2>6 DEF TasksFit, SamePhases
  <2> QED BY <1>7, <2>4, <2>7 DEF ListensInv, CallsFit
<1> QED BY <1>8, <1>9

-----------------------------------------------------------------------------
(* The server                                                              *)

\* The latest version is the last.
LEMMA LatestIs ==
    ASSUME NEW n \in Nat, DOMAIN history = 0..n
    PROVE  Latest = n
<1>1. n \in 0..n /\ \A y \in 0..n : n >= y
  OBVIOUS
<1>2. Max(0..n) = CHOOSE x \in 0..n : \A y \in 0..n : x >= y
  BY Zenon DEF Max
<1>3. Max(0..n) \in 0..n /\ \A y \in 0..n : Max(0..n) >= y
  BY <1>1, <1>2
<1>4. Max(0..n) = n
  BY <1>3
<1> QED BY <1>4 DEF Latest

\* A change of the collection keeps the invariant.
LEMMA ChangeFits ==
    ASSUME ListensInv, NEW d \in Doc, Change(d)
    PROVE  ListensInv'
<1>1. PICK v \in {0, Latest + 1} :
         history' = With(history, Latest + 1, [history[Latest] EXCEPT ![d] = v])
  BY DEF Change
<1>2. /\ mishaps < MaxMishaps /\ mishaps' = mishaps + 1
      /\ UNCHANGED <<watched, responses, sync, store, view, listeners, tasks, main,
                     shown, tainted>>
  BY DEF Change, Mishap
<1>3. mishaps \in 0..MaxMishaps /\ MaxMishaps \in Nat
  BY BoundsAssumption DEF ListensInv, ServerFits
<1>4. PICK n \in 0..2 + mishaps : history \in [0..n -> [Doc -> Version]]
  BY DEF ListensInv, ServerFits
<1>5. n \in Nat /\ DOMAIN history = 0..n
  BY <1>3, <1>4
<1>6. Latest = n
  BY <1>5, LatestIs
<1> DEFINE docs == [history[n] EXCEPT ![d] = v]
<1>7. v \in Version
  BY <1>1, <1>2, <1>3, <1>4, <1>6 DEF Version
<1>8. history[n] \in [Doc -> Version]
  BY <1>4, <1>5
<1>9. docs \in [Doc -> Version]
  BY <1>7, <1>8
<1> HIDE DEF docs
<1>10. history' = [i \in 0..n + 1 |-> IF i = n + 1 THEN docs ELSE history[i]]
  <2>1. history' = With(history, n + 1, docs)
    BY <1>1, <1>6 DEF docs
  <2>2. 0..n \cup {n + 1} = 0..n + 1
    BY <1>5
  <2> QED BY <1>5, <2>1, <2>2 DEF With
<1>11. history' \in [0..n + 1 -> [Doc -> Version]]
  <2>1. \A i \in 0..n + 1 : i = n + 1 \/ history[i] \in [Doc -> Version]
    BY <1>4, <1>5
  <2> QED BY <1>9, <1>10, <2>1
<1>12. n + 1 \in 0..2 + mishaps' /\ mishaps' \in 0..MaxMishaps
  BY <1>2, <1>3, <1>4
<1>13. ServerFits'
  BY <1>2, <1>11, <1>12 DEF ListensInv, ServerFits
<1> QED BY <1>2, <1>13 DEF ListensInv, ClientFits, CallsFit

\* What an answered request leaves of the client.
Answering(s, t) ==
    /\ t.resolving = s.resolving /\ t.enqueued = s.enqueued /\ t.nextId = s.nextId
    /\ t.stream = s.stream /\ t.listening = s.listening

\* A request that is answered is still awaited, by its answer now.
LEMMA AnswerSound ==
    ASSUME NEW s, NEW keys, NEW q \in Seq(Response), NEW exact, Sound(s, keys, q, exact),
           s.requests # << >>, NEW m \in Response, IsAnswer(m), m.id = s.requests[1].id,
           s.requests[1].op = "watch" => m.kind # "removed",
           s.requests[1].op = "unwatch" => m.kind = "removed"
    PROVE  /\ Sound([s EXCEPT !.requests = Tail(@)], keys, Append(q, m), exact)
           /\ Answering(s, [s EXCEPT !.requests = Tail(@)])
<1> DEFINE left == Tail(s.requests)
           more == Append(q, m)
           t == [s EXCEPT !.requests = Tail(@)]
<1>1. /\ s \in SyncRec /\ Good(s, keys) /\ s.requests \in Seq(Asking)
  BY DEF Sound, Good, SyncRec
<1>2. /\ left \in Seq(Asking) /\ DOMAIN left = 1..Len(s.requests) - 1
      /\ Len(s.requests) \in Nat \ {0}
      /\ \A i \in 1..Len(s.requests) - 1 : left[i] = s.requests[i + 1]
      /\ DOMAIN s.requests = 1..Len(s.requests)
  BY <1>1, TailFacts, SeqFacts
<1>10. \A id : Asked(s.requests, id) = Asked(left, id) + (IF s.requests[1].id = id THEN 1 ELSE 0)
  BY <1>1, AskedTail
<1>11. \A id : Answered(more, id) = Answered(q, id) + (IF m.id = id THEN 1 ELSE 0)
  BY AnsweredAppend
<1>12. \A id : LetGo(s.requests, q, id) => LetGo(left, more, id)
  BY <1>1, LetGoAnswered
<1>13. \A id : Asked(left, id) \in Nat /\ Answered(q, id) \in Nat
  BY <1>2, AskedNat, AnsweredIs
<1> HIDE DEF left, more
<1>3. /\ t \in SyncRec /\ t.requests = left /\ t.states = s.states
      /\ t.listening = s.listening /\ t.resolving = s.resolving
      /\ t.stream = s.stream /\ t.idle = s.idle /\ t.online = s.online
      /\ t.failed = s.failed /\ t.timer = s.timer /\ t.enqueued = s.enqueued
      /\ t.nextId = s.nextId /\ t.broken = s.broken
  BY <1>1, <1>2 DEF SyncRec, left
<1> HIDE DEF t
<1>4. s.stream = "open"
  BY <1>1 DEF Good, Conn
<1>5. Conn(t)
  BY <1>1, <1>3, <1>4 DEF Good, Conn
<1>6. Ids(t)
  <2>1. ASSUME NEW i \in 1..Len(s.requests) - 1 PROVE left[i].id \in 0..s.nextId - 1
    <3>1. i + 1 \in 1..Len(s.requests)
      BY <1>2
    <3> QED BY <1>1, <1>2, <3>1 DEF Good, Ids
  <2> QED BY <1>1, <1>2, <1>3, <2>1 DEF Good, Ids
<1>7. Lookups(t) /\ Received(t) /\ Held(t, keys)
  BY <1>1, <1>3 DEF Good, Lookups, Received, Held, Resolving
<1>8. Good(t, keys)
  BY <1>1, <1>3, <1>5, <1>6, <1>7 DEF Good
<1>9. ASSUME exact PROVE Exact(t, more)
  <2>1. \A id : StateOf(t, id) = StateOf(s, id)
    BY <1>3 DEF StateOf
  <2>2. Awaited(s, q) /\ \A id \in Nat \ DOMAIN s.listening : LetGo(s.requests, q, id)
    BY <1>9 DEF Sound, Exact
  <2>3. Awaited(t, more)
    <3>1. ASSUME NEW id \in Nat
          PROVE  Asked(s.requests, id) + Answered(q, id) = Asked(left, id) + Answered(more, id)
      BY <1>10, <1>11, <1>13
    <3> QED BY <1>3, <2>1, <2>2, <3>1 DEF Awaited
  <2> QED BY <1>3, <1>12, <2>2, <2>3 DEF Exact
<1> QED BY <1>3, <1>4, <1>8, <1>9 DEF Sound, Answering, t, more

\* The targets that are served stay finitely many.
LEMMA WatchedKept ==
    ASSUME DOMAIN watched \in SUBSET Nat, IsFiniteSet(DOMAIN watched), NEW id \in Nat, NEW e,
           \/ watched' = watched \/ watched' = With(watched, id, e)
           \/ watched' = Without(watched, id) \/ watched' = << >>
    PROVE  DOMAIN watched' \in SUBSET Nat /\ IsFiniteSet(DOMAIN watched')
<1>1. CASE watched' = watched
  BY <1>1
<1>2. CASE watched' = With(watched, id, e)
  <2>1. DOMAIN watched' = DOMAIN watched \cup {id}
    BY <1>2 DEF With
  <2> QED BY <2>1, FS_AddElement
<1>3. CASE watched' = Without(watched, id)
  <2>1. DOMAIN watched' = DOMAIN watched \ {id}
    BY <1>3 DEF Without
  <2> QED BY <2>1, FS_RemoveElement
<1>4. CASE watched' = << >>
  <2>1. DOMAIN watched' = {}
    BY <1>4
  <2> QED BY <2>1, FS_EmptySet
<1> QED BY <1>1, <1>2, <1>3, <1>4

\* The new answer is to a target that was asked for.
LEMMA AnswersFitAppend ==
    ASSUME NEW q, NEW n, AnswersFit(q, n), NEW m \in Response, m.id \in 0..n - 1
    PROVE  AnswersFit(Append(q, m), n)
<1>1. q \in Seq(Response)
  BY DEF AnswersFit
<1>2. /\ Append(q, m) \in Seq(Response) /\ DOMAIN Append(q, m) = 1..Len(q) + 1
      /\ Append(q, m)[Len(q) + 1] = m /\ \A i \in 1..Len(q) : Append(q, m)[i] = q[i]
      /\ Len(q) \in Nat /\ DOMAIN q = 1..Len(q)
  BY <1>1, AppendFacts, SeqFacts
<1>3. \A i \in 1..Len(q) + 1 : i \in 1..Len(q) \/ i = Len(q) + 1
  BY <1>2
<1> QED BY <1>2, <1>3 DEF AnswersFit

\* An answer of the server keeps the invariant.
LEMMA AnswerFits ==
    ASSUME ListensInv, Answer
    PROVE  ListensInv'
<1> DEFINE r == Head(sync.requests)
           s == [sync EXCEPT !.requests = Tail(@)]
<1>1. /\ sync.requests # << >> /\ sync' = s
      /\ UNCHANGED <<history, store, view, listeners, tasks, main, shown, tainted>>
      /\ UNCHANGED mishaps \/ (mishaps < MaxMishaps /\ mishaps' = mishaps + 1)
  BY DEF Answer, Mishap
<1>2. Sound(sync, store.keys, responses, Uncrossed(tainted)) /\ AnswersFit(responses, sync.nextId)
  BY DEF ListensInv, ClientFits
<1>3. /\ sync \in SyncRec /\ sync.requests \in Seq(Asking) /\ sync.nextId \in Nat
      /\ responses \in Seq(Response)
  BY <1>2, SoundType DEF SyncRec, AnswersFit
<1>4. r = sync.requests[1] /\ r \in Asking /\ 1 \in DOMAIN sync.requests
  BY <1>1, <1>3, TailFacts, SeqFacts
<1>5. r.id \in 0..sync.nextId - 1 /\ r.id \in Nat /\ r.op \in {"watch", "unwatch"}
  BY <1>2, <1>3, <1>4 DEF Sound, Good, Ids, Asking
<1> HIDE DEF r
<1>6. PICK kind \in {"added", "removed", "refused"} :
         /\ responses' = Append(responses, [kind |-> kind, id |-> r.id])
         /\ r.op = "watch" => kind # "removed"
         /\ r.op = "unwatch" => kind = "removed"
  BY DEF Answer, r
<1>7. \/ watched' = watched \/ watched' = Without(watched, r.id)
      \/ \E e : watched' = With(watched, r.id, e)
  BY DEF Answer, r
<1> DEFINE m == [kind |-> kind, id |-> r.id]
<1>8. m \in Response /\ IsAnswer(m) /\ m.id = r.id /\ m.kind = kind
  BY <1>5 DEF Response, IsAnswer
<1> HIDE DEF m
<1>9. responses' = Append(responses, m)
  BY <1>6 DEF m
<1>10. Sound(s, store.keys, Append(responses, m), Uncrossed(tainted)) /\ Answering(sync, s)
  BY <1>1, <1>2, <1>3, <1>4, <1>6, <1>8, AnswerSound
<1> HIDE DEF s
<1>11. /\ sync'.nextId = sync.nextId /\ sync'.stream = sync.stream
       /\ sync'.listening = sync.listening /\ sync'.resolving = sync.resolving
       /\ sync'.enqueued = sync.enqueued
  BY <1>1, <1>10 DEF Answering
<1>12. AnswersFit(responses', sync'.nextId)
  BY <1>2, <1>5, <1>8, <1>9, <1>11, AnswersFitAppend
<1>13. LimboFits(sync', view', Whole(tainted'))
  BY <1>1, <1>11 DEF ListensInv, ClientFits, LimboFits, Backed, Looked, Resolving
<1>14. ClientFits'
  BY <1>1, <1>9, <1>10, <1>12, <1>13 DEF ListensInv, ClientFits
<1>15. sync.stream = "open"
  BY <1>1, <1>2 DEF Sound, Good, Conn
<1>16. DOMAIN watched' \in SUBSET Nat /\ IsFiniteSet(DOMAIN watched')
  <2>1. DOMAIN watched \in SUBSET Nat /\ IsFiniteSet(DOMAIN watched)
    BY DEF ListensInv, ServerFits
  <2> QED BY <1>5, <1>7, <2>1, WatchedKept
<1>17. /\ mishaps' \in 0..MaxMishaps
       /\ \E n \in 0..2 + mishaps' : history' \in [0..n -> [Doc -> Version]]
  <2>1. mishaps \in 0..MaxMishaps /\ MaxMishaps \in Nat
    BY BoundsAssumption DEF ListensInv, ServerFits
  <2>2. PICK n \in 0..2 + mishaps : history \in [0..n -> [Doc -> Version]]
    BY DEF ListensInv, ServerFits
  <2>3. n \in 0..2 + mishaps' /\ mishaps' \in 0..MaxMishaps
    BY <1>1, <2>1
  <2> QED BY <1>1, <2>2, <2>3
<1>18. ServerFits'
  BY <1>11, <1>15, <1>16, <1>17 DEF ServerFits
<1>19. CallsFit'
  BY <1>1 DEF ListensInv, CallsFit
<1> QED BY <1>14, <1>18, <1>19 DEF ListensInv

\* What the server pushes is no answer to a request.
Silent(p) == p \in Seq(Response) /\ \A i \in DOMAIN p : ~IsAnswer(p[i])

FromEach(p, S) == p = [i \in DOMAIN Sorted(S) |-> p[i]]

\* Responses that are one for each element and no answers are silent.
LEMMA SilentEach ==
    ASSUME NEW S \in SUBSET Nat, IsFiniteSet(S), NEW p, FromEach(p, S),
           \A i \in DOMAIN Sorted(S) : Sorted(S)[i] \in S => p[i] \in Response /\ ~IsAnswer(p[i])
    PROVE  Silent(p)
<1> DEFINE n == Cardinality(S)
<1>1. Sorted(S) \in Seq(S) /\ DOMAIN Sorted(S) = 1..n /\ n \in Nat /\ Len(Sorted(S)) = n
  BY SortedFacts
<1>2. \A i \in 1..n : Sorted(S)[i] \in S
  BY <1>1, SeqFacts
<1> HIDE DEF n
<1>3. p = [i \in 1..n |-> p[i]]
  BY <1>1 DEF FromEach
<1>4. \A i \in 1..n : p[i] \in Response /\ ~IsAnswer(p[i])
  BY <1>1, <1>2
<1>5. p \in [1..n -> Response]
  BY <1>3, <1>4
<1>6. p \in Seq(Response) /\ DOMAIN p = 1..n
  BY <1>1, <1>5
<1> QED BY <1>4, <1>6 DEF Silent

\* One sequence of responses after the other.
LEMMA ConcatParts ==
    ASSUME NEW q \in Seq(Response), NEW p \in Seq(Response)
    PROVE  /\ q \o p \in Seq(Response)
           /\ \A i \in DOMAIN (q \o p) :
                 \/ i \in DOMAIN q /\ (q \o p)[i] = q[i]
                 \/ \E j \in DOMAIN p : (q \o p)[i] = p[j]
<1>1. /\ Len(q) \in Nat /\ Len(p) \in Nat /\ DOMAIN q = 1..Len(q) /\ DOMAIN p = 1..Len(p)
      /\ q \o p \in Seq(Response) /\ DOMAIN (q \o p) = 1..Len(q) + Len(p)
      /\ (\A i \in 1..Len(q) : (q \o p)[i] = q[i])
      /\ (\A i \in 1..Len(p) : (q \o p)[Len(q) + i] = p[i])
  BY ConcatFacts, SeqFacts
<1>2. ASSUME NEW i \in 1..Len(q) + Len(p), i \notin 1..Len(q)
      PROVE  \E j \in DOMAIN p : (q \o p)[i] = p[j]
  <2>1. i - Len(q) \in 1..Len(p) /\ i = Len(q) + (i - Len(q))
    BY <1>1, <1>2
  <2> QED BY <1>1, <2>1
<1> QED BY <1>1, <1>2

\* Silent responses answer no target.
LEMMA PushedFits ==
    ASSUME NEW q, NEW p, NEW n, AnswersFit(q, n), Silent(p)
    PROVE  AnswersFit(q \o p, n)
BY ConcatParts DEF Silent, AnswersFit

\* And leave what is awaited as it is.
LEMMA PushedSound ==
    ASSUME NEW s, NEW keys, NEW q \in Seq(Response), NEW exact, Sound(s, keys, q, exact),
           s.stream = "open", NEW p, Silent(p)
    PROVE  Sound(s, keys, q \o p, exact)
<1>1. p \in Seq(Response) /\ \A i \in DOMAIN p : ~IsAnswer(p[i])
  BY DEF Silent
<1>2. \A id : Answered(q \o p, id) = Answered(q, id)
  BY <1>1, AnsweredConcat
<1>3. \A id : LetGo(s.requests, q, id) => LetGo(s.requests, q \o p, id)
  BY <1>1, LetGoPushed
<1>4. Exact(s, q) => Exact(s, q \o p)
  BY <1>2, <1>3 DEF Exact, Awaited
<1> QED BY <1>4 DEF Sound

\* What the server pushes keeps the invariant.
LEMMA PushFits ==
    ASSUME ListensInv, Push
    PROVE  ListensInv'
<1> DEFINE changed == {d \in Doc : ChangeMessage(d).to \cup ChangeMessage(d).from # {}}
           counted == {id \in DOMAIN watched : Counted(watched[id]) /\
                         (Losses(watched[id]) # {} \/ In(history[Latest]) \cap Matching(watched[id]) = {})}
           joining == {id \in DOMAIN watched : ~watched[id].current}
           Count(id) == Cardinality(In(history[Latest]) \cap Matching(watched[id]))
           p1 == [i \in DOMAIN Sorted(changed) |-> ChangeMessage(Sorted(changed)[i])]
           p2 == [i \in DOMAIN Sorted(counted) |->
                    [kind |-> "filter", id |-> Sorted(counted)[i], count |-> Count(Sorted(counted)[i])]]
           p3 == [i \in DOMAIN Sorted(joining) |->
                    [kind |-> "current", id |-> Sorted(joining)[i], version |-> Latest]]
           p4 == << [kind |-> "snapshot", version |-> Latest] >>
<1>1. responses' = (((responses \o p1) \o p2) \o p3) \o p4
  BY Zenon DEF Push
<1>2. /\ watched' = [id \in DOMAIN watched |-> [watched[id] EXCEPT !.at = Latest, !.current = TRUE]]
      /\ DOMAIN watched # {}
      /\ UNCHANGED <<history, sync, store, view, listeners, tasks, main, shown, tainted, mishaps>>
  BY DEF Push, appVars
<1>3. /\ DOMAIN watched \in SUBSET Nat /\ IsFiniteSet(DOMAIN watched)
      /\ DOMAIN watched # {} => sync.stream = "open"
  BY DEF ListensInv, ServerFits
<1>4. PICK n \in Nat : history \in [0..n -> [Doc -> Version]] /\ n <= 2 + MaxMishaps
  <2>1. PICK n \in 0..2 + mishaps : history \in [0..n -> [Doc -> Version]]
    BY DEF ListensInv, ServerFits
  <2>2. mishaps \in 0..MaxMishaps /\ MaxMishaps \in Nat
    BY BoundsAssumption DEF ListensInv, ServerFits
  <2>3. n \in Nat /\ n <= 2 + MaxMishaps
    BY <2>2
  <2> QED BY <2>1, <2>3
<1>5. Latest = n /\ n \in Version
  <2>1. DOMAIN history = 0..n
    BY <1>4
  <2> QED BY <1>4, <2>1, LatestIs, BoundsAssumption DEF Version
<1>6. history[n] \in [Doc -> Version]
  BY <1>4
<1>7. Silent(p1)
  <2>1. changed \in SUBSET Nat /\ IsFiniteSet(changed)
    <3>1. changed \in SUBSET Doc
      OBVIOUS
    <3> HIDE DEF changed
    <3> QED BY <3>1, SortedDocs
  <2>2. ASSUME NEW d \in Doc PROVE ChangeMessage(d) \in Response /\ ~IsAnswer(ChangeMessage(d))
    <3> DEFINE doc == IF history[Latest][d] = 0 THEN NoDocument(Latest) ELSE Found(history[Latest][d])
               to == {id \in DOMAIN watched : d \in News(watched[id])}
               from == {id \in DOMAIN watched : d \in Losses(watched[id]) /\ ~Counted(watched[id])}
    <3>1. history[n][d] \in Version
      BY <1>6
    <3>2. doc \in KnownDoc
      BY <1>5, <3>1 DEF NoDocument, Found, KnownDoc, Document
    <3>3. to \in SUBSET Nat /\ from \in SUBSET Nat
      BY <1>3
    <3>4. ChangeMessage(d) = [kind |-> "change", key |-> d, doc |-> doc, to |-> to, from |-> from]
      BY DEF ChangeMessage
    <3> HIDE DEF doc, to, from
    <3> QED BY <3>2, <3>3, <3>4 DEF Response, IsAnswer
  <2>3. FromEach(p1, changed)
    <3> HIDE DEF changed
    <3> QED BY DEF FromEach
  <2>4. \A i \in DOMAIN Sorted(changed) : Sorted(changed)[i] \in changed =>
            p1[i] \in Response /\ ~IsAnswer(p1[i])
    <3>1. changed \subseteq Doc
      OBVIOUS
    <3> HIDE DEF changed
    <3> QED BY <2>2, <3>1
  <2> HIDE DEF changed, p1
  <2> QED BY <2>1, <2>3, <2>4, SilentEach
<1>8. Silent(p2)
  <2>1. counted \in SUBSET DOMAIN watched
    OBVIOUS
  <2> HIDE DEF counted
  <2>2. counted \in SUBSET Nat /\ IsFiniteSet(counted)
    BY <1>3, <2>1, FS_Subset
  <2>3. \A id : Count(id) \in Nat
    <3>1. In(history[Latest]) \in SUBSET Doc
      BY DEF In
    <3>2. \A id : IsFiniteSet(In(history[Latest]) \cap Matching(watched[id]))
      BY <3>1, SortedDocs
    <3> QED BY <3>2, FS_CardinalityType
  <2> HIDE DEF Count
  <2>4. FromEach(p2, counted)
    BY DEF FromEach
  <2>5. ASSUME NEW i \in DOMAIN Sorted(counted), Sorted(counted)[i] \in counted
        PROVE  p2[i] \in Response /\ ~IsAnswer(p2[i])
    BY <2>2, <2>3, <2>5 DEF Response, IsAnswer
  <2> HIDE DEF p2
  <2> QED BY <2>2, <2>4, <2>5, SilentEach
<1>9. Silent(p3)
  <2>1. joining \in SUBSET DOMAIN watched
    OBVIOUS
  <2> HIDE DEF joining
  <2>2. joining \in SUBSET Nat /\ IsFiniteSet(joining)
    BY <1>3, <2>1, FS_Subset
  <2>4. FromEach(p3, joining)
    BY DEF FromEach
  <2>5. ASSUME NEW i \in DOMAIN Sorted(joining), Sorted(joining)[i] \in joining
        PROVE  p3[i] \in Response /\ ~IsAnswer(p3[i])
    BY <1>5, <2>2, <2>5 DEF Response, IsAnswer
  <2> HIDE DEF p3
  <2> QED BY <2>2, <2>4, <2>5, SilentEach
<1>10. Silent(p4)
  <2>1. [kind |-> "snapshot", version |-> Latest] \in Response
        /\ ~IsAnswer([kind |-> "snapshot", version |-> Latest])
    BY <1>5 DEF Response, IsAnswer
  <2> QED BY <2>1 DEF Silent
<1>11. sync.stream = "open" /\ responses \in Seq(Response)
  BY <1>2, <1>3 DEF ListensInv, ClientFits, AnswersFit
<1> DEFINE keys == store.keys
           exact == Uncrossed(tainted)
           next == sync.nextId
<1>12. Sound(sync, keys, responses, exact) /\ AnswersFit(responses, next)
  BY DEF ListensInv, ClientFits
<1> HIDE DEF keys, exact, next, p1, p2, p3, p4
<1>13. Sound(sync, keys, responses \o p1, exact) /\ AnswersFit(responses \o p1, next)
  BY <1>7, <1>11, <1>12, PushedSound, PushedFits
<1>14. responses \o p1 \in Seq(Response)
  BY <1>13 DEF AnswersFit
<1>15. Sound(sync, keys, (responses \o p1) \o p2, exact) /\ AnswersFit((responses \o p1) \o p2, next)
  BY <1>8, <1>11, <1>13, <1>14, PushedSound, PushedFits
<1>16. (responses \o p1) \o p2 \in Seq(Response)
  BY <1>15 DEF AnswersFit
<1>17. /\ Sound(sync, keys, ((responses \o p1) \o p2) \o p3, exact)
       /\ AnswersFit(((responses \o p1) \o p2) \o p3, next)
  BY <1>9, <1>11, <1>15, <1>16, PushedSound, PushedFits
<1>18. ((responses \o p1) \o p2) \o p3 \in Seq(Response)
  BY <1>17 DEF AnswersFit
<1>19. Sound(sync, keys, responses', exact) /\ AnswersFit(responses', next)
  BY <1>1, <1>10, <1>11, <1>17, <1>18, PushedSound, PushedFits
<1>20. ClientFits'
  BY <1>2, <1>19 DEF ListensInv, ClientFits, keys, exact, next
<1>21. DOMAIN watched' = DOMAIN watched
  BY <1>2
<1>22. ServerFits'
  BY <1>2, <1>3, <1>21 DEF ListensInv, ServerFits
<1>23. CallsFit'
  BY <1>2 DEF ListensInv, CallsFit
<1> QED BY <1>20, <1>22, <1>23 DEF ListensInv

-----------------------------------------------------------------------------
(* The stream                                                              *)

SameTargets(s, t) ==
    /\ t.resolving = s.resolving /\ t.enqueued = s.enqueued /\ t.nextId = s.nextId
    /\ DOMAIN t.listening = DOMAIN s.listening

\* Without requests, answers and states, nothing is awaited.
LEMMA NothingAwaited ==
    ASSUME NEW t, t.requests = << >>, DOMAIN t.states = {}
    PROVE  Exact(t, << >>)
<1>1. \A id : StateOf(t, id).outstanding = 0
  BY DEF StateOf, Fresh
<1> QED BY <1>1, NoneAsked, LetGoNone DEF Exact, Awaited

\* A stream that is off and idles not.
Quiet(t) ==
    /\ t \in SyncRec /\ ~t.broken /\ t.stream = "off" /\ ~t.timer /\ ~t.idle
    /\ t.failed => t.online = "offline"
    /\ t.requests = << >> /\ DOMAIN t.states = {}
    /\ Ids(t) /\ Lookups(t)

\* A new stream of a client that awaits nothing is sound.
LEMMA QuietSound ==
    ASSUME NEW t, Quiet(t), NEW keys, NEW exact
    PROVE  /\ Sound(StartWatchStream(t), keys, << >>, exact)
           /\ SameTargets(t, StartWatchStream(t))
           /\ DOMAIN t.listening = {} => Sound(t, keys, << >>, exact)
<1> DEFINE u == StartWatchStream(t)
<1>1. /\ t \in SyncRec /\ ~t.broken /\ t.stream = "off" /\ ~t.timer /\ ~t.idle
      /\ t.failed => t.online = "offline"
      /\ t.requests = << >> /\ DOMAIN t.states = {}
      /\ Ids(t) /\ Lookups(t)
  BY DEF Quiet
<1>2. /\ Good(u, keys) /\ u.stream = "starting" /\ u.states = << >> /\ u.requests = << >>
      /\ u.listening = t.listening /\ u.resolving = t.resolving
      /\ u.enqueued = t.enqueued /\ u.nextId = t.nextId
  BY <1>1, StartIs
<1> HIDE DEF u
<1>3. DOMAIN u.states = {}
  BY <1>2
<1>4. Sound(u, keys, << >>, exact) /\ SameTargets(t, u)
  BY <1>2, <1>3, NothingAwaited DEF Sound, SameTargets
<1>5. ASSUME DOMAIN t.listening = {} PROVE Sound(t, keys, << >>, exact)
  <2>1. Conn(t) /\ Received(t) /\ Held(t, keys)
    BY <1>1, <1>5 DEF Conn, Received, Held
  <2> QED BY <1>1, <2>1, NothingAwaited DEF Sound, Good
<1> QED BY <1>4, <1>5 DEF u

\* What a stream leaves behind, whatever is believed of the connection then.
Believed(t, online, failed, timer, broken) ==
    t = [sync EXCEPT !.stream = "off", !.idle = FALSE, !.requests = << >>,
                     !.states = << >>, !.updates = NoUpdates, !.mismatch = FALSE,
                     !.online = online, !.failed = failed, !.timer = timer, !.broken = broken]

\* And a client whose stream ended awaits nothing.
LEMMA EndedQuiet ==
    ASSUME NEW keys, NEW q, NEW exact, Sound(sync, keys, q, exact),
           NEW online \in {"unknown", "online", "offline"}, NEW failed \in BOOLEAN,
           NEW t, Believed(t, online, failed, FALSE, FALSE), failed => online = "offline"
    PROVE  Quiet(t) /\ SameTargets(sync, t) /\ t.listening = sync.listening
<1>1. sync \in SyncRec /\ Ids(sync) /\ Lookups(sync)
  BY DEF Sound, Good
<1>2. << >> \in Seq(Asking) /\ << >> \in Partial(TargetState) /\ DOMAIN << >> = {}
  BY PartialNone
<1>3. NoUpdates \in [Doc -> KnownDoc]
  BY DEF NoUpdates, Invalid, NoDocument, KnownDoc, Document
<1>4. /\ t \in SyncRec /\ t.stream = "off" /\ ~t.idle /\ t.requests = << >> /\ t.states = << >>
      /\ t.online = online /\ t.failed = failed /\ ~t.timer /\ ~t.broken
      /\ t.listening = sync.listening /\ t.resolving = sync.resolving
      /\ t.enqueued = sync.enqueued /\ t.nextId = sync.nextId
  BY <1>1, <1>2, <1>3 DEF SyncRec, Believed
<1>5. Ids(t) /\ Lookups(t)
  BY <1>1, <1>2, <1>4 DEF Ids, Lookups, Resolving
<1> QED BY <1>2, <1>4, <1>5 DEF Quiet, SameTargets

\* No timer runs and nothing failed while the server is known to be there.
LEMMA OnlineIs ==
    ASSUME NEW keys, NEW q, NEW exact, Sound(sync, keys, q, exact)
    PROVE  /\ ~sync.broken /\ sync \in SyncRec
           /\ sync.timer => sync.online = "unknown"
           /\ sync.online = "online" => ~sync.failed /\ ~sync.timer
           /\ sync.idle => DOMAIN sync.listening = {}
BY DEF Sound, Good, Conn

\* With its stream the client loses the server's targets and responses, and
\* nothing else.
LEMMA StreamGone ==
    ASSUME ListensInv, watched' = << >>, responses' = << >>, UNCHANGED <<history, store, tainted>>,
           UNCHANGED mishaps \/ (mishaps < MaxMishaps /\ mishaps' = mishaps + 1),
           SameTargets(sync, sync'), Sound(sync', store.keys, << >>, Uncrossed(tainted)),
           ViewFits(store, view'), view'.open = view.open, view'.limbo = view.limbo
    PROVE  ServerFits' /\ ClientFits'
<1>1. LimboFits(sync', view', Whole(tainted'))
  BY DEF ListensInv, ClientFits, LimboFits, SameTargets, Backed, Targets, Looked, Resolving
<1>2. AnswersFit(responses', sync'.nextId)
  BY DEF AnswersFit
<1>3. DOMAIN watched' = {}
  OBVIOUS
<1>4. DOMAIN watched' \in SUBSET Nat /\ IsFiniteSet(DOMAIN watched')
  BY <1>3, FS_EmptySet
<1>5. /\ mishaps' \in 0..MaxMishaps
      /\ \E n \in 0..2 + mishaps' : history' \in [0..n -> [Doc -> Version]]
  <2>1. mishaps \in 0..MaxMishaps /\ MaxMishaps \in Nat
    BY BoundsAssumption DEF ListensInv, ServerFits
  <2>2. PICK n \in 0..2 + mishaps : history \in [0..n -> [Doc -> Version]]
    BY DEF ListensInv, ServerFits
  <2>3. n \in 0..2 + mishaps' /\ mishaps' \in 0..MaxMishaps
    BY <2>1
  <2> QED BY <2>2, <2>3
<1> QED BY <1>1, <1>2, <1>3, <1>4, <1>5 DEF ServerFits, ClientFits

\* Offline, the view stays on disk and keeps its limbo.
LEMMA GoOfflineFits ==
    ASSUME ViewFits(store, view), NEW online, GoOffline(online)
    PROVE  ViewFits(store, view') /\ view'.open = view.open /\ view'.limbo = view.limbo
<1> DEFINE new == ApplyChanges(view, view.docs, view.synced, FALSE)
<1>1. view' = IF view.current THEN new ELSE view
  BY DEF GoOffline
<1>2. /\ view \in ViewRec /\ view.docs \in [Doc -> Version] /\ view.synced \in SUBSET Doc
      /\ FALSE \in BOOLEAN
  BY DEF ViewFits, ViewRec
<1>3. Applying(view, new, view.docs, view.synced, FALSE)
  BY <1>2, ApplyChangesIs
<1>4. view.current => view.open
  BY NoViewIs DEF ViewFits
<1> HIDE DEF new
<1>5. CASE view.current
  BY <1>1, <1>3, <1>4, <1>5 DEF Applying, ViewFits
<1>6. CASE ~view.current
  BY <1>1, <1>6
<1> QED BY <1>5, <1>6

\* Calls that are told nothing are as they were.
LEMMA UntoldFits ==
    ASSUME CallsFit, UNCHANGED <<listeners, tasks, main, shown>>, view'.open = view.open
    PROVE  CallsFit'
BY DEF CallsFit, Wanted

\* A stream that fails keeps the invariant.
LEMMA StreamFailsFits ==
    ASSUME ListensInv, StreamFails
    PROVE  ListensInv'
<1> DEFINE keys == store.keys
           exact == Uncrossed(tainted)
<1>1. /\ Sound(sync, keys, responses, exact) /\ ViewFits(store, view) /\ CallsFit
      /\ Told(listeners, main)
  BY DEF ListensInv, ClientFits, CallsFit
<1>2. /\ ~sync.broken /\ sync \in SyncRec
      /\ sync.online = "online" => ~sync.failed /\ ~sync.timer
  BY <1>1, OnlineIs
<1>3. /\ watched' = << >> /\ responses' = << >>
      /\ mishaps < MaxMishaps /\ mishaps' = mishaps + 1
      /\ UNCHANGED <<history, store, tasks, shown, tainted>>
  BY DEF StreamFails, Mishap
<1> DEFINE calm == UpdateState(Ended, "unknown")
           once == FailedOnce
           twice == [Ended EXCEPT !.failed = TRUE, !.timer = FALSE, !.online = "offline"]
<1>4. CASE DOMAIN sync.listening = {}
  <2>1. sync' = calm /\ UNCHANGED <<view, listeners, main>>
    BY <1>4 DEF StreamFails
  <2>2. Believed(calm, "unknown", FALSE, FALSE, FALSE)
    BY <1>2 DEF UpdateState, Ended, Believed, SyncRec
  <2> HIDE DEF calm
  <2>3. Quiet(calm) /\ SameTargets(sync, calm)
    BY <1>1, <2>2, EndedQuiet
  <2>4. Sound(calm, keys, << >>, exact)
    BY <1>4, <2>3, QuietSound DEF SameTargets
  <2>5. ServerFits' /\ ClientFits'
    BY <1>1, <1>3, <2>1, <2>3, <2>4, StreamGone
  <2> QED BY <1>1, <1>3, <2>1, <2>5, UntoldFits DEF ListensInv
<1>5. CASE DOMAIN sync.listening # {} /\ sync.online = "online"
  <2>1. sync' = StartWatchStream(once) /\ UNCHANGED <<view, listeners, main>>
    BY <1>5 DEF StreamFails
  <2>2. Believed(once, "unknown", FALSE, FALSE, FALSE)
    BY <1>2, <1>5 DEF FailedOnce, UpdateState, Ended, Believed, SyncRec
  <2> HIDE DEF once
  <2>3. Quiet(once) /\ SameTargets(sync, once)
    BY <1>1, <2>2, EndedQuiet
  <2>4. Sound(sync', keys, << >>, exact) /\ SameTargets(once, sync')
    BY <2>1, <2>3, QuietSound
  <2>5. SameTargets(sync, sync')
    BY <2>3, <2>4 DEF SameTargets
  <2>6. ServerFits' /\ ClientFits'
    BY <1>1, <1>3, <2>1, <2>4, <2>5, StreamGone
  <2> QED BY <1>1, <1>3, <2>1, <2>6, UntoldFits DEF ListensInv
<1>6. CASE DOMAIN sync.listening # {} /\ sync.online # "online"
  <2>1. /\ sync' = StartWatchStream(twice)
        /\ UNCHANGED <<view, listeners, main>> \/ GoOffline(sync.online)
    BY <1>6 DEF StreamFails
  <2>2. Believed(twice, "offline", TRUE, FALSE, FALSE)
    BY <1>2 DEF Ended, Believed, SyncRec
  <2> HIDE DEF twice
  <2>3. Quiet(twice) /\ SameTargets(sync, twice)
    BY <1>1, <2>2, EndedQuiet
  <2>4. Sound(sync', keys, << >>, exact) /\ SameTargets(twice, sync')
    BY <2>1, <2>3, QuietSound
  <2>5. SameTargets(sync, sync')
    BY <2>3, <2>4 DEF SameTargets
  <2>6. ViewFits(store, view') /\ view'.open = view.open /\ view'.limbo = view.limbo
    BY <1>1, <2>1, GoOfflineFits
  <2>7. ServerFits' /\ ClientFits'
    BY <1>3, <2>4, <2>5, <2>6, StreamGone
  <2>8. CallsFit'
    <3>1. CASE UNCHANGED <<view, listeners, main>>
      BY <1>1, <1>3, <3>1, UntoldFits
    <3>2. CASE GoOffline(sync.online)
      <4>1. SamePhases(listeners, listeners') /\ Told(listeners', main')
        BY <1>1, <3>2, GoOfflineTells
      <4>2. Wanted(listeners, view')
        BY <1>1, <2>6 DEF CallsFit, Wanted
      <4>3. TasksFit(listeners, tasks', shown')
        BY <1>1, <1>3 DEF CallsFit
      <4> QED BY <4>1, <4>2, <4>3, SamePhasesFit DEF CallsFit
    <3> QED BY <2>1, <3>1, <3>2
  <2> QED BY <2>7, <2>8 DEF ListensInv
<1> QED BY <1>4, <1>5, <1>6

\* So does the online state timer.
LEMMA OnlineTimeoutFits ==
    ASSUME ListensInv, OnlineTimeout
    PROVE  ListensInv'
<1> DEFINE t == [sync EXCEPT !.timer = FALSE, !.online = "offline",
                             !.broken = @ \/ sync.online # "unknown"]
<1>1. /\ Sound(sync, store.keys, responses, Uncrossed(tainted)) /\ ViewFits(store, view) /\ CallsFit
      /\ Told(listeners, main)
  BY DEF ListensInv, ClientFits, CallsFit
<1>2. /\ sync.timer /\ mishaps < MaxMishaps /\ mishaps' = mishaps + 1 /\ sync' = t
      /\ GoOffline(sync.online)
      /\ UNCHANGED <<history, watched, responses, store, tasks, shown, tainted>>
  BY DEF OnlineTimeout, Mishap, serverVars
<1>3. sync \in SyncRec /\ Good(sync, store.keys) /\ sync.online = "unknown"
  BY <1>1, <1>2, OnlineIs DEF Sound
<1>4. /\ t \in SyncRec /\ ~t.timer /\ t.online = "offline" /\ ~t.broken
      /\ t.stream = sync.stream /\ t.idle = sync.idle /\ t.failed = sync.failed
      /\ t.requests = sync.requests /\ t.states = sync.states
      /\ t.listening = sync.listening /\ t.resolving = sync.resolving
      /\ t.enqueued = sync.enqueued /\ t.nextId = sync.nextId
  BY <1>3 DEF SyncRec, Good
<1> HIDE DEF t
<1>5. Good(t, store.keys)
  <2>1. Conn(t) /\ Ids(t) /\ Received(t) /\ Held(t, store.keys)
    BY <1>3, <1>4 DEF Good, Conn, Ids, Received, Held
  <2>2. Lookups(t)
    BY <1>3, <1>4 DEF Good, Lookups, Resolving
  <2> QED BY <1>4, <2>1, <2>2 DEF Good
<1>6. Sound(t, store.keys, responses, Uncrossed(tainted))
  <2>1. \A id : StateOf(t, id) = StateOf(sync, id)
    BY <1>4 DEF StateOf
  <2>2. Exact(sync, responses) => Exact(t, responses)
    BY <1>4, <2>1 DEF Exact, Awaited
  <2> QED BY <1>1, <1>4, <1>5, <2>2 DEF Sound
<1>7. ViewFits(store, view') /\ view'.open = view.open /\ view'.limbo = view.limbo
  BY <1>1, <1>2, GoOfflineFits
<1>8. LimboFits(sync', view', Whole(tainted'))
  BY <1>2, <1>4, <1>7 DEF ListensInv, ClientFits, LimboFits, Backed, Targets, Looked, Resolving
<1>9. ClientFits'
  BY <1>2, <1>4, <1>6, <1>7, <1>8 DEF ListensInv, ClientFits
<1>10. ServerFits'
  <2>1. mishaps \in 0..MaxMishaps /\ MaxMishaps \in Nat
    BY BoundsAssumption DEF ListensInv, ServerFits
  <2>2. PICK n \in 0..2 + mishaps : history \in [0..n -> [Doc -> Version]]
    BY DEF ListensInv, ServerFits
  <2>3. n \in 0..2 + mishaps' /\ mishaps' \in 0..MaxMishaps
    BY <1>2, <2>1
  <2>4. \E k \in 0..2 + mishaps' : history' \in [0..k -> [Doc -> Version]]
    BY <1>2, <2>2, <2>3
  <2> QED BY <1>2, <1>4, <2>3, <2>4 DEF ListensInv, ServerFits
<1>11. CallsFit'
  <2>1. SamePhases(listeners, listeners') /\ Told(listeners', main')
    BY <1>1, <1>2, GoOfflineTells
  <2>2. Wanted(listeners, view')
    BY <1>1, <1>7 DEF CallsFit, Wanted
  <2>3. TasksFit(listeners, tasks', shown')
    BY <1>1, <1>2 DEF CallsFit
  <2> QED BY <2>1, <2>2, <2>3, SamePhasesFit DEF CallsFit
<1> QED BY <1>9, <1>10, <1>11 DEF ListensInv

\* And the idle timer, which only runs without targets.
LEMMA IdleTimeoutFits ==
    ASSUME ListensInv, IdleTimeout
    PROVE  ListensInv'
<1> DEFINE t == [UpdateState(Ended, "unknown") EXCEPT !.broken = @ \/ DOMAIN sync.listening # {}]
<1>1. /\ Sound(sync, store.keys, responses, Uncrossed(tainted)) /\ ViewFits(store, view) /\ CallsFit
  BY DEF ListensInv, ClientFits
<1>2. /\ sync.idle /\ sync' = t /\ watched' = << >> /\ responses' = << >>
      /\ UNCHANGED <<history, store, view, listeners, tasks, main, shown, tainted, mishaps>>
  BY DEF IdleTimeout, appVars
<1>3. ~sync.broken /\ sync \in SyncRec /\ DOMAIN sync.listening = {}
  BY <1>1, <1>2, OnlineIs
<1>4. Believed(t, "unknown", FALSE, FALSE, FALSE)
  BY <1>3 DEF UpdateState, Ended, Believed, SyncRec
<1> HIDE DEF t
<1>5. Quiet(t) /\ SameTargets(sync, t)
  BY <1>1, <1>4, EndedQuiet
<1>6. Sound(t, store.keys, << >>, Uncrossed(tainted))
  BY <1>3, <1>5, QuietSound DEF SameTargets
<1>7. ServerFits' /\ ClientFits'
  BY <1>1, <1>2, <1>5, <1>6, StreamGone
<1> QED BY <1>1, <1>2, <1>7, UntoldFits DEF ListensInv

\* A network that is restarted keeps the invariant.
LEMMA RestartNetworkFits ==
    ASSUME ListensInv, RestartNetwork
    PROVE  ListensInv'
<1> DEFINE t == UpdateState(Ended, "unknown")
<1>1. /\ Sound(sync, store.keys, responses, Uncrossed(tainted)) /\ ViewFits(store, view) /\ CallsFit
  BY DEF ListensInv, ClientFits
<1>2. /\ mishaps < MaxMishaps /\ mishaps' = mishaps + 1
      /\ sync' = IF DOMAIN t.listening = {} THEN t ELSE StartWatchStream(t)
      /\ watched' = << >> /\ responses' = << >>
      /\ UNCHANGED <<history, store, view, listeners, tasks, main, shown, tainted>>
  BY DEF RestartNetwork, Mishap
<1>3. ~sync.broken /\ sync \in SyncRec
  BY <1>1, OnlineIs
<1>4. Believed(t, "unknown", FALSE, FALSE, FALSE)
  BY <1>3 DEF UpdateState, Ended, Believed, SyncRec
<1> HIDE DEF t
<1>5. Quiet(t) /\ SameTargets(sync, t)
  BY <1>1, <1>4, EndedQuiet
<1>6. Sound(sync', store.keys, << >>, Uncrossed(tainted)) /\ SameTargets(t, sync')
  <2>1. CASE DOMAIN t.listening = {}
    BY <1>2, <1>5, <2>1, QuietSound DEF SameTargets
  <2>2. CASE DOMAIN t.listening # {}
    BY <1>2, <1>5, <2>2, QuietSound
  <2> QED BY <2>1, <2>2
<1>7. SameTargets(sync, sync')
  BY <1>5, <1>6 DEF SameTargets
<1>8. ServerFits' /\ ClientFits'
  BY <1>1, <1>2, <1>6, <1>7, StreamGone
<1> QED BY <1>1, <1>2, <1>8, UntoldFits DEF ListensInv

\* A stream that opens asks for every target once.
LEMMA StreamOpensFits ==
    ASSUME ListensInv, StreamOpens
    PROVE  ListensInv'
<1> DEFINE keys == store.keys
           exact == Uncrossed(tainted)
           s == [sync EXCEPT !.stream = "open"]
           asked == Sorted(DOMAIN sync.listening)
<1>1. /\ Sound(sync, keys, responses, exact) /\ ViewFits(store, view) /\ CallsFit
      /\ LimboFits(sync, view, Whole(tainted)) /\ AnswersFit(responses, sync.nextId)
      /\ ServerFits
  BY DEF ListensInv, ClientFits
<1>2. /\ sync.stream = "starting" /\ sync' = FoldLeft(SendWatchRequest, s, asked)
      /\ UNCHANGED <<history, watched, responses, store, view, listeners, tasks, main, shown,
                     tainted, mishaps>>
  BY DEF StreamOpens, serverVars, appVars
<1>3. sync \in SyncRec /\ Good(sync, keys) /\ responses = << >>
  BY <1>1, <1>2 DEF Sound, Good
<1>4. /\ s \in SyncRec /\ s.stream = "open"
      /\ s.idle = sync.idle /\ s.failed = sync.failed /\ s.timer = sync.timer
      /\ s.online = sync.online /\ s.broken = sync.broken
      /\ s.requests = sync.requests /\ s.states = sync.states
      /\ s.listening = sync.listening /\ s.resolving = sync.resolving
      /\ s.enqueued = sync.enqueued /\ s.nextId = sync.nextId
  BY <1>3 DEF SyncRec
<1> HIDE DEF s
<1>5. Good(s, keys)
  <2>1. Conn(s) /\ Ids(s) /\ Received(s) /\ Held(s, keys)
    BY <1>2, <1>3, <1>4 DEF Good, Conn, Ids, Received, Held
  <2>2. Lookups(s)
    BY <1>3, <1>4 DEF Good, Lookups, Resolving
  <2> QED BY <1>3, <1>4, <2>1, <2>2 DEF Good
<1>6. Sound(s, keys, responses, exact) /\ Collected(sync, [sync EXCEPT !.stream = @])
  <2>1. s.requests = << >> /\ DOMAIN s.states = {}
    BY <1>2, <1>3, <1>4 DEF Good, Conn
  <2>2. Exact(s, << >>)
    BY <2>1, NothingAwaited
  <2>3. [sync EXCEPT !.stream = @] = sync
    BY <1>3 DEF SyncRec
  <2> QED BY <1>3, <1>4, <1>5, <2>2, <2>3 DEF Sound, Collected
<1>7. Collected(s, s)
  BY DEF Collected
<1>8. /\ Len(asked) \in Nat /\ DOMAIN asked = 1..Len(asked)
      /\ \A i \in 1..Len(asked) : asked[i] \in DOMAIN s.listening
  <2>1. sync.nextId \in Nat /\ DOMAIN sync.listening \in SUBSET (0..sync.nextId - 1)
    BY <1>3 DEF Good, Ids, SyncRec
  <2>2. DOMAIN sync.listening \in SUBSET Nat /\ IsFiniteSet(DOMAIN sync.listening)
    BY <2>1, SortedBelow
  <2>3. asked \in Seq(DOMAIN sync.listening)
    BY <2>2, SortedFacts
  <2> HIDE DEF asked
  <2> QED BY <1>4, <2>3, SeqFacts
<1> HIDE DEF asked
<1>9. PICK after :
         /\ after[0] = s
         /\ \A n \in 1..Len(asked) : after[n] = SendWatchRequest(after[n - 1], asked[n])
         /\ FoldLeft(SendWatchRequest, s, asked) = after[Len(asked)]
  BY <1>8, WatchesOneByOne
<1> DEFINE Right(k) == Sound(after[k], keys, responses, exact) /\ Collected(s, after[k])
           S == {k \in 0..Len(asked) : Right(k)}
<1>10. responses \in Seq(Response)
  BY <1>1 DEF AnswersFit
<1>11. ASSUME NEW k \in 0..Len(asked) - 1, Right(k) PROVE Right(k + 1)
  <2>1. k + 1 \in 1..Len(asked) /\ (k + 1) - 1 = k
    BY <1>8
  <2>2. after[k + 1] = SendWatchRequest(after[k], asked[k + 1])
    BY <1>9, <2>1
  <2>3. asked[k + 1] \in DOMAIN after[k].listening /\ after[k].stream = "open"
    BY <1>4, <1>8, <1>11, <2>1 DEF Collected
  <2>4. /\ Sound(SendWatchRequest(after[k], asked[k + 1]), keys, responses, exact)
        /\ Collected(after[k], SendWatchRequest(after[k], asked[k + 1]))
    BY <1>10, <1>11, <2>3, SendWatchSound
  <2> QED BY <1>11, <2>2, <2>4, CollectedTwice
<1>12. 0 \in S /\ \A k \in 0..Len(asked) - 1 : k \in S => k + 1 \in S
  <2>1. 0 \in 0..Len(asked) /\ \A k \in 0..Len(asked) - 1 : k \in 0..Len(asked) /\ k + 1 \in 0..Len(asked)
    BY <1>8
  <2>2. Right(0)
    BY <1>6, <1>7, <1>9
  <2> HIDE DEF Right
  <2> QED BY <1>11, <2>1, <2>2
<1> HIDE DEF S
<1>13. \A k \in 0..Len(asked) : k \in S
  BY <1>8, <1>12, Climb
<1>14. Right(Len(asked))
  <2>1. Len(asked) \in 0..Len(asked)
    BY <1>8
  <2> QED BY <1>13, <2>1 DEF S
<1>15. Sound(sync', keys, responses, exact) /\ Collected(s, sync')
  BY <1>2, <1>9, <1>14
<1>16. SameTargets(sync, sync') /\ sync'.stream = "open"
  BY <1>4, <1>15 DEF Collected, SameTargets
<1>17. LimboFits(sync', view', Whole(tainted'))
  BY <1>1, <1>2, <1>16 DEF LimboFits, SameTargets, Backed, Targets, Looked, Resolving
<1>18. ClientFits'
  BY <1>1, <1>2, <1>15, <1>16, <1>17 DEF ClientFits, SameTargets
<1>19. ServerFits'
  BY <1>1, <1>2, <1>16 DEF ServerFits
<1> QED BY <1>1, <1>2, <1>18, <1>19, UntoldFits DEF ListensInv

\* An application that starts again keeps the invariant.
LEMMA RestartFits ==
    ASSUME ListensInv, Restart
    PROVE  ListensInv'
<1> DEFINE t == [UpdateState(Ended, "unknown") EXCEPT !.listening = << >>,
                    !.resolving = << >>, !.enqueued = << >>, !.nextId = 1]
           none == [token |-> 0, free |-> 0]
           off == [l \in DOMAIN listeners |-> [listeners[l] EXCEPT !.phase = "off", !.muted = TRUE]]
<1>1. /\ mishaps < MaxMishaps /\ mishaps' = mishaps + 1
      /\ watched' = << >> /\ responses' = << >> /\ sync' = t
      /\ store' = [store EXCEPT !.active = FALSE, !.live = none]
      /\ view' = NoView /\ listeners' = off /\ tasks' = << >> /\ main' = << >>
      /\ UNCHANGED <<history, shown, tainted>>
  BY DEF Restart, Mishap
<1> HIDE DEF none, off, t
<1>2. /\ Sound(sync, store.keys, responses, Uncrossed(tainted)) /\ ViewFits(store, view)
      /\ Told(listeners, main) /\ TasksFit(listeners, tasks, shown)
  BY DEF ListensInv, ClientFits, CallsFit
<1>3. sync \in SyncRec /\ ~sync.broken
  BY <1>2, OnlineIs
<1>4. /\ << >> \in Seq(Asking) /\ << >> \in Partial(TargetState) /\ << >> \in Partial(Listening)
      /\ << >> \in Partial(Lookup) /\ << >> \in Seq(Doc) /\ DOMAIN << >> = {}
  BY PartialNone
<1>5. NoUpdates \in [Doc -> KnownDoc]
  BY DEF NoUpdates, Invalid, NoDocument, KnownDoc, Document
<1>6. /\ t \in SyncRec /\ t.stream = "off" /\ ~t.idle /\ t.requests = << >> /\ t.states = << >>
      /\ t.online = "unknown" /\ ~t.failed /\ ~t.timer /\ ~t.broken
      /\ t.listening = << >> /\ t.resolving = << >> /\ t.enqueued = << >> /\ t.nextId = 1
  <2> DEFINE u == UpdateState(Ended, "unknown")
  <2>1. Believed(u, "unknown", FALSE, FALSE, FALSE)
    BY <1>3 DEF UpdateState, Ended, Believed, SyncRec
  <2>2. t = [u EXCEPT !.listening = << >>, !.resolving = << >>, !.enqueued = << >>, !.nextId = 1]
    BY DEF t
  <2> HIDE DEF u
  <2>3. Quiet(u)
    BY <1>2, <2>1, EndedQuiet
  <2>4. /\ u \in SyncRec /\ u.stream = "off" /\ ~u.idle /\ u.requests = << >> /\ u.states = << >>
        /\ u.online = "unknown" /\ ~u.failed /\ ~u.timer /\ ~u.broken
    BY <1>3, <2>1, <2>3 DEF Believed, Quiet, SyncRec
  <2> DEFINE e == << >>
             one == 1
  <2>5. /\ e \in Partial(Listening) /\ e \in Partial(Lookup) /\ e \in Seq(Doc)
        /\ one \in Nat \ {0}
    BY <1>4
  <2>6. t = [u EXCEPT !.listening = e, !.resolving = e, !.enqueued = e, !.nextId = one]
    BY <2>2
  <2>7. u.requests = e /\ u.states = e
    BY <2>4
  <2> HIDE DEF e, one
  <2>8. /\ t \in SyncRec /\ t.stream = "off" /\ ~t.idle /\ t.requests = e /\ t.states = e
        /\ t.online = "unknown" /\ ~t.failed /\ ~t.timer /\ ~t.broken
        /\ t.listening = e /\ t.resolving = e /\ t.enqueued = e /\ t.nextId = one
    BY <2>4, <2>5, <2>6, <2>7 DEF SyncRec
  <2> QED BY <2>8 DEF e, one
<1>7. /\ DOMAIN t.listening = {} /\ DOMAIN t.resolving = {} /\ DOMAIN t.states = {}
      /\ DOMAIN t.requests = {} /\ DOMAIN t.enqueued = {}
  BY <1>4, <1>6
<1>8. Resolving(t) = {} /\ Range(t.enqueued) = {} /\ IsInj(t.enqueued)
  BY <1>7 DEF Resolving, Range, IsInj
<1>9. Lookups(t)
  <2>1. IsFiniteSet({}) /\ Cardinality({}) = 0
    BY FS_EmptySet
  <2>2. 0 <= MaxResolutions
    BY BoundsAssumption
  <2>3. IsFiniteSet(DOMAIN t.resolving) /\ Cardinality(DOMAIN t.resolving) <= MaxResolutions
    BY <1>7, <2>1, <2>2
  <2> QED BY <1>7, <1>8, <2>3 DEF Lookups
<1>10. Conn(t) /\ Ids(t) /\ Received(t) /\ Held(t, store.keys)
  BY <1>6, <1>7 DEF Conn, Ids, Received, Held
<1>11. Sound(t, store.keys, << >>, Uncrossed(tainted))
  <2>1. Exact(t, << >>)
    BY <1>6, <1>7, NothingAwaited
  <2> QED BY <1>6, <1>9, <1>10, <2>1 DEF Sound, Good
<1>12. ViewFits(store', view') /\ store'.keys = store.keys
  <2>1. none \in Known
    BY BoundsAssumption DEF Known, Version, none
  <2>2. store \in StoreRec
    BY <1>2 DEF ViewFits
  <2>3. store' \in StoreRec /\ store'.active = FALSE /\ store'.keys = store.keys
    BY <1>1, <2>1, <2>2 DEF StoreRec
  <2>4. NoView.open = FALSE /\ NoView.current = FALSE
    BY DEF NoView
  <2> QED BY <1>1, <2>3, <2>4, NoViewIs DEF ViewFits
<1>13. LimboFits(sync', view', Whole(tainted'))
  BY <1>1, <1>7, <1>8, NoViewIs DEF LimboFits, Backed, Targets, Looked
<1>14. ClientFits'
  <2>1. AnswersFit(responses', sync'.nextId)
    BY <1>1 DEF AnswersFit
  <2> QED BY <1>1, <1>11, <1>12, <1>13, <2>1 DEF ClientFits
<1>15. ServerFits'
  <2>1. mishaps \in 0..MaxMishaps /\ MaxMishaps \in Nat
    BY BoundsAssumption DEF ListensInv, ServerFits
  <2>2. PICK n \in 0..2 + mishaps : history \in [0..n -> [Doc -> Version]]
    BY DEF ListensInv, ServerFits
  <2>3. n \in 0..2 + mishaps' /\ mishaps' \in 0..MaxMishaps
    BY <1>1, <2>1
  <2>4. \E k \in 0..2 + mishaps' : history' \in [0..k -> [Doc -> Version]]
    BY <1>1, <2>2, <2>3
  <2>5. DOMAIN watched' = {}
    BY <1>1
  <2>6. DOMAIN watched' \in SUBSET Nat /\ IsFiniteSet(DOMAIN watched')
    BY <2>5, FS_EmptySet
  <2> QED BY <2>3, <2>4, <2>5, <2>6 DEF ServerFits
<1>16. listeners' \in Seq(Listener) /\ Len(listeners') = Len(listeners)
       /\ \A l \in 1..Len(listeners) : listeners'[l].phase = "off"
  <2>1. /\ listeners \in Seq(Listener) /\ Len(listeners) \in Nat
        /\ DOMAIN listeners = 1..Len(listeners)
        /\ \A l \in 1..Len(listeners) : listeners[l] \in Listener
    BY <1>2, SeqFacts DEF Told
  <2>2. \A l \in 1..Len(listeners) : off[l] \in Listener /\ off[l].phase = "off"
    BY <2>1 DEF Listener, off
  <2>3. off = [l \in 1..Len(listeners) |-> off[l]]
    BY <2>1 DEF off
  <2>4. off \in [1..Len(listeners) -> Listener]
    BY <2>2, <2>3
  <2>5. off \in Seq(Listener) /\ Len(off) = Len(listeners)
    BY <2>1, <2>4
  <2> QED BY <1>1, <2>2, <2>5
<1>17. CallsFit'
  <2>1. Told(listeners', main')
    BY <1>1, <1>16 DEF Told
  <2>2. TasksFit(listeners', tasks', shown')
    BY <1>1, <1>2, <1>16 DEF TasksFit
  <2>3. Wanted(listeners', view')
    BY <1>16 DEF Wanted
  <2> QED BY <2>1, <2>2, <2>3 DEF CallsFit
<1> QED BY <1>14, <1>15, <1>17 DEF ListensInv

-----------------------------------------------------------------------------
(* The tasks                                                               *)

\* Answers stay those to targets that were asked for.
LEMMA AnswersFitOnward ==
    ASSUME NEW q, NEW m \in Nat, NEW n \in Nat, m <= n, AnswersFit(q, m)
    PROVE  AnswersFit(q, n)
<1>1. 0..m - 1 \subseteq 0..n - 1
  OBVIOUS
<1> QED BY <1>1 DEF AnswersFit

\* What is true of the client once a step of its own is done.
LEMMA OnwardFits ==
    ASSUME ServerFits, sync \in SyncRec, sync' \in SyncRec, Onward(sync, sync'),
           UNCHANGED <<history, watched, mishaps>>
    PROVE  ServerFits'
BY DEF ServerFits, Onward, SyncRec

\* A view is closed with its lookups.
LEMMA CloseViewIs ==
    ASSUME NEW s, NEW q \in Seq(Response), NEW exact, Sound(s, store.keys, q, exact), Backed(s, {}),
           ViewFits(store, view), Looked(s) \subseteq view.limbo, NEW ls, CloseView(s, ls)
    PROVE  /\ Sound(sync', store'.keys, q, exact) /\ Onward(s, sync')
           /\ ViewFits(store', view') /\ LimboFits(sync', view', TRUE)
           /\ view' = NoView /\ listeners' = ls
<1> DEFINE t == UpdateTrackedLimboDocuments(s, view.limbo, {})
<1>1. /\ sync' = t /\ view' = NoView /\ listeners' = ls
      /\ store' = [store EXCEPT !.active = FALSE, !.saved = store.live]
  BY DEF CloseView
<1>2. view.limbo \in SUBSET Doc /\ {} \in SUBSET Doc /\ {} \in SUBSET {Query}
  BY DEF ViewFits, ViewRec
<1>3. /\ Sound(t, store.keys, q, exact)
      /\ Tracked(s, t, {}, (Looked(s) \ (view.limbo \ {})) \cup ({} \ view.limbo))
  BY <1>2, UpdateTrackedSound
<1>4. (Looked(s) \ (view.limbo \ {})) \cup ({} \ view.limbo) = {}
  OBVIOUS
<1> HIDE DEF t
<1>5. Onward(s, t) /\ Backed(t, {}) /\ Looked(t) = {}
  BY <1>3, <1>4 DEF Tracked
<1>6. store' \in StoreRec /\ store'.active = FALSE /\ store'.keys = store.keys
  <2>1. store \in StoreRec /\ store.live \in Known
    BY DEF ViewFits, StoreRec
  <2> QED BY <1>1, <2>1 DEF StoreRec
<1>7. NoView.open = FALSE /\ NoView.current = FALSE /\ NoView.limbo = {} /\ Targets(NoView) = {}
  BY DEF NoView, Targets
<1>8. ViewFits(store', view')
  BY <1>1, <1>6, <1>7, NoViewIs DEF ViewFits
<1>9. LimboFits(sync', view', TRUE)
  BY <1>1, <1>5, <1>7 DEF LimboFits
<1> QED BY <1>1, <1>3, <1>5, <1>6, <1>8, <1>9

\* Limbo that is looked up in full is so in any case.
LEMMA LimboFitsAny ==
    ASSUME NEW s, NEW v, LimboFits(s, v, TRUE), NEW whole
    PROVE  LimboFits(s, v, whole)
BY DEF LimboFits

\* One call is on or off.
Switched(ls, now, l, phase) ==
    /\ now \in Seq(Listener) /\ Len(now) = Len(ls)
    /\ \A k \in 1..Len(ls) : now[k].phase = IF k = l THEN phase ELSE ls[k].phase

\* A call whose phase is assigned is switched, and no other.
LEMMA SwitchedIs ==
    ASSUME NEW ls \in Seq(Listener), NEW l \in 1..Len(ls), NEW phase \in {"asked", "on", "off"}
    PROVE  Switched(ls, [ls EXCEPT ![l].phase = phase], l, phase)
<1> DEFINE call == [ls[l] EXCEPT !.phase = phase]
           now == [ls EXCEPT ![l].phase = phase]
<1>1. Len(ls) \in Nat /\ DOMAIN ls = 1..Len(ls) /\ \A k \in 1..Len(ls) : ls[k] \in Listener
  BY SeqFacts
<1>2. call \in Listener /\ call.phase = phase
  BY <1>1 DEF Listener
<1>3. now = [ls EXCEPT ![l] = call]
  BY <1>1
<1> HIDE DEF call
<1>4. now \in Seq(Listener) /\ Len(now) = Len(ls)
  BY <1>2, <1>3
<1>5. \A k \in 1..Len(ls) : now[k] = IF k = l THEN call ELSE ls[k]
  BY <1>1, <1>3
<1> HIDE DEF now
<1>6. \A k \in 1..Len(ls) : now[k].phase = IF k = l THEN phase ELSE ls[k].phase
  BY <1>2, <1>5
<1> QED BY <1>4, <1>6 DEF Switched, now

\* The first listener opens the view on what is on disk, and the target.
LEMMA FirstListenIs ==
    ASSUME ListensInv, ~view.open, NEW ls, Told(ls, main), FirstListen(ls)
    PROVE  /\ Sound(sync', store'.keys, responses, Uncrossed(tainted')) /\ Onward(sync, sync')
           /\ ViewFits(store', view') /\ LimboFits(sync', view', Whole(tainted'))
           /\ view'.open /\ SamePhases(ls, listeners') /\ Told(listeners', main')
<1> DEFINE resumed == [store EXCEPT !.active = TRUE, !.live = store.saved]
           docs == ExecuteQuery(resumed, resumed.live.free)
           new == ApplyChanges(NoView, docs, resumed.keys, FALSE)
           t == Listen(sync, Query, Query, resumed.live.token)
<1>1. /\ store' = resumed /\ view' = new /\ sync' = t
      /\ OnViewSnapshots(ls, NoView, new, sync.online)
      /\ tainted' = tainted \/ tainted' = tainted \cup {"resumed"}
  BY DEF FirstListen
<1>2. /\ Sound(sync, store.keys, responses, Uncrossed(tainted)) /\ responses \in Seq(Response)
      /\ ViewFits(store, view) /\ LimboFits(sync, view, Whole(tainted))
  BY DEF ListensInv, ClientFits, AnswersFit
<1>3. store \in StoreRec /\ store.saved \in Known
  BY <1>2 DEF ViewFits, StoreRec
<1>4. /\ resumed \in StoreRec /\ resumed.active = TRUE /\ resumed.keys = store.keys
      /\ resumed.live = store.saved /\ resumed.cache = store.cache
  BY <1>3 DEF StoreRec
<1> HIDE DEF resumed
<1>5. docs \in [Doc -> Version]
  <2>1. \A d \in Doc : resumed.cache[d] \in KnownDoc
    BY <1>4 DEF StoreRec
  <2>2. \A d \in Doc : resumed.cache[d].found => resumed.cache[d].version \in Version
    BY <2>1 DEF KnownDoc
  <2>3. 0 \in Version
    BY BoundsAssumption DEF Version
  <2> QED BY <2>2, <2>3 DEF ExecuteQuery
<1> HIDE DEF docs
<1>6. resumed.keys \in SUBSET Doc /\ resumed.live.token \in Version /\ FALSE \in BOOLEAN
  BY <1>3, <1>4 DEF StoreRec, Known
<1>7. Applying(NoView, new, docs, resumed.keys, FALSE)
  BY <1>5, <1>6, NoViewIs, ApplyChangesIs
<1> HIDE DEF new
<1>8. /\ new \in ViewRec /\ new.open = TRUE /\ new.synced = store.keys /\ new.current = FALSE
      /\ new.limbo = {}
  BY <1>4, <1>7, NoViewIs DEF Applying, ViewRec
<1>9. ViewFits(store', view')
  BY <1>1, <1>4, <1>8 DEF ViewFits
<1>10. Query \in 0..sync.nextId - 1 /\ Query \in {Query} \cup Doc /\ sync.nextId \in Nat
  BY <1>2, SoundType DEF Query
<1>11. Sound(t, store.keys, responses, Uncrossed(tainted)) /\ Listened(sync, t, Query)
  BY <1>2, <1>6, <1>10, ListenSound
<1> HIDE DEF t
<1>12. Onward(sync, t)
  BY <1>10, <1>11 DEF Listened, Kept, Onward
<1>13. Uncrossed(tainted') = Uncrossed(tainted)
  BY <1>1 DEF Uncrossed
<1>14. LimboFits(sync', view', Whole(tainted'))
  <2>1. view = NoView /\ Targets(view) = {} /\ Targets(new) = {Query} /\ view.limbo = {}
    BY <1>2, <1>8, NoViewIs DEF ViewFits, Targets
  <2>2. Backed(t, {Query})
    BY <1>2, <1>11, <2>1 DEF LimboFits, Backed, Listened, Kept
  <2>3. Looked(t) = Looked(sync)
    BY <1>11 DEF Listened, Kept, Looked, Resolving
  <2> QED BY <1>1, <1>2, <1>8, <2>1, <2>2, <2>3 DEF LimboFits
<1>15. SamePhases(ls, listeners') /\ Told(listeners', main')
  BY <1>1, OnViewSnapshotsTells
<1> QED BY <1>1, <1>4, <1>8, <1>9, <1>11, <1>12, <1>13, <1>14, <1>15

\* A task of the worker queue keeps the invariant.
LEMMA RunTaskFits ==
    ASSUME ListensInv, RunTask
    PROVE  ListensInv'
<1> DEFINE task == Head(tasks)
           l == task.listener
<1>1. /\ tasks # << >> /\ tasks' = Tail(tasks)
      /\ UNCHANGED <<history, watched, responses, shown, mishaps>>
      /\ \/ task.op = "add" /\ AddQueryListener(l)
         \/ task.op = "remove" /\ RemoveQueryListener(l)
  <2>1. task \in Task
    <3>1. tasks # << >> /\ tasks \in Seq(Task)
      BY DEF RunTask, ListensInv, CallsFit, TasksFit
    <3> QED BY <3>1, TailFacts
  <2>2. task.op = "add" \/ task.op = "remove"
    BY <2>1 DEF Task
  <2> QED BY <2>2 DEF RunTask, serverVars
<1>2. /\ Sound(sync, store.keys, responses, Uncrossed(tainted)) /\ AnswersFit(responses, sync.nextId)
      /\ ViewFits(store, view) /\ LimboFits(sync, view, Whole(tainted)) /\ ServerFits
      /\ Told(listeners, main) /\ TasksFit(listeners, tasks, shown) /\ Wanted(listeners, view)
  BY DEF ListensInv, ClientFits, CallsFit
<1>3. listeners \in Seq(Listener) /\ tasks \in Seq(Task) /\ responses \in Seq(Response)
      /\ sync \in SyncRec /\ sync.nextId \in Nat
  BY <1>2, SoundType DEF Told, TasksFit, AnswersFit
<1>4. l \in 1..Len(listeners) /\ TasksFit(listeners, tasks', shown')
  <2>1. /\ tasks' \in Seq(Task) /\ DOMAIN tasks' = 1..Len(tasks) - 1 /\ Len(tasks) \in Nat \ {0}
        /\ \A i \in 1..Len(tasks) - 1 : tasks'[i] = tasks[i + 1]
        /\ DOMAIN tasks = 1..Len(tasks) /\ task = tasks[1]
    BY <1>1, <1>3, TailFacts, SeqFacts
  <2> HIDE DEF task
  <2>2. \A i \in 1..Len(tasks) : tasks[i].listener \in 1..Len(listeners)
    BY <1>2, <2>1 DEF TasksFit
  <2>3. 1 \in 1..Len(tasks) /\ \A i \in 1..Len(tasks) - 1 : i + 1 \in 1..Len(tasks)
    BY <2>1
  <2> QED BY <1>1, <1>2, <2>1, <2>2, <2>3 DEF TasksFit
<1> HIDE DEF task, l
<1>5. CASE AddQueryListener(l)
  <2> DEFINE ls == [listeners EXCEPT ![l].phase = "on"]
             heard == IF ShouldRaiseInitialEvent(ls[l], view, sync.online) THEN {l} ELSE {}
  <2>1. IF view.open
        THEN /\ main' = main \o EventsFor(ls, heard, NoView, view)
             /\ listeners' = Raised(ls, heard)
             /\ UNCHANGED <<sync, store, view, tainted>>
        ELSE FirstListen(ls)
    BY <1>5 DEF AddQueryListener
  <2>2. Switched(listeners, ls, l, "on")
    BY <1>3, <1>4, SwitchedIs
  <2>3. /\ ls \in Seq(Listener) /\ Len(ls) = Len(listeners)
        /\ DOMAIN ls = 1..Len(listeners)
    BY <2>2, SeqFacts DEF Switched
  <2>4. heard \in SUBSET DOMAIN ls
    BY <1>4, <2>3
  <2> HIDE DEF ls, heard
  <2>5. Told(ls, main) /\ TasksFit(ls, tasks', shown')
    BY <1>2, <1>4, <2>3, ToldSame DEF TasksFit
  <2>6. CASE view.open
    <3>1. Told(ls, EventsFor(ls, heard, NoView, view)) /\ SamePhases(ls, listeners')
      BY <2>1, <2>3, <2>4, <2>6, EventsForIs, RaisedIs
    <3>2. Told(ls, main')
      BY <2>1, <2>5, <2>6, <3>1, ToldMore
    <3>3. Told(listeners', main') /\ TasksFit(listeners', tasks', shown')
      BY <2>5, <3>1, <3>2, ToldSame, SamePhasesFit DEF SamePhases
    <3>4. Wanted(listeners', view')
      BY <2>1, <2>6 DEF Wanted
    <3>5. ServerFits' /\ ClientFits'
      BY <1>1, <1>2, <2>1, <2>6 DEF ServerFits, ClientFits
    <3> QED BY <3>3, <3>4, <3>5 DEF ListensInv, CallsFit
  <2>7. CASE ~view.open
    <3>1. /\ Sound(sync', store'.keys, responses, Uncrossed(tainted')) /\ Onward(sync, sync')
          /\ ViewFits(store', view') /\ LimboFits(sync', view', Whole(tainted'))
          /\ view'.open /\ SamePhases(ls, listeners') /\ Told(listeners', main')
      BY <2>1, <2>5, <2>7, FirstListenIs
    <3>2. AnswersFit(responses, sync'.nextId)
      BY <1>2, <1>3, <3>1, AnswersFitOnward DEF Onward
    <3>3. ClientFits'
      BY <1>1, <3>1, <3>2 DEF ClientFits
    <3>4. ServerFits'
      BY <1>1, <1>2, <1>3, <3>1, OnwardFits, SoundType
    <3>5. TasksFit(listeners', tasks', shown') /\ Wanted(listeners', view')
      BY <2>5, <3>1, SamePhasesFit DEF Wanted
    <3> QED BY <3>1, <3>3, <3>4, <3>5 DEF ListensInv, CallsFit
  <2> QED BY <2>6, <2>7
<1>6. CASE RemoveQueryListener(l)
  <2> DEFINE ls == [listeners EXCEPT ![l].phase = "off"]
             s == StopListening(sync, Query)
             last == listeners[l].phase = "on" /\ \A k \in DOMAIN ls : ls[k].phase # "on"
  <2>1. /\ last => CloseView(s, ls)
        /\ ~last => listeners' = ls /\ UNCHANGED <<sync, store, view>>
        /\ UNCHANGED <<main, tainted>>
    BY <1>6 DEF RemoveQueryListener
  <2>2. Switched(listeners, ls, l, "off")
    BY <1>3, <1>4, SwitchedIs
  <2>3. /\ ls \in Seq(Listener) /\ Len(ls) = Len(listeners)
        /\ DOMAIN ls = 1..Len(listeners)
    BY <2>2, SeqFacts DEF Switched
  <2>10. last => listeners[l].phase = "on" /\ \A k \in DOMAIN ls : ls[k].phase # "on"
    OBVIOUS
  <2> HIDE DEF ls, last
  <2>4. Told(ls, main) /\ TasksFit(ls, tasks', shown')
    BY <1>2, <1>4, <2>3, ToldSame DEF TasksFit
  <2>5. listeners' = ls
    BY <2>1 DEF CloseView
  <2>6. Told(listeners', main') /\ TasksFit(listeners', tasks', shown')
    BY <2>1, <2>4, <2>5
  <2>7. CASE ~last
    <3>1. Wanted(ls, view)
      <4>1. \A k \in 1..Len(ls) : ls[k].phase = "on" => listeners[k].phase = "on"
        BY <2>2, <2>3 DEF Switched
      <4> QED BY <1>2, <2>3, <4>1 DEF Wanted
    <3>2. ServerFits' /\ ClientFits'
      BY <1>1, <1>2, <2>1, <2>7 DEF ServerFits, ClientFits
    <3>3. Wanted(listeners', view')
      BY <2>1, <2>5, <2>7, <3>1
    <3> QED BY <2>6, <3>2, <3>3 DEF ListensInv, CallsFit
  <2>8. CASE last
    <3>1. view.open
      BY <1>2, <1>4, <2>8, <2>10 DEF Wanted
    <3>2. Targets(view) = {Query}
      BY <3>1 DEF Targets
    <3>3. Query \in DOMAIN sync.listening /\ Backed(sync, {Query})
      BY <1>2, <3>2 DEF LimboFits, Backed
    <3>4. Sound(s, store.keys, responses, Uncrossed(tainted)) /\ Stopped(sync, s, Query)
      BY <1>2, <1>3, <3>3, StopListeningSound
    <3>11. CloseView(s, ls)
      BY <2>1, <2>8
    <3> HIDE DEF s
    <3>5. Query \notin DOMAIN s.resolving
      BY <1>2, <3>4 DEF Stopped, Kept, Sound, Good, Ids, Query
    <3>6. Backed(s, {}) /\ Looked(s) \subseteq view.limbo /\ Onward(sync, s)
      <4>1. Looked(s) = Looked(sync)
        BY <3>4 DEF Stopped, Kept, Looked, Resolving
      <4>2. DOMAIN s.listening = DOMAIN s.resolving \cup {}
        BY <3>3, <3>4, <3>5 DEF Stopped, Kept, Backed
      <4> QED BY <1>2, <1>3, <3>4, <4>1, <4>2 DEF LimboFits, Backed, Onward, Stopped, Kept
    <3>7. /\ Sound(sync', store'.keys, responses, Uncrossed(tainted)) /\ Onward(s, sync')
          /\ ViewFits(store', view') /\ LimboFits(sync', view', TRUE)
      BY <1>2, <1>3, <3>4, <3>6, <3>11, CloseViewIs
    <3>8. Onward(sync, sync')
      BY <1>3, <3>6, <3>7, OnwardTwice
    <3>9. ClientFits'
      <4>1. AnswersFit(responses, sync'.nextId)
        BY <1>2, <1>3, <3>8, AnswersFitOnward DEF Onward
      <4>2. LimboFits(sync', view', Whole(tainted'))
        BY <3>7, LimboFitsAny
      <4> QED BY <1>1, <2>1, <3>7, <4>1, <4>2 DEF ClientFits
    <3>10. ServerFits'
      BY <1>1, <1>2, <1>3, <3>7, <3>8, OnwardFits, SoundType
    <3>12. Wanted(listeners', view')
      <4>1. \A k \in 1..Len(ls) : ls[k].phase # "on"
        BY <2>3, <2>8, <2>10
      <4> QED BY <2>5, <4>1 DEF Wanted
    <3> QED BY <2>6, <3>9, <3>10, <3>12 DEF ListensInv, CallsFit
  <2> QED BY <2>7, <2>8
<1> QED BY <1>1, <1>5, <1>6

-----------------------------------------------------------------------------
(* Responses                                                               *)

\* What is exact may be called less.
LEMMA SoundLess ==
    ASSUME NEW s, NEW keys, NEW q, NEW exact, Sound(s, keys, q, exact), NEW still, still => exact
    PROVE  Sound(s, keys, q, still)
BY DEF Sound

\* What a response leaves of the client, its view and the calls.
Outcome(s, q, exact, whole) ==
    /\ Sound(sync', store'.keys, q, exact) /\ Onward(s, sync')
    /\ ViewFits(store', view') /\ LimboFits(sync', view', whole)
    /\ Told(listeners', main') /\ Len(listeners') = Len(listeners)
    /\ Wanted(listeners', view')

\* Collecting changes neither the store nor the view.
LEMMA CollectIs ==
    ASSUME NEW s, NEW t, NEW q, NEW exact, Sound(t, store.keys, q, exact), Collected(s, t),
           NEW whole, LimboFits(s, view, whole), ViewFits(store, view),
           Told(listeners, main), Wanted(listeners, view), Collect(t)
    PROVE  Outcome(s, q, exact, whole)
<1>1. sync' = t /\ UNCHANGED <<store, view, listeners, main>>
  BY DEF Collect
<1>2. LimboFits(t, view, whole)
  BY DEF LimboFits, Collected, Backed, Looked, Resolving
<1>3. Onward(s, t)
  <2>1. t.nextId \in Nat
    BY SoundType
  <2> QED BY <2>1 DEF Onward, Collected
<1> QED BY <1>1, <1>2, <1>3 DEF Outcome

\* A remote event that was applied leaves the outcome of a response.
LEMMA EventAppliedFits ==
    ASSUME NEW s, NEW event, NEW q, NEW exact, EventApplied(s, event, q, exact),
           NEW whole, LimboFits(s, view, whole), Wanted(listeners, view)
    PROVE  Outcome(s, q, exact, whole)
<1>1. /\ Sound(sync', store'.keys, q, exact)
      /\ Tracked(s, sync', Targets(view), Shifted(Looked(s), view.limbo, view'.limbo))
      /\ ViewFits(store', view') /\ view'.open = view.open
      /\ SamePhases(listeners, listeners') /\ Told(listeners', main')
  BY DEF EventApplied
<1>2. LimboFits(sync', view', whole)
  <2>1. Targets(view') = Targets(view)
    BY <1>1 DEF Targets
  <2>2. Looked(s) \subseteq view.limbo /\ (whole => Looked(s) = view.limbo)
    BY DEF LimboFits
  <2>3. /\ Shifted(Looked(s), view.limbo, view'.limbo) \subseteq view'.limbo
        /\ whole => Shifted(Looked(s), view.limbo, view'.limbo) = view'.limbo
    BY <2>2 DEF Shifted
  <2> QED BY <1>1, <2>1, <2>3 DEF LimboFits, Tracked
<1>3. Wanted(listeners', view')
  <2>1. Wanted(listeners', view)
    BY <1>1, SamePhasesFit
  <2> QED BY <1>1, <2>1 DEF Wanted
<1> QED BY <1>1, <1>2, <1>3 DEF Outcome, Tracked, SamePhases

\* The snapshot's version is the token of the targets that are active.
LEMMA TokensSound ==
    ASSUME NEW s, NEW keys, NEW q, NEW exact, Sound(s, keys, q, exact), s.stream = "open",
           NEW version \in Version, NEW active, NEW t,
           t = [s EXCEPT !.states = [id \in DOMAIN @ |->
                   IF id \in active THEN UpdateResumeToken(@[id], version) ELSE @[id]]]
    PROVE  Sound(t, keys, q, exact) /\ Collected(s, t)
<1> DEFINE states == [id \in DOMAIN s.states |->
              IF id \in active THEN UpdateResumeToken(s.states[id], version) ELSE s.states[id]]
<1>1. /\ s \in SyncRec /\ s.states \in Partial(TargetState) /\ s.listening \in Partial(Listening)
      /\ s.updates \in [Doc -> KnownDoc] /\ s.mismatch \in BOOLEAN
  BY DEF Sound, Good, SyncRec
<1>2. DOMAIN s.states \in SUBSET Nat /\ \A id \in DOMAIN s.states : s.states[id] \in TargetState
  BY <1>1, PartialFacts
<1>3. ASSUME NEW id \in DOMAIN s.states
      PROVE  /\ states[id] \in TargetState
             /\ states[id].outstanding = s.states[id].outstanding
             /\ states[id].changes = s.states[id].changes
  BY <1>2 DEF UpdateResumeToken, TargetState
<1>4. DOMAIN states = DOMAIN s.states /\ states = [id \in DOMAIN states |-> states[id]]
  OBVIOUS
<1>5. t = [s EXCEPT !.states = states]
  OBVIOUS
<1> HIDE DEF states
<1>6. states \in Partial(TargetState)
  BY <1>2, <1>3, <1>4, PartialIs
<1>7. Rewritten(s, t, s.listening, states, s.updates, s.mismatch)
  BY <1>1, <1>5 DEF Rewritten, SyncRec
<1>8. Fit(s, keys, q, exact, s.states)
  BY FitSelf
<1>9. Fit(s, keys, q, exact, states)
  BY <1>3, <1>4, <1>8 DEF Fit
<1> QED BY <1>1, <1>6, <1>7, <1>9, StatesSound

\* An event fits whoever holds the same targets and lookups.
LEMMA FitsCollected ==
    ASSUME NEW s, NEW t, Collected(s, t), NEW keys, NEW event, EventFits(s, keys, event)
    PROVE  EventFits(t, keys, event)
BY DEF Collected, EventFits

\* A global snapshot leaves the outcome of a response.
LEMMA GlobalSnapshotIs ==
    ASSUME NEW s, NEW q \in Seq(Response), NEW exact, Sound(s, store.keys, q, exact),
           s.stream = "open", NEW whole, LimboFits(s, view, whole), ViewFits(store, view),
           Told(listeners, main), Wanted(listeners, view),
           NEW version \in Version, GlobalSnapshot(s, version)
    PROVE  Outcome(s, q, exact, whole)
<1> DEFINE active == {id \in DOMAIN s.states : IsActive(s, id)}
           told == [s EXCEPT !.states = [id \in DOMAIN @ |->
                       IF id \in active THEN UpdateResumeToken(@[id], version) ELSE @[id]]]
<1>1. Sound(told, store.keys, q, exact) /\ Collected(s, told)
  <2> HIDE DEF active
  <2> QED BY TokensSound
<1>2. IF version >= store.last THEN RaiseWatchSnapshot(told, version) ELSE Collect(told)
  BY DEF GlobalSnapshot, Collect
<1> HIDE DEF told
<1>3. CASE ~(version >= store.last)
  BY <1>1, <1>2, <1>3, CollectIs
<1>4. CASE version >= store.last
  <2> DEFINE event == RemoteEvent(told, version)
             taken == [told EXCEPT
                !.states = [id \in DOMAIN @ |-> IF id \in DOMAIN event.changes
                                                THEN ClearPendingChanges(@[id]) ELSE @[id]],
                !.updates = NoUpdates,
                !.mismatch = FALSE,
                !.listening = [id \in DOMAIN @ |->
                    IF id \in DOMAIN event.changes /\ event.changes[id].token > 0
                    THEN [@[id] EXCEPT !.token = event.changes[id].token] ELSE @[id]]]
             u == IF told.mismatch /\ Query \in DOMAIN told.listening THEN Rewatch(taken) ELSE taken
  <2>1. ApplyRemoteEvent(u, event)
    BY <1>2, <1>4, Zenon DEF RaiseWatchSnapshot
  <2>2. Taken(told, taken, event)
    BY DEF Taken
  <2>3. event \in Remote /\ EventFits(told, store.keys, event)
    BY <1>1, RemoteEventIs DEF Sound
  <2>4. told.stream = "open"
    BY <1>1 DEF Collected
  <2> HIDE DEF event, taken
  <2>5. Sound(taken, store.keys, q, exact) /\ Collected(told, taken) /\ Cleared(taken, event)
    BY <1>1, <2>2, <2>3, <2>4, TakenSound
  <2>6. Sound(u, store.keys, q, exact) /\ Collected(taken, u) /\ Cleared(u, event)
    <3>1. CASE told.mismatch /\ Query \in DOMAIN told.listening
      <4>1. Query \in DOMAIN taken.listening /\ taken.stream = "open"
        BY <2>4, <2>5, <3>1 DEF Collected
      <4> QED BY <2>3, <2>5, <3>1, <4>1, RewatchSound
    <3>2. CASE ~(told.mismatch /\ Query \in DOMAIN told.listening)
      BY <2>5, <3>2 DEF Collected
    <3> QED BY <3>1, <3>2
  <2> HIDE DEF u
  <2>7. Collected(s, u) /\ EventFits(u, store.keys, event)
    <3>1. Collected(told, u)
      BY <2>5, <2>6, CollectedTwice
    <3> QED BY <1>1, <2>3, <3>1, CollectedTwice, FitsCollected
  <2>8. LimboFits(u, view, whole)
    BY <2>7 DEF LimboFits, Collected, Backed, Looked, Resolving
  <2>9. Backed(u, Targets(view))
    BY <2>8 DEF LimboFits
  <2>10. EventApplied(u, event, q, exact)
    BY <2>1, <2>3, <2>6, <2>7, <2>9, ApplyRemoteEventIs
  <2>11. Outcome(u, q, exact, whole)
    BY <2>8, <2>10, EventAppliedFits
  <2>12. Onward(s, sync')
    <3>1. s.nextId \in Nat /\ u.nextId \in Nat
      BY <2>6, SoundType
    <3>2. Onward(s, u)
      BY <2>7, <3>1 DEF Onward, Collected
    <3> QED BY <2>11, <3>1, <3>2, OnwardTwice DEF Outcome
  <2> QED BY <2>11, <2>12 DEF Outcome
<1> QED BY <1>3, <1>4

\* Limbo that is looked up in full may be called less.
LEMMA LimboFitsLess ==
    ASSUME NEW s, NEW v, NEW whole, LimboFits(s, v, whole), NEW less, less => whole
    PROVE  LimboFits(s, v, less)
BY DEF LimboFits

\* The listeners of a query that is refused are taken off and told so.
LEMMA ErrorsTold ==
    ASSUME Told(listeners, main), NEW on, on = {l \in DOMAIN listeners : listeners[l].phase = "on"},
           NEW now, now = [l \in DOMAIN listeners |->
              IF l \in on THEN [listeners[l] EXCEPT !.phase = "off"] ELSE listeners[l]],
           NEW errors, errors = [i \in DOMAIN Sorted(on) |->
              [Event(Sorted(on)[i], NoView, NoView) EXCEPT !.error = TRUE]]
    PROVE  /\ Told(now, main \o errors) /\ Len(now) = Len(listeners)
           /\ \A l \in 1..Len(now) : now[l].phase # "on"
<1> DEFINE order == Sorted(on)
           n == Cardinality(on)
<1>1. /\ listeners \in Seq(Listener) /\ Len(listeners) \in Nat /\ DOMAIN listeners = 1..Len(listeners)
      /\ \A l \in 1..Len(listeners) : listeners[l] \in Listener
  BY SeqFacts DEF Told
<1>2. on \in SUBSET Nat /\ IsFiniteSet(on) /\ on \in SUBSET (1..Len(listeners))
  <2>1. on \in SUBSET (1..Len(listeners)) /\ IsFiniteSet(1..Len(listeners))
    BY <1>1, FS_Interval
  <2> QED BY <2>1, FS_Subset
<1>3. DOMAIN order = 1..n /\ n \in Nat /\ order \in Seq(on)
  BY <1>2, SortedFacts
<1>4. \A i \in 1..n : order[i] \in 1..Len(listeners)
  BY <1>2, <1>3
<1>5. errors = [i \in 1..n |-> [Event(order[i], NoView, NoView) EXCEPT !.error = TRUE]]
  BY <1>3
<1> HIDE DEF order, n
<1>6. ASSUME NEW i \in 1..n PROVE errors[i] \in Handed /\ errors[i].listener \in 1..Len(listeners)
  <2> DEFINE e == Event(order[i], NoView, NoView)
             got == In(NoView.docs) \ In(NoView.docs)
  <2>1. e = [listener |-> order[i], error |-> FALSE, added |-> got]
    BY DEF Event
  <2>2. got \in SUBSET Doc
    BY DEF In
  <2>3. errors[i] = [e EXCEPT !.error = TRUE]
    BY <1>5
  <2> HIDE DEF got, e
  <2>4. e \in Handed /\ e.listener = order[i]
    BY <1>1, <1>4, <2>1, <2>2 DEF Handed
  <2>5. [e EXCEPT !.error = TRUE] \in Handed /\ [e EXCEPT !.error = TRUE].listener = order[i]
    BY <2>4 DEF Handed
  <2> QED BY <1>4, <2>3, <2>5
<1>7. errors \in [1..n -> Handed]
  <2>1. errors = [i \in 1..n |-> errors[i]]
    BY <1>5
  <2> QED BY <1>6, <2>1
<1>8. errors \in Seq(Handed) /\ DOMAIN errors = 1..n
  <2>1. n \in Nat
    BY <1>3
  <2> QED BY ONLY <1>7, <2>1
<1>9. Told(listeners, errors)
  BY <1>1, <1>6, <1>8 DEF Told
<1>10. Told(listeners, main \o errors)
  BY <1>9, ToldMore
<1>11. ASSUME NEW l \in 1..Len(listeners) PROVE now[l] \in Listener /\ now[l].phase # "on"
  <2>1. listeners[l] \in Listener
    BY <1>1
  <2>2. CASE l \in on
    <3>1. now[l] = [listeners[l] EXCEPT !.phase = "off"]
      BY <1>1, <2>2
    <3> QED BY <2>1, <3>1 DEF Listener
  <2>3. CASE l \notin on
    <3>1. now[l] = listeners[l]
      BY <1>1, <2>3
    <3> QED BY <1>1, <2>1, <2>3, <3>1
  <2> QED BY <2>2, <2>3
<1>12. now \in [1..Len(listeners) -> Listener]
  <2>1. now = [l \in 1..Len(listeners) |-> now[l]]
    BY <1>1
  <2> QED BY <1>11, <2>1
<1>13. now \in Seq(Listener) /\ Len(now) = Len(listeners)
  BY <1>1, <1>12
<1> QED BY <1>10, <1>11, <1>13, ToldSame

\* The key of a refused lookup is not looked up any more, whatever is pumped.
LEMMA ForgottenIs ==
    ASSUME NEW s, NEW keys, NEW q, NEW exact, Sound(s, keys, q, exact), NEW id \in DOMAIN s.resolving,
           NEW left, Left(s, left, id), NEW t, Forgot(left, t, id), id # Query,
           NEW Q \in SUBSET {Query}, Backed(s, Q)
    PROVE  Backed(t, Q) /\ Looked(t) = Looked(s) \ {s.resolving[id].key} /\ Onward(s, t)
<1>1. /\ Lookups(s) /\ s \in SyncRec /\ s.nextId \in Nat
  BY SoundType DEF Sound, Good
<1>2. /\ t.resolving = Without(s.resolving, id) /\ t.enqueued = s.enqueued
      /\ DOMAIN t.listening = DOMAIN s.listening \ {id} /\ t.nextId = s.nextId
      /\ t.stream = s.stream
  BY DEF Left, Forgot
<1>3. /\ DOMAIN t.resolving = DOMAIN s.resolving \ {id}
      /\ \A i \in DOMAIN t.resolving : t.resolving[i] = s.resolving[i]
  BY <1>2 DEF Without
<1>4. Backed(t, Q)
  BY <1>2, <1>3 DEF Backed
<1>5. Resolving(t) = Resolving(s) \ {s.resolving[id].key}
  BY <1>1, <1>3 DEF Lookups, Resolving
<1>6. s.resolving[id].key \notin Range(s.enqueued)
  BY <1>1 DEF Lookups, Resolving
<1> QED BY <1>1, <1>2, <1>4, <1>5, <1>6 DEF Looked, Onward

\* A refusal leaves the outcome of a response: the query is closed, or the
\* document that was looked up is taken as gone.
LEMMA TargetRefusedIs ==
    ASSUME NEW s, NEW q \in Seq(Response), NEW exact, Sound(s, store.keys, q, exact),
           q # << >>, q[1].kind = "refused", NEW id \in Nat, q[1].id = id,
           NEW still, still => exact /\ StateOf(s, id).outstanding = 1,
           NEW whole, LimboFits(s, view, whole),
           NEW less, less => whole /\ (id \in DOMAIN s.resolving => view.current),
           ViewFits(store, view), Told(listeners, main), Wanted(listeners, view),
           TargetRefused(s, id)
    PROVE  Outcome(s, Tail(q), still, less)
<1> DEFINE left == [s EXCEPT !.listening = Without(@, id), !.states = Without(@, id)]
           rest == Tail(q)
           Q == Targets(view)
<1>1. rest \in Seq(Response)
  BY TailFacts
<1>2. /\ s \in SyncRec /\ s.nextId \in Nat /\ s.resolving \in Partial(Lookup) /\ Ids(s)
      /\ Backed(s, Q) /\ Looked(s) \subseteq view.limbo /\ (whole => Looked(s) = view.limbo)
  BY SoundType DEF Sound, Good, SyncRec, LimboFits
<1>3. CASE id \notin DOMAIN s.listening
  <2>1. sync' = s /\ UNCHANGED <<store, view, listeners, main>>
    BY <1>3 DEF TargetRefused
  <2>2. Sound(s, store.keys, rest, still)
    BY <1>3, IgnoredSound
  <2>3. Onward(s, s)
    BY <1>2 DEF Onward
  <2>4. LimboFits(s, view, less)
    BY LimboFitsLess
  <2> QED BY <2>1, <2>2, <2>3, <2>4 DEF Outcome
<1>4. ASSUME id \in DOMAIN s.listening
      PROVE  Sound(left, store.keys, rest, still) /\ Left(s, left, id)
  BY <1>4, RefusedSound
<1> HIDE DEF rest
<1>5. CASE id \in DOMAIN s.listening /\ id = Query
  <2> DEFINE on == {l \in DOMAIN listeners : listeners[l].phase = "on"}
             now == [l \in DOMAIN listeners |->
                       IF l \in on THEN [listeners[l] EXCEPT !.phase = "off"] ELSE listeners[l]]
             errors == [i \in DOMAIN Sorted(on) |->
                          [Event(Sorted(on)[i], NoView, NoView) EXCEPT !.error = TRUE]]
  <2>1. CloseView(left, now) /\ main' = main \o errors
    BY <1>5 DEF TargetRefused
  <2>2. /\ Told(now, main \o errors) /\ Len(now) = Len(listeners)
        /\ \A l \in 1..Len(now) : now[l].phase # "on"
    BY ErrorsTold
  <2> HIDE DEF on, now, errors, left
  <2>3. Backed(left, {}) /\ Looked(left) \subseteq view.limbo /\ Onward(s, left)
    <3>1. Query \notin DOMAIN s.resolving /\ Q \in SUBSET {Query}
      BY <1>2 DEF Ids, Query, Targets
    <3>2. DOMAIN left.listening = DOMAIN left.resolving \cup {}
      BY <1>2, <1>4, <1>5, <3>1 DEF Left, Backed
    <3>3. Looked(left) = Looked(s)
      BY <1>4, <1>5 DEF Left, Looked, Resolving
    <3> QED BY <1>2, <1>4, <1>5, <3>2, <3>3 DEF Left, Backed, Onward
  <2>4. /\ Sound(sync', store'.keys, rest, still) /\ Onward(left, sync')
        /\ ViewFits(store', view') /\ LimboFits(sync', view', TRUE)
        /\ listeners' = now
    BY <1>1, <1>4, <1>5, <2>1, <2>3, CloseViewIs
  <2>5. Onward(s, sync')
    BY <1>2, <2>3, <2>4, OnwardTwice
  <2>6. LimboFits(sync', view', less)
    BY <2>4, LimboFitsAny
  <2>7. Told(listeners', main') /\ Len(listeners') = Len(listeners) /\ Wanted(listeners', view')
    BY <2>1, <2>2, <2>4 DEF Wanted
  <2> QED BY <2>4, <2>5, <2>6, <2>7 DEF Outcome, rest
<1>6. CASE id \in DOMAIN s.listening /\ id # Query
  <2> DEFINE t == [left EXCEPT !.resolving = Without(@, id)]
             key == s.resolving[id].key
             gone == [NoUpdates EXCEPT ![key] = NoDocument(0)]
             none == << >>
             event == [version |-> 0, changes |-> none, updates |-> gone]
  <2>1. ApplyRemoteEvent(Pump(t), event)
    BY <1>6 DEF TargetRefused
  <2>2. Sound(t, store.keys, rest, still) /\ Forgot(left, t, id)
    <3> HIDE DEF left
    <3> QED BY <1>4, <1>6, ForgetSound
  <2>3. id \in DOMAIN s.resolving /\ Q \in SUBSET {Query}
    BY <1>2, <1>6 DEF Backed, Targets
  <2>4. key \in Doc
    <3>1. s.resolving[id] \in Lookup
      BY <1>2, <2>3, PartialFacts
    <3> QED BY <3>1 DEF Lookup
  <2>5. event \in Remote /\ event.updates[key] = NoDocument(0) /\ DOMAIN event.changes = {}
    <3>1. gone \in [Doc -> KnownDoc] /\ gone[key] = NoDocument(0)
      <4>1. NoDocument(0) \in KnownDoc /\ Invalid \in KnownDoc
        BY BoundsAssumption DEF Invalid, NoDocument, KnownDoc, Document, Version
      <4>2. NoUpdates \in [Doc -> KnownDoc]
        BY <4>1 DEF NoUpdates
      <4> HIDE DEF key
      <4> QED BY <2>4, <4>1, <4>2
    <3>2. 0 \in Version
      BY BoundsAssumption DEF Version
    <3>3. none \in Partial(TargetChange) /\ DOMAIN none = {}
      BY PartialNone
    <3> HIDE DEF gone, none
    <3> QED BY <3>1, <3>2, <3>3 DEF Remote
  <2> HIDE DEF event, gone, none, t, left, key, Q
  <2>6. Backed(t, Q) /\ Looked(t) = Looked(s) \ {key} /\ Onward(s, t)
    BY <1>2, <1>4, <1>6, <2>2, <2>3, ForgottenIs DEF key
  <2> DEFINE p == Pump(t)
  <2>7. Sound(p, store.keys, rest, still) /\ Tracked(t, p, Q, Looked(t))
    BY <1>1, <2>2, <2>6, PumpSound
  <2> HIDE DEF p
  <2>8. Cleared(p, event) /\ EventFits(p, store.keys, event)
    BY <2>5 DEF Cleared, EventFits
  <2>9. Backed(p, Targets(view)) /\ Looked(p) = Looked(s) \ {key} /\ Onward(t, p)
    BY <2>6, <2>7 DEF Tracked, Q
  <2>10. EventApplied(p, event, rest, still)
    BY <1>1, <2>1, <2>5, <2>7, <2>8, <2>9, ApplyRemoteEventIs DEF p
  <2>11. LimboFits(p, view, FALSE)
    BY <1>2, <2>9 DEF LimboFits
  <2>12. Outcome(p, rest, still, FALSE)
    BY <2>10, <2>11, EventAppliedFits
  <2>13. LimboFits(sync', view', less)
    <3>1. Backed(sync', Targets(view')) /\ Looked(sync') \subseteq view'.limbo
      BY <2>12 DEF Outcome, LimboFits
    <3>2. ASSUME less PROVE Looked(sync') = view'.limbo
      <4>1. Looked(s) = view.limbo /\ view.current
        BY <1>2, <2>3, <3>2
      <4>2. view'.current /\ key \notin view'.limbo
        BY <2>4, <2>5, <2>10, <4>1 DEF EventApplied
      <4>3. Looked(sync') = Shifted(Looked(p), view.limbo, view'.limbo)
        BY <2>10 DEF EventApplied, Tracked
      <4> QED BY <2>9, <4>1, <4>2, <4>3 DEF Shifted
    <3> QED BY <3>1, <3>2 DEF LimboFits
  <2>14. Onward(s, sync')
    <3>1. t.nextId \in Nat /\ p.nextId \in Nat
      BY <2>2, <2>7, SoundType
    <3>2. Onward(s, p)
      BY <1>2, <2>6, <2>9, OnwardTwice
    <3> QED BY <1>2, <2>12, <3>2, OnwardTwice DEF Outcome
  <2> QED BY <2>12, <2>13, <2>14 DEF Outcome, rest
<1> QED BY <1>3, <1>5, <1>6

\* What a response is of.
LEMMA ResponseKinds ==
    ASSUME NEW m \in Response
    PROVE  /\ m.kind \in {"added", "removed", "refused", "current", "change", "filter", "snapshot"}
           /\ IsAnswer(m) => m.id \in Nat
           /\ m.kind = "current" => m.version \in Version
           /\ m.kind = "change" => m.key \in Doc /\ m.doc \in KnownDoc
           /\ m.kind = "snapshot" => m.version \in Version
BY DEF Response, IsAnswer

\* The next response is taken of a stream that is open, by a client that is
\* online from then on.
LEMMA ReceiveIs ==
    ASSUME ListensInv, NEW s, s = UpdateState(sync, "online"), responses # << >>
    PROVE  /\ Sound(s, store.keys, responses, Uncrossed(tainted)) /\ s.stream = "open"
           /\ Onward(sync, s) /\ s.nextId = sync.nextId
           /\ LimboFits(s, view, Whole(tainted))
<1>1. /\ Sound(sync, store.keys, responses, Uncrossed(tainted))
      /\ LimboFits(sync, view, Whole(tainted))
  BY DEF ListensInv, ClientFits
<1>2. Sound(s, store.keys, responses, Uncrossed(tainted)) /\ Collected(sync, s)
  BY <1>1, OnlineSound
<1>3. s.stream = "open"
  BY <1>2 DEF Sound
<1>4. s.nextId \in Nat
  BY <1>2, SoundType
<1>5. Onward(sync, s) /\ s.nextId = sync.nextId
  BY <1>2, <1>4 DEF Collected, Onward
<1>6. LimboFits(s, view, Whole(tainted))
  BY <1>1, <1>2 DEF LimboFits, Collected, Backed, Looked, Resolving
<1> QED BY <1>2, <1>3, <1>5, <1>6

\* What the causes that a response adds are about.
LEMMA TaintsAre ==
    ASSUME NEW s, NEW m, tainted' = tainted \cup Taints(s, m)
    PROVE  /\ Uncrossed(tainted') => Uncrossed(tainted)
           /\ Whole(tainted') => Whole(tainted)
           /\ m.kind = "refused" /\ Uncrossed(tainted') => StateOf(s, m.id).outstanding = 1
           /\ m.kind = "refused" /\ Whole(tainted') =>
                 (m.id \in DOMAIN s.resolving => view.current)
BY DEF Taints, Uncrossed, Whole

\* Every response leaves the outcome of a response.
LEMMA ReceivedFits ==
    ASSUME ListensInv, Receive, NEW s, s = UpdateState(sync, "online")
    PROVE  Outcome(s, Tail(responses), Uncrossed(tainted'), Whole(tainted'))
<1> DEFINE m == responses[1]
           q == Tail(responses)
           exact == Uncrossed(tainted)
           whole == Whole(tainted)
           still == Uncrossed(tainted')
           less == Whole(tainted')
<1>1. responses # << >> /\ responses \in Seq(Response) /\ m = Head(responses) /\ m \in Response
  <2>1. responses # << >> /\ responses \in Seq(Response)
    BY DEF Receive, ListensInv, ClientFits, AnswersFit
  <2> QED BY <2>1, TailFacts
<1>2. /\ m.kind = "added" => Collect(TargetAcknowledged(s, m.id, FALSE))
      /\ m.kind = "removed" => Collect(TargetAcknowledged(s, m.id, TRUE))
      /\ m.kind = "refused" => TargetRefused(s, m.id)
      /\ m.kind = "current" => Collect(TargetCurrent(s, m.id, m.version))
      /\ m.kind = "change" => Collect(DocumentChanged(s, m))
      /\ m.kind = "filter" => Collect(ExistenceFilter(s, m.id, m.count))
      /\ m.kind = "snapshot" => GlobalSnapshot(s, m.version)
      /\ tainted' = tainted \cup Taints(s, m)
  BY <1>1 DEF Receive
<1> HIDE DEF m
<1>3. /\ Sound(s, store.keys, responses, exact) /\ s.stream = "open"
      /\ LimboFits(s, view, whole) /\ s.nextId = sync.nextId
  BY <1>1, ReceiveIs
<1>4. /\ ViewFits(store, view) /\ Told(listeners, main) /\ Wanted(listeners, view)
      /\ AnswersFit(responses, sync.nextId)
  BY DEF ListensInv, ClientFits, CallsFit
<1>5. /\ still => exact
      /\ less => whole
      /\ m.kind = "refused" /\ still => StateOf(s, m.id).outstanding = 1
      /\ m.kind = "refused" /\ less => (m.id \in DOMAIN s.resolving => view.current)
  BY <1>2, TaintsAre
<1>6. LimboFits(s, view, less)
  BY <1>3, <1>5, LimboFitsLess
<1>7. IsAnswer(m) => m.id \in 0..s.nextId - 1
  <2>1. 1 \in DOMAIN responses
    BY <1>1, TailFacts, SeqFacts
  <2> QED BY <1>3, <1>4, <2>1 DEF AnswersFit, m
<1>8. view.open => view.synced \subseteq store.keys
  BY <1>4 DEF ViewFits
<1>9. q \in Seq(Response)
  BY <1>1, TailFacts
<1>10. responses[1] = m
  BY DEF m
<1> HIDE DEF exact, whole, still, less, q
<1>11. q = Tail(responses)
  BY DEF q
<1>12. ASSUME ~IsAnswer(m) PROVE Sound(s, store.keys, q, still)
  <2>1. Sound(s, store.keys, q, exact)
    BY <1>1, <1>3, <1>10, <1>11, <1>12, PassedSound
  <2> QED BY <1>5, <2>1, SoundLess
<1>13. ASSUME m.kind \in {"added", "removed"}, NEW removed, NEW t,
              t = TargetAcknowledged(s, m.id, removed), Collect(t)
       PROVE  Outcome(s, q, still, less)
  <2>1. IsAnswer(m)
    BY <1>13 DEF IsAnswer
  <2>2. Sound(t, store.keys, q, exact) /\ Collected(s, t)
    BY <1>1, <1>3, <1>7, <1>10, <1>11, <1>13, <2>1, TargetAcknowledgedSound
  <2>3. Sound(t, store.keys, q, still)
    BY <1>5, <2>2, SoundLess
  <2> QED BY <1>4, <1>6, <1>13, <2>2, <2>3, CollectIs
<1>14. CASE m.kind = "added"
  BY <1>2, <1>13, <1>14 DEF q, still, less
<1>15. CASE m.kind = "removed"
  BY <1>2, <1>13, <1>15 DEF q, still, less
<1>16. CASE m.kind = "refused"
  <2>1. m.id \in Nat
    BY <1>1, <1>16, ResponseKinds DEF IsAnswer
  <2>2. TargetRefused(s, m.id)
    BY <1>2, <1>16
  <2>3. still => exact /\ StateOf(s, m.id).outstanding = 1
    BY <1>5, <1>16
  <2>4. less => whole /\ (m.id \in DOMAIN s.resolving => view.current)
    BY <1>5, <1>16
  <2>5. Outcome(s, Tail(responses), still, less)
    BY <1>1, <1>3, <1>4, <1>10, <1>16, <2>1, <2>2, <2>3, <2>4, TargetRefusedIs
  <2> QED BY <2>5 DEF still, less
<1>17. CASE m.kind = "current"
  <2> DEFINE t == TargetCurrent(s, m.id, m.version)
  <2>1. ~IsAnswer(m)
    BY <1>17 DEF IsAnswer
  <2>2. m.version \in Version
    BY <1>1, <1>17, ResponseKinds
  <2>3. Sound(t, store.keys, q, still) /\ Collected(s, t)
    BY <1>3, <1>12, <2>1, <2>2, TargetCurrentSound
  <2>4. Collect(t)
    BY <1>2, <1>17
  <2> HIDE DEF t
  <2>5. Outcome(s, q, still, less)
    BY <1>4, <1>6, <2>3, <2>4, CollectIs
  <2> QED BY <2>5 DEF q, still, less
<1>18. CASE m.kind = "change"
  <2> DEFINE t == DocumentChanged(s, m)
  <2>1. ~IsAnswer(m)
    BY <1>18 DEF IsAnswer
  <2>2. m.key \in Doc /\ m.doc \in KnownDoc
    BY <1>1, <1>18, ResponseKinds
  <2>3. Sound(t, store.keys, q, still) /\ Collected(s, t)
    BY <1>3, <1>8, <1>12, <2>1, <2>2, DocumentChangedSound
  <2>4. Collect(t)
    BY <1>2, <1>18
  <2> HIDE DEF t
  <2>5. Outcome(s, q, still, less)
    BY <1>4, <1>6, <2>3, <2>4, CollectIs
  <2> QED BY <2>5 DEF q, still, less
<1>19. CASE m.kind = "filter"
  <2> DEFINE t == ExistenceFilter(s, m.id, m.count)
  <2>1. ~IsAnswer(m)
    BY <1>19 DEF IsAnswer
  <2>3. Sound(t, store.keys, q, still) /\ Collected(s, t)
    BY <1>3, <1>8, <1>12, <2>1, ExistenceFilterSound
  <2>4. Collect(t)
    BY <1>2, <1>19
  <2> HIDE DEF t
  <2>5. Outcome(s, q, still, less)
    BY <1>4, <1>6, <2>3, <2>4, CollectIs
  <2> QED BY <2>5 DEF q, still, less
<1>20. CASE m.kind = "snapshot"
  <2>1. ~IsAnswer(m)
    BY <1>20 DEF IsAnswer
  <2>2. m.version \in Version
    BY <1>1, <1>20, ResponseKinds
  <2>3. GlobalSnapshot(s, m.version)
    BY <1>2, <1>20
  <2>4. Outcome(s, q, still, less)
    BY <1>3, <1>4, <1>6, <1>9, <1>12, <2>1, <2>2, <2>3, GlobalSnapshotIs
  <2> QED BY <2>4 DEF q, still, less
<1>21. m.kind \in {"added", "removed", "refused", "current", "change", "filter", "snapshot"}
  BY <1>1, ResponseKinds
<1> QED BY <1>14, <1>15, <1>16, <1>17, <1>18, <1>19, <1>20, <1>21

\* An answer less is on its way.
LEMMA AnswersFitTail ==
    ASSUME NEW q, NEW n, AnswersFit(q, n), q # << >>
    PROVE  AnswersFit(Tail(q), n)
<1>1. q \in Seq(Response) /\ \A i \in DOMAIN q : IsAnswer(q[i]) => q[i].id \in 0..n - 1
  BY DEF AnswersFit
<1>2. /\ Tail(q) \in Seq(Response) /\ DOMAIN Tail(q) = 1..Len(q) - 1
      /\ \A i \in 1..Len(q) - 1 : Tail(q)[i] = q[i + 1]
      /\ DOMAIN q = 1..Len(q) /\ Len(q) \in Nat
  BY <1>1, TailFacts, SeqFacts
<1>3. ASSUME NEW i \in 1..Len(q) - 1, IsAnswer(Tail(q)[i]) PROVE Tail(q)[i].id \in 0..n - 1
  <2>1. i + 1 \in DOMAIN q /\ Tail(q)[i] = q[i + 1]
    BY <1>2
  <2> QED BY <1>1, <1>3, <2>1
<1> QED BY <1>2, <1>3 DEF AnswersFit

\* A response that is received keeps the invariant.
LEMMA ReceiveFits ==
    ASSUME ListensInv, Receive
    PROVE  ListensInv'
<1> DEFINE s == UpdateState(sync, "online")
<1>1. /\ responses # << >> /\ responses' = Tail(responses)
      /\ UNCHANGED <<history, watched, tasks, shown, mishaps>>
  BY DEF Receive, serverVars
<1>2. /\ Sound(sync, store.keys, responses, Uncrossed(tainted)) /\ AnswersFit(responses, sync.nextId)
      /\ ServerFits /\ TasksFit(listeners, tasks, shown)
  BY DEF ListensInv, ClientFits, CallsFit
<1>3. Outcome(s, Tail(responses), Uncrossed(tainted'), Whole(tainted'))
  BY ReceivedFits
<1>4. Onward(sync, s) /\ s.nextId = sync.nextId
  BY <1>1, ReceiveIs
<1> HIDE DEF s
<1>5. /\ Sound(sync', store'.keys, responses', Uncrossed(tainted')) /\ Onward(s, sync')
      /\ ViewFits(store', view') /\ LimboFits(sync', view', Whole(tainted'))
      /\ Told(listeners', main') /\ Len(listeners') = Len(listeners)
      /\ Wanted(listeners', view')
  BY <1>1, <1>3 DEF Outcome
<1>6. sync \in SyncRec /\ sync.nextId \in Nat /\ sync' \in SyncRec
  BY <1>2, <1>5, SoundType
<1>7. Onward(sync, sync')
  BY <1>4, <1>5, <1>6, OnwardTwice
<1>8. AnswersFit(responses', sync'.nextId)
  <2>1. AnswersFit(Tail(responses), sync.nextId)
    BY <1>1, <1>2, AnswersFitTail
  <2>2. sync'.nextId \in Nat /\ sync.nextId <= sync'.nextId
    BY <1>7 DEF Onward
  <2> QED BY <1>1, <1>6, <2>1, <2>2, AnswersFitOnward
<1>9. ClientFits'
  BY <1>5, <1>8 DEF ClientFits
<1>10. ServerFits'
  BY <1>1, <1>2, <1>6, <1>7, OnwardFits
<1>11. TasksFit(listeners', tasks', shown')
  BY <1>1, <1>2, <1>5 DEF TasksFit
<1> QED BY <1>5, <1>9, <1>10, <1>11 DEF ListensInv, CallsFit

-----------------------------------------------------------------------------
(* The invariant holds                                                     *)

\* A client that was started has no target, lookup, request or answer.
LEMMA StartedSound ==
    ASSUME NEW keys, NEW exact,
           sync = [stream |-> "off", idle |-> FALSE, listening |-> << >>,
                   states |-> << >>, updates |-> NoUpdates, mismatch |-> FALSE,
                   requests |-> << >>, online |-> "unknown", failed |-> FALSE,
                   timer |-> FALSE, resolving |-> << >>, enqueued |-> << >>,
                   nextId |-> 1, broken |-> FALSE]
    PROVE  /\ Sound(sync, keys, << >>, exact) /\ sync.stream = "off"
           /\ DOMAIN sync.listening = {} /\ DOMAIN sync.resolving = {} /\ Looked(sync) = {}
<1> DEFINE e == << >>
           one == 1
           updates == NoUpdates
<1>1. /\ e \in Seq(Asking) /\ e \in Partial(TargetState) /\ e \in Partial(Listening)
      /\ e \in Partial(Lookup) /\ e \in Seq(Doc) /\ DOMAIN e = {}
      /\ one \in Nat \ {0}
  BY PartialNone
<1>2. updates \in [Doc -> KnownDoc]
  BY DEF NoUpdates, Invalid, NoDocument, KnownDoc, Document
<1>3. sync = [stream |-> "off", idle |-> FALSE, listening |-> e,
              states |-> e, updates |-> updates, mismatch |-> FALSE,
              requests |-> e, online |-> "unknown", failed |-> FALSE,
              timer |-> FALSE, resolving |-> e, enqueued |-> e,
              nextId |-> one, broken |-> FALSE]
  OBVIOUS
<1>4. e = << >>
  OBVIOUS
<1> HIDE DEF e, one, updates
<1>5. /\ sync \in SyncRec /\ sync.stream = "off" /\ ~sync.idle /\ ~sync.failed /\ ~sync.timer
      /\ ~sync.broken /\ sync.requests = e /\ sync.states = e /\ sync.listening = e
      /\ sync.resolving = e /\ sync.enqueued = e
  BY <1>1, <1>2, <1>3 DEF SyncRec
<1>6. /\ DOMAIN sync.listening = {} /\ DOMAIN sync.resolving = {} /\ DOMAIN sync.states = {}
      /\ DOMAIN sync.requests = {} /\ DOMAIN sync.enqueued = {} /\ sync.requests = << >>
  BY <1>1, <1>4, <1>5
<1>7. Resolving(sync) = {} /\ Range(sync.enqueued) = {} /\ IsInj(sync.enqueued)
  BY <1>6 DEF Resolving, Range, IsInj
<1>8. Lookups(sync)
  <2>1. IsFiniteSet({}) /\ Cardinality({}) = 0
    BY FS_EmptySet
  <2>2. 0 <= MaxResolutions
    BY BoundsAssumption
  <2>3. IsFiniteSet(DOMAIN sync.resolving) /\ Cardinality(DOMAIN sync.resolving) <= MaxResolutions
    BY <1>6, <2>1, <2>2
  <2> QED BY <1>6, <1>7, <2>3 DEF Lookups
<1>9. Conn(sync) /\ Ids(sync) /\ Received(sync) /\ Held(sync, keys)
  BY <1>5, <1>6 DEF Conn, Ids, Received, Held
<1>10. Exact(sync, << >>)
  BY <1>6, NothingAwaited
<1> QED BY <1>5, <1>6, <1>7, <1>8, <1>9, <1>10 DEF Sound, Good, Looked

\* The server's collection had two versions.
LEMMA HistoryIs ==
    ASSUME Init
    PROVE  history \in [0..2 -> [Doc -> Version]]
<1>1. PICK docs \in [1..2 -> [Doc -> 0..2]] :
         history = [v \in 0..2 |-> IF v = 0 THEN NoDocs ELSE docs[v]]
  BY DEF Init
<1>2. 0..2 \subseteq Version
  BY BoundsAssumption DEF Version
<1>3. NoDocs \in [Doc -> Version]
  BY <1>2 DEF NoDocs
<1>4. \A v \in 0..2 : v # 0 => v \in 1..2
  OBVIOUS
<1>5. \A v \in 1..2 : docs[v] \in [Doc -> Version]
  BY <1>1, <1>2
<1> QED BY <1>1, <1>3, <1>4, <1>5

\* What an earlier session left is of the first.
LEMMA DiskIs ==
    ASSUME Init
    PROVE  store \in StoreRec /\ store.active = FALSE
<1> DEFINE seen == IF history[1] = NoDocs THEN 0 ELSE 1
           cache == [d \in Doc |-> IF history[1][d] = 0 THEN Invalid ELSE Found(1)]
           read == history[1]
           keys == In(history[1])
           saved == [token |-> seen, free |-> seen]
           live == [token |-> 0, free |-> 0]
<1>1. store = [cache |-> cache, read |-> read, keys |-> keys, saved |-> saved, live |-> live,
               active |-> FALSE, last |-> seen]
  BY DEF Init
<1>2. seen \in Version /\ 0 \in Version
  BY BoundsAssumption DEF Version
<1>3. cache \in [Doc -> KnownDoc]
  <2>1. Invalid \in KnownDoc /\ Found(1) \in KnownDoc
    BY BoundsAssumption DEF Invalid, NoDocument, Found, KnownDoc, Document, Version
  <2> QED BY <2>1
<1>4. read \in [Doc -> Version]
  BY HistoryIs
<1>5. keys \in SUBSET Doc
  BY DEF In
<1>6. saved \in Known /\ live \in Known
  <2> HIDE DEF seen
  <2> QED BY <1>2 DEF Known
<1> HIDE DEF seen, cache, read, keys, saved, live
<1> QED BY <1>1, <1>2, <1>3, <1>4, <1>5, <1>6 DEF StoreRec

\* The invariant holds at first.
LEMMA InitFits ==
    ASSUME Init
    PROVE  ListensInv
<1>1. /\ Sound(sync, store.keys, << >>, Uncrossed(tainted)) /\ sync.stream = "off"
      /\ DOMAIN sync.listening = {} /\ DOMAIN sync.resolving = {} /\ Looked(sync) = {}
  BY StartedSound DEF Init
<1>2. /\ watched = << >> /\ responses = << >> /\ view = NoView
      /\ listeners = << >> /\ tasks = << >> /\ main = << >> /\ shown = << >>
      /\ mishaps = 0
  BY DEF Init
<1>3. ServerFits
  <2>1. history \in [0..2 -> [Doc -> Version]] /\ 2 \in 0..2 + mishaps /\ mishaps \in 0..MaxMishaps
    BY <1>2, HistoryIs, BoundsAssumption
  <2>2. DOMAIN watched = {}
    BY <1>2
  <2>3. DOMAIN watched \in SUBSET Nat /\ IsFiniteSet(DOMAIN watched)
    BY <2>2, FS_EmptySet
  <2> QED BY <2>1, <2>2, <2>3 DEF ServerFits
<1>4. ClientFits
  <2>1. AnswersFit(responses, sync.nextId)
    BY <1>2 DEF AnswersFit
  <2>2. NoView.open = FALSE
    BY DEF NoView
  <2>3. ViewFits(store, view)
    BY <1>2, <2>2, DiskIs, NoViewIs DEF ViewFits
  <2>4. LimboFits(sync, view, Whole(tainted))
    BY <1>1, <1>2, NoViewIs DEF LimboFits, Backed, Targets
  <2> QED BY <1>1, <1>2, <2>1, <2>3, <2>4 DEF ClientFits
<1>5. CallsFit
  BY <1>2 DEF CallsFit, Told, TasksFit, Wanted
<1> QED BY <1>3, <1>4, <1>5 DEF ListensInv

\* Every step keeps the invariant.
LEMMA NextFits ==
    ASSUME ListensInv, [Next]_vars
    PROVE  ListensInv'
<1>1. ASSUME NEW kind \in {"get", "listen"}, Ask(kind) PROVE ListensInv'
  BY <1>1, AskFits
<1>2. CASE RunTask
  BY <1>2, RunTaskFits
<1>3. CASE Deliver
  BY <1>3, DeliverFits
<1>4. CASE StreamOpens
  BY <1>4, StreamOpensFits
<1>5. CASE StreamFails
  BY <1>5, StreamFailsFits
<1>6. CASE OnlineTimeout
  BY <1>6, OnlineTimeoutFits
<1>7. CASE IdleTimeout
  BY <1>7, IdleTimeoutFits
<1>8. CASE RestartNetwork
  BY <1>8, RestartNetworkFits
<1>9. CASE Restart
  BY <1>9, RestartFits
<1>10. CASE Receive
  BY <1>10, ReceiveFits
<1>11. ASSUME NEW d \in Doc, Change(d) PROVE ListensInv'
  BY <1>11, ChangeFits
<1>12. CASE Answer
  BY <1>12, AnswerFits
<1>13. CASE Push
  BY <1>13, PushFits
<1>14. CASE UNCHANGED vars
  BY <1>14 DEF vars, ListensInv, ServerFits, ClientFits, CallsFit
<1> QED BY <1>1, <1>2, <1>3, <1>4, <1>5, <1>6, <1>7, <1>8, <1>9, <1>10, <1>11, <1>12, <1>13,
           <1>14 DEF Next

\* The inductive invariant: the server serves no target of a stream that is
\* not there, the client awaits the answers that are due, its view is of the
\* keys on disk with its limbo looked up, and events and tasks are of calls
\* that were made.
THEOREM ListensSound == Spec => []ListensInv
<1>1. Init => ListensInv
  BY InitFits
<1>2. ListensInv /\ [Next]_vars => ListensInv'
  BY NextFits
<1> QED BY <1>1, <1>2, PTL DEF Spec

-----------------------------------------------------------------------------
(* What follows                                                            *)

\* The invariant says that the state is well typed.
LEMMA TypesFit == ListensInv => TypeOK
<1> SUFFICES ASSUME ListensInv PROVE TypeOK
  OBVIOUS
<1>1. sync \in SyncRec /\ Lookups(sync) /\ store \in StoreRec /\ view \in ViewRec
  BY DEF ListensInv, ClientFits, Sound, Good, ViewFits
<1>2. /\ sync.stream \in {"off", "starting", "open"}
      /\ sync.online \in {"unknown", "online", "offline"}
      /\ {sync.idle, sync.mismatch, sync.failed, sync.timer, sync.broken} \subseteq BOOLEAN
      /\ sync.states \in Partial(TargetState) /\ sync.listening \in Partial(Listening)
      /\ sync.resolving \in Partial(Lookup) /\ sync.updates \in [Doc -> KnownDoc]
      /\ sync.enqueued \in Seq(Doc) /\ sync.nextId \in Nat
  BY <1>1 DEF SyncRec
<1>3. /\ DOMAIN sync.states \cup DOMAIN sync.listening \cup DOMAIN sync.resolving \subseteq Nat
      /\ Range(sync.states) \subseteq TargetState
      /\ Range(sync.listening) \subseteq Listening
      /\ Range(sync.resolving) \subseteq Lookup
  BY <1>2, PartialFacts DEF Range
<1>4. Cardinality(DOMAIN sync.resolving) <= MaxResolutions
  BY <1>1 DEF Lookups
<1>5. KnownDoc \subseteq Document
  BY DEF KnownDoc
<1>6. sync.updates \in [Doc -> Document] /\ Range(sync.enqueued) \subseteq Doc
  BY <1>2, <1>5, SeqFacts DEF Range
<1>7. store.cache \in [Doc -> Document]
  BY <1>1, <1>5 DEF StoreRec
<1>8. /\ store.keys \subseteq Doc /\ store.last \in Version
      /\ {store.live, store.saved} \subseteq [token : Version, free : Version]
  BY <1>1 DEF StoreRec, Known
<1>9. /\ view.docs \in [Doc -> Version] /\ view.synced \subseteq Doc /\ view.limbo \subseteq Doc
      /\ view.state \in {"none", "local", "synced"}
  BY <1>1 DEF ViewRec
<1>10. /\ listeners \in Seq(Listener) /\ main \in Seq(Handed) /\ shown \in Seq([Doc -> Nat])
       /\ Len(shown) = Len(listeners)
       /\ \A i \in DOMAIN main : main[i].listener \in 1..Len(listeners)
  BY DEF ListensInv, CallsFit, Told, TasksFit
<1>11. Range(listeners) \subseteq Listener /\ DOMAIN listeners = 1..Len(listeners)
  BY <1>10, SeqFacts DEF Range
<1>12. Range(main) \subseteq [listener : DOMAIN listeners, added : SUBSET Doc, error : BOOLEAN]
  <2>1. ASSUME NEW i \in DOMAIN main
        PROVE  main[i] \in [listener : DOMAIN listeners, added : SUBSET Doc, error : BOOLEAN]
    <3>1. main[i] \in Handed
      BY <1>10, SeqFacts
    <3>2. main[i].listener \in DOMAIN listeners
      BY <1>10, <1>11
    <3> QED BY <3>1, <3>2 DEF Handed
  <2> QED BY <2>1 DEF Range
<1>13. shown \in [DOMAIN listeners -> [Doc -> Nat]]
  BY <1>10, <1>11
<1> QED BY <1>2, <1>3, <1>4, <1>6, <1>7, <1>8, <1>9, <1>11, <1>12, <1>13 DEF TypeOK, Lookup

\* The client's state is well typed, no more documents are looked up at a time
\* than may be, and what is listened to and looked up is what the view calls
\* for (SyncEngine's limbo bookkeeping and RemoteStore's listen_targets_).
THEOREM TypesAndLookups == Spec => []LimboSound
<1>1. ListensInv => LimboExact
  BY DEF ListensInv, ClientFits, LimboFits, Backed, Targets, Looked, Whole, LimboExact
<1>2. ListensInv => LimboSound
  BY <1>1, TypesFit DEF LimboSound
<1> QED BY <1>2, ListensSound, PTL

\* Unless a target was refused while another answer was due, each target awaits
\* as many answers as are under way (WatchChangeAggregator's and TargetState's
\* outstanding responses).
THEOREM AnswersAwaited == Spec => []OutstandingExact
<1>1. ListensInv => OutstandingExact
  <2> SUFFICES ASSUME ListensInv, "crossed" \notin tainted, NEW id \in DOMAIN sync.states
               PROVE  sync.states[id].outstanding = Asked(sync.requests, id) + Answered(responses, id)
    BY DEF OutstandingExact, Asked, Answered
  <2>1. Awaited(sync, responses) /\ sync \in SyncRec
    BY DEF ListensInv, ClientFits, Uncrossed, Sound, Good, Exact
  <2>2. id \in Nat
    <3>1. sync.states \in Partial(TargetState)
      BY <2>1 DEF SyncRec
    <3> QED BY <3>1, PartialFacts
  <2> QED BY <2>1, <2>2 DEF Awaited, StateOf
<1> QED BY <1>1, ListensSound, PTL

\* No HARD_ASSERT of the read path that the model keeps ever fails
\* (OnlineStateTracker, RemoteStore, SyncEngine::ApplyRemoteEvent).
THEOREM NoAssertFails == Spec => []AssertsHold
<1>1. ListensInv => AssertsHold
  BY DEF ListensInv, ClientFits, Sound, Good, AssertsHold
<1> QED BY <1>1, ListensSound, PTL

-----------------------------------------------------------------------------
(* What is shown is what is on disk                                        *)

\* A remote event does to the cache what it does to the view.
LEMMA EventCached ==
    ASSUME ShownIsCached, ViewFits(store, view), NEW s, NEW event,
           event.updates \in [Doc -> KnownDoc], ApplyRemoteEvent(s, event)
    PROVE  ShownIsCached'
<1> DEFINE changed == Applied(store, event.updates)
           saved == StoreRemoteEvent(store, event)
           docs == [d \in Doc |-> IF d \notin changed THEN view.docs[d]
                                  ELSE IF event.updates[d].found
                                  THEN event.updates[d].version ELSE 0]
           cache == [d \in Doc |-> CASE d \notin changed -> store.cache[d]
                                     [] event.updates[d] = NoDocument(0) -> Invalid
                                     [] OTHER -> event.updates[d]]
<1>1. store \in StoreRec /\ view \in ViewRec /\ (~view.open => view = NoView)
  BY DEF ViewFits
<1>2. ASSUME view.open PROVE view'.docs = docs
  <2>1. \E synced, current : view' = ApplyChanges(view, docs, synced, current)
    BY <1>2 DEF ApplyRemoteEvent
  <2> HIDE DEF docs
  <2> QED BY <2>1 DEF ApplyChanges
<1>3. ASSUME ~view.open PROVE \A d \in Doc : view'.docs[d] = 0
  <2>1. view' = NoView
    BY <1>1, <1>3 DEF ApplyRemoteEvent
  <2> QED BY <2>1 DEF NoView, NoDocs
<1>4. store'.cache = cache
  <2>1. \E read, keys, live, known, last :
           saved = [store EXCEPT !.cache = cache, !.read = read, !.keys = keys, !.live = live,
                                 !.saved = known, !.last = last]
    BY Zenon DEF StoreRemoteEvent
  <2>2. \/ store' = saved
        \/ store' = [saved EXCEPT !.live.free = saved.live.token]
    BY DEF ApplyRemoteEvent
  <2> HIDE DEF cache, saved
  <2>3. saved.cache = cache /\ "cache" \in DOMAIN saved
    BY <1>1, <2>1 DEF StoreRec
  <2> QED BY <2>2, <2>3
<1>5. ASSUME NEW d \in Doc, view'.docs[d] # 0 PROVE store'.cache[d] = Found(view'.docs[d])
  <2>1. view'.docs[d] = docs[d]
    BY <1>2, <1>3, <1>5
  <2>2. CASE d \notin changed
    <3>1. docs[d] = view.docs[d]
      BY <2>2
    <3>2. event.updates[d] # NoDocument(0)
      BY <2>2 DEF Applied, Invalid, NoDocument
    <3>3. cache[d] = store.cache[d]
      <4> HIDE DEF changed
      <4> QED BY <2>2, <3>2
    <3> HIDE DEF docs, cache
    <3> QED BY <1>4, <1>5, <2>1, <3>1, <3>3 DEF ShownIsCached
  <2>3. CASE d \in changed
    <3> HIDE DEF changed
    <3>1. event.updates[d].found /\ docs[d] = event.updates[d].version
      BY <1>5, <2>1, <2>3
    <3>2. event.updates[d] # NoDocument(0)
      BY <3>1 DEF NoDocument
    <3>3. cache[d] = event.updates[d]
      BY <2>3, <3>2
    <3>4. event.updates[d] = Found(docs[d])
      BY <3>1 DEF KnownDoc, Document, Found
    <3> QED BY <1>4, <2>1, <3>3, <3>4
  <2> QED BY <2>2, <2>3
<1> QED BY <1>5 DEF ShownIsCached

\* A closed view shows nothing.
LEMMA NothingShown == view'.docs = NoDocs => ShownIsCached'
BY DEF ShownIsCached, NoDocs

\* A snapshot's event is of documents that were sent, or do not exist.
LEMMA SnapshotCached ==
    ASSUME ShownIsCached, ViewFits(store, view), NEW s \in SyncRec, NEW version \in Version,
           GlobalSnapshot(s, version)
    PROVE  ShownIsCached'
<1> DEFINE active == {id \in DOMAIN s.states : IsActive(s, id)}
           told == [s EXCEPT !.states = [id \in DOMAIN @ |->
                       IF id \in active THEN UpdateResumeToken(@[id], version) ELSE @[id]]]
           event == RemoteEvent(told, version)
<1>1. \/ UNCHANGED <<store, view>>
      \/ \E u : ApplyRemoteEvent(u, event)
  BY DEF GlobalSnapshot, RaiseWatchSnapshot
<1>2. told.updates = s.updates /\ s.updates \in [Doc -> KnownDoc]
  BY DEF SyncRec
<1>3. event.updates \in [Doc -> KnownDoc]
  <2>1. NoDocument(version) \in KnownDoc
    BY DEF NoDocument, KnownDoc, Document
  <2> HIDE DEF told
  <2> QED BY <1>2, <2>1 DEF RemoteEvent
<1> HIDE DEF event
<1>4. CASE UNCHANGED <<store, view>>
  BY <1>4 DEF ShownIsCached
<1>5. CASE \E u : ApplyRemoteEvent(u, event)
  BY <1>3, <1>5, EventCached
<1> QED BY <1>1, <1>4, <1>5

\* A response keeps what is shown on disk.
LEMMA ReceiveCached ==
    ASSUME ListensInv, ShownIsCached, Receive
    PROVE  ShownIsCached'
<1> DEFINE m == responses[1]
           s == UpdateState(sync, "online")
<1>1. responses # << >> /\ responses \in Seq(Response) /\ m = Head(responses) /\ m \in Response
  <2>1. responses # << >> /\ responses \in Seq(Response)
    BY DEF Receive, ListensInv, ClientFits, AnswersFit
  <2> QED BY <2>1, TailFacts
<1>2. /\ m.kind \in {"added", "removed", "current", "change", "filter"} =>
            UNCHANGED <<store, view>>
      /\ m.kind = "refused" => TargetRefused(s, m.id)
      /\ m.kind = "snapshot" => GlobalSnapshot(s, m.version)
  BY <1>1 DEF Receive, Collect
<1>3. m.kind \in {"added", "removed", "refused", "current", "change", "filter", "snapshot"}
      /\ (m.kind = "snapshot" => m.version \in Version)
      /\ (IsAnswer(m) => m.id \in Nat)
  BY <1>1, ResponseKinds
<1>4. ViewFits(store, view) /\ s \in SyncRec
  <2>1. Sound(s, store.keys, responses, Uncrossed(tainted))
    BY <1>1, ReceiveIs
  <2> QED BY <2>1, SoundType DEF ListensInv, ClientFits
<1> HIDE DEF m, s
<1>5. CASE UNCHANGED <<store, view>>
  BY <1>5 DEF ShownIsCached
<1>6. CASE m.kind = "refused"
  <2> DEFINE id == m.id
             key == s.resolving[id].key
             gone == [NoUpdates EXCEPT ![key] = NoDocument(0)]
  <2>1. \/ UNCHANGED <<store, view>>
        \/ \E left, ls : CloseView(left, ls)
        \/ \E t : ApplyRemoteEvent(t, [version |-> 0, changes |-> << >>, updates |-> gone])
    <3>1. \/ id \notin DOMAIN s.listening
          \/ id \in DOMAIN s.listening /\ id = Query
          \/ id \in DOMAIN s.listening /\ id # Query
      OBVIOUS
    <3> HIDE DEF id
    <3> QED BY <1>2, <1>6, <3>1 DEF TargetRefused, id
  <2>2. gone \in [Doc -> KnownDoc]
    <3>1. NoDocument(0) \in KnownDoc /\ Invalid \in KnownDoc
      BY BoundsAssumption DEF Invalid, NoDocument, KnownDoc, Document, Version
    <3>2. NoUpdates \in [Doc -> KnownDoc]
      BY <3>1 DEF NoUpdates
    <3> HIDE DEF key
    <3> QED BY <3>1, <3>2
  <2> HIDE DEF gone
  <2>3. CASE \E left, ls : CloseView(left, ls)
    BY <2>3, NothingShown DEF CloseView, NoView
  <2>4. ASSUME NEW t, ApplyRemoteEvent(t, [version |-> 0, changes |-> << >>, updates |-> gone])
        PROVE  ShownIsCached'
    <3> DEFINE event == [version |-> 0, changes |-> << >>, updates |-> gone]
    <3>1. event.updates = gone /\ ApplyRemoteEvent(t, event)
      BY <2>4
    <3> HIDE DEF event
    <3> QED BY <1>4, <2>2, <3>1, EventCached
  <2> QED BY <1>5, <2>1, <2>3, <2>4
<1>7. CASE m.kind = "snapshot"
  BY <1>2, <1>3, <1>4, <1>7, SnapshotCached
<1> QED BY <1>2, <1>3, <1>5, <1>6, <1>7

\* So does a task: a view that opens is of what is on disk.
LEMMA RunTaskCached ==
    ASSUME ListensInv, ShownIsCached, RunTask
    PROVE  ShownIsCached'
<1>1. \/ \E l : AddQueryListener(l)
      \/ \E l : RemoveQueryListener(l)
  <2>1. Head(tasks) \in Task
    <3>1. tasks # << >> /\ tasks \in Seq(Task)
      BY DEF RunTask, ListensInv, CallsFit, TasksFit
    <3> QED BY <3>1, TailFacts
  <2>2. Head(tasks).op = "add" \/ Head(tasks).op = "remove"
    BY <2>1 DEF Task
  <2> QED BY <2>2 DEF RunTask
<1>2. \/ UNCHANGED <<store, view>>
      \/ \E ls : FirstListen(ls)
      \/ \E s, ls : CloseView(s, ls)
  BY <1>1 DEF AddQueryListener, RemoveQueryListener
<1>3. CASE UNCHANGED <<store, view>>
  BY <1>3 DEF ShownIsCached
<1>4. CASE \E ls : FirstListen(ls)
  <2> DEFINE resumed == [store EXCEPT !.active = TRUE, !.live = store.saved]
             docs == ExecuteQuery(resumed, resumed.live.free)
  <2>1. store' = resumed /\ view' = ApplyChanges(NoView, docs, resumed.keys, FALSE)
    BY <1>4 DEF FirstListen
  <2>2. store \in StoreRec
    BY DEF ListensInv, ClientFits, ViewFits
  <2>3. resumed.cache = store.cache /\ store.cache \in [Doc -> KnownDoc]
    BY <2>2 DEF StoreRec
  <2> HIDE DEF resumed
  <2>4. \A d \in Doc : docs[d] # 0 => resumed.cache[d].found /\ docs[d] = resumed.cache[d].version
    BY DEF ExecuteQuery
  <2> HIDE DEF docs
  <2>5. view'.docs = docs
    BY <2>1 DEF ApplyChanges
  <2>6. ASSUME NEW d \in Doc, docs[d] # 0 PROVE store'.cache[d] = Found(docs[d])
    <3>1. store.cache[d] \in KnownDoc /\ store.cache[d].found /\ docs[d] = store.cache[d].version
      BY <2>3, <2>4, <2>6
    <3>2. store.cache[d] = Found(docs[d])
      BY <3>1 DEF KnownDoc, Document, Found
    <3> QED BY <2>1, <2>3, <3>2
  <2> QED BY <2>5, <2>6 DEF ShownIsCached
<1>5. CASE \E s, ls : CloseView(s, ls)
  BY <1>5, NothingShown DEF CloseView, NoView
<1> QED BY <1>2, <1>3, <1>4, <1>5

\* Who goes offline keeps what is shown.
LEMMA OfflineCached ==
    ASSUME ShownIsCached, NEW online, GoOffline(online), store' = store
    PROVE  ShownIsCached'
<1>1. view' = view \/ view' = ApplyChanges(view, view.docs, view.synced, FALSE)
  BY DEF GoOffline
<1>2. view'.docs = view.docs
  BY <1>1 DEF ApplyChanges
<1> QED BY <1>2 DEF ShownIsCached

\* And so does every step.
LEMMA NextCached ==
    ASSUME ListensInv, ShownIsCached, [Next]_vars
    PROVE  ShownIsCached'
<1>1. CASE RunTask
  BY <1>1, RunTaskCached
<1>2. CASE Receive
  BY <1>2, ReceiveCached
<1>3. CASE StreamFails
  <2>1. UNCHANGED <<store, view>> \/ (GoOffline(sync.online) /\ store' = store)
    BY <1>3 DEF StreamFails
  <2> QED BY <2>1, OfflineCached DEF ShownIsCached
<1>4. CASE OnlineTimeout
  BY <1>4, OfflineCached DEF OnlineTimeout
<1>5. CASE Restart
  BY <1>5, NothingShown DEF Restart, NoView
<1>6. CASE UNCHANGED <<store, view>>
  BY <1>6 DEF ShownIsCached
<1>7. CASE (\E kind \in {"get", "listen"} : Ask(kind)) \/ Deliver \/ StreamOpens \/ IdleTimeout
           \/ RestartNetwork \/ (\E d \in Doc : Change(d)) \/ Answer \/ Push \/ UNCHANGED vars
  <2>1. UNCHANGED <<store, view>>
    BY <1>7 DEF Ask, Deliver, StreamOpens, IdleTimeout, RestartNetwork, Change, Answer, Push, vars
  <2> QED BY <1>6, <2>1
<1> QED BY <1>1, <1>2, <1>3, <1>4, <1>5, <1>7 DEF Next

\* What a view shows is what the cache holds, whatever was received, refused,
\* looked up or restarted (LocalStore::ApplyRemoteEvent, View::ApplyChanges).
THEOREM ViewIsOnDisk == Spec => []ShownIsCached
<1>1. Init => ListensInv /\ ShownIsCached
  BY InitFits DEF Init, ShownIsCached, NoView, NoDocs
<1>2. ListensInv /\ ShownIsCached /\ [Next]_vars => ListensInv' /\ ShownIsCached'
  BY NextFits, NextCached
<1> QED BY <1>1, <1>2, PTL DEF Spec

-----------------------------------------------------------------------------
(* What a call is handed                                                   *)

\* A call is added by one task, and none of its events is before it.
TasksOnce(ls, calls) ==
    \A i \in DOMAIN calls :
        /\ calls[i].op = "add" => ls[calls[i].listener].phase = "asked"
        /\ calls[i].op = "remove" => ls[calls[i].listener].phase # "asked"
        /\ \A j \in DOMAIN calls :
              calls[i].op = "add" /\ calls[j].op = "add"
              /\ calls[i].listener = calls[j].listener => i = j

\* An error is the last that a call hears.
EventsInOrder(ls, events) ==
    \A i \in DOMAIN events :
        /\ ls[events[i].listener].phase # "asked"
        /\ events[i].error =>
              /\ ls[events[i].listener].phase = "off"
              /\ \A j \in DOMAIN events : events[j].listener = events[i].listener => j <= i

\* A get that was handed something is deaf, or nothing comes any more.
HandedFits(ls, events) ==
    \A l \in 1..Len(ls) :
        /\ ls[l].phase = "asked" => ~ls[l].raised
        /\ ls[l].kind = "listen" => ls[l].handed = 0
        /\ ls[l].handed # 0 =>
              /\ ls[l].handed = 1
              /\ \/ ls[l].muted
                 \/ ls[l].phase = "off" /\ \A i \in DOMAIN events : events[i].listener # l

Covered(lists, events, l, d) ==
    lists[l][d] > 0 \/ \E i \in DOMAIN events : events[i].listener = l /\ d \in events[i].added

Following(ls, l) ==
    ls[l].kind = "listen" /\ ls[l].raised /\ ~ls[l].muted /\ ls[l].phase = "on"

AllCovered(ls, events, lists, v) ==
    \A l \in 1..Len(ls), d \in Doc :
        Following(ls, l) /\ v.docs[d] # 0 => Covered(lists, events, l, d)

Handing(ls, calls, events, lists, v) ==
    /\ TasksOnce(ls, calls) /\ EventsInOrder(ls, events)
    /\ HandedFits(ls, events) /\ AllCovered(ls, events, lists, v)

HandingInv == Handing(listeners, tasks, main, shown, view)

\* Nothing but who was handed an event changes.
SameCalls(ls, now) ==
    /\ now \in Seq(Listener) /\ Len(now) = Len(ls)
    /\ \A l \in 1..Len(ls) :
          /\ now[l].kind = ls[l].kind /\ now[l].phase = ls[l].phase
          /\ now[l].muted = ls[l].muted /\ now[l].handed = ls[l].handed

\* The events more tell the calls ls, which are now after it, of a change of
\* the view.
Said(ls, now, more, old, new) ==
    /\ SameCalls(ls, now) /\ more \in Seq(Handed)
    /\ \A i \in DOMAIN more : more[i].listener \in 1..Len(ls)
          /\ ls[more[i].listener].phase = "on" /\ ~more[i].error
    /\ \A l \in 1..Len(ls) : ls[l].phase = "asked" => now[l].raised = ls[l].raised
    /\ \A l \in 1..Len(ls), d \in Doc :
          ls[l].kind = "listen" /\ ls[l].phase = "on" /\ now[l].raised /\ new.docs[d] # 0 =>
             \/ ls[l].raised /\ old.docs[d] # 0
             \/ \E i \in DOMAIN more : more[i].listener = l /\ d \in more[i].added

\* Raised marks who was handed an event and changes nothing else.
LEMMA RaisedCalls ==
    ASSUME NEW ls \in Seq(Listener), NEW heard
    PROVE  /\ SameCalls(ls, Raised(ls, heard))
           /\ \A l \in 1..Len(ls) : Raised(ls, heard)[l].raised = (ls[l].raised \/ l \in heard)
<1> DEFINE now == Raised(ls, heard)
<1>1. Len(ls) \in Nat /\ DOMAIN ls = 1..Len(ls) /\ \A l \in 1..Len(ls) : ls[l] \in Listener
  BY SeqFacts
<1>2. now = [l \in 1..Len(ls) |-> [ls[l] EXCEPT !.raised = @ \/ l \in heard]]
  BY <1>1 DEF Raised
<1>3. now \in Seq(Listener) /\ Len(now) = Len(ls)
  BY RaisedIs DEF SamePhases
<1>4. ASSUME NEW l \in 1..Len(ls)
      PROVE  /\ now[l].kind = ls[l].kind /\ now[l].phase = ls[l].phase
             /\ now[l].muted = ls[l].muted /\ now[l].handed = ls[l].handed
             /\ now[l].raised = (ls[l].raised \/ l \in heard)
  <2>1. ls[l] \in Listener
    BY <1>1
  <2>2. now[l] = [ls[l] EXCEPT !.raised = ls[l].raised \/ l \in heard]
    BY <1>2
  <2> HIDE DEF now
  <2> QED BY <2>1, <2>2 DEF Listener
<1> QED BY <1>3, <1>4 DEF SameCalls

\* There is one event for each that hears.
LEMMA EventsForSays ==
    ASSUME NEW ls \in Seq(Listener), NEW heard \in SUBSET DOMAIN ls, NEW old, NEW new
    PROVE  /\ EventsFor(ls, heard, old, new) \in Seq(Handed)
           /\ \A i \in DOMAIN EventsFor(ls, heard, old, new) :
                 /\ EventsFor(ls, heard, old, new)[i].listener \in heard
                 /\ EventsFor(ls, heard, old, new)[i].error = FALSE
           /\ \A l \in heard : \E i \in DOMAIN EventsFor(ls, heard, old, new) :
                 /\ EventsFor(ls, heard, old, new)[i].listener = l
                 /\ \A d \in Doc : new.docs[d] # 0 /\ (ls[l].raised => old.docs[d] = 0) =>
                       d \in EventsFor(ls, heard, old, new)[i].added
<1> DEFINE order == Sorted(heard)
           q == EventsFor(ls, heard, old, new)
           n == Cardinality(heard)
<1>1. q \in Seq(Handed)
  BY EventsForIs DEF Told
<1>2. heard \in SUBSET Nat /\ IsFiniteSet(heard)
  <2>1. Len(ls) \in Nat /\ DOMAIN ls = 1..Len(ls)
    BY SeqFacts
  <2>2. heard \in SUBSET (1..Len(ls)) /\ IsFiniteSet(1..Len(ls))
    BY <2>1, FS_Interval
  <2> QED BY <2>1, <2>2, FS_Subset
<1>3. /\ DOMAIN order = 1..n /\ n \in Nat /\ order \in Seq(heard)
      /\ \A x \in heard : \E i \in 1..n : order[i] = x
  BY <1>2, SortedFacts
<1>4. \A i \in 1..n : order[i] \in heard
  BY <1>3
<1>5. q = [i \in 1..n |-> Event(order[i], IF ls[order[i]].raised THEN old ELSE NoView, new)]
  BY <1>3 DEF EventsFor
<1> HIDE DEF order, n
<1>6. ASSUME NEW i \in 1..n
      PROVE  /\ q[i].listener = order[i] /\ q[i].error = FALSE
             /\ \A d \in Doc : new.docs[d] # 0 /\ (ls[order[i]].raised => old.docs[d] = 0) =>
                   d \in q[i].added
  <2> DEFINE from == IF ls[order[i]].raised THEN old ELSE NoView
             got == In(new.docs) \ In(from.docs)
  <2>1. q[i] = [listener |-> order[i], error |-> FALSE, added |-> got]
    BY <1>5 DEF Event
  <2>2. \A d \in Doc : new.docs[d] # 0 /\ (ls[order[i]].raised => old.docs[d] = 0) => d \in got
    <3>1. \A d \in Doc : NoView.docs[d] = 0
      BY DEF NoView, NoDocs
    <3> QED BY <3>1 DEF In
  <2> HIDE DEF got, q
  <2> QED BY <2>1, <2>2
<1>7. DOMAIN q = 1..n
  BY <1>5
<1> HIDE DEF q
<1>8. \A i \in DOMAIN q : q[i].listener \in heard /\ q[i].error = FALSE
  BY <1>4, <1>6, <1>7
<1>9. ASSUME NEW l \in heard
      PROVE  \E i \in DOMAIN q : q[i].listener = l /\ \A d \in Doc :
                new.docs[d] # 0 /\ (ls[l].raised => old.docs[d] = 0) => d \in q[i].added
  <2>1. PICK i \in 1..n : order[i] = l
    BY <1>3
  <2> QED BY <1>6, <1>7, <2>1
<1> QED BY <1>1, <1>8, <1>9 DEF q

\* What is queued behind the events under way.
LEMMA QueuedFacts ==
    ASSUME NEW p \in Seq(Handed), NEW q \in Seq(Handed)
    PROVE  /\ DOMAIN (p \o q) = 1..Len(p) + Len(q) /\ Len(p) \in Nat /\ Len(q) \in Nat
           /\ DOMAIN p = 1..Len(p) /\ DOMAIN q = 1..Len(q)
           /\ \A i \in DOMAIN p : i \in DOMAIN (p \o q) /\ (p \o q)[i] = p[i]
           /\ \A i \in DOMAIN q : Len(p) + i \in DOMAIN (p \o q) /\ (p \o q)[Len(p) + i] = q[i]
           /\ \A i \in DOMAIN (p \o q) :
                 \/ i \in DOMAIN p
                 \/ i > Len(p) /\ i - Len(p) \in DOMAIN q /\ i = Len(p) + (i - Len(p))
                    /\ (p \o q)[i] = q[i - Len(p)]
<1>1. /\ Len(p) \in Nat /\ Len(q) \in Nat /\ DOMAIN p = 1..Len(p) /\ DOMAIN q = 1..Len(q)
  BY SeqFacts
<1>2. /\ DOMAIN (p \o q) = 1..Len(p) + Len(q)
      /\ (\A i \in 1..Len(p) : (p \o q)[i] = p[i])
      /\ (\A i \in 1..Len(q) : (p \o q)[Len(p) + i] = q[i])
  BY ConcatFacts
<1>3. ASSUME NEW i \in 1..Len(p) + Len(q), i \notin 1..Len(p)
      PROVE  i > Len(p) /\ i - Len(p) \in 1..Len(q) /\ i = Len(p) + (i - Len(p))
  BY <1>1, <1>3
<1>4. /\ \A i \in 1..Len(p) : i \in 1..Len(p) + Len(q)
      /\ \A i \in 1..Len(q) : Len(p) + i \in 1..Len(p) + Len(q)
  BY <1>1
<1>5. ASSUME NEW i \in DOMAIN (p \o q), i \notin DOMAIN p
      PROVE  i > Len(p) /\ i - Len(p) \in DOMAIN q /\ i = Len(p) + (i - Len(p))
             /\ (p \o q)[i] = q[i - Len(p)]
  <2>1. i > Len(p) /\ i - Len(p) \in 1..Len(q) /\ i = Len(p) + (i - Len(p))
    BY <1>1, <1>2, <1>3, <1>5
  <2>2. (p \o q)[Len(p) + (i - Len(p))] = q[i - Len(p)]
    BY <1>2, <2>1
  <2> QED BY <1>1, <2>1, <2>2
<1> QED BY <1>1, <1>2, <1>4, <1>5

\* What was right of the calls is right once they are told.
LEMMA SaidFits ==
    ASSUME NEW ls, NEW events, Told(ls, events), NEW calls, NEW lists, NEW old, NEW new,
           Handing(ls, calls, events, lists, old), TasksFit(ls, calls, lists),
           NEW now, NEW more, Said(ls, now, more, old, new)
    PROVE  Handing(now, calls, events \o more, lists, new)
<1> DEFINE all == events \o more
<1>1. /\ now \in Seq(Listener) /\ Len(now) = Len(ls)
      /\ \A l \in 1..Len(ls) :
            /\ now[l].kind = ls[l].kind /\ now[l].phase = ls[l].phase
            /\ now[l].muted = ls[l].muted /\ now[l].handed = ls[l].handed
  BY DEF Said, SameCalls
<1>2. events \in Seq(Handed) /\ \A i \in DOMAIN events : events[i].listener \in 1..Len(ls)
  BY DEF Told
<1>3. /\ more \in Seq(Handed)
      /\ \A i \in DOMAIN more : more[i].listener \in 1..Len(ls)
            /\ ls[more[i].listener].phase = "on" /\ ~more[i].error
  BY DEF Said
<1>4. /\ Len(events) \in Nat /\ DOMAIN events = 1..Len(events)
      /\ \A i \in DOMAIN events : i \in DOMAIN all /\ all[i] = events[i]
      /\ \A i \in DOMAIN more : Len(events) + i \in DOMAIN all /\ all[Len(events) + i] = more[i]
      /\ \A i \in DOMAIN all :
            \/ i \in DOMAIN events
            \/ i > Len(events) /\ i - Len(events) \in DOMAIN more
               /\ all[i] = more[i - Len(events)]
  BY <1>2, <1>3, QueuedFacts
<1> HIDE DEF all
<1>5. TasksOnce(now, calls)
  <2>1. \A i \in DOMAIN calls : calls[i].listener \in 1..Len(ls)
    BY DEF TasksFit
  <2>2. TasksOnce(ls, calls)
    BY DEF Handing
  <2> QED BY <1>1, <2>1, <2>2 DEF TasksOnce
<1>6. EventsInOrder(now, all)
  <2> SUFFICES ASSUME NEW i \in DOMAIN all
               PROVE  /\ now[all[i].listener].phase # "asked"
                      /\ all[i].error =>
                            /\ now[all[i].listener].phase = "off"
                            /\ \A j \in DOMAIN all : all[j].listener = all[i].listener => j <= i
    BY DEF EventsInOrder
  <2>1. CASE i \in DOMAIN events
    <3>1. /\ ls[events[i].listener].phase # "asked"
          /\ events[i].error =>
                /\ ls[events[i].listener].phase = "off"
                /\ \A j \in DOMAIN events : events[j].listener = events[i].listener => j <= i
      BY <2>1 DEF Handing, EventsInOrder
    <3>2. now[events[i].listener].phase = ls[events[i].listener].phase
      BY <1>1, <1>2, <2>1
    <3>3. ASSUME events[i].error, NEW j \in DOMAIN all, all[j].listener = events[i].listener
          PROVE  j <= i
      <4>1. CASE j \in DOMAIN events
        BY <1>4, <3>1, <3>3, <4>1
      <4>2. CASE j \notin DOMAIN events
        <5>1. j - Len(events) \in DOMAIN more /\ all[j] = more[j - Len(events)]
          BY <1>4, <4>2
        <5>2. ls[all[j].listener].phase = "on"
          BY <1>3, <5>1
        <5> QED BY <3>1, <3>3, <5>2
      <4> QED BY <4>1, <4>2
    <3> QED BY <1>4, <2>1, <3>1, <3>2, <3>3
  <2>2. CASE i \notin DOMAIN events
    <3>1. i - Len(events) \in DOMAIN more /\ all[i] = more[i - Len(events)]
      BY <1>4, <2>2
    <3>2. all[i].listener \in 1..Len(ls) /\ ls[all[i].listener].phase = "on" /\ ~all[i].error
      BY <1>3, <3>1
    <3>3. now[all[i].listener].phase = "on"
      BY <1>1, <3>2
    <3> QED BY <3>2, <3>3
  <2> QED BY <2>1, <2>2
<1>7. HandedFits(now, all)
  <2> SUFFICES ASSUME NEW l \in 1..Len(ls)
               PROVE  /\ now[l].phase = "asked" => ~now[l].raised
                      /\ now[l].kind = "listen" => now[l].handed = 0
                      /\ now[l].handed # 0 =>
                            /\ now[l].handed = 1
                            /\ \/ now[l].muted
                               \/ now[l].phase = "off" /\ \A i \in DOMAIN all : all[i].listener # l
    BY <1>1 DEF HandedFits
  <2>1. /\ ls[l].phase = "asked" => ~ls[l].raised
        /\ ls[l].kind = "listen" => ls[l].handed = 0
        /\ ls[l].handed # 0 =>
              /\ ls[l].handed = 1
              /\ \/ ls[l].muted
                 \/ ls[l].phase = "off" /\ \A i \in DOMAIN events : events[i].listener # l
    BY DEF Handing, HandedFits
  <2>2. ls[l].phase = "asked" => now[l].raised = ls[l].raised
    BY DEF Said
  <2>3. ASSUME ls[l].phase = "off", \A i \in DOMAIN events : events[i].listener # l,
               NEW i \in DOMAIN all
        PROVE  all[i].listener # l
    <3>1. CASE i \in DOMAIN events
      BY <1>4, <2>3, <3>1
    <3>2. CASE i \notin DOMAIN events
      <4>1. i - Len(events) \in DOMAIN more /\ all[i] = more[i - Len(events)]
        BY <1>4, <3>2
      <4>2. ls[all[i].listener].phase = "on"
        BY <1>3, <4>1
      <4> QED BY <2>3, <4>2
    <3> QED BY <3>1, <3>2
  <2> QED BY <1>1, <2>1, <2>2, <2>3
<1>8. AllCovered(now, all, lists, new)
  <2> SUFFICES ASSUME NEW l \in 1..Len(ls), NEW d \in Doc, Following(now, l), new.docs[d] # 0
               PROVE  Covered(lists, all, l, d)
    BY <1>1 DEF AllCovered
  <2>1. ls[l].kind = "listen" /\ ls[l].phase = "on" /\ ~ls[l].muted /\ now[l].raised
    BY <1>1 DEF Following
  <2>2. \/ ls[l].raised /\ old.docs[d] # 0
        \/ \E i \in DOMAIN more : more[i].listener = l /\ d \in more[i].added
    BY <2>1 DEF Said
  <2>3. CASE ls[l].raised /\ old.docs[d] # 0
    <3>1. Covered(lists, events, l, d)
      BY <2>1, <2>3 DEF Handing, AllCovered, Following
    <3> QED BY <1>4, <3>1 DEF Covered
  <2>4. CASE \E i \in DOMAIN more : more[i].listener = l /\ d \in more[i].added
    <3>1. PICK i \in DOMAIN more : more[i].listener = l /\ d \in more[i].added
      BY <2>4
    <3>2. Len(events) + i \in DOMAIN all /\ all[Len(events) + i] = more[i]
      BY <1>4
    <3> QED BY <3>1, <3>2 DEF Covered
  <2> QED BY <2>2, <2>3, <2>4
<1> QED BY <1>5, <1>6, <1>7, <1>8 DEF Handing, all

\* The listeners that hear of a change of the view are told of it.
LEMMA SnapshotsSaid ==
    ASSUME NEW ls \in Seq(Listener), NEW old, NEW new, NEW online,
           OnViewSnapshots(ls, old, new, online)
    PROVE  \E more : main' = main \o more /\ Said(ls, listeners', more, old, new)
<1> DEFINE heard == IF HasSnapshot(old, new) THEN Notified(ls, old, new, online) ELSE {}
           more == EventsFor(ls, heard, old, new)
<1>1. main' = main \o more /\ listeners' = Raised(ls, heard)
  BY DEF OnViewSnapshots
<1>2. heard \in SUBSET DOMAIN ls /\ \A l \in heard : ls[l].phase = "on"
  BY DEF Notified
<1>3. ASSUME NEW l \in DOMAIN ls, l \notin heard, ls[l].phase = "on", ls[l].raised
      PROVE  old.docs = new.docs
  BY <1>3 DEF Notified, ShouldRaiseEvent, HasSnapshot
<1> HIDE DEF heard
<1>4. /\ more \in Seq(Handed)
      /\ \A i \in DOMAIN more : more[i].listener \in heard /\ more[i].error = FALSE
      /\ \A l \in heard : \E i \in DOMAIN more : more[i].listener = l /\ \A d \in Doc :
            new.docs[d] # 0 /\ (ls[l].raised => old.docs[d] = 0) => d \in more[i].added
  BY <1>2, EventsForSays
<1> HIDE DEF more
<1>5. /\ SameCalls(ls, listeners') /\ DOMAIN ls = 1..Len(ls)
      /\ \A l \in 1..Len(ls) : listeners'[l].raised = (ls[l].raised \/ l \in heard)
  BY <1>1, RaisedCalls, SeqFacts
<1>6. ASSUME NEW l \in 1..Len(ls), NEW d \in Doc, ls[l].phase = "on", listeners'[l].raised,
             new.docs[d] # 0
      PROVE  \/ ls[l].raised /\ old.docs[d] # 0
             \/ \E i \in DOMAIN more : more[i].listener = l /\ d \in more[i].added
  <2>1. CASE l \in heard
    BY <1>4, <1>6, <2>1
  <2>2. CASE l \notin heard
    <3>1. ls[l].raised
      BY <1>5, <1>6, <2>2
    <3>2. old.docs = new.docs
      BY <1>3, <1>5, <1>6, <2>2, <3>1
    <3> QED BY <1>6, <3>1, <3>2
  <2> QED BY <2>1, <2>2
<1>7. \A l \in 1..Len(ls) : ls[l].phase = "asked" => listeners'[l].raised = ls[l].raised
  <2>1. ASSUME NEW l \in 1..Len(ls), ls[l].phase = "asked" PROVE l \notin heard
    BY <1>2, <2>1
  <2>2. \A l \in 1..Len(ls) : ls[l].raised \in BOOLEAN
    <3>1. \A l \in 1..Len(ls) : ls[l] \in Listener
      BY SeqFacts
    <3> QED BY <3>1 DEF Listener
  <2> QED BY <1>5, <2>1, <2>2
<1>8. Said(ls, listeners', more, old, new)
  BY <1>2, <1>4, <1>5, <1>6, <1>7 DEF Said
<1> QED BY <1>1, <1>8

-----------------------------------------------------------------------------
(* The calls that are made, and those that are handed something            *)

\* What the invariants say of the calls.
LEMMA CallsAre ==
    ASSUME ListensInv
    PROVE  /\ listeners \in Seq(Listener) /\ Len(listeners) \in Nat
           /\ DOMAIN listeners = 1..Len(listeners)
           /\ \A l \in 1..Len(listeners) : listeners[l] \in Listener
           /\ main \in Seq(Handed) /\ Len(main) \in Nat /\ DOMAIN main = 1..Len(main)
           /\ \A i \in 1..Len(main) : main[i].listener \in 1..Len(listeners)
           /\ tasks \in Seq(Task) /\ Len(tasks) \in Nat /\ DOMAIN tasks = 1..Len(tasks)
           /\ \A i \in 1..Len(tasks) : tasks[i].listener \in 1..Len(listeners)
           /\ shown \in Seq([Doc -> Nat]) /\ DOMAIN shown = 1..Len(listeners)
           /\ \A l \in 1..Len(listeners) : shown[l] \in [Doc -> Nat]
<1>1. /\ listeners \in Seq(Listener) /\ main \in Seq(Handed) /\ tasks \in Seq(Task)
      /\ shown \in Seq([Doc -> Nat]) /\ Len(shown) = Len(listeners)
      /\ \A i \in DOMAIN main : main[i].listener \in 1..Len(listeners)
      /\ \A i \in DOMAIN tasks : tasks[i].listener \in 1..Len(listeners)
  BY DEF ListensInv, CallsFit, Told, TasksFit
<1>2. Len(listeners) \in Nat /\ DOMAIN listeners = 1..Len(listeners)
      /\ \A l \in 1..Len(listeners) : listeners[l] \in Listener
  BY <1>1, SeqFacts
<1>3. Len(main) \in Nat /\ DOMAIN main = 1..Len(main)
  BY <1>1, SeqFacts
<1>4. Len(tasks) \in Nat /\ DOMAIN tasks = 1..Len(tasks)
  BY <1>1, SeqFacts
<1>5. DOMAIN shown = 1..Len(shown) /\ \A l \in 1..Len(shown) : shown[l] \in [Doc -> Nat]
  BY <1>1, SeqFacts
<1> QED BY <1>1, <1>2, <1>3, <1>4, <1>5

\* A call that is made has one task and no events.
LEMMA AskHanding ==
    ASSUME ListensInv, HandingInv, NEW kind \in {"get", "listen"}, Ask(kind)
    PROVE  HandingInv'
<1> DEFINE n == Len(listeners)
           l == n + 1
           call == [kind |-> kind, phase |-> "asked", raised |-> FALSE,
                    muted |-> FALSE, handed |-> 0]
           task == [op |-> "add", listener |-> l]
<1>1. /\ listeners' = Append(listeners, call) /\ tasks' = Append(tasks, task)
      /\ shown' = Append(shown, NoDocs) /\ main' = main /\ view' = view
  BY DEF Ask
<1>2. /\ listeners \in Seq(Listener) /\ n \in Nat
      /\ main \in Seq(Handed) /\ DOMAIN main = 1..Len(main)
      /\ \A i \in 1..Len(main) : main[i].listener \in 1..n
      /\ tasks \in Seq(Task) /\ Len(tasks) \in Nat /\ DOMAIN tasks = 1..Len(tasks)
      /\ \A i \in 1..Len(tasks) : tasks[i].listener \in 1..n
      /\ shown \in Seq([Doc -> Nat]) /\ DOMAIN shown = 1..n
  BY CallsAre
<1>3. /\ TasksOnce(listeners, tasks) /\ EventsInOrder(listeners, main)
      /\ HandedFits(listeners, main) /\ AllCovered(listeners, main, shown, view)
  BY DEF HandingInv, Handing
<1>4. call \in Listener /\ call.phase = "asked" /\ ~call.raised /\ call.handed = 0
  BY DEF Listener
<1>5. task \in Task /\ task.op = "add" /\ task.listener = l
  BY <1>2 DEF Task
<1>6. NoDocs \in [Doc -> Nat]
  BY DEF NoDocs
<1> HIDE DEF call, task
<1>7. /\ Len(listeners') = l /\ listeners'[l] = call
      /\ \A k \in 1..n : listeners'[k] = listeners[k]
  BY <1>1, <1>2, <1>4, AppendFacts
<1>8. /\ DOMAIN tasks' = 1..Len(tasks) + 1 /\ tasks'[Len(tasks) + 1] = task
      /\ \A i \in 1..Len(tasks) : tasks'[i] = tasks[i]
  BY <1>1, <1>2, <1>5, AppendFacts
<1>9. \A k \in 1..n : shown'[k] = shown[k]
  <2>1. Len(shown) = n
    BY <1>2, SeqFacts
  <2> QED BY <1>1, <1>2, <1>6, <2>1, AppendFacts
<1>10. /\ \A k \in 1..n : k # l
       /\ \A k \in 1..l : k = l \/ k \in 1..n
       /\ \A i \in 1..Len(tasks) + 1 : i = Len(tasks) + 1 \/ i \in 1..Len(tasks)
  BY <1>2
<1> HIDE DEF l
<1>11. TasksOnce(listeners', tasks')
  <2>1. ASSUME NEW i \in 1..Len(tasks) + 1
        PROVE  /\ tasks'[i].op = "add" => listeners'[tasks'[i].listener].phase = "asked"
               /\ tasks'[i].op = "remove" => listeners'[tasks'[i].listener].phase # "asked"
    <3>1. CASE i = Len(tasks) + 1
      BY <1>4, <1>5, <1>7, <1>8, <3>1
    <3>2. CASE i \in 1..Len(tasks)
      BY <1>2, <1>3, <1>7, <1>8, <3>2 DEF TasksOnce
    <3> QED BY <1>10, <3>1, <3>2
  <2>2. ASSUME NEW i \in 1..Len(tasks) + 1, NEW j \in 1..Len(tasks) + 1,
               tasks'[i].op = "add", tasks'[j].op = "add", tasks'[i].listener = tasks'[j].listener
        PROVE  i = j
    <3>1. CASE i \in 1..Len(tasks) /\ j \in 1..Len(tasks)
      BY <1>2, <1>3, <1>8, <2>2, <3>1 DEF TasksOnce
    <3>2. \A k \in 1..Len(tasks) : tasks'[k].listener # l
      BY <1>2, <1>8, <1>10
    <3> QED BY <1>5, <1>8, <1>10, <2>2, <3>1, <3>2
  <2> QED BY <1>8, <2>1, <2>2 DEF TasksOnce
<1>12. EventsInOrder(listeners', main')
  BY <1>1, <1>2, <1>3, <1>7 DEF EventsInOrder
<1>13. HandedFits(listeners', main')
  <2>1. \A k \in 1..n : /\ listeners'[k].phase = "asked" => ~listeners'[k].raised
                        /\ listeners'[k].kind = "listen" => listeners'[k].handed = 0
                        /\ listeners'[k].handed # 0 =>
                              /\ listeners'[k].handed = 1
                              /\ \/ listeners'[k].muted
                                 \/ listeners'[k].phase = "off"
                                    /\ \A i \in DOMAIN main' : main'[i].listener # k
    BY <1>1, <1>3, <1>7 DEF HandedFits
  <2> QED BY <1>4, <1>7, <1>10, <2>1 DEF HandedFits
<1>14. AllCovered(listeners', main', shown', view')
  <2>1. ASSUME NEW k \in 1..l, NEW d \in Doc, Following(listeners', k), view'.docs[d] # 0
        PROVE  Covered(shown', main', k, d)
    <3>1. k \in 1..n
      BY <1>4, <1>7, <1>10, <2>1 DEF Following
    <3>2. Covered(shown, main, k, d)
      BY <1>1, <1>3, <1>7, <2>1, <3>1 DEF AllCovered, Following
    <3> QED BY <1>1, <1>9, <3>1, <3>2 DEF Covered
  <2> QED BY <1>7, <2>1 DEF AllCovered
<1> QED BY <1>11, <1>12, <1>13, <1>14 DEF HandingInv, Handing

\* Nothing is under way to those who were there before the restart.
LEMMA RestartHanding ==
    ASSUME ListensInv, HandingInv, Restart
    PROVE  HandingInv'
<1>1. /\ listeners' = [l \in DOMAIN listeners |->
                          [listeners[l] EXCEPT !.phase = "off", !.muted = TRUE]]
      /\ tasks' = << >> /\ main' = << >>
  BY DEF Restart
<1>2. /\ listeners \in Seq(Listener) /\ DOMAIN listeners = 1..Len(listeners)
      /\ Len(listeners) \in Nat /\ \A l \in 1..Len(listeners) : listeners[l] \in Listener
  BY CallsAre
<1>3. \A l \in 1..Len(listeners) :
         /\ listeners'[l].phase = "off" /\ listeners'[l].muted
         /\ listeners'[l].kind = listeners[l].kind /\ listeners'[l].handed = listeners[l].handed
  <2>1. ASSUME NEW l \in 1..Len(listeners)
        PROVE  /\ listeners'[l].phase = "off" /\ listeners'[l].muted
               /\ listeners'[l].kind = listeners[l].kind
               /\ listeners'[l].handed = listeners[l].handed
    <3>1. listeners[l] \in Listener
      BY <1>2
    <3>2. listeners'[l] = [listeners[l] EXCEPT !.phase = "off", !.muted = TRUE]
      BY <1>1, <1>2
    <3> QED BY <3>1, <3>2 DEF Listener
  <2> QED BY <2>1
<1>4. Len(listeners') = Len(listeners)
  <2>1. listeners' \in [1..Len(listeners) -> {listeners'[l] : l \in 1..Len(listeners)}]
    BY <1>1, <1>2
  <2> QED BY <1>2, <2>1
<1>5. DOMAIN tasks' = {} /\ DOMAIN main' = {}
  BY <1>1, PartialNone
<1>6. TasksOnce(listeners', tasks') /\ EventsInOrder(listeners', main')
  BY <1>5 DEF TasksOnce, EventsInOrder
<1>7. HandedFits(listeners', main')
  <2>1. HandedFits(listeners, main)
    BY DEF HandingInv, Handing
  <2> QED BY <1>3, <1>4, <2>1 DEF HandedFits
<1>8. AllCovered(listeners', main', shown', view')
  BY <1>3, <1>4 DEF AllCovered, Following
<1> QED BY <1>6, <1>7, <1>8 DEF HandingInv, Handing

\* What an event does to the call l that it is handed to: nothing if the call
\* is deaf.
HandedOver(ls, now, calls, then, lists, after, event) ==
    LET l == event.listener
        get == ls[l].kind = "get"
    IN  /\ Len(now) = Len(ls)
        /\ \A k \in 1..Len(ls) :
              /\ now[k].kind = ls[k].kind /\ now[k].phase = ls[k].phase
              /\ now[k].raised = ls[k].raised
              /\ k # l \/ ls[l].muted => now[k].muted = ls[k].muted /\ now[k].handed = ls[k].handed
              /\ \A d \in Doc : lists[k][d] > 0 => after[k][d] > 0
        /\ ~ls[l].muted =>
              /\ now[l].handed = ls[l].handed + (IF get THEN 1 ELSE 0)
              /\ now[l].muted = (get /\ ~event.error)
              /\ ~get => \A d \in event.added : after[l][d] > 0
        /\ \/ then = calls
           \/ then = Append(calls, [op |-> "remove", listener |-> l])

\* What Deliver does to the calls.
LEMMA DeliverHandsOver ==
    ASSUME ListensInv, Deliver
    PROVE  HandedOver(listeners, listeners', tasks, tasks', shown, shown', main[1])
<1> DEFINE event == main[1]
           l == event.listener
           get == listeners[l].kind = "get"
           up == IF get THEN 1 ELSE 0
           deaf == get /\ ~event.error
           more == [d \in Doc |-> shown[l][d] + (IF listeners[l].kind = "listen"
                                                    /\ d \in event.added THEN 1 ELSE 0)]
<1>1. /\ listeners \in Seq(Listener) /\ Len(listeners) \in Nat
      /\ DOMAIN listeners = 1..Len(listeners)
      /\ \A k \in 1..Len(listeners) : listeners[k] \in Listener
      /\ main \in Seq(Handed) /\ Len(main) \in Nat /\ DOMAIN main = 1..Len(main)
      /\ \A i \in 1..Len(main) : main[i].listener \in 1..Len(listeners)
      /\ DOMAIN shown = 1..Len(listeners)
      /\ \A k \in 1..Len(listeners) : shown[k] \in [Doc -> Nat]
  BY CallsAre
<1>2. main # << >> /\ Head(main) = event /\ event \in Handed /\ 1 \in 1..Len(main)
  <2>1. main # << >>
    BY DEF Deliver
  <2>2. Len(main) \in Nat \ {0} /\ Head(main) = event /\ event \in Handed
    BY <1>1, <2>1, TailFacts
  <2> QED BY <2>1, <2>2
<1>3. l \in 1..Len(listeners)
  BY <1>1, <1>2
<1>4. IF listeners[l].muted THEN UNCHANGED <<listeners, tasks, shown>>
      ELSE /\ listeners' = [listeners EXCEPT ![l].handed = @ + up, ![l].muted = deaf]
           /\ tasks' = IF deaf THEN Append(tasks, [op |-> "remove", listener |-> l]) ELSE tasks
           /\ shown' = [shown EXCEPT ![l] = more]
  BY <1>2, <1>3, <1>1 DEF Deliver
<1>5. \A d \in Doc : more[d] >= shown[l][d]
  <2>1. \A d \in Doc : shown[l][d] \in Nat
    BY <1>1, <1>3
  <2> QED BY <2>1
<1>6. ~get => \A d \in event.added : more[d] > 0
  <2>1. listeners[l].kind = "get" \/ listeners[l].kind = "listen"
    BY <1>1, <1>3 DEF Listener
  <2>2. event.added \in SUBSET Doc
    BY <1>2 DEF Handed
  <2>3. \A d \in Doc : shown[l][d] \in Nat
    BY <1>1, <1>3
  <2> QED BY <2>1, <2>2, <2>3
<1>7. up = (IF get THEN 1 ELSE 0) /\ deaf = (get /\ ~event.error) /\ up \in Nat /\ deaf \in BOOLEAN
  OBVIOUS
<1>8. CASE listeners[l].muted
  <2>1. listeners' = listeners /\ tasks' = tasks /\ shown' = shown
    BY <1>4, <1>8
  <2> QED BY <1>8, <2>1 DEF HandedOver
<1>9. CASE ~listeners[l].muted
  <2> HIDE DEF more, up, deaf
  <2>1. /\ listeners' = [listeners EXCEPT ![l].handed = @ + up, ![l].muted = deaf]
        /\ tasks' = tasks \/ tasks' = Append(tasks, [op |-> "remove", listener |-> l])
        /\ shown' = [shown EXCEPT ![l] = more]
    BY <1>4, <1>9
  <2> DEFINE call == [listeners[l] EXCEPT !.handed = listeners[l].handed + up, !.muted = deaf]
  <2>2. listeners' = [listeners EXCEPT ![l] = call]
    BY <1>1, <1>3, <2>1
  <2>3. /\ call.kind = listeners[l].kind /\ call.phase = listeners[l].phase
        /\ call.raised = listeners[l].raised /\ call.handed = listeners[l].handed + up
        /\ call.muted = deaf
    <3>1. listeners[l] \in Listener
      BY <1>1, <1>3
    <3> QED BY <3>1 DEF Listener
  <2> HIDE DEF call
  <2>4. Len(listeners') = Len(listeners)
    <3>1. listeners' \in [1..Len(listeners) -> {listeners'[k] : k \in 1..Len(listeners)}]
      BY <1>1, <2>2
    <3> QED BY <1>1, <3>1
  <2>5. \A k \in 1..Len(listeners) : listeners'[k] = IF k = l THEN call ELSE listeners[k]
    BY <1>1, <2>2
  <2>6. \A k \in 1..Len(listeners) : shown'[k] = IF k = l THEN more ELSE shown[k]
    BY <1>1, <2>1
  <2>7. \A k \in 1..Len(listeners), d \in Doc : shown[k][d] > 0 => shown'[k][d] > 0
    <3>1. \A d \in Doc : shown[l][d] > 0 => more[d] > 0
      <4>1. \A d \in Doc : shown[l][d] \in Nat
        BY <1>1, <1>3
      <4>2. \A d \in Doc : more[d] \in Nat
        BY <4>1 DEF more
      <4> QED BY <1>5, <4>1, <4>2
    <3> QED BY <2>6, <3>1
  <2>8. /\ listeners'[l].handed = listeners[l].handed + up /\ listeners'[l].muted = deaf
        /\ ~get => \A d \in event.added : shown'[l][d] > 0
    BY <1>3, <1>6, <2>3, <2>5, <2>6
  <2>9. \A k \in 1..Len(listeners) :
           /\ listeners'[k].kind = listeners[k].kind /\ listeners'[k].phase = listeners[k].phase
           /\ listeners'[k].raised = listeners[k].raised
           /\ k # l => /\ listeners'[k].muted = listeners[k].muted
                       /\ listeners'[k].handed = listeners[k].handed
    BY <2>3, <2>5
  <2>10. tasks' = tasks \/ tasks' = Append(tasks, [op |-> "remove", listener |-> l])
    BY <2>1
  <2> HIDE DEF get, l, event
  <2>11. listeners'[l].handed = listeners[l].handed + (IF get THEN 1 ELSE 0)
         /\ listeners'[l].muted = (get /\ ~event.error)
    BY <1>7, <2>8
  <2> QED BY <1>9, <2>4, <2>7, <2>8, <2>9, <2>10, <2>11 DEF HandedOver, get, l, event
<1> QED BY <1>8, <1>9

\* The first task or event is done with.
LEMMA OneLess ==
    ASSUME NEW T, NEW q \in Seq(T), q # << >>
    PROVE  /\ 1 \in DOMAIN q
           /\ \A i \in DOMAIN Tail(q) : i + 1 \in DOMAIN q /\ Tail(q)[i] = q[i + 1] /\ i + 1 # 1
           /\ \A i \in DOMAIN q : i # 1 => i - 1 \in DOMAIN Tail(q) /\ Tail(q)[i - 1] = q[i]
           /\ \A i, j \in DOMAIN Tail(q) : /\ i + 1 = j + 1 => i = j
                                           /\ i + 1 <= j + 1 => i <= j
<1>1. /\ Len(q) \in Nat \ {0} /\ DOMAIN Tail(q) = 1..Len(q) - 1 /\ DOMAIN q = 1..Len(q)
      /\ \A i \in 1..Len(q) - 1 : Tail(q)[i] = q[i + 1]
  BY TailFacts, SeqFacts
<1>2. 1 \in 1..Len(q)
  BY <1>1
<1>3. \A i \in 1..Len(q) - 1 : i + 1 \in 1..Len(q) /\ i + 1 # 1
  BY <1>1
<1>4. ASSUME NEW i \in 1..Len(q), i # 1
      PROVE  i - 1 \in 1..Len(q) - 1 /\ Tail(q)[i - 1] = q[i]
  <2>1. i - 1 \in 1..Len(q) - 1 /\ (i - 1) + 1 = i
    BY <1>1, <1>4
  <2> QED BY <1>1, <2>1
<1>5. \A i, j \in 1..Len(q) - 1 : /\ i + 1 = j + 1 => i = j
                                  /\ i + 1 <= j + 1 => i <= j
  BY <1>1
<1> QED BY <1>1, <1>2, <1>3, <1>4, <1>5

\* One more task, of a call that is there.
LEMMA RemovalOnce ==
    ASSUME NEW ls, NEW calls \in Seq(Task), TasksOnce(ls, calls), NEW l \in Nat,
           ls[l].phase # "asked"
    PROVE  TasksOnce(ls, Append(calls, [op |-> "remove", listener |-> l]))
<1> DEFINE task == [op |-> "remove", listener |-> l]
           then == Append(calls, task)
<1>1. task \in Task /\ task.op = "remove" /\ task.listener = l
  BY DEF Task
<1> HIDE DEF task
<1>2. /\ DOMAIN then = 1..Len(calls) + 1 /\ then[Len(calls) + 1] = task
      /\ \A i \in 1..Len(calls) : then[i] = calls[i]
      /\ Len(calls) \in Nat /\ DOMAIN calls = 1..Len(calls)
  BY <1>1, AppendFacts, SeqFacts
<1> HIDE DEF then
<1>3. \A i \in 1..Len(calls) + 1 : i = Len(calls) + 1 \/ i \in 1..Len(calls)
  BY <1>2
<1>4. TasksOnce(ls, then)
  BY <1>1, <1>2, <1>3 DEF TasksOnce
<1> QED BY <1>4 DEF then, task

\* An event that is handed over, the last of an error or the first of a get,
\* leaves nothing to answer twice, and is in the list if it was to be appended.
LEMMA DeliverHanding ==
    ASSUME ListensInv, HandingInv, Deliver
    PROVE  HandingInv'
<1> DEFINE event == main[1]
           l == event.listener
           get == listeners[l].kind = "get"
<1>1. /\ \A k \in 1..Len(listeners) : listeners[k] \in Listener
      /\ main \in Seq(Handed)
      /\ \A i \in DOMAIN main : main[i].listener \in 1..Len(listeners)
      /\ tasks \in Seq(Task)
      /\ \A i \in DOMAIN tasks : tasks[i].listener \in 1..Len(listeners)
      /\ Len(listeners) \in Nat
  BY CallsAre
<1>2. main # << >> /\ main' = Tail(main) /\ view' = view
  BY DEF Deliver
<1>3. HandedOver(listeners, listeners', tasks, tasks', shown, shown', event)
  BY DeliverHandsOver
<1>4. /\ TasksOnce(listeners, tasks) /\ EventsInOrder(listeners, main)
      /\ HandedFits(listeners, main) /\ AllCovered(listeners, main, shown, view)
  BY DEF HandingInv, Handing
<1>5. /\ 1 \in DOMAIN main
      /\ \A i \in DOMAIN main' :
            i + 1 \in DOMAIN main /\ main'[i] = main[i + 1] /\ i + 1 # 1
      /\ \A i \in DOMAIN main : i # 1 => i - 1 \in DOMAIN main' /\ main'[i - 1] = main[i]
      /\ \A i, j \in DOMAIN main' : i + 1 <= j + 1 => i <= j
  BY <1>1, <1>2, OneLess
<1>6. l \in 1..Len(listeners) /\ listeners[l].phase # "asked"
      /\ (event.error => /\ listeners[l].phase = "off"
                         /\ \A j \in DOMAIN main : main[j].listener = l => j <= 1)
  BY <1>1, <1>4, <1>5 DEF EventsInOrder
<1> HIDE DEF event
<1>7. /\ Len(listeners') = Len(listeners)
      /\ \A k \in 1..Len(listeners) :
            /\ listeners'[k].kind = listeners[k].kind /\ listeners'[k].phase = listeners[k].phase
            /\ listeners'[k].raised = listeners[k].raised
            /\ k # l \/ listeners[l].muted =>
                  /\ listeners'[k].muted = listeners[k].muted
                  /\ listeners'[k].handed = listeners[k].handed
            /\ \A d \in Doc : shown[k][d] > 0 => shown'[k][d] > 0
      /\ ~listeners[l].muted =>
            /\ listeners'[l].handed = listeners[l].handed + (IF get THEN 1 ELSE 0)
            /\ listeners'[l].muted = (get /\ ~event.error)
            /\ ~get => \A d \in event.added : shown'[l][d] > 0
      /\ tasks' = tasks \/ tasks' = Append(tasks, [op |-> "remove", listener |-> l])
  BY <1>3 DEF HandedOver
<1>8. TasksOnce(listeners', tasks')
  <2>1. TasksOnce(listeners, tasks')
    <3>1. l \in Nat
      BY <1>1, <1>6
    <3> QED BY <1>1, <1>4, <1>6, <1>7, <3>1, RemovalOnce
  <2>2. \A i \in DOMAIN tasks' : tasks'[i].listener \in 1..Len(listeners)
    <3>1. TasksFit(listeners', tasks', shown')
      BY DeliverFits DEF ListensInv, CallsFit
    <3> QED BY <1>7, <3>1 DEF TasksFit
  <2> QED BY <1>7, <2>1, <2>2 DEF TasksOnce
<1>9. EventsInOrder(listeners', main')
  <2> SUFFICES ASSUME NEW i \in DOMAIN main'
               PROVE  /\ listeners'[main'[i].listener].phase # "asked"
                      /\ main'[i].error =>
                            /\ listeners'[main'[i].listener].phase = "off"
                            /\ \A j \in DOMAIN main' :
                                  main'[j].listener = main'[i].listener => j <= i
    BY DEF EventsInOrder
  <2>1. i + 1 \in DOMAIN main /\ main'[i] = main[i + 1]
    BY <1>5
  <2>2. /\ listeners[main[i + 1].listener].phase # "asked"
        /\ main[i + 1].error =>
              /\ listeners[main[i + 1].listener].phase = "off"
              /\ \A j \in DOMAIN main : main[j].listener = main[i + 1].listener => j <= i + 1
    BY <1>4, <2>1 DEF EventsInOrder
  <2>3. ASSUME main'[i].error, NEW j \in DOMAIN main', main'[j].listener = main'[i].listener
        PROVE  j <= i
    <3>1. j + 1 \in DOMAIN main /\ main'[j] = main[j + 1]
      BY <1>5
    <3>2. j + 1 <= i + 1
      BY <2>1, <2>2, <2>3, <3>1
    <3> QED BY <1>5, <3>2
  <2> QED BY <1>1, <1>7, <2>1, <2>2, <2>3
<1>10. HandedFits(listeners', main')
  <2> SUFFICES ASSUME NEW k \in 1..Len(listeners)
               PROVE  /\ listeners'[k].phase = "asked" => ~listeners'[k].raised
                      /\ listeners'[k].kind = "listen" => listeners'[k].handed = 0
                      /\ listeners'[k].handed # 0 =>
                            /\ listeners'[k].handed = 1
                            /\ \/ listeners'[k].muted
                               \/ listeners'[k].phase = "off"
                                  /\ \A i \in DOMAIN main' : main'[i].listener # k
    BY <1>7 DEF HandedFits
  <2>1. /\ listeners[k].phase = "asked" => ~listeners[k].raised
        /\ listeners[k].kind = "listen" => listeners[k].handed = 0
        /\ listeners[k].handed # 0 =>
              /\ listeners[k].handed = 1
              /\ \/ listeners[k].muted
                 \/ listeners[k].phase = "off" /\ \A i \in DOMAIN main : main[i].listener # k
    BY <1>4 DEF HandedFits
  <2>2. CASE k # l \/ listeners[l].muted
    <3>1. (\A i \in DOMAIN main : main[i].listener # k) => \A i \in DOMAIN main' : main'[i].listener # k
      BY <1>5
    <3> QED BY <1>7, <2>1, <2>2, <3>1
  <2>3. CASE k = l /\ ~listeners[l].muted
    <3>1. listeners[l].handed = 0
      <4>1. ~(\A i \in DOMAIN main : main[i].listener # l)
        BY <1>5 DEF event
      <4> QED BY <2>1, <2>3, <4>1
    <3>2. CASE ~get
      <4>1. listeners'[l].handed = 0
        BY <1>7, <2>3, <3>1, <3>2
      <4> QED BY <1>7, <2>1, <2>3, <4>1
    <3>3. CASE get
      <4>1. listeners'[l].handed = 1 /\ listeners'[l].kind # "listen"
        BY <1>6, <1>7, <2>3, <3>1, <3>3
      <4>2. ASSUME event.error
            PROVE  listeners'[l].phase = "off" /\ \A i \in DOMAIN main' : main'[i].listener # l
        <5>1. ASSUME NEW i \in DOMAIN main', main'[i].listener = l PROVE FALSE
          <6>1. i + 1 \in DOMAIN main /\ main[i + 1].listener = l /\ i + 1 # 1
            BY <1>5, <5>1
          <6>2. i + 1 <= 1 /\ 1 <= i + 1
            <7>1. DOMAIN main = 1..Len(main) /\ Len(main) \in Nat
              BY <1>1, SeqFacts
            <7> QED BY <1>6, <4>2, <6>1, <7>1
          <6>3. i + 1 \in Int
            <7>1. DOMAIN main = 1..Len(main) /\ Len(main) \in Nat
              BY <1>1, SeqFacts
            <7> QED BY <6>1, <7>1
          <6> QED BY <6>1, <6>2, <6>3
        <5> QED BY <1>6, <1>7, <4>2, <5>1
      <4>3. ~event.error => listeners'[l].muted
        BY <1>7, <2>3, <3>3
      <4> QED BY <1>7, <2>1, <2>3, <4>1, <4>2, <4>3
    <3> QED BY <3>2, <3>3
  <2> QED BY <2>2, <2>3
<1>11. AllCovered(listeners', main', shown', view')
  <2> SUFFICES ASSUME NEW k \in 1..Len(listeners), NEW d \in Doc, Following(listeners', k),
                      view'.docs[d] # 0
               PROVE  Covered(shown', main', k, d)
    BY <1>7 DEF AllCovered
  <2>1. listeners[k].kind = "listen" /\ listeners[k].raised /\ listeners[k].phase = "on"
        /\ ~listeners'[k].muted
    BY <1>7 DEF Following
  <2>2. ~listeners[k].muted
    <3>1. k = l /\ listeners[l].muted => listeners'[k].muted
      BY <1>7
    <3> QED BY <1>7, <2>1, <3>1
  <2>3. Covered(shown, main, k, d)
    BY <1>2, <1>4, <2>1, <2>2 DEF AllCovered, Following
  <2>4. CASE shown[k][d] > 0
    BY <1>7, <2>4 DEF Covered
  <2>5. CASE \E i \in DOMAIN main : main[i].listener = k /\ d \in main[i].added
    <3>1. PICK i \in DOMAIN main : main[i].listener = k /\ d \in main[i].added
      BY <2>5
    <3>2. CASE i # 1
      BY <1>5, <3>1, <3>2 DEF Covered
    <3>3. CASE i = 1
      <4>1. k = l /\ d \in event.added
        BY <3>1, <3>3 DEF event
      <4>2. ~get
        BY <2>1, <4>1
      <4> QED BY <1>7, <2>2, <4>1, <4>2 DEF Covered
    <3> QED BY <3>2, <3>3
  <2> QED BY <2>3, <2>4, <2>5 DEF Covered
<1> QED BY <1>8, <1>9, <1>10, <1>11 DEF HandingInv, Handing

\* One call is on or off, and was handed what it was.
LEMMA SwitchedCalls ==
    ASSUME NEW ls \in Seq(Listener), NEW l \in 1..Len(ls), NEW phase
    PROVE  LET now == [ls EXCEPT ![l].phase = phase]
           IN  /\ Len(now) = Len(ls)
               /\ \A k \in 1..Len(ls) :
                     /\ now[k].phase = IF k = l THEN phase ELSE ls[k].phase
                     /\ now[k].kind = ls[k].kind /\ now[k].raised = ls[k].raised
                     /\ now[k].muted = ls[k].muted /\ now[k].handed = ls[k].handed
<1> DEFINE call == [ls[l] EXCEPT !.phase = phase]
           now == [ls EXCEPT ![l].phase = phase]
<1>1. Len(ls) \in Nat /\ DOMAIN ls = 1..Len(ls) /\ ls[l] \in Listener
  BY SeqFacts
<1>2. /\ call.phase = phase /\ call.kind = ls[l].kind /\ call.raised = ls[l].raised
      /\ call.muted = ls[l].muted /\ call.handed = ls[l].handed
  BY <1>1 DEF Listener
<1>3. now = [ls EXCEPT ![l] = call]
  BY <1>1
<1> HIDE DEF call
<1>4. Len(now) = Len(ls)
  <2>1. now \in [1..Len(ls) -> {now[k] : k \in 1..Len(ls)}]
    BY <1>1, <1>3
  <2> QED BY <1>1, <2>1
<1>5. \A k \in 1..Len(ls) : now[k] = IF k = l THEN call ELSE ls[k]
  BY <1>1, <1>3
<1> HIDE DEF now
<1>6. \A k \in 1..Len(ls) :
         /\ now[k].phase = IF k = l THEN phase ELSE ls[k].phase
         /\ now[k].kind = ls[k].kind /\ now[k].raised = ls[k].raised
         /\ now[k].muted = ls[k].muted /\ now[k].handed = ls[k].handed
  BY <1>2, <1>5
<1> QED BY <1>4, <1>6 DEF now

\* The first task is done with: its call is on if it was made, or off, and a
\* view that is closed shows nothing.
LEMMA SwitchedHanding ==
    ASSUME NEW ls, NEW events, Told(ls, events), NEW calls, NEW lists, NEW v,
           Handing(ls, calls, events, lists, v), TasksFit(ls, calls, lists), calls # << >>,
           NEW l, l = calls[1].listener, NEW phase,
           \/ calls[1].op = "add" /\ phase = "on"
           \/ calls[1].op = "remove" /\ phase = "off",
           NEW w, \A d \in Doc : w.docs[d] # 0 => v.docs[d] # 0
    PROVE  Handing([ls EXCEPT ![l].phase = phase], Tail(calls), events, lists, w)
<1> DEFINE now == [ls EXCEPT ![l].phase = phase]
           rest == Tail(calls)
<1>1. /\ ls \in Seq(Listener) /\ calls \in Seq(Task)
      /\ \A i \in DOMAIN calls : calls[i].listener \in 1..Len(ls)
      /\ \A i \in DOMAIN events : events[i].listener \in 1..Len(ls)
  BY DEF Told, TasksFit
<1>2. /\ 1 \in DOMAIN calls
      /\ \A i \in DOMAIN rest : i + 1 \in DOMAIN calls /\ rest[i] = calls[i + 1] /\ i + 1 # 1
      /\ \A i, j \in DOMAIN rest : i + 1 = j + 1 => i = j
  BY <1>1, OneLess
<1> HIDE DEF rest
<1>3. /\ TasksOnce(ls, calls) /\ EventsInOrder(ls, events)
      /\ HandedFits(ls, events) /\ AllCovered(ls, events, lists, v)
  BY DEF Handing
<1>4. l \in 1..Len(ls)
  BY <1>1, <1>2
<1>5. /\ Len(now) = Len(ls)
      /\ \A k \in 1..Len(ls) :
            /\ now[k].phase = IF k = l THEN phase ELSE ls[k].phase
            /\ now[k].kind = ls[k].kind /\ now[k].raised = ls[k].raised
            /\ now[k].muted = ls[k].muted /\ now[k].handed = ls[k].handed
  BY <1>1, <1>4, SwitchedCalls
<1> HIDE DEF now
<1>6. /\ calls[1].op = "add" => ls[l].phase = "asked" /\ phase = "on"
      /\ calls[1].op = "remove" => ls[l].phase # "asked" /\ phase = "off"
      /\ phase \in {"on", "off"} /\ (phase = "on" => ls[l].phase = "asked")
  BY <1>2, <1>3 DEF TasksOnce
<1>7. TasksOnce(now, rest)
  <2>1. ASSUME NEW i \in DOMAIN rest
        PROVE  /\ rest[i].op = "add" => now[rest[i].listener].phase = "asked"
               /\ rest[i].op = "remove" => now[rest[i].listener].phase # "asked"
    <3>1. i + 1 \in DOMAIN calls /\ rest[i] = calls[i + 1] /\ i + 1 # 1
      BY <1>2
    <3>2. /\ rest[i].op = "add" => ls[rest[i].listener].phase = "asked"
          /\ rest[i].op = "remove" => ls[rest[i].listener].phase # "asked"
      BY <1>3, <3>1 DEF TasksOnce
    <3>3. rest[i].listener \in 1..Len(ls)
      BY <1>1, <3>1
    <3>4. CASE rest[i].listener # l
      BY <1>5, <3>2, <3>3, <3>4
    <3>5. CASE rest[i].listener = l
      <4>1. now[l].phase # "asked"
        BY <1>4, <1>5, <1>6
      <4>2. rest[i].op # "add"
        <5>1. SUFFICES ASSUME rest[i].op = "add" PROVE FALSE
          OBVIOUS
        <5>2. ls[l].phase = "asked"
          BY <3>2, <3>5, <5>1
        <5>3. calls[1].op = "add"
          BY <1>6, <5>2
        <5>4. i + 1 = 1
          BY <1>2, <1>3, <3>1, <3>5, <5>1, <5>3 DEF TasksOnce
        <5> QED BY <3>1, <5>4
      <4> QED BY <3>5, <4>1, <4>2
    <3> QED BY <3>4, <3>5
  <2>2. ASSUME NEW i \in DOMAIN rest, NEW j \in DOMAIN rest, rest[i].op = "add",
               rest[j].op = "add", rest[i].listener = rest[j].listener
        PROVE  i = j
    <3>1. /\ i + 1 \in DOMAIN calls /\ rest[i] = calls[i + 1]
          /\ j + 1 \in DOMAIN calls /\ rest[j] = calls[j + 1]
      BY <1>2
    <3>2. i + 1 = j + 1
      BY <1>3, <2>2, <3>1 DEF TasksOnce
    <3> QED BY <1>2, <3>2
  <2> QED BY <2>1, <2>2 DEF TasksOnce
<1>8. EventsInOrder(now, events)
  <2> SUFFICES ASSUME NEW i \in DOMAIN events
               PROVE  /\ now[events[i].listener].phase # "asked"
                      /\ events[i].error =>
                            /\ now[events[i].listener].phase = "off"
                            /\ \A j \in DOMAIN events :
                                  events[j].listener = events[i].listener => j <= i
    BY DEF EventsInOrder
  <2>1. /\ ls[events[i].listener].phase # "asked"
        /\ events[i].error =>
              /\ ls[events[i].listener].phase = "off"
              /\ \A j \in DOMAIN events : events[j].listener = events[i].listener => j <= i
    BY <1>3 DEF EventsInOrder
  <2>2. events[i].listener = l => phase = "off"
    BY <1>6, <2>1
  <2> QED BY <1>1, <1>5, <2>1, <2>2
<1>9. HandedFits(now, events)
  <2> SUFFICES ASSUME NEW k \in 1..Len(ls)
               PROVE  /\ now[k].phase = "asked" => ~now[k].raised
                      /\ now[k].kind = "listen" => now[k].handed = 0
                      /\ now[k].handed # 0 =>
                            /\ now[k].handed = 1
                            /\ \/ now[k].muted
                               \/ now[k].phase = "off"
                                  /\ \A i \in DOMAIN events : events[i].listener # k
    BY <1>5 DEF HandedFits
  <2>1. /\ ls[k].phase = "asked" => ~ls[k].raised
        /\ ls[k].kind = "listen" => ls[k].handed = 0
        /\ ls[k].handed # 0 =>
              /\ ls[k].handed = 1
              /\ \/ ls[k].muted
                 \/ ls[k].phase = "off" /\ \A i \in DOMAIN events : events[i].listener # k
    BY <1>3 DEF HandedFits
  <2>2. k = l => phase # "asked" /\ (ls[l].phase = "off" => phase = "off")
    BY <1>6
  <2> QED BY <1>5, <2>1, <2>2
<1>10. AllCovered(now, events, lists, w)
  <2> SUFFICES ASSUME NEW k \in 1..Len(ls), NEW d \in Doc, Following(now, k), w.docs[d] # 0
               PROVE  Covered(lists, events, k, d)
    BY <1>5 DEF AllCovered
  <2>1. now[k].kind = "listen" /\ now[k].raised /\ ~now[k].muted /\ now[k].phase = "on"
    BY DEF Following
  <2>2. ls[k].kind = "listen" /\ ls[k].raised /\ ~ls[k].muted
    BY <1>5, <2>1
  <2>3. ls[k].phase = "on"
    <3>1. k = l => ls[l].phase # "asked"
      BY <1>3, <2>2 DEF HandedFits
    <3> QED BY <1>5, <1>6, <2>1, <3>1
  <2> QED BY <1>3, <2>2, <2>3 DEF AllCovered, Following
<1> QED BY <1>7, <1>8, <1>9, <1>10 DEF Handing, now, rest

\* A call that joins the view that is there is handed all of it.
LEMMA AddSaid ==
    ASSUME NEW ls \in Seq(Listener), NEW heard \in SUBSET DOMAIN ls, NEW v,
           \A l \in heard : ls[l].phase = "on"
    PROVE  Said(ls, Raised(ls, heard), EventsFor(ls, heard, NoView, v), v, v)
<1> DEFINE more == EventsFor(ls, heard, NoView, v)
           now == Raised(ls, heard)
<1>1. /\ more \in Seq(Handed)
      /\ \A i \in DOMAIN more : more[i].listener \in heard /\ more[i].error = FALSE
      /\ \A l \in heard : \E i \in DOMAIN more : more[i].listener = l /\ \A d \in Doc :
            v.docs[d] # 0 /\ (ls[l].raised => NoView.docs[d] = 0) => d \in more[i].added
  BY EventsForSays
<1> HIDE DEF more
<1>2. /\ SameCalls(ls, now) /\ DOMAIN ls = 1..Len(ls)
      /\ \A l \in 1..Len(ls) : now[l].raised = (ls[l].raised \/ l \in heard)
      /\ \A l \in 1..Len(ls) : ls[l] \in Listener
  BY RaisedCalls, SeqFacts
<1> HIDE DEF now
<1>3. \A d \in Doc : NoView.docs[d] = 0
  BY DEF NoView, NoDocs
<1>4. ASSUME NEW l \in 1..Len(ls), NEW d \in Doc, now[l].raised, v.docs[d] # 0
      PROVE  \/ ls[l].raised /\ v.docs[d] # 0
             \/ \E i \in DOMAIN more : more[i].listener = l /\ d \in more[i].added
  <2>1. ls[l].raised \/ l \in heard
    BY <1>2, <1>4
  <2> QED BY <1>1, <1>3, <1>4, <2>1
<1>5. \A l \in 1..Len(ls) : ls[l].phase = "asked" => now[l].raised = ls[l].raised
  <2>1. \A l \in 1..Len(ls) : ls[l].raised \in BOOLEAN
    BY <1>2 DEF Listener
  <2> QED BY <1>2, <2>1
<1> QED BY <1>1, <1>2, <1>4, <1>5 DEF Said, more, now

\* A call that is added hears all of the view, and one that is removed is
\* needed no more.
LEMMA RunTaskHanding ==
    ASSUME ListensInv, HandingInv, RunTask
    PROVE  HandingInv'
<1> DEFINE task == tasks[1]
           l == task.listener
           rest == Tail(tasks)
<1>1. /\ Told(listeners, main) /\ TasksFit(listeners, tasks, shown)
      /\ Handing(listeners, tasks, main, shown, view)
      /\ listeners \in Seq(Listener) /\ tasks \in Seq(Task)
      /\ (~view.open => view = NoView)
  BY DEF ListensInv, CallsFit, ClientFits, ViewFits, HandingInv, TasksFit, Told
<1>2. /\ tasks # << >> /\ Head(tasks) = task /\ task \in Task /\ 1 \in DOMAIN tasks
      /\ tasks' = rest /\ shown' = shown
  <2>1. tasks # << >>
    BY DEF RunTask
  <2> QED BY <1>1, <2>1, TailFacts, OneLess DEF RunTask
<1>3. l \in 1..Len(listeners)
  BY <1>1, <1>2 DEF TasksFit
<1>4. \/ task.op = "add" /\ AddQueryListener(l)
      \/ task.op = "remove" /\ RemoveQueryListener(l)
  <2>1. task.op = "add" \/ task.op = "remove"
    BY <1>2 DEF Task
  <2> QED BY <1>2, <2>1 DEF RunTask
<1>5. \A i \in DOMAIN rest : rest[i].listener \in 1..Len(listeners)
  <2>1. \A i \in DOMAIN rest : i + 1 \in DOMAIN tasks /\ rest[i] = tasks[i + 1]
    BY <1>1, <1>2, OneLess
  <2> QED BY <1>1, <2>1 DEF TasksFit
<1>6. rest \in Seq(Task)
  BY <1>1, <1>2, TailFacts
<1>7. l = tasks[1].listener /\ task.op = tasks[1].op
  OBVIOUS
<1> HIDE DEF task, l, rest
<1>8. rest = Tail(tasks)
  BY DEF rest
<1>9. CASE task.op = "add" /\ AddQueryListener(l)
  <2> DEFINE ls == [listeners EXCEPT ![l].phase = "on"]
             heard == IF ShouldRaiseInitialEvent(ls[l], view, sync.online) THEN {l} ELSE {}
  <2>1. IF view.open
        THEN /\ main' = main \o EventsFor(ls, heard, NoView, view)
             /\ listeners' = Raised(ls, heard)
             /\ view' = view
        ELSE FirstListen(ls)
    BY <1>9 DEF AddQueryListener
  <2>2. Switched(listeners, ls, l, "on")
    BY <1>1, <1>3, SwitchedIs
  <2>3. ls \in Seq(Listener) /\ Len(ls) = Len(listeners) /\ DOMAIN ls = 1..Len(listeners)
        /\ ls[l].phase = "on"
    BY <1>3, <2>2, SeqFacts DEF Switched
  <2>4. Handing(ls, rest, main, shown, view)
    BY <1>1, <1>2, <1>7, <1>8, <1>9, SwitchedHanding
  <2>5. heard \in SUBSET DOMAIN ls /\ \A k \in heard : ls[k].phase = "on"
    BY <1>3, <2>3
  <2> HIDE DEF ls, heard
  <2>6. Told(ls, main) /\ TasksFit(ls, rest, shown)
    BY <1>1, <1>5, <1>6, <2>3, ToldSame DEF TasksFit
  <2>7. \E more : main' = main \o more /\ Said(ls, listeners', more, view, view')
    <3>1. CASE view.open
      BY <2>1, <2>3, <2>5, <3>1, AddSaid
    <3>2. CASE ~view.open
      <4>1. view = NoView /\ OnViewSnapshots(ls, NoView, view', sync.online)
        BY <1>1, <2>1, <3>2 DEF FirstListen
      <4> QED BY <2>3, <4>1, SnapshotsSaid
    <3> QED BY <3>1, <3>2
  <2>8. PICK more : main' = main \o more /\ Said(ls, listeners', more, view, view')
    BY <2>7
  <2>9. Handing(listeners', rest, main \o more, shown, view')
    BY <2>4, <2>6, <2>8, SaidFits
  <2> QED BY <1>2, <2>8, <2>9 DEF HandingInv
<1>10. CASE task.op = "remove" /\ RemoveQueryListener(l)
  <2> DEFINE ls == [listeners EXCEPT ![l].phase = "off"]
  <2>1. listeners' = ls /\ main' = main /\ (view' = view \/ view' = NoView)
    BY <1>10 DEF RemoveQueryListener, CloseView
  <2>2. \A d \in Doc : view'.docs[d] # 0 => view.docs[d] # 0
    BY <2>1 DEF NoView, NoDocs
  <2>3. Handing(ls, rest, main, shown, view')
    BY <1>1, <1>2, <1>7, <1>8, <1>10, <2>2, SwitchedHanding
  <2> QED BY <1>2, <2>1, <2>3 DEF HandingInv
<1> QED BY <1>4, <1>9, <1>10

\* Who waits for a client that went offline is handed what there is.
LEMMA OfflineSaid ==
    ASSUME listeners \in Seq(Listener), NEW online, GoOffline(online)
    PROVE  \E more : main' = main \o more /\ Said(listeners, listeners', more, view, view')
<1> DEFINE ls == listeners
           heard == IF HasSnapshot(view, view')
                    THEN Notified(ls, view, view', online) ELSE {}
           waiting == {l \in DOMAIN ls \ heard : ls[l].phase = "on" /\ ~ls[l].raised}
           p == EventsFor(ls, heard, view, view')
           q == EventsFor(ls, waiting, view, view')
           more == p \o q
<1>1. view'.docs = view.docs
  <2>1. view' = view \/ view' = ApplyChanges(view, view.docs, view.synced, FALSE)
    BY DEF GoOffline
  <2> QED BY <2>1 DEF ApplyChanges
<1>2. main' = main \o p \o q /\ listeners' = Raised(ls, heard \cup waiting)
  BY DEF GoOffline
<1>3. /\ heard \in SUBSET DOMAIN ls /\ waiting \in SUBSET DOMAIN ls
      /\ \A l \in heard \cup waiting : ls[l].phase = "on"
  BY DEF Notified
<1> HIDE DEF heard, waiting
<1>4. /\ p \in Seq(Handed)
      /\ \A i \in DOMAIN p : p[i].listener \in heard /\ p[i].error = FALSE
      /\ \A l \in heard : \E i \in DOMAIN p : p[i].listener = l /\ \A d \in Doc :
            view'.docs[d] # 0 /\ (ls[l].raised => view.docs[d] = 0) => d \in p[i].added
  BY <1>3, EventsForSays
<1>5. /\ q \in Seq(Handed)
      /\ \A i \in DOMAIN q : q[i].listener \in waiting /\ q[i].error = FALSE
      /\ \A l \in waiting : \E i \in DOMAIN q : q[i].listener = l /\ \A d \in Doc :
            view'.docs[d] # 0 /\ (ls[l].raised => view.docs[d] = 0) => d \in q[i].added
  BY <1>3, EventsForSays
<1> HIDE DEF p, q
<1>6. more \in Seq(Handed)
  BY <1>4, <1>5, ConcatFacts
<1>7. /\ \A i \in DOMAIN p : i \in DOMAIN more /\ more[i] = p[i]
      /\ \A i \in DOMAIN q : Len(p) + i \in DOMAIN more /\ more[Len(p) + i] = q[i]
      /\ \A i \in DOMAIN more :
            \/ i \in DOMAIN p
            \/ i - Len(p) \in DOMAIN q /\ more[i] = q[i - Len(p)]
  BY <1>4, <1>5, QueuedFacts
<1> HIDE DEF more
<1>8. /\ SameCalls(ls, listeners') /\ DOMAIN ls = 1..Len(ls)
      /\ \A l \in 1..Len(ls) : listeners'[l].raised = (ls[l].raised \/ l \in heard \cup waiting)
      /\ \A l \in 1..Len(ls) : ls[l] \in Listener
  BY <1>2, RaisedCalls, SeqFacts
<1>9. \A i \in DOMAIN more : more[i].listener \in heard \cup waiting /\ ~more[i].error
  BY <1>4, <1>5, <1>7
<1>10. ASSUME NEW l \in heard \cup waiting, ~ls[l].raised, NEW d \in Doc, view'.docs[d] # 0
       PROVE  \E i \in DOMAIN more : more[i].listener = l /\ d \in more[i].added
  <2>1. CASE l \in heard
    <3>1. PICK i \in DOMAIN p : p[i].listener = l /\ d \in p[i].added
      BY <1>4, <1>10, <2>1
    <3> QED BY <1>7, <3>1
  <2>2. CASE l \in waiting
    <3>1. PICK i \in DOMAIN q : q[i].listener = l /\ d \in q[i].added
      BY <1>5, <1>10, <2>2
    <3> QED BY <1>7, <3>1
  <2> QED BY <2>1, <2>2
<1>11. \A l \in 1..Len(ls), d \in Doc :
          ls[l].kind = "listen" /\ ls[l].phase = "on" /\ listeners'[l].raised /\ view'.docs[d] # 0 =>
             \/ ls[l].raised /\ view.docs[d] # 0
             \/ \E i \in DOMAIN more : more[i].listener = l /\ d \in more[i].added
  BY <1>1, <1>8, <1>10
<1>12. \A l \in 1..Len(ls) : ls[l].phase = "asked" => listeners'[l].raised = ls[l].raised
  <2>1. \A l \in 1..Len(ls) : ls[l].raised \in BOOLEAN
    BY <1>8 DEF Listener
  <2> QED BY <1>3, <1>8, <2>1
<1>13. Said(ls, listeners', more, view, view')
  BY <1>3, <1>6, <1>8, <1>9, <1>11, <1>12 DEF Said
<1>14. main' = main \o more
  BY <1>2 DEF more
<1> QED BY <1>13, <1>14

\* The calls are told of the view as it is from now on.
LEMMA SaidHanding ==
    ASSUME ListensInv, HandingInv, tasks' = tasks, shown' = shown,
           NEW more, main' = main \o more, Said(listeners, listeners', more, view, view')
    PROVE  HandingInv'
<1>1. /\ Told(listeners, main) /\ TasksFit(listeners, tasks, shown)
      /\ Handing(listeners, tasks, main, shown, view)
  BY DEF ListensInv, CallsFit, HandingInv
<1>2. Handing(listeners', tasks, main \o more, shown, view')
  BY <1>1, SaidFits
<1> QED BY <1>2 DEF HandingInv

\* The query is refused: who listened is told so, once and at last.
LEMMA RefusedHanding ==
    ASSUME ListensInv, HandingInv, tasks' = tasks, shown' = shown,
           NEW s, TargetRefused(s, Query), Query \in DOMAIN s.listening
    PROVE  HandingInv'
<1> DEFINE ls == listeners
           on == {l \in DOMAIN ls : ls[l].phase = "on"}
           order == Sorted(on)
           n == Cardinality(on)
           more == [i \in DOMAIN order |-> [Event(order[i], NoView, NoView) EXCEPT !.error = TRUE]]
           all == main \o more
           now == [l \in DOMAIN ls |-> IF l \in on THEN [ls[l] EXCEPT !.phase = "off"] ELSE ls[l]]
<1>1. listeners' = now /\ main' = all /\ view' = NoView
  BY DEF TargetRefused, CloseView
<1>2. /\ ls \in Seq(Listener) /\ Len(ls) \in Nat /\ DOMAIN ls = 1..Len(ls)
      /\ \A l \in 1..Len(ls) : ls[l] \in Listener
      /\ main \in Seq(Handed) /\ Len(main) \in Nat /\ DOMAIN main = 1..Len(main)
      /\ \A i \in 1..Len(main) : main[i].listener \in 1..Len(ls)
      /\ DOMAIN tasks = 1..Len(tasks)
      /\ \A i \in 1..Len(tasks) : tasks[i].listener \in 1..Len(ls)
  BY CallsAre
<1>3. /\ TasksOnce(ls, tasks) /\ EventsInOrder(ls, main)
      /\ HandedFits(ls, main) /\ AllCovered(ls, main, shown, view)
  BY DEF HandingInv, Handing
<1>4. on \in SUBSET Nat /\ IsFiniteSet(on)
  <2>1. on \in SUBSET (1..Len(ls)) /\ IsFiniteSet(1..Len(ls))
    BY <1>2, FS_Interval
  <2> QED BY <2>1, FS_Subset
<1>5. /\ DOMAIN order = 1..n /\ n \in Nat /\ order \in Seq(on)
      /\ \A i, j \in 1..n : order[i] = order[j] => i = j
  <2> HIDE DEF on
  <2> QED BY <1>4, SortedFacts
<1>6. \A i \in 1..n : order[i] \in on
  <2>1. Len(order) = n
    BY <1>4, SortedFacts
  <2> QED BY <1>5, <2>1, SeqFacts
<1>7. \A l \in on : l \in 1..Len(ls) /\ ls[l].phase = "on"
  BY <1>2
<1>8. \A l \in 1..Len(ls) : l \notin on => ls[l].phase # "on"
  BY <1>2
<1> HIDE DEF on, order, n
<1>9. \A l \in 1..Len(ls) :
         /\ now[l].phase = IF l \in on THEN "off" ELSE ls[l].phase
         /\ now[l].kind = ls[l].kind /\ now[l].raised = ls[l].raised
         /\ now[l].muted = ls[l].muted /\ now[l].handed = ls[l].handed
  <2>1. ASSUME NEW l \in 1..Len(ls)
        PROVE  /\ now[l].phase = IF l \in on THEN "off" ELSE ls[l].phase
               /\ now[l].kind = ls[l].kind /\ now[l].raised = ls[l].raised
               /\ now[l].muted = ls[l].muted /\ now[l].handed = ls[l].handed
    <3> DEFINE call == [ls[l] EXCEPT !.phase = "off"]
    <3>1. /\ call.phase = "off" /\ call.kind = ls[l].kind /\ call.raised = ls[l].raised
          /\ call.muted = ls[l].muted /\ call.handed = ls[l].handed
      BY <1>2 DEF Listener
    <3>2. now[l] = IF l \in on THEN call ELSE ls[l]
      BY <1>2
    <3> HIDE DEF call, now
    <3> QED BY <3>1, <3>2
  <2> QED BY <2>1
<1>10. Len(now) = Len(ls)
  <2>1. now \in [1..Len(ls) -> {now[l] : l \in 1..Len(ls)}]
    BY <1>2
  <2> HIDE DEF now
  <2> QED BY <1>2, <2>1
<1>11. ASSUME NEW l \in Nat
       PROVE  LET e == [Event(l, NoView, NoView) EXCEPT !.error = TRUE]
              IN  e \in Handed /\ e.listener = l /\ e.error = TRUE
  <2> DEFINE none == In(NoView.docs) \ In(NoView.docs)
             e == Event(l, NoView, NoView)
  <2>1. none = {} /\ none \in SUBSET Doc
    OBVIOUS
  <2>2. e = [listener |-> l, error |-> FALSE, added |-> none]
    BY DEF Event
  <2> HIDE DEF none
  <2>3. e \in Handed /\ e.listener = l
    BY <2>1, <2>2 DEF Handed
  <2> HIDE DEF e
  <2>4. LET f == [e EXCEPT !.error = TRUE]
        IN  f \in Handed /\ f.listener = l /\ f.error = TRUE
    BY <2>3 DEF Handed
  <2> QED BY <2>4 DEF e
<1> HIDE DEF now
<1>12. /\ more \in Seq(Handed) /\ DOMAIN more = 1..n
       /\ \A i \in 1..n : more[i].listener = order[i] /\ more[i].error = TRUE
  <2>1. \A i \in 1..n : order[i] \in Nat
    BY <1>4, <1>6
  <2>2. more = [i \in 1..n |-> [Event(order[i], NoView, NoView) EXCEPT !.error = TRUE]]
    BY <1>5
  <2> HIDE DEF more
  <2>3. \A i \in 1..n : more[i] \in Handed /\ more[i].listener = order[i] /\ more[i].error = TRUE
    BY <1>11, <2>1, <2>2
  <2>4. DOMAIN more = 1..n
    BY <2>2
  <2>5. more \in [1..n -> Handed]
    BY <2>2, <2>3, <2>4
  <2>6. more \in Seq(Handed)
    BY <1>5, <2>5
  <2> QED BY <2>3, <2>4, <2>6
<1> HIDE DEF more
<1>13. /\ \A i \in DOMAIN main : i \in DOMAIN all /\ all[i] = main[i]
       /\ \A i \in DOMAIN all :
             \/ i \in DOMAIN main
             \/ i > Len(main) /\ i - Len(main) \in 1..n /\ i = Len(main) + (i - Len(main))
                /\ all[i] = more[i - Len(main)]
  <2>1. /\ \A i \in DOMAIN main : i \in DOMAIN all /\ all[i] = main[i]
        /\ \A i \in DOMAIN all :
              \/ i \in DOMAIN main
              \/ i > Len(main) /\ i - Len(main) \in DOMAIN more /\ i = Len(main) + (i - Len(main))
                 /\ all[i] = more[i - Len(main)]
    BY <1>2, <1>12, QueuedFacts
  <2> HIDE DEF all
  <2> QED BY <1>12, <2>1
<1>14. \A i \in DOMAIN all : i \notin DOMAIN main =>
          /\ i > Len(main) /\ i - Len(main) \in 1..n /\ i = Len(main) + (i - Len(main))
          /\ all[i].listener = order[i - Len(main)] /\ all[i].error
          /\ all[i].listener \in on
  BY <1>6, <1>12, <1>13
<1>15. \A i \in DOMAIN all : i \in Int
  <2>1. \A i \in DOMAIN main : i \in Int
    BY <1>2
  <2>2. \A k \in 1..n : Len(main) + k \in Int
    BY <1>2, <1>5
  <2> QED BY <1>13, <2>1, <2>2
<1> HIDE DEF all
<1>16. TasksOnce(now, tasks)
  BY <1>2, <1>3, <1>7, <1>9 DEF TasksOnce
<1>17. EventsInOrder(now, all)
  <2> SUFFICES ASSUME NEW i \in DOMAIN all
               PROVE  /\ now[all[i].listener].phase # "asked"
                      /\ all[i].error =>
                            /\ now[all[i].listener].phase = "off"
                            /\ \A j \in DOMAIN all : all[j].listener = all[i].listener => j <= i
    BY DEF EventsInOrder
  <2>1. CASE i \in DOMAIN main
    <3>1. /\ all[i] = main[i] /\ main[i].listener \in 1..Len(ls)
          /\ ls[main[i].listener].phase # "asked"
          /\ main[i].error =>
                /\ ls[main[i].listener].phase = "off"
                /\ \A j \in DOMAIN main : main[j].listener = main[i].listener => j <= i
      BY <1>2, <1>3, <1>13, <2>1 DEF EventsInOrder
    <3>2. ASSUME main[i].error, NEW j \in DOMAIN all, all[j].listener = main[i].listener
          PROVE  j <= i
      <4>1. CASE j \in DOMAIN main
        BY <1>13, <3>1, <3>2, <4>1
      <4>2. CASE j \notin DOMAIN main
        BY <1>7, <1>14, <3>1, <3>2, <4>2
      <4> QED BY <4>1, <4>2
    <3> QED BY <1>9, <3>1, <3>2
  <2>2. CASE i \notin DOMAIN main
    <3>1. /\ i > Len(main) /\ i - Len(main) \in 1..n /\ all[i].listener = order[i - Len(main)]
          /\ all[i].listener \in on
      BY <1>14, <2>2
    <3>2. now[all[i].listener].phase = "off"
      BY <1>7, <1>9, <3>1
    <3>3. ASSUME NEW j \in DOMAIN all, all[j].listener = all[i].listener PROVE j <= i
      <4>1. i \in Int /\ j \in Int
        BY <1>15
      <4>2. CASE j \in DOMAIN main
        BY <1>2, <3>1, <4>1, <4>2
      <4>3. CASE j \notin DOMAIN main
        <5>1. j - Len(main) \in 1..n /\ all[j].listener = order[j - Len(main)]
          BY <1>14, <4>3
        <5>2. j - Len(main) = i - Len(main)
          BY <1>5, <3>1, <3>3, <5>1
        <5> QED BY <1>2, <4>1, <5>2
      <4> QED BY <4>2, <4>3
    <3> QED BY <3>2, <3>3
  <2> QED BY <2>1, <2>2
<1>18. HandedFits(now, all)
  <2> SUFFICES ASSUME NEW l \in 1..Len(ls)
               PROVE  /\ now[l].phase = "asked" => ~now[l].raised
                      /\ now[l].kind = "listen" => now[l].handed = 0
                      /\ now[l].handed # 0 =>
                            /\ now[l].handed = 1
                            /\ \/ now[l].muted
                               \/ now[l].phase = "off" /\ \A i \in DOMAIN all : all[i].listener # l
    BY <1>10 DEF HandedFits
  <2>1. /\ ls[l].phase = "asked" => ~ls[l].raised
        /\ ls[l].kind = "listen" => ls[l].handed = 0
        /\ ls[l].handed # 0 =>
              /\ ls[l].handed = 1
              /\ \/ ls[l].muted
                 \/ ls[l].phase = "off" /\ \A i \in DOMAIN main : main[i].listener # l
    BY <1>3 DEF HandedFits
  <2>2. ASSUME ls[l].phase = "off", \A i \in DOMAIN main : main[i].listener # l,
               NEW i \in DOMAIN all
        PROVE  all[i].listener # l
    <3>1. CASE i \in DOMAIN main
      BY <1>13, <2>2, <3>1
    <3>2. CASE i \notin DOMAIN main
      BY <1>7, <1>14, <2>2, <3>2
    <3> QED BY <3>1, <3>2
  <2> QED BY <1>7, <1>9, <2>1, <2>2
<1>19. AllCovered(now, all, shown, view')
  <2>1. \A l \in 1..Len(ls) : now[l].phase # "on"
    BY <1>8, <1>9
  <2> QED BY <1>10, <2>1 DEF AllCovered, Following
<1>20. Handing(now, tasks, all, shown, view')
  BY <1>16, <1>17, <1>18, <1>19 DEF Handing
<1> QED BY <1>1, <1>20 DEF HandingInv

\* A response tells the calls what it changes of the view.
LEMMA ReceiveHanding ==
    ASSUME ListensInv, HandingInv, Receive
    PROVE  HandingInv'
<1> DEFINE m == responses[1]
           s == UpdateState(sync, "online")
<1>1. responses # << >> /\ responses \in Seq(Response) /\ m = Head(responses) /\ m \in Response
  <2>1. responses # << >> /\ responses \in Seq(Response)
    BY DEF Receive, ListensInv, ClientFits, AnswersFit
  <2> QED BY <2>1, TailFacts
<1>2. tasks' = tasks /\ shown' = shown
  BY DEF Receive
<1>3. /\ m.kind \in {"added", "removed", "current", "change", "filter"} =>
            UNCHANGED <<view, listeners, main>>
      /\ m.kind = "refused" => TargetRefused(s, m.id)
      /\ m.kind = "snapshot" => GlobalSnapshot(s, m.version)
  BY <1>1 DEF Receive, Collect
<1>4. m.kind \in {"added", "removed", "refused", "current", "change", "filter", "snapshot"}
  BY <1>1, ResponseKinds
<1> DEFINE id == m.id
<1>5. listeners \in Seq(Listener)
  BY CallsAre
<1> HIDE DEF m, s
<1>6. CASE UNCHANGED <<view, listeners, main>>
  BY <1>2, <1>6 DEF HandingInv
<1>7. ASSUME NEW t, NEW event, ApplyRemoteEvent(t, event) PROVE HandingInv'
  <2>1. OnViewSnapshots(listeners, view, view', t.online)
    BY <1>7 DEF ApplyRemoteEvent
  <2>2. PICK more : main' = main \o more /\ Said(listeners, listeners', more, view, view')
    BY <1>5, <2>1, SnapshotsSaid
  <2> QED BY <1>2, <2>2, SaidHanding
<1>8. CASE m.kind = "refused"
  <2>1. TargetRefused(s, id)
    BY <1>3, <1>8
  <2> HIDE DEF id
  <2>2. CASE id \notin DOMAIN s.listening
    <3>1. UNCHANGED <<view, listeners, main>>
      BY <2>1, <2>2 DEF TargetRefused
    <3> QED BY <1>6, <3>1
  <2>3. CASE id \in DOMAIN s.listening /\ id = Query
    BY <1>2, <2>1, <2>3, RefusedHanding
  <2>4. CASE id \in DOMAIN s.listening /\ id # Query
    <3>1. \E t, event : ApplyRemoteEvent(t, event)
      BY <2>1, <2>4 DEF TargetRefused
    <3> QED BY <1>7, <3>1
  <2> QED BY <2>2, <2>3, <2>4
<1>9. CASE m.kind = "snapshot"
  <2>1. UNCHANGED <<view, listeners, main>> \/ \E t, event : ApplyRemoteEvent(t, event)
    BY <1>3, <1>9 DEF GlobalSnapshot, RaiseWatchSnapshot
  <2> QED BY <1>6, <1>7, <2>1
<1> QED BY <1>3, <1>4, <1>6, <1>8, <1>9

\* Every step keeps what is handed over right.
LEMMA NextHanding ==
    ASSUME ListensInv, HandingInv, [Next]_vars
    PROVE  HandingInv'
<1>1. CASE RunTask
  BY <1>1, RunTaskHanding
<1>2. CASE Deliver
  BY <1>2, DeliverHanding
<1>3. CASE Receive
  BY <1>3, ReceiveHanding
<1>4. CASE Restart
  BY <1>4, RestartHanding
<1>5. CASE \E kind \in {"get", "listen"} : Ask(kind)
  BY <1>5, AskHanding
<1>6. CASE UNCHANGED <<listeners, tasks, main, shown, view>>
  BY <1>6 DEF HandingInv
<1>7. ASSUME GoOffline(sync.online), tasks' = tasks, shown' = shown PROVE HandingInv'
  <2>1. listeners \in Seq(Listener)
    BY CallsAre
  <2>2. PICK more : main' = main \o more /\ Said(listeners, listeners', more, view, view')
    BY <1>7, <2>1, OfflineSaid
  <2> QED BY <1>7, <2>2, SaidHanding
<1>8. CASE StreamFails
  <2>1. /\ tasks' = tasks /\ shown' = shown
        /\ UNCHANGED <<view, listeners, main>> \/ GoOffline(sync.online)
    BY <1>8 DEF StreamFails
  <2> QED BY <1>6, <1>7, <2>1
<1>9. CASE OnlineTimeout
  BY <1>7, <1>9 DEF OnlineTimeout
<1>10. CASE StreamOpens \/ IdleTimeout \/ RestartNetwork \/ (\E d \in Doc : Change(d))
            \/ Answer \/ Push \/ UNCHANGED vars
  <2>1. UNCHANGED <<listeners, tasks, main, shown, view>>
    BY <1>10 DEF StreamOpens, IdleTimeout, RestartNetwork, Change, Answer, Push, vars, appVars
  <2> QED BY <1>6, <2>1
<1> QED BY <1>1, <1>2, <1>3, <1>4, <1>5, <1>8, <1>9, <1>10 DEF Next

\* No call, no event, no task.
LEMMA InitHanding == Init => HandingInv
<1> SUFFICES ASSUME Init PROVE HandingInv
  OBVIOUS
<1>1. listeners = << >> /\ tasks = << >> /\ main = << >>
  BY DEF Init
<1>2. DOMAIN tasks = {} /\ DOMAIN main = {} /\ 1..Len(listeners) = {}
  BY <1>1, PartialNone
<1> QED BY <1>2 DEF HandingInv, Handing, TasksOnce, EventsInOrder, HandedFits, AllCovered

\* What is handed over is right: a call is added once and hears nothing before,
\* an error is the last it hears, a get that was answered is deaf or hears
\* nothing more, and what a listener does not have yet is on its way to it.
THEOREM HandingHolds == Spec => [](ListensInv /\ HandingInv)
<1>1. Init => ListensInv /\ HandingInv
  BY InitFits, InitHanding
<1>2. ListensInv /\ HandingInv /\ [Next]_vars => ListensInv' /\ HandingInv'
  BY NextFits, NextHanding
<1> QED BY <1>1, <1>2, PTL DEF Spec

\* No getDocuments is answered twice and no listener of the comments misses a
\* document that the view shows, however tasks, events and responses are
\* interleaved (AsyncEventListener, Query::GetDocuments, fetchComment).
THEOREM EachHandedOver == Spec => []EventsOnce
<1>1. ListensInv /\ HandingInv => HandedOnce
  <2> SUFFICES ASSUME ListensInv, HandingInv, NEW l \in DOMAIN listeners
               PROVE  listeners[l].handed <= 1
    BY DEF HandedOnce
  <2>1. l \in 1..Len(listeners)
    BY CallsAre
  <2>2. listeners[l].handed = 0 \/ listeners[l].handed = 1
    BY <2>1 DEF HandingInv, Handing, HandedFits
  <2> QED BY <2>2
<1>2. ListensInv /\ HandingInv => NoneMissed
  <2> SUFFICES ASSUME ListensInv, HandingInv, NEW l \in DOMAIN listeners, Hearing(l),
                      listeners[l].phase = "on", NEW d \in Doc, view.docs[d] # 0
               PROVE  Appended(l, d) > 0
    BY DEF NoneMissed
  <2> DEFINE S == {i \in DOMAIN main : main[i].listener = l /\ d \in main[i].added}
  <2>1. /\ l \in 1..Len(listeners) /\ shown[l] \in [Doc -> Nat]
        /\ DOMAIN main = 1..Len(main) /\ Len(main) \in Nat
    BY CallsAre
  <2>2. Covered(shown, main, l, d)
    BY <2>1 DEF HandingInv, Handing, AllCovered, Following, Hearing
  <2>3. shown[l][d] > 0 \/ S # {}
    BY <2>2 DEF Covered
  <2>4. IsFiniteSet(S) /\ Cardinality(S) \in Nat
    <3>1. S \in SUBSET (1..Len(main)) /\ IsFiniteSet(1..Len(main))
      BY <2>1, FS_Interval
    <3> HIDE DEF S
    <3>2. IsFiniteSet(S)
      BY <3>1, FS_Subset
    <3> QED BY <3>2, FS_CardinalityType
  <2>5. S # {} => Cardinality(S) > 0
    BY <2>4, FS_EmptySet
  <2>6. Appended(l, d) = shown[l][d] + Cardinality(S) /\ shown[l][d] \in Nat
    BY <2>1 DEF Appended
  <2> HIDE DEF S
  <2> QED BY <2>3, <2>4, <2>5, <2>6
<1>3. ListensInv /\ HandingInv => EventsOnce
  BY <1>1, <1>2 DEF EventsOnce
<1> QED BY <1>3, HandingHolds, PTL
=============================================================================
