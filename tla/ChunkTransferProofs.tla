-------------------------- MODULE ChunkTransferProofs --------------------------
(***************************************************************************)
(* Theorems about ChunkTransfer with one step in flight, for any requests, *)
(* queue sizes and streams: no request is queued twice or after its end,   *)
(* and every stream is computed in order and, if its request ends by       *)
(* itself, to its end; both threads together implement StreamPlayback.    *)
(***************************************************************************)
EXTENDS ChunkTransfer, FiniteSetTheorems, SequenceTheorems, TLAPS

-----------------------------------------------------------------------------
(* The operators on queues.                                                *)

(* A nonempty set of naturals has a least element.                         *)
LEMMA Smallest ==
    ASSUME NEW T \in SUBSET Nat, T # {}
    PROVE  \E m \in T : \A n \in T : m <= n
  <1> DEFINE F == {1..n : n \in T}
  <1>1. F \subseteq FiniteSubsetsOf(Nat)
    <2>1. \A n \in Nat : IsFiniteSet(1..n)
      BY FS_Interval
    <2> QED
      BY <2>1 DEF FiniteSubsetsOf
  <1>2. F # {}
    OBVIOUS
  <1>3. PICK x \in F : \A y \in F : ~ (<<y, x>> \in StrictSubsetOrdering(Nat))
    <2> HIDE DEF F
    <2> QED
      BY <1>1, <1>2, FS_StrictSubsetOrderingWellFounded, WFMin
  <1>4. PICK m \in T : x = 1..m
    OBVIOUS
  <1>5. ASSUME NEW n \in T, n < m PROVE FALSE
    <2>1. m \in 1..m /\ m \notin 1..n /\ 1..n \subseteq 1..m
      BY <1>5
    <2>2. <<1..n, 1..m>> \in StrictSubsetOrdering(Nat)
      BY <1>5, <2>1 DEF StrictSubsetOrdering
    <2> QED
      BY <2>2, <1>3, <1>4
  <1> QED
    BY <1>5

(* Only is the last value of this function.                                *)
OnlyNext(g, q, S, i) ==
    IF i = 0 THEN <<>> ELSE IF q[i] \in S THEN Append(g[i - 1], q[i]) ELSE g[i - 1]

OnlyUpTo(q, S, n) == CHOOSE g : g = [i \in 0..n |-> OnlyNext(g, q, S, i)]

(* What Only means: the last of the queues kept so far.                    *)
LEMMA OnlyIsLast ==
    ASSUME NEW q, NEW S
    PROVE  Only(q, S) = OnlyUpTo(q, S, Len(q))[Len(q)]
  BY DEF Only, OnlyUpTo, OnlyNext

(* The recursive function satisfies its equation.                          *)
LEMMA OnlyUnfolds ==
    ASSUME NEW q, NEW S, NEW n \in Nat
    PROVE  OnlyUpTo(q, S, n) = [i \in 0..n |-> OnlyNext(OnlyUpTo(q, S, n), q, S, i)]
  <1> DEFINE Body(g, k) == [i \in 0..k |-> OnlyNext(g, q, S, i)]
  <1>1. \A k \in 0..n : \E g : g = Body(g, k)
    <2> DEFINE Bad == {k \in 0..n : ~ \E g : g = Body(g, k)}
    <2> SUFFICES ASSUME Bad # {} PROVE FALSE
      OBVIOUS
    <2>1. Bad \in SUBSET Nat
      <3> HIDE DEF Body
      <3> QED
        OBVIOUS
    <2>2. PICK m \in Bad : \A k \in Bad : m <= k
      <3> HIDE DEF Bad
      <3> QED
        BY <2>1, Smallest
    <2>3. m \in 0..n
      BY <2>2
    <2>4. m # 0
      <3> DEFINE g == [i \in 0..0 |-> <<>>]
      <3>1. g = Body(g, 0)
        BY DEF OnlyNext
      <3> QED
        BY <3>1, <2>2
    <2>5. m - 1 \in 0..n /\ m - 1 \notin Bad /\ m \in Nat
      <3> HIDE DEF Bad
      <3> QED
        BY <2>2, <2>3, <2>4
    <2>6. PICK g : g = Body(g, m - 1)
      BY <2>5
    <2> DEFINE h == [i \in 0..m |-> IF i = m THEN OnlyNext(g, q, S, m) ELSE g[i]]
    <2>7. \A i \in 0..m : h[i] = OnlyNext(h, q, S, i)
      <3> SUFFICES ASSUME NEW i \in 0..m PROVE h[i] = OnlyNext(h, q, S, i)
        OBVIOUS
      <3>1. \A j \in 0..(m - 1) : g[j] = OnlyNext(g, q, S, j)
        BY <2>6
      <3>2. i # 0 => i - 1 \in 0..m /\ h[i - 1] = g[i - 1]
        BY <2>5
      <3>3. OnlyNext(h, q, S, i) = OnlyNext(g, q, S, i)
        <4> HIDE DEF h
        <4> QED
          BY <3>2 DEF OnlyNext
      <3>4. CASE i = m
        BY <3>3, <3>4
      <3>5. CASE i # m
        <4>1. i \in 0..(m - 1) /\ h[i] = g[i]
          BY <3>5, <2>5
        <4> QED
          BY <3>1, <3>3, <4>1
      <3> QED
        BY <3>4, <3>5
    <2>8. h = Body(h, m)
      BY <2>7
    <2> QED
      BY <2>2, <2>8
  <1>2. \E g : g = Body(g, n)
    <2> HIDE DEF Body
    <2> QED
      BY <1>1
  <1> QED
    BY <1>2 DEF OnlyUpTo

(* Elements of a queue with one more at its end.                           *)
LEMMA AppendFacts ==
    ASSUME NEW R, NEW q \in Seq(R), NEW e \in R
    PROVE  /\ Append(q, e) \in Seq(R)
           /\ Elements(Append(q, e)) = Elements(q) \cup {e}
           /\ NoneTwice(q) /\ e \notin Elements(q) => NoneTwice(Append(q, e))
           /\ NoneTwice(Append(q, e)) => NoneTwice(q) /\ e \notin Elements(q)
  <1> DEFINE a == Append(q, e)
  <1>1. /\ a \in Seq(R) /\ Len(a) = Len(q) + 1 /\ DOMAIN a = 1..(Len(q) + 1)
        /\ DOMAIN q = 1..Len(q) /\ Len(q) \in Nat
        /\ a[Len(q) + 1] = e /\ \A i \in 1..Len(q) : a[i] = q[i]
    OBVIOUS
  <1> HIDE DEF a
  <1>2. Elements(a) = Elements(q) \cup {e}
    BY <1>1 DEF Elements
  <1>3. ASSUME NoneTwice(q), e \notin Elements(q) PROVE NoneTwice(a)
    <2> SUFFICES ASSUME NEW i \in DOMAIN a, NEW j \in DOMAIN a, a[i] = a[j] PROVE i = j
      BY DEF NoneTwice
    <2>1. (i \in 1..Len(q) \/ i = Len(q) + 1) /\ (j \in 1..Len(q) \/ j = Len(q) + 1)
      BY <1>1
    <2>2. \A k \in 1..Len(q) : a[k] = q[k] /\ a[k] # e
      BY <1>1, <1>3 DEF Elements
    <2> QED
      BY <1>1, <1>3, <2>1, <2>2 DEF NoneTwice
  <1>4. ASSUME NoneTwice(a) PROVE NoneTwice(q) /\ e \notin Elements(q)
    <2>1. NoneTwice(q)
      BY <1>1, <1>4 DEF NoneTwice
    <2>2. ASSUME NEW i \in 1..Len(q), q[i] = e PROVE FALSE
      <3>1. a[i] = a[Len(q) + 1] /\ i \in DOMAIN a /\ Len(q) + 1 \in DOMAIN a
        BY <1>1, <2>2
      <3>2. i = Len(q) + 1
        BY <3>1, <1>4 DEF NoneTwice
      <3> QED
        BY <3>2, <1>1
    <2> QED
      BY <1>1, <2>1, <2>2 DEF Elements
  <1> QED
    BY <1>1, <1>2, <1>3, <1>4 DEF a

(* What Only keeps: elements of the queue that are in the set, in any case *)
(* all of them, and none twice that the queue does not hold twice.         *)
LEMMA OnlyFacts ==
    ASSUME NEW R, NEW q \in Seq(R), NEW S
    PROVE  /\ Only(q, S) \in Seq(R \cap S)
           /\ Elements(Only(q, S)) = Elements(q) \cap S
           /\ NoneTwice(q) => NoneTwice(Only(q, S))
  <1> DEFINE n == Len(q)
             f == OnlyUpTo(q, S, n)
             Before(i) == {q[j] : j \in 1..i}
             Right(i) == /\ f[i] \in Seq(R \cap S)
                         /\ Elements(f[i]) = Before(i) \cap S
                         /\ NoneTwice(q) => NoneTwice(f[i])
             Bad == {i \in 0..n : ~Right(i)}
  <1>1. n \in Nat /\ DOMAIN q = 1..n /\ \A i \in 1..n : q[i] \in R
    OBVIOUS
  <1>2. \A i \in 0..n : f[i] = OnlyNext(f, q, S, i)
    <2>1. f = [i \in 0..n |-> OnlyNext(f, q, S, i)]
      BY <1>1, OnlyUnfolds
    <2> HIDE DEF f
    <2> QED
      BY <2>1
  <1> HIDE DEF f
  <1>3. Right(0)
    <2>1. f[0] = <<>>
      BY <1>1, <1>2 DEF OnlyNext
    <2> QED
      BY <2>1 DEF Elements, NoneTwice
  <1>4. ASSUME NEW i \in 1..n, Right(i - 1) PROVE Right(i)
    <2>1. f[i] = IF q[i] \in S THEN Append(f[i - 1], q[i]) ELSE f[i - 1]
      BY <1>2 DEF OnlyNext
    <2>2. Before(i) = Before(i - 1) \cup {q[i]}
      <3>1. 1..i = 1..(i - 1) \cup {i}
        OBVIOUS
      <3> QED
        BY <3>1
    <2>3. ASSUME NoneTwice(q) PROVE q[i] \notin Before(i - 1)
      BY <1>1, <2>3 DEF NoneTwice
    <2>4. f[i - 1] \in Seq(R \cap S) /\ Elements(f[i - 1]) = Before(i - 1) \cap S
          /\ (NoneTwice(q) => NoneTwice(f[i - 1]))
      BY <1>4
    <2> HIDE DEF Before, n
    <2>5. CASE q[i] \in S
      <3>1. q[i] \in R \cap S
        BY <1>1, <2>5
      <3>2. f[i] = Append(f[i - 1], q[i])
        BY <2>1, <2>5
      <3> DEFINE g == f[i - 1]
                 e == q[i]
                 T == R \cap S
      <3>3. g \in Seq(T) /\ e \in T
        BY <2>4, <3>1
      <3> HIDE DEF g, e, T
      <3>4. /\ Append(g, e) \in Seq(T)
            /\ Elements(Append(g, e)) = Elements(g) \cup {e}
            /\ NoneTwice(g) /\ e \notin Elements(g) => NoneTwice(Append(g, e))
        BY <3>3, AppendFacts
      <3> QED
        BY <2>2, <2>3, <2>4, <2>5, <3>2, <3>4 DEF g, e, T
    <2>6. CASE q[i] \notin S
      BY <2>1, <2>2, <2>4, <2>6
    <2> QED
      BY <2>5, <2>6
  <1>5. \A i \in 0..n : Right(i)
    <2> SUFFICES ASSUME Bad # {} PROVE FALSE
      OBVIOUS
    <2>1. Bad \in SUBSET Nat
      <3> HIDE DEF Right
      <3> QED
        OBVIOUS
    <2>2. PICK m \in Bad : \A k \in Bad : m <= k
      <3> HIDE DEF Bad
      <3> QED
        BY <2>1, Smallest
    <2> HIDE DEF Right
    <2>3. m \in 0..n /\ ~Right(m) /\ m # 0
      BY <2>2, <1>3
    <2>4. m - 1 \in 0..n /\ m \in 1..n /\ m - 1 < m
      BY <2>3, <1>1
    <2>5. Right(m - 1)
      BY <2>2, <2>4
    <2> QED
      BY <2>3, <2>4, <2>5, <1>4
  <1>6. Right(n) /\ Before(n) = Elements(q)
    <2>1. Right(n)
      <3> HIDE DEF Right
      <3> QED
        BY <1>1, <1>5
    <2> QED
      BY <2>1, <1>1 DEF Elements
  <1>7. Only(q, S) = f[n]
    BY OnlyIsLast DEF f
  <1> QED
    BY <1>6, <1>7

(* The empty queue.                                                        *)
LEMMA EmptyQueue ==
    /\ Elements(<<>>) = {}
    /\ NoneTwice(<<>>)
    /\ \A R : <<>> \in Seq(R)
  BY DEF Elements, NoneTwice

(* The elements of a queue, and the sets of which it is a queue.           *)
LEMMA ElementsFacts ==
    ASSUME NEW R, NEW q \in Seq(R)
    PROVE  /\ Elements(q) \subseteq R
           /\ \A T : Elements(q) \subseteq T => q \in Seq(T)
           /\ q # <<>> => q[Len(q)] \in Elements(q)
           /\ \A r \in Elements(q) : q # <<>>
  <1>1. Elements(q) \subseteq R
    BY DEF Elements
  <1>2. ASSUME NEW T, Elements(q) \subseteq T PROVE q \in Seq(T)
    <2>1. q = [i \in 1..Len(q) |-> q[i]] /\ Len(q) \in Nat /\ DOMAIN q = 1..Len(q)
      OBVIOUS
    <2>2. \A i \in 1..Len(q) : q[i] \in T
      BY <1>2, <2>1 DEF Elements
    <2> QED
      BY <2>1, <2>2, SeqDef
  <1>3. ASSUME q # <<>> PROVE q[Len(q)] \in Elements(q)
    <2>1. Len(q) \in DOMAIN q
      BY <1>3
    <2> QED
      BY <2>1 DEF Elements
  <1>4. ASSUME NEW r \in Elements(q) PROVE q # <<>>
    BY <1>4 DEF Elements
  <1> QED
    BY <1>1, <1>2, <1>3, <1>4

(* One queue after another.                                                *)
LEMMA JoinFacts ==
    ASSUME NEW R, NEW p \in Seq(R), NEW q \in Seq(R)
    PROVE  /\ p \o q \in Seq(R)
           /\ Elements(p \o q) = Elements(p) \cup Elements(q)
           /\ NoneTwice(p \o q) <=>
                 NoneTwice(p) /\ NoneTwice(q) /\ Elements(p) \cap Elements(q) = {}
  <1> DEFINE a == p \o q
             m == Len(p)
             n == Len(q)
  <1>1. /\ a \in Seq(R) /\ m \in Nat /\ n \in Nat
        /\ DOMAIN a = 1..(m + n) /\ DOMAIN p = 1..m /\ DOMAIN q = 1..n
        /\ \A i \in 1..m : a[i] = p[i]
        /\ \A i \in 1..n : a[m + i] = q[i]
    OBVIOUS
  <1> HIDE DEF a, m, n
  <1>2. \A i \in 1..(m + n) : i \in 1..m \/ \E j \in 1..n : i = m + j
    <2> SUFFICES ASSUME NEW i \in 1..(m + n), i \notin 1..m
                 PROVE  \E j \in 1..n : i = m + j
      OBVIOUS
    <2>1. i - m \in 1..n /\ i = m + (i - m)
      BY <1>1
    <2> QED
      BY <2>1
  <1>3. \A i \in 1..n : m + i \in 1..(m + n) /\ m + i \notin 1..m
    BY <1>1
  <1>4. \A i \in 1..m : i \in 1..(m + n)
    BY <1>1
  <1>5. Elements(a) = Elements(p) \cup Elements(q)
    <2>1. ASSUME NEW i \in 1..(m + n) PROVE a[i] \in Elements(p) \cup Elements(q)
      <3>1. CASE i \in 1..m
        BY <1>1, <3>1 DEF Elements
      <3>2. ASSUME NEW j \in 1..n, i = m + j PROVE a[i] \in Elements(q)
        BY <1>1, <3>2 DEF Elements
      <3> QED
        BY <1>2, <3>1, <3>2
    <2>2. ASSUME NEW i \in 1..m PROVE p[i] \in Elements(a)
      BY <1>1, <1>4 DEF Elements
    <2>3. ASSUME NEW i \in 1..n PROVE q[i] \in Elements(a)
      <3>1. m + i \in DOMAIN a /\ a[m + i] = q[i]
        BY <1>1, <1>3
      <3> QED
        BY <3>1 DEF Elements
    <2>4. \A x \in Elements(a) : x \in Elements(p) \cup Elements(q)
      BY <2>1, <1>1 DEF Elements
    <2>5. \A x \in Elements(p) \cup Elements(q) : x \in Elements(a)
      <3>1. \A x \in Elements(p) : \E i \in 1..m : x = p[i]
        BY <1>1 DEF Elements
      <3>2. \A x \in Elements(q) : \E i \in 1..n : x = q[i]
        BY <1>1 DEF Elements
      <3> QED
        BY <2>2, <2>3, <3>1, <3>2
    <2> QED
      BY <2>4, <2>5
  <1>6. ASSUME NoneTwice(a)
        PROVE  NoneTwice(p) /\ NoneTwice(q) /\ Elements(p) \cap Elements(q) = {}
    <2>1. NoneTwice(p)
      BY <1>1, <1>4, <1>6 DEF NoneTwice
    <2>2. ASSUME NEW i \in 1..n, NEW j \in 1..n, q[i] = q[j] PROVE i = j
      <3>1. m + i \in DOMAIN a /\ m + j \in DOMAIN a /\ a[m + i] = a[m + j]
        BY <1>1, <1>3, <2>2
      <3>2. m + i = m + j
        BY <3>1, <1>6 DEF NoneTwice
      <3> QED
        BY <3>2, <1>1
    <2>3. ASSUME NEW i \in 1..m, NEW j \in 1..n, p[i] = q[j] PROVE FALSE
      <3>1. i \in DOMAIN a /\ m + j \in DOMAIN a /\ a[i] = a[m + j]
        BY <1>1, <1>3, <1>4, <2>3
      <3>2. i = m + j
        BY <3>1, <1>6 DEF NoneTwice
      <3> QED
        BY <3>2, <1>3
    <2> QED
      BY <1>1, <2>1, <2>2, <2>3 DEF NoneTwice, Elements
  <1>7. ASSUME NoneTwice(p), NoneTwice(q), Elements(p) \cap Elements(q) = {}
        PROVE  NoneTwice(a)
    <2> SUFFICES ASSUME NEW i \in 1..(m + n), NEW j \in 1..(m + n), a[i] = a[j]
                 PROVE  i = j
      BY <1>1 DEF NoneTwice
    <2>1. \A k \in 1..m : a[k] \in Elements(p)
      BY <1>1 DEF Elements
    <2>2. \A k \in 1..n : a[m + k] \in Elements(q)
      BY <1>1 DEF Elements
    <2>3. CASE i \in 1..m /\ j \in 1..m
      BY <1>1, <1>7, <2>3 DEF NoneTwice
    <2>4. CASE i \in 1..m /\ j \notin 1..m
      BY <1>2, <1>7, <2>1, <2>2, <2>4
    <2>5. CASE i \notin 1..m /\ j \in 1..m
      BY <1>2, <1>7, <2>1, <2>2, <2>5
    <2>6. CASE i \notin 1..m /\ j \notin 1..m
      <3>1. PICK k \in 1..n : i = m + k
        BY <1>2, <2>6
      <3>2. PICK l \in 1..n : j = m + l
        BY <1>2, <2>6
      <3>3. q[k] = q[l]
        BY <1>1, <3>1, <3>2
      <3>4. k = l
        BY <1>1, <1>7, <3>3 DEF NoneTwice
      <3> QED
        BY <3>1, <3>2, <3>4
    <2> QED
      BY <2>3, <2>4, <2>5, <2>6
  <1> QED
    BY <1>1, <1>5, <1>6, <1>7 DEF a

(* A queue cut in two.                                                     *)
LEMMA CutFacts ==
    ASSUME NEW R, NEW q \in Seq(R), NEW n \in 0..Len(q)
    PROVE  /\ First(q, n) \in Seq(R) /\ Rest(q, n) \in Seq(R)
           /\ Elements(q) = Elements(First(q, n)) \cup Elements(Rest(q, n))
           /\ NoneTwice(q) => /\ NoneTwice(First(q, n)) /\ NoneTwice(Rest(q, n))
                              /\ Elements(First(q, n)) \cap Elements(Rest(q, n)) = {}
  <1> DEFINE p == First(q, n)
             s == Rest(q, n)
  <1>1. p \in Seq(R) /\ Len(p) = n /\ \A i \in 1..n : p[i] = q[i]
    BY DEF First
  <1>2. s \in Seq(R) /\ Len(s) = Len(q) - n /\ \A i \in 1..(Len(q) - n) : s[i] = q[n + i]
    BY DEF Rest
  <1>3. p \o s = q
    <2> HIDE DEF p, s
    <2>1. p \o s \in Seq(R) /\ Len(p \o s) = Len(q)
      <3>1. Len(p \o s) = Len(p) + Len(s) /\ p \o s \in Seq(R)
        BY <1>1, <1>2
      <3>2. n + (Len(q) - n) = Len(q)
        OBVIOUS
      <3> QED
        BY <1>1, <1>2, <3>1, <3>2
    <2>2. \A i \in 1..Len(q) : (p \o s)[i] = q[i]
      <3> SUFFICES ASSUME NEW i \in 1..Len(q) PROVE (p \o s)[i] = q[i]
        OBVIOUS
      <3>1. CASE i \in 1..n
        BY <1>1, <1>2, <3>1
      <3>2. CASE i \notin 1..n
        <4>1. i - n \in 1..(Len(q) - n) /\ n + (i - n) = i
          BY <3>2
        <4>2. (p \o s)[i] = s[i - n]
          BY <1>1, <1>2, <3>2, <4>1
        <4> QED
          BY <1>2, <4>1, <4>2
      <3> QED
        BY <3>1, <3>2
    <2> QED
      BY <2>1, <2>2, SeqEqual
  <1>4. p \in Seq(R) /\ s \in Seq(R)
    BY <1>1, <1>2
  <1> HIDE DEF p, s
  <1>5. /\ Elements(p \o s) = Elements(p) \cup Elements(s)
        /\ NoneTwice(p \o s) => /\ NoneTwice(p) /\ NoneTwice(s)
                                /\ Elements(p) \cap Elements(s) = {}
    BY <1>4, JoinFacts
  <1> QED
    BY <1>3, <1>4, <1>5 DEF p, s

(* The first element of a queue and the others.                            *)
LEMMA TailFacts ==
    ASSUME NEW R, NEW q \in Seq(R), q # <<>>
    PROVE  /\ Head(q) \in R /\ Tail(q) \in Seq(R)
           /\ Elements(q) = {Head(q)} \cup Elements(Tail(q))
           /\ NoneTwice(q) => NoneTwice(Tail(q)) /\ Head(q) \notin Elements(Tail(q))
  <1> DEFINE p == <<Head(q)>>
             s == Tail(q)
  <1>1. p \in Seq(R) /\ s \in Seq(R) /\ p \o s = q /\ Head(q) \in R
    OBVIOUS
  <1>2. Elements(p) = {Head(q)}
    BY DEF Elements
  <1> HIDE DEF p, s
  <1>3. /\ Elements(p \o s) = Elements(p) \cup Elements(s)
        /\ NoneTwice(p \o s) => /\ NoneTwice(p) /\ NoneTwice(s)
                                /\ Elements(p) \cap Elements(s) = {}
    <2>1. p \in Seq(R) /\ s \in Seq(R)
      BY <1>1
    <2> QED
      BY <2>1, JoinFacts
  <1> QED
    BY <1>1, <1>2, <1>3 DEF s

-----------------------------------------------------------------------------
(* What schedule() makes of the two queues.                                *)

(* Three queues, one after the other.                                      *)
LEMMA JoinThree ==
    ASSUME NEW R, NEW p \in Seq(R), NEW q \in Seq(R), NEW s \in Seq(R)
    PROVE  /\ p \o q \o s \in Seq(R)
           /\ Elements(p \o q \o s) = Elements(p) \cup Elements(q) \cup Elements(s)
           /\ NoneTwice(p) /\ NoneTwice(q) /\ NoneTwice(s)
              /\ Elements(p) \cap Elements(q) = {} /\ Elements(p) \cap Elements(s) = {}
              /\ Elements(q) \cap Elements(s) = {}
              => NoneTwice(p \o q \o s)
  <1>1. /\ p \o q \in Seq(R)
        /\ Elements(p \o q) = Elements(p) \cup Elements(q)
        /\ NoneTwice(p) /\ NoneTwice(q) /\ Elements(p) \cap Elements(q) = {}
           => NoneTwice(p \o q)
    BY JoinFacts
  <1> DEFINE a == p \o q
  <1>2. a \in Seq(R)
    BY <1>1
  <1> HIDE DEF a
  <1>3. /\ a \o s \in Seq(R)
        /\ Elements(a \o s) = Elements(a) \cup Elements(s)
        /\ NoneTwice(a) /\ NoneTwice(s) /\ Elements(a) \cap Elements(s) = {}
           => NoneTwice(a \o s)
    BY <1>2, JoinFacts
  <1> QED
    BY <1>1, <1>3 DEF a

(* The type invariant as it is with one step in flight.                    *)
TypeInv == Types /\ NoneTwice(Queued)

(* What the two loops of schedule() find: the requests that go on, each in *)
(* one of the two queues.                                                  *)
LEMMA LoopQueues ==
    ASSUME TypeInv
    PROVE  /\ Kept \in Seq(requests) /\ Preempted \in Seq(requests) /\ Offered \in Seq(requests)
           /\ Elements(running) \cap Elements(waiting) = {}
           /\ NoneTwice(running) /\ NoneTwice(waiting)
           /\ NoneTwice(Kept) /\ NoneTwice(Offered)
           /\ Elements(Kept) \cup Elements(Preempted) = Elements(running) \cap Staying
           /\ Elements(Kept) \cap Elements(Preempted) = {}
           /\ Elements(Offered) = Elements(Preempted) \cup (Elements(waiting) \cap Staying)
  <1>1. waiting \in Seq(requests) /\ running \in Seq(requests) /\ NoneTwice(waiting \o running)
    BY DEF TypeInv, Types, Queued
  <1>2. /\ NoneTwice(waiting) /\ NoneTwice(running)
        /\ Elements(waiting) \cap Elements(running) = {}
    BY <1>1, JoinFacts
  <1> DEFINE on == GoingOn
             n == Least(MaxRunning, Len(GoingOn))
             w == Only(waiting, Staying)
  <1>3. /\ on \in Seq(requests \cap Staying)
        /\ Elements(on) = Elements(running) \cap Staying
        /\ NoneTwice(on)
    BY <1>1, <1>2, OnlyFacts DEF GoingOn
  <1>4. /\ w \in Seq(requests \cap Staying)
        /\ Elements(w) = Elements(waiting) \cap Staying
        /\ NoneTwice(w)
    BY <1>1, <1>2, OnlyFacts
  <1>5. on \in Seq(requests) /\ w \in Seq(requests)
    <2>1. Elements(on) \subseteq requests /\ Elements(w) \subseteq requests
      BY <1>1, <1>3, <1>4, ElementsFacts
    <2> QED
      BY <2>1, <1>3, <1>4, ElementsFacts
  <1>6. n \in 0..Len(on)
    <2>1. Len(GoingOn) \in Nat
      BY <1>5
    <2> QED
      BY <2>1, ChunkAssumption DEF Least
  <1>7. Kept = First(on, n) /\ Preempted = Rest(on, n)
    BY DEF Kept, Preempted
  <1> HIDE DEF on, n
  <1>8. /\ First(on, n) \in Seq(requests) /\ Rest(on, n) \in Seq(requests)
        /\ Elements(on) = Elements(First(on, n)) \cup Elements(Rest(on, n))
        /\ NoneTwice(First(on, n)) /\ NoneTwice(Rest(on, n))
        /\ Elements(First(on, n)) \cap Elements(Rest(on, n)) = {}
    BY <1>3, <1>5, <1>6, CutFacts
  <1>9. Offered = Preempted \o w
    BY DEF Offered
  <1> HIDE DEF w
  <1>10. /\ Preempted \o w \in Seq(requests)
         /\ Elements(Preempted \o w) = Elements(Preempted) \cup Elements(w)
         /\ NoneTwice(Preempted) /\ NoneTwice(w) /\ Elements(Preempted) \cap Elements(w) = {}
            => NoneTwice(Preempted \o w)
    BY <1>5, <1>7, <1>8, JoinFacts
  <1> QED
    BY <1>2, <1>3, <1>4, <1>7, <1>8, <1>9, <1>10

(* How schedule() divides the requests of the two queues.                  *)
LEMMA LoopParts ==
    ASSUME TypeInv,
           NEW kept, kept = Kept, NEW offered, offered = Offered,
           NEW reached \in 0..Len(kept), NEW tried \in 0..Len(offered)
    PROVE  /\ Granted(kept, reached) \in Seq(requests)
           /\ Spent(kept, reached) \in Seq(requests)
           /\ Admitted(offered, tried) \in Seq(requests)
           /\ Skipped(offered, tried) \in Seq(requests)
           /\ Rest(offered, tried) \in Seq(requests)
           /\ NoneTwice(Granted(kept, reached)) /\ NoneTwice(Spent(kept, reached))
           /\ NoneTwice(Admitted(offered, tried)) /\ NoneTwice(Skipped(offered, tried))
           /\ NoneTwice(Rest(offered, tried))
           /\ Elements(Granted(kept, reached)) \subseteq {r \in Elements(kept) : Remaining(r) > 0}
           /\ Elements(Spent(kept, reached)) \subseteq
                 {r \in Elements(kept) : ~(Remaining(r) > 0) /\ DoneReceiving(r)}
           /\ Elements(Admitted(offered, tried)) \cup Elements(Skipped(offered, tried))
                 \cup Elements(Rest(offered, tried)) = Elements(offered)
           /\ (Elements(Admitted(offered, tried)) \cup Elements(Skipped(offered, tried)))
                 \cap Elements(Rest(offered, tried)) = {}
           /\ \A r \in Elements(Admitted(offered, tried)) : HasInput(r)
           /\ \A r \in Elements(Skipped(offered, tried)) : ~HasInput(r)
  <1>1. kept \in Seq(requests) /\ offered \in Seq(requests) /\ NoneTwice(kept) /\ NoneTwice(offered)
    BY LoopQueues
  <1> DEFINE f == First(kept, reached)
             g == First(offered, tried)
             h == Rest(offered, tried)
  <1>2. /\ f \in Seq(requests) /\ NoneTwice(f) /\ Elements(f) \subseteq Elements(kept)
    BY <1>1, CutFacts
  <1>3. /\ g \in Seq(requests) /\ h \in Seq(requests)
        /\ Elements(offered) = Elements(g) \cup Elements(h)
        /\ NoneTwice(g) /\ NoneTwice(h) /\ Elements(g) \cap Elements(h) = {}
    BY <1>1, CutFacts
  <1> HIDE DEF f, g, h
  <1>4. requests \subseteq Requests
    BY DEF TypeInv, Types
  <1>5. \A r \in Elements(f) \cup Elements(g) : r \in Requests
    BY <1>2, <1>3, <1>4, ElementsFacts
  <1>6. \A S : S \in SUBSET requests => Seq(S) \subseteq Seq(requests)
    OBVIOUS
  <1> DEFINE A == {r \in Requests : Remaining(r) > 0}
             B == {r \in Requests : Remaining(r) <= 0 /\ DoneReceiving(r)}
             C == {r \in Requests : HasInput(r)}
             D == {r \in Requests : ~HasInput(r)}
  <1>7. /\ \A r \in A : Remaining(r) > 0
        /\ \A r \in C : HasInput(r)
        /\ \A r \in D : ~HasInput(r)
        /\ \A r \in Requests : r \in C \/ r \in D
    OBVIOUS
  <1>8. \A r \in B : ~(Remaining(r) > 0) /\ DoneReceiving(r)
    <2> SUFFICES ASSUME NEW r \in B PROVE ~(Remaining(r) > 0)
      OBVIOUS
    <2>1. Remaining(r) \in Int
      BY DEF TypeInv, Types, Remaining
    <2> QED
      BY <2>1
  <1>9. /\ Granted(kept, reached) = Only(f, A) /\ Spent(kept, reached) = Only(f, B)
        /\ Admitted(offered, tried) = Only(g, C) /\ Skipped(offered, tried) = Only(g, D)
    BY DEF Granted, Spent, Admitted, Skipped, f, g
  <1> HIDE DEF A, B, C, D
  <1>10. /\ Only(f, A) \in Seq(requests \cap A) /\ Elements(Only(f, A)) = Elements(f) \cap A
         /\ NoneTwice(Only(f, A))
    BY <1>2, OnlyFacts
  <1>11. /\ Only(f, B) \in Seq(requests \cap B) /\ Elements(Only(f, B)) = Elements(f) \cap B
         /\ NoneTwice(Only(f, B))
    BY <1>2, OnlyFacts
  <1>12. /\ Only(g, C) \in Seq(requests \cap C) /\ Elements(Only(g, C)) = Elements(g) \cap C
         /\ NoneTwice(Only(g, C))
    BY <1>3, OnlyFacts
  <1>13. /\ Only(g, D) \in Seq(requests \cap D) /\ Elements(Only(g, D)) = Elements(g) \cap D
         /\ NoneTwice(Only(g, D))
    BY <1>3, OnlyFacts
  <1>14. Elements(Only(g, C)) \cup Elements(Only(g, D)) = Elements(g)
    BY <1>5, <1>7, <1>12, <1>13
  <1>15. /\ Only(f, A) \in Seq(requests) /\ Only(f, B) \in Seq(requests)
         /\ Only(g, C) \in Seq(requests) /\ Only(g, D) \in Seq(requests)
    BY <1>6, <1>10, <1>11, <1>12, <1>13
  <1> QED
    BY <1>2, <1>3, <1>7, <1>8, <1>9, <1>10, <1>11, <1>12, <1>13, <1>14, <1>15 DEF h

(* The step, the requests that end without one, and the next two queues.   *)
StepOf(kept, offered, reached, tried) == Granted(kept, reached) \o Admitted(offered, tried)
EndedOf(kept, offered, reached, tried) ==
    Spent(kept, reached) \o Only(Skipped(offered, tried), Receivers)
RunningOf(kept, offered, tried) == kept \o Admitted(offered, tried) \o Only(running, ParkedNow)
WaitingOf(offered, tried) ==
    Without(Skipped(offered, tried), Receivers) \o Rest(offered, tried)
        \o Only(waiting, ParkedNow)

(* What schedule() makes of the two queues: every request of them is once  *)
(* in the next ones or is collected, and those of the step are running.    *)
QueuesDivided(step, ended, run, wait, granted) ==
    /\ step \in Seq(requests) /\ ended \in Seq(requests)
    /\ run \in Seq(requests) /\ wait \in Seq(requests)
    /\ NoneTwice(wait \o run) /\ NoneTwice(step) /\ NoneTwice(ended)
    /\ Elements(step) \subseteq Elements(run)
    /\ Elements(step) \subseteq QueuedNow \cap Staying
    /\ Elements(ended) \subseteq QueuedNow \cap Staying
    /\ Elements(ended) \cap Elements(wait) = {}
    /\ Elements(ended) \cap Elements(step) = {}
    /\ \A r \in Elements(ended) : DoneReceiving(r) /\ (~(Remaining(r) > 0) \/ ~HasInput(r))
    /\ \A r \in Elements(step) :
          IF r \in Elements(granted) THEN Remaining(r) > 0 ELSE HasInput(r)

(* schedule() divides the two queues.                                      *)
LEMMA QueuesAreDivided ==
    ASSUME TypeInv,
           NEW kept, kept = Kept, NEW offered, offered = Offered,
           NEW reached \in 0..Len(kept), NEW tried \in 0..Len(offered)
    PROVE  QueuesDivided(StepOf(kept, offered, reached, tried),
                         EndedOf(kept, offered, reached, tried),
                         RunningOf(kept, offered, tried), WaitingOf(offered, tried),
                         Granted(kept, reached))
  <1> DEFINE step == StepOf(kept, offered, reached, tried)
             collected == EndedOf(kept, offered, reached, tried)
             run == RunningOf(kept, offered, tried)
             wait == WaitingOf(offered, tried)
             gr == Granted(kept, reached)
             ad == Admitted(offered, tried)
             sp == Spent(kept, reached)
             sk == Skipped(offered, tried)
             re == Rest(offered, tried)
             rp == Only(running, ParkedNow)
             wp == Only(waiting, ParkedNow)
             sd == Only(sk, Receivers)
             sn == Without(sk, Receivers)
             K == Elements(kept)
             P == Elements(Preempted)
             W == Elements(waiting)
             N == Elements(running)
  <1>1. /\ kept \in Seq(requests) /\ NoneTwice(kept)
        /\ N \cap W = {} /\ NoneTwice(running) /\ NoneTwice(waiting)
        /\ K \cup P = N \cap Staying /\ K \cap P = {}
        /\ Elements(offered) = P \cup (W \cap Staying)
    BY LoopQueues
  <1>2. /\ gr \in Seq(requests) /\ ad \in Seq(requests) /\ sp \in Seq(requests)
        /\ sk \in Seq(requests) /\ re \in Seq(requests)
        /\ NoneTwice(gr) /\ NoneTwice(ad) /\ NoneTwice(sp) /\ NoneTwice(sk) /\ NoneTwice(re)
        /\ Elements(gr) \subseteq {r \in K : Remaining(r) > 0}
        /\ Elements(sp) \subseteq {r \in K : ~(Remaining(r) > 0) /\ DoneReceiving(r)}
        /\ Elements(ad) \cup Elements(sk) \cup Elements(re) = Elements(offered)
        /\ (Elements(ad) \cup Elements(sk)) \cap Elements(re) = {}
        /\ \A r \in Elements(ad) : HasInput(r)
        /\ \A r \in Elements(sk) : ~HasInput(r)
    BY LoopParts
  <1>3. /\ waiting \in Seq(requests) /\ running \in Seq(requests) /\ requests \subseteq Requests
    BY DEF TypeInv, Types
  <1>4. /\ rp \in Seq(requests \cap ParkedNow) /\ Elements(rp) = N \cap ParkedNow /\ NoneTwice(rp)
    <2>1. running \in Seq(requests) /\ NoneTwice(running)
      BY <1>1, <1>3
    <2> QED
      BY <2>1, OnlyFacts
  <1>5. /\ wp \in Seq(requests \cap ParkedNow) /\ Elements(wp) = W \cap ParkedNow /\ NoneTwice(wp)
    <2>1. waiting \in Seq(requests) /\ NoneTwice(waiting)
      BY <1>1, <1>3
    <2> QED
      BY <2>1, OnlyFacts
  <1> HIDE DEF sk
  <1>6. /\ sd \in Seq(requests \cap Receivers) /\ Elements(sd) = Elements(sk) \cap Receivers
        /\ NoneTwice(sd)
    <2>1. sk \in Seq(requests) /\ NoneTwice(sk)
      BY <1>2 DEF sk
    <2> QED
      BY <2>1, OnlyFacts
  <1>7. /\ sn \in Seq(requests \cap (Requests \ Receivers)) /\ NoneTwice(sn)
        /\ Elements(sn) = Elements(sk) \cap (Requests \ Receivers)
    <2>1. sk \in Seq(requests) /\ NoneTwice(sk)
      BY <1>2 DEF sk
    <2> QED
      BY <2>1, OnlyFacts DEF Without
  <1>8. \A S : S \in SUBSET requests => Seq(S) \subseteq Seq(requests)
    OBVIOUS
  <1> HIDE DEF gr, ad, sp, re, rp, wp, sd, sn, K, P, W, N
  <1>9. /\ rp \in Seq(requests) /\ wp \in Seq(requests) /\ sd \in Seq(requests)
        /\ sn \in Seq(requests)
    BY <1>4, <1>5, <1>6, <1>7, <1>8
  <1>10. K \subseteq requests /\ W \subseteq requests /\ N \subseteq requests
    BY <1>1, <1>3, ElementsFacts DEF K, W, N
  <1>11. ParkedNow \cap Staying = {} /\ QueuedNow = W \cup N
    BY DEF ParkedNow, Staying, Stays, QueuedNow, W, N
  <1>12. \A r \in Receivers : DoneReceiving(r)
    BY DEF Receivers
  <1>13. /\ K \subseteq N \cap Staying /\ Elements(offered) \cap K = {}
         /\ Elements(offered) \subseteq QueuedNow \cap Staying
    BY <1>1, <1>11
  <1>14. /\ Elements(ad) \subseteq Elements(offered) /\ Elements(sk) \subseteq Elements(offered)
         /\ Elements(re) \subseteq Elements(offered)
    BY <1>2
  <1>15. /\ step = gr \o ad /\ collected = sp \o sd
         /\ run = kept \o ad \o rp /\ wait = sn \o re \o wp
    BY DEF gr, ad, sp, sd, sn, rp, wp, sk, re, StepOf, EndedOf, RunningOf, WaitingOf
  <1> HIDE DEF step, collected, run, wait
  <1>16. Elements(ad) \cap Elements(sk) = {}
    BY <1>2
  <1>17. /\ step \in Seq(requests) /\ Elements(step) = Elements(gr) \cup Elements(ad)
         /\ NoneTwice(step)
    <2>1. Elements(gr) \cap Elements(ad) = {}
      BY <1>2, <1>13, <1>14
    <2> QED
      BY <1>2, <1>15, <2>1, JoinFacts
  <1>18. /\ collected \in Seq(requests) /\ Elements(collected) = Elements(sp) \cup Elements(sd)
         /\ NoneTwice(collected)
    <2>1. Elements(sp) \cap Elements(sd) = {}
      BY <1>2, <1>6, <1>13, <1>14
    <2> QED
      BY <1>2, <1>6, <1>9, <1>15, <2>1, JoinFacts
  <1>19. /\ run \in Seq(requests) /\ NoneTwice(run)
         /\ Elements(run) = K \cup Elements(ad) \cup Elements(rp)
    <2>1. /\ K \cap Elements(ad) = {} /\ K \cap Elements(rp) = {}
          /\ Elements(ad) \cap Elements(rp) = {}
      BY <1>4, <1>11, <1>13, <1>14
    <2>2. Elements(kept) = K
      BY DEF K
    <2>3. /\ kept \in Seq(requests) /\ ad \in Seq(requests) /\ rp \in Seq(requests)
          /\ NoneTwice(kept) /\ NoneTwice(ad) /\ NoneTwice(rp)
          /\ Elements(kept) \cap Elements(ad) = {} /\ Elements(kept) \cap Elements(rp) = {}
      BY <1>1, <1>2, <1>4, <1>9, <2>1, <2>2
    <2>4. /\ kept \o ad \o rp \in Seq(requests)
          /\ Elements(kept \o ad \o rp) = Elements(kept) \cup Elements(ad) \cup Elements(rp)
          /\ NoneTwice(kept \o ad \o rp)
      BY <2>1, <2>3, JoinThree
    <2> QED
      BY <1>15, <2>2, <2>4
  <1>20. /\ wait \in Seq(requests) /\ NoneTwice(wait)
         /\ Elements(wait) = Elements(sn) \cup Elements(re) \cup Elements(wp)
    <2>1. /\ Elements(sn) \cap Elements(re) = {} /\ Elements(sn) \cap Elements(wp) = {}
          /\ Elements(re) \cap Elements(wp) = {}
      BY <1>2, <1>5, <1>7, <1>11, <1>13, <1>14
    <2>2. /\ sn \in Seq(requests) /\ re \in Seq(requests) /\ wp \in Seq(requests)
          /\ NoneTwice(sn) /\ NoneTwice(re) /\ NoneTwice(wp)
      BY <1>2, <1>5, <1>7, <1>9
    <2>3. /\ sn \o re \o wp \in Seq(requests)
          /\ Elements(sn \o re \o wp) = Elements(sn) \cup Elements(re) \cup Elements(wp)
          /\ NoneTwice(sn \o re \o wp)
      BY <2>1, <2>2, JoinThree
    <2> QED
      BY <1>15, <2>3
  <1>21. NoneTwice(wait \o run)
    <2>1. Elements(rp) \cap Elements(wp) = {}
      BY <1>1, <1>4, <1>5
    <2>2. \A r \in Elements(wait) : r \notin Elements(run)
      BY <1>2, <1>4, <1>5, <1>7, <1>11, <1>13, <1>14, <1>16, <1>19, <1>20, <2>1
    <2>3. /\ wait \in Seq(requests) /\ run \in Seq(requests) /\ NoneTwice(wait) /\ NoneTwice(run)
          /\ Elements(wait) \cap Elements(run) = {}
      BY <1>19, <1>20, <2>2
    <2> QED
      BY <2>3, JoinFacts
  <1>22. /\ Elements(step) \subseteq Elements(run)
         /\ Elements(step) \subseteq QueuedNow \cap Staying
         /\ Elements(collected) \subseteq QueuedNow \cap Staying
    BY <1>2, <1>6, <1>11, <1>13, <1>14, <1>17, <1>18, <1>19
  <1>23. \A r \in Elements(collected) : r \notin Elements(wait)
    <2>1. \A r \in Elements(sp) : r \notin Elements(wait)
      BY <1>2, <1>5, <1>7, <1>11, <1>13, <1>14, <1>20
    <2>2. \A r \in Elements(sd) : r \notin Elements(wait)
      BY <1>2, <1>5, <1>6, <1>7, <1>11, <1>13, <1>14, <1>20
    <2> QED
      BY <1>18, <2>1, <2>2
  <1>24. \A r \in Elements(collected) : r \notin Elements(step)
    BY <1>2, <1>6, <1>13, <1>14, <1>16, <1>17, <1>18
  <1>25. \A r \in Elements(collected) :
            DoneReceiving(r) /\ (~(Remaining(r) > 0) \/ ~HasInput(r))
    BY <1>2, <1>6, <1>12, <1>18
  <1>26. \A r \in Elements(step) :
            IF r \in Elements(gr) THEN Remaining(r) > 0 ELSE HasInput(r)
    BY <1>2, <1>17
  <1> QED
    BY <1>17, <1>18, <1>19, <1>20, <1>21, <1>22, <1>23, <1>24, <1>25, <1>26
    DEF QueuesDivided, gr, step, collected, run, wait

-----------------------------------------------------------------------------
(* What the queues need, and the steps around the scheduler.               *)

(* The requests of the step in flight, if there is one.                    *)
Flying == IF flight = <<>> THEN <<>> ELSE Head(flight)

(* What the queues need beyond their types, with one step in flight: the   *)
(* step's live requests are running, those that are to be finished are in  *)
(* neither the step nor the waiting queue, and both are of requests that   *)
(* have arrived.                                                           *)
StepInv ==
    /\ flight = <<>> => pendingFinish = <<>>
    /\ NoneTwice(Flying) /\ NoneTwice(pendingFinish)
    /\ Elements(Flying) \cap requests \subseteq Elements(running)
    /\ Elements(pendingFinish) \cap Elements(waiting) = {}
    /\ Elements(Flying) \cap Elements(pendingFinish) = {}
    /\ \A r \in Requests : status[r] = "NEW" =>
          r \notin requests \cup Elements(Flying) \cup Elements(pendingFinish)

QueueInv == TypeInv /\ StepInv

(* What the steps of the sender and of the receive thread leave alone.     *)
queues == <<waiting, running, requests, pendingFinish, flight, status>>

(* They are no part of what the queues need.                               *)
LEMMA StepInvKept ==
    ASSUME StepInv, UNCHANGED queues
    PROVE  StepInv'
  BY DEF StepInv, queues, Flying

(* The invariant holds at the start.                                       *)
LEMMA InitQueueInv ==
    ASSUME Init
    PROVE  QueueInv
  <1>1. /\ waiting = <<>> /\ running = <<>> /\ pendingFinish = <<>> /\ pendingLoad = <<>>
        /\ flight = <<>> /\ requests = {}
    BY DEF Init
  <1>2. NoneTwice(Queued)
    BY <1>1 DEF NoneTwice, Queued
  <1>3. TypeInv
    <2>1. sent \in [Requests -> Seq(Chunks)] /\ \A r \in Requests : Len(sent[r]) <= MaxChunks
      BY ChunkAssumption DEF Init
    <2>2. {taken, got} \subseteq [Requests -> Nat]
      BY DEF Init
    <2>3. poll \in [request : Requests \cup {NoRequest}, step : {"mark", "fill"}]
      BY DEF Init, Idle
    <2>4. /\ finishedLoad \subseteq Requests /\ cancelled \subseteq Requests
          /\ done \subseteq Requests /\ segmented \subseteq Requests
          /\ ready \subseteq Requests /\ resumable \subseteq Requests
          /\ requests \subseteq Requests /\ spoiled \subseteq Requests
      BY ChunkAssumption DEF Init
    <2>5. /\ waiting \in Seq(requests) /\ running \in Seq(requests)
          /\ pendingLoad \in Seq(Requests) /\ pendingFinish \in Seq(Requests)
          /\ flight \in Seq(Seq(Requests))
      BY <1>1
    <2>6. Len(flight) <= Depth
      BY <1>1, ChunkAssumption
    <2>7. origin \in [Requests -> {"WAITING", "RUNNING", NoStatus}]
      BY DEF Init
    <2>8. input \in [Requests -> [chunk : Nat, len : 0..ChunkTokens, computed : Nat]]
      BY ChunkAssumption DEF Init
    <2>9. status \in [Requests -> Statuses]
      BY DEF Init, Statuses
    <2> QED
      BY <1>2, <2>1, <2>2, <2>3, <2>4, <2>5, <2>6, <2>7, <2>8, <2>9 DEF TypeInv, Types
  <1>4. StepInv
    BY <1>1, EmptyQueue DEF StepInv, Flying
  <1> QED
    BY <1>3, <1>4 DEF QueueInv

(* A chunk that is put is a chunk.                                         *)
LEMMA SendQueueInv ==
    ASSUME QueueInv, NEW r \in Requests, Send(r)
    PROVE  QueueInv'
  <1>1. UNCHANGED <<threadVars, pendingLoad, finishedLoad, cancelled, streamVars, ready,
                    origin, queues, played, spoiled>>
    BY DEF Send, queues, queueVars
  <1>2. sent' \in [Requests -> Seq(Chunks)] /\ \A q \in Requests : Len(sent'[q]) <= MaxChunks
    <2>1. PICK c \in Chunks : sent' = [sent EXCEPT ![r] = Append(@, c)]
      BY DEF Send
    <2>2. Len(sent[r]) < MaxChunks
      BY DEF Send
    <2>3. sent \in [Requests -> Seq(Chunks)] /\ \A q \in Requests : Len(sent[q]) <= MaxChunks
      BY DEF QueueInv, TypeInv, Types
    <2>4. MaxChunks \in Nat
      BY ChunkAssumption
    <2>5. sent' \in [Requests -> Seq(Chunks)]
      BY <2>1, <2>3
    <2>6. ASSUME NEW q \in Requests PROVE Len(sent'[q]) <= MaxChunks
      <3>1. sent'[q] = sent[q] \/ (q = r /\ sent'[q] = Append(sent[q], c))
        BY <2>1, <2>3
      <3> QED
        BY <2>2, <2>3, <2>4, <3>1
    <2> QED
      BY <2>5, <2>6
  <1>3. TypeInv'
    BY <1>1, <1>2 DEF QueueInv, TypeInv, Types, threadVars, streamVars, queues, Queued
  <1> QED
    BY <1>1, <1>3, StepInvKept DEF QueueInv

(* A poll takes the first request that waits for one.                      *)
LEMMA TakeQueueInv ==
    ASSUME QueueInv, Take
    PROVE  QueueInv'
  <1>1. UNCHANGED <<sent, got, finishedLoad, streamVars, ready, origin, queues, played, spoiled>>
    BY DEF Take, queues, queueVars
  <1>2. pendingLoad # <<>> /\ pendingLoad \in Seq(Requests) /\ taken \in [Requests -> Nat]
        /\ got \in [Requests -> Nat] /\ cancelled \subseteq Requests
    BY DEF QueueInv, TypeInv, Types, Take
  <1>3. Head(pendingLoad) \in Requests /\ Tail(pendingLoad) \in Seq(Requests)
    BY <1>2
  <1>4. /\ pendingLoad' \in Seq(Requests) /\ taken' \in [Requests -> Nat]
        /\ cancelled' \subseteq Requests
        /\ poll' \in [request : Requests \cup {NoRequest}, step : {"mark", "fill"}]
    <2>1. CASE Head(pendingLoad) \in cancelled
      BY <1>2, <1>3, <2>1 DEF Take, QueueInv, TypeInv, Types
    <2>2. CASE Head(pendingLoad) \notin cancelled /\ Readable(Head(pendingLoad))
      <3>1. /\ taken' = [taken EXCEPT ![Head(pendingLoad)] = got[Head(pendingLoad)] + 1]
            /\ pendingLoad' = Tail(pendingLoad) /\ cancelled' = cancelled
            /\ poll' = [request |-> Head(pendingLoad), step |-> "mark"]
        BY <2>2 DEF Take
      <3>2. taken' \in [Requests -> Nat]
        BY <1>2, <1>3, <3>1
      <3>3. poll' \in [request : Requests \cup {NoRequest}, step : {"mark", "fill"}]
        BY <1>3, <3>1
      <3> QED
        BY <1>2, <1>3, <3>1, <3>2, <3>3
    <2>3. CASE Head(pendingLoad) \notin cancelled /\ ~Readable(Head(pendingLoad))
      <3>1. /\ pendingLoad' = Append(Tail(pendingLoad), Head(pendingLoad))
            /\ UNCHANGED <<taken, cancelled, poll>>
        BY <2>3 DEF Take
      <3>2. pendingLoad' \in Seq(Requests)
        BY <1>3, <3>1
      <3> QED
        BY <1>2, <3>1, <3>2 DEF QueueInv, TypeInv, Types
    <2> QED
      BY <2>1, <2>2, <2>3
  <1>5. TypeInv'
    <2>1. /\ waiting' \in Seq(requests') /\ running' \in Seq(requests') /\ NoneTwice(Queued')
          /\ pendingFinish' \in Seq(Requests) /\ flight' \in Seq(Seq(Requests))
          /\ Len(flight') <= Depth /\ status' \in [Requests -> Statuses]
          /\ requests' \subseteq Requests /\ spoiled' \subseteq Requests
      BY <1>1 DEF QueueInv, TypeInv, Types, queues, Queued
    <2>2. /\ sent' = sent /\ got' = got /\ origin' = origin /\ input' = input
          /\ UNCHANGED <<finishedLoad, done, segmented, ready, resumable>>
      BY <1>1 DEF streamVars
    <2> QED
      BY <1>4, <2>1, <2>2 DEF QueueInv, TypeInv, Types
  <1> QED
    BY <1>1, <1>5, StepInvKept DEF QueueInv

(* The chunk is counted and marked.                                        *)
LEMMA MarkQueueInv ==
    ASSUME QueueInv, Mark
    PROVE  QueueInv'
  <1>1. UNCHANGED <<sent, taken, pendingLoad, finishedLoad, cancelled, input, ready, origin,
                    queues, played, spoiled>>
    BY DEF Mark, queues, queueVars
  <1>2. /\ got' \in [Requests -> Nat]
        /\ done' \subseteq Requests /\ resumable' \subseteq Requests
        /\ segmented' \subseteq Requests
        /\ poll' \in [request : Requests \cup {NoRequest}, step : {"mark", "fill"}]
    <2>1. /\ got \in [Requests -> Nat] /\ poll.request \in Requests
          /\ done \subseteq Requests /\ resumable \subseteq Requests /\ segmented \subseteq Requests
          /\ poll \in [request : Requests \cup {NoRequest}, step : {"mark", "fill"}]
      BY DEF Mark, QueueInv, TypeInv, Types
    <2>2. got' = [got EXCEPT ![poll.request] = @ + 1] /\ poll' = [poll EXCEPT !.step = "fill"]
      BY DEF Mark
    <2>3. /\ done' \subseteq Requests /\ resumable' \subseteq Requests
          /\ segmented' \subseteq Requests
      BY <2>1 DEF Mark
    <2>4. got' \in [Requests -> Nat]
      BY <2>1, <2>2
    <2>5. poll' \in [request : Requests \cup {NoRequest}, step : {"mark", "fill"}]
      BY <2>1, <2>2
    <2> QED
      BY <2>3, <2>4, <2>5
  <1>3. TypeInv'
    <2>1. /\ waiting' \in Seq(requests') /\ running' \in Seq(requests') /\ NoneTwice(Queued')
          /\ pendingFinish' \in Seq(Requests) /\ flight' \in Seq(Seq(Requests))
          /\ Len(flight') <= Depth /\ status' \in [Requests -> Statuses]
          /\ requests' \subseteq Requests /\ spoiled' \subseteq Requests
      BY <1>1 DEF QueueInv, TypeInv, Types, queues, Queued
    <2>2. UNCHANGED <<sent, taken, pendingLoad, finishedLoad, cancelled, input, ready, origin>>
      BY <1>1
    <2> QED
      BY <1>2, <2>1, <2>2 DEF QueueInv, TypeInv, Types
  <1> QED
    BY <1>1, <1>3, StepInvKept DEF QueueInv

(* The chunk becomes the input.                                            *)
LEMMA FillQueueInv ==
    ASSUME QueueInv, Fill
    PROVE  QueueInv'
  <1>1. UNCHANGED <<sent, taken, got, cancelled, done, segmented, resumable, ready, origin,
                    queues, played, spoiled>>
    BY DEF Fill, queues, queueVars
  <1>2. poll.request \in Requests /\ pendingLoad \in Seq(Requests)
        /\ finishedLoad \subseteq Requests
        /\ taken \in [Requests -> Nat]
        /\ input \in [Requests -> [chunk : Nat, len : 0..ChunkTokens, computed : Nat]]
    BY DEF Fill, QueueInv, TypeInv, Types
  <1>3. \A c : Length(c) \in 0..ChunkTokens
    BY ChunkAssumption DEF Length
  <1>4. input' \in [Requests -> [chunk : Nat, len : 0..ChunkTokens, computed : Nat]]
    BY <1>2, <1>3 DEF Fill
  <1>5. /\ pendingLoad' \in Seq(Requests) /\ finishedLoad' \subseteq Requests
        /\ poll' \in [request : Requests \cup {NoRequest}, step : {"mark", "fill"}]
    <2>1. \/ pendingLoad' = Append(pendingLoad, poll.request) /\ finishedLoad' = finishedLoad
          \/ finishedLoad' = finishedLoad \cup {poll.request} /\ pendingLoad' = pendingLoad
      BY DEF Fill
    <2>2. pendingLoad' \in Seq(Requests) /\ finishedLoad' \subseteq Requests
      <3>1. PICK r \in Requests : r = poll.request
        BY <1>2
      <3>2. Append(pendingLoad, r) \in Seq(Requests)
        BY <1>2
      <3> QED
        BY <1>2, <2>1, <3>1, <3>2
    <2>3. poll' = [request |-> NoRequest, step |-> "mark"]
      BY DEF Fill, Idle
    <2>4. poll' \in [request : Requests \cup {NoRequest}, step : {"mark", "fill"}]
      BY <2>3
    <2> QED
      BY <2>2, <2>4
  <1>6. TypeInv'
    <2>1. /\ finishedLoad' \subseteq Requests /\ cancelled' \subseteq Requests
          /\ done' \subseteq Requests /\ segmented' \subseteq Requests
          /\ ready' \subseteq Requests /\ resumable' \subseteq Requests
          /\ requests' \subseteq Requests /\ spoiled' \subseteq Requests
      BY <1>1, <1>5 DEF QueueInv, TypeInv, Types, queues
    <2>2. /\ waiting' \in Seq(requests') /\ running' \in Seq(requests') /\ NoneTwice(Queued')
          /\ pendingFinish' \in Seq(Requests) /\ flight' \in Seq(Seq(Requests))
          /\ Len(flight') <= Depth /\ status' \in [Requests -> Statuses]
      BY <1>1 DEF QueueInv, TypeInv, Types, queues, Queued
    <2>3. /\ sent' \in [Requests -> Seq(Chunks)] /\ \A r \in Requests : Len(sent'[r]) <= MaxChunks
          /\ {taken', got'} \subseteq [Requests -> Nat]
          /\ origin' \in [Requests -> {"WAITING", "RUNNING", NoStatus}]
      BY <1>1 DEF QueueInv, TypeInv, Types
    <2> QED
      BY <1>4, <1>5, <2>1, <2>2, <2>3 DEF TypeInv, Types
  <1> QED
    BY <1>1, <1>6, StepInvKept DEF QueueInv

(* What the two queues are together.                                       *)
LEMMA QueuesApart ==
    ASSUME TypeInv
    PROVE  /\ waiting \in Seq(requests) /\ running \in Seq(requests)
           /\ NoneTwice(waiting) /\ NoneTwice(running)
           /\ Elements(waiting) \cap Elements(running) = {}
           /\ Elements(waiting) \subseteq requests /\ Elements(running) \subseteq requests
  <1>1. waiting \in Seq(requests) /\ running \in Seq(requests) /\ NoneTwice(waiting \o running)
    BY DEF TypeInv, Types, Queued
  <1>2. /\ NoneTwice(waiting) /\ NoneTwice(running)
        /\ Elements(waiting) \cap Elements(running) = {}
    BY <1>1, JoinFacts
  <1> QED
    BY <1>1, <1>2, ElementsFacts

(* Without removes the requests of a set.                                  *)
LEMMA WithoutFacts ==
    ASSUME NEW R, R \subseteq Requests, NEW q \in Seq(R), NEW S
    PROVE  /\ Without(q, S) \in Seq(R \ S)
           /\ Elements(Without(q, S)) = Elements(q) \ S
           /\ NoneTwice(q) => NoneTwice(Without(q, S))
  <1>1. /\ Without(q, S) \in Seq(R \cap (Requests \ S))
        /\ Elements(Without(q, S)) = Elements(q) \cap (Requests \ S)
        /\ NoneTwice(q) => NoneTwice(Without(q, S))
    BY OnlyFacts DEF Without
  <1>2. R \cap (Requests \ S) = R \ S /\ Elements(q) \subseteq R
    BY ElementsFacts
  <1> QED
    BY <1>1, <1>2

(* Two queues apart from each other hold no request twice.                 *)
LEMMA ApartOnce ==
    ASSUME NEW R, NEW p \in Seq(R), NEW q \in Seq(R), NoneTwice(p), NoneTwice(q),
           Elements(p) \cap Elements(q) = {}
    PROVE  NoneTwice(p \o q)
  BY JoinFacts

(* A request that arrives is in no queue yet.                              *)
LEMMA ArriveQueueInv ==
    ASSUME QueueInv, NEW r \in Requests, Arrive(r)
    PROVE  QueueInv'
  <1>1. /\ waiting' = Append(waiting, r) /\ requests' = requests \cup {r}
        /\ status' = [status EXCEPT ![r] = "WAITING"] /\ status[r] = "NEW"
        /\ UNCHANGED <<sent, threadVars, pendingLoad, finishedLoad, cancelled, streamVars, ready,
                       origin, running, pendingFinish, flight, played, spoiled>>
    BY DEF Arrive
  <1>2. TypeInv /\ StepInv
    BY DEF QueueInv
  <1>3. /\ r \notin requests /\ r \notin Elements(Flying) /\ r \notin Elements(pendingFinish)
    BY <1>1, <1>2 DEF StepInv
  <1>4. /\ waiting \in Seq(requests) /\ running \in Seq(requests)
        /\ NoneTwice(waiting) /\ NoneTwice(running)
        /\ Elements(waiting) \cap Elements(running) = {}
        /\ Elements(waiting) \subseteq requests /\ Elements(running) \subseteq requests
    BY <1>2, QueuesApart
  <1> DEFINE R == requests \cup {r}
  <1>5. waiting \in Seq(R) /\ running \in Seq(R) /\ r \in R
    BY <1>4, ElementsFacts
  <1>6. /\ Append(waiting, r) \in Seq(R)
        /\ Elements(Append(waiting, r)) = Elements(waiting) \cup {r}
        /\ NoneTwice(Append(waiting, r))
    <2> HIDE DEF R
    <2>1. r \notin Elements(waiting)
      BY <1>3, <1>4
    <2> QED
      BY <1>4, <1>5, <2>1, AppendFacts
  <1>7. NoneTwice(Append(waiting, r) \o running)
    <2> DEFINE w == Append(waiting, r)
    <2>1. w \in Seq(R) /\ NoneTwice(w) /\ Elements(w) \cap Elements(running) = {}
      BY <1>3, <1>4, <1>6
    <2> HIDE DEF w, R
    <2> QED
      BY <1>4, <1>5, <2>1, ApartOnce DEF w
  <1>8. status' \in [Requests -> Statuses]
    BY <1>1, <1>2 DEF TypeInv, Types, Statuses
  <1>9. TypeInv'
    <2>1. /\ finishedLoad' \subseteq Requests /\ cancelled' \subseteq Requests
          /\ done' \subseteq Requests /\ segmented' \subseteq Requests
          /\ ready' \subseteq Requests /\ resumable' \subseteq Requests
          /\ requests' \subseteq Requests /\ spoiled' \subseteq Requests
      BY <1>1, <1>2 DEF TypeInv, Types, streamVars
    <2>2. /\ waiting' \in Seq(requests') /\ running' \in Seq(requests') /\ NoneTwice(Queued')
      BY <1>1, <1>5, <1>6, <1>7 DEF Queued
    <2>3. /\ pendingFinish' \in Seq(Requests) /\ flight' \in Seq(Seq(Requests))
          /\ Len(flight') <= Depth /\ pendingLoad' \in Seq(Requests)
          /\ sent' \in [Requests -> Seq(Chunks)] /\ \A q \in Requests : Len(sent'[q]) <= MaxChunks
          /\ {taken', got'} \subseteq [Requests -> Nat]
          /\ poll' \in [request : Requests \cup {NoRequest}, step : {"mark", "fill"}]
          /\ origin' \in [Requests -> {"WAITING", "RUNNING", NoStatus}]
          /\ input' \in [Requests -> [chunk : Nat, len : 0..ChunkTokens, computed : Nat]]
      BY <1>1, <1>2 DEF TypeInv, Types, streamVars, threadVars
    <2> QED
      BY <1>8, <2>1, <2>2, <2>3 DEF TypeInv, Types
  <1>10. StepInv'
    <2>1. Flying' = Flying
      BY <1>1 DEF Flying
    <2>2. Elements(waiting') = Elements(waiting) \cup {r}
      BY <1>1, <1>6
    <2>3. \A q \in Requests : status'[q] = "NEW" => q # r /\ status[q] = "NEW"
      BY <1>1, <1>2 DEF TypeInv, Types
    <2> QED
      BY <1>1, <1>2, <1>3, <2>1, <2>2, <2>3 DEF StepInv
  <1> QED
    BY <1>9, <1>10 DEF QueueInv

(* An aborted request is in no queue any more: if it is in the waiting one *)
(* its realigned status is not that of a running request.                  *)
LEMMA AbortQueueInv ==
    ASSUME QueueInv, NEW r \in Requests, Abort(r)
    PROVE  QueueInv'
  <1>1. /\ r \in requests
        /\ status' = [status EXCEPT ![r] = "FINISHED_ABORTED"]
        /\ requests' = requests \ {r}
        /\ running' = Without(running, {r})
        /\ waiting' = (IF Realigned(r) = "RUNNING" THEN waiting ELSE Without(waiting, {r}))
        /\ origin' = [origin EXCEPT ![r] = NoStatus]
        /\ ready' = ready \ {r} /\ done' = done \ {r}
        /\ finishedLoad' = finishedLoad \ {r} /\ cancelled' = cancelled \cup {r}
        /\ UNCHANGED <<sent, threadVars, pendingLoad, segmented, resumable, input, pendingFinish,
                       flight, played, spoiled>>
    BY DEF Abort
  <1>2. TypeInv /\ StepInv
    BY DEF QueueInv
  <1>3. /\ waiting \in Seq(requests) /\ running \in Seq(requests)
        /\ NoneTwice(waiting) /\ NoneTwice(running)
        /\ Elements(waiting) \cap Elements(running) = {}
        /\ Elements(waiting) \subseteq requests /\ Elements(running) \subseteq requests
    BY <1>2, QueuesApart
  <1>4. requests \subseteq Requests
    BY <1>2 DEF TypeInv, Types
  <1>5. /\ running' \in Seq(requests \ {r}) /\ NoneTwice(running')
        /\ Elements(running') = Elements(running) \ {r}
    BY <1>1, <1>3, <1>4, WithoutFacts
  <1>6. /\ waiting' \in Seq(requests \ {r}) /\ NoneTwice(waiting')
        /\ Elements(waiting') = Elements(waiting) \ {r}
    <2>1. CASE Realigned(r) = "RUNNING"
      <3>1. r \notin Elements(waiting)
        BY <1>3, <2>1 DEF Realigned
      <3>2. Elements(waiting) \subseteq requests \ {r}
        BY <1>3, <3>1
      <3> QED
        BY <1>1, <1>3, <2>1, <3>1, <3>2, ElementsFacts
    <2>2. CASE Realigned(r) # "RUNNING"
      BY <1>1, <1>3, <1>4, <2>2, WithoutFacts
    <2> QED
      BY <2>1, <2>2
  <1>7. NoneTwice(waiting' \o running')
    <2> DEFINE R == requests \ {r}
    <2>1. waiting' \in Seq(R) /\ running' \in Seq(R)
          /\ Elements(waiting') \cap Elements(running') = {}
      BY <1>3, <1>5, <1>6
    <2> HIDE DEF R
    <2> QED
      BY <1>5, <1>6, <2>1, ApartOnce
  <1>8. status' \in [Requests -> Statuses]
    BY <1>1, <1>2 DEF TypeInv, Types, Statuses
  <1>9. TypeInv'
    <2>1. /\ finishedLoad' \subseteq Requests /\ cancelled' \subseteq Requests
          /\ done' \subseteq Requests /\ segmented' \subseteq Requests
          /\ ready' \subseteq Requests /\ resumable' \subseteq Requests
          /\ requests' \subseteq Requests /\ spoiled' \subseteq Requests
      BY <1>1, <1>2, <1>4 DEF TypeInv, Types
    <2>2. /\ waiting' \in Seq(requests') /\ running' \in Seq(requests') /\ NoneTwice(Queued')
      BY <1>1, <1>5, <1>6, <1>7 DEF Queued
    <2>3. /\ pendingFinish' \in Seq(Requests) /\ flight' \in Seq(Seq(Requests))
          /\ Len(flight') <= Depth /\ pendingLoad' \in Seq(Requests)
          /\ sent' \in [Requests -> Seq(Chunks)] /\ \A q \in Requests : Len(sent'[q]) <= MaxChunks
          /\ {taken', got'} \subseteq [Requests -> Nat]
          /\ poll' \in [request : Requests \cup {NoRequest}, step : {"mark", "fill"}]
          /\ input' \in [Requests -> [chunk : Nat, len : 0..ChunkTokens, computed : Nat]]
      BY <1>1, <1>2 DEF TypeInv, Types, threadVars
    <2>4. origin' \in [Requests -> {"WAITING", "RUNNING", NoStatus}]
      BY <1>1, <1>2 DEF TypeInv, Types
    <2> QED
      BY <1>8, <2>1, <2>2, <2>3, <2>4 DEF TypeInv, Types
  <1>10. StepInv'
    <2>1. Flying' = Flying
      BY <1>1 DEF Flying
    <2>2. \A q \in Requests : status'[q] = "NEW" => status[q] = "NEW"
      BY <1>1, <1>2 DEF TypeInv, Types
    <2> QED
      BY <1>1, <1>2, <1>5, <1>6, <2>1, <2>2 DEF StepInv
  <1> QED
    BY <1>9, <1>10 DEF QueueInv

-----------------------------------------------------------------------------
(* The queues in the steps of the scheduler.                               *)

(* A step of schedule(), with the step it makes, the requests it collects, *)
(* the two queues it leaves and the tokens it gives.                       *)
Scheduled(step, ended, run, wait, granted, more) ==
    /\ QueuesDivided(step, ended, run, wait, granted)
    /\ flight = <<>> /\ flight' = <<step>>
    /\ pendingFinish' = ended /\ running' = run /\ waiting' = wait
    /\ pendingLoad' = pendingLoad \o Asking
    /\ cancelled' = cancelled \ Elements(Asking)
    /\ finishedLoad' = finishedLoad \ LoadedNow
    /\ ready' = (ready \cup LoadedNow) \ Elements(step)
    /\ origin' = [r \in Requests |-> IF r \in ParkedNow THEN Target(r) ELSE origin[r]]
    /\ status' = [r \in Requests |->
          IF r \in Elements(Preempted) THEN "PREEMPTED"
          ELSE IF r \in ParkedNow THEN "WAITING_FOR_CHUNK"
          ELSE IF r \in LoadedNow THEN Target(r) ELSE status[r]]
    /\ \A r \in Elements(step) : more[r] \in Nat /\ more[r] > 0
    /\ input' = [r \in Requests |->
          IF r \in Elements(step) THEN [input[r] EXCEPT !.computed = @ + more[r]] ELSE input[r]]
    /\ played' = [r \in Requests |->
          IF r \in Elements(step) /\ input[r].computed + more[r] >= input[r].len
          THEN Append(played[r], input[r].chunk) ELSE played[r]]
    /\ spoiled' = spoiled \cup
          {r \in Elements(step) : ~DoneReceiving(r) /\ more[r] < Remaining(r)}
    /\ UNCHANGED <<sent, threadVars, done, segmented, resumable, requests>>

(* A request of a step gets tokens.                                        *)
LEMMA TokensFacts ==
    ASSUME TypeInv, NEW granted, NEW step, NEW short \in 0..(ChunkTokens - 1),
           NEW r \in Requests,
           IF r \in Elements(granted) THEN Remaining(r) > 0 ELSE HasInput(r),
           short > 0 => Tokens(step[Len(step)], granted, step, short) > 0
    PROVE  Tokens(r, granted, step, short) \in Nat /\ Tokens(r, granted, step, short) > 0
  <1> DEFINE needed == IF r \in Elements(granted) THEN Remaining(r) ELSE input[r].len
  <1>1. /\ input[r].len \in Nat /\ input[r].computed \in Nat
    <2>1. input[r] \in [chunk : Nat, len : 0..ChunkTokens, computed : Nat]
      BY DEF TypeInv, Types
    <2> QED
      BY <2>1
  <1>2. needed \in Nat /\ needed > 0
    BY <1>1 DEF Remaining, HasInput
  <1>3. short \in Nat
    BY ChunkAssumption
  <1>4. Tokens(r, granted, step, short) =
           IF r = step[Len(step)] THEN needed - short ELSE needed
    BY DEF Tokens
  <1>5. CASE r = step[Len(step)] /\ short > 0
    <2>1. Tokens(r, granted, step, short) > 0 /\ Tokens(r, granted, step, short) = needed - short
      BY <1>4, <1>5
    <2> HIDE DEF needed
    <2> QED
      BY <1>2, <1>3, <1>5, <2>1
  <1>6. CASE ~(r = step[Len(step)] /\ short > 0)
    <2>1. Tokens(r, granted, step, short) = needed
      <3> HIDE DEF needed
      <3> QED
        BY <1>2, <1>3, <1>4, <1>6
    <2> QED
      BY <1>2, <2>1
  <1> QED
    BY <1>5, <1>6

(* Every step of schedule() is of this form.                               *)
LEMMA ScheduleIsScheduled ==
    ASSUME Depth = 1, TypeInv, StepInv, Schedule
    PROVE  \E step, ended, run, wait, granted, more :
              Scheduled(step, ended, run, wait, granted, more)
  <1>1. flight = <<>> /\ pendingFinish = <<>>
    <2>1. Len(flight) < 1 /\ flight \in Seq(Seq(Requests))
      BY DEF Schedule, MaySchedule, TypeInv, Types
    <2>2. flight = <<>>
      BY <2>1
    <2> QED
      BY <2>2 DEF StepInv
  <1>2. PICK kept \in {Kept}, offered \in {Offered} :
          \E reached \in 0..Len(kept), tried \in 0..Len(offered), short \in 0..(ChunkTokens - 1) :
             ScheduleUpTo(kept, offered, reached, tried, short)
    BY DEF Schedule
  <1>3. PICK reached \in 0..Len(kept), tried \in 0..Len(offered), short \in 0..(ChunkTokens - 1) :
          ScheduleUpTo(kept, offered, reached, tried, short)
    BY <1>2
  <1>4. kept = Kept /\ offered = Offered
    OBVIOUS
  <1>5. PICK step, ended, run, wait, granted :
          /\ step = StepOf(kept, offered, reached, tried)
          /\ ended = EndedOf(kept, offered, reached, tried)
          /\ run = RunningOf(kept, offered, tried)
          /\ wait = WaitingOf(offered, tried)
          /\ granted = Granted(kept, reached)
    OBVIOUS
  <1>6. PICK more : more = [r \in Requests |-> Tokens(r, granted, step, short)]
    OBVIOUS
  <1>7. QueuesDivided(step, ended, run, wait, granted)
    BY <1>4, <1>5, QueuesAreDivided
  <1>8. /\ short > 0 => Tokens(step[Len(step)], granted, step, short) > 0
        /\ pendingLoad' = pendingLoad \o Asking
        /\ cancelled' = cancelled \ Elements(Asking)
        /\ finishedLoad' = finishedLoad \ LoadedNow
        /\ ready' = (ready \cup LoadedNow) \ Elements(step)
        /\ origin' = [r \in Requests |-> IF r \in ParkedNow THEN Target(r) ELSE origin[r]]
        /\ status' = [r \in Requests |->
              IF r \in Elements(Preempted) THEN "PREEMPTED"
              ELSE IF r \in ParkedNow THEN "WAITING_FOR_CHUNK"
              ELSE IF r \in LoadedNow THEN Target(r) ELSE status[r]]
        /\ UNCHANGED <<sent, threadVars, done, segmented, resumable, requests>>
    BY <1>3, <1>5 DEF ScheduleUpTo, StepOf
  <1>9. /\ input' = [r \in Requests |->
              IF r \in Elements(step)
              THEN [input[r] EXCEPT !.computed = @ + Tokens(r, granted, step, short)]
              ELSE input[r]]
        /\ played' = [r \in Requests |->
              IF r \in Elements(step)
                 /\ input[r].computed + Tokens(r, granted, step, short) >= input[r].len
              THEN Append(played[r], input[r].chunk) ELSE played[r]]
        /\ spoiled' = spoiled \cup
              {r \in Elements(step) :
                  ~DoneReceiving(r) /\ Tokens(r, granted, step, short) < Remaining(r)}
    BY <1>3, <1>5 DEF ScheduleUpTo, StepOf
  <1>10. /\ pendingFinish' = pendingFinish \o Spent(kept, reached)
                             \o Only(Skipped(offered, tried), Receivers)
         /\ running' = run /\ waiting' = wait /\ flight' = Append(flight, step)
    BY <1>3, <1>5 DEF ScheduleUpTo, StepOf, RunningOf, WaitingOf
  <1>11. pendingFinish' = ended
    <2>1. Spent(kept, reached) \in Seq(requests)
      BY <1>4, LoopParts
    <2>2. pendingFinish \o Spent(kept, reached) = Spent(kept, reached)
      BY <1>1, <2>1
    <2> QED
      BY <1>5, <1>10, <2>2 DEF EndedOf
  <1>12. flight' = <<step>>
    BY <1>1, <1>10
  <1>13. ASSUME NEW r \in Elements(step) PROVE more[r] \in Nat /\ more[r] > 0
    <2>1. r \in Requests
      <3>1. requests \subseteq Requests
        BY DEF TypeInv, Types
      <3> QED
        BY <1>7, <3>1, ElementsFacts DEF QueuesDivided
    <2>2. IF r \in Elements(granted) THEN Remaining(r) > 0 ELSE HasInput(r)
      BY <1>7 DEF QueuesDivided
    <2>3. /\ Tokens(r, granted, step, short) \in Nat
          /\ Tokens(r, granted, step, short) > 0
      BY <1>8, <2>1, <2>2, TokensFacts
    <2> QED
      BY <1>6, <2>1, <2>3
  <1>14. Elements(step) \subseteq Requests
    <2>1. requests \subseteq Requests
      BY DEF TypeInv, Types
    <2> QED
      BY <1>7, <2>1, ElementsFacts DEF QueuesDivided
  <1>15. /\ input' = [r \in Requests |->
               IF r \in Elements(step) THEN [input[r] EXCEPT !.computed = @ + more[r]]
               ELSE input[r]]
         /\ played' = [r \in Requests |->
               IF r \in Elements(step) /\ input[r].computed + more[r] >= input[r].len
               THEN Append(played[r], input[r].chunk) ELSE played[r]]
         /\ spoiled' = spoiled \cup
               {r \in Elements(step) : ~DoneReceiving(r) /\ more[r] < Remaining(r)}
    BY <1>6, <1>9, <1>14
  <1> QED
    BY <1>1, <1>7, <1>8, <1>10, <1>11, <1>12, <1>13, <1>15 DEF Scheduled

(* The requests that begin to wait for a chunk.                            *)
LEMMA AskingFacts ==
    ASSUME TypeInv
    PROVE  /\ Asking \in Seq(Requests)
           /\ Elements(Asking) = QueuedNow \cap Askers
           /\ NoneTwice(Asking)
  <1>1. /\ waiting \in Seq(requests) /\ running \in Seq(requests)
        /\ NoneTwice(waiting) /\ NoneTwice(running)
        /\ Elements(waiting) \cap Elements(running) = {}
    BY QueuesApart
  <1>2. requests \subseteq Requests
    BY DEF TypeInv, Types
  <1>3. waiting \in Seq(Requests) /\ running \in Seq(Requests)
    BY <1>1, <1>2
  <1> DEFINE w == Only(waiting, Askers)
             n == Only(running, Askers)
  <1>4. /\ w \in Seq(Requests \cap Askers) /\ Elements(w) = Elements(waiting) \cap Askers
        /\ NoneTwice(w)
    BY <1>1, <1>3, OnlyFacts
  <1>5. /\ n \in Seq(Requests \cap Askers) /\ Elements(n) = Elements(running) \cap Askers
        /\ NoneTwice(n)
    BY <1>1, <1>3, OnlyFacts
  <1>6. w \in Seq(Requests) /\ n \in Seq(Requests) /\ Elements(w) \cap Elements(n) = {}
    <2>1. \A S : S \in SUBSET Requests => Seq(S) \subseteq Seq(Requests)
      OBVIOUS
    <2>2. w \in Seq(Requests) /\ n \in Seq(Requests)
      BY <1>4, <1>5, <2>1
    <2> QED
      BY <1>1, <1>4, <1>5, <2>2
  <1> HIDE DEF w, n
  <1>7. /\ w \o n \in Seq(Requests) /\ Elements(w \o n) = Elements(w) \cup Elements(n)
        /\ NoneTwice(w \o n)
    BY <1>4, <1>5, <1>6, JoinFacts
  <1>8. Asking = w \o n
    BY DEF Asking, w, n
  <1> QED
    BY <1>4, <1>5, <1>7, <1>8 DEF QueuedNow

(* A step of schedule() keeps the queues right.                            *)
LEMMA ScheduledQueueInv ==
    ASSUME Depth = 1, QueueInv,
           NEW step, NEW ended, NEW run, NEW wait, NEW granted, NEW more,
           Scheduled(step, ended, run, wait, granted, more)
    PROVE  QueueInv'
  <1>1. TypeInv /\ StepInv
    BY DEF QueueInv
  <1>2. /\ QueuesDivided(step, ended, run, wait, granted)
        /\ flight' = <<step>> /\ pendingFinish' = ended /\ running' = run /\ waiting' = wait
        /\ UNCHANGED <<sent, threadVars, done, segmented, resumable, requests>>
    BY DEF Scheduled
  <1>3. /\ step \in Seq(requests) /\ ended \in Seq(requests)
        /\ run \in Seq(requests) /\ wait \in Seq(requests)
        /\ NoneTwice(wait \o run) /\ NoneTwice(step) /\ NoneTwice(ended)
        /\ Elements(step) \subseteq Elements(run)
        /\ Elements(ended) \cap Elements(wait) = {}
        /\ Elements(ended) \cap Elements(step) = {}
    BY <1>2 DEF QueuesDivided
  <1>4. requests \subseteq Requests
    BY <1>1 DEF TypeInv, Types
  <1>5. Elements(step) \subseteq requests /\ Elements(ended) \subseteq requests
    BY <1>3, ElementsFacts
  <1>6. \A r \in QueuedNow : r \in Requests
    BY <1>1, <1>4, QueuesApart DEF QueuedNow
  <1>7. TypeInv'
    <2>1. sent' \in [Requests -> Seq(Chunks)] /\ \A r \in Requests : Len(sent'[r]) <= MaxChunks
      BY <1>1, <1>2 DEF TypeInv, Types
    <2>2. /\ {taken', got'} \subseteq [Requests -> Nat]
          /\ poll' \in [request : Requests \cup {NoRequest}, step : {"mark", "fill"}]
      BY <1>1, <1>2 DEF TypeInv, Types, threadVars
    <2>3. /\ finishedLoad' \subseteq Requests /\ cancelled' \subseteq Requests
          /\ done' \subseteq Requests /\ segmented' \subseteq Requests
          /\ ready' \subseteq Requests /\ resumable' \subseteq Requests
          /\ requests' \subseteq Requests
      <3>1. /\ cancelled' = cancelled \ Elements(Asking)
            /\ finishedLoad' = finishedLoad \ LoadedNow
            /\ ready' = (ready \cup LoadedNow) \ Elements(step)
        BY DEF Scheduled
      <3>2. LoadedNow \subseteq Requests
        BY <1>6 DEF LoadedNow
      <3> QED
        BY <1>1, <1>2, <3>1, <3>2 DEF TypeInv, Types
    <2>4. pendingLoad' \in Seq(Requests)
      <3>1. pendingLoad \in Seq(Requests) /\ Asking \in Seq(Requests)
        BY <1>1, AskingFacts DEF TypeInv, Types
      <3> QED
        BY <3>1 DEF Scheduled
    <2>5. origin' \in [Requests -> {"WAITING", "RUNNING", NoStatus}]
      BY <1>1 DEF TypeInv, Types, Scheduled, Target
    <2>6. input' \in [Requests -> [chunk : Nat, len : 0..ChunkTokens, computed : Nat]]
      <3>1. /\ input' = [r \in Requests |->
                  IF r \in Elements(step) THEN [input[r] EXCEPT !.computed = @ + more[r]]
                  ELSE input[r]]
            /\ \A r \in Elements(step) : more[r] \in Nat
        BY DEF Scheduled
      <3>2. input \in [Requests -> [chunk : Nat, len : 0..ChunkTokens, computed : Nat]]
        BY <1>1 DEF TypeInv, Types
      <3>3. ASSUME NEW r \in Requests
            PROVE  input'[r] \in [chunk : Nat, len : 0..ChunkTokens, computed : Nat]
        <4>1. input[r] \in [chunk : Nat, len : 0..ChunkTokens, computed : Nat]
          BY <3>2
        <4>2. CASE r \in Elements(step)
          <5>1. more[r] \in Nat /\ input[r].computed \in Nat
            BY <3>1, <4>1, <4>2
          <5>2. input'[r] = [input[r] EXCEPT !.computed = input[r].computed + more[r]]
            BY <3>1, <4>2
          <5>3. input[r].computed + more[r] \in Nat
            BY <5>1
          <5> QED
            BY <4>1, <5>2, <5>3
        <4>3. CASE r \notin Elements(step)
          BY <3>1, <4>1, <4>3
        <4> QED
          BY <4>2, <4>3
      <3> QED
        BY <3>1, <3>3
    <2>7. status' \in [Requests -> Statuses]
      <3>1. status \in [Requests -> Statuses]
        BY <1>1 DEF TypeInv, Types
      <3> QED
        BY <3>1 DEF Scheduled, Target, Statuses
    <2>8. waiting' \in Seq(requests') /\ running' \in Seq(requests') /\ NoneTwice(Queued')
      BY <1>2, <1>3 DEF Queued
    <2>9. /\ pendingFinish' \in Seq(Requests) /\ flight' \in Seq(Seq(Requests))
          /\ Len(flight') <= Depth
      <3>1. step \in Seq(Requests) /\ ended \in Seq(Requests)
        BY <1>3, <1>4
      <3> QED
        BY <1>2, <3>1
    <2>10. spoiled' \subseteq Requests
      <3>1. Elements(step) \subseteq Requests
        BY <1>3, ElementsFacts
      <3> QED
        BY <1>1, <3>1 DEF Scheduled, TypeInv, Types
    <2> QED
      BY <2>1, <2>2, <2>3, <2>4, <2>5, <2>6, <2>7, <2>8, <2>9, <2>10 DEF TypeInv, Types
  <1>8. StepInv'
    <2>1. Flying' = step
      BY <1>2 DEF Flying
    <2>2. flight' # <<>>
      BY <1>2
    <2>3. \A r \in Requests : status'[r] = "NEW" => r \notin requests
      <3>1. \A r \in Requests : status'[r] = "NEW" => status[r] = "NEW"
        BY DEF Scheduled, Target
      <3> QED
        BY <1>1, <3>1 DEF StepInv
    <2> QED
      BY <1>2, <1>3, <1>5, <2>1, <2>2, <2>3 DEF StepInv
  <1> QED
    BY <1>7, <1>8 DEF QueueInv

(* What update_from_output stops, in the step and among the collected.     *)
LEMMA StoppedFacts ==
    ASSUME TypeInv, StepInv, flight # <<>>
    PROVE  /\ Resumed \in Seq(requests) /\ NoneTwice(Resumed)
           /\ Elements(Resumed) = StoppedNow \cap resumable
           /\ Elements(Stopped) = {r \in Elements(Flying) \cap requests :
                                      DoneReceiving(r) /\ input[r].computed >= input[r].len}
           /\ Elements(Collected) \subseteq Elements(pendingFinish) \cap requests
           /\ \A r \in Elements(pendingFinish) \cap requests : r \in Elements(Collected)
           /\ StoppedNow \subseteq requests
           /\ StoppedNow \cap Elements(waiting) = {}
  <1>1. /\ flight \in Seq(Seq(Requests)) /\ pendingFinish \in Seq(Requests)
        /\ requests \subseteq Requests
    BY DEF TypeInv, Types
  <1> DEFINE h == Head(flight)
             D == {r \in requests : DoneReceiving(r) /\ input[r].computed >= input[r].len}
             L == requests \ (Elements(Stopped) \ resumable)
             s == Stopped
             c == Collected
  <1>2. h \in Seq(Requests) /\ h = Flying
    BY <1>1 DEF Flying
  <1>3. s = Only(h, D) /\ c = Only(pendingFinish, L)
    BY DEF Stopped, Collected
  <1>4. D \subseteq requests /\ L \subseteq requests
    OBVIOUS
  <1>5. /\ NoneTwice(Flying) /\ NoneTwice(pendingFinish)
        /\ Elements(Flying) \cap Elements(pendingFinish) = {}
        /\ Elements(Flying) \cap requests \subseteq Elements(running)
        /\ Elements(pendingFinish) \cap Elements(waiting) = {}
    BY DEF StepInv
  <1>6. \A r : r \in D <=> r \in requests /\ DoneReceiving(r) /\ input[r].computed >= input[r].len
    OBVIOUS
  <1>7. \A r : r \in L <=> r \in requests /\ ~(r \in Elements(s) /\ r \notin resumable)
    OBVIOUS
  <1> HIDE DEF h, D, L, s, c
  <1>8. s \in Seq(Requests \cap D) /\ Elements(s) = Elements(h) \cap D /\ NoneTwice(s)
    <2>1. h \in Seq(Requests) /\ NoneTwice(h) /\ s = Only(h, D)
      BY <1>2, <1>3, <1>5
    <2> QED
      BY <2>1, OnlyFacts
  <1>9. /\ c \in Seq(Requests \cap L) /\ Elements(c) = Elements(pendingFinish) \cap L
        /\ NoneTwice(c)
    <2>1. pendingFinish \in Seq(Requests) /\ NoneTwice(pendingFinish) /\ c = Only(pendingFinish, L)
      BY <1>1, <1>3, <1>5
    <2> QED
      BY <2>1, OnlyFacts
  <1>10. s \in Seq(requests) /\ c \in Seq(requests)
    <2>1. \A S : S \in SUBSET requests => Seq(S) \subseteq Seq(requests)
      OBVIOUS
    <2>2. Requests \cap D \in SUBSET requests /\ Requests \cap L \in SUBSET requests
      BY <1>4
    <2> QED
      BY <1>8, <1>9, <2>1, <2>2
  <1>11. Elements(s) \cap Elements(c) = {}
    BY <1>2, <1>5, <1>8, <1>9
  <1>12. /\ s \o c \in Seq(requests) /\ Elements(s \o c) = Elements(s) \cup Elements(c)
         /\ NoneTwice(s \o c)
    BY <1>8, <1>9, <1>10, <1>11, JoinFacts
  <1> DEFINE j == s \o c
  <1>13. /\ Only(j, resumable) \in Seq(requests \cap resumable)
         /\ Elements(Only(j, resumable)) = Elements(j) \cap resumable
         /\ NoneTwice(Only(j, resumable))
    <2>1. j \in Seq(requests) /\ NoneTwice(j)
      BY <1>12
    <2> HIDE DEF j
    <2> QED
      BY <2>1, OnlyFacts
  <1>14. Resumed = Only(j, resumable)
    BY DEF Resumed, s, c
  <1>15. /\ Resumed \in Seq(requests)
         /\ Elements(Resumed) = (Elements(s) \cup Elements(c)) \cap resumable
         /\ NoneTwice(Resumed)
    <2>1. Seq(requests \cap resumable) \subseteq Seq(requests)
      OBVIOUS
    <2> QED
      BY <1>12, <1>13, <1>14, <2>1
  <1>16. StoppedNow = Elements(s) \cup Elements(c)
    BY DEF StoppedNow, s, c
  <1>17. Elements(s) \subseteq requests /\ Elements(c) \subseteq requests
    BY <1>4, <1>8, <1>9
  <1>18. Elements(running) \cap Elements(waiting) = {}
    BY QueuesApart
  <1>19. StoppedNow \cap Elements(waiting) = {}
    BY <1>2, <1>5, <1>8, <1>9, <1>16, <1>17, <1>18
  <1>20. Elements(Stopped) = {r \in Elements(Flying) \cap requests :
                                DoneReceiving(r) /\ input[r].computed >= input[r].len}
    BY <1>2, <1>6, <1>8 DEF s
  <1>21. /\ Elements(Collected) \subseteq Elements(pendingFinish) \cap requests
         /\ \A r \in Elements(pendingFinish) \cap requests : r \in Elements(Collected)
    <2>1. \A r \in Elements(pendingFinish) : r \notin Elements(s)
      BY <1>2, <1>5, <1>8
    <2> QED
      BY <1>7, <1>9, <2>1 DEF c
  <1> QED
    BY <1>15, <1>16, <1>17, <1>19, <1>20, <1>21

(* With one step in flight, the oldest step is the only one.               *)
LEMMA LastStep ==
    ASSUME Depth = 1, TypeInv, flight # <<>>
    PROVE  Tail(flight) = <<>>
  BY DEF TypeInv, Types

(* update_from_output keeps the queues right: what it puts back into the   *)
(* waiting queue was in the running one or in none.                        *)
LEMMA UpdateQueueInv ==
    ASSUME Depth = 1, QueueInv, Update
    PROVE  QueueInv'
  <1>1. TypeInv /\ StepInv /\ flight # <<>>
    BY DEF QueueInv, Update
  <1> DEFINE parked == {r \in Elements(Stopped) : status[r] = "WAITING_FOR_CHUNK"}
  <1>2. /\ waiting' = Without(waiting \o Resumed, parked)
        /\ running' = Without(running, StoppedNow)
        /\ status' = [r \in Requests |-> IF r \in Ended THEN "FINISHED_STOPPED"
                                         ELSE IF r \in StoppedNow THEN "WAITING" ELSE status[r]]
        /\ requests' = requests \ Ended
        /\ segmented' = segmented \ (Elements(Stopped) \cup Ended)
        /\ pendingFinish' = <<>> /\ flight' = Tail(flight)
        /\ spoiled' = spoiled \cup Overtaken
        /\ UNCHANGED <<sent, taken, poll, pendingLoad, resumable, input, played>>
    BY DEF Update
  <1>3. /\ done' = done \ Ended
        /\ got' = [r \in Requests |-> IF r \in Ended THEN 0 ELSE got[r]]
        /\ ready' = ready \ Ended
        /\ origin' = [r \in Requests |-> IF r \in Ended THEN NoStatus ELSE origin[r]]
        /\ cancelled' = cancelled \cup Ended
        /\ finishedLoad' = finishedLoad \ Ended
    BY DEF Update, CleanupReceiver
  <1>4. /\ Resumed \in Seq(requests) /\ NoneTwice(Resumed)
        /\ Elements(Resumed) = StoppedNow \cap resumable
        /\ StoppedNow \subseteq requests
        /\ StoppedNow \cap Elements(waiting) = {}
    BY <1>1, StoppedFacts
  <1>5. /\ waiting \in Seq(requests) /\ running \in Seq(requests)
        /\ NoneTwice(waiting) /\ NoneTwice(running)
        /\ Elements(waiting) \cap Elements(running) = {}
        /\ Elements(waiting) \subseteq requests /\ Elements(running) \subseteq requests
    BY <1>1, QueuesApart
  <1>6. requests \subseteq Requests
    BY <1>1 DEF TypeInv, Types
  <1>7. Ended = StoppedNow \ resumable
    BY DEF Ended
  <1> DEFINE j == waiting \o Resumed
  <1>8. /\ j \in Seq(requests) /\ NoneTwice(j)
        /\ Elements(j) = Elements(waiting) \cup Elements(Resumed)
    BY <1>4, <1>5, JoinFacts
  <1> HIDE DEF parked, j
  <1>9. /\ Without(j, parked) \in Seq(requests \ parked) /\ NoneTwice(Without(j, parked))
        /\ Elements(Without(j, parked)) = Elements(j) \ parked
    BY <1>6, <1>8, WithoutFacts
  <1>10. /\ Without(running, StoppedNow) \in Seq(requests \ StoppedNow)
         /\ NoneTwice(Without(running, StoppedNow))
         /\ Elements(Without(running, StoppedNow)) = Elements(running) \ StoppedNow
    BY <1>5, <1>6, WithoutFacts
  <1>11. waiting' = Without(j, parked) /\ running' = Without(running, StoppedNow)
    BY <1>2 DEF j, parked
  <1>12. /\ Elements(waiting') \subseteq requests \ Ended
         /\ Elements(running') \subseteq requests \ Ended
         /\ Elements(waiting') \cap Elements(running') = {}
    BY <1>4, <1>5, <1>7, <1>8, <1>9, <1>10, <1>11
  <1>13. waiting' \in Seq(requests') /\ running' \in Seq(requests')
    <2>1. waiting' \in Seq(requests \ parked) /\ running' \in Seq(requests \ StoppedNow)
      BY <1>9, <1>10, <1>11
    <2>2. waiting' \in Seq(requests \ Ended) /\ running' \in Seq(requests \ Ended)
      BY <1>12, <2>1, ElementsFacts
    <2> QED
      BY <1>2, <2>2
  <1>14. NoneTwice(waiting' \o running')
    <2> DEFINE R == requests'
    <2>1. waiting' \in Seq(R) /\ running' \in Seq(R) /\ NoneTwice(waiting') /\ NoneTwice(running')
      BY <1>9, <1>10, <1>11, <1>13
    <2> HIDE DEF R
    <2> QED
      BY <1>12, <2>1, ApartOnce
  <1>15. TypeInv'
    <2>1. /\ finishedLoad' \subseteq Requests /\ cancelled' \subseteq Requests
          /\ done' \subseteq Requests /\ segmented' \subseteq Requests
          /\ ready' \subseteq Requests /\ resumable' \subseteq Requests
          /\ requests' \subseteq Requests
      <3>1. Ended \subseteq Requests
        BY <1>4, <1>6, <1>7
      <3> QED
        BY <1>1, <1>2, <1>3, <3>1 DEF TypeInv, Types
    <2>2. /\ pendingFinish' \in Seq(Requests) /\ flight' \in Seq(Seq(Requests))
          /\ Len(flight') <= Depth /\ pendingLoad' \in Seq(Requests)
          /\ sent' \in [Requests -> Seq(Chunks)] /\ \A q \in Requests : Len(sent'[q]) <= MaxChunks
          /\ poll' \in [request : Requests \cup {NoRequest}, step : {"mark", "fill"}]
          /\ input' \in [Requests -> [chunk : Nat, len : 0..ChunkTokens, computed : Nat]]
      <3>1. flight' = <<>>
        BY <1>1, <1>2, LastStep
      <3> QED
        BY <1>1, <1>2, <3>1 DEF TypeInv, Types
    <2>3. {taken', got'} \subseteq [Requests -> Nat]
      <3>1. got \in [Requests -> Nat] /\ taken' \in [Requests -> Nat]
        BY <1>1, <1>2 DEF TypeInv, Types
      <3>2. got' \in [Requests -> Nat]
        BY <1>3, <3>1
      <3> QED
        BY <3>1, <3>2
    <2>4. origin' \in [Requests -> {"WAITING", "RUNNING", NoStatus}]
      BY <1>1, <1>3 DEF TypeInv, Types
    <2>5. status' \in [Requests -> Statuses]
      BY <1>1, <1>2 DEF TypeInv, Types, Statuses
    <2>6. spoiled' \subseteq Requests
      <3>1. Elements(Stopped) \subseteq requests /\ requests \subseteq Requests
        BY <1>1, StoppedFacts DEF TypeInv, Types
      <3> QED
        BY <1>1, <1>2, <3>1 DEF Overtaken, TypeInv, Types
    <2> QED
      BY <1>13, <1>14, <2>1, <2>2, <2>3, <2>4, <2>5, <2>6 DEF TypeInv, Types, Queued
  <1>16. StepInv'
    <2>1. flight' = <<>> /\ pendingFinish' = <<>>
      BY <1>1, <1>2, LastStep
    <2>2. Flying' = <<>>
      BY <2>1 DEF Flying
    <2>3. \A r \in Requests : status'[r] = "NEW" => r \notin requests'
      <3>1. \A r \in Requests : status'[r] = "NEW" => status[r] = "NEW"
        BY <1>2
      <3> QED
        BY <1>1, <1>2, <3>1 DEF StepInv
    <2> QED
      BY <2>1, <2>2, <2>3, EmptyQueue DEF StepInv
  <1> QED
    BY <1>15, <1>16 DEF QueueInv

(* The queues stay right.                                                  *)
LEMMA NextQueueInv ==
    ASSUME Depth = 1, QueueInv, [Next]_vars
    PROVE  QueueInv'
  <1>1. CASE UNCHANGED vars
    <2>1. UNCHANGED queues
      BY <1>1 DEF vars, queues
    <2>2. TypeInv'
      BY <1>1 DEF QueueInv, TypeInv, Types, vars, Queued
    <2> QED
      BY <2>1, <2>2, StepInvKept DEF QueueInv
  <1>2. ASSUME NEW r \in Requests, Send(r) PROVE QueueInv'
    BY <1>2, SendQueueInv
  <1>3. ASSUME NEW r \in Requests, Arrive(r) PROVE QueueInv'
    BY <1>3, ArriveQueueInv
  <1>4. ASSUME NEW r \in Requests, Abort(r) PROVE QueueInv'
    BY <1>4, AbortQueueInv
  <1>5. CASE Receive
    BY <1>5, TakeQueueInv, MarkQueueInv, FillQueueInv DEF Receive
  <1>6. CASE Schedule
    <2>1. PICK step, ended, run, wait, granted, more :
             Scheduled(step, ended, run, wait, granted, more)
      BY <1>6, ScheduleIsScheduled DEF QueueInv
    <2> QED
      BY <2>1, ScheduledQueueInv
  <1>7. CASE Update
    BY <1>7, UpdateQueueInv
  <1> QED
    BY <1>1, <1>2, <1>3, <1>4, <1>5, <1>6, <1>7 DEF Next

(* With one step in flight the variables have their types, only live       *)
(* requests are queued and none is queued twice, for any requests, queue   *)
(* sizes, streams and chunk lengths: an abort or a stop removes its        *)
(* request from the queue that it is in.  (_realign_request_status_to_     *)
(* queues, update_from_output)                                             *)
THEOREM TypeCorrect ==
    ASSUME Depth = 1
    PROVE  Spec => []TypeOK
  <1>1. QueueInv => TypeOK
    BY DEF QueueInv, TypeInv, TypeOK
  <1>2. Init => QueueInv
    BY InitQueueInv
  <1>3. QueueInv /\ [Next]_vars => QueueInv'
    BY NextQueueInv
  <1> QED
    BY <1>1, <1>2, <1>3, PTL DEF Spec

-----------------------------------------------------------------------------
(* The chunks that have been played.                                       *)

(* Nothing is the first 0 chunks.                                          *)
LEMMA PlayedNothing ==
    ASSUME NEW s
    PROVE  FirstChunks(<<>>, s, 0)
  BY DEF FirstChunks, Elements

(* A chunk without anything to play adds nothing.                          *)
LEMMA PlayedEmpty ==
    ASSUME NEW p, NEW s, NEW k \in Nat, k # 0, FirstChunks(p, s, k - 1), ~Playable(s[k])
    PROVE  FirstChunks(p, s, k)
  <1>1. 1..k = 1..(k - 1) \cup {k}
    OBVIOUS
  <1>2. {i \in 1..k : Playable(s[i])} = {i \in 1..(k - 1) : Playable(s[i])}
    BY <1>1
  <1> QED
    BY <1>2 DEF FirstChunks

(* The next chunk follows the ones before it.                              *)
LEMMA PlayedNext ==
    ASSUME NEW p \in Seq(Nat), NEW s, NEW k \in Nat, k # 0,
           FirstChunks(p, s, k - 1), Playable(s[k])
    PROVE  FirstChunks(Append(p, k), s, k)
  <1> DEFINE a == Append(p, k)
             S == {i \in 1..(k - 1) : Playable(s[i])}
             T == {i \in 1..k : Playable(s[i])}
  <1>1. 1..k = 1..(k - 1) \cup {k}
    OBVIOUS
  <1>2. T = S \cup {k}
    BY <1>1
  <1>3. Elements(p) = S /\ \A i, j \in DOMAIN p : i < j => p[i] < p[j]
    BY DEF FirstChunks
  <1>4. Elements(a) = S \cup {k}
    BY <1>3, AppendFacts
  <1>5. \A i \in DOMAIN p : p[i] < k /\ p[i] \in Nat
    <2>1. \A x \in S : x < k
      OBVIOUS
    <2>2. \A i \in DOMAIN p : p[i] \in S
      BY <1>3 DEF Elements
    <2> QED
      BY <2>1, <2>2
  <1>6. \A i, j \in DOMAIN a : i < j => a[i] < a[j]
    <2> SUFFICES ASSUME NEW i \in DOMAIN a, NEW j \in DOMAIN a, i < j PROVE a[i] < a[j]
      OBVIOUS
    <2>1. /\ DOMAIN a = 1..(Len(p) + 1) /\ DOMAIN p = 1..Len(p) /\ Len(p) \in Nat
          /\ a[Len(p) + 1] = k /\ \A l \in 1..Len(p) : a[l] = p[l]
      OBVIOUS
    <2> HIDE DEF a
    <2>2. i \in 1..Len(p) /\ (j \in 1..Len(p) \/ j = Len(p) + 1)
      BY <2>1
    <2> QED
      BY <1>3, <1>5, <2>1, <2>2
  <1> HIDE DEF a, S
  <1> QED
    BY <1>2, <1>4, <1>6 DEF FirstChunks, a

(* Chunks that come later change nothing of what has been played.          *)
LEMMA PlayedBefore ==
    ASSUME NEW p, NEW s \in Seq(Chunks), NEW c \in Chunks, NEW k \in 0..Len(s)
    PROVE  FirstChunks(p, Append(s, c), k) <=> FirstChunks(p, s, k)
  <1>1. \A i \in 1..k : Append(s, c)[i] = s[i]
    OBVIOUS
  <1>2. {i \in 1..k : Playable(Append(s, c)[i])} = {i \in 1..k : Playable(s[i])}
    BY <1>1
  <1> QED
    BY <1>2 DEF FirstChunks

-----------------------------------------------------------------------------
(* Where a request stands between the receive thread and the scheduler.    *)

Asked(r) == r \in Elements(pendingLoad)
Polled(r) == poll.request = r

(* Of a spoiled stream nothing is said.                                    *)
Played(r, k) == r \in spoiled \/ FirstChunks(played[r], sent[r], k)

(* The mark that the adapter has noted is that of the chunk read last.     *)
MarkSeen(r) ==
    /\ r \in done => got[r] \in DOMAIN sent[r] /\ sent[r][got[r]].mark = "finished"
    /\ r \in segmented => got[r] \in DOMAIN sent[r] /\ sent[r][got[r]].mark = "segment"

(* The chunk read last is the input of the request and is not yet played:  *)
(* none of it has been computed, or, of the last chunk, not all.           *)
Holds(r) ==
    /\ taken[r] = got[r] /\ got[r] \in DOMAIN sent[r]
    /\ input[r].chunk = got[r] /\ input[r].len = Length(sent[r][got[r]])
    /\ input[r].computed = 0 \/ (DoneReceiving(r) /\ input[r].computed < input[r].len)
    /\ ~Empty(sent[r][got[r]])
    /\ Played(r, got[r] - 1)
    /\ MarkSeen(r)

(* A live request is polled, loaded or schedulable, one at a time.         *)
PlaceOK(r) ==
    /\ ~(Asked(r) /\ Polled(r))
    /\ r \in requests =>
          /\ r \in finishedLoad => ~Asked(r) /\ ~Polled(r)
          /\ status[r] = "WAITING_FOR_CHUNK" => r \notin ready
          /\ status[r] # "WAITING_FOR_CHUNK" =>
                ~Asked(r) /\ ~Polled(r) /\ r \notin finishedLoad

(* Only resumable requests have segments, and until their stream ends.     *)
ResumableOK(r) ==
    /\ r \in segmented => r \in Resumable
    /\ r \in Resumable => (r \in done <=> r \notin resumable)
    /\ r \in resumable => r \in Resumable

(* A live request waits for its next chunk, and has played those before;   *)
AskingOK(r) ==
    /\ Asked(r) => taken[r] = got[r] /\ Played(r, got[r]) /\ ~DoneReceiving(r)
    /\ Polled(r) /\ poll.step = "mark" =>
          taken[r] = got[r] + 1 /\ Played(r, got[r]) /\ ~DoneReceiving(r)
    /\ Polled(r) /\ poll.step = "fill" =>
          /\ taken[r] = got[r] /\ got[r] \in DOMAIN sent[r]
          /\ Played(r, got[r] - 1) /\ MarkSeen(r)

(* or it holds one; or it has played the one that it held, and at the end  *)
(* of a stream or a segment it is in the step in flight; or a step has cut *)
(* the last chunk, which it then still holds.                              *)
HoldingOK(r) ==
    /\ r \in finishedLoad \cup ready => Holds(r)
    /\ status[r] # "WAITING_FOR_CHUNK" /\ r \notin ready =>
          /\ taken[r] = got[r] /\ MarkSeen(r) /\ r \notin Elements(pendingFinish)
          /\ \/ /\ Played(r, got[r])
                /\ DoneReceiving(r) =>
                      r \in Elements(Flying) /\ input[r].computed >= input[r].len
             \/ Holds(r) /\ DoneReceiving(r) /\ input[r].computed < input[r].len
    /\ r \in Elements(Flying) => status[r] # "WAITING_FOR_CHUNK" /\ r \notin ready
    /\ r \in Elements(pendingFinish) =>
          status[r] # "WAITING_FOR_CHUNK" /\ DoneReceiving(r) /\ input[r].len = 0

LiveOK(r) ==
    /\ r \notin cancelled
    /\ status[r] # "FINISHED_STOPPED"
    /\ taken[r] <= Len(sent[r]) /\ got[r] <= Len(sent[r])
    /\ ResumableOK(r) /\ AskingOK(r) /\ HoldingOK(r)

(* A request that has not arrived is nowhere.                              *)
NewOK(r) ==
    status[r] = "NEW" =>
       /\ ~Asked(r) /\ ~Polled(r) /\ r \notin finishedLoad \cup ready \cup cancelled
       /\ r \notin done \cup segmented
       /\ taken[r] = 0 /\ got[r] = 0 /\ played[r] = <<>>
       /\ r \in resumable <=> r \in Resumable

(* Only the last chunk of a stream ends it.                                *)
SentOK(r) ==
    \A i \in DOMAIN sent[r] :
        /\ sent[r][i].mark = "finished" => i = Len(sent[r])
        /\ sent[r][i].mark = "segment" => r \in Resumable

(* What StreamPlayed says of one request.                                  *)
EndOK(r) ==
    /\ \E k \in 0..Len(sent[r]) : Played(r, k)
    /\ status[r] = "FINISHED_STOPPED" => StreamEnded(r) /\ Played(r, Len(sent[r]))

StreamOK(r) ==
    /\ PlaceOK(r) /\ NewOK(r) /\ SentOK(r) /\ EndOK(r)
    /\ r \in requests => LiveOK(r)

StreamInv ==
    /\ NoneTwice(pendingLoad)
    /\ played \in [Requests -> Seq(Nat)]
    /\ \A r \in Requests : StreamOK(r)

-----------------------------------------------------------------------------
(* The steps of the sender, of the receive thread and of the front end.    *)

(* A step leaves a request where it was.                                   *)
SameView(r) ==
    /\ sent'[r] = sent[r] /\ taken'[r] = taken[r] /\ got'[r] = got[r]
    /\ input'[r] = input[r] /\ status'[r] = status[r] /\ played'[r] = played[r]
    /\ Asked(r)' <=> Asked(r)
    /\ Polled(r)' <=> Polled(r)
    /\ Polled(r) => poll'.step = poll.step
    /\ r \in finishedLoad' <=> r \in finishedLoad
    /\ r \in cancelled' <=> r \in cancelled
    /\ r \in ready' <=> r \in ready
    /\ r \in done' <=> r \in done
    /\ r \in segmented' <=> r \in segmented
    /\ r \in resumable' <=> r \in resumable
    /\ r \in requests' <=> r \in requests
    /\ r \in Elements(pendingFinish)' <=> r \in Elements(pendingFinish)
    /\ r \in Elements(Flying)' <=> r \in Elements(Flying)
    /\ r \in spoiled' <=> r \in spoiled

(* Then it is still right there.                                           *)
LEMMA ViewKept ==
    ASSUME NEW r \in Requests, SameView(r), StreamOK(r)
    PROVE  StreamOK(r)'
  <1>1. /\ sent'[r] = sent[r] /\ taken'[r] = taken[r] /\ got'[r] = got[r]
        /\ input'[r] = input[r] /\ status'[r] = status[r] /\ played'[r] = played[r]
        /\ Asked(r)' <=> Asked(r)
        /\ Polled(r)' <=> Polled(r)
        /\ Polled(r) => poll'.step = poll.step
        /\ r \in finishedLoad' <=> r \in finishedLoad
        /\ r \in cancelled' <=> r \in cancelled
        /\ r \in ready' <=> r \in ready
        /\ r \in done' <=> r \in done
        /\ r \in segmented' <=> r \in segmented
        /\ r \in resumable' <=> r \in resumable
        /\ r \in requests' <=> r \in requests
        /\ r \in Elements(pendingFinish)' <=> r \in Elements(pendingFinish)
        /\ r \in Elements(Flying)' <=> r \in Elements(Flying)
        /\ r \in spoiled' <=> r \in spoiled
    BY DEF SameView
  <1>2. PlaceOK(r) /\ NewOK(r) /\ SentOK(r) /\ EndOK(r) /\ (r \in requests => LiveOK(r))
    BY DEF StreamOK
  <1>3. PlaceOK(r)'
    BY <1>1, <1>2 DEF PlaceOK
  <1>4. NewOK(r)'
    BY <1>1, <1>2 DEF NewOK
  <1>5. SentOK(r)'
    BY <1>1, <1>2 DEF SentOK
  <1>6. \A k : Played(r, k)' <=> Played(r, k)
    BY <1>1 DEF Played
  <1>7. EndOK(r)'
    BY <1>1, <1>2, <1>6 DEF EndOK, StreamEnded
  <1>8. MarkSeen(r)' <=> MarkSeen(r)
    BY <1>1 DEF MarkSeen
  <1>9. DoneReceiving(r)' <=> DoneReceiving(r)
    BY <1>1 DEF DoneReceiving
  <1>10. ASSUME LiveOK(r) PROVE LiveOK(r)'
    <2>1. ResumableOK(r)'
      BY <1>1, <1>10 DEF LiveOK, ResumableOK
    <2>2. AskingOK(r)'
      BY <1>1, <1>6, <1>8, <1>9, <1>10 DEF LiveOK, AskingOK
    <2>3. Holds(r)' <=> Holds(r)
      BY <1>1, <1>6, <1>8, <1>9 DEF Holds
    <2>4. HoldingOK(r)'
      BY <1>1, <1>6, <1>8, <1>9, <1>10, <2>3 DEF LiveOK, HoldingOK
    <2> QED
      BY <1>1, <1>10, <2>1, <2>2, <2>4 DEF LiveOK
  <1> QED
    BY <1>1, <1>2, <1>3, <1>4, <1>5, <1>7, <1>10 DEF StreamOK

(* At the start nothing has been sent and nobody has arrived.              *)
LEMMA InitStreamInv ==
    ASSUME Init
    PROVE  StreamInv
  <1>1. NoneTwice(pendingLoad) /\ played \in [Requests -> Seq(Nat)]
    BY EmptyQueue DEF Init
  <1>2. ASSUME NEW r \in Requests PROVE StreamOK(r)
    <2>1. /\ sent[r] = <<>> /\ taken[r] = 0 /\ got[r] = 0 /\ status[r] = "NEW"
          /\ played[r] = <<>> /\ resumable = Resumable
          /\ finishedLoad = {} /\ cancelled = {} /\ done = {} /\ segmented = {} /\ ready = {}
          /\ requests = {} /\ ~Asked(r) /\ ~Polled(r)
      BY EmptyQueue, ChunkAssumption DEF Init, Asked, Polled, Idle
    <2>2. PlaceOK(r) /\ NewOK(r)
      BY <2>1 DEF PlaceOK, NewOK
    <2>3. SentOK(r)
      BY <2>1 DEF SentOK
    <2>4. EndOK(r)
      <3>1. Played(r, 0) /\ 0 \in 0..Len(sent[r])
        BY <2>1, PlayedNothing DEF Played
      <3> QED
        BY <2>1, <3>1 DEF EndOK
    <2> QED
      BY <2>1, <2>2, <2>3, <2>4 DEF StreamOK
  <1> QED
    BY <1>1, <1>2 DEF StreamInv

(* A chunk that is put after the others.                                   *)
LEMMA SendStreamInv ==
    ASSUME QueueInv, StreamInv, NEW q \in Requests, Send(q)
    PROVE  StreamInv'
  <1>1. /\ UNCHANGED <<taken, got, poll, pendingLoad, finishedLoad, cancelled, done, segmented,
                       resumable, input, ready, origin, status, requests, pendingFinish, flight,
                       played, spoiled>>
    BY DEF Send, threadVars, streamVars, queueVars
  <1>2. PICK c \in Chunks : /\ c.mark = "segment" => q \in Resumable
                            /\ sent' = [sent EXCEPT ![q] = Append(@, c)]
    BY DEF Send
  <1>3. \A r \in Requests : sent[r] \in Seq(Chunks) /\ StreamOK(r)
    BY DEF QueueInv, TypeInv, Types, StreamInv
  <1>4. ASSUME NEW r \in Requests, sent'[r] = sent[r] PROVE StreamOK(r)'
    <2>1. SameView(r)
      BY <1>1, <1>4 DEF SameView, Asked, Polled, Flying
    <2> QED
      BY <1>3, <2>1, ViewKept
  <1>5. ASSUME sent'[q] = Append(sent[q], c) PROVE StreamOK(q)'
    <2> DEFINE s == sent[q]
    <2>1. s \in Seq(Chunks) /\ Len(s) \in Nat
      BY <1>3
    <2>2. /\ Len(sent'[q]) = Len(s) + 1
          /\ \A i \in 1..Len(s) : sent'[q][i] = s[i]
          /\ sent'[q][Len(s) + 1] = c
          /\ DOMAIN sent'[q] = 1..(Len(s) + 1) /\ DOMAIN s = 1..Len(s)
      BY <1>5, <2>1
    <2>3. ~StreamEnded(q)
      BY DEF Send
    <2>4. \A i \in DOMAIN s : s[i].mark # "finished"
      BY <1>3, <2>1, <2>3 DEF StreamOK, SentOK, StreamEnded
    <2>5. \A k \in 0..Len(s) : Played(q, k)' <=> Played(q, k)
      BY <1>1, <1>5, <2>1, PlayedBefore DEF Played
    <2> HIDE DEF s
    <2>6. PlaceOK(q)' /\ NewOK(q)'
      BY <1>1, <1>3 DEF StreamOK, PlaceOK, NewOK, Asked, Polled
    <2>7. SentOK(q)'
      <3>1. SentOK(q)
        BY <1>3 DEF StreamOK
      <3>2. \A i \in 1..(Len(s) + 1) : i \in 1..Len(s) \/ i = Len(s) + 1
        BY <2>1
      <3>3. ASSUME NEW i \in 1..(Len(s) + 1)
            PROVE  /\ sent'[q][i].mark = "finished" => i = Len(sent'[q])
                   /\ sent'[q][i].mark = "segment" => q \in Resumable
        BY <1>2, <2>2, <2>4, <3>1, <3>2, <3>3 DEF SentOK, s
      <3> QED
        BY <2>2, <3>3 DEF SentOK
    <2>8. EndOK(q)'
      <3>1. EndOK(q) /\ status'[q] = status[q]
        BY <1>1, <1>3 DEF StreamOK
      <3>2. status[q] # "FINISHED_STOPPED"
        BY <2>3, <3>1 DEF EndOK
      <3>3. PICK k \in 0..Len(s) : Played(q, k)
        BY <3>1 DEF EndOK, s
      <3>4. k \in 0..Len(sent'[q]) /\ Played(q, k)'
        BY <2>1, <2>2, <2>5, <3>3
      <3> QED
        BY <3>1, <3>2, <3>4 DEF EndOK
    <2>9. ASSUME q \in requests PROVE LiveOK(q)'
      <3>1. LiveOK(q)
        BY <1>3, <2>9 DEF StreamOK
      <3>2. /\ got[q] \in Nat /\ taken[q] \in Nat /\ got[q] <= Len(s) /\ taken[q] <= Len(s)
        BY <3>1 DEF LiveOK, QueueInv, TypeInv, Types, s
      <3>3. /\ Played(q, got[q])' <=> Played(q, got[q])
            /\ got[q] \in DOMAIN s => (Played(q, got[q] - 1)' <=> Played(q, got[q] - 1))
            /\ got[q] \in DOMAIN s => got[q] \in DOMAIN sent'[q]
            /\ got[q] \in DOMAIN s => sent'[q][got[q]] = s[got[q]]
        <4>1. got[q] \in 0..Len(s) /\ (got[q] \in 1..Len(s) => got[q] - 1 \in 0..Len(s))
          BY <2>1, <3>2
        <4>2. got[q] \in 1..Len(s) => got[q] \in 1..(Len(s) + 1)
          BY <2>1, <3>2
        <4>3. PICK g \in Nat : g = got[q] /\ g = got'[q]
          BY <1>1, <3>2
        <4>4. Played(q, g)' <=> Played(q, g)
          BY <2>5, <4>1, <4>3
        <4>5. g \in DOMAIN s => (Played(q, g - 1)' <=> Played(q, g - 1))
          BY <2>2, <2>5, <4>1, <4>3
        <4>6. got[q] \in DOMAIN s => got[q] \in DOMAIN sent'[q] /\ sent'[q][got[q]] = s[got[q]]
          BY <2>2, <4>1, <4>2
        <4> QED
          BY <4>3, <4>4, <4>5, <4>6 DEF Played
      <3>4. /\ MarkSeen(q) => MarkSeen(q)'
            /\ DoneReceiving(q)' <=> DoneReceiving(q)
        BY <1>1, <3>3 DEF MarkSeen, DoneReceiving, s
      <3>5. ResumableOK(q)'
        BY <1>1, <3>1 DEF LiveOK, ResumableOK
      <3>7. AskingOK(q)'
        BY <1>1, <3>1, <3>3, <3>4 DEF LiveOK, AskingOK, Asked, Polled, s
      <3>8. Holds(q) => Holds(q)'
        BY <1>1, <3>3, <3>4 DEF Holds, s
      <3>9. HoldingOK(q)'
        BY <1>1, <3>1, <3>3, <3>4, <3>8 DEF LiveOK, HoldingOK, Flying
      <3>10. taken'[q] <= Len(sent'[q]) /\ got'[q] <= Len(sent'[q])
        BY <1>1, <2>1, <2>2, <3>2
      <3> QED
        BY <1>1, <3>1, <3>5, <3>7, <3>9, <3>10 DEF LiveOK
    <2> QED
      BY <1>1, <2>6, <2>7, <2>8, <2>9 DEF StreamOK
  <1>6. \A r \in Requests : sent'[r] = sent[r] \/ (r = q /\ sent'[r] = Append(sent[r], c))
    BY <1>2 DEF QueueInv, TypeInv, Types
  <1>7. \A r \in Requests : StreamOK(r)'
    BY <1>4, <1>5, <1>6
  <1> QED
    BY <1>1, <1>7 DEF StreamInv

(* Of a request that has ended only what it has played matters.            *)
LEMMA DeadKept ==
    ASSUME NEW r \in Requests, StreamOK(r),
           r \notin requests', status'[r] # "NEW",
           status'[r] = "FINISHED_STOPPED" => status[r] = "FINISHED_STOPPED",
           sent'[r] = sent[r], played'[r] = played[r], r \in spoiled => r \in spoiled',
           ~(Asked(r) /\ Polled(r))'
    PROVE  StreamOK(r)'
  <1>1. SentOK(r) /\ EndOK(r)
    BY DEF StreamOK
  <1>2. PlaceOK(r)' /\ NewOK(r)'
    BY DEF PlaceOK, NewOK
  <1>3. SentOK(r)'
    BY <1>1 DEF SentOK
  <1>4. EndOK(r)'
    BY <1>1 DEF EndOK, Played, StreamEnded
  <1> QED
    BY <1>2, <1>3, <1>4 DEF StreamOK

(* A live request that is polled or has asked waits for its chunk.         *)
LEMMA LiveWaits ==
    ASSUME NEW r \in Requests, StreamOK(r), r \in requests, Asked(r) \/ Polled(r)
    PROVE  /\ status[r] = "WAITING_FOR_CHUNK"
           /\ r \notin finishedLoad /\ r \notin ready
           /\ r \notin Elements(Flying) /\ r \notin Elements(pendingFinish)
           /\ r \notin cancelled
  BY DEF StreamOK, PlaceOK, LiveOK, HoldingOK

(* The receive thread takes a request that has asked, and no other.        *)
LEMMA TakeStreamInv ==
    ASSUME QueueInv, StreamInv, Take
    PROVE  StreamInv'
  <1>1. /\ UNCHANGED <<sent, got, finishedLoad, done, segmented, resumable, input, ready, origin,
                       status, requests, pendingFinish, flight, played, spoiled>>
    BY DEF Take, streamVars, queueVars
  <1>2. PICK r : r = Head(pendingLoad)
    OBVIOUS
  <1>3. PICK t : t = Tail(pendingLoad)
    OBVIOUS
  <1>4. /\ r \in Requests /\ t \in Seq(Requests)
        /\ Elements(pendingLoad) = {r} \cup Elements(t)
        /\ NoneTwice(t) /\ r \notin Elements(t)
    <2>1. pendingLoad \in Seq(Requests) /\ pendingLoad # <<>> /\ NoneTwice(pendingLoad)
      BY DEF QueueInv, TypeInv, Types, Take, StreamInv
    <2> QED
      BY <1>2, <1>3, <2>1, TailFacts
  <1>5. \A q \in Requests : StreamOK(q) /\ ~Polled(q) /\ (Asked(q) <=> q = r \/ q \in Elements(t))
    BY <1>4, ChunkAssumption DEF StreamInv, Take, Polled, Idle, Asked
  <1>6. taken \in [Requests -> Nat] /\ got \in [Requests -> Nat]
    BY DEF QueueInv, TypeInv, Types
  <1>7. ASSUME NEW q \in Requests, taken'[q] = taken[q],
               ~Polled(q)', Asked(q)' <=> Asked(q), q \in cancelled' <=> q \in cancelled
        PROVE  StreamOK(q)'
    <2>1. SameView(q)
      BY <1>1, <1>5, <1>7 DEF SameView, Flying
    <2> QED
      BY <1>5, <2>1, ViewKept
  <1>8. CASE r \in cancelled
    <2>1. /\ cancelled' = cancelled \ {r} /\ pendingLoad' = t /\ taken' = taken /\ poll' = poll
      BY <1>2, <1>3, <1>8 DEF Take
    <2>2. \A q \in Requests : ~Polled(q)' /\ (Asked(q)' <=> q \in Elements(t))
      BY <1>5, <2>1 DEF Asked, Polled
    <2>3. ASSUME NEW q \in Requests, q # r PROVE StreamOK(q)'
      BY <1>5, <1>7, <2>1, <2>2, <2>3
    <2>4. StreamOK(r)'
      <3>1. StreamOK(r) /\ Asked(r)
        BY <1>4, <1>5
      <3>2. r \notin requests
        BY <1>4, <1>8, <3>1, LiveWaits
      <3>3. status[r] # "NEW"
        BY <3>1 DEF StreamOK, NewOK
      <3>4. ~(Asked(r) /\ Polled(r))'
        BY <1>4, <2>2
      <3> QED
        BY <1>1, <1>4, <3>1, <3>2, <3>3, <3>4, DeadKept
    <2> QED
      BY <1>1, <1>4, <2>1, <2>3, <2>4 DEF StreamInv
  <1>9. CASE r \notin cancelled /\ Readable(r)
    <2>1. /\ taken' = [taken EXCEPT ![r] = got[r] + 1] /\ pendingLoad' = t
          /\ poll' = [request |-> r, step |-> "mark"] /\ cancelled' = cancelled
      BY <1>2, <1>3, <1>9 DEF Take
    <2>2. \A q \in Requests : (Polled(q)' <=> q = r) /\ (Asked(q)' <=> q \in Elements(t))
      BY <2>1 DEF Asked, Polled
    <2>3. ASSUME NEW q \in Requests, q # r PROVE StreamOK(q)'
      <3>1. taken'[q] = taken[q]
        BY <1>6, <2>1, <2>3
      <3> QED
        BY <1>5, <1>7, <2>1, <2>2, <2>3, <3>1
    <2>4. StreamOK(r)'
      <3>1. StreamOK(r) /\ Asked(r) /\ ~Asked(r)' /\ Polled(r)' /\ poll'.step = "mark"
        BY <1>4, <1>5, <2>1, <2>2
      <3>2. CASE r \notin requests
        <4>1. status[r] # "NEW"
          BY <3>1 DEF StreamOK, NewOK
        <4> QED
          BY <1>1, <1>4, <3>1, <3>2, <4>1, DeadKept
      <3>3. CASE r \in requests
        <4>1. /\ status[r] = "WAITING_FOR_CHUNK"
              /\ r \notin finishedLoad /\ r \notin ready
              /\ r \notin Elements(Flying) /\ r \notin Elements(pendingFinish)
          BY <1>4, <3>1, <3>3, LiveWaits
        <4>2. LiveOK(r) /\ SentOK(r) /\ EndOK(r) /\ r \in requests'
          BY <1>1, <3>1, <3>3 DEF StreamOK
        <4>3. taken'[r] = got[r] + 1 /\ got'[r] = got[r] /\ got[r] < Len(sent[r])
          BY <1>1, <1>4, <1>6, <1>9, <2>1 DEF Readable
        <4>4. Played(r, got[r]) /\ ~DoneReceiving(r)
          BY <3>1, <4>2 DEF LiveOK, AskingOK
        <4>5. PlaceOK(r)' /\ NewOK(r)'
          BY <1>1, <3>1, <4>1 DEF PlaceOK, NewOK
        <4>6. SentOK(r)' /\ EndOK(r)'
          BY <1>1, <4>2 DEF SentOK, EndOK, Played, StreamEnded
        <4>7. AskingOK(r)'
          BY <1>1, <3>1, <4>3, <4>4 DEF AskingOK, Played, DoneReceiving
        <4>8. HoldingOK(r)'
          BY <1>1, <4>1 DEF HoldingOK, Flying
        <4>9. ResumableOK(r)'
          BY <1>1, <4>2 DEF LiveOK, ResumableOK
        <4>10. taken'[r] <= Len(sent'[r]) /\ got'[r] <= Len(sent'[r])
          <5>1. got[r] \in Nat /\ Len(sent[r]) \in Nat
            BY <1>4, <1>6 DEF QueueInv, TypeInv, Types
          <5> QED
            BY <1>1, <4>3, <5>1
        <4>11. LiveOK(r)'
          BY <1>1, <2>1, <4>1, <4>2, <4>7, <4>8, <4>9, <4>10 DEF LiveOK
        <4> QED
          BY <4>5, <4>6, <4>11 DEF StreamOK
      <3> QED
        BY <3>2, <3>3
    <2> QED
      BY <1>1, <1>4, <2>1, <2>3, <2>4 DEF StreamInv
  <1>10. CASE r \notin cancelled /\ ~Readable(r)
    <2>1. /\ pendingLoad' = Append(t, r)
          /\ UNCHANGED <<taken, cancelled, poll>>
      BY <1>2, <1>3, <1>10 DEF Take
    <2>2. Elements(Append(t, r)) = Elements(t) \cup {r} /\ NoneTwice(Append(t, r))
      BY <1>4, AppendFacts
    <2>3. ASSUME NEW q \in Requests PROVE StreamOK(q)'
      <3>1. ~Polled(q)' /\ (Asked(q)' <=> Asked(q))
        BY <1>4, <1>5, <2>1, <2>2 DEF Asked, Polled
      <3> QED
        BY <1>7, <2>1, <3>1
    <2> QED
      BY <1>1, <2>1, <2>2, <2>3 DEF StreamInv
  <1> QED
    BY <1>8, <1>9, <1>10

(* The chunk that is counted is the one that has been taken.               *)
LEMMA MarkStreamInv ==
    ASSUME QueueInv, StreamInv, Mark
    PROVE  StreamInv'
  <1>1. /\ UNCHANGED <<sent, taken, pendingLoad, finishedLoad, cancelled, input, ready, origin,
                       status, requests, pendingFinish, flight, played, spoiled>>
    BY DEF Mark, queueVars
  <1>2. PICK r \in Requests : r = poll.request
    BY DEF Mark
  <1>3. PICK mark : mark = sent[r][taken[r]].mark
    OBVIOUS
  <1>4. /\ got' = [got EXCEPT ![r] = @ + 1]
        /\ done' = IF mark = "finished" THEN done \cup {r} ELSE done
        /\ resumable' = IF mark = "finished" THEN resumable \ {r} ELSE resumable
        /\ segmented' = IF mark = "segment" THEN segmented \cup {r} ELSE segmented
        /\ poll' = [poll EXCEPT !.step = "fill"] /\ poll.step = "mark"
    BY <1>2, <1>3 DEF Mark
  <1>5. /\ taken \in [Requests -> Nat] /\ got \in [Requests -> Nat]
        /\ sent \in [Requests -> Seq(Chunks)]
        /\ poll \in [request : Requests \cup {NoRequest}, step : {"mark", "fill"}]
    BY DEF QueueInv, TypeInv, Types
  <1>6. poll'.request = r /\ poll'.step = "fill"
    BY <1>2, <1>4, <1>5
  <1>7. \A q \in Requests : StreamOK(q) /\ (Polled(q) <=> q = r) /\ (Polled(q)' <=> q = r)
                            /\ (Asked(q)' <=> Asked(q))
    BY <1>1, <1>2, <1>6 DEF StreamInv, Polled, Asked
  <1>8. ASSUME NEW q \in Requests, q # r PROVE StreamOK(q)'
    <2>1. got'[q] = got[q]
      BY <1>4, <1>5, <1>8
    <2>2. SameView(q)
      BY <1>1, <1>4, <1>7, <1>8, <2>1 DEF SameView, Flying
    <2> QED
      BY <1>7, <2>2, ViewKept
  <1>9. StreamOK(r)'
    <2>1. StreamOK(r) /\ Polled(r) /\ ~Asked(r) /\ ~Asked(r)'
      BY <1>7 DEF StreamOK, PlaceOK
    <2>2. CASE r \notin requests
      <3>1. status[r] # "NEW"
        BY <2>1 DEF StreamOK, NewOK
      <3> QED
        BY <1>1, <2>1, <2>2, <3>1, DeadKept
    <2>3. CASE r \in requests
      <3>1. /\ status[r] = "WAITING_FOR_CHUNK"
            /\ r \notin finishedLoad /\ r \notin ready
            /\ r \notin Elements(Flying) /\ r \notin Elements(pendingFinish)
        BY <2>1, <2>3, LiveWaits
      <3>2. LiveOK(r) /\ SentOK(r) /\ EndOK(r)
        BY <2>1, <2>3 DEF StreamOK
      <3>3. taken[r] = got[r] + 1 /\ Played(r, got[r]) /\ ~DoneReceiving(r)
        BY <1>4, <2>1, <3>2 DEF LiveOK, AskingOK
      <3>4. /\ got'[r] = taken[r] /\ taken[r] \in DOMAIN sent[r]
            /\ got'[r] <= Len(sent[r]) /\ got'[r] - 1 = got[r]
        <4>1. taken[r] <= Len(sent[r]) /\ got[r] \in Nat /\ sent[r] \in Seq(Chunks)
          BY <1>5, <3>2 DEF LiveOK
        <4>2. got'[r] = got[r] + 1
          BY <1>4, <1>5
        <4>3. got[r] + 1 \in 1..Len(sent[r])
          BY <3>3, <4>1
        <4> QED
          BY <3>3, <4>1, <4>2, <4>3
      <3>5. /\ r \notin done /\ r \notin segmented
            /\ r \in done' <=> mark = "finished"
            /\ r \in segmented' <=> mark = "segment"
            /\ r \in resumable' <=> r \in resumable /\ mark # "finished"
        BY <1>4, <3>3 DEF DoneReceiving
      <3>6. MarkSeen(r)'
        BY <1>1, <1>3, <3>4, <3>5 DEF MarkSeen
      <3>7. ResumableOK(r)'
        <4>1. mark = "segment" => r \in Resumable
          BY <1>3, <3>2, <3>4 DEF SentOK
        <4> QED
          BY <3>2, <3>5, <4>1 DEF LiveOK, ResumableOK
      <3>8. PlaceOK(r)' /\ NewOK(r)'
        BY <1>1, <2>1, <3>1 DEF PlaceOK, NewOK
      <3>9. SentOK(r)' /\ EndOK(r)'
        BY <1>1, <3>2 DEF SentOK, EndOK, Played, StreamEnded
      <3>10. AskingOK(r)'
        <4>1. Played(r, got[r] - 1)'
          BY <1>1, <3>3, <3>4 DEF Played
        <4> QED
          BY <1>1, <1>6, <2>1, <3>4, <3>6, <4>1 DEF AskingOK
      <3>11. HoldingOK(r)'
        BY <1>1, <3>1 DEF HoldingOK, Flying
      <3>12. LiveOK(r)'
        BY <1>1, <3>1, <3>2, <3>4, <3>7, <3>10, <3>11 DEF LiveOK
      <3> QED
        BY <3>8, <3>9, <3>12 DEF StreamOK
    <2> QED
      BY <2>2, <2>3
  <1> QED
    BY <1>1, <1>8, <1>9 DEF StreamInv

(* The chunk becomes the input, or the request asks for the next one.      *)
LEMMA FillStreamInv ==
    ASSUME QueueInv, StreamInv, Fill
    PROVE  StreamInv'
  <1>1. /\ UNCHANGED <<sent, taken, got, cancelled, done, segmented, resumable, ready, origin,
                       status, requests, pendingFinish, flight, played, spoiled>>
    BY DEF Fill, queueVars
  <1>2. PICK r \in Requests : r = poll.request
    BY DEF Fill
  <1>3. PICK c : c = sent[r][taken[r]]
    OBVIOUS
  <1>4. /\ input' = [input EXCEPT ![r] =
                        [chunk |-> taken[r], len |-> Length(c), computed |-> 0]]
        /\ IF Empty(c)
           THEN pendingLoad' = Append(pendingLoad, r) /\ finishedLoad' = finishedLoad
           ELSE finishedLoad' = finishedLoad \cup {r} /\ pendingLoad' = pendingLoad
        /\ poll' = Idle /\ poll.step = "fill"
    BY <1>2, <1>3 DEF Fill
  <1>5. /\ taken \in [Requests -> Nat] /\ got \in [Requests -> Nat]
        /\ sent \in [Requests -> Seq(Chunks)]
        /\ input \in [Requests -> [chunk : Nat, len : 0..ChunkTokens, computed : Nat]]
        /\ pendingLoad \in Seq(Requests) /\ NoneTwice(pendingLoad)
    BY DEF QueueInv, TypeInv, Types, StreamInv
  <1>6. \A q \in Requests : StreamOK(q) /\ (Polled(q) <=> q = r) /\ ~Polled(q)'
    BY <1>2, <1>4, ChunkAssumption DEF StreamInv, Polled, Idle
  <1>7. StreamOK(r) /\ Polled(r) /\ ~Asked(r)
    BY <1>6 DEF StreamOK, PlaceOK
  <1>8. /\ \A q \in Requests : Asked(q)' <=> Asked(q) \/ (Empty(c) /\ q = r)
        /\ NoneTwice(pendingLoad')
    <2>1. /\ Elements(Append(pendingLoad, r)) = Elements(pendingLoad) \cup {r}
          /\ r \notin Elements(pendingLoad) => NoneTwice(Append(pendingLoad, r))
      BY <1>5, AppendFacts
    <2> QED
      BY <1>4, <1>5, <1>7, <2>1 DEF Asked
  <1>9. \A q \in Requests : q \in finishedLoad' <=> q \in finishedLoad \/ (~Empty(c) /\ q = r)
    BY <1>4
  <1>10. ASSUME NEW q \in Requests, q # r PROVE StreamOK(q)'
    <2>1. input'[q] = input[q]
      BY <1>4, <1>5, <1>10
    <2>2. SameView(q)
      BY <1>1, <1>6, <1>8, <1>9, <1>10, <2>1 DEF SameView, Flying
    <2> QED
      BY <1>6, <2>2, ViewKept
  <1>11. StreamOK(r)'
    <2>1. CASE r \notin requests
      <3>1. status[r] # "NEW"
        BY <1>7 DEF StreamOK, NewOK
      <3> QED
        BY <1>1, <1>6, <1>7, <2>1, <3>1, DeadKept
    <2>2. CASE r \in requests
      <3>1. /\ status[r] = "WAITING_FOR_CHUNK"
            /\ r \notin finishedLoad /\ r \notin ready
            /\ r \notin Elements(Flying) /\ r \notin Elements(pendingFinish)
        BY <1>7, <2>2, LiveWaits
      <3>2. LiveOK(r) /\ SentOK(r) /\ EndOK(r)
        BY <1>7, <2>2 DEF StreamOK
      <3>3. /\ taken[r] = got[r] /\ got[r] \in DOMAIN sent[r]
            /\ Played(r, got[r] - 1) /\ MarkSeen(r)
        BY <1>4, <1>7, <3>2 DEF LiveOK, AskingOK
      <3>4. c = sent[r][got[r]]
        BY <1>3, <3>3
      <3>5. PlaceOK(r)' /\ NewOK(r)'
        BY <1>1, <1>6, <1>7, <1>8, <1>9, <3>1 DEF PlaceOK, NewOK
      <3>6. SentOK(r)' /\ EndOK(r)'
        BY <1>1, <3>2 DEF SentOK, EndOK, Played, StreamEnded
      <3>7. AskingOK(r)'
        <4>1. ASSUME Empty(c) PROVE Played(r, got[r])' /\ ~DoneReceiving(r)'
          <5>1. ~Playable(sent[r][got[r]]) /\ sent[r][got[r]].mark = "none"
            BY <3>4, <4>1 DEF Empty, Playable
          <5>2. got[r] \in Nat /\ got[r] # 0
            BY <1>5, <3>3
          <5>3. Played(r, got[r])
            BY <3>3, <5>1, <5>2, PlayedEmpty DEF Played
          <5>4. ~DoneReceiving(r)
            BY <3>3, <5>1 DEF MarkSeen, DoneReceiving
          <5> QED
            BY <1>1, <5>3, <5>4 DEF Played, DoneReceiving
        <4>2. Asked(r)' => Empty(c)
          BY <1>7, <1>8
        <4> QED
          BY <1>1, <1>6, <3>3, <4>1, <4>2 DEF AskingOK
      <3>8. HoldingOK(r)'
        <4>1. r \in finishedLoad' => ~Empty(c)
          BY <1>9, <3>1
        <4>2. ASSUME ~Empty(c) PROVE Holds(r)'
          <5>1. input'[r] = [chunk |-> got[r], len |-> Length(c), computed |-> 0]
            BY <1>4, <1>5, <3>3
          <5>2. MarkSeen(r)' /\ Played(r, got[r] - 1)'
            BY <1>1, <3>3 DEF MarkSeen, Played
          <5> QED
            BY <1>1, <3>3, <3>4, <4>2, <5>1, <5>2 DEF Holds
        <4> QED
          BY <1>1, <3>1, <4>1, <4>2 DEF HoldingOK, Flying
      <3>9. LiveOK(r)'
        <4>1. ResumableOK(r)'
          BY <1>1, <3>2 DEF LiveOK, ResumableOK
        <4> QED
          BY <1>1, <3>1, <3>2, <3>7, <3>8, <4>1 DEF LiveOK
      <3> QED
        BY <3>5, <3>6, <3>9 DEF StreamOK
    <2> QED
      BY <2>1, <2>2
  <1> QED
    BY <1>1, <1>8, <1>10, <1>11 DEF StreamInv

(* A request that arrives has been nowhere.                                *)
LEMMA ArriveStreamInv ==
    ASSUME QueueInv, StreamInv, NEW r \in Requests, Arrive(r)
    PROVE  StreamInv'
  <1>1. /\ UNCHANGED <<sent, taken, got, poll, pendingLoad, finishedLoad, cancelled, done,
                       segmented, resumable, input, ready, origin, pendingFinish, flight, played,
                       spoiled>>
        /\ status[r] = "NEW" /\ status' = [status EXCEPT ![r] = "WAITING"]
        /\ requests' = requests \cup {r}
    BY DEF Arrive, threadVars, streamVars
  <1>2. status \in [Requests -> Statuses] /\ sent \in [Requests -> Seq(Chunks)]
        /\ \A q \in Requests : StreamOK(q)
    BY DEF QueueInv, TypeInv, Types, StreamInv
  <1>3. ASSUME NEW q \in Requests, q # r PROVE StreamOK(q)'
    <2>1. status'[q] = status[q]
      BY <1>1, <1>2, <1>3
    <2>2. SameView(q)
      BY <1>1, <1>3, <2>1 DEF SameView, Asked, Polled, Flying
    <2> QED
      BY <1>2, <2>2, ViewKept
  <1>4. StreamOK(r)'
    <2>1. status'[r] = "WAITING" /\ r \in requests'
      BY <1>1, <1>2
    <2>2. /\ NewOK(r) /\ SentOK(r) /\ EndOK(r)
      BY <1>2 DEF StreamOK
    <2>3. /\ ~Asked(r) /\ ~Polled(r) /\ r \notin finishedLoad \cup ready \cup cancelled
          /\ r \notin done \cup segmented
          /\ taken[r] = 0 /\ got[r] = 0 /\ played[r] = <<>>
          /\ r \in resumable <=> r \in Resumable
      BY <1>1, <2>2 DEF NewOK
    <2>4. r \notin Elements(Flying) /\ r \notin Elements(pendingFinish)
      BY <1>1 DEF QueueInv, StepInv
    <2>5. ~Asked(r)' /\ ~Polled(r)' /\ ~DoneReceiving(r)' /\ MarkSeen(r)'
      BY <1>1, <2>3 DEF Asked, Polled, DoneReceiving, MarkSeen
    <2>6. Played(r, 0)'
      BY <1>1, <2>3, PlayedNothing DEF Played
    <2>7. PlaceOK(r)' /\ NewOK(r)'
      BY <1>1, <2>1, <2>3, <2>5 DEF PlaceOK, NewOK
    <2>8. SentOK(r)' /\ EndOK(r)'
      BY <1>1, <2>1, <2>2 DEF SentOK, EndOK, Played, StreamEnded
    <2>9. AskingOK(r)' /\ ResumableOK(r)'
      BY <1>1, <2>3, <2>5 DEF AskingOK, ResumableOK
    <2>10. HoldingOK(r)'
      BY <1>1, <2>1, <2>3, <2>4, <2>5, <2>6 DEF HoldingOK, Flying
    <2>11. taken'[r] <= Len(sent'[r]) /\ got'[r] <= Len(sent'[r])
      BY <1>1, <1>2, <2>3
    <2>12. LiveOK(r)'
      BY <1>1, <2>1, <2>3, <2>9, <2>10, <2>11 DEF LiveOK
    <2> QED
      BY <2>7, <2>8, <2>12 DEF StreamOK
  <1> QED
    BY <1>1, <1>3, <1>4 DEF StreamInv

(* A request that is aborted is live no more.                              *)
LEMMA AbortStreamInv ==
    ASSUME QueueInv, StreamInv, NEW r \in Requests, Abort(r)
    PROVE  StreamInv'
  <1>1. /\ UNCHANGED <<sent, taken, got, poll, pendingLoad, segmented, resumable, input,
                       pendingFinish, flight, played, spoiled>>
        /\ status' = [status EXCEPT ![r] = "FINISHED_ABORTED"]
        /\ requests' = requests \ {r} /\ ready' = ready \ {r} /\ done' = done \ {r}
        /\ finishedLoad' = finishedLoad \ {r} /\ cancelled' = cancelled \cup {r}
    BY DEF Abort, threadVars
  <1>2. status \in [Requests -> Statuses] /\ \A q \in Requests : StreamOK(q)
    BY DEF QueueInv, TypeInv, Types, StreamInv
  <1>3. ASSUME NEW q \in Requests, q # r PROVE StreamOK(q)'
    <2>1. status'[q] = status[q]
      BY <1>1, <1>2, <1>3
    <2>2. SameView(q)
      BY <1>1, <1>3, <2>1 DEF SameView, Asked, Polled, Flying
    <2> QED
      BY <1>2, <2>2, ViewKept
  <1>4. StreamOK(r)'
    <2>1. status'[r] = "FINISHED_ABORTED" /\ r \notin requests'
      BY <1>1, <1>2
    <2>2. StreamOK(r) /\ ~(Asked(r) /\ Polled(r))
      BY <1>2 DEF StreamOK, PlaceOK
    <2>3. ~(Asked(r) /\ Polled(r))'
      BY <1>1, <2>2 DEF Asked, Polled
    <2> QED
      BY <1>1, <2>1, <2>2, <2>3, DeadKept
  <1> QED
    BY <1>1, <1>3, <1>4 DEF StreamInv

-----------------------------------------------------------------------------
(* The streams in the steps of the scheduler.                              *)

(* A request that schedule() looks at holds a chunk.                       *)
LEMMA StayingHolds ==
    ASSUME QueueInv, StreamInv, flight = <<>>, NEW q \in requests, Stays(q)
    PROVE  /\ Holds(q) /\ ~Asked(q) /\ ~Polled(q) /\ ~Asks(q)
           /\ \/ Loaded(q)
              \/ /\ q \in ready \/ (DoneReceiving(q) /\ input[q].computed < input[q].len)
                 /\ q \notin finishedLoad /\ status[q] # "WAITING_FOR_CHUNK"
  <1>1. StreamOK(q)
    BY DEF StreamInv, QueueInv, TypeInv, Types
  <1>2. PlaceOK(q) /\ HoldingOK(q)
    BY <1>1 DEF StreamOK, LiveOK
  <1>3. q \notin Elements(Flying)
    BY EmptyQueue DEF Flying
  <1>4. CASE Loaded(q)
    BY <1>2, <1>4 DEF Loaded, PlaceOK, HoldingOK, Asks
  <1>5. CASE ~Loaded(q)
    <2>1. status[q] # "WAITING_FOR_CHUNK" /\ ~Asks(q)
      BY <1>5 DEF Stays, Parked, Loaded
    <2>2. q \in ready \/ DoneReceiving(q)
      BY <2>1 DEF Asks
    <2>3. Holds(q) /\ (q \in ready \/ input[q].computed < input[q].len)
      BY <1>2, <1>3, <2>1, <2>2 DEF HoldingOK
    <2> QED
      BY <1>2, <2>1, <2>2, <2>3 DEF PlaceOK
  <1> QED
    BY <1>4, <1>5

(* A step computes the chunk that a request holds and plays it, or it cuts *)
(* it: of the last chunk the rest stays, of another one it is lost.        *)
LEMMA ComputedIsPlayed ==
    ASSUME QueueInv, StreamInv,
           NEW step, NEW ended, NEW run, NEW wait, NEW granted, NEW more,
           Scheduled(step, ended, run, wait, granted, more),
           NEW q \in Requests, q \in Elements(step), Holds(q)
    PROVE  \/ /\ input'[q].computed >= input'[q].len /\ Played(q, got[q])'
              /\ played'[q] = Append(played[q], got[q]) /\ Playable(sent[q][got[q]])
           \/ /\ input'[q].computed < input'[q].len /\ played'[q] = played[q]
              /\ DoneReceiving(q) /\ Holds(q)'
           \/ ~DoneReceiving(q) /\ q \in spoiled'
  <1>1. /\ input[q] \in [chunk : Nat, len : 0..ChunkTokens, computed : Nat]
        /\ input \in [Requests -> [chunk : Nat, len : 0..ChunkTokens, computed : Nat]]
        /\ got \in [Requests -> Nat] /\ played[q] \in Seq(Nat) /\ more[q] \in Nat /\ more[q] > 0
    BY DEF QueueInv, TypeInv, Types, StreamInv, Scheduled
  <1>2. /\ input' = [r \in Requests |->
              IF r \in Elements(step) THEN [input[r] EXCEPT !.computed = @ + more[r]]
              ELSE input[r]]
        /\ played' = [r \in Requests |->
              IF r \in Elements(step) /\ input[r].computed + more[r] >= input[r].len
              THEN Append(played[r], input[r].chunk) ELSE played[r]]
        /\ spoiled' = spoiled \cup
              {r \in Elements(step) : ~DoneReceiving(r) /\ more[r] < Remaining(r)}
        /\ sent' = sent /\ got' = got /\ taken' = taken /\ done' = done /\ segmented' = segmented
    BY DEF Scheduled, threadVars
  <1>3. PICK n \in Nat, c \in Chunks :
           /\ n = got[q] /\ c = sent[q][n] /\ n # 0
           /\ input[q].chunk = n /\ input[q].len = Length(c)
           /\ Played(q, n - 1)
    <2>1. got[q] \in 1..Len(sent[q]) /\ got[q] \in Nat /\ sent[q][got[q]] \in Chunks
      <3>1. sent[q] \in Seq(Chunks) /\ got[q] \in DOMAIN sent[q]
        BY DEF Holds, QueueInv, TypeInv, Types
      <3> QED
        BY <1>1, <3>1
    <2> QED
      BY <2>1 DEF Holds
  <1>4. Length(c) \in Nat /\ Length(c) > 0
    <2>1. /\ q \in Elements(granted) => Remaining(q) > 0
          /\ q \notin Elements(granted) => HasInput(q)
      BY DEF Scheduled, QueuesDivided
    <2>2. input[q].len = Length(c) /\ input[q].len \in Nat /\ input[q].computed \in Nat
      BY <1>1, <1>3, ChunkAssumption
    <2> QED
      BY <2>1, <2>2 DEF Remaining, HasInput
  <1>5. /\ input'[q].chunk = n /\ input'[q].len = Length(c)
        /\ input'[q].computed = input[q].computed + more[q]
    BY <1>1, <1>2, <1>3
  <1>6. CASE input[q].computed + more[q] >= input[q].len
    <2>1. played'[q] = Append(played[q], n)
      BY <1>2, <1>3, <1>6
    <2>2. Playable(c)
      BY <1>4 DEF Length, Playable
    <2>3. q \in spoiled \/ FirstChunks(Append(played[q], n), sent[q], n)
      BY <1>1, <1>3, <2>2, PlayedNext DEF Played
    <2>4. Played(q, got[q])'
      BY <1>2, <1>3, <2>1, <2>3 DEF Played
    <2> QED
      BY <1>3, <1>5, <1>6, <2>1, <2>2, <2>4
  <1>7. CASE ~(input[q].computed + more[q] >= input[q].len) /\ DoneReceiving(q)
    <2>1. played'[q] = played[q]
      BY <1>2, <1>7
    <2>2. input'[q].computed < input'[q].len
      BY <1>1, <1>3, <1>4, <1>5, <1>7
    <2>3. DoneReceiving(q)' /\ MarkSeen(q)'
      BY <1>2, <1>7 DEF DoneReceiving, Holds, MarkSeen
    <2>4. (Played(q, n - 1))'
      BY <1>2, <1>3, <2>1 DEF Played
    <2>5. Holds(q)'
      BY <1>2, <1>3, <1>5, <2>2, <2>3, <2>4 DEF Holds, Played
    <2> QED
      BY <1>7, <2>1, <2>2, <2>5
  <1>8. CASE ~(input[q].computed + more[q] >= input[q].len) /\ ~DoneReceiving(q)
    <2>1. more[q] < Remaining(q)
      BY <1>1, <1>3, <1>4, <1>8 DEF Remaining
    <2> QED
      BY <1>2, <1>8, <2>1
  <1> QED
    BY <1>6, <1>7, <1>8

(* A request that schedule() passes over waits on, or begins to.           *)
LEMMA PassedOver ==
    ASSUME QueueInv, StreamInv,
           NEW step, NEW ended, NEW run, NEW wait, NEW granted, NEW more,
           Scheduled(step, ended, run, wait, granted, more),
           NEW q \in Requests, ~(q \in QueuedNow /\ Stays(q)),
           Asked(q)' <=> Asked(q) \/ (q \in QueuedNow /\ Asks(q)),
           q \in cancelled' <=> q \in cancelled /\ ~(q \in QueuedNow /\ Asks(q))
    PROVE  StreamOK(q)'
  <1>1. StreamOK(q) /\ TypeInv /\ StepInv
    BY DEF StreamInv, QueueInv
  <1>2. /\ flight = <<>> /\ flight' = <<step>> /\ pendingFinish' = ended
        /\ finishedLoad' = finishedLoad \ LoadedNow
        /\ ready' = (ready \cup LoadedNow) \ Elements(step)
        /\ status' = [r \in Requests |->
              IF r \in Elements(Preempted) THEN "PREEMPTED"
              ELSE IF r \in ParkedNow THEN "WAITING_FOR_CHUNK"
              ELSE IF r \in LoadedNow THEN Target(r) ELSE status[r]]
        /\ input' = [r \in Requests |->
              IF r \in Elements(step) THEN [input[r] EXCEPT !.computed = @ + more[r]]
              ELSE input[r]]
        /\ played' = [r \in Requests |->
              IF r \in Elements(step) /\ input[r].computed + more[r] >= input[r].len
              THEN Append(played[r], input[r].chunk) ELSE played[r]]
        /\ spoiled' = spoiled \cup
              {r \in Elements(step) : ~DoneReceiving(r) /\ more[r] < Remaining(r)}
        /\ UNCHANGED <<sent, taken, got, poll, done, segmented, resumable, requests>>
    BY DEF Scheduled, threadVars
  <1>3. pendingFinish = <<>> /\ Flying = <<>> /\ Flying' = step
    BY <1>1, <1>2 DEF StepInv, Flying
  <1>4. q \notin Elements(Flying) /\ q \notin Elements(pendingFinish)
    BY <1>3, EmptyQueue
  <1>5. q \notin Elements(Preempted) /\ q \notin Elements(step) /\ q \notin Elements(ended)
    <2>1. /\ Elements(step) \subseteq QueuedNow \cap Staying
          /\ Elements(ended) \subseteq QueuedNow \cap Staying
      BY DEF Scheduled, QueuesDivided
    <2>2. Elements(Preempted) \subseteq QueuedNow \cap Staying
      BY <1>1, LoopQueues DEF QueuedNow
    <2> QED
      BY <2>1, <2>2 DEF Staying
  <1>6. q \notin LoadedNow
    BY DEF LoadedNow, Loaded, Stays, Parked, Asks
  <1>7. /\ input'[q] = input[q] /\ played'[q] = played[q] /\ (q \in spoiled' <=> q \in spoiled)
        /\ q \in finishedLoad' <=> q \in finishedLoad
        /\ q \in ready' <=> q \in ready
        /\ status'[q] = IF q \in QueuedNow /\ Parked(q) THEN "WAITING_FOR_CHUNK" ELSE status[q]
        /\ q \notin Elements(Flying)' /\ q \notin Elements(pendingFinish)'
        /\ Polled(q)' <=> Polled(q)
    BY <1>2, <1>3, <1>5, <1>6 DEF ParkedNow, Polled
  <1>8. CASE ~(q \in QueuedNow /\ Asks(q))
    <2>1. status'[q] = status[q]
      BY <1>7, <1>8 DEF Parked
    <2>2. SameView(q)
      BY <1>2, <1>4, <1>7, <1>8, <2>1 DEF SameView
    <2> QED
      BY <1>1, <2>2, ViewKept
  <1>9. CASE q \in QueuedNow /\ Asks(q)
    <2>1. status[q] # "WAITING_FOR_CHUNK" /\ q \notin ready /\ ~DoneReceiving(q)
      BY <1>9 DEF Asks
    <2>2. q \in requests
      BY <1>1, <1>9, QueuesApart DEF QueuedNow
    <2>3. PlaceOK(q) /\ SentOK(q) /\ EndOK(q) /\ LiveOK(q)
      BY <1>1, <2>2 DEF StreamOK
    <2>4. ~Asked(q) /\ ~Polled(q) /\ q \notin finishedLoad
      BY <2>1, <2>2, <2>3 DEF PlaceOK
    <2>5. taken[q] = got[q] /\ Played(q, got[q])
      BY <2>1, <2>3 DEF LiveOK, HoldingOK
    <2>6. status'[q] = "WAITING_FOR_CHUNK" /\ Asked(q)' /\ ~Polled(q)'
      BY <1>7, <1>9, <2>4 DEF Parked
    <2>7. PlaceOK(q)' /\ NewOK(q)'
      BY <1>7, <2>1, <2>4, <2>6 DEF PlaceOK, NewOK
    <2>8. SentOK(q)' /\ EndOK(q)'
      BY <1>2, <1>7, <2>3, <2>6 DEF SentOK, EndOK, Played
    <2>9. AskingOK(q)'
      BY <1>2, <1>7, <2>1, <2>5, <2>6 DEF AskingOK, Played, DoneReceiving
    <2>10. HoldingOK(q)'
      BY <1>7, <2>1, <2>4, <2>6 DEF HoldingOK
    <2>11. ResumableOK(q)'
      BY <1>2, <2>3 DEF LiveOK, ResumableOK
    <2>12. LiveOK(q)'
      BY <1>2, <1>9, <2>3, <2>6, <2>9, <2>10, <2>11 DEF LiveOK
    <2> QED
      BY <2>7, <2>8, <2>12 DEF StreamOK
  <1> QED
    BY <1>8, <1>9

(* A request that holds a chunk plays it, keeps it or is at its end.       *)
LEMMA LookedAt ==
    ASSUME QueueInv, StreamInv,
           NEW step, NEW ended, NEW run, NEW wait, NEW granted, NEW more,
           Scheduled(step, ended, run, wait, granted, more),
           NEW q \in Requests, q \in QueuedNow, Stays(q),
           Asked(q)' <=> Asked(q) \/ Asks(q), q \in cancelled' => q \in cancelled
    PROVE  StreamOK(q)'
  <1>1. StreamOK(q) /\ TypeInv /\ StepInv
    BY DEF StreamInv, QueueInv
  <1>2. /\ flight = <<>> /\ flight' = <<step>> /\ pendingFinish' = ended
        /\ finishedLoad' = finishedLoad \ LoadedNow
        /\ ready' = (ready \cup LoadedNow) \ Elements(step)
        /\ status' = [r \in Requests |->
              IF r \in Elements(Preempted) THEN "PREEMPTED"
              ELSE IF r \in ParkedNow THEN "WAITING_FOR_CHUNK"
              ELSE IF r \in LoadedNow THEN Target(r) ELSE status[r]]
        /\ input' = [r \in Requests |->
              IF r \in Elements(step) THEN [input[r] EXCEPT !.computed = @ + more[r]]
              ELSE input[r]]
        /\ played' = [r \in Requests |->
              IF r \in Elements(step) /\ input[r].computed + more[r] >= input[r].len
              THEN Append(played[r], input[r].chunk) ELSE played[r]]
        /\ spoiled' = spoiled \cup
              {r \in Elements(step) : ~DoneReceiving(r) /\ more[r] < Remaining(r)}
        /\ UNCHANGED <<sent, taken, got, poll, done, segmented, resumable, requests>>
    BY DEF Scheduled, threadVars
  <1>3. q \in requests
    BY <1>1, QueuesApart DEF QueuedNow
  <1>4. /\ Holds(q) /\ ~Asked(q) /\ ~Polled(q) /\ ~Asks(q)
        /\ \/ Loaded(q)
           \/ /\ q \in ready \/ (DoneReceiving(q) /\ input[q].computed < input[q].len)
              /\ q \notin finishedLoad /\ status[q] # "WAITING_FOR_CHUNK"
    BY <1>2, <1>3, StayingHolds
  <1>5. SentOK(q) /\ EndOK(q) /\ NewOK(q) /\ LiveOK(q)
    BY <1>1, <1>3 DEF StreamOK
  <1>6. /\ ~Asked(q)' /\ ~Polled(q)' /\ q \notin finishedLoad'
        /\ status'[q] \notin {"NEW", "WAITING_FOR_CHUNK", "FINISHED_STOPPED"}
        /\ q \in ready' <=> q \notin Elements(step) /\ (Loaded(q) \/ q \in ready)
        /\ Flying' = step
    <2>1. q \in LoadedNow <=> Loaded(q)
      BY DEF LoadedNow
    <2>2. q \notin ParkedNow
      BY DEF ParkedNow, Stays
    <2>3. status[q] # "NEW" /\ status[q] # "FINISHED_STOPPED"
      BY <1>1, <1>3, <1>5 DEF StepInv, LiveOK
    <2>4. status'[q] \notin {"NEW", "WAITING_FOR_CHUNK", "FINISHED_STOPPED"}
      <3>1. status'[q] = IF q \in Elements(Preempted) THEN "PREEMPTED"
                         ELSE IF q \in LoadedNow THEN Target(q) ELSE status[q]
        BY <1>2, <2>2
      <3>2. Target(q) \in {"RUNNING", "WAITING"}
        BY DEF Target
      <3> QED
        BY <1>4, <2>1, <2>3, <3>1, <3>2
    <2>5. /\ q \notin finishedLoad'
          /\ q \in ready' <=> q \notin Elements(step) /\ (Loaded(q) \/ q \in ready)
      BY <1>2, <1>4, <2>1
    <2> QED
      BY <1>2, <1>4, <2>4, <2>5 DEF Polled, Flying
  <1>7. PlaceOK(q)' /\ NewOK(q)' /\ SentOK(q)'
    BY <1>2, <1>5, <1>6 DEF PlaceOK, NewOK, SentOK
  <1>8. AskingOK(q)' /\ ResumableOK(q)'
    BY <1>2, <1>5, <1>6 DEF AskingOK, LiveOK, ResumableOK
  <1>9. Elements(ended) \cap Elements(step) = {}
    BY DEF Scheduled, QueuesDivided
  <1>10. /\ taken'[q] = got'[q] /\ got'[q] = got[q] /\ got[q] \in DOMAIN sent[q]
         /\ sent'[q] = sent[q] /\ MarkSeen(q)'
    BY <1>2, <1>4 DEF Holds, MarkSeen
  <1>11. CASE q \in Elements(step)
    <2>1. /\ DoneReceiving(q)' <=> DoneReceiving(q)
          /\ q \notin Elements(pendingFinish)' /\ q \in Elements(Flying)'
      BY <1>2, <1>6, <1>9, <1>11 DEF DoneReceiving
    <2>2. CASE input'[q].computed >= input'[q].len /\ Played(q, got[q])'
      <3>1. HoldingOK(q)'
        BY <1>6, <1>10, <1>11, <2>1, <2>2 DEF HoldingOK
      <3>2. EndOK(q)'
        <4>1. got[q] \in 0..Len(sent[q]) /\ got'[q] = got[q]
          BY <1>1, <1>10 DEF TypeInv, Types
        <4>2. PICK k : k = got[q] /\ k = got'[q] /\ k \in 0..Len(sent[q])
          BY <4>1
        <4>3. Played(q, k)'
          BY <1>10, <2>2, <4>2 DEF Played
        <4> QED
          BY <1>6, <1>10, <4>2, <4>3 DEF EndOK
      <3> QED
        BY <1>2, <1>5, <1>6, <1>7, <1>8, <3>1, <3>2 DEF StreamOK, LiveOK
    <2>3. CASE /\ input'[q].computed < input'[q].len /\ played'[q] = played[q]
               /\ DoneReceiving(q) /\ Holds(q)'
      <3>1. HoldingOK(q)'
        BY <1>6, <1>10, <1>11, <2>1, <2>3 DEF HoldingOK
      <3>2. EndOK(q)'
        BY <1>2, <1>5, <1>6, <2>3 DEF EndOK, Played
      <3> QED
        BY <1>2, <1>5, <1>6, <1>7, <1>8, <3>1, <3>2 DEF StreamOK, LiveOK
    <2>4. CASE ~DoneReceiving(q) /\ q \in spoiled'
      <3>1. HoldingOK(q)'
        BY <1>6, <1>10, <1>11, <2>1, <2>4 DEF HoldingOK, Played
      <3>2. EndOK(q)'
        <4>1. 0 \in 0..Len(sent'[q])
          BY <1>1, <1>10 DEF TypeInv, Types
        <4> QED
          BY <1>6, <2>4, <4>1 DEF EndOK, Played
      <3> QED
        BY <1>2, <1>5, <1>6, <1>7, <1>8, <3>1, <3>2 DEF StreamOK, LiveOK
    <2> QED
      BY <1>4, <1>11, <2>2, <2>3, <2>4, ComputedIsPlayed
  <1>12. CASE q \notin Elements(step)
    <2>1. /\ input'[q] = input[q] /\ played'[q] = played[q] /\ (q \in spoiled' <=> q \in spoiled)
          /\ DoneReceiving(q)' <=> DoneReceiving(q)
      BY <1>2, <1>12 DEF DoneReceiving
    <2>2. Holds(q)'
      BY <1>2, <1>4, <1>10, <2>1 DEF Holds, Played
    <2>3. q \in Elements(ended) => DoneReceiving(q)' /\ input'[q].len = 0
      <3>1. ASSUME q \in Elements(ended) PROVE DoneReceiving(q) /\ input[q].len = 0
        <4>1. DoneReceiving(q) /\ (~(Remaining(q) > 0) \/ ~HasInput(q))
          BY <3>1 DEF Scheduled, QueuesDivided
        <4>2. /\ input[q].len \in Nat /\ input[q].computed \in Nat
              /\ input[q].computed = 0 \/ input[q].computed < input[q].len
          <5>1. input[q] \in [chunk : Nat, len : 0..ChunkTokens, computed : Nat]
            BY <1>1 DEF TypeInv, Types
          <5> QED
            BY <1>4, <5>1, ChunkAssumption DEF Holds
        <4> QED
          BY <4>1, <4>2 DEF Remaining, HasInput
      <3> QED
        BY <1>2, <2>1, <3>1 DEF DoneReceiving
    <2>4. HoldingOK(q)'
      <3>1. q \notin Elements(Flying)' /\ (q \in Elements(pendingFinish)' <=> q \in Elements(ended))
        BY <1>2, <1>6, <1>12
      <3>2. CASE Loaded(q) \/ q \in ready
        BY <1>6, <1>12, <2>2, <2>3, <3>1, <3>2 DEF HoldingOK
      <3>3. CASE ~(Loaded(q) \/ q \in ready)
        <4>1. DoneReceiving(q) /\ input[q].computed < input[q].len /\ input[q].computed \in Nat
          BY <1>1, <1>4, <3>3 DEF TypeInv, Types
        <4>2. q \notin Elements(ended)
          BY <2>1, <2>3, <4>1
        <4> QED
          BY <1>6, <1>10, <1>12, <2>1, <2>2, <3>1, <4>1, <4>2 DEF HoldingOK
      <3> QED
        BY <3>2, <3>3
    <2>5. EndOK(q)'
      BY <1>2, <1>5, <1>6, <2>1 DEF EndOK, Played
    <2> QED
      BY <1>2, <1>5, <1>6, <1>7, <1>8, <2>4, <2>5 DEF StreamOK, LiveOK
  <1> QED
    BY <1>11, <1>12

(* A step of schedule() keeps the streams right.                           *)
LEMMA ScheduleStreamInv ==
    ASSUME Depth = 1, QueueInv, StreamInv, Schedule
    PROVE  StreamInv'
  <1>1. PICK step, ended, run, wait, granted, more :
           Scheduled(step, ended, run, wait, granted, more)
    BY ScheduleIsScheduled DEF QueueInv
  <1>2. /\ Asking \in Seq(Requests) /\ Elements(Asking) = QueuedNow \cap Askers
        /\ NoneTwice(Asking)
    BY AskingFacts DEF QueueInv
  <1>3. /\ pendingLoad' = pendingLoad \o Asking /\ cancelled' = cancelled \ Elements(Asking)
        /\ played' = [r \in Requests |->
              IF r \in Elements(step) /\ input[r].computed + more[r] >= input[r].len
              THEN Append(played[r], input[r].chunk) ELSE played[r]]
    BY <1>1 DEF Scheduled
  <1>4. /\ pendingLoad \in Seq(Requests) /\ NoneTwice(pendingLoad)
        /\ played \in [Requests -> Seq(Nat)]
        /\ input \in [Requests -> [chunk : Nat, len : 0..ChunkTokens, computed : Nat]]
    BY DEF QueueInv, TypeInv, Types, StreamInv
  <1>5. Elements(pendingLoad) \cap Elements(Asking) = {}
    <2>1. ASSUME NEW q \in QueuedNow, Asks(q) PROVE ~Asked(q)
      <3>1. q \in requests /\ q \in Requests
        BY QueuesApart DEF QueueInv, TypeInv, Types, QueuedNow
      <3>2. PlaceOK(q)
        BY <3>1 DEF StreamInv, StreamOK
      <3> QED
        BY <2>1, <3>1, <3>2 DEF PlaceOK, Asks
    <2> QED
      BY <1>2, <2>1 DEF Askers, Asked
  <1>6. /\ NoneTwice(pendingLoad \o Asking)
        /\ Elements(pendingLoad \o Asking) = Elements(pendingLoad) \cup Elements(Asking)
    BY <1>2, <1>4, <1>5, JoinFacts
  <1>7. played' \in [Requests -> Seq(Nat)]
    <2>1. \A q \in Requests : played[q] \in Seq(Nat) /\ input[q].chunk \in Nat
      BY <1>4
    <2>2. \A q \in Requests : Append(played[q], input[q].chunk) \in Seq(Nat)
      BY <2>1
    <2> QED
      BY <1>3, <2>1, <2>2
  <1>8. ASSUME NEW q \in Requests PROVE StreamOK(q)'
    <2>1. /\ Asked(q)' <=> Asked(q) \/ (q \in QueuedNow /\ Asks(q))
          /\ q \in cancelled' <=> q \in cancelled /\ ~(q \in QueuedNow /\ Asks(q))
      BY <1>2, <1>3, <1>6 DEF Asked, Askers
    <2>2. CASE q \in QueuedNow /\ Stays(q)
      BY <1>1, <2>1, <2>2, LookedAt
    <2>3. CASE ~(q \in QueuedNow /\ Stays(q))
      BY <1>1, <2>1, <2>3, PassedOver
    <2> QED
      BY <2>2, <2>3
  <1> QED
    BY <1>3, <1>6, <1>7, <1>8 DEF StreamInv

(* A request that a step stops, or that is collected, has played its       *)
(* stream to the end, or to the end of a segment.                          *)
LEMMA StoppedHasPlayed ==
    ASSUME QueueInv, StreamInv, flight # <<>>, NEW q \in StoppedNow
    PROVE  /\ status[q] # "WAITING_FOR_CHUNK" /\ taken[q] = got[q]
           /\ Played(q, got[q]) /\ MarkSeen(q) /\ DoneReceiving(q)
           /\ q \in resumable => q \in Elements(Stopped) /\ q \notin ready
  <1>1. /\ Elements(Stopped) = {r \in Elements(Flying) \cap requests :
                                   DoneReceiving(r) /\ input[r].computed >= input[r].len}
        /\ Elements(Collected) \subseteq Elements(pendingFinish) \cap requests
        /\ StoppedNow \subseteq requests
    BY StoppedFacts DEF QueueInv
  <1>2. q \in requests /\ q \in Requests
    BY <1>1 DEF QueueInv, TypeInv, Types
  <1>3. LiveOK(q) /\ HoldingOK(q) /\ ResumableOK(q)
    BY <1>2 DEF StreamInv, StreamOK, LiveOK
  <1>4. CASE q \in Elements(Stopped)
    <2>1. q \in Elements(Flying) /\ DoneReceiving(q) /\ input[q].computed >= input[q].len
      BY <1>1, <1>4
    <2>2. ~(input[q].computed < input[q].len)
      <3>1. input[q] \in [chunk : Nat, len : 0..ChunkTokens, computed : Nat]
        BY <1>2 DEF QueueInv, TypeInv, Types
      <3> QED
        BY <2>1, <3>1, ChunkAssumption
    <2> QED
      BY <1>3, <1>4, <2>1, <2>2 DEF HoldingOK
  <1>5. CASE q \in Elements(Collected)
    <2>1. /\ q \in Elements(pendingFinish) /\ status[q] # "WAITING_FOR_CHUNK"
          /\ DoneReceiving(q) /\ input[q].len = 0 /\ q \in ready /\ Holds(q)
      BY <1>1, <1>3, <1>5 DEF HoldingOK
    <2>2. PICK n \in Nat, c \in Chunks :
             /\ n = got[q] /\ c = sent[q][n] /\ n # 0
             /\ Length(c) = 0 /\ (q \in spoiled \/ FirstChunks(played[q], sent[q], n - 1))
      <3>1. got[q] \in 1..Len(sent[q]) /\ got[q] \in Nat /\ sent[q][got[q]] \in Chunks
        <4>1. sent[q] \in Seq(Chunks) /\ got[q] \in DOMAIN sent[q] /\ got[q] \in Nat
          BY <1>2, <2>1 DEF Holds, QueueInv, TypeInv, Types
        <4> QED
          BY <4>1
      <3>2. input[q].len = Length(sent[q][got[q]])
        BY <2>1 DEF Holds
      <3> QED
        BY <2>1, <3>1, <3>2 DEF Holds, Played
    <2>3. ~Playable(c) /\ c.mark # "segment"
      BY <2>2, ChunkAssumption DEF Length, Playable
    <2>4. Played(q, got[q])
      BY <2>2, <2>3, PlayedEmpty DEF Played
    <2>5. q \notin resumable
      <3>1. q \notin segmented
        BY <2>1, <2>2, <2>3 DEF Holds, MarkSeen
      <3>2. q \in done
        BY <2>1, <3>1 DEF DoneReceiving
      <3> QED
        BY <1>3, <3>2 DEF ResumableOK
    <2> QED
      BY <2>1, <2>2, <2>4, <2>5 DEF Holds, Played
  <1> QED
    BY <1>4, <1>5 DEF StoppedNow

(* update_from_output ends the requests that have played all.              *)
LEMMA UpdateStreamInv ==
    ASSUME Depth = 1, QueueInv, StreamInv, Update
    PROVE  StreamInv'
  <1>1. TypeInv /\ StepInv /\ flight # <<>>
    BY DEF QueueInv, Update
  <1>2. /\ status' = [r \in Requests |-> IF r \in Ended THEN "FINISHED_STOPPED"
                                         ELSE IF r \in StoppedNow THEN "WAITING" ELSE status[r]]
        /\ requests' = requests \ Ended
        /\ segmented' = segmented \ (Elements(Stopped) \cup Ended)
        /\ pendingFinish' = <<>> /\ flight' = Tail(flight)
        /\ spoiled' = spoiled \cup Overtaken
        /\ UNCHANGED <<sent, taken, poll, pendingLoad, resumable, input, played>>
    BY DEF Update
  <1>3. /\ done' = done \ Ended
        /\ got' = [r \in Requests |-> IF r \in Ended THEN 0 ELSE got[r]]
        /\ ready' = ready \ Ended
        /\ cancelled' = cancelled \cup Ended
        /\ finishedLoad' = finishedLoad \ Ended
    BY DEF Update, CleanupReceiver
  <1>4. flight' = <<>> /\ Flying' = <<>>
    BY <1>1, <1>2, LastStep DEF Flying
  <1>5. /\ Elements(Stopped) = {r \in Elements(Flying) \cap requests :
                                   DoneReceiving(r) /\ input[r].computed >= input[r].len}
        /\ \A r \in Elements(pendingFinish) \cap requests : r \in Elements(Collected)
        /\ StoppedNow \subseteq requests
    BY <1>1, StoppedFacts
  <1>6. Ended = StoppedNow \ resumable /\ StoppedNow = Elements(Stopped) \cup Elements(Collected)
    BY DEF Ended, StoppedNow
  <1>7. spoiled' = spoiled
    <2>1. ASSUME NEW q \in Elements(Stopped) PROVE ~Polled(q)
      <3>1. q \in StoppedNow /\ q \in requests /\ q \in Requests
        BY <1>1, <1>5 DEF StoppedNow, TypeInv, Types
      <3>2. status[q] # "WAITING_FOR_CHUNK"
        BY <1>1, <3>1, StoppedHasPlayed
      <3> QED
        BY <3>1, <3>2 DEF StreamInv, StreamOK, PlaceOK
    <2>2. Overtaken = {}
      BY <2>1 DEF Overtaken, Polled
    <2> QED
      BY <1>2, <2>2
  <1>8. ASSUME NEW q \in Requests PROVE StreamOK(q)'
    <2>1. /\ StreamOK(q) /\ PlaceOK(q) /\ NewOK(q) /\ SentOK(q) /\ EndOK(q)
          /\ q \in requests => LiveOK(q)
      BY DEF StreamInv, StreamOK
    <2>2. /\ (Asked(q)' <=> Asked(q)) /\ (Polled(q)' <=> Polled(q)) /\ poll' = poll
          /\ sent'[q] = sent[q] /\ taken'[q] = taken[q] /\ input'[q] = input[q]
          /\ played'[q] = played[q] /\ spoiled' = spoiled
          /\ (q \in resumable' <=> q \in resumable)
          /\ q \notin Elements(Flying)' /\ q \notin Elements(pendingFinish)'
      BY <1>2, <1>4, <1>7, EmptyQueue DEF Asked, Polled
    <2>3. SentOK(q)'
      BY <2>1, <2>2 DEF SentOK
    <2>4. CASE q \in Ended
      <3>1. q \in StoppedNow /\ q \notin resumable /\ q \in requests
        BY <1>5, <1>6, <2>4
      <3>2. Played(q, got[q]) /\ MarkSeen(q) /\ DoneReceiving(q)
        BY <1>1, <3>1, StoppedHasPlayed
      <3>3. q \in done
        BY <2>1, <3>1, <3>2 DEF LiveOK, ResumableOK, DoneReceiving
      <3>4. got[q] = Len(sent[q]) /\ StreamEnded(q)
        <4>1. got[q] \in DOMAIN sent[q] /\ sent[q][got[q]].mark = "finished"
          BY <3>2, <3>3 DEF MarkSeen
        <4>2. got[q] = Len(sent[q])
          BY <2>1, <4>1 DEF SentOK
        <4>3. sent[q] # <<>>
          BY <4>1
        <4> QED
          BY <4>1, <4>2, <4>3 DEF StreamEnded
      <3>5. EndOK(q)'
        <4>1. StreamEnded(q)'
          BY <2>2, <3>4 DEF StreamEnded
        <4>2. Played(q, Len(sent[q]))'
          BY <2>2, <3>2, <3>4 DEF Played
        <4> QED
          BY <2>1, <2>2, <4>1, <4>2 DEF EndOK, Played
      <3>6. q \notin requests' /\ status'[q] = "FINISHED_STOPPED"
        BY <1>2, <2>4
      <3>7. PlaceOK(q)' /\ NewOK(q)'
        BY <2>1, <2>2, <3>6 DEF PlaceOK, NewOK
      <3> QED
        BY <2>3, <3>5, <3>6, <3>7 DEF StreamOK
    <2>5. CASE q \in StoppedNow /\ q \notin Ended
      <3>1. q \in resumable /\ q \in requests
        BY <1>5, <1>6, <2>5
      <3>2. /\ status[q] # "WAITING_FOR_CHUNK" /\ taken[q] = got[q]
            /\ Played(q, got[q]) /\ MarkSeen(q) /\ q \in Elements(Stopped) /\ q \notin ready
        BY <1>1, <2>5, <3>1, StoppedHasPlayed
      <3>3. /\ status'[q] = "WAITING" /\ q \in requests' /\ got'[q] = got[q]
            /\ q \notin ready' /\ q \notin segmented' /\ (q \in done' <=> q \in done)
            /\ (q \in finishedLoad' <=> q \in finishedLoad)
            /\ (q \in cancelled' <=> q \in cancelled)
        BY <1>2, <1>3, <2>5, <3>1, <3>2
      <3>4. LiveOK(q)
        BY <2>1, <3>1
      <3>5. ~Asked(q) /\ ~Polled(q) /\ q \notin finishedLoad
        BY <2>1, <3>1, <3>2 DEF PlaceOK
      <3>6. q \notin done
        BY <3>1, <3>4 DEF LiveOK, ResumableOK
      <3>7. PlaceOK(q)' /\ NewOK(q)' /\ EndOK(q)'
        BY <2>1, <2>2, <3>3, <3>5 DEF PlaceOK, NewOK, EndOK, Played
      <3>8. ResumableOK(q)' /\ AskingOK(q)'
        BY <2>2, <3>3, <3>4, <3>5 DEF LiveOK, ResumableOK, AskingOK
      <3>9. HoldingOK(q)'
        <4>1. MarkSeen(q)' /\ ~DoneReceiving(q)'
          BY <3>3, <3>6 DEF MarkSeen, DoneReceiving
        <4>2. Played(q, got[q])'
          BY <2>2, <3>2, <3>3 DEF Played
        <4> QED
          BY <2>2, <3>2, <3>3, <3>5, <4>1, <4>2 DEF HoldingOK
      <3>10. LiveOK(q)'
        BY <2>2, <3>3, <3>4, <3>8, <3>9 DEF LiveOK
      <3> QED
        BY <2>3, <3>7, <3>10 DEF StreamOK
    <2>6. CASE q \notin StoppedNow
      <3>1. /\ status'[q] = status[q] /\ got'[q] = got[q] /\ (q \in requests' <=> q \in requests)
            /\ (q \in ready' <=> q \in ready) /\ (q \in done' <=> q \in done)
            /\ (q \in segmented' <=> q \in segmented)
            /\ (q \in finishedLoad' <=> q \in finishedLoad)
            /\ (q \in cancelled' <=> q \in cancelled)
        BY <1>2, <1>3, <1>6, <2>6
      <3>2. PlaceOK(q)' /\ NewOK(q)' /\ EndOK(q)'
        BY <2>1, <2>2, <3>1 DEF PlaceOK, NewOK, EndOK, Played, StreamEnded
      <3>3. ASSUME q \in requests PROVE LiveOK(q)'
        <4>1. LiveOK(q) /\ HoldingOK(q)
          BY <2>1, <3>3 DEF LiveOK
        <4>2. ResumableOK(q)'
          BY <2>2, <3>1, <4>1 DEF LiveOK, ResumableOK
        <4>3. (MarkSeen(q)' <=> MarkSeen(q)) /\ (DoneReceiving(q)' <=> DoneReceiving(q))
          BY <2>2, <3>1 DEF MarkSeen, DoneReceiving
        <4>4. AskingOK(q)'
          BY <2>2, <3>1, <4>1, <4>3 DEF LiveOK, AskingOK, Played
        <4>5. Holds(q) => Holds(q)'
          BY <2>2, <3>1, <4>3 DEF Holds, Played
        <4>6. q \notin Elements(pendingFinish)
          BY <1>5, <1>6, <2>6, <3>3
        <4>7. \/ ~DoneReceiving(q)
              \/ ~(q \in Elements(Flying) /\ input[q].computed >= input[q].len)
          BY <1>5, <1>6, <2>6, <3>3
        <4>8. HoldingOK(q)'
          BY <2>2, <3>1, <4>1, <4>3, <4>5, <4>7 DEF HoldingOK, Played
        <4> QED
          BY <2>2, <3>1, <4>1, <4>2, <4>4, <4>8 DEF LiveOK
      <3> QED
        BY <2>3, <3>1, <3>2, <3>3 DEF StreamOK
    <2> QED
      BY <2>4, <2>5, <2>6
  <1>9. NoneTwice(pendingLoad') /\ played' \in [Requests -> Seq(Nat)]
    BY <1>2 DEF StreamInv
  <1> QED
    BY <1>8, <1>9 DEF StreamInv

(* The streams stay right.                                                 *)
LEMMA NextStreamInv ==
    ASSUME Depth = 1, QueueInv, StreamInv, [Next]_vars
    PROVE  StreamInv'
  <1>1. CASE UNCHANGED vars
    <2>1. ASSUME NEW q \in Requests PROVE StreamOK(q)'
      <3>1. SameView(q)
        BY <1>1 DEF vars, SameView, Asked, Polled, Flying
      <3> QED
        BY <3>1, ViewKept DEF StreamInv
    <2> QED
      BY <1>1, <2>1 DEF StreamInv, vars
  <1>2. ASSUME NEW r \in Requests, Send(r) PROVE StreamInv'
    BY <1>2, SendStreamInv
  <1>3. ASSUME NEW r \in Requests, Arrive(r) PROVE StreamInv'
    BY <1>3, ArriveStreamInv
  <1>4. ASSUME NEW r \in Requests, Abort(r) PROVE StreamInv'
    BY <1>4, AbortStreamInv
  <1>5. CASE Receive
    BY <1>5, TakeStreamInv, MarkStreamInv, FillStreamInv DEF Receive
  <1>6. CASE Schedule
    BY <1>6, ScheduleStreamInv
  <1>7. CASE Update
    BY <1>7, UpdateStreamInv
  <1> QED
    BY <1>1, <1>2, <1>3, <1>4, <1>5, <1>6, <1>7 DEF Next

(* With one step in flight, whatever the length of the chunks, no chunk of *)
(* a stream that is not spoiled is lost, repeated or overtaken, and a      *)
(* request that ends by itself has played them all.  (schedule,            *)
(* process_pending_chunks, update_from_output)                             *)
THEOREM StreamIsPlayed ==
    ASSUME Depth = 1
    PROVE  Spec => []StreamPlayed
  <1>1. Init => QueueInv /\ StreamInv
    BY InitQueueInv, InitStreamInv
  <1>2. QueueInv /\ StreamInv /\ [Next]_vars => (QueueInv /\ StreamInv)'
    BY NextQueueInv, NextStreamInv
  <1>3. StreamInv => StreamPlayed
    BY DEF StreamInv, StreamOK, EndOK, Played, StreamPlayed
  <1> QED
    BY <1>1, <1>2, <1>3, PTL DEF Spec

-----------------------------------------------------------------------------
(* The streams as StreamPlayback has them.                                 *)

(* A request that was aborted is gone.                                     *)
AbortedIsGone == \A r \in requests : status[r] # "FINISHED_ABORTED"

(* A live request is one that the user sees as live.                       *)
LEMMA LiveIsLive ==
    ASSUME QueueInv, StreamInv, AbortedIsGone, NEW r \in requests
    PROVE  r \in Requests /\ PlayState(r) = "live"
  <1>1. r \in Requests /\ status[r] # "NEW"
    BY DEF QueueInv, TypeInv, Types, StepInv
  <1>2. status[r] # "FINISHED_STOPPED"
    BY <1>1 DEF StreamInv, StreamOK, LiveOK
  <1>3. status[r] # "FINISHED_ABORTED"
    BY DEF AbortedIsGone
  <1> QED
    BY <1>1, <1>2, <1>3 DEF PlayState

(* schedule() gives no request that is not queued another status.          *)
LEMMA StatusOfQueued ==
    ASSUME QueueInv,
           NEW step, NEW ended, NEW run, NEW wait, NEW granted, NEW more,
           Scheduled(step, ended, run, wait, granted, more),
           NEW q \in Requests
    PROVE  /\ status'[q] \in {"PREEMPTED", "WAITING_FOR_CHUNK", "RUNNING", "WAITING", status[q]}
           /\ q \notin requests => status'[q] = status[q]
  <1>1. status' = [r \in Requests |->
              IF r \in Elements(Preempted) THEN "PREEMPTED"
              ELSE IF r \in ParkedNow THEN "WAITING_FOR_CHUNK"
              ELSE IF r \in LoadedNow THEN Target(r) ELSE status[r]]
    BY DEF Scheduled
  <1>2. Target(q) \in {"RUNNING", "WAITING"}
    BY DEF Target
  <1>3. QueuedNow \subseteq requests
    BY QueuesApart DEF QueueInv, QueuedNow
  <1>4. Elements(Preempted) \subseteq QueuedNow
    BY LoopQueues DEF QueueInv, QueuedNow
  <1>5. ParkedNow \subseteq QueuedNow /\ LoadedNow \subseteq QueuedNow
    BY DEF ParkedNow, LoadedNow
  <1> QED
    BY <1>1, <1>2, <1>3, <1>4, <1>5

(* The request stays gone.                                                 *)
LEMMA AbortedStaysGone ==
    ASSUME Depth = 1, QueueInv, StreamInv, AbortedIsGone, [Next]_vars
    PROVE  AbortedIsGone'
  <1>1. status \in [Requests -> Statuses] /\ requests \subseteq Requests
    BY DEF QueueInv, TypeInv, Types
  <1>2. CASE UNCHANGED <<status, requests>>
    BY <1>2 DEF AbortedIsGone
  <1>3. ASSUME NEW r \in Requests, Arrive(r) PROVE AbortedIsGone'
    BY <1>1, <1>3 DEF Arrive, AbortedIsGone
  <1>4. ASSUME NEW r \in Requests, Abort(r) PROVE AbortedIsGone'
    BY <1>1, <1>4 DEF Abort, AbortedIsGone
  <1>5. CASE Schedule
    <2>1. PICK step, ended, run, wait, granted, more :
             Scheduled(step, ended, run, wait, granted, more)
      BY <1>5, ScheduleIsScheduled DEF QueueInv
    <2>2. requests' = requests
      BY <2>1 DEF Scheduled
    <2>3. ASSUME NEW q \in requests PROVE status'[q] # "FINISHED_ABORTED"
      <3>1. status'[q] \in {"PREEMPTED", "WAITING_FOR_CHUNK", "RUNNING", "WAITING", status[q]}
        BY <1>1, <2>1, StatusOfQueued
      <3> QED
        BY <3>1 DEF AbortedIsGone
    <2> QED
      BY <2>2, <2>3 DEF AbortedIsGone
  <1>6. CASE Update
    <2>1. /\ requests' = requests \ Ended
          /\ status' = [r \in Requests |-> IF r \in Ended THEN "FINISHED_STOPPED"
                                           ELSE IF r \in StoppedNow THEN "WAITING" ELSE status[r]]
      BY <1>6 DEF Update
    <2> QED
      BY <1>1, <2>1 DEF AbortedIsGone
  <1> QED
    BY <1>2, <1>3, <1>4, <1>5, <1>6
       DEF Next, vars, queueVars, Send, Receive, Take, Mark, Fill

(* What has been played of the first chunks, in the words of the promise.  *)
LEMMA PlayedIsPlayed ==
    ASSUME TypeInv, NEW r \in Requests, NEW n \in 0..Len(sent[r]), r \notin spoiled,
           Played(r, n)
    PROVE  Playback(r)!PlayedUpTo(n)
  <1>1. sent[r] \in Seq(Chunks)
    BY DEF TypeInv, Types
  <1>2. \A i \in 1..n : sent[r][i] \in Chunks
    BY <1>1
  <1>3. Elements(played[r]) = {i \in 1..n : Playable(sent[r][i])}
    BY DEF Played, FirstChunks
  <1> QED
    BY <1>2, <1>3 DEF Playback!PlayedUpTo, Elements

(* A step of schedule() plays the next chunk of a request, or none.        *)
LEMMA SchedulePlays ==
    ASSUME Depth = 1, QueueInv, StreamInv, AbortedIsGone, Schedule,
           NEW r \in Requests, r \notin spoiled'
    PROVE  Playback(r)!Play \/ UNCHANGED <<sent[r], played[r], PlayState(r)>>
  <1>1. PICK step, ended, run, wait, granted, more :
           Scheduled(step, ended, run, wait, granted, more)
    BY ScheduleIsScheduled DEF QueueInv
  <1>2. /\ Elements(step) \subseteq QueuedNow \cap Staying
        /\ QueuedNow \subseteq requests /\ requests \subseteq Requests
        /\ flight = <<>> /\ sent' = sent /\ spoiled \subseteq spoiled'
    <2>1. QueuedNow \subseteq requests /\ requests \subseteq Requests
      BY QueuesApart DEF QueueInv, TypeInv, Types, QueuedNow
    <2> QED
      BY <1>1, <2>1 DEF Scheduled, QueuesDivided
  <1>3. PlayState(r)' = PlayState(r)
    <2>1. CASE r \in requests
      <3>1. PlayState(r) = "live"
        BY <2>1, LiveIsLive
      <3>2. status'[r] \in {"PREEMPTED", "WAITING_FOR_CHUNK", "RUNNING", "WAITING", status[r]}
        BY <1>1, StatusOfQueued
      <3> QED
        BY <3>1, <3>2 DEF PlayState
    <2>2. CASE r \notin requests
      <3>1. status'[r] = status[r]
        BY <1>1, <2>2, StatusOfQueued
      <3> QED
        BY <3>1 DEF PlayState
    <2> QED
      BY <2>1, <2>2
  <1>4. CASE r \notin Elements(step)
    <2>1. played'[r] = played[r]
      BY <1>1, <1>4 DEF Scheduled
    <2> QED
      BY <1>2, <1>3, <2>1
  <1>5. CASE r \in Elements(step)
    <2>1. r \in requests /\ Stays(r) /\ Holds(r)
      <3>1. r \in requests /\ Stays(r)
        BY <1>2, <1>5 DEF Staying
      <3> QED
        BY <1>2, <3>1, StayingHolds
    <2>2. \/ played'[r] = Append(played[r], got[r]) /\ Playable(sent[r][got[r]])
          \/ played'[r] = played[r]
      BY <1>1, <1>5, <2>1, ComputedIsPlayed
    <2>3. CASE played'[r] = played[r]
      BY <1>2, <1>3, <2>3
    <2>4. CASE played'[r] = Append(played[r], got[r]) /\ Playable(sent[r][got[r]])
      <3>1. got[r] \in DOMAIN sent[r] /\ Played(r, got[r] - 1) /\ sent[r] \in Seq(Chunks)
        BY <2>1 DEF Holds, QueueInv, TypeInv, Types
      <3>2. got[r] - 1 \in 0..Len(sent[r]) /\ sent[r][got[r]] \in {c \in Chunks : Playable(c)}
        BY <2>4, <3>1
      <3>3. Playback(r)!PlayedUpTo(got[r] - 1)
        BY <1>2, <3>1, <3>2, PlayedIsPlayed DEF QueueInv
      <3>4. PlayState(r) = "live"
        BY <2>1, LiveIsLive
      <3> QED
        BY <1>2, <1>3, <2>4, <3>1, <3>2, <3>3, <3>4 DEF Playback!Play
    <2> QED
      BY <2>2, <2>3, <2>4
  <1> QED
    BY <1>4, <1>5

(* An answer ends a request whose stream has been played to its end.       *)
LEMMA UpdateEnds ==
    ASSUME QueueInv, StreamInv, AbortedIsGone, Update, StreamInv',
           NEW r \in Requests, r \notin spoiled'
    PROVE  Playback(r)!End \/ UNCHANGED <<sent[r], played[r], PlayState(r)>>
  <1>1. /\ flight # <<>> /\ sent' = sent /\ played' = played /\ r \notin spoiled
        /\ status' = [q \in Requests |-> IF q \in Ended THEN "FINISHED_STOPPED"
                                         ELSE IF q \in StoppedNow THEN "WAITING" ELSE status[q]]
    BY DEF Update
  <1>2. StoppedNow \subseteq requests /\ Ended \subseteq StoppedNow
    BY <1>1, StoppedFacts DEF QueueInv, Ended
  <1>3. CASE r \notin StoppedNow
    <2>1. status'[r] = status[r]
      BY <1>1, <1>2, <1>3
    <2> QED
      BY <1>1, <2>1 DEF PlayState
  <1>4. CASE r \in StoppedNow \ Ended
    <2>1. status'[r] = "WAITING" /\ PlayState(r) = "live"
      BY <1>1, <1>2, <1>4, LiveIsLive
    <2> QED
      BY <1>1, <2>1 DEF PlayState
  <1>5. CASE r \in Ended
    <2>1. status'[r] = "FINISHED_STOPPED" /\ PlayState(r) = "live"
      BY <1>1, <1>2, <1>5, LiveIsLive
    <2>2. PlayState(r)' = "ended"
      BY <2>1 DEF PlayState
    <2>3. (StreamEnded(r) /\ Played(r, Len(sent[r])))'
      BY <2>1 DEF StreamInv, StreamOK, EndOK
    <2>4. StreamEnded(r) /\ Played(r, Len(sent[r]))
      BY <1>1, <2>3 DEF StreamEnded, Played
    <2>5. sent[r] \in Seq(Chunks) /\ sent[r] # <<>>
      BY <2>4 DEF QueueInv, TypeInv, Types, StreamEnded
    <2>6. Len(sent[r]) \in 0..Len(sent[r]) /\ sent[r][Len(sent[r])] \in Chunks
      BY <2>5
    <2>7. Playback(r)!PlayedUpTo(Len(sent[r]))
      BY <1>1, <2>4, <2>6, PlayedIsPlayed DEF QueueInv
    <2>8. Playback(r)!Complete
      BY <2>4, <2>5, <2>6 DEF Playback!Complete, StreamEnded
    <2> QED
      BY <1>1, <2>1, <2>2, <2>7, <2>8 DEF Playback!End
  <1> QED
    BY <1>3, <1>4, <1>5

(* Every step is one of StreamPlayback, or changes nothing that it names.  *)
LEMMA PlaybackStep ==
    ASSUME Depth = 1, QueueInv, StreamInv, AbortedIsGone, Next, StreamInv',
           NEW r \in Requests, r \notin spoiled'
    PROVE  [Playback(r)!Next]_<<sent[r], played[r], PlayState(r)>>
  <1>1. /\ status \in [Requests -> Statuses] /\ requests \subseteq Requests
        /\ sent \in [Requests -> Seq(Chunks)]
    BY DEF QueueInv, TypeInv, Types
  <1>2. CASE sent'[r] = sent[r] /\ played'[r] = played[r] /\ status'[r] = status[r]
    BY <1>2 DEF PlayState
  <1>3. ASSUME NEW q \in Requests, Send(q)
        PROVE  [Playback(r)!Next]_<<sent[r], played[r], PlayState(r)>>
    <2>1. PICK c \in Chunks : sent' = [sent EXCEPT ![q] = Append(@, c)]
      BY <1>3 DEF Send
    <2>2. ~StreamEnded(q) /\ UNCHANGED <<played, status>>
      BY <1>3 DEF Send
    <2>3. CASE q # r
      BY <1>1, <1>2, <2>1, <2>2, <2>3
    <2>4. CASE q = r
      <3>1. sent'[r] = Append(sent[r], c)
        BY <1>1, <2>1, <2>4
      <3>2. ~Playback(r)!Complete
        BY <1>1, <2>2, <2>4 DEF Playback!Complete, StreamEnded
      <3>3. played'[r] = played[r] /\ PlayState(r)' = PlayState(r)
        BY <2>2 DEF PlayState
      <3> QED
        BY <3>1, <3>2, <3>3 DEF Playback!Put, Playback!Next
    <2> QED
      BY <2>3, <2>4
  <1>4. ASSUME NEW q \in Requests, Arrive(q)
        PROVE  [Playback(r)!Next]_<<sent[r], played[r], PlayState(r)>>
    <2>1. /\ status[q] = "NEW" /\ status' = [status EXCEPT ![q] = "WAITING"]
          /\ sent' = sent /\ played' = played
      BY <1>4 DEF Arrive
    <2>2. CASE q # r
      BY <1>1, <1>2, <2>1, <2>2
    <2>3. CASE q = r
      <3>1. PlayState(r) = "new" /\ PlayState(r)' = "live"
        BY <1>1, <2>1, <2>3 DEF PlayState
      <3> QED
        BY <2>1, <3>1 DEF Playback!Begin, Playback!Next
    <2> QED
      BY <2>2, <2>3
  <1>5. ASSUME NEW q \in Requests, Abort(q)
        PROVE  [Playback(r)!Next]_<<sent[r], played[r], PlayState(r)>>
    <2>1. /\ q \in requests /\ status' = [status EXCEPT ![q] = "FINISHED_ABORTED"]
          /\ sent' = sent /\ played' = played
      BY <1>5 DEF Abort
    <2>2. CASE q # r
      BY <1>1, <1>2, <2>1, <2>2
    <2>3. CASE q = r
      <3>1. PlayState(r) = "live"
        BY <2>1, <2>3, LiveIsLive
      <3>2. PlayState(r)' = "aborted"
        BY <1>1, <2>1, <2>3 DEF PlayState
      <3> QED
        BY <2>1, <3>1, <3>2 DEF Playback!Abort, Playback!Next
    <2> QED
      BY <2>2, <2>3
  <1>6. CASE Schedule
    BY <1>6, SchedulePlays DEF Playback!Next
  <1>7. CASE Update
    BY <1>7, UpdateEnds DEF Playback!Next
  <1>8. CASE Receive
    BY <1>2, <1>8 DEF Receive, Take, Mark, Fill
  <1> QED
    BY <1>3, <1>4, <1>5, <1>6, <1>7, <1>8 DEF Next

(* Both begin alike.                                                       *)
LEMMA PlaybackInit ==
    ASSUME Init
    PROVE  AbortedIsGone /\ \A r \in Requests : Playback(r)!Init
  <1>1. AbortedIsGone
    BY DEF Init, AbortedIsGone
  <1>2. ASSUME NEW r \in Requests PROVE Playback(r)!Init
    <2>1. sent[r] = <<>> /\ played[r] = <<>> /\ PlayState(r) = "new"
      BY DEF Init, PlayState
    <2> QED
      BY <2>1 DEF Playback!Init
  <1> QED
    BY <1>1, <1>2

(* With one step in flight, whatever the length of the chunks, the receive *)
(* thread and the scheduler keep what StreamPlayback promises of each      *)
(* stream until a step cuts one of its chunks that is not the last: the    *)
(* chunks are computed one by one in their order, the request ends by      *)
(* itself only after its last chunk, and nothing of it is computed after   *)
(* its end or an abort.  (process_pending_chunks, schedule,                *)
(* update_from_output, finish_requests)                                    *)
THEOREM PlaybackIsKept ==
    ASSUME Depth = 1
    PROVE  Spec => PlaybackKept
  <1>1. Init => /\ QueueInv /\ StreamInv /\ AbortedIsGone
                /\ \A r \in Requests : Playback(r)!Init
    BY InitQueueInv, InitStreamInv, PlaybackInit
  <1>2. QueueInv /\ StreamInv /\ AbortedIsGone /\ [Next]_vars
           => (QueueInv /\ StreamInv /\ AbortedIsGone)'
    BY NextQueueInv, NextStreamInv, AbortedStaysGone
  <1>3. QueueInv /\ StreamInv /\ AbortedIsGone /\ [Next]_vars
        /\ (QueueInv /\ StreamInv /\ AbortedIsGone)'
           => [\A r \in Requests : r \notin spoiled' =>
                  [Playback(r)!Next]_<<sent[r], played[r], PlayState(r)>>]_vars
    BY PlaybackStep
  <1> QED
    BY <1>1, <1>2, <1>3, PTL DEF Spec, PlaybackKept

(* What spoils a stream.                                                   *)
LEMMA NextSpoils ==
    ASSUME Depth = 1, QueueInv, StreamInv, Next, NEW r \in spoiled' \ spoiled
    PROVE  /\ input[r].computed < input'[r].computed
           /\ input'[r].computed < input'[r].len
           /\ ~DoneReceiving(r)
  <1>1. CASE Schedule
    <2>1. PICK step, ended, run, wait, granted, more :
             Scheduled(step, ended, run, wait, granted, more)
      BY <1>1, ScheduleIsScheduled DEF QueueInv
    <2>2. /\ r \in Elements(step) /\ ~DoneReceiving(r) /\ more[r] < Remaining(r)
          /\ more[r] \in Nat /\ more[r] > 0
          /\ input' = [q \in Requests |->
                IF q \in Elements(step) THEN [input[q] EXCEPT !.computed = @ + more[q]]
                ELSE input[q]]
      BY <2>1 DEF Scheduled
    <2>3. r \in Requests /\ input[r] \in [chunk : Nat, len : 0..ChunkTokens, computed : Nat]
      <3>1. QueuedNow \subseteq requests /\ requests \subseteq Requests
        BY QueuesApart DEF QueueInv, TypeInv, Types, QueuedNow
      <3>2. r \in Requests
        BY <2>1, <2>2, <3>1 DEF Scheduled, QueuesDivided
      <3> QED
        BY <3>2 DEF QueueInv, TypeInv, Types
    <2>4. input'[r] = [input[r] EXCEPT !.computed = input[r].computed + more[r]]
      BY <2>2, <2>3
    <2> QED
      BY <2>2, <2>3, <2>4, ChunkAssumption DEF Remaining
  <1>2. CASE Update
    <2>1. flight # <<>> /\ r \in Overtaken
      BY <1>2 DEF Update
    <2>2. /\ r \in Elements(Stopped) /\ Polled(r)
          /\ r \in StoppedNow /\ r \in requests /\ r \in Requests
      BY <2>1, StoppedFacts DEF Overtaken, Polled, StoppedNow, QueueInv, TypeInv, Types
    <2>3. status[r] # "WAITING_FOR_CHUNK"
      BY <2>1, <2>2, StoppedHasPlayed
    <2> QED
      BY <2>2, <2>3 DEF StreamInv, StreamOK, PlaceOK
  <1>3. CASE UNCHANGED spoiled
    BY <1>3
  <1> QED
    BY <1>1, <1>2, <1>3 DEF Next, Send, Arrive, Abort, Receive, Take, Mark, Fill

(* With one step in flight a stream is spoiled by nothing but a step that  *)
(* computes some of the tokens of its chunk and not the last, with the     *)
(* end of the stream or of the segment not yet noted.  (schedule)          *)
THEOREM OnlyCutsSpoil ==
    ASSUME Depth = 1
    PROVE  Spec => [][\A r \in spoiled' \ spoiled :
                         /\ input[r].computed < input'[r].computed
                         /\ input'[r].computed < input'[r].len
                         /\ ~DoneReceiving(r)]_vars
  <1>1. Init => QueueInv /\ StreamInv
    BY InitQueueInv, InitStreamInv
  <1>2. QueueInv /\ StreamInv /\ [Next]_vars => (QueueInv /\ StreamInv)'
    BY NextQueueInv, NextStreamInv
  <1>3. QueueInv /\ StreamInv /\ [Next]_vars
           => [\A r \in spoiled' \ spoiled :
                  /\ input[r].computed < input'[r].computed
                  /\ input'[r].computed < input'[r].len
                  /\ ~DoneReceiving(r)]_vars
    BY NextSpoils
  <1> QED
    BY <1>1, <1>2, <1>3, PTL DEF Spec
=============================================================================
