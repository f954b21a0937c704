--------------------------- MODULE NativeInputProofs ---------------------------
(***************************************************************************)
(* Theorems about NativeInput, for any size of a unit, any chunks, any     *)
(* limit and any number of appends, commits and cancels.  The parts: what  *)
(* the buffer's operations do to the sequence of the samples that wait;    *)
(* the control part of the inductive invariant (Control), which keeps the  *)
(* appends one behind the other and the reservations in their order; the   *)
(* order of the samples (Order), one lemma for each kind of step; the      *)
(* order of what the engine executes (HeardOK); and, from these three,     *)
(* that no sample is lost and that the budget is what the session holds.   *)
(***************************************************************************)
EXTENDS NativeInput, FiniteSetTheorems, SequenceTheorems, TLAPS

-----------------------------------------------------------------------------
(* Sequences of samples.                                                   *)

(* A nonempty set of naturals has a least element: the sets 1..n are well  *)
(* founded under inclusion.  This is how a fact about every number is      *)
(* proved here: there is no least counterexample.                          *)
LEMMA Smallest ==
    ASSUME NEW T \in SUBSET Nat, T # {}
    PROVE  \E m \in T : \A n \in T : m <= n
  <1> DEFINE F == {1..n : n \in T}
  <1>1. F \subseteq FiniteSubsetsOf(Nat)
    <2>1. \A n \in Nat : IsFiniteSet(1..n)
      BY FS_Interval
    <2> QED
      BY <2>1 DEF FiniteSubsetsOf
  <1>2. F # {}
    OBVIOUS
  <1>3. PICK x \in F : \A y \in F : ~ (<<y, x>> \in StrictSubsetOrdering(Nat))
    <2> HIDE DEF F
    <2> QED
      BY <1>1, <1>2, FS_StrictSubsetOrderingWellFounded, WFMin
  <1>4. PICK m \in T : x = 1..m
    OBVIOUS
  <1>5. ASSUME NEW n \in T, n < m PROVE FALSE
    <2>1. m \in 1..m /\ m \notin 1..n /\ 1..n \subseteq 1..m
      BY <1>5
    <2>2. <<1..n, 1..m>> \in StrictSubsetOrdering(Nat)
      BY <1>5, <2>1 DEF StrictSubsetOrdering
    <2> QED
      BY <2>2, <1>3, <1>4
  <1> QED
    BY <1>5

(* FlattenSeq is the last value of this function.                          *)
FlatBody(g, q, n) == [i \in 1..n |-> IF i = 1 THEN q[i] ELSE g[i - 1] \o q[i]]

Flat(q, n) == CHOOSE g : g = FlatBody(g, q, n)

(* What FlattenSeq means: the last of the sequences joined so far.         *)
LEMMA FlatIsFlat ==
    ASSUME NEW q, Len(q) # 0
    PROVE  FlattenSeq(q) = Flat(q, Len(q))[Len(q)]
  <1> QED
    BY DEF FlattenSeq, Flat, FlatBody

(* The recursive function satisfies its equation.                          *)
LEMMA FlatUnfolds ==
    ASSUME NEW q, NEW n \in Nat
    PROVE  Flat(q, n) = FlatBody(Flat(q, n), q, n)
  <1> DEFINE Step(g, i) == IF i = 1 THEN q[i] ELSE g[i - 1] \o q[i]
             Body(g, k) == [i \in 1..k |-> Step(g, i)]
  <1>1. \A k \in 0..n : \E g : g = Body(g, k)
    <2> DEFINE Bad == {k \in 0..n : ~ \E g : g = Body(g, k)}
    <2> SUFFICES ASSUME Bad # {} PROVE FALSE
      OBVIOUS
    <2>1. Bad \in SUBSET Nat
      <3> HIDE DEF Body
      <3> QED
        OBVIOUS
    <2>2. PICK m \in Bad : \A k \in Bad : m <= k
      <3> HIDE DEF Bad
      <3> QED
        BY <2>1, Smallest
    <2>3. m # 0
      <3> DEFINE g == [i \in 1..0 |-> <<>>]
      <3>1. g = Body(g, 0)
        OBVIOUS
      <3> QED
        BY <3>1
    <2>4. m - 1 \in 0..n /\ m - 1 \notin Bad /\ m \in Nat
      <3>1. m \in 0..n
        BY <2>2
      <3> HIDE DEF Bad
      <3> QED
        BY <2>2, <2>3, <3>1
    <2>5. PICK g : g = Body(g, m - 1)
      BY <2>4
    <2> DEFINE h == [i \in 1..m |-> IF i = m THEN Step(g, m) ELSE g[i]]
    <2>6. h = Body(h, m)
      <3>1. \A i \in 1..(m - 1) : g[i] = Step(g, i)
        BY <2>5
      <3>2. \A i \in 1..m : i # 1 => i - 1 \in 1..m /\ i - 1 # m
        BY <2>4
      <3>3. \A i \in 1..m : i # m => i \in 1..(m - 1)
        BY <2>4
      <3>4. \A i \in 1..m : i # 1 => h[i - 1] = g[i - 1]
        BY <3>2
      <3>5. \A i \in 1..m : h[i] = Step(h, i)
        <4> SUFFICES ASSUME NEW i \in 1..m PROVE h[i] = Step(h, i)
          OBVIOUS
        <4>1. CASE i = m
          BY <3>4, <4>1
        <4>2. CASE i # m
          <5>1. h[i] = g[i] /\ i \in 1..(m - 1)
            BY <3>3, <4>2
          <5> QED
            BY <3>1, <3>4, <5>1
        <4> QED
          BY <4>1, <4>2
      <3> QED
        BY <3>5
    <2> QED
      BY <2>2, <2>6
  <1>2. \E g : g = FlatBody(g, q, n)
    <2>1. \A g : FlatBody(g, q, n) = Body(g, n)
      BY DEF FlatBody
    <2>2. n \in 0..n
      OBVIOUS
    <2> HIDE DEF Body
    <2> QED
      BY <1>1, <2>1, <2>2
  <1> QED
    BY <1>2 DEF Flat

(* Each step joins one more sequence.                                      *)
LEMMA FlatSteps ==
    ASSUME NEW q, NEW n \in Nat, NEW i \in 1..n
    PROVE  Flat(q, n)[i] = IF i = 1 THEN q[i] ELSE Flat(q, n)[i - 1] \o q[i]
  <1> DEFINE f == Flat(q, n)
  <1>1. f = FlatBody(f, q, n)
    BY FlatUnfolds
  <1> HIDE DEF f
  <1>2. FlatBody(f, q, n)[i] = IF i = 1 THEN q[i] ELSE f[i - 1] \o q[i]
    BY DEF FlatBody
  <1> QED
    BY <1>1, <1>2 DEF f

(* It depends on what is before only.                                      *)
LEMMA FlatAgrees ==
    ASSUME NEW p, NEW q, NEW m \in Nat, NEW n \in Nat, m <= n,
           \A i \in 1..m : p[i] = q[i]
    PROVE  \A i \in 1..m : Flat(p, m)[i] = Flat(q, n)[i]
  <1> DEFINE f == Flat(p, m)
             g == Flat(q, n)
             Bad == {i \in 1..m : f[i] # g[i]}
  <1> SUFFICES ASSUME Bad # {} PROVE FALSE
    OBVIOUS
  <1>1. Bad \in SUBSET Nat
    OBVIOUS
  <1>2. PICK k \in Bad : \A i \in Bad : k <= i
    <2> HIDE DEF Bad
    <2> QED
      BY <1>1, Smallest
  <1>3. k \in 1..m /\ k \in 1..n /\ f[k] # g[k]
    BY <1>2
  <1>4. /\ f[k] = IF k = 1 THEN p[k] ELSE f[k - 1] \o p[k]
        /\ g[k] = IF k = 1 THEN q[k] ELSE g[k - 1] \o q[k]
    BY <1>3, FlatSteps
  <1>5. k # 1
    BY <1>3, <1>4
  <1>6. k - 1 \in 1..m /\ ~ (k <= k - 1)
    BY <1>3, <1>5
  <1>7. k - 1 \notin Bad
    BY <1>2, <1>6
  <1> QED
    BY <1>3, <1>4, <1>6, <1>7

-----------------------------------------------------------------------------
(* What the reservations hold.                                             *)

(* One sequence after another one, as a name that the provers leave alone. *)
Joined(p, q) == p \o q

IsJoined(j, p, q) ==
    /\ Len(j) = Len(p) + Len(q)
    /\ \A i \in 1..Len(p) : j[i] = p[i]
    /\ \A i \in 1..Len(q) : j[Len(p) + i] = q[i]

(* The type, the length and the elements of a joined sequence.             *)
LEMMA JoinedFacts ==
    ASSUME NEW S, NEW p \in Seq(S), NEW q \in Seq(S)
    PROVE  Joined(p, q) \in Seq(S) /\ IsJoined(Joined(p, q), p, q)
  BY DEF Joined, IsJoined

(* Nothing is joined.                                                      *)
LEMMA JoinedEmpty ==
    ASSUME NEW S, NEW p \in Seq(S)
    PROVE  Joined(p, <<>>) = p /\ Joined(<<>>, p) = p
  BY DEF Joined

(* To append to the second is to append to the whole.                      *)
LEMMA JoinedAppend ==
    ASSUME NEW S, NEW p \in Seq(S), NEW q \in Seq(S), NEW e \in S
    PROVE  Joined(p, Append(q, e)) = Append(Joined(p, q), e)
  <1> DEFINE l == p \o Append(q, e)
             r == Append(p \o q, e)
  <1>1. l \in Seq(S) /\ r \in Seq(S) /\ Len(l) = Len(p) + Len(q) + 1 /\ Len(r) = Len(p) + Len(q) + 1
    OBVIOUS
  <1>2. \A i \in 1..(Len(p) + Len(q) + 1) : l[i] = r[i]
    OBVIOUS
  <1> HIDE DEF l, r
  <1>3. l = r
    BY <1>1, <1>2
  <1> QED
    BY <1>3 DEF l, r, Joined

(* Joining is associative.                                                 *)
LEMMA JoinedAssoc ==
    ASSUME NEW S, NEW p \in Seq(S), NEW q \in Seq(S), NEW r \in Seq(S)
    PROVE  Joined(Joined(p, q), r) = Joined(p, Joined(q, r))
  <1> DEFINE a == (p \o q) \o r
             b == p \o (q \o r)
  <1>1. /\ a \in Seq(S) /\ b \in Seq(S)
        /\ Len(a) = Len(p) + Len(q) + Len(r) /\ Len(b) = Len(p) + Len(q) + Len(r)
    OBVIOUS
  <1>2. \A i \in 1..(Len(p) + Len(q) + Len(r)) : a[i] = b[i]
    OBVIOUS
  <1> HIDE DEF a, b
  <1>3. a = b
    BY <1>1, <1>2
  <1> QED
    BY <1>3 DEF a, b, Joined

(* The part of a sequence from m to k.                                     *)
LEMMA CutFacts ==
    ASSUME NEW S, NEW q \in Seq(S), NEW m \in 1..(Len(q) + 1), NEW k \in 0..Len(q), m <= k + 1
    PROVE  /\ SubSeq(q, m, k) \in Seq(S) /\ Len(SubSeq(q, m, k)) = k + 1 - m
           /\ \A i \in 1..(k + 1 - m) : SubSeq(q, m, k)[i] = q[m + i - 1]
  <1> QED
    BY SubSeqProperties

(* A sequence is its first k entries and the others.                       *)
LEMMA CutJoins ==
    ASSUME NEW S, NEW q \in Seq(S), NEW k \in 0..Len(q)
    PROVE  Joined(SubSeq(q, 1, k), SubSeq(q, k + 1, Len(q))) = q
  <1> DEFINE a == SubSeq(q, 1, k)
             b == SubSeq(q, k + 1, Len(q))
  <1>1. Len(q) \in Nat /\ k \in Nat /\ k <= Len(q)
    OBVIOUS
  <1>2. /\ a \in Seq(S) /\ Len(a) = k + 1 - 1 /\ \A i \in 1..(k + 1 - 1) : a[i] = q[1 + i - 1]
    BY <1>1, CutFacts
  <1>3. /\ b \in Seq(S) /\ Len(b) = Len(q) + 1 - (k + 1)
        /\ \A i \in 1..(Len(q) + 1 - (k + 1)) : b[i] = q[k + 1 + i - 1]
    BY <1>1, CutFacts
  <1> HIDE DEF a, b
  <1>4. /\ Joined(a, b) \in Seq(S) /\ Len(Joined(a, b)) = Len(a) + Len(b)
        /\ \A i \in 1..Len(a) : Joined(a, b)[i] = a[i]
        /\ \A i \in 1..Len(b) : Joined(a, b)[Len(a) + i] = b[i]
    <2>1. a \in Seq(S) /\ b \in Seq(S)
      BY <1>2, <1>3
    <2>2. Joined(a, b) \in Seq(S) /\ IsJoined(Joined(a, b), a, b)
      BY <2>1, JoinedFacts
    <2> QED
      BY <2>2 DEF IsJoined
  <1> DEFINE j == Joined(a, b)
  <1>5. j \in Seq(S) /\ Len(j) = Len(q)
    BY <1>1, <1>2, <1>3, <1>4
  <1>6. ASSUME NEW i \in 1..Len(q) PROVE j[i] = q[i]
    <2>1. CASE i <= k
      BY <1>1, <1>2, <1>4, <2>1
    <2>2. CASE ~ (i <= k)
      <3>1. i - k \in 1..Len(b) /\ i = Len(a) + (i - k)
        BY <1>1, <1>2, <1>3, <2>2
      <3>2. j[Len(a) + (i - k)] = b[i - k]
        BY <1>4, <3>1
      <3>3. b[i - k] = q[k + 1 + (i - k) - 1] /\ k + 1 + (i - k) - 1 = i
        BY <1>1, <1>3, <3>1
      <3> QED
        BY <3>1, <3>2, <3>3
    <2> QED
      BY <2>1, <2>2
  <1> HIDE DEF j
  <1>7. j = q
    BY <1>5, <1>6
  <1> QED
    BY <1>7 DEF j, a, b

(* A queue is its front and its last entry.                                *)
LEMMA FrontAndLast ==
    ASSUME NEW S, NEW q \in Seq(S), q # <<>>
    PROVE  LET front == SubSeq(q, 1, Len(q) - 1)
           IN  /\ front \in Seq(S) /\ Len(front) = Len(q) - 1
               /\ q[Len(q)] \in S
               /\ q = Append(front, q[Len(q)])
  <1> DEFINE n == Len(q)
             front == SubSeq(q, 1, n - 1)
  <1>1. n \in Nat \ {0} /\ n - 1 \in Nat
    OBVIOUS
  <1>2. /\ front \in Seq(S) /\ Len(front) = n - 1
        /\ \A i \in 1..(n - 1) : front[i] = q[i]
    <2>1. 1 \in 1..(n + 1) /\ n - 1 \in 0..n /\ 1 <= (n - 1) + 1 /\ (n - 1) + 1 - 1 = n - 1
      BY <1>1
    <2>2. /\ front \in Seq(S) /\ Len(front) = (n - 1) + 1 - 1
          /\ \A i \in 1..((n - 1) + 1 - 1) : front[i] = q[1 + i - 1]
      BY <2>1, CutFacts, Zenon
    <2> HIDE DEF front
    <2> QED
      BY <1>1, <2>1, <2>2
  <1>3. q[n] \in S
    BY <1>1
  <1> HIDE DEF front
  <1>4. q = Append(front, q[n])
    <2>1. /\ Append(front, q[n]) \in Seq(S) /\ Len(Append(front, q[n])) = n
          /\ \A i \in 1..(n - 1) : Append(front, q[n])[i] = q[i]
          /\ Append(front, q[n])[n] = q[n]
      BY <1>1, <1>2, <1>3
    <2> DEFINE a == Append(front, q[n])
    <2> HIDE DEF a
    <2>2. \A i \in 1..n : a[i] = q[i]
      <3>1. \A i \in 1..n : i \in 1..(n - 1) \/ i = n
        BY <1>1
      <3> QED
        BY <2>1, <3>1 DEF a
    <2>3. a \in Seq(S) /\ Len(a) = n
      BY <2>1 DEF a
    <2>4. a = q
      BY <2>2, <2>3
    <2> QED
      BY <2>4 DEF a
  <1> QED
    BY <1>1, <1>2, <1>3, <1>4 DEF front

ReservationType == [task : Nat, raw : Seq(Nat), speech : BOOLEAN]

PcmType == [buffer : Seq(Nat), reserved : Seq(ReservationType), speech : BOOLEAN]

(* No reservation holds no sample.                                         *)
LEMMA RawEmpty ==
    Raw(<<>>) = <<>>
  <1> DEFINE q == [i \in DOMAIN <<>> |-> <<>>[i].raw]
  <1>1. q = <<>> /\ Len(q) = 0
    OBVIOUS
  <1>2. FlattenSeq(q) = q
    BY <1>1 DEF FlattenSeq
  <1> QED
    BY <1>1, <1>2 DEF Raw

(* One sequence more is joined at the end.                                 *)
LEMMA FlatLonger ==
    ASSUME NEW p, NEW q, NEW n \in Nat, Len(p) = n + 1, Len(q) = n, n # 0,
           \A i \in 1..n : q[i] = p[i]
    PROVE  FlattenSeq(p) = Joined(FlattenSeq(q), p[n + 1])
  <1> DEFINE k == n + 1
  <1>1. n \in Nat /\ k \in Nat /\ n <= k /\ k \in 1..k /\ n \in 1..n /\ k # 0 /\ k # 1 /\ k - 1 = n
    OBVIOUS
  <1>2. Len(p) = k
    OBVIOUS
  <1> HIDE DEF k
  <1>3. \A i \in 1..n : Flat(q, n)[i] = Flat(p, k)[i]
    BY <1>1, FlatAgrees
  <1>4. Flat(p, k)[k] = Flat(p, k)[k - 1] \o p[k]
    BY <1>1, FlatSteps
  <1>5. FlattenSeq(p) = Flat(p, k)[k] /\ FlattenSeq(q) = Flat(q, n)[n]
    BY <1>1, <1>2, FlatIsFlat
  <1>6. Flat(p, k)[k - 1] = Flat(q, n)[n]
    BY <1>1, <1>3
  <1> QED
    BY <1>4, <1>5, <1>6 DEF Joined, k

(* One sequence alone.                                                     *)
LEMMA FlatOne ==
    ASSUME NEW p, Len(p) = 1
    PROVE  FlattenSeq(p) = p[1]
  <1> DEFINE n == 1
  <1>0. Len(p) = n /\ n # 0
    OBVIOUS
  <1> HIDE DEF n
  <1>1. FlattenSeq(p) = Flat(p, n)[n]
    BY <1>0, FlatIsFlat
  <1>2. Flat(p, 1)[1] = p[1]
    BY FlatSteps
  <1> QED
    BY <1>1, <1>2 DEF n

(* A new reservation holds its samples behind those of the others.         *)
LEMMA RawAppend ==
    ASSUME NEW rs \in Seq(ReservationType), NEW r \in ReservationType
    PROVE  Raw(Append(rs, r)) = Joined(Raw(rs), r.raw)
  <1> DEFINE n == Len(rs)
             q == [i \in DOMAIN rs |-> rs[i].raw]
             more == Append(rs, r)
             p == [i \in DOMAIN more |-> more[i].raw]
  <1>1. /\ n \in Nat /\ DOMAIN rs = 1..n /\ Len(more) = n + 1 /\ DOMAIN more = 1..(n + 1)
        /\ \A i \in 1..n : more[i] = rs[i]
        /\ more[n + 1] = r
        /\ r.raw \in Seq(Nat)
    BY DEF ReservationType
  <1> HIDE DEF more, n
  <1>2. /\ Len(p) = n + 1 /\ Len(q) = n
        /\ \A i \in 1..n : q[i] = p[i]
        /\ p[n + 1] = r.raw
    BY <1>1
  <1>3. Raw(rs) = FlattenSeq(q) /\ Raw(more) = FlattenSeq(p)
    BY DEF Raw
  <1> HIDE DEF p, q
  <1>4. CASE n = 0
    <2>1. Raw(more) = r.raw
      <3>1. Len(p) = 1 /\ n + 1 = 1
        BY <1>2, <1>4
      <3>2. FlattenSeq(p) = p[1]
        BY <3>1, FlatOne
      <3> QED
        BY <1>2, <1>3, <3>1, <3>2
    <2>2. rs = <<>>
      BY <1>4 DEF n
    <2>3. Raw(rs) = <<>>
      BY <2>2, RawEmpty
    <2>4. Joined(<<>>, r.raw) = r.raw
      BY <1>1, JoinedEmpty
    <2> QED
      BY <2>1, <2>3, <2>4 DEF more
  <1>5. CASE n # 0
    <2>1. FlattenSeq(p) = Joined(FlattenSeq(q), p[n + 1])
      BY <1>1, <1>2, <1>5, FlatLonger
    <2> QED
      BY <1>2, <1>3, <2>1 DEF more
  <1> QED
    BY <1>4, <1>5

(* Reservations hold a sequence of samples, however many they are.         *)
LEMMA RawType ==
    \A rs \in Seq(ReservationType) : Raw(rs) \in Seq(Nat)
  <1> DEFINE Good(n) == \A rs \in Seq(ReservationType) : Len(rs) = n => Raw(rs) \in Seq(Nat)
             Bad == {n \in Nat : ~Good(n)}
  <1> SUFFICES Bad = {}
    OBVIOUS
  <1> SUFFICES ASSUME Bad # {} PROVE FALSE
    OBVIOUS
  <1>1. PICK n \in Bad : \A k \in Bad : n <= k
    <2> HIDE DEF Bad
    <2>1. Bad \in SUBSET Nat
      BY DEF Bad
    <2> QED
      BY <2>1, Smallest
  <1>2. PICK rs \in Seq(ReservationType) : Len(rs) = n /\ Raw(rs) \notin Seq(Nat)
    BY <1>1
  <1>3. rs # <<>>
    BY <1>2, RawEmpty
  <1> DEFINE front == SubSeq(rs, 1, Len(rs) - 1)
             last == rs[Len(rs)]
  <1>4. /\ front \in Seq(ReservationType) /\ Len(front) = Len(rs) - 1
        /\ last \in ReservationType
        /\ rs = Append(front, last)
    BY <1>3, FrontAndLast
  <1> HIDE DEF front, last
  <1>5. Len(front) \in Nat /\ ~ (n <= Len(front))
    BY <1>2, <1>4
  <1>6. Len(front) \notin Bad
    BY <1>1, <1>5
  <1>7. Raw(front) \in Seq(Nat)
    BY <1>4, <1>5, <1>6
  <1> HIDE DEF Bad, Good
  <1>8. Raw(rs) = Joined(Raw(front), last.raw)
    BY <1>4, <1>7, RawAppend
  <1>9. last.raw \in Seq(Nat)
    BY <1>4 DEF ReservationType
  <1> QED
    BY <1>2, <1>7, <1>8, <1>9, JoinedFacts

(* Reservations one after the other.                                       *)
LEMMA RawJoined ==
    \A q, p \in Seq(ReservationType) : Raw(Joined(p, q)) = Joined(Raw(p), Raw(q))
  <1> DEFINE Good(n) == \A q, p \in Seq(ReservationType) :
                           Len(q) = n => Raw(Joined(p, q)) = Joined(Raw(p), Raw(q))
             Bad == {n \in Nat : ~Good(n)}
  <1> SUFFICES Bad = {}
    OBVIOUS
  <1> SUFFICES ASSUME Bad # {} PROVE FALSE
    OBVIOUS
  <1>1. PICK n \in Bad : \A k \in Bad : n <= k
    <2> HIDE DEF Bad
    <2>1. Bad \in SUBSET Nat
      BY DEF Bad
    <2> QED
      BY <2>1, Smallest
  <1>2. PICK q \in Seq(ReservationType), p \in Seq(ReservationType) :
            Len(q) = n /\ Raw(Joined(p, q)) # Joined(Raw(p), Raw(q))
    BY <1>1
  <1> HIDE DEF Bad, Good
  <1>3. Raw(p) \in Seq(Nat) /\ Raw(q) \in Seq(Nat)
    BY RawType
  <1>4. q # <<>>
    <2> SUFFICES ASSUME q = <<>> PROVE FALSE
      OBVIOUS
    <2>1. Joined(p, q) = p /\ Raw(q) = <<>>
      BY RawEmpty, JoinedEmpty
    <2>2. Joined(Raw(p), <<>>) = Raw(p)
      BY <1>3, JoinedEmpty
    <2> QED
      BY <1>2, <2>1, <2>2
  <1> DEFINE front == SubSeq(q, 1, Len(q) - 1)
             last == q[Len(q)]
  <1>5. /\ front \in Seq(ReservationType) /\ Len(front) = Len(q) - 1
        /\ last \in ReservationType
        /\ q = Append(front, last)
    BY <1>4, FrontAndLast
  <1> HIDE DEF front, last
  <1>6. Len(front) \in Nat /\ ~ (n <= Len(front))
    BY <1>2, <1>5
  <1>7. Len(front) \notin Bad
    BY <1>1, <1>6
  <1>8. Raw(Joined(p, front)) = Joined(Raw(p), Raw(front))
    BY <1>5, <1>6, <1>7 DEF Bad, Good
  <1>9. Joined(p, q) = Append(Joined(p, front), last) /\ Joined(p, front) \in Seq(ReservationType)
    BY <1>5, JoinedAppend, JoinedFacts
  <1>10. Raw(Joined(p, front)) \in Seq(Nat) /\ Raw(front) \in Seq(Nat) /\ last.raw \in Seq(Nat)
    BY <1>5, <1>9, RawType DEF ReservationType
  <1>11. Raw(Joined(p, q)) = Joined(Raw(Joined(p, front)), last.raw)
    BY <1>5, <1>9, RawAppend
  <1>12. Raw(q) = Joined(Raw(front), last.raw)
    BY <1>5, RawAppend
  <1>13. Joined(Joined(Raw(p), Raw(front)), last.raw) = Joined(Raw(p), Joined(Raw(front), last.raw))
    BY <1>3, <1>10, JoinedAssoc
  <1> QED
    BY <1>2, <1>8, <1>11, <1>12, <1>13

-----------------------------------------------------------------------------
(* Samples in order.                                                       *)

Before(A, B) == \A a \in A, b \in B : a < b

Apart(A, B) == \A a \in A, b \in B : a # b

(* The empty sequence.                                                     *)
LEMMA SamplesEmpty == Samples(<<>>) = {} /\ Ascending(<<>>)
  BY DEF Samples, Ascending

(* The samples are of the type of the sequence.                            *)
LEMMA SamplesType ==
    ASSUME NEW S, NEW s \in Seq(S)
    PROVE  Samples(s) \subseteq S
  BY DEF Samples

(* A sequence is of a type when its samples are.                           *)
LEMMA TypeFromSamples ==
    ASSUME NEW S, NEW s \in Seq(Nat), Samples(s) \subseteq S
    PROVE  s \in Seq(S)
  BY DEF Samples

(* A joined sequence has the samples of both.                              *)
LEMMA SamplesJoined ==
    ASSUME NEW S, NEW p \in Seq(S), NEW q \in Seq(S)
    PROVE  Samples(Joined(p, q)) = Samples(p) \cup Samples(q)
  <1>1. /\ Joined(p, q) \in Seq(S)
        /\ Len(Joined(p, q)) = Len(p) + Len(q)
        /\ \A i \in 1..Len(p) : Joined(p, q)[i] = p[i]
        /\ \A i \in 1..Len(q) : Joined(p, q)[Len(p) + i] = q[i]
    <2>1. Joined(p, q) \in Seq(S) /\ IsJoined(Joined(p, q), p, q)
      BY JoinedFacts
    <2> QED
      BY <2>1 DEF IsJoined
  <1> DEFINE j == Joined(p, q)
  <1>2. j \in Seq(S) /\ Len(j) = Len(p) + Len(q)
    BY <1>1
  <1>3. \A i \in DOMAIN j : j[i] \in Samples(p) \cup Samples(q)
    <2> SUFFICES ASSUME NEW i \in DOMAIN j PROVE j[i] \in Samples(p) \cup Samples(q)
      OBVIOUS
    <2>1. i \in 1..(Len(p) + Len(q))
      BY <1>2
    <2>2. CASE i <= Len(p)
      <3>1. i \in 1..Len(p) /\ j[i] = p[i] /\ i \in DOMAIN p
        BY <1>1, <2>1, <2>2
      <3> QED
        BY <3>1 DEF Samples
    <2>3. CASE ~ (i <= Len(p))
      <3> DEFINE k == i - Len(p)
      <3>1. k \in 1..Len(q) /\ i = Len(p) + k
        BY <2>1, <2>3
      <3> HIDE DEF k
      <3>2. j[i] = q[k] /\ k \in DOMAIN q
        BY <1>1, <3>1
      <3> QED
        BY <3>2 DEF Samples
    <2> QED
      BY <2>2, <2>3
  <1>4. \A i \in DOMAIN p : p[i] \in Samples(j)
    <2> SUFFICES ASSUME NEW i \in DOMAIN p PROVE p[i] \in Samples(j)
      OBVIOUS
    <2>1. i \in 1..Len(p) /\ i \in DOMAIN j
      BY <1>2
    <2>2. j[i] = p[i]
      BY <1>1, <2>1
    <2> QED
      BY <2>1, <2>2 DEF Samples
  <1>5. \A i \in DOMAIN q : q[i] \in Samples(j)
    <2> SUFFICES ASSUME NEW i \in DOMAIN q PROVE q[i] \in Samples(j)
      OBVIOUS
    <2>1. i \in 1..Len(q) /\ Len(p) + i \in DOMAIN j
      BY <1>2
    <2>2. j[Len(p) + i] = q[i]
      BY <1>1, <2>1
    <2> QED
      BY <2>1, <2>2 DEF Samples
  <1> HIDE DEF j
  <1>6. Samples(j) = Samples(p) \cup Samples(q)
    BY <1>3, <1>4, <1>5 DEF Samples
  <1> QED
    BY <1>6 DEF j

(* It is ascending when both are and the first comes before the second.    *)
LEMMA AscendingJoined ==
    ASSUME NEW p \in Seq(Nat), NEW q \in Seq(Nat)
    PROVE  Ascending(Joined(p, q)) <=>
             Ascending(p) /\ Ascending(q) /\ Before(Samples(p), Samples(q))
  <1>1. /\ Joined(p, q) \in Seq(Nat)
        /\ Len(Joined(p, q)) = Len(p) + Len(q)
        /\ \A i \in 1..Len(p) : Joined(p, q)[i] = p[i]
        /\ \A i \in 1..Len(q) : Joined(p, q)[Len(p) + i] = q[i]
    <2>1. Joined(p, q) \in Seq(Nat) /\ IsJoined(Joined(p, q), p, q)
      BY JoinedFacts
    <2> QED
      BY <2>1 DEF IsJoined
  <1> DEFINE j == Joined(p, q)
  <1>2. /\ j \in Seq(Nat) /\ Len(j) = Len(p) + Len(q) /\ Len(p) \in Nat /\ Len(q) \in Nat
        /\ DOMAIN j = 1..(Len(p) + Len(q)) /\ DOMAIN p = 1..Len(p) /\ DOMAIN q = 1..Len(q)
        /\ \A i \in 1..Len(p) : j[i] = p[i] /\ i \in DOMAIN j
        /\ \A i \in 1..Len(q) : j[Len(p) + i] = q[i] /\ Len(p) + i \in DOMAIN j
    BY <1>1
  <1> HIDE DEF j
  <1>3. ASSUME Ascending(j) PROVE Ascending(p) /\ Ascending(q) /\ Before(Samples(p), Samples(q))
    <2>1. \A i, k \in 1..Len(p) : i < k => p[i] < p[k]
      <3>1. \A i, k \in 1..Len(p) : i < k => j[i] < j[k]
        BY <1>2, <1>3 DEF Ascending
      <3> QED
        BY <1>2, <3>1
    <2>2. \A i, k \in 1..Len(q) : i < k => q[i] < q[k]
      <3> SUFFICES ASSUME NEW i \in 1..Len(q), NEW k \in 1..Len(q), i < k PROVE q[i] < q[k]
        OBVIOUS
      <3> DEFINE l == Len(p) + i
                 m == Len(p) + k
      <3>1. j[l] = q[i] /\ j[m] = q[k] /\ l \in DOMAIN j /\ m \in DOMAIN j
        BY <1>2
      <3>2. l < m
        BY <1>1
      <3> HIDE DEF l, m
      <3>3. j[l] < j[m]
        BY <1>3, <3>1, <3>2 DEF Ascending
      <3> QED
        BY <3>1, <3>3
    <2>3. \A i \in 1..Len(p), k \in 1..Len(q) : p[i] < q[k]
      <3> SUFFICES ASSUME NEW i \in 1..Len(p), NEW k \in 1..Len(q) PROVE p[i] < q[k]
        OBVIOUS
      <3> DEFINE m == Len(p) + k
      <3>1. i \in DOMAIN j /\ m \in DOMAIN j /\ i < m /\ j[i] = p[i] /\ j[m] = q[k]
        BY <1>2
      <3> HIDE DEF m
      <3>2. j[i] < j[m]
        BY <1>3, <3>1 DEF Ascending
      <3> QED
        BY <3>1, <3>2
    <2>4. Ascending(p) /\ Ascending(q)
      BY <1>2, <2>1, <2>2 DEF Ascending
    <2>5. Before(Samples(p), Samples(q))
      <3> SUFFICES ASSUME NEW a \in Samples(p), NEW b \in Samples(q) PROVE a < b
        BY DEF Before
      <3>1. PICK i \in 1..Len(p) : a = p[i]
        BY <1>2 DEF Samples
      <3>2. PICK k \in 1..Len(q) : b = q[k]
        BY <1>2 DEF Samples
      <3> QED
        BY <2>3, <3>1, <3>2
    <2> QED
      BY <2>4, <2>5
  <1>4. ASSUME Ascending(p), Ascending(q), Before(Samples(p), Samples(q)) PROVE Ascending(j)
    <2> SUFFICES ASSUME NEW i \in 1..(Len(p) + Len(q)), NEW k \in 1..(Len(p) + Len(q)), i < k
                 PROVE  j[i] < j[k]
      BY <1>2 DEF Ascending
    <2>1. CASE k <= Len(p)
      <3>1. i \in 1..Len(p) /\ k \in 1..Len(p)
        BY <1>2, <2>1
      <3>2. p[i] < p[k]
        BY <1>4, <3>1 DEF Ascending
      <3> QED
        BY <1>2, <3>1, <3>2
    <2>2. CASE ~ (i <= Len(p))
      <3> DEFINE l == i - Len(p)
                 m == k - Len(p)
      <3>1. l \in 1..Len(q) /\ m \in 1..Len(q) /\ l < m /\ i = Len(p) + l /\ k = Len(p) + m
        BY <1>2, <2>2
      <3> HIDE DEF l, m
      <3>2. q[l] < q[m]
        BY <1>4, <3>1 DEF Ascending
      <3> QED
        BY <1>2, <3>1, <3>2
    <2>3. CASE i <= Len(p) /\ ~ (k <= Len(p))
      <3> DEFINE m == k - Len(p)
      <3>1. i \in 1..Len(p) /\ m \in 1..Len(q) /\ k = Len(p) + m
        BY <1>2, <2>3
      <3> HIDE DEF m
      <3>2. p[i] \in Samples(p) /\ q[m] \in Samples(q)
        BY <3>1 DEF Samples
      <3>3. p[i] < q[m]
        BY <1>4, <3>2 DEF Before
      <3> QED
        BY <1>2, <3>1, <3>3
    <2> QED
      BY <1>2, <2>1, <2>2, <2>3
  <1> QED
    BY <1>3, <1>4 DEF j

(* A sequence has finitely many samples.                                   *)
LEMMA SamplesFinite ==
    ASSUME NEW s \in Seq(Nat)
    PROVE  IsFiniteSet(Samples(s))
  <1>1. IsFiniteSet(1..Len(s))
    <2>1. Len(s) \in Int
      OBVIOUS
    <2> QED
      BY <2>1, FS_Interval
  <1>2. s \in Surjection(1..Len(s), Samples(s))
    BY DEF Surjection, Samples
  <1> QED
    BY <1>1, <1>2, FS_Surjection

(* An ascending sequence has as many samples as its length says.           *)
LEMMA SamplesCounted ==
    ASSUME NEW s \in Seq(Nat), Ascending(s)
    PROVE  Cardinality(Samples(s)) = Len(s)
  <1> DEFINE n == Len(s)
  <1>0. n \in Nat /\ n \in Int /\ 1 \in Int
    OBVIOUS
  <1> HIDE DEF n
  <1>1. IsFiniteSet(1..n) /\ Cardinality(1..n) = n
    <2>1. IsFiniteSet(1..n) /\ Cardinality(1..n) = IF 1 > n THEN 0 ELSE n - 1 + 1
      BY <1>0, FS_Interval
    <2> QED
      BY <1>0, <2>1
  <1>2. s \in Surjection(1..Len(s), Samples(s))
    BY DEF Surjection, Samples
  <1>3. s \in Injection(1..Len(s), Samples(s))
    <2>1. \A i, k \in 1..Len(s) : s[i] = s[k] => i = k
      <3> SUFFICES ASSUME NEW i \in 1..Len(s), NEW k \in 1..Len(s), s[i] = s[k], i # k PROVE FALSE
        OBVIOUS
      <3>1. s[i] \in Nat /\ s[k] \in Nat
        OBVIOUS
      <3>2. i < k \/ k < i
        OBVIOUS
      <3> QED
        BY <3>1, <3>2 DEF Ascending
    <2> QED
      BY <1>2, <2>1 DEF Injection, Surjection, IsInjective
  <1>4. s \in Bijection(1..Len(s), Samples(s))
    BY <1>2, <1>3 DEF Bijection
  <1> QED
    <2>1. ExistsBijection(1..n, Samples(s))
      BY <1>4 DEF ExistsBijection, n
    <2> QED
      BY <1>1, <2>1, FS_Bijection DEF n

-----------------------------------------------------------------------------
(* What waits.                                                             *)

(* What waits in a buffer, first what is reserved.                         *)
Waiting(p) == Joined(Raw(p.reserved), p.buffer)

(* The model's name for it.                                                *)
LEMMA UncommittedWaits == Uncommitted = Waiting(pcm)
  BY DEF Uncommitted, Waiting, Joined

(* The types of the parts of a buffer.                                     *)
LEMMA WaitingType ==
    ASSUME NEW p \in PcmType
    PROVE  /\ p.buffer \in Seq(Nat) /\ p.reserved \in Seq(ReservationType) /\ p.speech \in BOOLEAN
           /\ Raw(p.reserved) \in Seq(Nat)
           /\ Waiting(p) \in Seq(Nat)
  <1>1. p.buffer \in Seq(Nat) /\ p.reserved \in Seq(ReservationType) /\ p.speech \in BOOLEAN
    BY DEF PcmType
  <1>2. Raw(p.reserved) \in Seq(Nat)
    BY <1>1, RawType
  <1> QED
    BY <1>1, <1>2, JoinedFacts DEF Waiting

(* A buffer that changes is the buffer of its new fields.                  *)
LEMMA BufferChanges ==
    ASSUME NEW p \in PcmType, NEW b, NEW v
    PROVE  [p EXCEPT !.buffer = b, !.speech = v] = [buffer |-> b, reserved |-> p.reserved, speech |-> v]
  <1> DEFINE q == [p EXCEPT !.buffer = b, !.speech = v]
  <1>1. q.buffer = b /\ q.speech = v /\ q.reserved = p.reserved
    BY DEF PcmType
  <1>2. DOMAIN q = {"buffer", "reserved", "speech"} /\ q = [i \in DOMAIN q |-> q[i]]
    BY DEF PcmType
  <1> HIDE DEF q
  <1>3. q = [buffer |-> b, reserved |-> p.reserved, speech |-> v]
    BY <1>1, <1>2
  <1> QED
    BY <1>3 DEF q

(* The record that Reserve makes.                                          *)
LEMMA UnitMoves ==
    ASSUME NEW p \in PcmType, NEW b, NEW r
    PROVE  [p EXCEPT !.buffer = b, !.reserved = r] = [buffer |-> b, reserved |-> r, speech |-> p.speech]
  <1> DEFINE q == [p EXCEPT !.buffer = b, !.reserved = r]
  <1>1. q.buffer = b /\ q.reserved = r /\ q.speech = p.speech
    BY DEF PcmType
  <1>2. DOMAIN q = {"buffer", "reserved", "speech"} /\ q = [i \in DOMAIN q |-> q[i]]
    BY DEF PcmType
  <1> HIDE DEF q
  <1>3. q = [buffer |-> b, reserved |-> r, speech |-> p.speech]
    BY <1>1, <1>2
  <1> QED
    BY <1>3 DEF q

(* The record that CommitReservation makes.                                *)
LEMMA ReservedChanges ==
    ASSUME NEW p \in PcmType, NEW r
    PROVE  [p EXCEPT !.reserved = r] = [buffer |-> p.buffer, reserved |-> r, speech |-> p.speech]
  <1> DEFINE q == [p EXCEPT !.reserved = r]
  <1>1. q.buffer = p.buffer /\ q.reserved = r /\ q.speech = p.speech
    BY DEF PcmType
  <1>2. DOMAIN q = {"buffer", "reserved", "speech"} /\ q = [i \in DOMAIN q |-> q[i]]
    BY DEF PcmType
  <1> HIDE DEF q
  <1>3. q = [buffer |-> p.buffer, reserved |-> r, speech |-> p.speech]
    BY <1>1, <1>2
  <1> QED
    BY <1>3 DEF q

(* What is buffered waits behind all that does.                            *)
LEMMA BufferedFacts ==
    ASSUME NEW p \in PcmType, NEW s \in Seq(Nat), NEW b \in BOOLEAN
    PROVE  /\ Buffered(p, s, b) \in PcmType
           /\ Buffered(p, s, b).reserved = p.reserved
           /\ Buffered(p, s, b).buffer = Joined(p.buffer, s)
           /\ Waiting(Buffered(p, s, b)) = Joined(Waiting(p), s)
  <1> DEFINE more == Buffered(p, s, b)
  <1>1. p.buffer \in Seq(Nat) /\ Raw(p.reserved) \in Seq(Nat)
    BY WaitingType
  <1>2. more = [buffer |-> Joined(p.buffer, s), reserved |-> p.reserved, speech |-> p.speech \/ b]
    <2> DEFINE x == Joined(p.buffer, s)
               v == p.speech \/ b
    <2>1. more = [p EXCEPT !.buffer = x, !.speech = v]
      BY DEF Buffered, Joined
    <2> HIDE DEF x, v, more
    <2>2. [p EXCEPT !.buffer = x, !.speech = v] = [buffer |-> x, reserved |-> p.reserved, speech |-> v]
      BY BufferChanges
    <2> QED
      BY <2>1, <2>2 DEF x, v
  <1> HIDE DEF more
  <1>3. Joined(p.buffer, s) \in Seq(Nat)
    BY <1>1, JoinedFacts
  <1>4. more \in PcmType
    BY <1>2, <1>3 DEF PcmType
  <1>5. more.reserved = p.reserved /\ more.buffer = Joined(p.buffer, s)
    BY <1>2
  <1>6. Joined(Joined(Raw(p.reserved), p.buffer), s) = Joined(Raw(p.reserved), Joined(p.buffer, s))
    BY <1>1, JoinedAssoc
  <1> QED
    BY <1>4, <1>5, <1>6 DEF more, Waiting

(* To reserve a unit changes nothing of what waits, or of its order.       *)
LEMMA ReserveFacts ==
    ASSUME NEW p \in PcmType, NEW t \in Nat, Len(p.buffer) >= Unit
    PROVE  LET unit == SubSeq(p.buffer, 1, Unit)
               r == [task |-> t, raw |-> unit, speech |-> p.speech]
           IN  /\ unit \in Seq(Nat) /\ r \in ReservationType
               /\ Reserve(p, t) \in PcmType
               /\ Reserve(p, t).reserved = Append(p.reserved, r)
               /\ Waiting(Reserve(p, t)) = Waiting(p)
               /\ Waiting(p) = Joined(Joined(Raw(p.reserved), unit), Reserve(p, t).buffer)
  <1> DEFINE unit == SubSeq(p.buffer, 1, Unit)
             rest == SubSeq(p.buffer, Unit + 1, Len(p.buffer))
             r == [task |-> t, raw |-> unit, speech |-> p.speech]
             more == Reserve(p, t)
             n == Len(p.buffer)
  <1>1. /\ p.buffer \in Seq(Nat) /\ Raw(p.reserved) \in Seq(Nat)
        /\ p.reserved \in Seq(ReservationType) /\ p.speech \in BOOLEAN
    BY WaitingType
  <1>2. n \in Nat /\ Unit \in Nat /\ Unit <= n /\ Unit \in 0..n /\ Unit + 1 \in 1..(n + 1) /\ 1 <= Unit + 1
    BY <1>1, NativeInputAssumption
  <1>3. unit \in Seq(Nat)
    <2>1. 1 \in 1..(n + 1) /\ 1 <= Unit + 1
      BY <1>2
    <2> QED
      BY <1>1, <1>2, <2>1, CutFacts
  <1>4. rest \in Seq(Nat)
    <2>1. n \in 0..n /\ Unit + 1 <= n + 1
      BY <1>2
    <2> QED
      BY <1>1, <1>2, <2>1, CutFacts
  <1>5. Joined(unit, rest) = p.buffer
    BY <1>1, <1>2, CutJoins
  <1>6. more = [buffer |-> rest, reserved |-> Append(p.reserved, r), speech |-> p.speech]
    <2> DEFINE x == Append(p.reserved, r)
    <2>1. more = [p EXCEPT !.buffer = rest, !.reserved = x]
      BY DEF Reserve
    <2> HIDE DEF x, rest, more
    <2>2. [p EXCEPT !.buffer = rest, !.reserved = x] = [buffer |-> rest, reserved |-> x, speech |-> p.speech]
      BY UnitMoves
    <2> QED
      BY <2>1, <2>2 DEF x
  <1> HIDE DEF more, unit, rest
  <1>7. r \in ReservationType /\ r.raw = unit
    BY <1>1, <1>3 DEF ReservationType
  <1> HIDE DEF r
  <1>8. Append(p.reserved, r) \in Seq(ReservationType)
    BY <1>1, <1>7
  <1>9. more \in PcmType /\ more.reserved = Append(p.reserved, r) /\ more.buffer = rest
    BY <1>1, <1>4, <1>6, <1>8 DEF PcmType
  <1>10. Raw(more.reserved) = Joined(Raw(p.reserved), unit)
    BY <1>1, <1>7, <1>9, RawAppend
  <1>11. Joined(Joined(Raw(p.reserved), unit), rest) = Joined(Raw(p.reserved), Joined(unit, rest))
    BY <1>1, <1>3, <1>4, JoinedAssoc
  <1>12. Waiting(more) = Waiting(p)
    BY <1>5, <1>9, <1>10, <1>11 DEF Waiting
  <1>13. Waiting(p) = Joined(Joined(Raw(p.reserved), unit), more.buffer)
    BY <1>5, <1>9, <1>11 DEF Waiting
  <1> QED
    BY <1>3, <1>7, <1>9, <1>12, <1>13 DEF more, unit, r

(* The reservation at k, with what is before and after it.                 *)
LEMMA HeadJoins ==
    ASSUME NEW rs \in Seq(ReservationType), rs # <<>>
    PROVE  /\ Head(rs) \in ReservationType /\ Tail(rs) \in Seq(ReservationType)
           /\ Head(rs).raw \in Seq(Nat)
           /\ Raw(rs) = Joined(Head(rs).raw, Raw(Tail(rs)))
  <1> DEFINE h == Head(rs)
             one == Append(<<>>, h)
             rest == Tail(rs)
  <1>1. h \in ReservationType /\ rest \in Seq(ReservationType) /\ h.raw \in Seq(Nat)
    <2>1. h \in ReservationType /\ rest \in Seq(ReservationType)
      OBVIOUS
    <2> HIDE DEF h
    <2> QED
      BY <2>1 DEF ReservationType
  <1>2. one \in Seq(ReservationType) /\ <<>> \in Seq(ReservationType)
    BY <1>1
  <1>3. Joined(one, rest) = rs
    BY DEF Joined
  <1>4. Raw(one) = Joined(Raw(<<>>), h.raw)
    <2> HIDE DEF h
    <2> QED
      BY <1>1, <1>2, RawAppend
  <1>5. Joined(<<>>, h.raw) = h.raw
    <2> HIDE DEF h
    <2> QED
      BY <1>1, JoinedEmpty
  <1> HIDE DEF h, one, rest
  <1>6. Raw(rs) = Joined(Raw(one), Raw(rest))
    BY <1>1, <1>2, <1>3, RawJoined
  <1> QED
    BY <1>1, <1>4, <1>5, <1>6, RawEmpty DEF h, rest

(* The first reservation is what leaves.                                   *)
LEMMA CommitFacts ==
    ASSUME NEW p \in PcmType, p.reserved # <<>>
    PROVE  /\ CommitReservation(p) \in PcmType
           /\ CommitReservation(p).reserved = Tail(p.reserved)
           /\ Head(p.reserved) \in ReservationType /\ Head(p.reserved).raw \in Seq(Nat)
           /\ Waiting(p) = Joined(Head(p.reserved).raw, Waiting(CommitReservation(p)))
  <1> DEFINE less == CommitReservation(p)
             h == Head(p.reserved).raw
             rest == Tail(p.reserved)
  <1>1. /\ p.buffer \in Seq(Nat) /\ p.reserved \in Seq(ReservationType) /\ p.speech \in BOOLEAN
    BY WaitingType
  <1>2. /\ Head(p.reserved) \in ReservationType /\ rest \in Seq(ReservationType)
        /\ h \in Seq(Nat)
        /\ Raw(p.reserved) = Joined(h, Raw(rest))
    BY <1>1, HeadJoins
  <1>3. less = [buffer |-> p.buffer, reserved |-> rest, speech |-> p.speech]
    BY ReservedChanges DEF CommitReservation
  <1> HIDE DEF less, rest, h
  <1>4. less \in PcmType /\ less.reserved = rest /\ less.buffer = p.buffer
    BY <1>1, <1>2, <1>3 DEF PcmType
  <1>5. Raw(rest) \in Seq(Nat)
    BY <1>2, RawType
  <1>6. Joined(Joined(h, Raw(rest)), p.buffer) = Joined(h, Joined(Raw(rest), p.buffer))
    BY <1>1, <1>2, <1>5, JoinedAssoc
  <1> QED
    BY <1>2, <1>4, <1>6 DEF less, rest, h, Waiting

(* With no reservation, the rest is all that waits, or nothing is taken.   *)
LEMMA ResidualFacts ==
    ASSUME NEW p \in PcmType
    PROVE  /\ WithoutResidual(p) \in PcmType /\ Residual(p) \in Seq(Nat)
           /\ WithoutResidual(p).reserved = p.reserved
           /\ p.reserved = <<>> =>
                /\ Waiting(p) = p.buffer
                /\ \/ Residual(p) = <<>> /\ Waiting(WithoutResidual(p)) = Waiting(p)
                   \/ Residual(p) = Waiting(p) /\ Waiting(WithoutResidual(p)) = <<>>
  <1> DEFINE less == WithoutResidual(p)
  <1>1. p.buffer \in Seq(Nat) /\ p.reserved \in Seq(ReservationType) /\ p.speech \in BOOLEAN
    BY WaitingType
  <1>2. less = [buffer |-> IF p.speech THEN <<>> ELSE p.buffer, reserved |-> p.reserved, speech |-> FALSE]
    <2> DEFINE x == IF p.speech THEN <<>> ELSE p.buffer
    <2>1. less = [p EXCEPT !.buffer = x, !.speech = FALSE]
      BY DEF WithoutResidual
    <2> HIDE DEF x, less
    <2>2. [p EXCEPT !.buffer = x, !.speech = FALSE] = [buffer |-> x, reserved |-> p.reserved, speech |-> FALSE]
      BY BufferChanges
    <2> QED
      BY <2>1, <2>2 DEF x
  <1>3. Residual(p) = IF p.speech THEN p.buffer ELSE <<>>
    BY DEF Residual
  <1> HIDE DEF less
  <1>4. less \in PcmType /\ Residual(p) \in Seq(Nat) /\ less.reserved = p.reserved
    BY <1>1, <1>2, <1>3 DEF PcmType
  <1>5. ASSUME p.reserved = <<>>
        PROVE  /\ Waiting(p) = p.buffer
               /\ Waiting(less) = less.buffer
    <2>1. less.buffer \in Seq(Nat)
      BY <1>4 DEF PcmType
    <2> QED
      BY <1>1, <1>4, <1>5, <2>1, RawEmpty, JoinedEmpty DEF Waiting
  <1>6. less.buffer = IF p.speech THEN <<>> ELSE p.buffer
    BY <1>2
  <1> QED
    BY <1>1, <1>3, <1>4, <1>5, <1>6 DEF less

(* Nothing waits in an empty buffer.                                       *)
LEMMA EmptyWaits ==
    EmptyBuffer \in PcmType /\ EmptyBuffer.reserved = <<>> /\ Waiting(EmptyBuffer) = <<>>
  <1>1. EmptyBuffer \in PcmType /\ EmptyBuffer.reserved = <<>> /\ EmptyBuffer.buffer = <<>>
    BY DEF EmptyBuffer, PcmType
  <1>2. Joined(<<>>, <<>>) = <<>>
    BY DEF Joined
  <1> QED
    BY <1>1, <1>2, RawEmpty DEF Waiting

(* A rollback cuts the reservations and leaves what waits as it is.        *)
LEMMA RollBackFacts ==
    ASSUME NEW t \in Nat, pcm \in PcmType
    PROVE  /\ RollBack(t) \in PcmType
           /\ Waiting(RollBack(t)) = Waiting(pcm)
           /\ ~Active(t) => RollBack(t) = pcm
           /\ Active(t) => /\ Place(t) \in DOMAIN pcm.reserved
                           /\ pcm.reserved[Place(t)].task = t
                           /\ RollBack(t).reserved = SubSeq(pcm.reserved, 1, Place(t) - 1)
  <1>1. /\ pcm.buffer \in Seq(Nat) /\ pcm.reserved \in Seq(ReservationType)
        /\ pcm.speech \in BOOLEAN
    BY WaitingType
  <1>2. ~Active(t) => RollBack(t) = pcm
    BY DEF RollBack
  <1>3. ASSUME Active(t)
        PROVE  /\ Place(t) \in DOMAIN pcm.reserved
               /\ pcm.reserved[Place(t)].task = t
               /\ RollBack(t).reserved = SubSeq(pcm.reserved, 1, Place(t) - 1)
               /\ RollBack(t) \in PcmType
               /\ Waiting(RollBack(t)) = Waiting(pcm)
    <2>1. Place(t) \in DOMAIN pcm.reserved /\ pcm.reserved[Place(t)].task = t
      BY <1>3 DEF Active, Place
    <2> DEFINE n == Len(pcm.reserved)
               k == Place(t) - 1
               kept == SubSeq(pcm.reserved, 1, k)
               undone == SubSeq(pcm.reserved, Place(t), n)
               back == RollBack(t)
    <2>2. /\ n \in Nat /\ k \in 0..n /\ Place(t) = k + 1 /\ Place(t) \in 1..(n + 1)
          /\ 1 <= k + 1 /\ n \in 0..n /\ Place(t) <= n + 1 /\ 1 \in 1..(n + 1)
      BY <1>1, <2>1
    <2>3. kept \in Seq(ReservationType)
      <3> HIDE DEF k
      <3> QED
        BY <1>1, <2>2, CutFacts
    <2>4. undone \in Seq(ReservationType)
      <3> DEFINE m == Place(t)
      <3>1. m \in 1..(n + 1) /\ m <= n + 1
        BY <2>2
      <3> HIDE DEF m
      <3>2. SubSeq(pcm.reserved, m, n) \in Seq(ReservationType)
        BY <1>1, <2>2, <3>1, CutFacts
      <3> QED
        BY <3>2 DEF m
    <2>5. Joined(kept, undone) = pcm.reserved
      <3> HIDE DEF k
      <3>1. Joined(SubSeq(pcm.reserved, 1, k), SubSeq(pcm.reserved, k + 1, Len(pcm.reserved))) = pcm.reserved
        BY <1>1, <2>2, CutJoins
      <3> QED
        BY <2>2, <3>1
    <2>6. back = [buffer |-> Joined(Raw(undone), pcm.buffer), reserved |-> kept,
                  speech |-> pcm.speech \/ Voiced(undone)]
      BY <1>3 DEF RollBack, Joined
    <2> HIDE DEF n, k, kept, undone, back
    <2>7. Raw(undone) \in Seq(Nat) /\ Raw(kept) \in Seq(Nat)
      BY <2>3, <2>4, RawType
    <2>8. Joined(Raw(undone), pcm.buffer) \in Seq(Nat)
      BY <1>1, <2>7, JoinedFacts
    <2>9. back \in PcmType /\ back.reserved = kept /\ back.buffer = Joined(Raw(undone), pcm.buffer)
      BY <1>1, <2>3, <2>6, <2>8 DEF PcmType, Voiced
    <2>10. Raw(pcm.reserved) = Joined(Raw(kept), Raw(undone))
      BY <2>3, <2>4, <2>5, RawJoined
    <2>11. Joined(Joined(Raw(kept), Raw(undone)), pcm.buffer) = Joined(Raw(kept), Joined(Raw(undone), pcm.buffer))
      BY <1>1, <2>7, JoinedAssoc
    <2>12. Waiting(back) = Waiting(pcm)
      BY <2>9, <2>10, <2>11 DEF Waiting
    <2> QED
      BY <2>1, <2>9, <2>12 DEF back, kept, k
  <1> QED
    BY <1>2, <1>3

-----------------------------------------------------------------------------
(* The control part of the inductive invariant.                            *)

Kinds == {"audio", "silence", "final", "created"}

States == {"waiting", "calling", "executed", "ok", "failed"}

TaskType ==
    [kind : Kinds, sends : Seq(Nat), fresh : SUBSET Nat, pred : Nat, epoch : Nat, st : States]

RunnerKinds == {"", "final", "audio", "silent", "input", "hold"}

RunnerType ==
    [at : {"idle", "commit", "announce", "retain", "create", "cancel"}, tail : Nat,
     kind : RunnerKinds,
     sends : Seq(Nat), fresh : SUBSET Nat, epoch : Nat]

OtherOK ==
    /\ received \in 0..MaxInput
    /\ spoken \in BOOLEAN /\ responding \in BOOLEAN
    /\ committed \in [sends : Seq(Nat), bytes : Nat]
    /\ budget \in 0..Limit
    /\ epoch \in 0..MaxEpoch /\ failures \in 0..MaxFailures
    /\ heard \in Seq(Nat)
    /\ early \in Nat

FieldsOK ==
    /\ OtherOK
    /\ pcm \in PcmType
    /\ tasks \in Seq(TaskType)
    /\ runner \in RunnerType /\ runner.tail \in 0..Newest /\ IsFiniteSet(runner.fresh)

(* What is reserved belongs to audio appends that have not ended, in their *)
(* order.                                                                  *)
ReservedOK ==
    /\ \A i \in DOMAIN pcm.reserved :
          /\ pcm.reserved[i].task \in Unfinished
          /\ tasks[pcm.reserved[i].task].kind = "audio"
          /\ tasks[pcm.reserved[i].task].sends = pcm.reserved[i].raw
    /\ \A i, j \in DOMAIN pcm.reserved : i < j => pcm.reserved[i].task < pcm.reserved[j].task

Earlier(t) == 1..(t - 1)

EarlierEnded(t) == \A u \in Earlier(t) : Finished(u)

(* The tasks run one after the other: one that does not wait, or waits for *)
(* none, has only finished ones before it.  Before the append of a         *)
(* response there is at most a silence unit.                               *)
ChainOK ==
    /\ \A t \in DOMAIN tasks :
          /\ tasks[t].pred \in {0, t - 1}
          /\ tasks[t].st # "waiting" \/ tasks[t].pred = 0 => EarlierEnded(t)
          /\ IsFinal(t) => \A u \in Earlier(t) : Finished(u) \/ tasks[u].kind = "silence"
    /\ \A t, u \in Unfinished : tasks[t].kind = "silence" /\ tasks[u].kind = "silence" => t = u

Paying == runner.at \in {"announce", "retain", "create"}

OnlySilence == \A t \in Unfinished : tasks[t].kind = "silence"

(* What the runner knows of the tasks while it is suspended.               *)
RunnerOK ==
    /\ runner.at = "commit" =>
          /\ runner.tail \in DOMAIN tasks
          /\ \A t \in DOMAIN tasks : t > runner.tail => tasks[t].kind = "silence"
    /\ Paying => OnlySilence
    /\ runner.at = "cancel" => epoch < MaxEpoch

Control == FieldsOK /\ ReservedOK /\ ChainOK /\ RunnerOK /\ ~disordered

(* The tasks after a step that starts none.                                *)
Kept(t) ==
    /\ tasks'[t].kind = tasks[t].kind /\ tasks'[t].sends = tasks[t].sends
    /\ tasks'[t].fresh = tasks[t].fresh /\ tasks'[t].pred = tasks[t].pred
    /\ tasks'[t].epoch = tasks[t].epoch

Continues ==
    /\ tasks' \in Seq(TaskType) /\ Len(tasks') = Len(tasks) /\ DOMAIN tasks' = DOMAIN tasks
    /\ \A t \in DOMAIN tasks : Kept(t)
    /\ \A t \in DOMAIN tasks : Finished(t) => tasks'[t].st = tasks[t].st

Ended(t, st) ==
    /\ Continues
    /\ tasks'[t].st = st
    /\ \A u \in DOMAIN tasks : u # t => tasks'[u].st = tasks[u].st

(* End changes the state of one task and nothing else.                     *)
LEMMA EndFacts ==
    ASSUME tasks \in Seq(TaskType), NEW t \in Unfinished, NEW st \in States, End(t, st)
    PROVE  Ended(t, st)
  <1> DEFINE new == [tasks[t] EXCEPT !.st = st]
  <1>1. t \in DOMAIN tasks /\ tasks[t] \in TaskType
    BY DEF Unfinished
  <1>2. tasks' = [tasks EXCEPT ![t] = new]
    BY DEF End
  <1>3. /\ new \in TaskType /\ new.st = st /\ new.kind = tasks[t].kind /\ new.sends = tasks[t].sends
        /\ new.fresh = tasks[t].fresh /\ new.pred = tasks[t].pred /\ new.epoch = tasks[t].epoch
    BY <1>1 DEF TaskType
  <1> HIDE DEF new
  <1>4. /\ tasks' \in Seq(TaskType) /\ Len(tasks') = Len(tasks) /\ DOMAIN tasks' = DOMAIN tasks
        /\ tasks'[t] = new
        /\ \A u \in DOMAIN tasks : u # t => tasks'[u] = tasks[u]
    BY <1>1, <1>2, <1>3
  <1>5. Continues
    BY <1>3, <1>4 DEF Continues, Kept, Unfinished, Finished
  <1> QED
    BY <1>3, <1>4, <1>5 DEF Ended

Started(kind, sends, fresh, e) ==
    /\ tasks' \in Seq(TaskType) /\ Len(tasks') = Newest + 1 /\ DOMAIN tasks' = 1..(Newest + 1)
    /\ DOMAIN tasks = 1..Newest /\ Newest \in Nat
    /\ \A t \in DOMAIN tasks : tasks'[t] = tasks[t]
    /\ tasks'[Newest + 1].kind = kind /\ tasks'[Newest + 1].sends = sends
    /\ tasks'[Newest + 1].fresh = fresh /\ tasks'[Newest + 1].epoch = e
    /\ tasks'[Newest + 1].pred = Predecessor /\ tasks'[Newest + 1].st = "waiting"

(* Start adds a waiting task behind the others.                            *)
LEMMA StartFacts ==
    ASSUME tasks \in Seq(TaskType), NEW kind \in Kinds, NEW sends \in Seq(Nat),
           NEW fresh \in SUBSET Nat, NEW e \in Nat, Start(kind, sends, fresh, e)
    PROVE  Started(kind, sends, fresh, e)
  <1> DEFINE new == NewTask(kind, sends, fresh, e)
  <1>1. Newest \in Nat /\ DOMAIN tasks = 1..Newest
    BY DEF Newest
  <1>2. Predecessor \in Nat
    BY <1>1 DEF Predecessor
  <1>3. /\ new \in TaskType /\ new.st = "waiting" /\ new.kind = kind /\ new.sends = sends
        /\ new.fresh = fresh /\ new.pred = Predecessor /\ new.epoch = e
    BY <1>2 DEF NewTask, TaskType, States
  <1>4. tasks' = Append(tasks, new)
    BY DEF Start
  <1> HIDE DEF new
  <1>5. /\ tasks' \in Seq(TaskType) /\ Len(tasks') = Newest + 1 /\ DOMAIN tasks' = 1..(Newest + 1)
        /\ \A t \in DOMAIN tasks : tasks'[t] = tasks[t]
        /\ tasks'[Newest + 1] = new
    BY <1>1, <1>3, <1>4 DEF Newest
  <1> QED
    BY <1>1, <1>3, <1>5 DEF Started

(* The types of the parts of a task.                                       *)
LEMMA TaskFacts ==
    ASSUME tasks \in Seq(TaskType), NEW t \in DOMAIN tasks
    PROVE  /\ t \in Nat /\ t >= 1 /\ t <= Newest /\ Newest \in Nat /\ DOMAIN tasks = 1..Newest
           /\ tasks[t] \in TaskType
           /\ Earlier(t) \subseteq DOMAIN tasks
           /\ tasks[t].kind \in Kinds /\ tasks[t].sends \in Seq(Nat) /\ tasks[t].st \in States
           /\ tasks[t].epoch \in Nat /\ tasks[t].fresh \in SUBSET Nat /\ tasks[t].pred \in Nat
  <1>1. t \in Nat /\ t >= 1 /\ t <= Newest /\ Newest \in Nat /\ DOMAIN tasks = 1..Newest
    BY DEF Newest
  <1>2. tasks[t] \in TaskType
    OBVIOUS
  <1>3. Earlier(t) \subseteq DOMAIN tasks
    BY <1>1 DEF Earlier
  <1> QED
    BY <1>1, <1>2, <1>3 DEF TaskType

(* A task that need not wait has only finished ones before it.             *)
LEMMA EarlierDone ==
    ASSUME FieldsOK, ChainOK, NEW t \in DOMAIN tasks,
           \/ tasks[t].st # "waiting"
           \/ tasks[t].pred = 0
           \/ tasks[t].pred # 0 /\ tasks[tasks[t].pred].st \in {"ok", "failed"}
    PROVE  EarlierEnded(t)
  <1>1. /\ t \in Nat /\ t >= 1 /\ t <= Newest /\ DOMAIN tasks = 1..Newest /\ Newest \in Nat
        /\ tasks[t].pred \in {0, t - 1}
    BY TaskFacts DEF FieldsOK, ChainOK
  <1>2. CASE tasks[t].st # "waiting" \/ tasks[t].pred = 0
    BY <1>2 DEF ChainOK
  <1>3. CASE tasks[t].pred # 0 /\ tasks[tasks[t].pred].st \in {"ok", "failed"}
    <2> DEFINE p == t - 1
    <2>1. p \in DOMAIN tasks /\ p \in Nat /\ tasks[p].st \in {"ok", "failed"}
      BY <1>1, <1>3
    <2>2. EarlierEnded(p) /\ Finished(p)
      BY <2>1 DEF ChainOK, Finished
    <2>3. \A u \in Earlier(t) : u \in Earlier(p) \/ u = p
      BY <1>1 DEF Earlier
    <2> HIDE DEF p
    <2> QED
      BY <2>2, <2>3 DEF EarlierEnded
  <1> QED
    BY <1>2, <1>3

-----------------------------------------------------------------------------
(* The chain of tasks.                                                     *)

(* The chain when a task ends, whose predecessors have.                    *)
LEMMA ChainEnds ==
    ASSUME FieldsOK, ChainOK, NEW t \in Unfinished, NEW st \in States, Ended(t, st),
           EarlierEnded(t)
    PROVE  ChainOK'
  <1>1. /\ DOMAIN tasks' = DOMAIN tasks
        /\ \A u \in DOMAIN tasks : tasks'[u].kind = tasks[u].kind /\ tasks'[u].pred = tasks[u].pred
        /\ \A u \in DOMAIN tasks : u # t => tasks'[u].st = tasks[u].st
        /\ \A u \in DOMAIN tasks : Finished(u) => Finished(u)'
    BY DEF Ended, Continues, Kept, Finished
  <1>2. \A u \in DOMAIN tasks : Earlier(u) \subseteq DOMAIN tasks
    BY TaskFacts DEF FieldsOK
  <1>3. \A u \in DOMAIN tasks : EarlierEnded(u) => EarlierEnded(u)'
    BY <1>1, <1>2 DEF EarlierEnded, Earlier
  <1>4. ASSUME NEW u \in DOMAIN tasks
        PROVE  /\ tasks'[u].pred \in {0, u - 1}
               /\ tasks'[u].st # "waiting" \/ tasks'[u].pred = 0 => EarlierEnded(u)'
               /\ IsFinal(u)' => \A v \in Earlier(u) : Finished(v)' \/ tasks'[v].kind = "silence"
    <2>1. tasks'[u].pred \in {0, u - 1}
      BY <1>1 DEF ChainOK
    <2>2. tasks'[u].st # "waiting" \/ tasks'[u].pred = 0 => EarlierEnded(u)'
      BY <1>1, <1>3 DEF ChainOK
    <2>3. IsFinal(u)' => \A v \in Earlier(u) : Finished(v)' \/ tasks'[v].kind = "silence"
      BY <1>1, <1>2 DEF ChainOK, IsFinal
    <2> QED
      BY <2>1, <2>2, <2>3
  <1>5. \A u, v \in Unfinished' : tasks'[u].kind = "silence" /\ tasks'[v].kind = "silence" => u = v
    <2>1. Unfinished' \subseteq Unfinished
      BY <1>1 DEF Unfinished
    <2>2. \A u \in Unfinished : u \in DOMAIN tasks
      BY DEF Unfinished
    <2> QED
      BY <1>1, <2>1, <2>2 DEF ChainOK
  <1>6. \A u \in DOMAIN tasks' : Earlier(u)' = Earlier(u)
    BY DEF Earlier
  <1> QED
    BY <1>1, <1>4, <1>5, <1>6 DEF ChainOK

(* The chain when a task starts.                                           *)
LEMMA ChainStarts ==
    ASSUME FieldsOK, ChainOK, NEW kind \in Kinds, NEW sends, NEW fresh, NEW e,
           Started(kind, sends, fresh, e),
           kind \in {"final", "created"} => OnlySilence,
           kind = "silence" => \A t \in Unfinished : tasks[t].kind # "silence"
    PROVE  ChainOK'
  <1>0. PICK n \in Nat : n = Newest + 1
    BY DEF Started
  <1>1. /\ Newest \in Nat /\ DOMAIN tasks = 1..Newest /\ DOMAIN tasks' = 1..n /\ n = Newest + 1
        /\ \A t \in DOMAIN tasks : tasks'[t] = tasks[t]
        /\ tasks'[n].kind = kind /\ tasks'[n].pred = Predecessor /\ tasks'[n].st = "waiting"
    BY <1>0 DEF Started
  <1>2. /\ \A t \in DOMAIN tasks' : t \in DOMAIN tasks \/ t = n
        /\ Earlier(n) = DOMAIN tasks
        /\ n - 1 = Newest
    BY <1>1 DEF Earlier
  <1>3. \A t \in DOMAIN tasks : Earlier(t) \subseteq DOMAIN tasks
    BY TaskFacts DEF FieldsOK
  <1>4. \A t \in DOMAIN tasks : (Finished(t)' <=> Finished(t)) /\ (IsFinal(t)' <=> IsFinal(t))
    BY <1>1 DEF Finished, IsFinal
  <1>5. \A t \in DOMAIN tasks : EarlierEnded(t)' <=> EarlierEnded(t)
    BY <1>3, <1>4 DEF EarlierEnded, Earlier
  <1>6. ASSUME Predecessor = 0 PROVE EarlierEnded(n)'
    <2>1. CASE Newest = 0
      BY <1>1, <1>2, <2>1 DEF EarlierEnded, Earlier
    <2>2. CASE Newest # 0
      <3>1. Newest \in DOMAIN tasks /\ Finished(Newest)
        BY <1>1, <1>6, <2>2 DEF Predecessor, Unfinished
      <3>2. EarlierEnded(Newest)
        BY <3>1 DEF ChainOK, Finished
      <3>3. \A u \in DOMAIN tasks : Finished(u)
        <4>1. \A u \in DOMAIN tasks : u \in Earlier(Newest) \/ u = Newest
          BY <1>1 DEF Earlier
        <4> QED
          BY <3>1, <3>2, <4>1 DEF EarlierEnded
      <3> QED
        BY <1>2, <1>4, <3>3 DEF EarlierEnded, Earlier
    <2> QED
      BY <2>1, <2>2
  <1>7. IsFinal(n)' => \A u \in Earlier(n) : Finished(u)' \/ tasks'[u].kind = "silence"
    BY <1>1, <1>2, <1>4 DEF IsFinal, OnlySilence, Unfinished
  <1>8. Predecessor \in {0, n - 1}
    BY <1>2 DEF Predecessor
  <1>9. \A u \in Unfinished' : u = n \/ u \in Unfinished
    BY <1>1, <1>2, <1>4 DEF Unfinished
  <1>10. \A u \in Unfinished : u \in DOMAIN tasks
    BY DEF Unfinished
  <1>11. \A u, v \in Unfinished' : tasks'[u].kind = "silence" /\ tasks'[v].kind = "silence" => u = v
    BY <1>1, <1>9, <1>10 DEF ChainOK
  <1>12. ASSUME NEW u \in DOMAIN tasks'
        PROVE  /\ tasks'[u].pred \in {0, u - 1}
               /\ tasks'[u].st # "waiting" \/ tasks'[u].pred = 0 => EarlierEnded(u)'
               /\ IsFinal(u)' => \A v \in Earlier(u) : Finished(v)' \/ tasks'[v].kind = "silence"
    <2>1. CASE u = n
      BY <1>1, <1>6, <1>7, <1>8, <2>1
    <2>2. CASE u \in DOMAIN tasks
      BY <1>1, <1>3, <1>4, <1>5, <2>2 DEF ChainOK
    <2> QED
      BY <1>2, <2>1, <2>2
  <1>13. \A u \in DOMAIN tasks' : Earlier(u)' = Earlier(u)
    BY DEF Earlier
  <1> QED
    BY <1>11, <1>12, <1>13 DEF ChainOK

-----------------------------------------------------------------------------
(* The reservations.                                                       *)

(* The types of the parts of a reservation.                                *)
LEMMA ReservationFacts ==
    ASSUME FieldsOK, NEW i \in DOMAIN pcm.reserved
    PROVE  /\ pcm.reserved \in Seq(ReservationType)
           /\ pcm.reserved[i].task \in Nat /\ pcm.reserved[i].raw \in Seq(Nat)
           /\ i \in 1..Len(pcm.reserved)
  <1>1. pcm.reserved \in Seq(ReservationType)
    BY WaitingType DEF FieldsOK
  <1>2. pcm.reserved[i] \in ReservationType
    BY <1>1
  <1> QED
    BY <1>1, <1>2 DEF ReservationType

(* The reservations that a step leaves: none of t when it ends.            *)
Remaining(d, t, st) ==
    /\ pcm' \in PcmType
    /\ Len(pcm'.reserved) + d <= Len(pcm.reserved)
    /\ \A i \in DOMAIN pcm'.reserved :
          /\ pcm'.reserved[i] = pcm.reserved[i + d]
          /\ st \in {"ok", "failed"} => pcm'.reserved[i].task # t

(* Reservations after a step that drops some at either end.                *)
LEMMA ReservedRemain ==
    ASSUME FieldsOK, ReservedOK, NEW t \in Unfinished, NEW st \in States, Ended(t, st),
           NEW d \in {0, 1}, Remaining(d, t, st)
    PROVE  ReservedOK'
  <1> DEFINE q == pcm.reserved
  <1>1. q \in Seq(ReservationType) /\ Len(q) \in Nat /\ DOMAIN q = 1..Len(q)
    BY WaitingType DEF FieldsOK
  <1>2. pcm'.reserved \in Seq(ReservationType)
    BY DEF Remaining, PcmType
  <1>3. PICK r \in Seq(ReservationType) : r = pcm'.reserved
    BY <1>2
  <1>4. /\ Len(r) \in Nat /\ DOMAIN r = 1..Len(r) /\ Len(r) + d <= Len(q)
        /\ \A i \in DOMAIN r : r[i] = q[i + d]
        /\ \A i \in DOMAIN r : st \in {"ok", "failed"} => r[i].task # t
    BY <1>3 DEF Remaining
  <1>5. \A i \in DOMAIN r : i + d \in DOMAIN q
    BY <1>1, <1>4
  <1>6. \A i \in DOMAIN q : /\ q[i].task \in Unfinished
                            /\ tasks[q[i].task].kind = "audio" /\ tasks[q[i].task].sends = q[i].raw
    BY DEF ReservedOK
  <1>7. \A i, j \in DOMAIN q : i < j => q[i].task < q[j].task
    BY DEF ReservedOK
  <1> HIDE DEF q
  <1>8. ASSUME NEW i \in DOMAIN r
        PROVE  /\ r[i].task \in Unfinished'
               /\ tasks'[r[i].task].kind = "audio" /\ tasks'[r[i].task].sends = r[i].raw
    <2> DEFINE u == r[i].task
    <2>1. /\ u \in Unfinished /\ tasks[u].kind = "audio" /\ tasks[u].sends = r[i].raw
      BY <1>4, <1>5, <1>6
    <2>2. st \in {"ok", "failed"} => u # t
      BY <1>4
    <2> HIDE DEF u
    <2>3. u \in DOMAIN tasks /\ ~Finished(u) /\ u \in DOMAIN tasks'
      BY <2>1 DEF Unfinished, Ended, Continues
    <2>4. ~Finished(u)'
      BY <2>2, <2>3 DEF Ended, Finished
    <2>5. tasks'[u].kind = tasks[u].kind /\ tasks'[u].sends = tasks[u].sends
      BY <2>3 DEF Ended, Continues, Kept
    <2> QED
      BY <2>1, <2>3, <2>4, <2>5 DEF Unfinished, u
  <1>9. \A i, j \in DOMAIN r : i < j => r[i].task < r[j].task
    <2> SUFFICES ASSUME NEW i \in DOMAIN r, NEW j \in DOMAIN r, i < j PROVE r[i].task < r[j].task
      OBVIOUS
    <2>1. i + d \in DOMAIN q /\ j + d \in DOMAIN q /\ i + d < j + d
      BY <1>4, <1>5
    <2>2. q[i + d].task < q[j + d].task
      BY <1>7, <2>1
    <2> QED
      BY <1>4, <2>2
  <1> QED
    BY <1>3, <1>8, <1>9 DEF ReservedOK

(* A step that does not touch the buffer.                                  *)
LEMMA NotReserved ==
    ASSUME FieldsOK, NEW t \in DOMAIN tasks, NEW st \in States,
           pcm' = pcm, st \in {"ok", "failed"} => ~Active(t)
    PROVE  Remaining(0, t, st)
  <1>1. pcm.reserved \in Seq(ReservationType) /\ pcm \in PcmType
    BY WaitingType DEF FieldsOK
  <1>2. Len(pcm.reserved) \in Nat /\ DOMAIN pcm.reserved = 1..Len(pcm.reserved)
    BY <1>1
  <1>3. \A i \in DOMAIN pcm.reserved : i + 0 = i
    BY <1>2
  <1> QED
    BY <1>1, <1>2, <1>3 DEF Remaining, Active

(* A rollback of t takes what was reserved for it and for later ones.      *)
LEMMA RollBackCuts ==
    ASSUME FieldsOK, ReservedOK, NEW t \in DOMAIN tasks, pcm' = RollBack(t)
    PROVE  /\ Remaining(0, t, "failed")
           /\ Waiting(pcm)' = Waiting(pcm)
           /\ \A u \in DOMAIN tasks : Active(u)' => Active(u)
           /\ \A u \in DOMAIN tasks : Active(u) /\ ~Active(u)' => u >= t
           /\ ~Active(t)'
  <1>1. /\ t \in Nat /\ \A u \in DOMAIN tasks : u \in Nat
        /\ pcm \in PcmType
    BY TaskFacts DEF FieldsOK
  <1>2. pcm' \in PcmType /\ Waiting(pcm)' = Waiting(pcm)
    BY <1>1, RollBackFacts
  <1>3. CASE ~Active(t)
    <2>1. pcm' = pcm
      BY <1>1, <1>3, RollBackFacts
    <2>2. \A u : Active(u)' <=> Active(u)
      BY <2>1 DEF Active
    <2>3. "failed" \in States
      BY DEF States
    <2>4. Remaining(0, t, "failed")
      BY <1>3, <2>1, <2>3, NotReserved
    <2> QED
      BY <1>2, <1>3, <2>2, <2>4
  <1>4. CASE Active(t)
    <2> DEFINE q == pcm.reserved
    <2>1. /\ Place(t) \in DOMAIN q /\ q[Place(t)].task = t
          /\ pcm'.reserved = SubSeq(q, 1, Place(t) - 1)
      BY <1>1, <1>4, RollBackFacts
    <2>2. PICK k \in Nat : Place(t) = k + 1
      <3>1. q \in Seq(ReservationType)
        BY <1>1, WaitingType
      <3>2. PICK p : p = Place(t)
        OBVIOUS
      <3>3. p \in DOMAIN q
        BY <2>1, <3>2
      <3> HIDE DEF q
      <3>4. Len(q) \in Nat /\ DOMAIN q = 1..Len(q)
        BY <3>1
      <3>5. p - 1 \in Nat /\ p = (p - 1) + 1
        BY <3>3, <3>4
      <3> QED
        BY <3>2, <3>5
    <2>3. PICK r : r = pcm'.reserved
      OBVIOUS
    <2>4. /\ q \in Seq(ReservationType) /\ Len(q) \in Nat /\ DOMAIN q = 1..Len(q)
          /\ k + 1 \in DOMAIN q /\ q[k + 1].task = t /\ r = SubSeq(q, 1, k)
      BY <1>1, <2>1, <2>2, <2>3, WaitingType
    <2>5. \A i, j \in DOMAIN q : i < j => q[i].task < q[j].task
      BY DEF ReservedOK
    <2>6. \A i \in DOMAIN q : q[i].task \in Nat
      BY ReservationFacts
    <2> HIDE DEF q
    <2>7. /\ Len(r) = k /\ DOMAIN r = 1..k /\ k + 0 <= Len(q)
          /\ \A i \in 1..k : r[i] = q[i] /\ i + 0 = i /\ i \in DOMAIN q /\ i < k + 1
      <3>1. k \in 0..Len(q) /\ 1 \in 1..(Len(q) + 1) /\ 1 <= k + 1 /\ k <= Len(q)
        BY <2>4
      <3>2. /\ SubSeq(q, 1, k) \in Seq(ReservationType) /\ Len(SubSeq(q, 1, k)) = k + 1 - 1
            /\ \A i \in 1..(k + 1 - 1) : SubSeq(q, 1, k)[i] = q[1 + i - 1]
        BY <2>4, <3>1, CutFacts
      <3>3. r \in Seq(ReservationType) /\ Len(r) = k /\ \A i \in 1..k : r[i] = q[i]
        BY <2>4, <3>2
      <3> QED
        BY <2>4, <3>1, <3>3
    <2>8. \A i \in DOMAIN r : r[i].task < t
      BY <2>4, <2>5, <2>7
    <2>9. Remaining(0, t, "failed")
      <3>1. \A i \in DOMAIN r : r[i] = q[i + 0] /\ r[i].task # t
        BY <1>1, <2>6, <2>7, <2>8
      <3> QED
        BY <1>2, <2>3, <2>7, <3>1 DEF Remaining, q
    <2>10. \A u : Active(u)' <=> \E i \in DOMAIN r : r[i].task = u
      BY <2>3 DEF Active
    <2>11. \A u : Active(u) <=> \E i \in DOMAIN q : q[i].task = u
      BY DEF Active, q
    <2>12. \A u \in DOMAIN tasks : Active(u) /\ ~Active(u)' => u >= t
      <3> SUFFICES ASSUME NEW u \in DOMAIN tasks, Active(u), ~Active(u)' PROVE u >= t
        OBVIOUS
      <3>1. PICK i \in DOMAIN q : q[i].task = u
        BY <2>11
      <3>2. i \notin 1..k
        BY <2>7, <2>10, <3>1
      <3>3. i = k + 1 \/ k + 1 < i
        BY <2>4, <3>2
      <3>4. u = t \/ t < u
        BY <2>4, <2>5, <3>1, <3>3
      <3> QED
        BY <1>1, <3>4
    <2>13. ~Active(t)'
      BY <1>1, <2>6, <2>7, <2>8, <2>10
    <2>14. \A u \in DOMAIN tasks : Active(u)' => Active(u)
      BY <2>7, <2>10, <2>11
    <2> QED
      BY <1>2, <2>9, <2>12, <2>13, <2>14
  <1> QED
    BY <1>3, <1>4

(* The first reservation is the one of the append whose turn it is.        *)
LEMMA HeadIsFirst ==
    ASSUME FieldsOK, ReservedOK, NEW t \in DOMAIN tasks, Active(t), EarlierEnded(t)
    PROVE  /\ pcm.reserved # <<>> /\ Head(pcm.reserved).task = t
           /\ Head(pcm.reserved).raw = tasks[t].sends
  <1> DEFINE q == pcm.reserved
  <1>1. q \in Seq(ReservationType) /\ Len(q) \in Nat /\ DOMAIN q = 1..Len(q)
    BY WaitingType DEF FieldsOK
  <1>2. PICK i \in DOMAIN q : q[i].task = t
    BY DEF Active
  <1>3. /\ 1 \in DOMAIN q /\ (i = 1 \/ 1 < i) /\ q # <<>> /\ Head(q) = q[1]
    BY <1>1, <1>2
  <1>4. q[1].task \in Unfinished /\ tasks[q[1].task].sends = q[1].raw
    BY <1>3 DEF ReservedOK
  <1>5. ~ (q[1].task < t)
    <2> SUFFICES ASSUME q[1].task < t PROVE FALSE
      OBVIOUS
    <2>1. q[1].task \in DOMAIN tasks /\ ~Finished(q[1].task)
      BY <1>4 DEF Unfinished
    <2>2. q[1].task \in Earlier(t)
      BY <2>1, TaskFacts DEF FieldsOK, Earlier
    <2> QED
      BY <2>1, <2>2 DEF EarlierEnded
  <1>6. i = 1
    BY <1>2, <1>3, <1>5 DEF ReservedOK
  <1> QED
    BY <1>2, <1>3, <1>4, <1>6

(* The reservation of t is used up.                                        *)
LEMMA HeadIsUsed ==
    ASSUME FieldsOK, ReservedOK, NEW t \in DOMAIN tasks, Active(t), EarlierEnded(t),
           pcm' = CommitReservation(pcm)
    PROVE  /\ Remaining(1, t, "ok")
           /\ Waiting(pcm) = Joined(tasks[t].sends, Waiting(pcm)')
           /\ \A u \in DOMAIN tasks : Active(u)' => Active(u)
           /\ \A u \in DOMAIN tasks : Active(u) /\ ~Active(u)' => u = t
           /\ ~Active(t)'
  <1> DEFINE q == pcm.reserved
  <1>1. q \in Seq(ReservationType) /\ Len(q) \in Nat /\ DOMAIN q = 1..Len(q) /\ pcm \in PcmType
    BY WaitingType DEF FieldsOK
  <1>2. q # <<>> /\ Head(q).task = t /\ Head(q).raw = tasks[t].sends
    BY HeadIsFirst
  <1>3. /\ pcm' \in PcmType /\ pcm'.reserved = Tail(q)
        /\ Waiting(pcm) = Joined(tasks[t].sends, Waiting(pcm)')
    BY <1>1, <1>2, CommitFacts
  <1>4. PICK r : r = pcm'.reserved
    OBVIOUS
  <1>5. r = Tail(q)
    BY <1>3, <1>4
  <1>6. \A i, j \in DOMAIN q : i < j => q[i].task < q[j].task
    BY DEF ReservedOK
  <1>7. \A i \in DOMAIN q : q[i].task \in Nat
    BY ReservationFacts
  <1> HIDE DEF q
  <1>8. /\ Len(r) = Len(q) - 1 /\ DOMAIN r = 1..(Len(q) - 1) /\ q[1].task = t /\ 1 \in DOMAIN q
        /\ \A i \in DOMAIN r : r[i] = q[i + 1] /\ i + 1 \in DOMAIN q /\ 1 < i + 1
    BY <1>1, <1>2, <1>5
  <1>9. \A i \in DOMAIN r : r[i].task # t
    BY <1>6, <1>7, <1>8
  <1>10. Len(r) + 1 <= Len(q)
    BY <1>1, <1>8
  <1>11. Remaining(1, t, "ok")
    BY <1>3, <1>4, <1>8, <1>9, <1>10 DEF Remaining, q
  <1>12. \A u : Active(u)' <=> \E i \in DOMAIN r : r[i].task = u
    BY <1>4 DEF Active
  <1>13. \A u : Active(u) <=> \E i \in DOMAIN q : q[i].task = u
    BY DEF Active, q
  <1>14. \A u \in DOMAIN tasks : Active(u) /\ ~Active(u)' => u = t
    <2> SUFFICES ASSUME NEW u \in DOMAIN tasks, Active(u), ~Active(u)' PROVE u = t
      OBVIOUS
    <2>1. PICK i \in DOMAIN q : q[i].task = u
      BY <1>13
    <2>2. CASE i = 1
      BY <1>8, <2>1, <2>2
    <2>3. CASE i # 1
      <3> DEFINE k == i - 1
      <3>1. k \in DOMAIN r /\ k + 1 = i
        BY <1>1, <1>8, <2>1, <2>3
      <3> HIDE DEF k
      <3>2. r[k].task = u
        BY <1>8, <2>1, <3>1
      <3> QED
        BY <1>12, <3>1, <3>2
    <2> QED
      BY <2>2, <2>3
  <1> QED
    BY <1>3, <1>8, <1>9, <1>11, <1>12, <1>13, <1>14

-----------------------------------------------------------------------------
(* The steps of the tasks.                                                 *)

(* A task ends, and reservations are dropped at an end.                    *)
LEMMA EndControl ==
    ASSUME Control, NEW t \in Unfinished, NEW st \in States, End(t, st), EarlierEnded(t),
           NEW d \in {0, 1}, Remaining(d, t, st), OtherOK',
           runner' = runner, epoch' = epoch, disordered' = disordered
    PROVE  Control' /\ Ended(t, st)
  <1>1. Ended(t, st)
    BY EndFacts DEF Control, FieldsOK
  <1>2. /\ DOMAIN tasks' = DOMAIN tasks /\ Len(tasks') = Len(tasks)
        /\ \A u \in DOMAIN tasks : tasks'[u].kind = tasks[u].kind
        /\ \A u \in DOMAIN tasks : Finished(u) => Finished(u)'
    BY <1>1 DEF Ended, Continues, Kept, Finished
  <1>3. FieldsOK'
    BY <1>1, <1>2 DEF Control, FieldsOK, Remaining, Ended, Continues, Newest
  <1>4. ReservedOK'
    BY <1>1, ReservedRemain DEF Control
  <1>5. ChainOK'
    BY <1>1, ChainEnds DEF Control
  <1>6. RunnerOK'
    <2>1. Unfinished' \subseteq Unfinished /\ \A u \in Unfinished : u \in DOMAIN tasks
      BY <1>2 DEF Unfinished
    <2> QED
      BY <1>2, <2>1 DEF Control, RunnerOK, Paying, OnlySilence
  <1> QED
    BY <1>1, <1>3, <1>4, <1>5, <1>6 DEF Control

(* What an acknowledged append does when it is its turn.                   *)
SettlesInOrder(t) ==
    \/ /\ tasks[t].kind = "audio" /\ Active(t)
       /\ pcm' = CommitReservation(pcm)
       /\ Release(Len(tasks[t].sends))
       /\ UNCHANGED <<committed, early>>
    \/ /\ tasks[t].kind = "audio" /\ ~Active(t)
       /\ Release(Len(tasks[t].sends))
       /\ early' = early + (budget - budget')
       /\ UNCHANGED <<pcm, committed>>
    \/ /\ IsFinal(t)
       /\ \/ /\ committed.sends = tasks[t].sends
             /\ committed' = NoPayload /\ Release(committed.bytes)
          \/ committed.sends # tasks[t].sends /\ UNCHANGED <<committed, budget>>
       /\ UNCHANGED <<pcm, early>>
    \/ /\ tasks[t].kind = "silence"
       /\ UNCHANGED <<pcm, committed, budget, early>>

(* When all before it have ended, the reservation is the first: the branch *)
(* of Settle that rolls back out of order is not taken.                    *)
LEMMA SettleCases ==
    ASSUME FieldsOK, ReservedOK, NEW t \in DOMAIN tasks, EarlierEnded(t), Settle(t)
    PROVE  SettlesInOrder(t) /\ End(t, "ok") /\ disordered' = disordered
  <1>1. Active(t) => Head(pcm.reserved).task = t
    BY HeadIsFirst
  <1>2. Len(tasks[t].sends) = Len(tasks[t].sends)
    OBVIOUS
  <1> QED
    BY <1>1 DEF Settle, SettlesInOrder

(* To release does not make the budget negative.                           *)
LEMMA ReleaseFacts ==
    ASSUME NEW n \in Nat, budget \in 0..Limit, Release(n)
    PROVE  budget' \in 0..Limit /\ budget' <= budget
  BY NativeInputAssumption DEF Release

(* A reservation is that of an audio append that has not ended.            *)
LEMMA ReservedIsAudio ==
    ASSUME FieldsOK, ReservedOK, NEW t \in DOMAIN tasks, Active(t)
    PROVE  tasks[t].kind = "audio" /\ t \in Unfinished
  BY DEF Active, ReservedOK

(* Control after an append is settled.                                     *)
LEMMA SettleFacts ==
    ASSUME Control, NEW t \in Unfinished, EarlierEnded(t), Settle(t),
           UNCHANGED <<received, spoken, sessionVars, runner, failures, heard>>
    PROVE  Control' /\ Ended(t, "ok")
  <1>1. t \in DOMAIN tasks /\ FieldsOK /\ ReservedOK /\ OtherOK /\ "ok" \in States
    BY DEF Unfinished, Control, FieldsOK, States
  <1>2. SettlesInOrder(t) /\ End(t, "ok") /\ disordered' = disordered
    BY <1>1, SettleCases
  <1>3. /\ Len(tasks[t].sends) \in Nat /\ committed.bytes \in Nat /\ budget \in 0..Limit
        /\ committed \in [sends : Seq(Nat), bytes : Nat] /\ early \in Nat
    BY <1>1, TaskFacts DEF FieldsOK, OtherOK
  <1>4. NoPayload \in [sends : Seq(Nat), bytes : Nat]
    BY DEF NoPayload
  <1>5. CASE tasks[t].kind = "audio" /\ Active(t)
    <2>1. ~IsFinal(t) /\ tasks[t].kind # "silence"
      BY <1>5 DEF IsFinal
    <2>2. /\ pcm' = CommitReservation(pcm) /\ UNCHANGED <<committed, early>>
          /\ Release(Len(tasks[t].sends))
      BY <1>2, <1>5, <2>1 DEF SettlesInOrder
    <2>3. budget' \in 0..Limit
      BY <1>3, <2>2, ReleaseFacts
    <2>4. OtherOK'
      BY <1>1, <2>2, <2>3 DEF OtherOK, sessionVars
    <2>5. Remaining(1, t, "ok")
      BY <1>1, <1>5, <2>2, HeadIsUsed
    <2>6. 1 \in {0, 1} /\ runner' = runner /\ epoch' = epoch
      BY DEF sessionVars
    <2> QED
      BY <1>1, <1>2, <2>4, <2>5, <2>6, EndControl
  <1>6. CASE ~ (tasks[t].kind = "audio" /\ Active(t))
    <2>1. ~Active(t)
      BY <1>1, <1>6, ReservedIsAudio
    <2>2. pcm' = pcm
      BY <1>2, <1>6 DEF SettlesInOrder
    <2>3. budget' \in 0..Limit /\ early' \in Nat /\ committed' \in [sends : Seq(Nat), bytes : Nat]
      <3>1. CASE tasks[t].kind = "audio"
        <4>1. /\ UNCHANGED committed /\ Release(Len(tasks[t].sends))
              /\ early' = early + (budget - budget')
          BY <1>2, <1>6, <3>1 DEF SettlesInOrder, IsFinal
        <4>2. budget' \in 0..Limit /\ budget' <= budget
          BY <1>3, <4>1, ReleaseFacts
        <4>3. early' \in Nat
          BY <1>3, <4>1, <4>2, NativeInputAssumption
        <4> QED
          BY <1>3, <4>1, <4>2, <4>3
      <3>2. CASE IsFinal(t)
        <4>1. /\ UNCHANGED early
              /\ \/ committed' = NoPayload /\ Release(committed.bytes)
                 \/ UNCHANGED <<committed, budget>>
          BY <1>2, <3>2 DEF SettlesInOrder, IsFinal
        <4>2. budget' \in 0..Limit
          BY <1>3, <4>1, ReleaseFacts
        <4> QED
          BY <1>3, <1>4, <4>1, <4>2
      <3>3. CASE tasks[t].kind = "silence"
        BY <1>2, <1>3, <3>3 DEF SettlesInOrder, IsFinal
      <3> QED
        BY <1>1, <3>1, <3>2, <3>3, TaskFacts DEF Kinds, IsFinal, FieldsOK
    <2>4. OtherOK'
      BY <1>1, <2>3 DEF OtherOK, sessionVars
    <2>5. Remaining(0, t, "ok")
      BY <1>1, <2>1, <2>2, NotReserved
    <2>6. 0 \in {0, 1} /\ runner' = runner /\ epoch' = epoch
      BY DEF sessionVars
    <2> QED
      BY <1>1, <1>2, <2>4, <2>5, <2>6, EndControl
  <1> QED
    BY <1>5, <1>6

(* A step of a task begins in its turn, or when the one before it failed.  *)
LEMMA TurnFacts ==
    ASSUME Control, NEW t \in DOMAIN tasks,
           \/ MyTurn(t)
           \/ PredecessorFailed(t)
           \/ tasks[t].st \in {"calling", "executed"}
    PROVE  t \in Unfinished /\ EarlierEnded(t)
  <1>1. FieldsOK /\ ChainOK
    BY DEF Control
  <1>2. t \in Unfinished
    BY DEF Unfinished, Finished, MyTurn, PredecessorFailed
  <1>3. \/ tasks[t].st # "waiting"
        \/ tasks[t].pred = 0
        \/ tasks[t].pred # 0 /\ tasks[tasks[t].pred].st \in {"ok", "failed"}
    BY DEF MyTurn, PredecessorFailed
  <1> QED
    BY <1>1, <1>2, <1>3, EarlierDone

(* The step of a task that ends it or moves it on.                         *)
LEMMA TaskEnds ==
    ASSUME Control, NEW t \in DOMAIN tasks, TaskStep(t)
    PROVE  /\ Control' /\ t \in Unfinished /\ EarlierEnded(t)
           /\ \E st \in States : Ended(t, st)
  <1>1. /\ FieldsOK /\ ReservedOK /\ OtherOK /\ \A s \in {"calling", "executed", "ok", "failed"} : s \in States
        /\ pcm \in PcmType /\ 0 \in {0, 1}
    BY DEF Control, FieldsOK, States
  <1>2. CASE PredecessorFailed(t)
    <2>1. t \in Unfinished /\ EarlierEnded(t)
      BY <1>2, TurnFacts
    <2>2. pcm' = RollBack(t) /\ End(t, "failed") /\ UNCHANGED <<runner, epoch, disordered>>
      BY <1>2 DEF PredecessorFailed, sessionVars
    <2>3. Remaining(0, t, "failed")
      BY <1>1, <2>2, RollBackCuts
    <2>4. OtherOK'
      BY <1>1, <1>2 DEF PredecessorFailed, OtherOK, sessionVars, history
    <2> QED
      BY <1>1, <2>1, <2>2, <2>3, <2>4, EndControl
  <1>3. CASE SkipSilence(t)
    <2>1. t \in Unfinished /\ EarlierEnded(t)
      BY <1>3, TurnFacts DEF SkipSilence
    <2>2. pcm' = pcm /\ End(t, "ok") /\ UNCHANGED <<runner, epoch, disordered>> /\ tasks[t].kind = "silence"
      BY <1>3 DEF SkipSilence, sessionVars, inputVars
    <2>3. Remaining(0, t, "ok")
      <3>1. ~Active(t)
        BY <1>1, <2>2, ReservedIsAudio
      <3> QED
        BY <1>1, <2>2, <3>1, NotReserved
    <2>4. OtherOK'
      BY <1>1, <1>3 DEF SkipSilence, OtherOK, sessionVars, inputVars, history
    <2> QED
      BY <1>1, <2>1, <2>2, <2>3, <2>4, EndControl
  <1>4. CASE Inactive(t)
    <2>1. t \in Unfinished /\ EarlierEnded(t)
      BY <1>4, TurnFacts DEF Inactive
    <2>2. pcm' = pcm /\ End(t, "failed") /\ UNCHANGED <<runner, epoch, disordered>> /\ ~Active(t)
      BY <1>4 DEF Inactive, sessionVars, inputVars
    <2>3. Remaining(0, t, "failed")
      BY <1>1, <2>2, NotReserved
    <2>4. OtherOK'
      BY <1>1, <1>4 DEF Inactive, OtherOK, sessionVars, inputVars, history
    <2> QED
      BY <1>1, <2>1, <2>2, <2>3, <2>4, EndControl
  <1>5. CASE Superseded(t)
    <2>1. t \in Unfinished /\ EarlierEnded(t)
      BY <1>5, TurnFacts DEF Superseded, Runs
    <2>2. Control' /\ Ended(t, "ok")
      BY <1>5, <2>1, SettleFacts DEF Superseded
    <2> QED
      BY <1>1, <2>1, <2>2
  <1>6. CASE Call(t)
    <2>1. t \in Unfinished /\ EarlierEnded(t)
      BY <1>6, TurnFacts DEF Call, Runs
    <2>2. pcm' = pcm /\ End(t, "calling") /\ UNCHANGED <<runner, epoch, disordered>>
      BY <1>6 DEF Call, sessionVars, inputVars
    <2>3. Remaining(0, t, "calling")
      BY <1>1, <2>2, NotReserved
    <2>4. OtherOK'
      BY <1>1, <1>6 DEF Call, OtherOK, sessionVars, inputVars, history
    <2> QED
      BY <1>1, <2>1, <2>2, <2>3, <2>4, EndControl
  <1>7. CASE Execute(t)
    <2>1. t \in Unfinished /\ EarlierEnded(t)
      BY <1>7, TurnFacts DEF Execute
    <2>2. pcm' = pcm /\ End(t, "executed") /\ UNCHANGED <<runner, epoch, disordered>>
      BY <1>7 DEF Execute, sessionVars, inputVars
    <2>3. Remaining(0, t, "executed")
      BY <1>1, <2>2, NotReserved
    <2>4. heard' \in Seq(Nat)
      <3>1. t \in Nat
        BY <1>1, TaskFacts DEF FieldsOK
      <3> QED
        BY <1>1, <1>7, <3>1 DEF Execute, OtherOK
    <2>5. OtherOK'
      BY <1>1, <1>7, <2>4 DEF Execute, OtherOK, sessionVars, inputVars, history
    <2> QED
      BY <1>1, <2>1, <2>2, <2>3, <2>5, EndControl
  <1>8. CASE Acknowledged(t)
    <2>1. t \in Unfinished /\ EarlierEnded(t)
      BY <1>8, TurnFacts DEF Acknowledged
    <2>2. Control' /\ Ended(t, "ok")
      BY <1>8, <2>1, SettleFacts DEF Acknowledged
    <2> QED
      BY <1>1, <2>1, <2>2
  <1>9. CASE AppendFails(t)
    <2>1. t \in Unfinished /\ EarlierEnded(t)
      BY <1>9, TurnFacts DEF AppendFails
    <2>2. pcm' = RollBack(t) /\ End(t, "failed") /\ UNCHANGED <<runner, epoch, disordered>>
      BY <1>9 DEF AppendFails
    <2>3. Remaining(0, t, "failed")
      BY <1>1, <2>2, RollBackCuts
    <2>4. failures' \in 0..MaxFailures
      BY <1>1, <1>9, NativeInputAssumption DEF AppendFails, OtherOK
    <2>5. OtherOK'
      BY <1>1, <1>9, <2>4 DEF AppendFails, OtherOK, sessionVars, history
    <2> QED
      BY <1>1, <2>1, <2>2, <2>3, <2>5, EndControl
  <1> QED
    BY <1>2, <1>3, <1>4, <1>5, <1>6, <1>7, <1>8, <1>9 DEF TaskStep

-----------------------------------------------------------------------------
(* The steps of the runner, the client and the data plane.                 *)

RunnerFits(r, n) ==
    r \in RunnerType /\ r.tail \in 0..n /\ IsFiniteSet(r.fresh)

(* The kinds of commits.                                                   *)
LEMMA RunnerKindFacts ==
    "" \in RunnerKinds /\ "final" \in RunnerKinds /\ Commits \subseteq RunnerKinds
  <1>1. {"audio", "silent", "input", "hold"} \subseteq RunnerKinds
    BY Zenon DEF RunnerKinds
  <1> QED
    BY <1>1, NativeInputAssumption, Zenon DEF RunnerKinds

(* Zero is within any bound.                                               *)
LEMMA ZeroBounds == \A n \in Nat : 0 \in 0..n
  OBVIOUS

(* The idle runner owes nothing.                                           *)
LEMMA IdleFits ==
    /\ \A n \in Nat : RunnerFits(Idle, n)
    /\ Idle.at = "idle" /\ Idle.sends = <<>> /\ Idle.fresh = {} /\ Idle.tail = 0
  <1>1. "" \in RunnerKinds /\ IsFiniteSet({})
    BY RunnerKindFacts, FS_EmptySet
  <1>2. Idle \in RunnerType
    <2> DEFINE none == ""
    <2>1. none \in RunnerKinds
      BY <1>1
    <2>2. Idle = [at |-> "idle", tail |-> 0, kind |-> none, sends |-> <<>>, fresh |-> {}, epoch |-> 0]
      BY DEF Idle
    <2> HIDE DEF none
    <2> QED
      BY <2>1, <2>2 DEF RunnerType
  <1>3. Idle.at = "idle" /\ Idle.sends = <<>> /\ Idle.fresh = {} /\ Idle.tail = 0
    BY DEF Idle
  <1> QED
    BY <1>1, <1>2, <1>3, ZeroBounds DEF RunnerFits

Suspended(at, tail, kind, sends, fresh, e) ==
    [at |-> at, tail |-> tail, kind |-> kind, sends |-> sends, fresh |-> fresh, epoch |-> e]

(* The type of a suspended runner.                                         *)
LEMMA SuspendedFits ==
    ASSUME NEW at \in {"commit", "announce", "retain", "create", "cancel"},
           NEW n \in Nat, NEW tail \in 0..n,
           NEW kind \in RunnerKinds,
           NEW sends \in Seq(Nat), NEW fresh \in SUBSET Nat, IsFiniteSet(fresh), NEW e \in Nat
    PROVE  RunnerFits(Suspended(at, tail, kind, sends, fresh, e), n)
  <1> DEFINE r == Suspended(at, tail, kind, sends, fresh, e)
  <1>0. tail \in Nat
    OBVIOUS
  <1>1. r \in RunnerType
    BY <1>0 DEF Suspended, RunnerType
  <1>2. r.tail = tail /\ r.fresh = fresh
    BY DEF Suspended
  <1> HIDE DEF r
  <1>3. r.tail \in 0..n
    BY <1>2
  <1> QED
    BY <1>1, <1>2, <1>3 DEF RunnerFits, r

(* The runner goes on to create the response.                              *)
LEMMA CreateFits ==
    ASSUME NEW n \in Nat, RunnerFits(runner, n), NEW e \in Nat,
           NEW r, r = [runner EXCEPT !.at = "create", !.epoch = e]
    PROVE  RunnerFits(r, n) /\ r.at = "create" /\ r.sends = runner.sends /\ r.fresh = runner.fresh
  <1>1. runner \in RunnerType /\ runner.tail \in 0..n /\ IsFiniteSet(runner.fresh)
    BY DEF RunnerFits
  <1>2. /\ r.at = "create" /\ r.epoch = e /\ r.sends = runner.sends /\ r.fresh = runner.fresh
        /\ r.tail = runner.tail /\ r.kind = runner.kind
    BY <1>1 DEF RunnerType
  <1>3. /\ DOMAIN r = {"at", "tail", "kind", "sends", "fresh", "epoch"}
        /\ r = [i \in DOMAIN r |-> r[i]]
    BY <1>1 DEF RunnerType
  <1>4. /\ runner.sends \in Seq(Nat) /\ runner.fresh \in SUBSET Nat /\ runner.tail \in Nat
        /\ runner.kind \in RunnerKinds
    BY <1>1 DEF RunnerType
  <1>5. r = [at |-> "create", tail |-> runner.tail, kind |-> runner.kind, sends |-> runner.sends,
             fresh |-> runner.fresh, epoch |-> e]
    BY <1>2, <1>3
  <1>6. r \in RunnerType
    BY <1>4, <1>5 DEF RunnerType
  <1> QED
    BY <1>1, <1>2, <1>6 DEF RunnerFits

(* The tasks stay, and the reservations stay or are gone.                  *)
LEMMA SameTasks ==
    ASSUME FieldsOK, ReservedOK, ChainOK, tasks' = tasks,
           pcm'.reserved = pcm.reserved \/ pcm'.reserved = <<>>
    PROVE  ReservedOK' /\ ChainOK'
  <1>1. ChainOK'
    BY DEF ChainOK, EarlierEnded, Earlier, Unfinished, Finished, IsFinal
  <1>2. CASE pcm'.reserved = pcm.reserved
    <2>1. ReservedOK'
      BY <1>2 DEF ReservedOK, Unfinished, Finished
    <2> QED
      BY <1>1, <2>1
  <1>3. CASE pcm'.reserved = <<>>
    <2>1. ReservedOK'
      BY <1>3 DEF ReservedOK
    <2> QED
      BY <1>1, <2>1
  <1> QED
    BY <1>2, <1>3

(* A step of which the tasks know nothing.                                 *)
LEMMA TasksStay ==
    ASSUME Control, tasks' = tasks, OtherOK', pcm' \in PcmType,
           pcm'.reserved = pcm.reserved \/ pcm'.reserved = <<>>,
           RunnerFits(runner', Newest), ~disordered',
           runner'.at = "commit" =>
              /\ runner'.tail \in DOMAIN tasks
              /\ \A t \in DOMAIN tasks : t > runner'.tail => tasks[t].kind = "silence",
           Paying' => OnlySilence,
           runner'.at = "cancel" => epoch' < MaxEpoch
    PROVE  Control'
  <1>1. FieldsOK'
    BY DEF Control, FieldsOK, RunnerFits, Newest
  <1>2. ReservedOK' /\ ChainOK'
    BY SameTasks DEF Control
  <1>3. RunnerOK'
    BY DEF RunnerOK, OnlySilence, Unfinished, Finished
  <1> QED
    BY <1>1, <1>2, <1>3 DEF Control

(* What the control part says of types, in one place.                      *)
LEMMA ControlFits ==
    ASSUME Control
    PROVE  /\ FieldsOK /\ OtherOK /\ ReservedOK /\ ChainOK /\ RunnerOK /\ pcm \in PcmType
           /\ tasks \in Seq(TaskType)
           /\ ~disordered
           /\ RunnerFits(runner, Newest) /\ Newest \in Nat /\ DOMAIN tasks = 1..Newest
           /\ epoch \in Nat /\ received \in Nat /\ budget \in Nat /\ committed.sends \in Seq(Nat)
           /\ committed.bytes \in Nat /\ Residual(pcm) \in Seq(Nat) /\ Merged \in Seq(Nat)
           /\ Samples(Residual(pcm)) \in SUBSET Nat /\ IsFiniteSet(Samples(Residual(pcm)))
           /\ runner.sends \in Seq(Nat) /\ runner.fresh \in SUBSET Nat /\ IsFiniteSet(runner.fresh)
           /\ runner.epoch \in Nat /\ runner.kind \in RunnerKinds
  <1>1. /\ FieldsOK /\ OtherOK /\ ReservedOK /\ ChainOK /\ RunnerOK /\ pcm \in PcmType
        /\ tasks \in Seq(TaskType) /\ ~disordered /\ runner \in RunnerType
        /\ RunnerFits(runner, Newest)
    BY DEF Control, FieldsOK, RunnerFits
  <1>2. Newest \in Nat /\ DOMAIN tasks = 1..Newest
    BY <1>1 DEF Newest
  <1>3. /\ epoch \in Nat /\ received \in Nat /\ budget \in Nat /\ committed.sends \in Seq(Nat)
        /\ committed.bytes \in Nat
    BY <1>1, NativeInputAssumption DEF OtherOK
  <1>4. Residual(pcm) \in Seq(Nat)
    BY <1>1, ResidualFacts
  <1>5. Merged \in Seq(Nat)
    <2>1. Merged = Joined(committed.sends, Residual(pcm))
      BY DEF Merged, Joined
    <2> QED
      BY <1>3, <1>4, <2>1, JoinedFacts
  <1>6. Samples(Residual(pcm)) \in SUBSET Nat /\ IsFiniteSet(Samples(Residual(pcm)))
    BY <1>4, SamplesType, SamplesFinite
  <1>7. /\ runner.sends \in Seq(Nat) /\ runner.fresh \in SUBSET Nat /\ IsFiniteSet(runner.fresh)
        /\ runner.epoch \in Nat /\ runner.kind \in RunnerKinds
    BY <1>1 DEF RunnerType, RunnerFits
  <1> QED
    BY <1>1, <1>2, <1>3, <1>4, <1>5, <1>6, <1>7

(* When the tail of the appends is acknowledged, nothing is reserved, and  *)
(* only silence can be under way.                                          *)
LEMMA TailDone ==
    ASSUME Control, NEW kind, TailIs(kind, "ok")
    PROVE  OnlySilence /\ pcm.reserved = <<>> /\ runner.at \in {"idle", "commit"}
  <1>1. FieldsOK /\ ChainOK /\ RunnerOK /\ ReservedOK /\ Newest \in Nat /\ DOMAIN tasks = 1..Newest
    BY ControlFits
  <1>2. OnlySilence
    <2> SUFFICES ASSUME NEW u \in Unfinished PROVE tasks[u].kind = "silence"
      BY DEF OnlySilence
    <2>1. u \in DOMAIN tasks /\ ~Finished(u)
      BY DEF Unfinished
    <2>2. ASSUME NEW l \in DOMAIN tasks, tasks[l].st = "ok" PROVE u > l
      <3>1. EarlierEnded(l) /\ Finished(l)
        BY <1>1, <2>2 DEF ChainOK, Finished
      <3> QED
        BY <1>1, <2>1, <3>1 DEF EarlierEnded, Earlier
    <2>3. CASE Free /\ (IF tasks = <<>> THEN "ok" = "ok" ELSE tasks[Newest].st = "ok")
      <3>1. tasks # <<>> /\ Newest \in DOMAIN tasks /\ u <= Newest
        BY <1>1, <2>1
      <3> QED
        BY <1>1, <2>1, <2>2, <2>3, <3>1
    <2>4. CASE runner.at = "commit" /\ runner.kind = kind /\ tasks[runner.tail].st = "ok"
      <3>1. runner.tail \in DOMAIN tasks
        BY <1>1, <2>4 DEF RunnerOK
      <3>2. u > runner.tail
        BY <2>2, <2>4, <3>1
      <3> QED
        BY <1>1, <2>1, <2>4, <3>2 DEF RunnerOK
    <2> QED
      BY <2>3, <2>4 DEF TailIs
  <1>3. pcm.reserved = <<>>
    <2> SUFFICES ASSUME pcm.reserved # <<>> PROVE FALSE
      OBVIOUS
    <2>1. 1 \in DOMAIN pcm.reserved
      BY <1>1, WaitingType DEF FieldsOK
    <2> QED
      BY <1>1, <1>2, <2>1 DEF ReservedOK, OnlySilence
  <1>4. runner.at \in {"idle", "commit"}
    BY DEF TailIs, Free
  <1> QED
    BY <1>2, <1>3, <1>4

(* Clearing leaves nothing.                                                *)
LEMMA Cleared ==
    ASSUME Control, ClearInput, UNCHANGED <<responding, failures, heard>>,
           epoch' = epoch
    PROVE  OtherOK' /\ pcm' \in PcmType /\ pcm'.reserved = <<>>
  <1>1. OtherOK
    BY ControlFits
  <1>2. NoPayload \in [sends : Seq(Nat), bytes : Nat] /\ 0 \in 0..Limit
    BY NativeInputAssumption DEF NoPayload
  <1>3. OtherOK'
    BY <1>1, <1>2 DEF ClearInput, OtherOK
  <1> QED
    BY <1>3, EmptyWaits DEF ClearInput

(* The commit of a turn.                                                   *)
LEMMA TakeFacts ==
    ASSUME Control, TakeResidual, pcm.reserved = <<>>
    PROVE  /\ pcm' \in PcmType /\ pcm'.reserved = <<>> /\ ~disordered'
           /\ Waiting(pcm) \in Seq(Nat)
           /\ \/ Residual(pcm) = <<>> /\ Waiting(pcm)' = Waiting(pcm)
              \/ Residual(pcm) = Waiting(pcm) /\ Waiting(pcm)' = <<>>
  <1>1. pcm \in PcmType /\ ~disordered
    BY ControlFits DEF Control
  <1>2. pcm' = WithoutResidual(pcm) /\ ~disordered'
    BY <1>1 DEF TakeResidual
  <1> QED
    BY <1>1, <1>2, ResidualFacts, WaitingType

(* What the runner keeps while a commit is suspended.                      *)
LEMMA SuspendFacts ==
    ASSUME Control, NEW at \in {"announce", "retain"},
           NEW kind \in RunnerKinds, Suspend(at, kind)
    PROVE  /\ RunnerFits(runner', Newest) /\ runner'.at = at /\ runner'.kind = kind
           /\ runner'.sends = Merged /\ runner'.fresh = Samples(Residual(pcm))
  <1>1. runner' = Suspended(at, 0, kind, Merged, Samples(Residual(pcm)), 0)
    BY DEF Suspend, Idle, Suspended
  <1>2. RunnerFits(Suspended(at, 0, kind, Merged, Samples(Residual(pcm)), 0), Newest)
    <2> DEFINE sends == Merged
               fresh == Samples(Residual(pcm))
    <2>1. sends \in Seq(Nat) /\ fresh \in SUBSET Nat /\ IsFiniteSet(fresh) /\ Newest \in Nat
      BY ControlFits
    <2> HIDE DEF sends, fresh
    <2>2. RunnerFits(Suspended(at, 0, kind, sends, fresh, 0), Newest)
      BY <2>1, SuspendedFits, ZeroBounds
    <2> QED
      BY <2>2 DEF sends, fresh
  <1> QED
    BY <1>1, <1>2 DEF Suspended

(* A commit of speech.                                                     *)
LEMMA CommitSpeechControl ==
    ASSUME Control, CommitSpeech PROVE Control'
  <1>1. OnlySilence /\ pcm.reserved = <<>>
    BY TailDone DEF CommitSpeech
  <1>2. OtherOK /\ Merged \in Seq(Nat) /\ Residual(pcm) \in Seq(Nat) /\ committed.bytes \in Nat
    BY ControlFits
  <1>3. pcm' \in PcmType /\ pcm'.reserved = <<>> /\ ~disordered'
    BY <1>1, TakeFacts DEF CommitSpeech
  <1>4. tasks' = tasks
    BY DEF CommitSpeech
  <1>5. OtherOK'
    <2>1. committed' \in [sends : Seq(Nat), bytes : Nat]
      BY <1>2 DEF CommitSpeech, Retained, OtherOK
    <2> QED
      BY <1>2, <2>1 DEF CommitSpeech, OtherOK, sessionVars, history
  <1>6. RunnerFits(runner', Newest) /\ runner'.at \in {"idle", "announce"}
    <2>1. CASE runner' = Idle
      BY <2>1, IdleFits, ControlFits
    <2>2. CASE Suspend("announce", "final")
      BY <2>2, SuspendFacts, RunnerKindFacts
    <2> QED
      BY <2>1, <2>2 DEF CommitSpeech
  <1> QED
    BY <1>1, <1>3, <1>4, <1>5, <1>6, TasksStay

(* A commit that is retained after the client is told.                     *)
LEMMA CommitOnlyControl ==
    ASSUME Control, NEW kind \in Commits, CommitOnly(kind) PROVE Control'
  <1>1. OnlySilence /\ pcm.reserved = <<>>
    BY TailDone DEF CommitOnly
  <1>2. OtherOK
    BY ControlFits
  <1>3. pcm' \in PcmType /\ pcm'.reserved = <<>> /\ ~disordered'
    BY <1>1, TakeFacts DEF CommitOnly
  <1>4. tasks' = tasks
    BY DEF CommitOnly
  <1>5. OtherOK'
    BY <1>2 DEF CommitOnly, OtherOK, sessionVars, history
  <1>6. RunnerFits(runner', Newest) /\ runner'.at \in {"idle", "retain"}
    <2>1. CASE runner' = Idle
      BY <2>1, IdleFits, ControlFits
    <2>2. CASE Suspend("retain", kind)
      <3>1. kind \in RunnerKinds
        BY RunnerKindFacts
      <3> QED
        BY <2>2, <3>1, SuspendFacts
    <2> QED
      BY <2>1, <2>2 DEF CommitOnly
  <1> QED
    BY <1>1, <1>3, <1>4, <1>5, <1>6, TasksStay

(* A commit during a response.                                             *)
LEMMA CommitNothingControl ==
    ASSUME Control, NEW kind \in Commits, CommitNothing(kind) PROVE Control'
  <1>1. OtherOK /\ ~disordered /\ pcm \in PcmType
    BY ControlFits DEF Control
  <1>2. tasks' = tasks /\ pcm' = pcm /\ ~disordered' /\ runner' = Idle
    BY <1>1 DEF CommitNothing
  <1>3. OtherOK'
    BY <1>1 DEF CommitNothing, OtherOK, sessionVars, history
  <1>4. RunnerFits(runner', Newest) /\ runner'.at = "idle"
    BY <1>2, IdleFits, ControlFits
  <1> QED
    BY <1>1, <1>2, <1>3, <1>4, TasksStay DEF Paying

(* A commit of silence.                                                    *)
LEMMA CommitSilenceControl ==
    ASSUME Control, CommitSilence PROVE Control'
  <1>1. OnlySilence /\ pcm.reserved = <<>>
    BY TailDone DEF CommitSilence
  <1>2. OtherOK' /\ pcm' \in PcmType /\ pcm'.reserved = <<>>
    BY Cleared DEF CommitSilence, sessionVars
  <1>3. tasks' = tasks /\ ~disordered' /\ runner' = Idle
    BY DEF CommitSilence, Control
  <1>4. RunnerFits(runner', Newest) /\ runner'.at = "idle"
    BY <1>3, IdleFits, ControlFits
  <1> QED
    BY <1>2, <1>3, <1>4, TasksStay DEF Paying

-----------------------------------------------------------------------------
(* Steps that leave the input alone.                                       *)

(* A step that changes neither the tasks nor the buffer.                   *)
LEMMA InputStays ==
    ASSUME Control, tasks' = tasks, pcm' = pcm, OtherOK', disordered' = disordered,
           RunnerFits(runner', Newest),
           runner'.at = "commit" =>
              /\ runner'.tail \in DOMAIN tasks
              /\ \A t \in DOMAIN tasks : t > runner'.tail => tasks[t].kind = "silence",
           Paying' => OnlySilence,
           runner'.at = "cancel" => epoch' < MaxEpoch
    PROVE  Control'
  <1>1. pcm' \in PcmType /\ ~disordered'
    BY ControlFits DEF Control
  <1> QED
    BY <1>1, TasksStay

(* The runner becomes idle, and the input stays.                           *)
LEMMA IdleControl ==
    ASSUME Control, tasks' = tasks, pcm' = pcm, OtherOK', disordered' = disordered,
           runner' = Idle
    PROVE  Control'
  <1>1. RunnerFits(runner', Newest) /\ runner'.at = "idle"
    BY IdleFits, ControlFits
  <1> QED
    BY <1>1, InputStays DEF Paying

(* Neither the runner nor the input changes.                               *)
LEMMA RunnerStays ==
    ASSUME Control, tasks' = tasks, pcm' = pcm, OtherOK', disordered' = disordered,
           runner' = runner, epoch' = epoch
    PROVE  Control'
  <1>1. RunnerFits(runner', Newest) /\ RunnerOK
    BY ControlFits
  <1> QED
    BY <1>1, InputStays DEF Paying, RunnerOK

(* An append starts behind the others.                                     *)
LEMMA StartReserved ==
    ASSUME FieldsOK, ReservedOK, NEW kind, NEW sends, NEW fresh, NEW e,
           Started(kind, sends, fresh, e), pcm' = pcm
    PROVE  ReservedOK'
  <1>1. \A u \in Unfinished : u \in DOMAIN tasks' /\ tasks'[u] = tasks[u] /\ u \in Unfinished'
    <2>1. \A u \in DOMAIN tasks : u \in DOMAIN tasks' /\ tasks'[u] = tasks[u]
      BY DEF Started
    <2> QED
      BY <2>1 DEF Unfinished, Finished
  <1> QED
    BY <1>1 DEF ReservedOK

(* The append of a response starts: before it there is silence at most.    *)
LEMMA AnswerControl ==
    ASSUME Control, NEW kind \in {"final", "created"}, NEW sends \in Seq(Nat),
           NEW fresh \in SUBSET Nat, NEW e \in Nat, Start(kind, sends, fresh, e), OnlySilence,
           pcm' = pcm, OtherOK', disordered' = disordered, runner' = Idle
    PROVE  Control' /\ Started(kind, sends, fresh, e)
  <1>1. /\ FieldsOK /\ ReservedOK /\ ChainOK /\ tasks \in Seq(TaskType)
        /\ kind \in Kinds /\ kind # "silence"
    BY ControlFits DEF Kinds
  <1>2. Started(kind, sends, fresh, e)
    BY <1>1, StartFacts
  <1>3. ChainOK'
    BY <1>1, <1>2, ChainStarts
  <1>4. ReservedOK'
    BY <1>1, <1>2, StartReserved
  <1>5. Newest \in Nat /\ Len(tasks') = Newest + 1 /\ Newest + 1 \in Nat /\ tasks' \in Seq(TaskType)
    BY <1>2 DEF Started
  <1>6. RunnerFits(runner', Newest + 1) /\ runner'.at = "idle"
    BY <1>5, IdleFits
  <1>7. FieldsOK'
    BY <1>1, <1>5, <1>6 DEF FieldsOK, RunnerFits, Newest
  <1>8. RunnerOK'
    BY <1>6 DEF RunnerOK, Paying
  <1> QED
    BY <1>2, <1>3, <1>4, <1>7, <1>8 DEF Control

(* It starts when the client was told of the commit.                       *)
LEMMA AnnouncedControl ==
    ASSUME Control, Announced
    PROVE  Control' /\ Started("final", runner.sends, runner.fresh, epoch)
  <1>1. /\ OtherOK /\ runner.sends \in Seq(Nat) /\ runner.fresh \in SUBSET Nat /\ epoch \in Nat
        /\ RunnerOK
    BY ControlFits
  <1>2. OnlySilence
    BY <1>1 DEF Announced, RunnerOK, Paying
  <1>3. OtherOK'
    BY <1>1 DEF Announced, OtherOK, inputVars, sessionVars, history
  <1>4. /\ Start("final", runner.sends, runner.fresh, epoch) /\ runner' = Idle
        /\ pcm' = pcm /\ disordered' = disordered /\ epoch' = epoch
    BY DEF Announced, inputVars, sessionVars
  <1> DEFINE sends == runner.sends
             fresh == runner.fresh
             e == epoch
             kind == "final"
  <1>5. /\ sends \in Seq(Nat) /\ fresh \in SUBSET Nat /\ e \in Nat /\ kind \in {"final", "created"}
        /\ Start(kind, sends, fresh, e)
    BY <1>1, <1>4
  <1> HIDE DEF sends, fresh, e, kind
  <1>6. Control' /\ Started(kind, sends, fresh, e)
    BY <1>2, <1>3, <1>4, <1>5, AnswerControl
  <1> QED
    BY <1>6 DEF sends, fresh, e, kind

(* It starts when the client was told of the response.                     *)
LEMMA CreatedControl ==
    ASSUME Control, Created
    PROVE  Control' /\ Started("created", runner.sends, runner.fresh, runner.epoch)
  <1>1. /\ OtherOK /\ runner.sends \in Seq(Nat) /\ runner.fresh \in SUBSET Nat /\ runner.epoch \in Nat
        /\ RunnerOK
    BY ControlFits
  <1>2. OnlySilence
    BY <1>1 DEF Created, RunnerOK, Paying
  <1>3. OtherOK'
    BY <1>1 DEF Created, OtherOK, inputVars, sessionVars, history
  <1>4. /\ Start("created", runner.sends, runner.fresh, runner.epoch) /\ runner' = Idle
        /\ pcm' = pcm /\ disordered' = disordered /\ epoch' = epoch
    BY DEF Created, inputVars, sessionVars
  <1> DEFINE sends == runner.sends
             fresh == runner.fresh
             e == runner.epoch
             kind == "created"
  <1>5. /\ sends \in Seq(Nat) /\ fresh \in SUBSET Nat /\ e \in Nat /\ kind \in {"final", "created"}
        /\ Start(kind, sends, fresh, e)
    BY <1>1, <1>4
  <1> HIDE DEF sends, fresh, e, kind
  <1>6. Control' /\ Started(kind, sends, fresh, e)
    BY <1>2, <1>3, <1>4, <1>5, AnswerControl
  <1> QED
    BY <1>6 DEF sends, fresh, e, kind

(* It starts when the payload is retained, or the payload is held.         *)
LEMMA RetainControl ==
    ASSUME Control, Retain
    PROVE  /\ Control'
           /\ tasks' = tasks \/ Started("created", runner.sends, runner.fresh, epoch)
  <1>1. /\ OtherOK /\ runner.sends \in Seq(Nat) /\ runner.fresh \in SUBSET Nat /\ epoch \in Nat
        /\ RunnerOK /\ IsFiniteSet(runner.fresh) /\ committed.bytes \in Nat /\ Newest \in Nat
        /\ RunnerFits(runner, Newest)
    BY ControlFits
  <1>2. OnlySilence
    BY <1>1 DEF Retain, RunnerOK, Paying
  <1>3. OtherOK'
    <2>1. Cardinality(runner.fresh) \in Nat
      BY <1>1, FS_CardinalityType
    <2>2. committed' \in [sends : Seq(Nat), bytes : Nat]
      BY <1>1, <2>1 DEF Retain, Retained
    <2>3. responding' \in BOOLEAN
      BY <1>1 DEF Retain, OtherOK
    <2> QED
      BY <1>1, <2>2, <2>3 DEF Retain, OtherOK, history
  <1>4. pcm' = pcm /\ disordered' = disordered /\ epoch' = epoch
    BY DEF Retain
  <1>5. CASE runner' = Idle /\ UNCHANGED tasks
    BY <1>3, <1>4, <1>5, IdleControl
  <1>6. CASE Start("created", runner.sends, runner.fresh, epoch) /\ runner' = Idle
    <2> DEFINE sends == runner.sends
               fresh == runner.fresh
               kind == "created"
    <2>1. /\ sends \in Seq(Nat) /\ fresh \in SUBSET Nat /\ kind \in {"final", "created"}
          /\ Start(kind, sends, fresh, epoch)
      BY <1>1, <1>6
    <2> HIDE DEF sends, fresh, kind
    <2>2. Control' /\ Started(kind, sends, fresh, epoch)
      BY <1>1, <1>2, <1>3, <1>4, <1>6, <2>1, AnswerControl
    <2> QED
      BY <2>2 DEF sends, fresh, kind
  <1>7. CASE runner' = [runner EXCEPT !.at = "create", !.epoch = epoch] /\ UNCHANGED tasks
    <2>1. RunnerFits(runner', Newest) /\ runner'.at = "create"
      BY <1>1, <1>7, CreateFits
    <2> QED
      BY <1>2, <1>3, <1>4, <1>7, <2>1, InputStays
  <1> QED
    BY <1>5, <1>6, <1>7 DEF Retain

(* A silence unit starts when none is under way.                           *)
LEMMA SilenceControl ==
    ASSUME Control, Silence
    PROVE  Control' /\ Started("silence", <<>>, {}, epoch)
  <1>1. /\ OtherOK /\ FieldsOK /\ ReservedOK /\ ChainOK /\ RunnerOK /\ tasks \in Seq(TaskType)
        /\ epoch \in Nat
    BY ControlFits
  <1>0. "silence" \in Kinds /\ <<>> \in Seq(Nat) /\ {} \in SUBSET Nat
    BY DEF Kinds
  <1>2. OtherOK'
    BY <1>1 DEF Silence, OtherOK, inputVars, sessionVars, history
  <1>3. /\ Start("silence", <<>>, {}, epoch) /\ runner' = runner
        /\ pcm' = pcm /\ disordered' = disordered /\ epoch' = epoch
        /\ \A t \in Unfinished : tasks[t].kind # "silence"
    BY DEF Silence, inputVars, sessionVars
  <1>4. Started("silence", <<>>, {}, epoch)
    BY <1>0, <1>1, <1>3, StartFacts
  <1>5. ChainOK'
    BY <1>0, <1>1, <1>3, <1>4, ChainStarts
  <1>6. ReservedOK'
    BY <1>1, <1>3, <1>4, StartReserved
  <1>7. /\ Newest \in Nat /\ DOMAIN tasks = 1..Newest /\ Len(tasks') = Newest + 1
        /\ DOMAIN tasks' = 1..(Newest + 1) /\ tasks' \in Seq(TaskType)
        /\ tasks'[Newest + 1].kind = "silence"
        /\ \A t \in DOMAIN tasks : tasks'[t] = tasks[t]
    BY <1>4 DEF Started
  <1>8. \A t \in DOMAIN tasks' : t \in DOMAIN tasks \/ t = Newest + 1
    BY <1>7
  <1>9. runner.tail \in 0..(Newest + 1)
    BY <1>1, <1>7 DEF FieldsOK
  <1>10. FieldsOK'
    BY <1>1, <1>2, <1>3, <1>7, <1>9 DEF FieldsOK, Newest
  <1>11. \A t \in Unfinished' : t \in Unfinished \/ tasks'[t].kind = "silence"
    BY <1>7, <1>8 DEF Unfinished, Finished
  <1>12. Unfinished \subseteq DOMAIN tasks
    BY DEF Unfinished
  <1>13. OnlySilence => OnlySilence'
    BY <1>7, <1>11, <1>12 DEF OnlySilence
  <1>14. RunnerOK'
    BY <1>1, <1>3, <1>7, <1>8, <1>13 DEF RunnerOK, Paying
  <1> QED
    BY <1>3, <1>4, <1>5, <1>6, <1>10, <1>14 DEF Control

(* The steps that only tell the runner or the session something.           *)
LEMMA SmallSteps ==
    ASSUME Control,
           \/ TailFailed \/ AdvanceEpoch \/ CreateResponse
           \/ \E c \in Chunks : RefuseAudio(c)
           \/ \E k \in Commits : AwaitTail(k)
           \/ ResponseBegins \/ ResponseEnds
    PROVE  Control'
  <1>1. OtherOK /\ RunnerOK /\ Newest \in Nat /\ DOMAIN tasks = 1..Newest /\ epoch \in Nat
    BY ControlFits
  <1>2. CASE TailFailed
    <2>1. OtherOK'
      BY <1>1, <1>2 DEF TailFailed, OtherOK, inputVars, sessionVars, history
    <2> QED
      BY <1>2, <2>1, IdleControl DEF TailFailed, inputVars
  <1>3. CASE AdvanceEpoch
    <2>1. OtherOK'
      <3>1. epoch' \in 0..MaxEpoch /\ 0 \in 0..MaxFailures
        BY <1>1, <1>3, NativeInputAssumption DEF AdvanceEpoch, OtherOK, RunnerOK
      <3> QED
        BY <1>1, <1>3, <3>1 DEF AdvanceEpoch, OtherOK, inputVars, history
    <2> QED
      BY <1>3, <2>1, IdleControl DEF AdvanceEpoch, inputVars
  <1>4. CASE CreateResponse
    <2>1. OtherOK'
      BY <1>1, <1>4 DEF CreateResponse, OtherOK, inputVars, history
    <2>2. runner' = Suspended("create", 0, "", committed.sends, {}, epoch)
      BY <1>4 DEF CreateResponse, Idle, Suspended
    <2>3. committed.sends \in Seq(Nat) /\ {} \in SUBSET Nat /\ IsFiniteSet({})
      BY ControlFits, FS_EmptySet
    <2>4. RunnerFits(runner', Newest)
      <3> DEFINE none == ""
      <3>1. none \in RunnerKinds
        BY RunnerKindFacts
      <3> HIDE DEF none
      <3>2. RunnerFits(Suspended("create", 0, none, committed.sends, {}, epoch), Newest)
        BY <1>1, <2>3, <3>1, SuspendedFits, ZeroBounds
      <3> QED
        BY <2>2, <3>2 DEF none
    <2>5. runner'.at = "create"
      BY <2>2 DEF Suspended
    <2>6. OnlySilence
      BY <1>4 DEF CreateResponse, OnlySilence
    <2>7. tasks' = tasks /\ pcm' = pcm /\ disordered' = disordered
      BY <1>4 DEF CreateResponse, inputVars
    <2> QED
      BY <2>1, <2>4, <2>5, <2>6, <2>7, InputStays
  <1>5. CASE \E c \in Chunks : RefuseAudio(c)
    <2>1. PICK c \in Chunks : RefuseAudio(c)
      BY <1>5
    <2>2. c.speech \in BOOLEAN
      BY NativeInputAssumption
    <2>3. OtherOK'
      BY <1>1, <2>1, <2>2 DEF RefuseAudio, OtherOK, sessionVars, history
    <2> QED
      BY <2>1, <2>3, RunnerStays DEF RefuseAudio, sessionVars
  <1>6. CASE \E k \in Commits : AwaitTail(k)
    <2>1. PICK k \in Commits : AwaitTail(k)
      BY <1>6
    <2>2. OtherOK'
      BY <1>1, <2>1 DEF AwaitTail, OtherOK, inputVars, sessionVars, history
    <2>3. runner' = Suspended("commit", Newest, k, <<>>, {}, 0) /\ Newest \in DOMAIN tasks
      BY <2>1 DEF AwaitTail, Idle, Unfinished, Suspended
    <2>4. k \in RunnerKinds
      BY RunnerKindFacts
    <2>5. RunnerFits(runner', Newest) /\ runner'.at = "commit" /\ runner'.tail = Newest
      <3>1. IsFiniteSet({}) /\ Newest \in 0..Newest /\ <<>> \in Seq(Nat) /\ {} \in SUBSET Nat
        BY <1>1, FS_EmptySet
      <3>2. RunnerFits(Suspended("commit", Newest, k, <<>>, {}, 0), Newest)
        BY <1>1, <2>4, <3>1, SuspendedFits
      <3> QED
        BY <2>3, <3>2 DEF Suspended
    <2>6. \A t \in DOMAIN tasks : ~ (t > Newest)
      BY <1>1
    <2>7. tasks' = tasks /\ pcm' = pcm /\ disordered' = disordered
      BY <2>1 DEF AwaitTail, inputVars
    <2> QED
      BY <2>2, <2>3, <2>5, <2>6, <2>7, InputStays DEF Paying
  <1>7. CASE ResponseBegins
    <2>1. OtherOK'
      BY <1>1, <1>7 DEF ResponseBegins, OtherOK, inputVars, history
    <2> QED
      BY <1>7, <2>1, RunnerStays DEF ResponseBegins, inputVars
  <1>8. CASE ResponseEnds
    <2>1. OtherOK'
      BY <1>1, <1>8 DEF ResponseEnds, OtherOK, inputVars, history
    <2> QED
      BY <1>8, <2>1, RunnerStays DEF ResponseEnds, inputVars
  <1> QED
    BY <1>2, <1>3, <1>4, <1>5, <1>6, <1>7, <1>8

(* A clear.                                                                *)
LEMMA ClearControl ==
    ASSUME Control, Clear PROVE Control'
  <1>1. OtherOK' /\ pcm' \in PcmType /\ pcm'.reserved = <<>>
    BY Cleared DEF Clear, sessionVars
  <1>2. tasks' = tasks /\ ~disordered' /\ runner' = runner /\ epoch' = epoch
    BY DEF Clear, Control, sessionVars
  <1>3. RunnerFits(runner', Newest) /\ runner'.at = "idle"
    BY <1>2, ControlFits DEF Clear, Free
  <1> QED
    BY <1>1, <1>2, <1>3, TasksStay DEF Paying

-----------------------------------------------------------------------------
(* Audio arrives.                                                          *)

(* The samples of a chunk.                                                 *)
Arrived(s, n) ==
    /\ s \in Seq(Nat) /\ Len(s) = n /\ DOMAIN s = 1..n
    /\ \A i \in 1..n : s[i] = received + i

ReservedAnew(unit) ==
    /\ Started("audio", unit, {}, epoch)
    /\ \E b \in BOOLEAN :
          pcm'.reserved = Append(pcm.reserved, [task |-> Newest + 1, raw |-> unit, speech |-> b])
    /\ Waiting(pcm)' = Joined(Joined(Raw(pcm.reserved), unit), pcm'.buffer)

(* What a chunk does: its samples wait last, and a unit may be reserved.   *)
LEMMA AppendFacts ==
    ASSUME Control, NEW c \in Chunks, AppendAudio(c)
    PROVE  /\ c.size \in Nat \ {0} /\ received' = received + c.size
           /\ pcm' \in PcmType
           /\ \E s : Arrived(s, c.size) /\ Waiting(pcm)' = Joined(Waiting(pcm), s)
           /\ \/ tasks' = tasks /\ pcm'.reserved = pcm.reserved
              \/ \E unit \in Seq(Nat) : ReservedAnew(unit)
  <1> DEFINE s == [i \in 1..c.size |-> received + i]
             filled == Buffered(pcm, s, c.speech)
  <1>1. /\ c.size \in Nat \ {0} /\ c.speech \in BOOLEAN /\ received \in Nat /\ pcm \in PcmType
        /\ tasks \in Seq(TaskType) /\ epoch \in Nat /\ Newest \in Nat
    BY ControlFits, NativeInputAssumption
  <1>2. Arrived(s, c.size)
    BY <1>1 DEF Arrived
  <1>3. /\ received' = received + c.size
        /\ \/ Len(filled.buffer) < Unit /\ pcm' = filled /\ tasks' = tasks
           \/ /\ ~ (Len(filled.buffer) < Unit)
              /\ pcm' = Reserve(filled, Newest + 1)
              /\ Start("audio", SubSeq(filled.buffer, 1, Unit), {}, epoch)
    BY DEF AppendAudio
  <1> HIDE DEF s
  <1>4. s \in Seq(Nat)
    BY <1>2 DEF Arrived
  <1>5. /\ filled \in PcmType /\ filled.reserved = pcm.reserved
        /\ Waiting(filled) = Joined(Waiting(pcm), s)
    BY <1>1, <1>4, BufferedFacts
  <1> HIDE DEF filled
  <1>6. CASE pcm' = filled /\ tasks' = tasks
    BY <1>1, <1>2, <1>3, <1>5, <1>6
  <1>7. CASE /\ ~ (Len(filled.buffer) < Unit)
             /\ pcm' = Reserve(filled, Newest + 1)
             /\ Start("audio", SubSeq(filled.buffer, 1, Unit), {}, epoch)
    <2> DEFINE unit == SubSeq(filled.buffer, 1, Unit)
               r == [task |-> Newest + 1, raw |-> unit, speech |-> filled.speech]
    <2>1. Len(filled.buffer) >= Unit /\ Newest + 1 \in Nat
      <3>1. filled.buffer \in Seq(Nat)
        BY <1>5, WaitingType
      <3>2. PICK n \in Nat : n = Len(filled.buffer)
        BY <3>1
      <3>3. ~ (n < Unit) /\ Unit \in Nat
        BY <1>7, <3>2, NativeInputAssumption
      <3> QED
        BY <1>1, <3>2, <3>3
    <2>2. /\ unit \in Seq(Nat) /\ r \in ReservationType
          /\ pcm' \in PcmType
          /\ pcm'.reserved = Append(filled.reserved, r)
          /\ Waiting(pcm') = Waiting(filled)
          /\ Waiting(filled) = Joined(Joined(Raw(filled.reserved), unit), pcm'.buffer)
      BY <1>5, <1>7, <2>1, ReserveFacts
    <2>3. filled.speech \in BOOLEAN
      BY <1>5, WaitingType
    <2>4. Start("audio", unit, {}, epoch)
      BY <1>7
    <2> HIDE DEF unit
    <2>5. Started("audio", unit, {}, epoch)
      <3>1. "audio" \in Kinds /\ {} \in SUBSET Nat
        BY DEF Kinds
      <3> QED
        BY <1>1, <2>2, <2>4, <3>1, StartFacts
    <2>6. ReservedAnew(unit)
      BY <1>5, <2>2, <2>3, <2>5 DEF ReservedAnew
    <2> QED
      BY <1>1, <1>2, <1>3, <1>5, <2>2, <2>6
  <1> QED
    BY <1>3, <1>6, <1>7

(* The reservations with a new one.                                        *)
LEMMA AppendReserved ==
    ASSUME FieldsOK, ReservedOK, NEW unit \in Seq(Nat), ReservedAnew(unit)
    PROVE  ReservedOK'
  <1> DEFINE q == pcm.reserved
  <1>1. PICK b \in BOOLEAN : pcm'.reserved = Append(q, [task |-> Newest + 1, raw |-> unit, speech |-> b])
    BY DEF ReservedAnew
  <1>2. PICK r : r = [task |-> Newest + 1, raw |-> unit, speech |-> b]
    OBVIOUS
  <1>3. PICK p : p = pcm'.reserved
    OBVIOUS
  <1>4. /\ Newest \in Nat /\ DOMAIN tasks = 1..Newest /\ DOMAIN tasks' = 1..(Newest + 1)
        /\ \A t \in DOMAIN tasks : tasks'[t] = tasks[t]
        /\ tasks'[Newest + 1].kind = "audio" /\ tasks'[Newest + 1].sends = unit
        /\ tasks'[Newest + 1].st = "waiting"
    BY DEF ReservedAnew, Started
  <1>5. PICK n \in Nat : n = Newest + 1
    BY <1>4
  <1>6. r \in ReservationType /\ r.task = n /\ r.raw = unit
    BY <1>2, <1>5 DEF ReservationType
  <1>7. q \in Seq(ReservationType)
    BY WaitingType DEF FieldsOK
  <1>8. \A i \in DOMAIN q : /\ q[i].task \in Unfinished
                            /\ tasks[q[i].task].kind = "audio" /\ tasks[q[i].task].sends = q[i].raw
    BY DEF ReservedOK
  <1>9. \A i, j \in DOMAIN q : i < j => q[i].task < q[j].task
    BY DEF ReservedOK
  <1>10. p = Append(q, r)
    BY <1>1, <1>2, <1>3
  <1> HIDE DEF q
  <1>11. /\ DOMAIN p = 1..(Len(q) + 1) /\ Len(q) \in Nat /\ DOMAIN q = 1..Len(q)
         /\ \A i \in DOMAIN q : p[i] = q[i]
         /\ p[Len(q) + 1] = r
    BY <1>6, <1>7, <1>10
  <1>12. \A i \in DOMAIN p : i \in DOMAIN q \/ i = Len(q) + 1
    BY <1>11
  <1>13. \A u \in Unfinished : u \in DOMAIN tasks /\ u \in Unfinished' /\ tasks'[u] = tasks[u] /\ u < n
    BY <1>4, <1>5 DEF Unfinished, Finished
  <1>14. n \in Unfinished' /\ tasks'[n].kind = "audio" /\ tasks'[n].sends = unit
    BY <1>4, <1>5 DEF Unfinished, Finished
  <1>15. \A i \in DOMAIN p : /\ p[i].task \in Unfinished'
                             /\ tasks'[p[i].task].kind = "audio" /\ tasks'[p[i].task].sends = p[i].raw
    <2> SUFFICES ASSUME NEW i \in DOMAIN p
                 PROVE  /\ p[i].task \in Unfinished'
                        /\ tasks'[p[i].task].kind = "audio" /\ tasks'[p[i].task].sends = p[i].raw
      OBVIOUS
    <2>1. CASE i \in DOMAIN q
      BY <1>8, <1>11, <1>13, <2>1
    <2>2. CASE i = Len(q) + 1
      BY <1>6, <1>11, <1>14, <2>2
    <2> QED
      BY <1>12, <2>1, <2>2
  <1>16. \A i, j \in DOMAIN p : i < j => p[i].task < p[j].task
    <2> SUFFICES ASSUME NEW i \in DOMAIN p, NEW j \in DOMAIN p, i < j PROVE p[i].task < p[j].task
      OBVIOUS
    <2>1. i \in DOMAIN q
      BY <1>11
    <2>2. CASE j \in DOMAIN q
      BY <1>9, <1>11, <2>1, <2>2
    <2>3. CASE j = Len(q) + 1
      BY <1>6, <1>8, <1>11, <1>13, <2>1, <2>3
    <2> QED
      BY <1>12, <2>2, <2>3
  <1> QED
    BY <1>3, <1>15, <1>16 DEF ReservedOK

(* A chunk of audio.                                                       *)
LEMMA AppendAudioControl ==
    ASSUME Control, NEW c \in Chunks, AppendAudio(c)
    PROVE  Control'
  <1>1. /\ FieldsOK /\ OtherOK /\ ReservedOK /\ ChainOK /\ RunnerOK /\ RunnerFits(runner, Newest)
        /\ Newest \in Nat /\ received \in Nat /\ budget \in Nat
    BY ControlFits
  <1>2. /\ c.size \in Nat \ {0} /\ received' = received + c.size /\ pcm' \in PcmType
        /\ \/ tasks' = tasks /\ pcm'.reserved = pcm.reserved
           \/ \E unit \in Seq(Nat) : ReservedAnew(unit)
    BY AppendFacts
  <1>3. OtherOK'
    <2>1. received' \in 0..MaxInput
      BY <1>1, <1>2, NativeInputAssumption DEF AppendAudio
    <2>2. budget' \in 0..Limit
      BY <1>1, <1>2, NativeInputAssumption DEF AppendAudio
    <2>3. spoken' \in BOOLEAN
      BY NativeInputAssumption DEF AppendAudio, OtherOK
    <2> QED
      BY <1>1, <2>1, <2>2, <2>3 DEF AppendAudio, OtherOK, sessionVars, history
  <1>4. runner' = runner /\ epoch' = epoch /\ disordered' = disordered /\ runner.at = "idle"
    BY DEF AppendAudio, sessionVars, Free
  <1>5. CASE tasks' = tasks /\ pcm'.reserved = pcm.reserved
    <2>1. ~disordered'
      BY <1>4 DEF Control
    <2> QED
      BY <1>1, <1>2, <1>3, <1>4, <1>5, <2>1, TasksStay DEF Paying
  <1>6. CASE \E unit \in Seq(Nat) : ReservedAnew(unit)
    <2>1. PICK unit \in Seq(Nat) : ReservedAnew(unit)
      BY <1>6
    <2>2. ReservedOK'
      BY <1>1, <2>1, AppendReserved
    <2>3. Started("audio", unit, {}, epoch)
      BY <2>1 DEF ReservedAnew
    <2>4. ChainOK'
      <3>1. "audio" \in Kinds
        BY DEF Kinds
      <3> QED
        BY <1>1, <2>3, <3>1, ChainStarts
    <2>5. tasks' \in Seq(TaskType) /\ Len(tasks') = Newest + 1
      BY <2>3 DEF Started
    <2>6. runner.tail \in 0..(Newest + 1)
      BY <1>1 DEF FieldsOK
    <2>7. FieldsOK'
      BY <1>1, <1>2, <1>3, <1>4, <2>5, <2>6 DEF FieldsOK, Newest
    <2>8. RunnerOK'
      BY <1>4 DEF RunnerOK, Paying
    <2> QED
      BY <1>4, <2>2, <2>4, <2>7, <2>8 DEF Control
  <1> QED
    BY <1>2, <1>5, <1>6

-----------------------------------------------------------------------------
(* The cancels.                                                            *)

Both(ts) == ts \cup {tasks[t].pred : t \in {u \in ts : tasks[u].st = "waiting"}}

(* A cancel fails the tasks that are chosen and those they wait for.       *)
LEMMA CancelFacts ==
    ASSUME tasks \in Seq(TaskType), NEW ts, Cancelled(ts)
    PROVE  /\ Continues
           /\ \A t \in DOMAIN tasks :
                 tasks'[t].st = IF t \in Unfinished \cap Both(ts) THEN "failed" ELSE tasks[t].st
  <1>1. tasks' = [t \in DOMAIN tasks |->
                    IF t \in Unfinished \cap Both(ts) THEN [tasks[t] EXCEPT !.st = "failed"] ELSE tasks[t]]
    BY DEF Cancelled, Both
  <1>2. \A t \in DOMAIN tasks : tasks'[t] = IF t \in Unfinished \cap Both(ts)
                                            THEN [tasks[t] EXCEPT !.st = "failed"] ELSE tasks[t]
    BY <1>1
  <1>3. ASSUME NEW t \in DOMAIN tasks
        PROVE  /\ tasks'[t] \in TaskType /\ Kept(t)
               /\ tasks'[t].st = IF t \in Unfinished \cap Both(ts) THEN "failed" ELSE tasks[t].st
    <2>1. tasks[t] \in TaskType
      OBVIOUS
    <2>2. CASE t \in Unfinished \cap Both(ts)
      <3> DEFINE new == [tasks[t] EXCEPT !.st = "failed"]
      <3>1. /\ new \in TaskType /\ new.st = "failed" /\ new.kind = tasks[t].kind
            /\ new.sends = tasks[t].sends
            /\ new.fresh = tasks[t].fresh /\ new.pred = tasks[t].pred /\ new.epoch = tasks[t].epoch
        BY <2>1 DEF TaskType, States
      <3>2. tasks'[t] = new
        BY <1>2, <2>2
      <3> QED
        BY <2>2, <3>1, <3>2 DEF Kept
    <2>3. CASE t \notin Unfinished \cap Both(ts)
      BY <1>2, <2>1, <2>3 DEF Kept
    <2> QED
      BY <2>2, <2>3
  <1>4. DOMAIN tasks' = DOMAIN tasks
    BY <1>1
  <1>5. tasks' \in Seq(TaskType) /\ Len(tasks') = Len(tasks)
    <2>1. Len(tasks) \in Nat /\ DOMAIN tasks = 1..Len(tasks)
      OBVIOUS
    <2>2. tasks' \in [1..Len(tasks) -> TaskType]
      <3>1. tasks' = [t \in 1..Len(tasks) |-> tasks'[t]]
        BY <1>1, <2>1
      <3> QED
        BY <1>3, <2>1, <3>1
    <2> QED
      BY <2>1, <2>2
  <1>6. \A t \in DOMAIN tasks : Finished(t) => tasks'[t].st = tasks[t].st
    BY <1>3 DEF Unfinished
  <1> QED
    BY <1>3, <1>4, <1>5, <1>6 DEF Continues

(* All that has not ended fails.                                           *)
LEMMA InputCancelControl ==
    ASSUME Control, InputCancel
    PROVE  /\ Control' /\ Continues
           /\ \A t \in DOMAIN tasks : tasks'[t].st = IF Finished(t) THEN tasks[t].st ELSE "failed"
  <1>1. FieldsOK /\ OtherOK /\ ChainOK /\ tasks \in Seq(TaskType) /\ Newest \in Nat
    BY ControlFits
  <1>2. Continues /\ \A t \in DOMAIN tasks : tasks'[t].st = IF Finished(t) THEN tasks[t].st ELSE "failed"
    <2>1. Cancelled(Unfinished)
      BY DEF InputCancel
    <2>2. \A t \in DOMAIN tasks : t \in Unfinished \cap Both(Unfinished) <=> ~Finished(t)
      BY DEF Both, Unfinished
    <2> QED
      BY <1>1, <2>1, <2>2, CancelFacts
  <1>3. /\ tasks' \in Seq(TaskType) /\ Len(tasks') = Len(tasks) /\ DOMAIN tasks' = DOMAIN tasks
        /\ \A t \in DOMAIN tasks : tasks'[t].kind = tasks[t].kind /\ tasks'[t].pred = tasks[t].pred
    BY <1>2 DEF Continues, Kept
  <1>4. \A t \in DOMAIN tasks : Finished(t)'
    BY <1>2 DEF Finished
  <1>5. OtherOK' /\ pcm' \in PcmType /\ pcm'.reserved = <<>>
    BY Cleared DEF InputCancel, sessionVars
  <1>6. runner' = [at |-> "cancel", tail |-> 0, kind |-> Idle.kind, sends |-> <<>>, fresh |-> {}, epoch |-> 0]
    BY DEF InputCancel, Idle
  <1>7. RunnerFits(runner', Newest) /\ runner'.at = "cancel"
    <2>1. runner' = Suspended("cancel", 0, Idle.kind, <<>>, {}, 0)
      BY <1>6 DEF Suspended
    <2>2. Idle.kind \in RunnerKinds
      BY IdleFits, ZeroBounds DEF RunnerFits, RunnerType
    <2>3. <<>> \in Seq(Nat) /\ {} \in SUBSET Nat /\ IsFiniteSet({}) /\ 0 \in Nat
      BY FS_EmptySet
    <2> DEFINE none == Idle.kind
    <2>4. none \in RunnerKinds
      BY <2>2
    <2> HIDE DEF none
    <2>5. RunnerFits(Suspended("cancel", 0, none, <<>>, {}, 0), Newest)
      BY <1>1, <2>3, <2>4, SuspendedFits, ZeroBounds
    <2> QED
      BY <2>1, <2>5 DEF Suspended, none
  <1>8. FieldsOK'
    BY <1>3, <1>5, <1>7 DEF FieldsOK, RunnerFits, Newest
  <1>9. ReservedOK'
    BY <1>5 DEF ReservedOK
  <1>10. ChainOK'
    <2>1. \A t \in DOMAIN tasks : Earlier(t) \subseteq DOMAIN tasks
      BY <1>1, TaskFacts
    <2>2. \A t \in DOMAIN tasks' : EarlierEnded(t)'
      BY <1>3, <1>4, <2>1 DEF EarlierEnded, Earlier
    <2>3. Unfinished' = {}
      BY <1>3, <1>4 DEF Unfinished
    <2>4. \A t \in DOMAIN tasks' : tasks'[t].pred \in {0, t - 1}
      BY <1>1, <1>3 DEF ChainOK
    <2> QED
      BY <2>2, <2>3, <2>4 DEF ChainOK, EarlierEnded
  <1>11. RunnerOK'
    <2>1. epoch' < MaxEpoch
      BY DEF InputCancel, sessionVars
    <2> QED
      BY <1>7, <2>1 DEF RunnerOK, Paying
  <1>12. ~disordered'
    BY DEF Control, InputCancel
  <1> QED
    BY <1>2, <1>8, <1>9, <1>10, <1>11, <1>12 DEF Control

-----------------------------------------------------------------------------
(* A response is cancelled.                                                *)

(* A response is cancelled: with its append, the silence that it waits for *)
(* ends too, so the chain has no gap.                                      *)
LEMMA ResponseCancelControl ==
    ASSUME Control, ResponseCancel
    PROVE  /\ Control' /\ Continues
           /\ \A t \in DOMAIN tasks : tasks'[t].st # tasks[t].st =>
                 t \in Unfinished /\ tasks'[t].st = "failed" /\ tasks[t].kind # "audio"
  <1> DEFINE Finals == {t \in Unfinished : IsFinal(t)}
  <1>1. /\ FieldsOK /\ OtherOK /\ ChainOK /\ ReservedOK /\ tasks \in Seq(TaskType) /\ Newest \in Nat
        /\ DOMAIN tasks = 1..Newest
    BY ControlFits
  <1>2. /\ Continues
        /\ \A t \in DOMAIN tasks :
              tasks'[t].st = IF t \in Unfinished \cap Both(Finals) THEN "failed" ELSE tasks[t].st
    <2>1. Cancelled(Finals)
      BY DEF ResponseCancel
    <2> HIDE DEF Finals
    <2> QED
      BY <1>1, <2>1, CancelFacts
  <1>3. /\ tasks' \in Seq(TaskType) /\ Len(tasks') = Len(tasks) /\ DOMAIN tasks' = DOMAIN tasks
        /\ \A t \in DOMAIN tasks : tasks'[t].kind = tasks[t].kind /\ tasks'[t].pred = tasks[t].pred
                                   /\ tasks'[t].sends = tasks[t].sends
        /\ \A t \in DOMAIN tasks : Finished(t) => Finished(t)'
    BY <1>2 DEF Continues, Kept, Finished
  <1>4. \A t \in DOMAIN tasks : t \in Both(Finals) <=>
            \/ t \in Finals
            \/ \E u \in Finals : tasks[u].st = "waiting" /\ t = tasks[u].pred
    BY DEF Both
  <1>5. \A t \in DOMAIN tasks : Earlier(t) \subseteq DOMAIN tasks /\ t \in Nat
    BY <1>1, TaskFacts
  (* What is cancelled and unfinished is a final, or a silence before it.  *)
  <1>6. ASSUME NEW t \in Unfinished \cap Both(Finals), t \notin Finals
        PROVE  tasks[t].kind = "silence"
    <2>1. t \in DOMAIN tasks /\ ~Finished(t)
      BY DEF Unfinished
    <2>2. PICK u \in Finals : t = tasks[u].pred
      BY <1>4, <1>6, <2>1
    <2>3. u \in DOMAIN tasks /\ IsFinal(u) /\ u \in Nat
      BY <1>5 DEF Unfinished
    <2>4. t \in Earlier(u)
      BY <1>1, <1>5, <2>1, <2>2, <2>3 DEF ChainOK, Earlier
    <2> QED
      BY <1>1, <2>1, <2>3, <2>4 DEF ChainOK
  <1>7. \A t \in DOMAIN tasks : tasks'[t].st # tasks[t].st =>
            t \in Unfinished /\ tasks'[t].st = "failed" /\ tasks[t].kind # "audio"
    BY <1>2, <1>6 DEF IsFinal
  (* Everything before a cancelled final has ended with it.                *)
  <1>8. ASSUME NEW t \in Finals PROVE EarlierEnded(t)'
    <2>1. t \in DOMAIN tasks /\ IsFinal(t) /\ ~Finished(t) /\ t \in Nat /\ t >= 1
      BY <1>1, <1>5 DEF Unfinished
    <2> SUFFICES ASSUME NEW u \in Earlier(t), ~Finished(u)' PROVE FALSE
      BY DEF EarlierEnded, Earlier
    <2>2. u \in DOMAIN tasks /\ ~Finished(u) /\ u < t /\ u \in Unfinished
      BY <1>3, <1>5, <2>1 DEF Earlier, Unfinished
    <2>3. ~EarlierEnded(t)
      BY <2>2 DEF EarlierEnded
    <2>4. tasks[t].st = "waiting" /\ tasks[t].pred = t - 1 /\ t - 1 # 0
      BY <1>1, <2>1, <2>3 DEF ChainOK
    <2>5. t - 1 \in DOMAIN tasks /\ t - 1 \in Earlier(t)
      BY <1>1, <2>1, <2>4 DEF Earlier
    <2>6. ~Finished(t - 1)
      <3> SUFFICES ASSUME Finished(t - 1) PROVE FALSE
        OBVIOUS
      <3>1. EarlierEnded(t)
        BY <1>1, <2>1, <2>4, EarlierDone DEF Finished
      <3> QED
        BY <2>3, <3>1
    <2>7. tasks[t - 1].kind = "silence" /\ tasks[u].kind = "silence"
      BY <1>1, <2>1, <2>2, <2>5, <2>6 DEF ChainOK
    <2>8. u = t - 1
      BY <1>1, <2>2, <2>5, <2>6, <2>7 DEF ChainOK, Unfinished
    <2>9. u \in Both(Finals)
      BY <1>4, <2>1, <2>2, <2>4, <2>8
    <2>10. tasks'[u].st = "failed"
      BY <1>2, <2>2, <2>9
    <2> QED
      BY <2>10 DEF Finished
  <1>9. ASSUME NEW t \in DOMAIN tasks, EarlierEnded(t) PROVE EarlierEnded(t)'
    BY <1>3, <1>5, <1>9 DEF EarlierEnded, Earlier
  <1>10. ASSUME NEW t \in DOMAIN tasks, tasks'[t].st # "waiting" \/ tasks'[t].pred = 0
         PROVE  EarlierEnded(t)'
    <2>1. CASE tasks[t].st # "waiting" \/ tasks[t].pred = 0
      <3>1. EarlierEnded(t)
        BY <1>1, <2>1 DEF ChainOK
      <3> QED
        BY <1>9, <3>1
    <2>2. CASE tasks[t].st = "waiting" /\ tasks[t].pred # 0
      <3>1. t \in Unfinished \cap Both(Finals)
        BY <1>2, <1>3, <1>10, <2>2
      <3>2. CASE t \in Finals
        BY <1>8, <3>2
      <3>3. CASE t \notin Finals
        <4>1. PICK u \in Finals : t = tasks[u].pred
          BY <1>4, <3>1, <3>3
        <4>2. EarlierEnded(u)' /\ u \in DOMAIN tasks /\ t = u - 1
          BY <1>1, <1>8, <2>2, <4>1 DEF ChainOK, Unfinished
        <4>3. Earlier(t) \subseteq Earlier(u)
          BY <1>5, <4>2 DEF Earlier
        <4> QED
          BY <4>2, <4>3 DEF EarlierEnded, Earlier
      <3> QED
        BY <3>2, <3>3
    <2> QED
      BY <2>1, <2>2
  <1>11. ChainOK'
    <2>1. Unfinished' \subseteq Unfinished /\ Unfinished \subseteq DOMAIN tasks
      BY <1>3 DEF Unfinished
    <2>2. \A t, u \in Unfinished' : tasks'[t].kind = "silence" /\ tasks'[u].kind = "silence" => t = u
      BY <1>1, <1>3, <2>1 DEF ChainOK
    <2>3. ASSUME NEW t \in DOMAIN tasks
          PROVE  /\ tasks'[t].pred \in {0, t - 1}
                 /\ IsFinal(t)' => \A u \in Earlier(t) : Finished(u)' \/ tasks'[u].kind = "silence"
      BY <1>1, <1>3, <1>5 DEF ChainOK, IsFinal
    <2>4. \A t \in DOMAIN tasks' : Earlier(t)' = Earlier(t)
      BY DEF Earlier
    <2> QED
      BY <1>3, <1>10, <2>2, <2>3, <2>4 DEF ChainOK
  <1>12. /\ pcm' = pcm /\ ~disordered' /\ epoch' = epoch /\ epoch < MaxEpoch
    BY DEF ResponseCancel, Control, inputVars, sessionVars
  <1>13. ReservedOK'
    <2>1. \A t \in Unfinished : tasks[t].kind = "audio" => t \in Unfinished' /\ t \in DOMAIN tasks
      BY <1>3, <1>7 DEF Unfinished, Finished
    <2> QED
      BY <1>1, <1>3, <1>12, <2>1 DEF ReservedOK
  <1>14. RunnerFits(runner', Newest) /\ runner'.at = "cancel"
    <2>1. runner' = Suspended("cancel", 0, Idle.kind, <<>>, {}, 0)
      BY DEF ResponseCancel, Idle, Suspended
    <2>2. Idle.kind \in RunnerKinds
      BY IdleFits, ZeroBounds DEF RunnerFits, RunnerType
    <2>3. <<>> \in Seq(Nat) /\ {} \in SUBSET Nat /\ IsFiniteSet({}) /\ 0 \in Nat
      BY FS_EmptySet
    <2> DEFINE none == Idle.kind
    <2>4. none \in RunnerKinds
      BY <2>2
    <2> HIDE DEF none
    <2>5. RunnerFits(Suspended("cancel", 0, none, <<>>, {}, 0), Newest)
      BY <1>1, <2>3, <2>4, SuspendedFits, ZeroBounds
    <2> QED
      BY <2>1, <2>5 DEF Suspended, none
  <1>15. OtherOK'
    BY <1>1 DEF ResponseCancel, OtherOK, inputVars, sessionVars, history
  <1>16. FieldsOK'
    <2>1. pcm' \in PcmType
      BY <1>1, <1>12 DEF FieldsOK
    <2> QED
      BY <1>3, <1>14, <1>15, <2>1 DEF FieldsOK, RunnerFits, Newest
  <1>17. RunnerOK'
    BY <1>12, <1>14 DEF RunnerOK, Paying
  <1> QED
    BY <1>2, <1>7, <1>11, <1>12, <1>13, <1>16, <1>17 DEF Control

-----------------------------------------------------------------------------
(* The control part is inductive.                                          *)

(* The control part holds initially.                                       *)
LEMMA ControlInit == Init => Control
  <1> SUFFICES ASSUME Init PROVE Control
    OBVIOUS
  <1>1. tasks = <<>> /\ pcm = EmptyBuffer /\ runner = Idle /\ ~disordered
    BY DEF Init
  <1>2. tasks \in Seq(TaskType) /\ DOMAIN tasks = {} /\ Newest = 0
    BY <1>1 DEF Newest
  <1>3. OtherOK
    <2>1. NoPayload \in [sends : Seq(Nat), bytes : Nat]
      BY DEF NoPayload
    <2>2. 0 \in 0..Limit /\ 0 \in 0..MaxInput /\ 0 \in 0..MaxEpoch /\ 0 \in 0..MaxFailures
      BY NativeInputAssumption
    <2>3. <<>> \in Seq(Nat) /\ 0 \in Nat /\ FALSE \in BOOLEAN
      OBVIOUS
    <2>4. /\ received = 0 /\ spoken = FALSE /\ responding = FALSE /\ committed = NoPayload
          /\ budget = 0 /\ epoch = 0 /\ failures = 0 /\ heard = <<>> /\ early = 0
      BY DEF Init
    <2> QED
      BY <2>1, <2>2, <2>3, <2>4 DEF OtherOK
  <1>4. FieldsOK
    <2>1. RunnerFits(runner, Newest)
      BY <1>1, <1>2, IdleFits
    <2> QED
      BY <1>1, <1>2, <1>3, <2>1, EmptyWaits DEF FieldsOK, RunnerFits
  <1>5. ReservedOK
    BY <1>1, EmptyWaits DEF ReservedOK
  <1>6. ChainOK
    BY <1>2 DEF ChainOK, Unfinished
  <1>7. RunnerOK
    BY <1>1, IdleFits DEF RunnerOK, Paying
  <1> QED
    BY <1>1, <1>4, <1>5, <1>6, <1>7 DEF Control

(* Every step keeps it.                                                    *)
LEMMA ControlNext == Control /\ [Next]_vars => Control'
  <1> SUFFICES ASSUME Control, [Next]_vars PROVE Control'
    OBVIOUS
  <1>1. CASE \E t \in DOMAIN tasks : TaskStep(t)
    BY <1>1, TaskEnds
  <1>2. CASE RunnerStep
    BY <1>2, CommitSilenceControl, CommitSpeechControl, CommitOnlyControl, CommitNothingControl,
       SmallSteps, AnnouncedControl, RetainControl, CreatedControl DEF RunnerStep
  <1>3. CASE Client
    <2>1. CASE \E c \in Chunks : AppendAudio(c)
      BY <2>1, AppendAudioControl
    <2>2. CASE \E c \in Chunks : RefuseAudio(c)
      BY <2>2, SmallSteps
    <2>3. CASE \E k \in Commits : AwaitTail(k)
      BY <2>3, SmallSteps
    <2>4. CASE CommitSilence
      BY <2>4, CommitSilenceControl
    <2>5. CASE CommitSpeech
      BY <2>5, CommitSpeechControl
    <2>6. CASE \E k \in Commits : CommitOnly(k) \/ CommitNothing(k)
      BY <2>6, CommitOnlyControl, CommitNothingControl
    <2>7. CASE CreateResponse
      BY <2>7, SmallSteps
    <2>8. CASE Clear
      BY <2>8, ClearControl
    <2>9. CASE InputCancel
      BY <2>9, InputCancelControl
    <2>10. CASE ResponseCancel
      BY <2>10, ResponseCancelControl
    <2> QED
      BY <1>3, <2>1, <2>2, <2>3, <2>4, <2>5, <2>6, <2>7, <2>8, <2>9, <2>10 DEF Client
  <1>4. CASE DataPlane
    BY <1>4, SmallSteps, SilenceControl DEF DataPlane
  <1>5. CASE UNCHANGED vars
    <2>1. /\ tasks' = tasks /\ pcm' = pcm /\ disordered' = disordered /\ runner' = runner
          /\ epoch' = epoch /\ OtherOK'
      BY <1>5, ControlFits DEF vars, inputVars, sessionVars, history, OtherOK
    <2> QED
      BY <2>1, RunnerStays
  <1> QED
    BY <1>1, <1>2, <1>3, <1>4, <1>5 DEF Next

(* CommitsInWireOrder: the buffer never commits a reservation out of the   *)
(* order in which the units were cut from the wire, whatever fails, is     *)
(* cancelled or cleared in between, so that the code's check for it, which *)
(* would close the session, never fires.                                   *)
THEOREM WireOrderKept == Spec => []CommitsInWireOrder
  <1>1. Control => CommitsInWireOrder
    BY DEF Control, CommitsInWireOrder
  <1> QED
    BY <1>1, ControlInit, ControlNext, PTL DEF Spec

-----------------------------------------------------------------------------
(* The order of the samples.                                               *)

(* An append that was sent or that may still be.                           *)
Alive(t) ==
    \/ tasks[t].st \in {"calling", "executed", "ok"}
    \/ tasks[t].st = "waiting" /\ (tasks[t].kind = "audio" => Active(t))

Sent(t) == Samples(tasks[t].sends)

Pending == Samples(Waiting(pcm))

Payload == Samples(committed.sends)

(* The samples of an append that are later than those of any before it.    *)
NewIn(t) == {b \in Sent(t) : tasks[t].kind = "audio" \/ b \in tasks[t].fresh}

(* What the runner is about to pay for is what is retained.                *)
PayingOK ==
    /\ ~Paying => runner.sends = <<>> /\ runner.fresh = {}
    /\ runner.at \in {"announce", "create"} => runner.sends = committed.sends
    /\ runner.at = "retain" => Payload \subseteq Samples(runner.sends)

InOrder(s) == Ascending(s) /\ Samples(s) \subseteq 1..received

(* The samples that wait are in order, behind what is retained.            *)
WaitingOK ==
    /\ InOrder(Waiting(pcm)) /\ InOrder(committed.sends) /\ InOrder(runner.sends)
    /\ Before(Payload, Pending) /\ Before(Samples(runner.sends), Pending)

(* An append that no longer holds a reservation was sent before all that   *)
(* waits.                                                                  *)
SentOK(t) ==
    /\ InOrder(tasks[t].sends)
    /\ tasks[t].kind = "silence" => tasks[t].sends = <<>>
    /\ Alive(t) /\ ~Active(t) => Before(Sent(t), Pending)

(* A payload has nothing that was sent, but for the append that sends it.  *)
PayloadOK(t) ==
    /\ IsFinal(t) /\ ~Finished(t) => committed.sends \in {tasks[t].sends, <<>>}
    /\ Alive(t) /\ (IsFinal(t) => Finished(t)) => Apart(Sent(t), Payload)
    /\ Alive(t) /\ Paying => Apart(Sent(t), Samples(runner.sends)) /\ Before(Sent(t), runner.fresh)

(* Of two appends the later one has later samples, or other ones.          *)
LaterOK(u, t) ==
    Alive(u) => Apart(Sent(u), Sent(t)) /\ Before(Sent(u), NewIn(t))

AppendOK(t) ==
    SentOK(t) /\ PayloadOK(t) /\ \A u \in Earlier(t) : LaterOK(u, t)

Order == PayingOK /\ WaitingOK /\ \A t \in DOMAIN tasks : AppendOK(t)

(* A step that sends nothing new.                                          *)
Quiet ==
    /\ received' = received
    /\ Ascending(Waiting(pcm)') /\ Pending' \subseteq Pending
    /\ committed'.sends \in {committed.sends, <<>>}
    /\ \/ runner' = runner /\ (Paying => committed'.sends = committed.sends)
       \/ runner'.sends = <<>> /\ runner'.fresh = {} /\ ~Paying'
    /\ \A t \in DOMAIN tasks :
          /\ Alive(t)' => Alive(t)
          /\ Alive(t)' /\ ~Active(t)' => ~Active(t) \/ Before(Sent(t), Pending')
          /\ IsFinal(t) /\ ~Finished(t) /\ Finished(t)' /\ Alive(t)' => committed'.sends = <<>>

(* The empty sequence is in order with everything.                         *)
LEMMA EmptyFacts ==
    \A s : s = <<>> => /\ InOrder(s) /\ Samples(s) = {}
                       /\ \A A : Before(A, Samples(s)) /\ Before(Samples(s), A)
                                 /\ Apart(A, Samples(s)) /\ Apart(Samples(s), A)
  BY SamplesEmpty DEF InOrder, Before, Apart

(* The order after a step that sends nothing new.                          *)
LEMMA QuietStep ==
    ASSUME Control, Order, Quiet, Continues
    PROVE  Order'
  <1>1. \A A, B, D : D \subseteq B => (Before(A, B) => Before(A, D)) /\ (Apart(A, B) => Apart(A, D))
    BY DEF Before, Apart
  <1>2. received' = received /\ Payload' \in {Payload, {}} /\ InOrder(committed'.sends)
    BY EmptyFacts DEF Quiet, Payload, Order, WaitingOK
  <1>3. PayingOK'
    <2>1. CASE runner' = runner /\ (Paying => committed'.sends = committed.sends)
      BY <2>1 DEF Order, PayingOK, Paying, Payload
    <2>2. CASE runner'.sends = <<>> /\ runner'.fresh = {} /\ ~Paying'
      BY <2>2 DEF PayingOK, Paying
    <2> QED
      BY <2>1, <2>2 DEF Quiet
  <1>4. WaitingOK'
    <2>1. InOrder(Waiting(pcm))'
      BY DEF Quiet, InOrder, Order, WaitingOK, Pending
    <2>2. InOrder(committed.sends)' /\ InOrder(runner.sends)'
      BY <1>2, EmptyFacts DEF Quiet, InOrder, Order, WaitingOK
    <2>3. Before(Payload, Pending)'
      BY <1>1, <1>2 DEF Quiet, Order, WaitingOK, Before
    <2>4. Before(Samples(runner.sends), Pending)'
      BY <1>1, EmptyFacts DEF Quiet, Order, WaitingOK
    <2> QED
      BY <2>1, <2>2, <2>3, <2>4 DEF WaitingOK
  <1> SUFFICES ASSUME NEW t \in DOMAIN tasks PROVE AppendOK(t)'
    BY <1>3, <1>4 DEF Order, Continues
  <1>5. /\ AppendOK(t) /\ Sent(t)' = Sent(t) /\ NewIn(t)' = NewIn(t) /\ Kept(t)
        /\ Earlier(t) \subseteq DOMAIN tasks
    BY ControlFits DEF Order, Continues, Kept, Sent, NewIn, Earlier
  <1>6. \A u \in DOMAIN tasks : (Alive(u)' => Alive(u)) /\ Sent(u)' = Sent(u)
    BY DEF Quiet, Continues, Kept, Sent
  <1>7. IsFinal(t)' = IsFinal(t) /\ (Finished(t) => Finished(t)')
    BY <1>5 DEF Continues, Kept, IsFinal, Finished
  <1>8. SentOK(t)'
    BY <1>1, <1>2, <1>5, <1>6 DEF Quiet, AppendOK, SentOK, Kept, InOrder
  <1>9. PayloadOK(t)'
    <2>1. IsFinal(t)' /\ ~Finished(t)' => committed'.sends \in {tasks'[t].sends, <<>>}
      BY <1>5, <1>7 DEF Quiet, AppendOK, PayloadOK, Kept
    <2>2. Alive(t)' /\ (IsFinal(t)' => Finished(t)') => Apart(Sent(t)', Payload')
      BY <1>2, <1>5, <1>6, <1>7, EmptyFacts DEF Quiet, AppendOK, PayloadOK, Payload, Apart
    <2>3. Alive(t)' /\ Paying'
            => Apart(Sent(t)', Samples(runner'.sends)) /\ Before(Sent(t)', runner'.fresh)
      BY <1>5, <1>6 DEF Quiet, AppendOK, PayloadOK, Paying
    <2> QED
      BY <2>1, <2>2, <2>3 DEF PayloadOK
  <1>10. ASSUME NEW u \in Earlier(t)
         PROVE LaterOK(u, t)'
    <2>1. LaterOK(u, t) /\ u \in DOMAIN tasks
      BY <1>5, <1>10 DEF AppendOK
    <2> QED
      BY <1>5, <1>6, <2>1 DEF LaterOK
  <1> QED
    BY <1>8, <1>9, <1>10 DEF AppendOK, Earlier

-----------------------------------------------------------------------------
(* The order: the tasks.                                                   *)

(* A task ends or goes on, and sends nothing that was not waiting.         *)
LEMMA EndsQuietly ==
    ASSUME Control, Order, NEW t \in Unfinished, NEW st \in States, Ended(t, st),
           received' = received, runner' = runner,
           Ascending(Waiting(pcm)'), Pending' \subseteq Pending,
           committed'.sends \in {committed.sends, <<>>},
           IsFinal(t) \/ committed'.sends = committed.sends,
           \A u \in DOMAIN tasks : Active(u)' => Active(u),
           \A u \in DOMAIN tasks : u # t /\ Alive(u)' /\ ~Active(u)' => ~Active(u),
           st # "failed" => Alive(t) /\ (~Active(t)' => ~Active(t) \/ Before(Sent(t), Pending')),
           IsFinal(t) /\ st = "ok" => committed'.sends = <<>>
    PROVE  Order'
  <1>1. Continues /\ tasks'[t].st = st /\ t \in DOMAIN tasks
    BY DEF Ended, Unfinished
  <1>2. Paying => committed'.sends = committed.sends
    BY DEF Control, RunnerOK, OnlySilence, IsFinal
  <1>3. ASSUME NEW u \in DOMAIN tasks
        PROVE  /\ Alive(u)' => Alive(u)
               /\ Alive(u)' /\ ~Active(u)' => ~Active(u) \/ Before(Sent(u), Pending')
               /\ IsFinal(u) /\ ~Finished(u) /\ Finished(u)' /\ Alive(u)' => committed'.sends = <<>>
    <2>1. CASE u = t
      BY <1>1, <2>1 DEF Alive, Finished, States
    <2>2. CASE u # t
      <3>1. tasks'[u].st = tasks[u].st /\ tasks'[u].kind = tasks[u].kind
        BY <1>1, <2>2 DEF Ended, Continues, Kept
      <3> QED
        BY <1>3, <2>2, <3>1 DEF Alive, Finished
    <2> QED
      BY <2>1, <2>2
  <1>4. Quiet
    BY <1>2, <1>3 DEF Quiet
  <1> QED
    BY <1>1, <1>4, QuietStep

(* The buffer stays.                                                       *)
LEMMA SamePcm ==
    ASSUME Order, pcm' = pcm
    PROVE  /\ Ascending(Waiting(pcm)') /\ Pending' \subseteq Pending
           /\ \A t : Active(t)' <=> Active(t)
  BY DEF Order, WaitingOK, InOrder, Pending, Active

(* A task that runs has not been given up.                                 *)
LEMMA RunsAlive ==
    ASSUME NEW t \in DOMAIN tasks, Runs(t) \/ tasks[t].st = "calling" \/ tasks[t].st = "executed"
    PROVE  Alive(t)
  BY DEF Runs, MyTurn, Alive

(* What is settled was first of what waited, or the whole payload.         *)
LEMMA SettleOrder ==
    ASSUME Control, Order, NEW t \in Unfinished, EarlierEnded(t), Alive(t), Settle(t),
           UNCHANGED <<received, spoken, sessionVars, runner, failures, heard>>
    PROVE  Order'
  <1>1. /\ t \in DOMAIN tasks /\ FieldsOK /\ ReservedOK /\ "ok" \in States
        /\ received' = received /\ runner' = runner
    BY DEF Unfinished, Control, States
  <1>2. SettlesInOrder(t) /\ Ended(t, "ok")
    BY <1>1, SettleCases, SettleFacts
  <1>3. tasks[t].sends \in Seq(Nat) /\ Waiting(pcm) \in Seq(Nat)
    BY <1>1, TaskFacts, WaitingType DEF FieldsOK
  <1>4. ASSUME tasks[t].kind = "audio", Active(t), pcm' = CommitReservation(pcm),
               committed' = committed
        PROVE  Order'
    <2>1. /\ Waiting(pcm) = Joined(tasks[t].sends, Waiting(pcm)')
          /\ \A u \in DOMAIN tasks : Active(u)' => Active(u)
          /\ \A u \in DOMAIN tasks : Active(u) /\ ~Active(u)' => u = t
          /\ pcm' \in PcmType
      BY <1>1, <1>4, HeadIsUsed DEF Remaining
    <2> DEFINE later == Waiting(pcm)'
    <2>2. later \in Seq(Nat)
      BY <2>1, WaitingType
    <2>3. Waiting(pcm) = Joined(tasks[t].sends, later)
      BY <2>1
    <2> HIDE DEF later
    <2>4. Ascending(Waiting(pcm))
      BY DEF Order, WaitingOK, InOrder
    <2>5. Ascending(later) /\ Before(Samples(tasks[t].sends), Samples(later))
      BY <1>3, <2>2, <2>3, <2>4, AscendingJoined
    <2>6. Samples(Waiting(pcm)) = Samples(tasks[t].sends) \cup Samples(later)
      BY <1>3, <2>2, <2>3, SamplesJoined
    <2>7. Pending' = Samples(later) /\ Ascending(Waiting(pcm)')
      BY <2>5 DEF Pending, later
    <2>8. Pending' \subseteq Pending /\ Before(Sent(t), Pending')
      BY <2>5, <2>6, <2>7 DEF Pending, Sent
    <2>9. ~IsFinal(t) /\ committed'.sends = committed.sends
      BY <1>4 DEF IsFinal
    <2> QED
      BY <1>1, <1>2, <2>1, <2>7, <2>8, <2>9, EndsQuietly
  <1>5. ASSUME pcm' = pcm, committed' = committed, IsFinal(t) => committed.sends = <<>>
        PROVE  Order'
    BY <1>1, <1>2, <1>5, SamePcm, EndsQuietly
  <1>6. ASSUME pcm' = pcm, committed' = NoPayload, IsFinal(t)
        PROVE  Order'
    <2>1. committed'.sends = <<>>
      BY <1>6 DEF NoPayload
    <2> QED
      BY <1>1, <1>2, <1>6, <2>1, SamePcm, EndsQuietly
  <1>7. IsFinal(t) /\ committed.sends # tasks[t].sends => committed.sends = <<>>
    BY <1>1 DEF Order, AppendOK, PayloadOK, Unfinished
  <1> QED
    BY <1>2, <1>4, <1>5, <1>6, <1>7 DEF SettlesInOrder, IsFinal

(* A rollback gives up what was reserved later, none of which was sent.    *)
LEMMA RollBackOrder ==
    ASSUME Control, Order, NEW t \in Unfinished, End(t, "failed"), pcm' = RollBack(t),
           UNCHANGED <<received, committed, runner>>
    PROVE  Order'
  <1>1. t \in DOMAIN tasks /\ FieldsOK /\ ReservedOK /\ ChainOK /\ "failed" \in States
    BY DEF Unfinished, Control, States
  <1>2. Ended(t, "failed")
    BY <1>1, EndFacts DEF FieldsOK
  <1>3. /\ Waiting(pcm)' = Waiting(pcm)
        /\ \A u \in DOMAIN tasks : Active(u)' => Active(u)
        /\ \A u \in DOMAIN tasks : Active(u) /\ ~Active(u)' => u >= t
    BY <1>1, RollBackCuts
  <1>4. Ascending(Waiting(pcm)') /\ Pending' \subseteq Pending
    BY <1>3 DEF Order, WaitingOK, InOrder, Pending
  <1>5. ASSUME NEW u \in DOMAIN tasks, u # t, Alive(u)', ~Active(u)', Active(u)
        PROVE  FALSE
    <2>1. u > t /\ tasks[u].kind = "audio" /\ t \in Earlier(u)
      <3>1. tasks[u].kind = "audio"
        BY <1>1, <1>5, ReservedIsAudio
      <3>2. u \in Nat /\ t \in Nat /\ t >= 1
        BY <1>1, TaskFacts DEF FieldsOK
      <3>3. u >= t
        BY <1>3, <1>5
      <3>4. u > t
        BY <1>5, <3>2, <3>3
      <3> QED
        BY <1>1, <3>1, <3>2, <3>4 DEF Earlier
    <2>2. tasks[u].st = "waiting"
      BY <1>1, <1>5, <2>1 DEF ChainOK, EarlierEnded, Unfinished
    <2>3. tasks'[u].st = "waiting" /\ tasks'[u].kind = "audio"
      BY <1>2, <1>5, <2>1, <2>2 DEF Ended, Continues, Kept
    <2> QED
      BY <1>5, <2>3 DEF Alive
  <1> QED
    BY <1>1, <1>2, <1>3, <1>4, <1>5, EndsQuietly

(* Every step of a task.                                                   *)
LEMMA TaskOrder ==
    ASSUME Control, Order, NEW t \in DOMAIN tasks, TaskStep(t)
    PROVE  Order'
  <1>1. t \in Unfinished /\ EarlierEnded(t) /\ tasks \in Seq(TaskType)
    BY TaskEnds DEF Control, FieldsOK
  <1>2. "ok" \in States /\ "failed" \in States /\ "calling" \in States /\ "executed" \in States
    BY DEF States
  <1>3. CASE PredecessorFailed(t) \/ AppendFails(t)
    BY <1>1, <1>3, RollBackOrder DEF PredecessorFailed, AppendFails
  <1>4. CASE Superseded(t)
    BY <1>1, <1>4, SettleOrder, RunsAlive DEF Superseded
  <1>5. CASE Acknowledged(t)
    BY <1>1, <1>5, SettleOrder, RunsAlive DEF Acknowledged
  <1>6. CASE SkipSilence(t)
    <2>1. Ended(t, "ok") /\ pcm' = pcm /\ received' = received /\ runner' = runner
          /\ committed' = committed
      BY <1>1, <1>2, <1>6, EndFacts DEF SkipSilence, inputVars
    <2>2. Alive(t) /\ ~IsFinal(t)
      BY <1>6 DEF SkipSilence, MyTurn, Alive, IsFinal
    <2> QED
      BY <1>1, <1>2, <2>1, <2>2, SamePcm, EndsQuietly
  <1>7. CASE Inactive(t)
    <2>1. Ended(t, "failed") /\ pcm' = pcm /\ received' = received /\ runner' = runner
          /\ committed' = committed
      BY <1>1, <1>2, <1>7, EndFacts DEF Inactive, inputVars
    <2> QED
      BY <1>1, <1>2, <2>1, SamePcm, EndsQuietly
  <1>8. CASE Call(t)
    <2>1. Ended(t, "calling") /\ pcm' = pcm /\ received' = received /\ runner' = runner
          /\ committed' = committed /\ Alive(t)
      BY <1>1, <1>2, <1>8, EndFacts, RunsAlive DEF Call, inputVars
    <2> QED
      BY <1>1, <1>2, <2>1, SamePcm, EndsQuietly
  <1>9. CASE Execute(t)
    <2>1. Ended(t, "executed") /\ pcm' = pcm /\ received' = received /\ runner' = runner
          /\ committed' = committed /\ Alive(t)
      BY <1>1, <1>2, <1>9, EndFacts, RunsAlive DEF Execute, inputVars
    <2> QED
      BY <1>1, <1>2, <2>1, SamePcm, EndsQuietly
  <1> QED
    BY <1>3, <1>4, <1>5, <1>6, <1>7, <1>8, <1>9 DEF TaskStep

-----------------------------------------------------------------------------
(* The order: clears, cancels and what changes nothing.                    *)

(* The tasks stay.                                                         *)
LEMMA SameContinues ==
    ASSUME Control, tasks' = tasks
    PROVE  Continues
  BY DEF Control, FieldsOK, Continues, Kept

Unpaid == runner'.sends = <<>> /\ runner'.fresh = {} /\ ~Paying'

(* A runner that is idle, cancels or awaits the tail owes nothing.         *)
LEMMA IdleUnpaid ==
    /\ runner' = Idle => Unpaid
    /\ \A at : runner' = [Idle EXCEPT !.at = at] /\ at \in {"cancel", "commit"} => Unpaid
    /\ \A at, tail, kind :
          runner' = [Idle EXCEPT !.at = at, !.tail = tail, !.kind = kind] /\ at = "commit" => Unpaid
  <1> DEFINE none == ""
  <1> HIDE DEF none
  <1>1. Idle = [at |-> "idle", tail |-> 0, kind |-> none, sends |-> <<>>, fresh |-> {}, epoch |-> 0]
    BY DEF Idle, none
  <1>2. runner' = Idle => Unpaid
    BY <1>1 DEF Unpaid, Paying
  <1>3. ASSUME NEW at, runner' = [Idle EXCEPT !.at = at], at \in {"cancel", "commit"}
        PROVE  Unpaid
    <2>1. runner' = [at |-> at, tail |-> 0, kind |-> none, sends |-> <<>>, fresh |-> {}, epoch |-> 0]
      BY <1>1, <1>3
    <2> QED
      BY <1>3, <2>1 DEF Unpaid, Paying
  <1>4. ASSUME NEW at, NEW tail, NEW kind, at = "commit",
               runner' = [Idle EXCEPT !.at = at, !.tail = tail, !.kind = kind]
        PROVE  Unpaid
    <2>1. runner' = [at |-> at, tail |-> tail, kind |-> kind, sends |-> <<>>, fresh |-> {}, epoch |-> 0]
      BY <1>1, <1>4
    <2>2. at = "commit"
      BY <1>4
    <2> QED
      BY <2>1, <2>2 DEF Unpaid, Paying
  <1> QED
    BY <1>2, <1>3, <1>4

(* A step of the runner or the data plane that leaves what waits alone.    *)
LEMMA StillOrder ==
    ASSUME Control, Order, tasks' = tasks, received' = received,
           Waiting(pcm)' = Waiting(pcm), pcm'.reserved = pcm.reserved,
           committed' = committed, runner' = runner \/ Unpaid
    PROVE  Order'
  <1>1. Continues
    BY SameContinues
  <1>2. \A t : Active(t)' <=> Active(t)
    BY DEF Active
  <1>3. \A t : (Alive(t)' <=> Alive(t)) /\ (Finished(t)' <=> Finished(t))
    BY <1>2 DEF Alive, Finished
  <1>4. Ascending(Waiting(pcm)') /\ Pending' = Pending
    BY DEF Order, WaitingOK, InOrder, Pending
  <1>5. Quiet
    BY <1>2, <1>3, <1>4 DEF Quiet, Unpaid
  <1> QED
    BY <1>1, <1>5, QuietStep

(* A step after which tasks go on as before or have failed.                *)
GivesUp == Continues /\ \A t \in DOMAIN tasks : tasks'[t].st \in {tasks[t].st, "failed"}

(* After a clear nothing waits.                                            *)
LEMMA ClearOrder ==
    ASSUME Control, Order, GivesUp, ClearInput, (runner' = runner /\ ~Paying) \/ Unpaid
    PROVE  Order'
  <1>1. /\ pcm' = EmptyBuffer /\ committed'.sends = <<>> /\ received' = received
    BY DEF ClearInput, NoPayload
  <1>2. Waiting(pcm)' = <<>> /\ \A t : ~Active(t)'
    BY <1>1, EmptyWaits DEF Active
  <1>3. Pending' = {} /\ Ascending(Waiting(pcm)')
    BY <1>2, SamplesEmpty DEF Pending
  <1>4. \A t \in DOMAIN tasks : Alive(t)' => Alive(t)
    BY <1>2 DEF GivesUp, Continues, Kept, Alive
  <1>5. \A t \in DOMAIN tasks : Before(Sent(t), Pending')
    BY <1>3 DEF Before
  <1>6. Quiet
    BY <1>1, <1>3, <1>4, <1>5 DEF Quiet, Unpaid
  <1> QED
    BY <1>6, QuietStep DEF GivesUp

(* The steps that clear.                                                   *)
LEMMA ClearStepsOrder ==
    ASSUME Control, Order, Clear \/ InputCancel \/ CommitSilence
    PROVE  Order'
  <1>1. CASE Clear
    <2>1. ~Paying /\ runner' = runner /\ tasks' = tasks /\ ClearInput
      BY <1>1 DEF Clear, Free, Paying
    <2>2. GivesUp
      BY <2>1, SameContinues DEF GivesUp
    <2> QED
      BY <2>1, <2>2, ClearOrder
  <1>2. CASE InputCancel
    <2>1. GivesUp
      BY <1>2, InputCancelControl DEF GivesUp
    <2>2. ClearInput /\ Unpaid
      BY <1>2, IdleUnpaid DEF InputCancel
    <2> QED
      BY <2>1, <2>2, ClearOrder
  <1>3. CASE CommitSilence
    <2>1. tasks' = tasks /\ ClearInput /\ Unpaid
      BY <1>3, IdleUnpaid DEF CommitSilence
    <2>2. GivesUp
      BY <2>1, SameContinues DEF GivesUp
    <2> QED
      BY <2>1, <2>2, ClearOrder
  <1> QED
    BY <1>1, <1>2, <1>3

(* A response is cancelled.                                                *)
LEMMA ResponseCancelOrder ==
    ASSUME Control, Order, ResponseCancel
    PROVE  Order'
  <1>1. /\ Continues
        /\ \A t \in DOMAIN tasks : tasks'[t].st # tasks[t].st => tasks'[t].st = "failed"
    BY ResponseCancelControl
  <1>2. pcm' = pcm /\ received' = received /\ committed' = committed /\ Unpaid
    BY IdleUnpaid DEF ResponseCancel, inputVars
  <1>3. \A t \in DOMAIN tasks : Alive(t)' => Alive(t) /\ tasks'[t].st = tasks[t].st
    BY <1>1, <1>2, SamePcm DEF Continues, Kept, Alive
  <1>4. Quiet
    BY <1>2, <1>3, SamePcm DEF Quiet, Unpaid, Finished
  <1> QED
    BY <1>1, <1>4, QuietStep

(* The steps that change neither the tasks nor the input.                  *)
LEMMA SmallOrder ==
    ASSUME Control, Order,
           \/ TailFailed \/ AdvanceEpoch
           \/ \E c \in Chunks : RefuseAudio(c)
           \/ \E k \in Commits : AwaitTail(k) \/ CommitNothing(k)
           \/ ResponseBegins \/ ResponseEnds
    PROVE  Order'
  <1>1. tasks' = tasks /\ received' = received /\ pcm' = pcm /\ committed' = committed
    BY DEF TailFailed, AdvanceEpoch, RefuseAudio, AwaitTail, CommitNothing, ResponseBegins,
           ResponseEnds, inputVars
  <1>2. runner' = runner \/ Unpaid
    BY IdleUnpaid DEF TailFailed, AdvanceEpoch, RefuseAudio, AwaitTail, CommitNothing, ResponseBegins,
           ResponseEnds
  <1> QED
    BY <1>1, <1>2, StillOrder

-----------------------------------------------------------------------------
(* The order: commits.                                                     *)

(* About sets of samples in order.                                         *)
LEMMA BeforeFacts ==
    /\ \A A, B, D : D \subseteq B => (Before(A, B) => Before(A, D)) /\ (Apart(A, B) => Apart(A, D))
    /\ \A A \in SUBSET Nat : \A B \in SUBSET Nat : Before(A, B) => Apart(A, B)
    /\ \A A, B, D : /\ Apart(A, B) /\ Apart(A, D) => Apart(A, B \cup D)
                    /\ Before(A, B) /\ Before(D, B) => Before(A \cup D, B)
  BY DEF Before, Apart

(* Samples are naturals.                                                   *)
LEMMA NaturalSamples ==
    ASSUME Control
    PROVE  /\ Pending \in SUBSET Nat /\ Payload \in SUBSET Nat
           /\ \A t \in DOMAIN tasks : Sent(t) \in SUBSET Nat
  <1>1. Waiting(pcm) \in Seq(Nat) /\ committed.sends \in Seq(Nat)
    BY ControlFits, WaitingType
  <1>2. \A t \in DOMAIN tasks : tasks[t].sends \in Seq(Nat)
    BY ControlFits, TaskFacts
  <1> QED
    BY <1>1, <1>2, SamplesType DEF Pending, Payload, Sent

(* A commit takes the rest of the buffer and suspends with what it owes.   *)
LEMMA TakeOrder ==
    ASSUME Control, Order, OnlySilence, pcm.reserved = <<>>, TakeResidual,
           tasks' = tasks, received' = received,
           runner'.sends = Merged, runner'.fresh = Samples(Residual(pcm)),
           \/ runner'.at = "announce" /\ committed'.sends = Merged
           \/ runner'.at = "retain" /\ committed' = committed
    PROVE  Order'
  <1>1. /\ pcm' \in PcmType /\ pcm'.reserved = <<>> /\ Waiting(pcm) \in Seq(Nat)
        /\ \/ Residual(pcm) = <<>> /\ Waiting(pcm)' = Waiting(pcm)
           \/ Residual(pcm) = Waiting(pcm) /\ Waiting(pcm)' = <<>>
    BY TakeFacts
  <1>2. /\ Merged = Joined(committed.sends, Residual(pcm))
        /\ committed.sends \in Seq(Nat) /\ Residual(pcm) \in Seq(Nat) /\ Merged \in Seq(Nat)
    BY ControlFits DEF Merged, Joined
  <1> DEFINE rest == Residual(pcm)
             taken == Samples(rest)
             C == committed.sends
  <1> HIDE DEF rest
  <1>3. /\ InOrder(rest) /\ Before(Payload, taken) /\ taken \subseteq Pending
        /\ \A t \in DOMAIN tasks : Alive(t) => Before(Sent(t), taken)
    <2>1. ASSUME NEW t \in DOMAIN tasks, Alive(t) PROVE Before(Sent(t), Pending)
      BY <2>1 DEF Order, AppendOK, SentOK, Active
    <2>2. InOrder(Waiting(pcm)) /\ Before(Payload, Pending)
      BY DEF Order, WaitingOK
    <2>3. CASE rest = <<>>
      BY <2>3, EmptyFacts
    <2>4. CASE rest = Waiting(pcm)
      BY <2>1, <2>2, <2>4 DEF Pending
    <2> QED
      BY <1>1, <2>3, <2>4 DEF rest
  <1>4. InOrder(C) /\ Before(Samples(C), Samples(rest))
    BY <1>3 DEF Order, WaitingOK, Payload
  <1>5. Samples(Merged) = Payload \cup taken /\ Ascending(Merged)
    <2>1. rest \in Seq(Nat) /\ C \in Seq(Nat) /\ Merged = Joined(C, rest)
      BY <1>2 DEF rest
    <2> HIDE DEF C
    <2>2. Ascending(C) /\ Ascending(rest)
      BY <1>3, <1>4 DEF InOrder
    <2>3. Samples(Merged) = Samples(C) \cup Samples(rest)
      BY <2>1, SamplesJoined
    <2>4. Ascending(Merged)
      BY <1>4, <2>1, <2>2, AscendingJoined
    <2> QED
      BY <2>3, <2>4 DEF C, Payload
  <1>6. InOrder(Merged)
    BY <1>3, <1>4, <1>5 DEF InOrder, Payload
  <1>7. Before(Samples(Merged), Pending') /\ Before(Payload, Pending') /\ InOrder(Waiting(pcm))'
    <2>1. CASE Waiting(pcm)' = <<>>
      BY <2>1, EmptyFacts DEF Pending, InOrder
    <2>2. CASE rest = <<>> /\ Waiting(pcm)' = Waiting(pcm)
      <3>1. taken = {} /\ Pending' = Pending
        BY <2>2, SamplesEmpty DEF Pending
      <3>2. Samples(Merged) = Payload
        BY <1>5, <3>1
      <3> QED
        BY <2>2, <3>1, <3>2 DEF Order, WaitingOK, InOrder
    <2> QED
      BY <1>1, <2>1, <2>2 DEF rest
  <1>8. Pending' \subseteq Pending
    BY <1>1, EmptyFacts DEF Pending
  <1>9. Payload' \in {Payload, Payload \cup taken} /\ InOrder(committed.sends)'
        /\ Paying' /\ PayingOK' /\ WaitingOK'
    <2>1. Paying'
      BY DEF Paying
    <2>2. Payload' \in {Payload, Payload \cup taken}
      BY <1>5 DEF Payload
    <2>3. InOrder(committed.sends)' /\ InOrder(runner.sends)'
      BY <1>4, <1>6 DEF InOrder
    <2>4. PayingOK'
      BY <1>5, <2>1 DEF PayingOK, Payload
    <2>5. Before(Payload', Pending') /\ Before(Samples(runner'.sends), Pending')
      BY <1>5, <1>7, <2>2
    <2> QED
      BY <1>7, <2>1, <2>2, <2>3, <2>4, <2>5 DEF WaitingOK
  <1> SUFFICES ASSUME NEW t \in DOMAIN tasks PROVE AppendOK(t)'
    BY <1>9 DEF Order
  <1>10. \A u : /\ ~Active(u) /\ ~Active(u)' /\ (Alive(u)' <=> Alive(u)) /\ Sent(u)' = Sent(u)
                /\ (Finished(u)' <=> Finished(u)) /\ (IsFinal(u)' <=> IsFinal(u))
                /\ NewIn(u)' = NewIn(u)
    BY <1>1 DEF Active, Alive, Sent, Finished, IsFinal, NewIn
  <1>11. AppendOK(t) /\ (IsFinal(t) => Finished(t))
    BY DEF Order, OnlySilence, IsFinal, Unfinished
  <1>12. SentOK(t)'
    BY <1>8, <1>10, <1>11, BeforeFacts DEF AppendOK, SentOK, InOrder
  <1>13. Alive(t) => Apart(Sent(t), Payload \cup taken) /\ Apart(Sent(t), Payload)
                     /\ Before(Sent(t), taken)
    BY <1>3, <1>11, BeforeFacts, NaturalSamples DEF AppendOK, PayloadOK
  <1>14. PayloadOK(t)'
    <2>1. Samples(runner'.sends) = Payload \cup taken /\ runner'.fresh = taken
      BY <1>5 DEF rest
    <2> QED
      BY <1>9, <1>10, <1>11, <1>13, <2>1 DEF PayloadOK
  <1>15. \A u \in Earlier(t) : LaterOK(u, t)'
    BY <1>10, <1>11 DEF AppendOK, LaterOK
  <1> QED
    BY <1>12, <1>14, <1>15 DEF AppendOK, Earlier

(* The steps that take the rest.                                           *)
LEMMA CommitOrder ==
    ASSUME Control, Order, CommitSpeech \/ \E k \in Commits : CommitOnly(k)
    PROVE  Order'
  <1>1. /\ OnlySilence /\ pcm.reserved = <<>> /\ TakeResidual
        /\ tasks' = tasks /\ received' = received
    BY TailDone DEF CommitSpeech, CommitOnly
  <1>2. CASE Merged = <<>>
    <2>1. committed' = committed /\ Unpaid
      BY <1>2, IdleUnpaid DEF CommitSpeech, CommitOnly
    <2>2. /\ pcm'.reserved = <<>>
          /\ \/ Residual(pcm) = <<>> /\ Waiting(pcm)' = Waiting(pcm)
             \/ Residual(pcm) = Waiting(pcm) /\ Waiting(pcm)' = <<>>
      BY <1>1, TakeFacts
    <2>3. Residual(pcm) = <<>>
      BY <1>2, ControlFits DEF Merged
    <2>4. Waiting(pcm)' = Waiting(pcm)
      BY <2>2, <2>3
    <2> QED
      BY <1>1, <2>1, <2>2, <2>4, StillOrder
  <1>3. CASE Merged # <<>>
    <2>1. CASE CommitSpeech
      <3>1. Suspend("announce", "final") /\ committed' = Retained(Merged, Len(Residual(pcm)))
        BY <1>3, <2>1 DEF CommitSpeech
      <3>2. runner'.sends = Merged /\ runner'.fresh = Samples(Residual(pcm)) /\ runner'.at = "announce"
        BY <3>1, SuspendFacts, RunnerKindFacts
      <3>3. committed'.sends = Merged
        BY <3>1 DEF Retained
      <3> QED
        BY <1>1, <3>2, <3>3, TakeOrder
    <2>2. ASSUME NEW k \in Commits, CommitOnly(k) PROVE Order'
      <3>1. Suspend("retain", k) /\ committed' = committed
        BY <1>3, <2>2 DEF CommitOnly
      <3>2. runner'.sends = Merged /\ runner'.fresh = Samples(Residual(pcm)) /\ runner'.at = "retain"
        BY <3>1, SuspendFacts, RunnerKindFacts
      <3> QED
        BY <1>1, <3>1, <3>2, TakeOrder
    <2> QED
      BY <2>1, <2>2
  <1> QED
    BY <1>2, <1>3

-----------------------------------------------------------------------------
(* The order: appends that start.                                          *)

LaterThan(u, kind, sends, fresh) ==
    Alive(u) => /\ Apart(Sent(u), Samples(sends))
                /\ Before(Sent(u), {b \in Samples(sends) : kind = "audio" \/ b \in fresh})

(* A step that starts an append.                                           *)
LEMMA StartOrder ==
    ASSUME Control, Order, NEW kind, NEW sends, NEW fresh, NEW e,
           Started(kind, sends, fresh, e), NEW n, n = Newest + 1,
           \A t \in DOMAIN tasks : Active(t)' <=> Active(t),
           PayingOK', WaitingOK',
           \A t \in DOMAIN tasks : SentOK(t)' /\ PayloadOK(t)',
           SentOK(n)', PayloadOK(n)',
           \A u \in DOMAIN tasks : LaterThan(u, kind, sends, fresh)
    PROVE  Order'
  <1>1. /\ DOMAIN tasks = 1..Newest /\ Newest \in Nat /\ DOMAIN tasks' = 1..n
        /\ \A t \in DOMAIN tasks : tasks'[t] = tasks[t]
        /\ tasks'[n].kind = kind /\ tasks'[n].sends = sends /\ tasks'[n].fresh = fresh
    BY DEF Started
  <1>2. \A t \in DOMAIN tasks :
           (Alive(t)' <=> Alive(t)) /\ Sent(t)' = Sent(t) /\ NewIn(t)' = NewIn(t)
    BY <1>1 DEF Alive, Sent, NewIn
  <1>3. Sent(n)' = Samples(sends)
        /\ NewIn(n)' = {b \in Samples(sends) : kind = "audio" \/ b \in fresh}
    BY <1>1 DEF Sent, NewIn
  <1>4. ASSUME NEW t \in DOMAIN tasks, NEW u \in Earlier(t) PROVE LaterOK(u, t)'
    <2>1. LaterOK(u, t) /\ u \in DOMAIN tasks
      BY <1>1, <1>4 DEF Order, AppendOK, Earlier
    <2> QED
      BY <1>2, <1>4, <2>1 DEF LaterOK
  <1>5. ASSUME NEW u \in DOMAIN tasks PROVE LaterOK(u, n)'
    BY <1>2, <1>3, <1>5 DEF LaterOK, LaterThan
  <1>6. ASSUME NEW t \in DOMAIN tasks' PROVE AppendOK(t)'
    <2>1. CASE t \in DOMAIN tasks
      BY <1>4, <2>1 DEF AppendOK, Earlier
    <2>2. CASE t = n
      <3>1. \A u \in Earlier(n) : u \in DOMAIN tasks
        BY <1>1 DEF Earlier
      <3> QED
        BY <1>5, <2>2, <3>1 DEF AppendOK, Earlier
    <2> QED
      BY <1>1, <1>6, <2>1, <2>2
  <1> QED
    BY <1>6 DEF Order

(* What the runner owes becomes, or stays, the payload; then it is paid    *)
(* by an append, or held.                                                  *)
LEMMA PayOrder ==
    ASSUME Control, Order, Paying, pcm' = pcm, received' = received,
           committed'.sends = runner.sends,
           \/ Unpaid
           \/ runner'.at = "create" /\ runner'.sends = runner.sends /\ runner'.fresh = runner.fresh,
           \/ tasks' = tasks
           \/ \E kind \in {"final", "created"}, e \in Nat :
                 Started(kind, runner.sends, runner.fresh, e) /\ Unpaid
    PROVE  Order'
  <1>1. Pending' = Pending /\ Waiting(pcm)' = Waiting(pcm) /\ \A t : Active(t)' <=> Active(t)
    BY DEF Pending, Active
  <1>2. WaitingOK'
    BY <1>1, EmptyFacts DEF Order, WaitingOK, InOrder, Unpaid, Payload
  <1>3. PayingOK'
    BY DEF PayingOK, Unpaid, Paying
  <1>4. DOMAIN tasks = 1..Newest /\ Newest \in Nat
    BY ControlFits
  <1>5. ASSUME NEW t \in DOMAIN tasks, tasks'[t] = tasks[t]
        PROVE  /\ SentOK(t)' /\ PayloadOK(t)' /\ LaterThan(t, "final", runner.sends, runner.fresh)
               /\ LaterThan(t, "created", runner.sends, runner.fresh)
    <2>1. AppendOK(t) /\ (IsFinal(t) => Finished(t))
      BY DEF Order, Control, RunnerOK, OnlySilence, IsFinal, Unfinished
    <2>2. /\ (Alive(t)' <=> Alive(t)) /\ Sent(t)' = Sent(t)
          /\ (Finished(t)' <=> Finished(t)) /\ (IsFinal(t)' <=> IsFinal(t))
      BY <1>1, <1>5 DEF Alive, Sent, Finished, IsFinal
    <2>3. SentOK(t)'
      BY <1>1, <1>5, <2>1, <2>2 DEF AppendOK, SentOK, InOrder
    <2>4. Alive(t) => Apart(Sent(t), Samples(runner.sends)) /\ Before(Sent(t), runner.fresh)
      BY <2>1 DEF AppendOK, PayloadOK
    <2>5. Payload' = Samples(runner.sends)
      BY DEF Payload
    <2>6. PayloadOK(t)'
      BY <2>1, <2>2, <2>4, <2>5 DEF PayloadOK, Unpaid
    <2> QED
      BY <2>3, <2>4, <2>6 DEF LaterThan, Before
  <1>6. CASE tasks' = tasks
    <2>1. \A t \in DOMAIN tasks : \A u \in Earlier(t) : LaterOK(u, t) /\ u \in DOMAIN tasks
      BY <1>4 DEF Order, AppendOK, Earlier
    <2>2. \A t \in DOMAIN tasks :
             (Alive(t)' <=> Alive(t)) /\ Sent(t)' = Sent(t) /\ NewIn(t)' = NewIn(t)
      BY <1>1, <1>6 DEF Alive, Sent, NewIn
    <2>3. \A t \in DOMAIN tasks : \A u \in Earlier(t) : LaterOK(u, t)'
      BY <2>1, <2>2 DEF LaterOK
    <2> QED
      BY <1>2, <1>3, <1>5, <1>6, <2>3 DEF Order, AppendOK, Earlier
  <1>7. ASSUME NEW kind \in {"final", "created"}, NEW e \in Nat,
               Started(kind, runner.sends, runner.fresh, e), Unpaid
        PROVE  Order'
    <2> DEFINE n == Newest + 1
    <2>1. PICK k : k = n
      OBVIOUS
    <2>2. /\ \A t \in DOMAIN tasks : tasks'[t] = tasks[t]
          /\ tasks'[k].kind = kind /\ tasks'[k].sends = runner.sends /\ tasks'[k].st = "waiting"
      BY <1>7, <2>1, StartFacts DEF Started, NewTask
    <2>3. InOrder(runner.sends) /\ Before(Samples(runner.sends), Pending)
      BY DEF Order, WaitingOK
    <2>4. SentOK(k)'
      BY <1>1, <2>2, <2>3 DEF SentOK, Sent, InOrder
    <2>5. PayloadOK(k)'
      BY <1>7, <2>2 DEF PayloadOK, IsFinal, Finished, Unpaid
    <2>6. \A u \in DOMAIN tasks : LaterThan(u, kind, runner.sends, runner.fresh)
      BY <1>5, <2>2
    <2> QED
      BY <1>1, <1>2, <1>3, <1>5, <1>7, <2>1, <2>2, <2>4, <2>5, <2>6, StartOrder
  <1> QED
    BY <1>6, <1>7

(* The steps that pay.                                                     *)
LEMMA PaidOrder ==
    ASSUME Control, Order, Announced \/ Created \/ Retain
    PROVE  Order'
  <1>1. runner \in RunnerType /\ epoch \in Nat /\ runner.epoch \in Nat
    BY ControlFits DEF RunnerFits
  <1>2. CASE Announced
    <2>1. /\ Paying /\ Unpaid /\ pcm' = pcm /\ received' = received
          /\ committed'.sends = runner.sends
      BY <1>2, IdleUnpaid DEF Announced, Paying, inputVars, Order, PayingOK
    <2>2. Started("final", runner.sends, runner.fresh, epoch)
      BY <1>2, AnnouncedControl
    <2> QED
      BY <1>1, <2>1, <2>2, PayOrder
  <1>3. CASE Created
    <2>1. /\ Paying /\ Unpaid /\ pcm' = pcm /\ received' = received
          /\ committed'.sends = runner.sends
      BY <1>3, IdleUnpaid DEF Created, Paying, inputVars, Order, PayingOK
    <2>2. Started("created", runner.sends, runner.fresh, runner.epoch)
      BY <1>3, CreatedControl
    <2> QED
      BY <1>1, <2>1, <2>2, PayOrder
  <1>4. CASE Retain
    <2>1. /\ Paying /\ pcm' = pcm /\ received' = received
          /\ committed' = Retained(runner.sends, Cardinality(runner.fresh))
      BY <1>4 DEF Retain, Paying
    <2>2. committed'.sends = runner.sends
      BY <2>1 DEF Retained
    <2>3. CASE runner' = Idle
      BY <1>1, <1>4, <2>1, <2>2, <2>3, IdleUnpaid, RetainControl, PayOrder
    <2>4. CASE runner' = [runner EXCEPT !.at = "create", !.epoch = epoch] /\ tasks' = tasks
      <3>1. runner'.at = "create" /\ runner'.sends = runner.sends /\ runner'.fresh = runner.fresh
        BY <1>1, <2>4, CreateFits, ControlFits
      <3> QED
        BY <2>1, <2>2, <2>4, <3>1, PayOrder
    <2> QED
      BY <1>4, <2>3, <2>4 DEF Retain
  <1> QED
    BY <1>2, <1>3, <1>4

-----------------------------------------------------------------------------
(* The order: responses, silence and audio.                                *)

(* A reservation is among what is reserved.                                *)
LEMMA RawContains ==
    ASSUME NEW rs \in Seq(ReservationType), NEW i \in DOMAIN rs
    PROVE  Samples(rs[i].raw) \subseteq Samples(Raw(rs))
  <1> DEFINE before == SubSeq(rs, 1, i - 1)
             rest == SubSeq(rs, i, Len(rs))
  <1>1. /\ before \in Seq(ReservationType) /\ rest \in Seq(ReservationType)
        /\ Len(rest) = Len(rs) + 1 - i /\ rest[1] = rs[i]
    <2>1. i \in 1..(Len(rs) + 1) /\ Len(rs) \in 0..Len(rs) /\ i <= Len(rs) + 1
          /\ 1 \in 1..(Len(rs) + 1) /\ i - 1 \in 0..Len(rs) /\ 1 <= i - 1 + 1
      OBVIOUS
    <2>2. before \in Seq(ReservationType)
      BY <2>1, CutFacts
    <2>3. /\ rest \in Seq(ReservationType) /\ Len(rest) = Len(rs) + 1 - i
          /\ \A k \in 1..(Len(rs) + 1 - i) : rest[k] = rs[i + k - 1]
      BY <2>1, CutFacts
    <2>4. 1 \in 1..(Len(rs) + 1 - i) /\ i + 1 - 1 = i
      OBVIOUS
    <2> QED
      BY <2>2, <2>3, <2>4
  <1>2. rs = Joined(before, rest)
    <2>1. i - 1 \in 0..Len(rs) /\ i - 1 + 1 = i
      OBVIOUS
    <2> QED
      BY <2>1, CutJoins
  <1> HIDE DEF before, rest
  <1>3. rest # <<>> /\ Head(rest) = rs[i]
    BY <1>1
  <1>4. /\ rs[i].raw \in Seq(Nat) /\ Tail(rest) \in Seq(ReservationType)
        /\ Raw(rest) = Joined(rs[i].raw, Raw(Tail(rest)))
    BY <1>1, <1>3, HeadJoins
  <1>5. Raw(rs) = Joined(Raw(before), Raw(rest))
    BY <1>1, <1>2, RawJoined
  <1>6. Raw(before) \in Seq(Nat) /\ Raw(rest) \in Seq(Nat) /\ Raw(Tail(rest)) \in Seq(Nat)
    BY <1>1, <1>4, RawType
  <1>7. Samples(Raw(rs)) = Samples(Raw(before)) \cup Samples(Raw(rest))
    BY <1>5, <1>6, SamplesJoined
  <1>8. Samples(Raw(rest)) = Samples(rs[i].raw) \cup Samples(Raw(Tail(rest)))
    BY <1>4, <1>6, SamplesJoined
  <1> QED
    BY <1>7, <1>8

(* A response that the client asks for takes what is retained.             *)
LEMMA CreateResponseOrder ==
    ASSUME Control, Order, CreateResponse
    PROVE  Order'
  <1>1. /\ pcm' = pcm /\ tasks' = tasks /\ committed' = committed /\ received' = received
        /\ Unfinished = {}
    BY DEF CreateResponse, inputVars
  <1>2. runner'.at = "create" /\ runner'.sends = committed.sends /\ runner'.fresh = {}
    <2>1. RunnerFits(Idle, 0) /\ Idle.sends = <<>> /\ Idle.fresh = {}
      BY IdleFits
    <2>2. runner' = [Idle EXCEPT !.at = "create", !.sends = committed.sends, !.epoch = epoch]
      BY DEF CreateResponse
    <2> DEFINE q == Idle
    <2>3. q \in RunnerType /\ q.fresh = {}
      BY <2>1 DEF RunnerFits
    <2>4. runner' = [q EXCEPT !.at = "create", !.sends = committed.sends, !.epoch = epoch]
      BY <2>2
    <2> HIDE DEF q
    <2> QED
      BY <2>3, <2>4 DEF RunnerType
  <1>3. Pending' = Pending /\ Payload' = Payload /\ Waiting(pcm)' = Waiting(pcm) /\ Paying'
    BY <1>1, <1>2 DEF Pending, Payload, Paying
  <1>4. PayingOK' /\ WaitingOK'
    BY <1>1, <1>2, <1>3 DEF Order, PayingOK, WaitingOK, InOrder, Paying, Payload
  <1>5. \A t : /\ (Alive(t)' <=> Alive(t)) /\ (Active(t)' <=> Active(t)) /\ Sent(t)' = Sent(t)
               /\ NewIn(t)' = NewIn(t)
               /\ (Finished(t)' <=> Finished(t)) /\ (IsFinal(t)' <=> IsFinal(t))
    BY <1>1 DEF Alive, Active, Sent, NewIn, Finished, IsFinal
  <1> SUFFICES ASSUME NEW t \in DOMAIN tasks PROVE AppendOK(t)'
    BY <1>1, <1>4 DEF Order
  <1>6. AppendOK(t) /\ Finished(t)
    BY <1>1 DEF Order, Unfinished
  <1>7. SentOK(t)'
    BY <1>1, <1>3, <1>5, <1>6 DEF AppendOK, SentOK, InOrder
  <1>8. PayloadOK(t)'
    <2>1. Samples(runner'.sends) = Payload
      BY <1>2 DEF Payload
    <2>2. Before(Sent(t), {})
      BY DEF Before
    <2> QED
      BY <1>2, <1>3, <1>5, <1>6, <2>1, <2>2 DEF AppendOK, PayloadOK
  <1>9. \A u \in Earlier(t) : LaterOK(u, t)'
    BY <1>5, <1>6 DEF AppendOK, LaterOK
  <1> QED
    BY <1>7, <1>8, <1>9 DEF AppendOK, Earlier

(* A silence unit sends no sample.                                         *)
LEMMA SilenceOrder ==
    ASSUME Control, Order, Silence
    PROVE  Order'
  <1>1. /\ pcm' = pcm /\ committed' = committed /\ received' = received /\ runner' = runner
    BY DEF Silence, inputVars
  <1>2. Started("silence", <<>>, {}, epoch)
    BY SilenceControl
  <1>3. /\ Pending' = Pending /\ Payload' = Payload /\ Waiting(pcm)' = Waiting(pcm)
        /\ (Paying' <=> Paying) /\ \A t : Active(t)' <=> Active(t)
    BY <1>1 DEF Pending, Payload, Paying, Active
  <1>4. PayingOK' /\ WaitingOK'
    BY <1>1, <1>3 DEF Order, PayingOK, WaitingOK, InOrder, Paying, Payload
  <1>5. PICK n : n = Newest + 1
    OBVIOUS
  <1>6. /\ DOMAIN tasks = 1..Newest /\ Newest \in Nat
        /\ \A t \in DOMAIN tasks : tasks'[t] = tasks[t]
        /\ tasks'[n].kind = "silence" /\ tasks'[n].sends = <<>>
    BY <1>2, <1>5 DEF Started
  <1>7. ASSUME NEW t \in DOMAIN tasks
        PROVE  SentOK(t)' /\ PayloadOK(t)' /\ LaterThan(t, "silence", <<>>, {})
    <2>1. /\ (Alive(t)' <=> Alive(t)) /\ Sent(t)' = Sent(t)
          /\ (Finished(t)' <=> Finished(t)) /\ (IsFinal(t)' <=> IsFinal(t))
      BY <1>3, <1>6 DEF Alive, Sent, Finished, IsFinal
    <2>2. AppendOK(t)
      BY DEF Order
    <2>3. SentOK(t)'
      BY <1>1, <1>3, <1>6, <2>1, <2>2 DEF AppendOK, SentOK, InOrder
    <2>4. PayloadOK(t)'
      BY <1>1, <1>3, <1>6, <2>1, <2>2 DEF AppendOK, PayloadOK
    <2>5. LaterThan(t, "silence", <<>>, {})
      BY SamplesEmpty DEF LaterThan, Apart, Before
    <2> QED
      BY <2>3, <2>4, <2>5
  <1>8. SentOK(n)' /\ PayloadOK(n)'
    <2>1. Sent(n)' = {} /\ InOrder(tasks[n].sends)' /\ ~IsFinal(n)'
      BY <1>6, SamplesEmpty DEF Sent, InOrder, IsFinal
    <2>2. \A A : Before({}, A) /\ Apart({}, A)
      BY DEF Before, Apart
    <2> QED
      BY <1>6, <2>1, <2>2 DEF SentOK, PayloadOK
  <1> QED
    BY <1>2, <1>3, <1>4, <1>5, <1>7, <1>8, StartOrder

(* The samples that arrive come after all that came before.                *)
LEMMA AppendAudioOrder ==
    ASSUME Control, Order, NEW c \in Chunks, AppendAudio(c)
    PROVE  Order'
  <1>1. /\ c.size \in Nat \ {0} /\ received' = received + c.size /\ received \in Nat
        /\ pcm' \in PcmType /\ Waiting(pcm) \in Seq(Nat)
        /\ \/ tasks' = tasks /\ pcm'.reserved = pcm.reserved
           \/ \E unit \in Seq(Nat) : ReservedAnew(unit)
    BY AppendFacts, ControlFits, WaitingType
  <1>2. PICK s : Arrived(s, c.size) /\ Waiting(pcm)' = Joined(Waiting(pcm), s)
    BY AppendFacts
  <1>3. /\ runner' = runner /\ committed' = committed /\ ~Paying /\ ~Paying'
    BY DEF AppendAudio, Free, Paying
  <1>4. s \in Seq(Nat) /\ Ascending(s) /\ \A b \in Samples(s) : b > received /\ b <= received'
    BY <1>1, <1>2 DEF Arrived, Ascending, Samples
  <1>5. \A q : InOrder(q) => InOrder(q)' /\ Before(Samples(q), Samples(s))
    <2>1. 1..received \subseteq 1..received' /\ \A a \in 1..received : a \in Nat /\ a <= received
      BY <1>1
    <2>2. \A b \in Samples(s) : b \in Nat
      BY <1>4, SamplesType
    <2>3. ASSUME NEW q, InOrder(q) PROVE InOrder(q)' /\ Before(Samples(q), Samples(s))
      <3>1. Ascending(q) /\ Samples(q) \subseteq 1..received
        BY <2>3 DEF InOrder
      <3>2. InOrder(q)'
        BY <2>1, <3>1 DEF InOrder
      <3>3. ASSUME NEW a \in Samples(q), NEW b \in Samples(s) PROVE a < b
        <4>1. a \in Nat /\ a <= received /\ b \in Nat /\ b > received
          BY <1>4, <2>1, <2>2, <3>1
        <4> QED
          BY <1>1, <4>1
      <3> QED
        BY <3>2, <3>3 DEF Before
    <2> QED
      BY <2>3
  <1>6. Pending' = Pending \cup Samples(s) /\ InOrder(Waiting(pcm))'
    <2> DEFINE W == Waiting(pcm)
               W2 == Waiting(pcm)'
    <2>1. InOrder(W) /\ W \in Seq(Nat) /\ W2 = Joined(W, s)
      BY <1>1, <1>2 DEF Order, WaitingOK
    <2>2. Pending = Samples(W) /\ Pending' = Samples(W2)
      BY DEF Pending
    <2>3. InOrder(Waiting(pcm))' <=> Ascending(W2) /\ Samples(W2) \subseteq 1..received'
      BY DEF InOrder
    <2> HIDE DEF W, W2
    <2>4. Samples(W2) = Samples(W) \cup Samples(s)
      BY <1>4, <2>1, SamplesJoined
    <2>5. Ascending(W2)
      BY <1>4, <1>5, <2>1, AscendingJoined DEF InOrder
    <2>6. Samples(W2) \subseteq 1..received'
      <3>1. Samples(W) \subseteq 1..received /\ 1..received \subseteq 1..received'
        BY <1>1, <2>1 DEF InOrder
      <3>2. Samples(s) \subseteq 1..received'
        <4>1. \A b \in Samples(s) : b \in Nat /\ b > received /\ b <= received'
          BY <1>4, SamplesType
        <4> QED
          BY <1>1, <4>1
      <3> QED
        BY <2>4, <3>1, <3>2
    <2> QED
      BY <2>2, <2>3, <2>4, <2>5, <2>6
  <1>7. \A A, q : Before(Samples(q), Pending) /\ InOrder(q) => Before(Samples(q), Pending')
    BY <1>5, <1>6 DEF Before
  <1>8. WaitingOK' /\ PayingOK'
    BY <1>3, <1>5, <1>6, <1>7 DEF Order, WaitingOK, PayingOK, Payload
  <1>9. DOMAIN tasks = 1..Newest /\ Newest \in Nat
    BY ControlFits
  <1>10. ASSUME NEW t \in DOMAIN tasks, tasks'[t] = tasks[t], Active(t)' <=> Active(t)
         PROVE  SentOK(t)' /\ PayloadOK(t)'
    <2>1. /\ (Alive(t)' <=> Alive(t)) /\ Sent(t)' = Sent(t)
          /\ (Finished(t)' <=> Finished(t)) /\ (IsFinal(t)' <=> IsFinal(t))
      BY <1>10 DEF Alive, Sent, Finished, IsFinal
    <2>2. AppendOK(t)
      BY DEF Order
    <2>3. InOrder(tasks[t].sends)'
      BY <1>5, <1>10, <2>2 DEF AppendOK, SentOK, InOrder
    <2>4. Alive(t)' /\ ~Active(t)' => Before(Sent(t)', Pending')
      BY <1>7, <1>10, <2>1, <2>2 DEF AppendOK, SentOK, Sent
    <2> QED
      BY <1>3, <1>10, <2>1, <2>2, <2>3, <2>4 DEF AppendOK, SentOK, PayloadOK, Payload
  <1>11. CASE tasks' = tasks /\ pcm'.reserved = pcm.reserved
    <2>1. \A t : (Active(t)' <=> Active(t)) /\ (Alive(t)' <=> Alive(t)) /\ Sent(t)' = Sent(t)
                 /\ NewIn(t)' = NewIn(t)
      BY <1>11 DEF Active, Alive, Sent, NewIn
    <2>2. \A t \in DOMAIN tasks : \A u \in Earlier(t) : LaterOK(u, t)'
      BY <2>1 DEF Order, AppendOK, LaterOK
    <2> QED
      BY <1>8, <1>10, <1>11, <2>1, <2>2 DEF Order, AppendOK, Earlier
  <1>12. ASSUME NEW unit \in Seq(Nat), ReservedAnew(unit)
         PROVE  Order'
    <2>1. PICK n : n = Newest + 1
      OBVIOUS
    <2>2. PICK b \in BOOLEAN :
             pcm'.reserved = Append(pcm.reserved, [task |-> n, raw |-> unit, speech |-> b])
      BY <1>12, <2>1 DEF ReservedAnew
    <2>3. /\ Started("audio", unit, {}, epoch)
          /\ \A t \in DOMAIN tasks : tasks'[t] = tasks[t]
          /\ tasks'[n].kind = "audio" /\ tasks'[n].sends = unit /\ tasks'[n].st = "waiting"
          /\ tasks'[n].fresh = {}
      BY <1>12, <2>1 DEF ReservedAnew, Started
    <2>4. pcm.reserved \in Seq(ReservationType) /\ Raw(pcm.reserved) \in Seq(Nat) /\ pcm'.buffer \in Seq(Nat)
      BY <1>1, ControlFits, WaitingType
    <2>5. /\ \A t \in DOMAIN tasks : Active(t)' <=> Active(t)
          /\ Active(n)'
      <3>1. /\ DOMAIN pcm'.reserved = DOMAIN pcm.reserved \cup {Len(pcm.reserved) + 1}
            /\ \A i \in DOMAIN pcm.reserved : pcm'.reserved[i] = pcm.reserved[i]
            /\ pcm'.reserved[Len(pcm.reserved) + 1].task = n
        BY <2>2, <2>4
      <3>2. \A t \in DOMAIN tasks : t # n
        BY <1>9, <2>1
      <3> QED
        BY <3>1, <3>2 DEF Active
    <2> DEFINE reserved == Raw(pcm.reserved)
               rest == pcm'.buffer
               front == Joined(reserved, unit)
               W2 == Waiting(pcm)'
    <2>6. W2 = Joined(front, rest) /\ reserved \in Seq(Nat) /\ rest \in Seq(Nat)
      BY <1>12, <2>4 DEF ReservedAnew
    <2>7. Ascending(W2) /\ Pending' = Samples(W2)
      BY <1>6 DEF InOrder, Pending
    <2>8. /\ Pending = Samples(Joined(reserved, pcm.buffer)) /\ pcm.buffer \in Seq(Nat)
      BY ControlFits, WaitingType DEF Pending, Waiting
    <2> HIDE DEF reserved, rest, W2
    <2>9. front \in Seq(Nat)
      BY <2>6, JoinedFacts
    <2>10. Samples(front) \subseteq Samples(W2) /\ Ascending(front)
      <3>1. PICK f : f = front
        OBVIOUS
      <3>2. Samples(Joined(f, rest)) = Samples(f) \cup Samples(rest) /\ Ascending(f)
        BY <2>6, <2>7, <2>9, <3>1, SamplesJoined, AscendingJoined
      <3> QED
        BY <2>6, <3>1, <3>2
    <2>11. /\ Ascending(unit) /\ Before(Samples(reserved), Samples(unit))
           /\ Samples(front) = Samples(reserved) \cup Samples(unit)
      BY <2>6, <2>10, SamplesJoined, AscendingJoined
    <2>12. Samples(unit) \subseteq Pending'
      BY <2>7, <2>10, <2>11
    <2>13. Samples(unit) \subseteq Nat
      BY SamplesType
    <2>14. SentOK(n)'
      <3>1. InOrder(unit)'
        BY <1>6, <2>11, <2>12 DEF InOrder, Pending
      <3> QED
        BY <2>3, <2>5, <3>1 DEF SentOK, InOrder
    <2>15. PayloadOK(n)'
      <3>0. Payload' = Payload
        BY <1>3 DEF Payload
      <3>1. Before(Payload, Pending')
        BY <1>8, <3>0 DEF WaitingOK
      <3>2. Apart(Samples(unit), Payload)
        BY <2>12, <2>13, <3>1, NaturalSamples DEF Before, Apart
      <3>3. Payload' = Payload /\ Sent(n)' = Samples(unit)
        BY <1>3, <2>3 DEF Payload, Sent
      <3> QED
        BY <1>3, <2>3, <3>2, <3>3 DEF PayloadOK, IsFinal
    <2>16. ASSUME NEW u \in DOMAIN tasks, Alive(u)
           PROVE  Before(Sent(u), Samples(unit))
      <3>1. CASE Active(u)
        <4>1. PICK i \in DOMAIN pcm.reserved : pcm.reserved[i].task = u
          BY <3>1 DEF Active
        <4>2. tasks[u].sends = pcm.reserved[i].raw
          BY <4>1 DEF Control, ReservedOK
        <4>3. Sent(u) \subseteq Samples(reserved)
          BY <2>4, <4>1, <4>2, RawContains DEF Sent, reserved
        <4> QED
          BY <2>11, <4>3 DEF Before
      <3>2. CASE ~Active(u)
        <4>1. SentOK(u) /\ InOrder(tasks[u].sends)
          BY DEF Order, AppendOK, SentOK
        <4>2. Before(Sent(u), Pending')
          BY <1>7, <2>16, <3>2, <4>1 DEF SentOK, Sent
        <4> QED
          BY <2>12, <4>2, BeforeFacts
      <3> QED
        BY <3>1, <3>2
    <2>17. \A u \in DOMAIN tasks : LaterThan(u, "audio", unit, {})
      <3> SUFFICES ASSUME NEW u \in DOMAIN tasks, Alive(u)
                   PROVE  /\ Apart(Sent(u), Samples(unit))
                          /\ Before(Sent(u), {x \in Samples(unit) : "audio" = "audio" \/ x \in {}})
        BY DEF LaterThan
      <3>1. Before(Sent(u), Samples(unit)) /\ Sent(u) \in SUBSET Nat
        BY <2>16, NaturalSamples
      <3> QED
        BY <2>13, <3>1 DEF Before, Apart
    <2> QED
      BY <1>8, <1>10, <2>1, <2>3, <2>5, <2>14, <2>15, <2>17, StartOrder
  <1> QED
    BY <1>1, <1>11, <1>12

-----------------------------------------------------------------------------
(* The order is inductive, and so is that of the execution.                *)

(* The order holds initially.                                              *)
LEMMA OrderInit == Init => Order
  <1> SUFFICES ASSUME Init PROVE Order
    OBVIOUS
  <1>1. tasks = <<>> /\ pcm = EmptyBuffer /\ runner = Idle /\ committed.sends = <<>>
    BY DEF Init, NoPayload
  <1>2. runner.at = "idle" /\ runner.sends = <<>> /\ runner.fresh = {} /\ ~Paying
    BY <1>1, IdleFits DEF Paying
  <1>3. Waiting(pcm) = <<>>
    BY <1>1, EmptyWaits
  <1>4. WaitingOK
    BY <1>1, <1>2, <1>3, EmptyFacts DEF WaitingOK, Pending
  <1>5. PayingOK
    BY <1>2 DEF PayingOK
  <1> QED
    BY <1>1, <1>4, <1>5 DEF Order

(* Every step keeps it.                                                    *)
LEMMA OrderNext == Control /\ Order /\ [Next]_vars => Order'
  <1> SUFFICES ASSUME Control, Order, [Next]_vars PROVE Order'
    OBVIOUS
  <1>1. CASE \E t \in DOMAIN tasks : TaskStep(t)
    BY <1>1, TaskOrder
  <1>2. CASE RunnerStep
    BY <1>2, ClearStepsOrder, CommitOrder, SmallOrder, PaidOrder DEF RunnerStep
  <1>3. CASE Client
    <2>1. CASE \E c \in Chunks : AppendAudio(c)
      BY <2>1, AppendAudioOrder
    <2>2. CASE \E c \in Chunks : RefuseAudio(c)
      BY <2>2, SmallOrder
    <2>3. CASE \E k \in Commits : AwaitTail(k) \/ CommitNothing(k)
      BY <2>3, SmallOrder
    <2>4. CASE CommitSilence \/ Clear \/ InputCancel
      BY <2>4, ClearStepsOrder
    <2>5. CASE CommitSpeech \/ \E k \in Commits : CommitOnly(k)
      BY <2>5, CommitOrder
    <2>6. CASE CreateResponse
      BY <2>6, CreateResponseOrder
    <2>7. CASE ResponseCancel
      BY <2>7, ResponseCancelOrder
    <2> QED
      BY <1>3, <2>1, <2>2, <2>3, <2>4, <2>5, <2>6, <2>7 DEF Client
  <1>4. CASE DataPlane
    BY <1>4, SmallOrder, SilenceOrder DEF DataPlane
  <1>5. CASE UNCHANGED vars
    BY <1>5, StillOrder DEF vars, inputVars
  <1> QED
    BY <1>1, <1>2, <1>3, <1>4, <1>5 DEF Next

(* The engine executes the appends in their order.                         *)
HeardOK ==
    /\ \A i \in DOMAIN heard :
          heard[i] \in DOMAIN tasks /\ tasks[heard[i]].st \in {"executed", "ok", "failed"}
    /\ \A i, j \in DOMAIN heard : i < j => heard[i] < heard[j]
    /\ \A t \in DOMAIN tasks : tasks[t].st = "executed" => \E i \in DOMAIN heard : heard[i] = t

(* A step in which the engine executes nothing.                            *)
HeardStays ==
    /\ heard' = heard
    /\ DOMAIN tasks \subseteq DOMAIN tasks'
    /\ \A t \in DOMAIN tasks' :
          \/ /\ t \in DOMAIN tasks
             /\ \/ tasks'[t].st = tasks[t].st
                \/ tasks'[t].st \in {"ok", "failed"}
                \/ tasks[t].st = "waiting" /\ tasks'[t].st = "calling"
          \/ t \notin DOMAIN tasks /\ tasks'[t].st = "waiting"

(* The order of the execution after such a step.                           *)
LEMMA HeardKept ==
    ASSUME HeardOK, HeardStays
    PROVE  HeardOK'
  <1>1. \A i \in DOMAIN heard' :
           heard'[i] \in DOMAIN tasks' /\ tasks'[heard'[i]].st \in {"executed", "ok", "failed"}
    BY DEF HeardOK, HeardStays
  <1>2. \A t \in DOMAIN tasks' : tasks'[t].st = "executed" => \E i \in DOMAIN heard' : heard'[i] = t
    BY DEF HeardOK, HeardStays
  <1>3. \A i, j \in DOMAIN heard' : i < j => heard'[i] < heard'[j]
    BY DEF HeardOK, HeardStays
  <1> QED
    BY <1>1, <1>2, <1>3 DEF HeardOK

(* The tasks stay.                                                         *)
LEMMA SameHeard ==
    ASSUME heard' = heard, tasks' = tasks
    PROVE  HeardStays
  BY DEF HeardStays

(* A task ends, or is called.                                              *)
LEMMA EndHeard ==
    ASSUME Control, NEW t \in Unfinished, NEW st \in {"ok", "failed", "calling"}, End(t, st),
           st = "calling" => tasks[t].st = "waiting", heard' = heard
    PROVE  HeardStays
  <1>1. st \in States /\ tasks \in Seq(TaskType)
    BY DEF States, Control, FieldsOK
  <1>2. Ended(t, st)
    BY <1>1, EndFacts
  <1> QED
    BY <1>2 DEF Ended, Continues, HeardStays

(* A task starts.                                                          *)
LEMMA StartHeard ==
    ASSUME NEW kind, NEW sends, NEW fresh, NEW e, Started(kind, sends, fresh, e), heard' = heard
    PROVE  HeardStays
  BY DEF Started, HeardStays

(* The engine executes an append: those before it have ended, and those    *)
(* after it wait.                                                          *)
LEMMA ExecuteHeard ==
    ASSUME Control, HeardOK, NEW t \in DOMAIN tasks, Execute(t)
    PROVE  HeardOK'
  <1>1. t \in Unfinished /\ ChainOK /\ tasks \in Seq(TaskType) /\ heard \in Seq(Nat) /\ t \in Nat
    <2>1. ChainOK /\ tasks \in Seq(TaskType) /\ OtherOK /\ t \in Nat
      BY ControlFits
    <2>2. heard \in Seq(Nat)
      BY <2>1 DEF OtherOK
    <2>3. t \in Unfinished
      BY DEF Execute, Unfinished, Finished
    <2> QED
      BY <2>1, <2>2, <2>3
  <1>2. Ended(t, "executed")
    BY <1>1, EndFacts DEF Execute, States
  <1>3. /\ heard' \in Seq(Nat) /\ Len(heard') = Len(heard) + 1 /\ heard'[Len(heard) + 1] = t
        /\ \A i \in DOMAIN heard : heard'[i] = heard[i]
        /\ DOMAIN heard' = DOMAIN heard \cup {Len(heard) + 1}
    BY <1>1 DEF Execute
  <1>4. ASSUME NEW i \in DOMAIN heard PROVE heard[i] < t
    <2>1. heard[i] \in DOMAIN tasks /\ heard[i] # t /\ tasks[heard[i]].st # "waiting"
      BY DEF HeardOK, Execute
    <2>2. heard[i] \in Nat /\ (t < heard[i] => t \in Earlier(heard[i]))
      BY <1>1, <2>1, TaskFacts DEF Control, Earlier
    <2>3. EarlierEnded(heard[i])
      BY <1>1, <2>1 DEF ChainOK
    <2>4. ~(t < heard[i])
      BY <1>1, <2>2, <2>3 DEF EarlierEnded, Unfinished
    <2> QED
      BY <1>1, <2>1, <2>2, <2>4
  <1>5. \A i \in DOMAIN heard' :
           heard'[i] \in DOMAIN tasks' /\ tasks'[heard'[i]].st \in {"executed", "ok", "failed"}
    <2> SUFFICES ASSUME NEW i \in DOMAIN heard'
                 PROVE  heard'[i] \in DOMAIN tasks' /\ tasks'[heard'[i]].st \in {"executed", "ok", "failed"}
      OBVIOUS
    <2>1. DOMAIN tasks' = DOMAIN tasks /\ tasks'[t].st = "executed" /\ t \in DOMAIN tasks
      BY <1>2 DEF Ended, Continues
    <2>2. CASE i \in DOMAIN heard
      <3>1. heard[i] \in DOMAIN tasks /\ heard[i] # t
        BY <2>2 DEF HeardOK, Execute
      <3> QED
        BY <1>2, <1>3, <2>1, <2>2, <3>1 DEF HeardOK, Ended
    <2>3. CASE i = Len(heard) + 1
      BY <1>3, <2>1, <2>3
    <2> QED
      BY <1>3, <2>2, <2>3
  <1>6. \A i, j \in DOMAIN heard' : i < j => heard'[i] < heard'[j]
    <2> SUFFICES ASSUME NEW i \in DOMAIN heard', NEW j \in DOMAIN heard', i < j
                 PROVE  heard'[i] < heard'[j]
      OBVIOUS
    <2>1. i \in DOMAIN heard
      BY <1>1, <1>3
    <2> QED
      BY <1>3, <1>4, <2>1 DEF HeardOK
  <1>7. \A u \in DOMAIN tasks' : tasks'[u].st = "executed" => \E i \in DOMAIN heard' : heard'[i] = u
    BY <1>2, <1>3 DEF HeardOK, Ended, Continues
  <1> QED
    BY <1>5, <1>6, <1>7 DEF HeardOK

(* Every step of a task.                                                   *)
LEMMA TaskHeard ==
    ASSUME Control, HeardOK, NEW t \in DOMAIN tasks, TaskStep(t)
    PROVE  HeardOK'
  <1>1. t \in Unfinished /\ EarlierEnded(t) /\ FieldsOK /\ ReservedOK
    BY TaskEnds DEF Control
  <1>2. CASE PredecessorFailed(t) \/ AppendFails(t) \/ SkipSilence(t) \/ Inactive(t)
    <2>1. heard' = heard /\ (End(t, "ok") \/ End(t, "failed"))
      BY <1>2 DEF PredecessorFailed, AppendFails, SkipSilence, Inactive
    <2> QED
      BY <1>1, <2>1, EndHeard, HeardKept
  <1>3. CASE Superseded(t) \/ Acknowledged(t)
    <2>1. heard' = heard /\ Settle(t)
      BY <1>3 DEF Superseded, Acknowledged
    <2>2. End(t, "ok")
      BY <1>1, <2>1, SettleCases
    <2> QED
      BY <1>1, <2>1, <2>2, EndHeard, HeardKept
  <1>4. CASE Call(t)
    BY <1>1, <1>4, EndHeard, HeardKept DEF Call, Runs, MyTurn
  <1> QED
    BY <1>2, <1>3, <1>4, ExecuteHeard DEF TaskStep

(* The cancels.                                                            *)
LEMMA CancelHeard ==
    ASSUME Control, InputCancel \/ ResponseCancel
    PROVE  HeardStays
  <1>1. Continues /\ \A t \in DOMAIN tasks : tasks'[t].st \in {tasks[t].st, "failed"}
    BY InputCancelControl, ResponseCancelControl
  <1>2. heard' = heard
    BY DEF InputCancel, ResponseCancel
  <1> QED
    BY <1>1, <1>2 DEF HeardStays, Continues

(* Every step keeps the order of the execution.                            *)
LEMMA HeardNext == Control /\ HeardOK /\ [Next]_vars => HeardOK'
  <1> SUFFICES ASSUME Control, HeardOK, [Next]_vars PROVE HeardOK'
    OBVIOUS
  <1>1. CASE \E t \in DOMAIN tasks : TaskStep(t)
    BY <1>1, TaskHeard
  <1>2. CASE InputCancel \/ ResponseCancel
    BY <1>2, CancelHeard, HeardKept
  <1>3. CASE Announced \/ Created \/ Silence
    <2>1. heard' = heard
      BY <1>3 DEF Announced, Created, Silence
    <2> QED
      BY <1>3, <2>1, AnnouncedControl, CreatedControl, SilenceControl, StartHeard, HeardKept
  <1>4. CASE Retain
    <2>1. heard' = heard
      BY <1>4 DEF Retain
    <2> QED
      BY <1>4, <2>1, RetainControl, StartHeard, SameHeard, HeardKept
  <1>5. CASE \E c \in Chunks : AppendAudio(c)
    <2>1. heard' = heard
      BY <1>5 DEF AppendAudio
    <2>2. tasks' = tasks \/ \E unit : Started("audio", unit, {}, epoch)
      BY <1>5, AppendFacts DEF ReservedAnew
    <2> QED
      BY <2>1, <2>2, StartHeard, SameHeard, HeardKept
  <1>6. CASE \/ TailFailed \/ AdvanceEpoch \/ CreateResponse \/ ResponseBegins \/ ResponseEnds
             \/ CommitSilence \/ CommitSpeech \/ Clear
             \/ \E k \in Commits : AwaitTail(k) \/ CommitOnly(k) \/ CommitNothing(k)
             \/ \E c \in Chunks : RefuseAudio(c)
             \/ UNCHANGED vars
    <2>1. heard' = heard /\ tasks' = tasks
      BY <1>6 DEF TailFailed, AdvanceEpoch, CreateResponse, ResponseBegins, ResponseEnds,
         CommitSilence, CommitSpeech, Clear, AwaitTail, CommitOnly, CommitNothing, RefuseAudio, vars
    <2> QED
      BY <2>1, SameHeard, HeardKept
  <1> QED
    BY <1>1, <1>2, <1>3, <1>4, <1>5, <1>6 DEF Next, RunnerStep, Client, DataPlane

InputInv == Control /\ Order /\ HeardOK

(* The inductive invariant is one.                                         *)
LEMMA InputInvariant == Spec => []InputInv
  <1>1. Init => InputInv
    <2>1. Init => HeardOK
      BY DEF Init, HeardOK
    <2> QED
      BY <2>1, ControlInit, OrderInit DEF InputInv
  <1>2. InputInv /\ [Next]_vars => InputInv'
    BY ControlNext, OrderNext, HeardNext DEF InputInv
  <1> QED
    BY <1>1, <1>2, PTL DEF Spec

(* TypeOK: among others, what waits and what is retained are samples that  *)
(* were admitted, a reservation holds what its task sends, a task waits    *)
(* for an earlier one, and the reserved bytes are within the limit.        *)
THEOREM InputTypeCorrect == Spec => []TypeOK
  <1>1. ASSUME InputInv PROVE TypeOK
    <2>1. Control /\ Order /\ FieldsOK /\ OtherOK /\ pcm \in PcmType
      BY <1>1 DEF InputInv, Control, FieldsOK
    <2>2. /\ received \in 0..MaxInput
          /\ spoken \in BOOLEAN /\ responding \in BOOLEAN
          /\ committed.bytes \in Nat /\ committed.sends \in Seq(Nat)
          /\ budget \in 0..Limit
          /\ epoch \in 0..MaxEpoch /\ failures \in 0..MaxFailures
      BY <2>1 DEF OtherOK
    <2>3. pcm.buffer \in Seq(1..received)
      <3> DEFINE reserved == Raw(pcm.reserved)
                 rest == pcm.buffer
      <3>1. reserved \in Seq(Nat) /\ rest \in Seq(Nat) /\ Waiting(pcm) = Joined(reserved, rest)
        BY <2>1, WaitingType DEF Waiting
      <3> HIDE DEF reserved, rest
      <3>2. Samples(Joined(reserved, rest)) = Samples(reserved) \cup Samples(rest)
        BY <3>1, SamplesJoined
      <3>3. Samples(rest) \subseteq 1..received
        BY <2>1, <3>1, <3>2 DEF Order, WaitingOK, InOrder
      <3>4. rest \in Seq(1..received)
        BY <3>1, <3>3, TypeFromSamples
      <3> QED
        BY <3>4 DEF rest
    <2>4. committed.sends \in Seq(1..received)
      BY <2>1, <2>2, TypeFromSamples DEF Order, WaitingOK, InOrder
    <2>5. \A i \in DOMAIN pcm.reserved : /\ pcm.reserved[i].task \in DOMAIN tasks
                                         /\ pcm.reserved[i].raw = tasks[pcm.reserved[i].task].sends
      BY <2>1 DEF Control, ReservedOK, Unfinished
    <2>6. ASSUME NEW t \in DOMAIN tasks
          PROVE  tasks[t].pred < t /\ tasks[t].st \in {"waiting", "calling", "executed", "ok", "failed"}
      <3>1. t \in Nat /\ t >= 1 /\ tasks[t].st \in States
        BY <2>1, <2>6, TaskFacts DEF FieldsOK
      <3>2. tasks[t].pred \in {0, t - 1}
        BY <2>1 DEF Control, ChainOK
      <3> QED
        BY <3>1, <3>2 DEF States
    <2>7. pcm.speech \in BOOLEAN
      BY <2>1 DEF PcmType
    <2>8. /\ runner.at \in {"idle", "commit", "announce", "retain", "create", "cancel"}
          /\ runner.tail \in 0..Newest
      BY <2>1 DEF FieldsOK, RunnerType
    <2> QED
      BY <2>2, <2>3, <2>4, <2>5, <2>6, <2>7, <2>8 DEF TypeOK
  <1> QED
    BY <1>1, InputInvariant, PTL

(* HeardInOrder: in each epoch the engine executes the samples in their    *)
(* order and once, unless the append that had them failed, for rollbacks,  *)
(* commits that are merged and responses that are cancelled.               *)
THEOREM EngineHearsInOrder == Spec => []HeardInOrder
  <1>1. ASSUME InputInv, NEW j \in DOMAIN heard
        PROVE  /\ Ascending(tasks[heard[j]].sends)
               /\ \A i \in 1..(j - 1) :
                     /\ tasks[heard[i]].epoch = tasks[heard[j]].epoch
                     /\ Counted(i)
                     => \A a \in Samples(tasks[heard[i]].sends), b \in Samples(tasks[heard[j]].sends) :
                           /\ a # b
                           /\ tasks[heard[j]].kind = "audio" \/ b \in tasks[heard[j]].fresh => a < b
    <2>1. Control /\ Order /\ HeardOK /\ heard \in Seq(Nat) /\ heard[j] \in DOMAIN tasks
      BY <1>1 DEF InputInv, Control, FieldsOK, OtherOK, HeardOK
    <2>2. AppendOK(heard[j])
      BY <2>1 DEF Order
    <2>3. Ascending(tasks[heard[j]].sends)
      BY <2>2 DEF AppendOK, SentOK, InOrder
    <2>4. ASSUME NEW i \in 1..(j - 1), Counted(i),
                 NEW a \in Samples(tasks[heard[i]].sends), NEW b \in Samples(tasks[heard[j]].sends)
          PROVE  /\ a # b
                 /\ tasks[heard[j]].kind = "audio" \/ b \in tasks[heard[j]].fresh => a < b
      <3>1. i \in DOMAIN heard /\ i < j
        BY <1>1, <2>1, <2>4
      <3>2. heard[i] < heard[j] /\ heard[i] \in DOMAIN tasks /\ Alive(heard[i])
        BY <2>1, <2>4, <3>1 DEF HeardOK, Counted, Alive
      <3>3. heard[i] \in Earlier(heard[j])
        <4>1. tasks \in Seq(TaskType)
          BY <2>1 DEF Control, FieldsOK
        <4>2. heard[i] \in Nat /\ heard[i] >= 1 /\ heard[j] \in Nat
          BY <2>1, <3>2, <4>1, TaskFacts
        <4> QED
          BY <3>2, <4>2 DEF Earlier
      <3>4. LaterOK(heard[i], heard[j])
        BY <2>2, <3>3 DEF AppendOK
      <3>5. a \in Sent(heard[i]) /\ b \in Sent(heard[j])
        BY <2>4 DEF Sent
      <3> QED
        BY <3>2, <3>4, <3>5 DEF LaterOK, Apart, Before, NewIn
    <2> QED
      BY <2>3, <2>4
  <1>2. InputInv => HeardInOrder
    BY <1>1 DEF HeardInOrder
  <1> QED
    BY <1>2, InputInvariant, PTL

-----------------------------------------------------------------------------
(* No sample is lost.                                                      *)

(* What the engine has executed.                                           *)
HeardSamples == UNION {Sent(heard[i]) : i \in DOMAIN heard}

Owed == Samples(runner.sends)

(* Where a sample that was admitted may be.                                *)
Found == Pending \cup Payload \cup Owed \cup HeardSamples \cup cleared \cup skipped

(* NothingLost in these terms.                                             *)
LEMMA FoundOrLost == NothingLost <=> 1..received \subseteq Found
  <1>1. Samples(Uncommitted) = Pending
    BY UncommittedWaits DEF Pending
  <1>2. UNION {Samples(tasks[heard[i]].sends) : i \in DOMAIN heard} = HeardSamples
    BY DEF HeardSamples, Sent
  <1>3. NothingLost <=>
           1..received \subseteq UNION {Pending, Payload, Owed, HeardSamples, cleared, skipped}
    BY <1>1, <1>2 DEF NothingLost, Payload, Owed
  <1> QED
    BY <1>3 DEF Found

SendsKept ==
    /\ DOMAIN tasks \subseteq DOMAIN tasks'
    /\ \A t \in DOMAIN tasks : tasks'[t].sends = tasks[t].sends

(* A task keeps what it sends.                                             *)
LEMMA SendsKeptFacts ==
    /\ Continues => SendsKept
    /\ tasks' = tasks => SendsKept
    /\ \A kind, sends, fresh, e : Started(kind, sends, fresh, e) => SendsKept
  BY DEF SendsKept, Continues, Kept, Started

HeardGrows == \A i \in DOMAIN heard : i \in DOMAIN heard' /\ heard'[i] = heard[i]

HistoryGrows ==
    SendsKept /\ HeardGrows /\ cleared \subseteq cleared' /\ skipped \subseteq skipped'

(* What the engine has heard it has heard.                                 *)
LEMMA HistoryKept ==
    ASSUME InputInv, HistoryGrows
    PROVE  HeardSamples \subseteq HeardSamples'
  <1> SUFFICES ASSUME NEW i \in DOMAIN heard PROVE Sent(heard[i]) \subseteq HeardSamples'
    BY DEF HeardSamples
  <1>1. heard[i] \in DOMAIN tasks
    BY DEF InputInv, HeardOK
  <1>2. i \in DOMAIN heard' /\ heard'[i] = heard[i] /\ Sent(heard[i])' = Sent(heard[i])
    BY <1>1 DEF HistoryGrows, HeardGrows, SendsKept, Sent
  <1> QED
    BY <1>2 DEF HeardSamples, Sent

(* A step that admits nothing, and keeps what it takes from the session.   *)
LEMMA FoundAgain ==
    ASSUME InputInv, NothingLost, received' = received, HistoryGrows,
           Pending \cup Payload \cup Owed \subseteq
              Pending' \cup Payload' \cup Owed' \cup HeardSamples' \cup cleared' \cup skipped'
    PROVE  NothingLost'
  <1>1. Found \subseteq Found'
    BY HistoryKept DEF Found, HistoryGrows
  <1>2. 1..received \subseteq Found
    BY FoundOrLost
  <1>3. 1..received' \subseteq Found'
    BY <1>1, <1>2
  <1>4. (NothingLost <=> 1..received \subseteq Found)'
    BY FoundOrLost, PTL
  <1> QED
    BY <1>3, <1>4

(* What is settled was executed, or is counted as skipped.                 *)
LEMMA SettleFound ==
    ASSUME InputInv, NothingLost, NEW t \in Unfinished, EarlierEnded(t), Settle(t),
           UNCHANGED <<received, spoken, sessionVars, runner, failures, heard, cleared>>,
           skipped \subseteq skipped',
           Sent(t) \subseteq skipped' \/ tasks[t].st = "executed"
    PROVE  NothingLost'
  <1>1. Control /\ FieldsOK /\ ReservedOK /\ t \in DOMAIN tasks /\ "ok" \in States
    BY DEF InputInv, Control, Unfinished, States
  <1>2. Ended(t, "ok") /\ SettlesInOrder(t)
    BY <1>1, SettleFacts, SettleCases
  <1>3. HistoryGrows
    BY <1>2, SendsKeptFacts DEF Ended, HistoryGrows, HeardGrows
  <1>4. Sent(t) \subseteq HeardSamples' \cup skipped'
    <2>1. CASE tasks[t].st = "executed"
      <3>1. PICK i \in DOMAIN heard : heard[i] = t
        BY <1>1, <2>1 DEF InputInv, HeardOK
      <3>2. Sent(t) \subseteq HeardSamples
        BY <3>1 DEF HeardSamples
      <3> QED
        BY <1>3, <3>2, HistoryKept
    <2> QED
      BY <2>1
  <1>5. Owed' = Owed
    BY DEF Owed
  <1>6. Pending \subseteq Pending' \cup Sent(t)
    <2>1. CASE pcm' = pcm
      BY <2>1 DEF Pending
    <2>2. CASE tasks[t].kind = "audio" /\ Active(t) /\ pcm' = CommitReservation(pcm)
      <3> DEFINE later == Waiting(pcm)'
      <3>1. Waiting(pcm) = Joined(tasks[t].sends, later) /\ pcm' \in PcmType
        BY <1>1, <2>2, HeadIsUsed DEF Remaining
      <3>2. later \in Seq(Nat) /\ tasks[t].sends \in Seq(Nat)
        BY <1>1, <3>1, WaitingType, TaskFacts DEF FieldsOK
      <3>3. Pending' = Samples(later)
        BY DEF Pending
      <3> HIDE DEF later
      <3> QED
        BY <3>1, <3>2, <3>3, SamplesJoined DEF Pending, Sent
    <2> QED
      BY <1>2, <2>1, <2>2 DEF SettlesInOrder
  <1>7. Payload \subseteq Payload' \cup Sent(t)
    BY <1>2 DEF SettlesInOrder, Payload, Sent
  <1> QED
    BY <1>3, <1>4, <1>5, <1>6, <1>7, FoundAgain

(* Every step of a task.                                                   *)
LEMMA TaskFound ==
    ASSUME InputInv, NothingLost, NEW t \in DOMAIN tasks, TaskStep(t)
    PROVE  NothingLost'
  <1>1. t \in Unfinished /\ EarlierEnded(t) /\ Continues /\ Control /\ FieldsOK /\ ReservedOK
    BY TaskEnds DEF InputInv, Control, Ended
  <1>2. CASE Superseded(t)
    BY <1>1, <1>2, SettleFound DEF Superseded, Sent
  <1>3. CASE Acknowledged(t)
    BY <1>1, <1>3, SettleFound DEF Acknowledged
  <1>4. ASSUME \/ PredecessorFailed(t) \/ AppendFails(t) \/ SkipSilence(t) \/ Inactive(t)
               \/ Call(t) \/ Execute(t)
        PROVE  NothingLost'
    <2>1. /\ received' = received /\ committed' = committed /\ runner' = runner
          /\ cleared' = cleared /\ skipped' = skipped
          /\ heard' = heard \/ heard' = Append(heard, t)
          /\ pcm' = pcm \/ pcm' = RollBack(t)
      BY <1>4 DEF PredecessorFailed, AppendFails, SkipSilence, Inactive, Call, Execute,
         inputVars, history
    <2>2. Pending' = Pending
      BY <1>1, <2>1, RollBackCuts DEF Pending
    <2>3. HeardGrows
      <3>1. heard \in Seq(Nat) /\ t \in Nat
        BY <1>1, TaskFacts DEF FieldsOK, OtherOK
      <3> QED
        BY <2>1, <3>1 DEF HeardGrows
    <2>4. HistoryGrows /\ Payload' = Payload /\ Owed' = Owed
      BY <1>1, <2>1, <2>3, SendsKeptFacts DEF HistoryGrows, Payload, Owed
    <2> QED
      BY <2>1, <2>2, <2>4, FoundAgain
  <1> QED
    BY <1>2, <1>3, <1>4 DEF TaskStep

-----------------------------------------------------------------------------
(* No sample is lost: the runner and the client.                           *)

(* What the runner owes.                                                   *)
LEMMA UnpaidOwes ==
    /\ InputInv /\ ~Paying => Owed = {}
    /\ InputInv /\ runner.at \in {"announce", "create"} => Owed = Payload
    /\ InputInv /\ runner.at = "retain" => Payload \subseteq Owed
  BY SamplesEmpty DEF InputInv, Order, PayingOK, Owed, Payload

(* The steps that clear.                                                   *)
LEMMA ClearFound ==
    ASSUME InputInv, NothingLost, Clear \/ InputCancel \/ CommitSilence
    PROVE  NothingLost'
  <1>1. ClearInput /\ heard' = heard
    BY DEF Clear, InputCancel, CommitSilence
  <1>2. ~Paying
    BY TailDone DEF Clear, InputCancel, CommitSilence, Free, Paying, InputInv
  <1>3. SendsKept
    BY SendsKeptFacts, InputCancelControl DEF Clear, CommitSilence, InputInv
  <1>4. /\ received' = received /\ skipped' = skipped
        /\ cleared' = cleared \cup Pending \cup Payload
    BY <1>1, UncommittedWaits DEF ClearInput, Pending, Payload
  <1>5. HistoryGrows /\ Owed = {}
    BY <1>1, <1>2, <1>3, <1>4, UnpaidOwes DEF HistoryGrows, HeardGrows
  <1> QED
    BY <1>4, <1>5, FoundAgain

(* What a commit takes is retained, or owed until it is.                   *)
LEMMA CommitFound ==
    ASSUME InputInv, NothingLost, CommitSpeech \/ \E k \in Commits : CommitOnly(k)
    PROVE  NothingLost'
  <1>1. /\ OnlySilence /\ pcm.reserved = <<>> /\ TakeResidual /\ ~Paying /\ Control
        /\ tasks' = tasks /\ received' = received /\ heard' = heard
        /\ cleared' = cleared /\ skipped' = skipped
    BY TailDone DEF CommitSpeech, CommitOnly, InputInv, Paying, history
  <1>2. /\ \/ Residual(pcm) = <<>> /\ Waiting(pcm)' = Waiting(pcm)
           \/ Residual(pcm) = Waiting(pcm) /\ Waiting(pcm)' = <<>>
        /\ Residual(pcm) \in Seq(Nat) /\ committed.sends \in Seq(Nat)
        /\ Merged = Joined(committed.sends, Residual(pcm))
    BY <1>1, TakeFacts, ControlFits DEF Merged, Joined
  <1>3. Pending \subseteq Pending' \cup Samples(Residual(pcm))
    BY <1>2 DEF Pending
  <1>4. Samples(Merged) = Payload \cup Samples(Residual(pcm))
    BY <1>2, SamplesJoined DEF Payload
  <1>5. HistoryGrows /\ Owed = {}
    BY <1>1, SendsKeptFacts, UnpaidOwes DEF HistoryGrows, HeardGrows
  <1>6. CASE Merged = <<>>
    <2>1. committed' = committed
      BY <1>6 DEF CommitSpeech, CommitOnly
    <2>2. Samples(Residual(pcm)) = {} /\ Payload' = Payload
      BY <1>4, <1>6, <2>1, SamplesEmpty DEF Payload
    <2> QED
      BY <1>1, <1>3, <1>5, <2>2, FoundAgain
  <1>7. CASE Merged # <<>>
    <2>1. runner'.sends = Merged
      <3>1. \/ Suspend("announce", "final")
            \/ \E k \in Commits : Suspend("retain", k)
        BY <1>7 DEF CommitSpeech, CommitOnly
      <3> QED
        BY <1>1, <3>1, SuspendFacts, RunnerKindFacts
    <2>2. Owed' = Samples(Merged)
      BY <2>1 DEF Owed
    <2> QED
      BY <1>1, <1>3, <1>4, <1>5, <2>2, FoundAgain
  <1> QED
    BY <1>6, <1>7

(* What was owed is retained.                                              *)
LEMMA PaidFound ==
    ASSUME InputInv, NothingLost, Announced \/ Created \/ Retain
    PROVE  NothingLost'
  <1>1. /\ received' = received /\ heard' = heard /\ cleared' = cleared /\ skipped' = skipped
        /\ pcm' = pcm
    BY DEF Announced, Created, Retain, inputVars, history
  <1>2. SendsKept
    BY AnnouncedControl, CreatedControl, RetainControl, SendsKeptFacts DEF InputInv
  <1>3. HistoryGrows /\ Pending' = Pending
    BY <1>1, <1>2 DEF HistoryGrows, HeardGrows, Pending
  <1>4. Payload \cup Owed \subseteq Payload'
    <2>1. CASE Announced \/ Created
      BY <2>1, UnpaidOwes DEF Announced, Created, inputVars, Payload
    <2>2. CASE Retain
      <3>1. committed' = Retained(runner.sends, Cardinality(runner.fresh)) /\ Payload \subseteq Owed
        BY <2>2, UnpaidOwes DEF Retain
      <3>2. Payload' = Owed
        BY <3>1 DEF Payload, Owed, Retained
      <3> QED
        BY <3>1, <3>2
    <2> QED
      BY <2>1, <2>2
  <1> QED
    BY <1>1, <1>3, <1>4, FoundAgain

(* What arrives waits.                                                     *)
LEMMA AudioFound ==
    ASSUME InputInv, NothingLost, NEW c \in Chunks, AppendAudio(c)
    PROVE  NothingLost'
  <1>1. /\ committed' = committed /\ runner' = runner /\ heard' = heard
        /\ cleared' = cleared /\ skipped' = skipped
    BY DEF AppendAudio, history
  <1>2. /\ Control /\ c.size \in Nat /\ received' = received + c.size /\ received \in Nat
        /\ pcm' \in PcmType /\ Waiting(pcm) \in Seq(Nat)
        /\ tasks' = tasks \/ \E unit : Started("audio", unit, {}, epoch)
    BY AppendFacts, ControlFits, WaitingType DEF InputInv, ReservedAnew
  <1>3. PICK s : Arrived(s, c.size) /\ Waiting(pcm)' = Joined(Waiting(pcm), s)
    BY AppendFacts DEF InputInv
  <1>4. HistoryGrows /\ Payload' = Payload /\ Owed' = Owed
    BY <1>1, <1>2, SendsKeptFacts DEF HistoryGrows, HeardGrows, Payload, Owed
  <1>5. Pending' = Pending \cup Samples(s)
    <2>1. s \in Seq(Nat)
      BY <1>3 DEF Arrived
    <2>2. Samples(Joined(Waiting(pcm), s)) = Samples(Waiting(pcm)) \cup Samples(s)
      BY <1>2, <2>1, SamplesJoined
    <2> QED
      BY <1>3, <2>2 DEF Pending
  <1>6. 1..received' \subseteq 1..received \cup Samples(s)
    <2> SUFFICES ASSUME NEW a \in 1..received', a \notin 1..received PROVE a \in Samples(s)
      OBVIOUS
    <2>1. a - received \in 1..c.size
      BY <1>2
    <2>2. s[a - received] = received + (a - received) /\ a - received \in DOMAIN s
      BY <1>3, <2>1 DEF Arrived
    <2>3. received + (a - received) = a
      BY <1>2
    <2> QED
      BY <2>2, <2>3 DEF Samples
  <1>7. Found \subseteq Found' /\ Samples(s) \subseteq Found'
    BY <1>1, <1>4, <1>5, HistoryKept DEF Found
  <1>8. (NothingLost <=> 1..received \subseteq Found)'
    BY FoundOrLost, PTL
  <1>9. 1..received \subseteq Found
    BY FoundOrLost
  <1> QED
    BY <1>6, <1>7, <1>8, <1>9

(* The steps that leave the input alone.                                   *)
LEMMA StillFound ==
    ASSUME InputInv, NothingLost,
           received' = received /\ pcm' = pcm /\ committed' = committed /\ heard' = heard,
           cleared' = cleared /\ skipped' = skipped,
           SendsKept, runner' = runner \/ ~Paying
    PROVE  NothingLost'
  <1>1. HistoryGrows /\ Pending' = Pending /\ Payload' = Payload
    BY DEF HistoryGrows, HeardGrows, Pending, Payload
  <1>2. Owed \subseteq Owed'
    BY UnpaidOwes DEF Owed
  <1> QED
    BY <1>1, <1>2, FoundAgain

(* Every step keeps it.                                                    *)
LEMMA FoundNext == InputInv /\ NothingLost /\ [Next]_vars => NothingLost'
  <1> SUFFICES ASSUME InputInv, NothingLost, [Next]_vars PROVE NothingLost'
    OBVIOUS
  <1>1. CASE \E t \in DOMAIN tasks : TaskStep(t)
    BY <1>1, TaskFound
  <1>2. CASE \E c \in Chunks : AppendAudio(c)
    BY <1>2, AudioFound
  <1>3. CASE Announced \/ Created \/ Retain
    BY <1>3, PaidFound
  <1>4. CASE CommitSpeech \/ \E k \in Commits : CommitOnly(k)
    BY <1>4, CommitFound
  <1>5. CASE Clear \/ InputCancel \/ CommitSilence
    BY <1>5, ClearFound
  <1>6. CASE \/ TailFailed \/ AdvanceEpoch \/ CreateResponse \/ ResponseBegins \/ ResponseEnds
             \/ ResponseCancel \/ Silence
             \/ \E k \in Commits : AwaitTail(k) \/ CommitNothing(k)
             \/ \E c \in Chunks : RefuseAudio(c)
             \/ UNCHANGED vars
    <2>1. /\ received' = received /\ pcm' = pcm /\ committed' = committed /\ heard' = heard
          /\ cleared' = cleared /\ skipped' = skipped
      BY <1>6 DEF TailFailed, AdvanceEpoch, CreateResponse, ResponseBegins, ResponseEnds,
         ResponseCancel, Silence, AwaitTail, CommitNothing, RefuseAudio, vars, inputVars, history
    <2>2. SendsKept
      <3>1. CASE ResponseCancel \/ Silence
        BY <3>1, ResponseCancelControl, SilenceControl, SendsKeptFacts DEF InputInv
      <3>2. CASE tasks' = tasks
        BY <3>2, SendsKeptFacts
      <3> QED
        BY <1>6, <3>1, <3>2 DEF TailFailed, AdvanceEpoch, CreateResponse, ResponseBegins,
           ResponseEnds, AwaitTail, CommitNothing, RefuseAudio, vars
    <2>3. runner' = runner \/ ~Paying
      <3>1. ASSUME NEW k \in Commits, CommitNothing(k) PROVE ~Paying
        BY <3>1, TailDone DEF CommitNothing, InputInv, Paying
      <3> QED
        BY <1>6, <3>1 DEF TailFailed, AdvanceEpoch, CreateResponse, ResponseBegins, ResponseEnds,
           ResponseCancel, Silence, AwaitTail, RefuseAudio, vars, Free, Paying
    <2> QED
      BY <2>1, <2>2, <2>3, StillFound
  <1> QED
    BY <1>1, <1>2, <1>3, <1>4, <1>5, <1>6 DEF Next, RunnerStep, Client, DataPlane

(* NothingLost: each sample that was admitted waits, is retained, was      *)
(* executed by the engine, or was cleared by the client; the only other    *)
(* end is that of an append that still waits when the epoch moves on.      *)
THEOREM InputIsNotLost == Spec => []NothingLost
  <1>1. Init => NothingLost
    BY DEF Init, NothingLost
  <1> QED
    BY <1>1, FoundNext, InputInvariant, PTL DEF Spec

-----------------------------------------------------------------------------
(* The budget.                                                             *)

(* What the runner owes is counted, although it is not retained yet.       *)
OwedSize == IF runner.at = "retain" THEN Cardinality(runner.fresh) ELSE 0

Size == Len(Waiting(pcm))

(* The length of a joined sequence.                                        *)
LEMMA JoinedSize ==
    ASSUME NEW p \in Seq(Nat), NEW q \in Seq(Nat)
    PROVE  Len(Joined(p, q)) = Len(p) + Len(q)
  BY JoinedFacts DEF IsJoined

Counts ==
    /\ Size \in Nat /\ committed.bytes \in Nat /\ OwedSize \in Nat
    /\ budget \in Nat /\ early \in Nat
    /\ Held = Size + committed.bytes + OwedSize

(* The counters are naturals.                                              *)
LEMMA HeldFacts == Control => Counts
  <1> SUFFICES ASSUME Control PROVE Counts
    OBVIOUS
  <1>1. Size \in Nat /\ Size = Len(Uncommitted)
    BY ControlFits, WaitingType, UncommittedWaits DEF Size
  <1>2. OwedSize \in Nat
    BY ControlFits, FS_CardinalityType DEF OwedSize
  <1>3. committed.bytes \in Nat /\ budget \in Nat /\ early \in Nat
    BY ControlFits DEF OtherOK
  <1> QED
    BY <1>1, <1>2, <1>3 DEF Counts, Held, OwedSize

(* n fewer samples are held and n fewer are counted, if there are as many. *)
LEMMA LessHeld ==
    ASSUME Control, Control', BudgetKept, NEW n \in Nat, Release(n), early' = early,
           Size + committed.bytes + OwedSize
              = Size' + committed'.bytes + OwedSize' + n
    PROVE  BudgetKept'
  <1>0. (Control => Counts)'
    BY HeldFacts, PTL
  <1>1. /\ Size' \in Nat /\ committed'.bytes \in Nat /\ OwedSize' \in Nat /\ budget' \in Nat
        /\ early' \in Nat /\ Held' = Size' + committed'.bytes + OwedSize'
    BY <1>0 DEF Counts
  <1>2. /\ budget <= Size + committed.bytes + OwedSize
        /\ Size + committed.bytes + OwedSize <= budget + early
        /\ Size \in Nat /\ committed.bytes \in Nat /\ OwedSize \in Nat /\ budget \in Nat
        /\ early \in Nat
    BY HeldFacts DEF BudgetKept, Counts
  <1>3. budget' = IF n < budget THEN budget - n ELSE 0
    BY DEF Release
  <1> DEFINE held == Size + committed.bytes + OwedSize
             left == Size' + committed'.bytes + OwedSize'
  <1>4. held \in Nat /\ left \in Nat /\ held = left + n /\ budget <= held /\ held <= budget + early
    BY <1>1, <1>2
  <1>5. Held' = left
    BY <1>1
  <1> HIDE DEF held, left
  <1>6. budget' <= left /\ left <= budget' + early
    BY <1>1, <1>2, <1>3, <1>4
  <1> QED
    BY <1>5, <1>6 DEF BudgetKept

(* As much is held and counted as before.                                  *)
LEMMA SameHeld ==
    ASSUME Control, Control', BudgetKept, budget' = budget, early' = early,
           Size + committed.bytes + OwedSize = Size' + committed'.bytes + OwedSize'
    PROVE  BudgetKept'
  <1>1. Held' = Held
    <2>1. (Control => Counts)'
      BY HeldFacts, PTL
    <2> QED
      BY <2>1, HeldFacts DEF Counts
  <1> QED
    BY <1>1 DEF BudgetKept

(* A reservation is released with its samples, a payload with its bytes.   *)
LEMMA SettleBudget ==
    ASSUME Control, BudgetKept, NEW t \in Unfinished, EarlierEnded(t), Settle(t),
           UNCHANGED <<received, spoken, sessionVars, runner, failures, heard>>
    PROVE  BudgetKept'
  <1>1. Control' /\ FieldsOK /\ ReservedOK /\ t \in DOMAIN tasks /\ tasks[t].sends \in Seq(Nat)
    BY SettleFacts, TaskFacts DEF Control, FieldsOK, Unfinished
  <1>2. SettlesInOrder(t)
    BY <1>1, SettleCases
  <1>3. OwedSize' = OwedSize
    BY DEF OwedSize
  <1>4. Counts /\ Len(tasks[t].sends) \in Nat
    BY <1>1, HeldFacts
  <1>5. CASE /\ tasks[t].kind = "audio" /\ Active(t) /\ pcm' = CommitReservation(pcm)
             /\ Release(Len(tasks[t].sends)) /\ UNCHANGED <<committed, early>>
    <2> DEFINE later == Waiting(pcm)'
               sent == tasks[t].sends
    <2>1. Waiting(pcm) = Joined(sent, later) /\ later \in Seq(Nat) /\ sent \in Seq(Nat)
          /\ Size' = Len(later)
      BY <1>1, <1>5, HeadIsUsed, WaitingType DEF Remaining, Size
    <2> HIDE DEF later, sent
    <2>2. Size = Size' + Len(sent) /\ Len(sent) \in Nat /\ Size' \in Nat
      BY <2>1, JoinedSize DEF Size
    <2>3. Size + committed.bytes + OwedSize = Size' + committed'.bytes + OwedSize' + Len(sent)
      <3>1. committed' = committed
        BY <1>5
      <3>2. committed.bytes \in Nat /\ OwedSize \in Nat
        BY <1>4 DEF Counts
      <3> QED
        <4>1. PICK b \in Nat, o \in Nat, n \in Nat, z \in Nat :
                  b = committed.bytes /\ o = OwedSize /\ n = Len(sent) /\ z = Size'
          BY <2>2, <3>2
        <4>2. (z + n) + b + o = z + b + o + n
          OBVIOUS
        <4> QED
          BY <1>3, <2>2, <3>1, <4>1, <4>2
    <2>4. Release(Len(sent)) /\ early' = early
      BY <1>5 DEF sent
    <2> QED
      BY <1>1, <2>2, <2>3, <2>4, LessHeld
  <1>6. CASE /\ Release(Len(tasks[t].sends)) /\ early' = early + (budget - budget')
             /\ UNCHANGED <<pcm, committed>>
    <2>1. budget' <= budget /\ budget' \in Nat
      BY <1>1, <1>4, <1>6, ReleaseFacts DEF FieldsOK, OtherOK
    <2>2. Held' = Held
      <3>1. (Control => Counts)'
        BY HeldFacts, PTL
      <3>2. Size' = Size /\ committed' = committed
        BY <1>6 DEF Size
      <3> QED
        BY <1>1, <1>3, <1>4, <3>1, <3>2 DEF Counts
    <2>3. Held \in Nat /\ budget \in Nat /\ early \in Nat
      BY <1>4 DEF Counts
    <2>4. budget <= Held /\ Held <= budget + early
      BY DEF BudgetKept
    <2>5. PICK h \in Nat, b \in Nat, e \in Nat, c \in Nat :
             h = Held /\ b = budget /\ e = early /\ c = budget'
      BY <2>1, <2>3
    <2>6. c <= h /\ h <= c + (e + (b - c))
      <3>1. c <= b
        BY <2>1, <2>5
      <3>2. b <= h /\ h <= b + e
        BY <2>4, <2>5
      <3> QED
        BY <3>1, <3>2
    <2>7. Held' = h /\ budget' = c /\ early' = e + (b - c)
      BY <1>6, <2>2, <2>5
    <2> QED
      BY <2>6, <2>7 DEF BudgetKept
  <1>7. CASE committed' = NoPayload /\ Release(committed.bytes) /\ UNCHANGED <<pcm, early>>
    <2>1. Size' = Size /\ committed'.bytes = 0
      BY <1>7 DEF Size, NoPayload
    <2>2. Size + committed.bytes + OwedSize = Size' + committed'.bytes + OwedSize' + committed.bytes
      BY <1>3, <1>4, <2>1 DEF Counts
    <2> QED
      BY <1>1, <1>4, <1>7, <2>2, LessHeld DEF Counts
  <1>8. CASE UNCHANGED <<pcm, committed, budget, early>>
    BY <1>1, <1>3, <1>8, SameHeld DEF Size
  <1> QED
    BY <1>2, <1>5, <1>6, <1>7, <1>8 DEF SettlesInOrder

(* Every step of a task.                                                   *)
LEMMA TaskBudget ==
    ASSUME Control, BudgetKept, NEW t \in DOMAIN tasks, TaskStep(t)
    PROVE  BudgetKept'
  <1>1. t \in Unfinished /\ EarlierEnded(t) /\ Control' /\ FieldsOK /\ ReservedOK
    BY TaskEnds DEF Control
  <1>2. CASE Superseded(t) \/ Acknowledged(t)
    BY <1>1, <1>2, SettleBudget DEF Superseded, Acknowledged
  <1>3. CASE \/ PredecessorFailed(t) \/ AppendFails(t) \/ SkipSilence(t) \/ Inactive(t)
             \/ Call(t) \/ Execute(t)
    <2>1. /\ committed' = committed /\ runner' = runner /\ budget' = budget /\ early' = early
          /\ pcm' = pcm \/ pcm' = RollBack(t)
      BY <1>3 DEF PredecessorFailed, AppendFails, SkipSilence, Inactive, Call, Execute,
         inputVars, history
    <2>2. Size' = Size /\ OwedSize' = OwedSize
      BY <1>1, <2>1, RollBackCuts DEF Size, OwedSize
    <2> QED
      BY <1>1, <2>1, <2>2, SameHeld
  <1> QED
    BY <1>2, <1>3 DEF TaskStep

(* The steps that clear.                                                   *)
LEMMA ClearBudget ==
    ASSUME Control, BudgetKept, Clear \/ InputCancel \/ CommitSilence, Control'
    PROVE  BudgetKept'
  <1>1. ClearInput
    BY DEF Clear, InputCancel, CommitSilence
  <1>2. OwedSize' = 0
    BY IdleUnpaid DEF Clear, InputCancel, CommitSilence, Free, OwedSize, Unpaid, Paying
  <1>3. Size' = 0 /\ committed'.bytes = 0 /\ budget' = 0 /\ early' = 0
    BY <1>1, EmptyWaits DEF ClearInput, Size, NoPayload
  <1>4. (Control => Counts)'
    BY HeldFacts, PTL
  <1>5. Held' = 0
    BY <1>2, <1>3, <1>4 DEF Counts
  <1> QED
    BY <1>3, <1>5 DEF BudgetKept

(* What a commit takes from the buffer counts as retained, or as owed.     *)
LEMMA CommitBudget ==
    ASSUME InputInv, BudgetKept, CommitSpeech \/ \E k \in Commits : CommitOnly(k), Control'
    PROVE  BudgetKept'
  <1>1. /\ Control /\ Order /\ pcm.reserved = <<>> /\ TakeResidual /\ ~Paying
        /\ budget' = budget /\ early' = early
    BY TailDone DEF CommitSpeech, CommitOnly, InputInv, Paying, history
  <1>2. /\ \/ Residual(pcm) = <<>> /\ Waiting(pcm)' = Waiting(pcm)
           \/ Residual(pcm) = Waiting(pcm) /\ Waiting(pcm)' = <<>>
        /\ Residual(pcm) \in Seq(Nat) /\ committed.sends \in Seq(Nat)
        /\ Merged = Joined(committed.sends, Residual(pcm))
    BY <1>1, TakeFacts, ControlFits DEF Merged, Joined
  <1>3. Counts /\ OwedSize = 0
    BY <1>1, HeldFacts DEF OwedSize, Paying
  <1>4. Size = Size' + Len(Residual(pcm)) /\ Len(Residual(pcm)) \in Nat /\ Size' \in Nat
    <2>1. Size \in Nat
      BY <1>3 DEF Counts
    <2> QED
      BY <1>2, <2>1 DEF Size
  <1>5. CASE Merged = <<>>
    <2>1. committed' = committed /\ Unpaid
      BY <1>5, IdleUnpaid DEF CommitSpeech, CommitOnly
    <2>2. Residual(pcm) = <<>>
      BY <1>5, ControlFits, <1>1 DEF Merged
    <2>3. OwedSize' = 0 /\ Len(Residual(pcm)) = 0
      BY <2>1, <2>2 DEF OwedSize, Unpaid, Paying
    <2> QED
      BY <1>1, <1>3, <1>4, <2>1, <2>3, SameHeld DEF Counts
  <1>6. CASE Merged # <<>> /\ CommitSpeech
    <2>1. Suspend("announce", "final") /\ committed' = Retained(Merged, Len(Residual(pcm)))
      BY <1>6 DEF CommitSpeech
    <2>2. committed'.bytes = committed.bytes + Len(Residual(pcm))
      BY <2>1 DEF Retained
    <2>3. OwedSize' = 0
      BY <1>1, <2>1, SuspendFacts, RunnerKindFacts DEF OwedSize
    <2> QED
      BY <1>1, <1>3, <1>4, <2>2, <2>3, SameHeld DEF Counts
  <1>7. ASSUME Merged # <<>>, NEW k \in Commits, CommitOnly(k) PROVE BudgetKept'
    <2>1. Suspend("retain", k) /\ committed' = committed
      BY <1>7 DEF CommitOnly
    <2>2. runner'.at = "retain" /\ runner'.fresh = Samples(Residual(pcm))
      BY <1>1, <2>1, SuspendFacts, RunnerKindFacts
    <2>3. Ascending(Residual(pcm))
      BY <1>1, <1>2, SamplesEmpty DEF Order, WaitingOK, InOrder
    <2>4. OwedSize' = Len(Residual(pcm))
      <3>1. Cardinality(Samples(Residual(pcm))) = Len(Residual(pcm))
        BY <1>2, <2>3, SamplesCounted
      <3> QED
        BY <2>2, <3>1 DEF OwedSize
    <2> QED
      BY <1>1, <1>3, <1>4, <2>1, <2>4, SameHeld DEF Counts
  <1> QED
    BY <1>5, <1>6, <1>7

(* What was owed counts as retained.                                       *)
LEMMA RetainBudget ==
    ASSUME Control, BudgetKept, Retain, Control'
    PROVE  BudgetKept'
  <1>1. /\ committed' = Retained(runner.sends, Cardinality(runner.fresh)) /\ pcm' = pcm
        /\ budget' = budget /\ early' = early /\ runner.at = "retain"
    BY DEF Retain, history
  <1>2. committed'.bytes = committed.bytes + OwedSize
    BY <1>1 DEF Retained, OwedSize
  <1>3. OwedSize' = 0
    <2>1. CASE runner' = Idle
      BY <2>1, IdleFits DEF OwedSize
    <2>2. CASE runner' = [runner EXCEPT !.at = "create", !.epoch = epoch]
      <3>1. runner'.at = "create"
        BY <2>2, CreateFits, ControlFits
      <3> QED
        BY <3>1 DEF OwedSize
    <2> QED
      BY <2>1, <2>2 DEF Retain
  <1>4. Counts /\ Size' = Size
    BY <1>1, HeldFacts DEF Size
  <1> QED
    BY <1>1, <1>2, <1>3, <1>4, SameHeld DEF Counts

(* A chunk is counted when it is admitted.                                 *)
LEMMA AudioBudget ==
    ASSUME Control, BudgetKept, NEW c \in Chunks, AppendAudio(c), Control'
    PROVE  BudgetKept'
  <1>1. /\ committed' = committed /\ runner' = runner /\ budget' = budget + c.size /\ early' = early
    BY DEF AppendAudio, history
  <1>2. /\ c.size \in Nat /\ Waiting(pcm) \in Seq(Nat)
    BY AppendFacts, ControlFits, WaitingType
  <1>3. PICK s : Arrived(s, c.size) /\ Waiting(pcm)' = Joined(Waiting(pcm), s)
    BY AppendFacts
  <1>4. Size' = Size + c.size
    <2>1. s \in Seq(Nat) /\ Len(s) = c.size
      BY <1>3 DEF Arrived
    <2> QED
      BY <1>2, <1>3, <2>1, JoinedSize DEF Size
  <1>5. Counts /\ OwedSize' = OwedSize
    BY <1>1, HeldFacts DEF OwedSize
  <1>6. (Control => Counts)'
    BY HeldFacts, PTL
  <1>7. PICK w \in Nat, b \in Nat, o \in Nat, e \in Nat, n \in Nat :
           w = Size /\ b = committed.bytes /\ o = OwedSize /\ e = early /\ n = budget
    BY <1>5 DEF Counts
  <1>8. PICK k \in Nat : k = c.size
    BY <1>2
  <1>9. Held = w + b + o
    BY <1>5, <1>7 DEF Counts
  <1>10. Held' = w + k + b + o
    <2>1. Held' = Size' + committed'.bytes + OwedSize'
      BY <1>6 DEF Counts
    <2>2. Size' = w + k /\ committed'.bytes = b /\ OwedSize' = o
      BY <1>1, <1>4, <1>5, <1>7, <1>8
    <2> QED
      BY <2>1, <2>2
  <1>11. n <= w + b + o /\ w + b + o <= n + e
    BY <1>7, <1>9 DEF BudgetKept
  <1>12. budget' = n + k /\ early' = e
    BY <1>1, <1>7, <1>8
  <1> QED
    BY <1>10, <1>11, <1>12 DEF BudgetKept

NoDebt == OwedSize = 0 /\ OwedSize' = 0

(* Every step keeps the budget.                                            *)
LEMMA BudgetNext == InputInv /\ InputInv' /\ BudgetKept /\ [Next]_vars => BudgetKept'
  <1> SUFFICES ASSUME InputInv, InputInv', BudgetKept, [Next]_vars PROVE BudgetKept'
    OBVIOUS
  <1>1. Control /\ Control'
    BY DEF InputInv
  <1>2. CASE \E t \in DOMAIN tasks : TaskStep(t)
    BY <1>1, <1>2, TaskBudget
  <1>3. CASE \E c \in Chunks : AppendAudio(c)
    BY <1>1, <1>3, AudioBudget
  <1>4. CASE Retain
    BY <1>1, <1>4, RetainBudget
  <1>5. CASE CommitSpeech \/ \E k \in Commits : CommitOnly(k)
    BY <1>1, <1>5, CommitBudget
  <1>6. CASE Clear \/ InputCancel \/ CommitSilence
    BY <1>1, <1>6, ClearBudget
  <1>7. CASE \/ TailFailed \/ AdvanceEpoch \/ CreateResponse \/ ResponseBegins \/ ResponseEnds
             \/ ResponseCancel \/ Silence \/ Announced \/ Created
             \/ \E k \in Commits : AwaitTail(k) \/ CommitNothing(k)
             \/ \E c \in Chunks : RefuseAudio(c)
             \/ UNCHANGED vars
    <2>1. pcm' = pcm /\ committed' = committed /\ budget' = budget /\ early' = early
      BY <1>7 DEF TailFailed, AdvanceEpoch, CreateResponse, ResponseBegins, ResponseEnds, Announced,
         Created, ResponseCancel, Silence, AwaitTail, CommitNothing, RefuseAudio, vars, inputVars,
         history
    <2>2. runner' = runner \/ NoDebt
      <3>1. CASE TailFailed \/ AdvanceEpoch \/ Announced \/ Created
        <4>1. runner.at # "retain" /\ runner' = Idle
          BY <3>1 DEF TailFailed, AdvanceEpoch, Announced, Created
        <4> QED
          BY <4>1, IdleFits DEF NoDebt, OwedSize
      <3>2. ASSUME NEW k \in Commits, CommitNothing(k) PROVE NoDebt
        <4>1. runner.at # "retain" /\ runner' = Idle
          BY <1>1, <3>2, TailDone DEF CommitNothing
        <4> QED
          BY <4>1, IdleFits DEF NoDebt, OwedSize
      <3>3. ASSUME ResponseCancel \/ \E k \in Commits : AwaitTail(k)
            PROVE  NoDebt
        <4>1. runner.at = "idle"
          BY <3>3 DEF ResponseCancel, AwaitTail, Free
        <4>2. Unpaid
          BY <3>3, IdleUnpaid DEF ResponseCancel, AwaitTail
        <4> QED
          BY <4>1, <4>2 DEF NoDebt, OwedSize, Unpaid, Paying
      <3>4. CASE CreateResponse
        <4>1. runner.at # "retain"
          BY <3>4 DEF CreateResponse, Free
        <4>2. runner'.at = "create"
          <5>1. runner' = [Idle EXCEPT !.at = "create", !.sends = committed.sends, !.epoch = epoch]
            BY <3>4 DEF CreateResponse
          <5> DEFINE q == Idle
          <5>2. q \in RunnerType
            BY IdleFits, ZeroBounds DEF RunnerFits
          <5>3. runner' = [q EXCEPT !.at = "create", !.sends = committed.sends, !.epoch = epoch]
            BY <5>1
          <5> HIDE DEF q
          <5> QED
            BY <5>2, <5>3 DEF RunnerType
        <4> QED
          BY <4>1, <4>2 DEF NoDebt, OwedSize
      <3> QED
        <4>1. CASE ResponseBegins \/ ResponseEnds \/ Silence
          BY <4>1 DEF ResponseBegins, ResponseEnds, Silence
        <4>4. CASE \E c \in Chunks : RefuseAudio(c)
          BY <4>4 DEF RefuseAudio
        <4>5. CASE UNCHANGED vars
          BY <4>5 DEF vars
        <4>2. CASE \E k \in Commits : AwaitTail(k) \/ CommitNothing(k)
          BY <3>2, <3>3, <4>2
        <4>3. CASE TailFailed \/ AdvanceEpoch \/ CreateResponse \/ ResponseCancel \/ Announced \/ Created
          BY <3>1, <3>3, <3>4, <4>3
        <4> QED
          BY <1>7, <4>1, <4>2, <4>3, <4>4, <4>5
    <2>3. Size' = Size /\ OwedSize' = OwedSize
      BY <2>1, <2>2 DEF Size, OwedSize, NoDebt
    <2> QED
      BY <1>1, <2>1, <2>3, SameHeld
  <1> QED
    BY <1>2, <1>3, <1>4, <1>5, <1>6, <1>7 DEF Next, RunnerStep, Client, DataPlane

(* BudgetKept: the reserved bytes of a session are what it holds, up to    *)
(* those of appends that a clear has overtaken: the limit neither leaks    *)
(* nor refuses input for good.                                             *)
THEOREM BudgetIsKept == Spec => []BudgetKept
  <1>1. Init => BudgetKept
    <2> SUFFICES ASSUME Init PROVE BudgetKept
      OBVIOUS
    <2>1. Control
      BY ControlInit
    <2>2. Size = 0 /\ committed.bytes = 0 /\ OwedSize = 0 /\ budget = 0 /\ early = 0
      BY EmptyWaits, IdleFits DEF Init, Size, NoPayload, OwedSize
    <2> QED
      BY <2>1, <2>2, HeldFacts DEF Counts, BudgetKept
  <1> QED
    BY <1>1, BudgetNext, InputInvariant, PTL DEF Spec

=============================================================================
