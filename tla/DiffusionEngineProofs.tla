------------------------- MODULE DiffusionEngineProofs -------------------------
(***************************************************************************)
(* Theorems about DiffusionEngine, for any set of requests, any sampling   *)
(* keys, any size of a batch and any number of steps.  The parts: what the *)
(* scheduler's operations on queues do, for queues of any length; that     *)
(* each keeps the scheduler well formed; an inductive invariant that says  *)
(* of every place of the busy loop what it knows of the scheduler, of the  *)
(* worker and of the streams; and one lemma for each step.                 *)
(***************************************************************************)
EXTENDS DiffusionEngine, FiniteSetTheorems, TLAPS

-----------------------------------------------------------------------------
(* Queues.                                                                 *)

(* A nonempty set of naturals has a least element: the sets 1..n are well  *)
(* founded under inclusion.  This is how a fact about every number is      *)
(* proved here: there is no least counterexample.                          *)
LEMMA Smallest ==
    ASSUME NEW T \in SUBSET Nat, T # {}
    PROVE  \E m \in T : \A n \in T : m <= n
  <1> DEFINE F == {1..n : n \in T}
  <1>1. F \subseteq FiniteSubsetsOf(Nat)
    <2>1. \A n \in Nat : IsFiniteSet(1..n)
      BY FS_Interval
    <2> QED
      BY <2>1 DEF FiniteSubsetsOf
  <1>2. F # {}
    OBVIOUS
  <1>3. PICK x \in F : \A y \in F : ~ (<<y, x>> \in StrictSubsetOrdering(Nat))
    <2> HIDE DEF F
    <2> QED
      BY <1>1, <1>2, FS_StrictSubsetOrderingWellFounded, WFMin
  <1>4. PICK m \in T : x = 1..m
    OBVIOUS
  <1>5. ASSUME NEW n \in T, n < m PROVE FALSE
    <2>1. m \in 1..m /\ m \notin 1..n /\ 1..n \subseteq 1..m
      BY <1>5
    <2>2. <<1..n, 1..m>> \in StrictSubsetOrdering(Nat)
      BY <1>5, <2>1 DEF StrictSubsetOrdering
    <2> QED
      BY <2>2, <1>3, <1>4
  <1> QED
    BY <1>5

(* No request is twice in the queue.                                       *)
Distinct(seq) == \A i, j \in DOMAIN seq : seq[i] = seq[j] => i = j

(* A queue with no request twice is as long as it has requests.            *)
LEMMA DistinctCounts ==
    ASSUME NEW S, NEW seq \in Seq(S), Distinct(seq)
    PROVE  Cardinality(Elements(seq)) = Len(seq)
  <1>1. Len(seq) \in Nat /\ seq \in [1..Len(seq) -> S]
    OBVIOUS
  <1>2. seq \in Bijection(1..Len(seq), Elements(seq))
    BY <1>1 DEF Bijection, Injection, IsInjective, Surjection, Elements, Distinct
  <1> QED
    BY <1>1, <1>2, FS_CountingElements DEF ExistsBijection

(* The requests of a queue that is made longer.                            *)
LEMMA AppendElements ==
    ASSUME NEW S, NEW seq \in Seq(S), NEW x \in S
    PROVE  /\ Append(seq, x) \in Seq(S)
           /\ Len(Append(seq, x)) = Len(seq) + 1
           /\ Elements(Append(seq, x)) = Elements(seq) \cup {x}
           /\ Distinct(seq) /\ x \notin Elements(seq) => Distinct(Append(seq, x))
  <1>1. /\ Len(seq) \in Nat /\ DOMAIN seq = 1..Len(seq)
        /\ DOMAIN Append(seq, x) = 1..(Len(seq) + 1)
        /\ \A i \in 1..Len(seq) : Append(seq, x)[i] = seq[i]
        /\ Append(seq, x)[Len(seq) + 1] = x
    OBVIOUS
  <1>2. Elements(Append(seq, x)) = Elements(seq) \cup {x}
    <2>1. \A i \in 1..(Len(seq) + 1) : i \in 1..Len(seq) \/ i = Len(seq) + 1
      BY <1>1
    <2>2. Len(seq) + 1 \in 1..(Len(seq) + 1) /\ 1..Len(seq) \subseteq 1..(Len(seq) + 1)
      BY <1>1
    <2> QED
      BY <1>1, <2>1, <2>2 DEF Elements
  <1>3. ASSUME Distinct(seq), x \notin Elements(seq) PROVE Distinct(Append(seq, x))
    <2>1. \A i \in 1..Len(seq) : seq[i] # x
      BY <1>1, <1>3 DEF Elements
    <2>2. \A i, j \in 1..(Len(seq) + 1) : Append(seq, x)[i] = Append(seq, x)[j] => i = j
      <3> SUFFICES ASSUME NEW i \in 1..(Len(seq) + 1), NEW j \in 1..(Len(seq) + 1),
                          Append(seq, x)[i] = Append(seq, x)[j]
                   PROVE  i = j
        OBVIOUS
      <3>1. i \in 1..Len(seq) \/ i = Len(seq) + 1
        BY <1>1
      <3>2. j \in 1..Len(seq) \/ j = Len(seq) + 1
        BY <1>1
      <3>3. CASE i \in 1..Len(seq) /\ j \in 1..Len(seq)
        BY <1>1, <1>3, <3>3 DEF Distinct
      <3> QED
        BY <1>1, <2>1, <3>1, <3>2, <3>3
    <2> QED
      BY <1>1, <2>2 DEF Distinct
  <1> QED
    BY <1>1, <1>2, <1>3

(* The queue without the requests that end keeps the others, once each.    *)
LEMMA WithoutFacts ==
    ASSUME NEW S, NEW seq \in Seq(S), NEW ended
    PROVE  LET w == Without(seq, ended)
           IN  /\ w \in Seq(S)
               /\ Elements(w) = Elements(seq) \ ended
               /\ Len(w) <= Len(seq)
               /\ Distinct(seq) => Distinct(w)
  <1> DEFINE n == Len(seq)
             Next1(g, i) == IF seq[i] \in ended THEN g[i - 1] ELSE Append(g[i - 1], seq[i])
             Body(g, k) == [i \in 0..k |-> IF i = 0 THEN <<>> ELSE Next1(g, i)]
             kept == CHOOSE g : g = Body(g, n)
  <1>1. n \in Nat /\ seq \in [1..n -> S]
    OBVIOUS
  <1>2. \A k \in 0..n : \E g : g = Body(g, k)
    <2> DEFINE Bad == {k \in 0..n : ~ \E g : g = Body(g, k)}
    <2> SUFFICES ASSUME Bad # {} PROVE FALSE
      OBVIOUS
    <2>1. Bad \in SUBSET Nat
      OBVIOUS
    <2>2. PICK m \in Bad : \A k \in Bad : m <= k
      <3> HIDE DEF Bad
      <3> QED
        BY <2>1, Smallest
    <2>3. m # 0
      <3> DEFINE g == [i \in 0..0 |-> <<>>]
      <3>1. g = Body(g, 0)
        OBVIOUS
      <3> QED
        BY <3>1
    <2>4. m - 1 \in 0..n /\ m - 1 \notin Bad /\ m \in Nat
      <3>1. m \in 0..n
        BY <2>2
      <3> HIDE DEF Bad
      <3> QED
        BY <1>1, <2>2, <2>3, <3>1
    <2>5. PICK g : g = Body(g, m - 1)
      BY <2>4
    <2> DEFINE h == [i \in 0..m |-> IF i = m THEN Next1(g, m) ELSE g[i]]
    <2>6. h = Body(h, m)
      <3>1. \A i \in 0..(m - 1) : g[i] = IF i = 0 THEN <<>> ELSE Next1(g, i)
        BY <2>5
      <3>2. \A i \in 0..m : i # 0 => i - 1 \in 0..m /\ i - 1 # m /\ (i # m => i \in 0..(m - 1))
        BY <2>4
      <3>3. \A i \in 0..m : i # 0 => h[i - 1] = g[i - 1]
        BY <3>2
      <3>4. \A i \in 0..m : h[i] = IF i = 0 THEN <<>> ELSE Next1(h, i)
        <4> SUFFICES ASSUME NEW i \in 0..m
                     PROVE  h[i] = IF i = 0 THEN <<>> ELSE Next1(h, i)
          OBVIOUS
        <4>1. CASE i = m
          BY <2>3, <3>3, <4>1
        <4>2. CASE i # m
          <5>1. h[i] = g[i] /\ i \in 0..(m - 1)
            BY <2>4, <4>2
          <5> QED
            BY <3>1, <3>3, <5>1
        <4> QED
          BY <4>1, <4>2
      <3> QED
        BY <3>4
    <2> QED
      BY <2>2, <2>6
  <1>3. kept = Body(kept, n)
    <2> HIDE DEF Body
    <2>1. \E g : g = Body(g, n)
      BY <1>1, <1>2
    <2> QED
      BY <2>1
  <1>4. Without(seq, ended) = kept[n]
    BY DEF Without
  <1> DEFINE Fine(k) == /\ kept[k] \in Seq(S)
                        /\ Elements(kept[k]) = {seq[j] : j \in 1..k} \ ended
                        /\ Len(kept[k]) <= k
                        /\ Distinct(seq) => Distinct(kept[k])
  <1> HIDE DEF kept
  <1>5. kept[0] = <<>>
    <2>1. Body(kept, n)[0] = <<>>
      BY <1>1
    <2> QED
      BY <1>3, <2>1
  <1>6. \A k \in 1..n : kept[k] = IF seq[k] \in ended THEN kept[k - 1]
                                                      ELSE Append(kept[k - 1], seq[k])
    <2>1. \A k \in 1..n : Body(kept, n)[k] = Next1(kept, k)
      BY <1>1
    <2> QED
      BY <1>3, <2>1
  <1>7. Fine(0)
    BY <1>5 DEF Elements, Distinct
  <1>8. ASSUME NEW k \in 1..n, Fine(k - 1) PROVE Fine(k)
    <2>1. {seq[j] : j \in 1..k} = {seq[j] : j \in 1..(k - 1)} \cup {seq[k]}
      <3>1. \A j \in 1..k : j \in 1..(k - 1) \/ j = k
        OBVIOUS
      <3>2. k \in 1..k /\ 1..(k - 1) \subseteq 1..k
        OBVIOUS
      <3> QED
        BY <3>1, <3>2
    <2>2. seq[k] \in S
      BY <1>1
    <2>3. CASE seq[k] \in ended
      <3>1. kept[k] = kept[k - 1]
        BY <1>6, <2>3
      <3>2. Len(kept[k]) <= k
        BY <1>8, <3>1
      <3> QED
        BY <1>8, <2>1, <2>3, <3>1, <3>2
    <2>4. CASE seq[k] \notin ended
      <3> DEFINE w == kept[k - 1]
      <3>1. w \in Seq(S) /\ Elements(w) = {seq[j] : j \in 1..(k - 1)} \ ended /\ Len(w) <= k - 1
        BY <1>8
      <3>2. kept[k] = Append(w, seq[k])
        BY <1>6, <2>4
      <3> HIDE DEF w
      <3>3. /\ Append(w, seq[k]) \in Seq(S)
            /\ Len(Append(w, seq[k])) = Len(w) + 1
            /\ Elements(Append(w, seq[k])) = Elements(w) \cup {seq[k]}
            /\ Distinct(w) /\ seq[k] \notin Elements(w) => Distinct(Append(w, seq[k]))
        BY <2>2, <3>1, AppendElements
      <3>4. Distinct(seq) => seq[k] \notin Elements(w)
        <4>1. ASSUME Distinct(seq), NEW j \in 1..(k - 1), seq[j] = seq[k] PROVE FALSE
          <5>1. j \in DOMAIN seq /\ k \in DOMAIN seq /\ j # k
            BY <1>1
          <5> QED
            BY <4>1, <5>1 DEF Distinct
        <4> QED
          BY <3>1, <4>1
      <3>5. Len(kept[k]) <= k
        BY <3>1, <3>2, <3>3
      <3>6. Elements(kept[k]) = {seq[j] : j \in 1..k} \ ended
        BY <2>1, <2>4, <3>1, <3>2, <3>3
      <3>7. Distinct(seq) => Distinct(kept[k])
        BY <1>8, <3>2, <3>3, <3>4 DEF w
      <3> QED
        BY <3>2, <3>3, <3>5, <3>6, <3>7
    <2> QED
      BY <2>3, <2>4
  <1> HIDE DEF Fine
  <1>9. Fine(n)
    <2> DEFINE Bad == {k \in 0..n : ~Fine(k)}
    <2> SUFFICES ASSUME Bad # {} PROVE FALSE
      BY <1>1
    <2>1. Bad \in SUBSET Nat
      OBVIOUS
    <2>2. PICK m \in Bad : \A k \in Bad : m <= k
      <3> HIDE DEF Bad
      <3> QED
        BY <2>1, Smallest
    <2>3. m # 0 /\ m \in 0..n
      BY <1>7, <2>2
    <2>4. m \in 1..n /\ m - 1 \in 0..n /\ m - 1 \notin Bad
      BY <1>1, <2>2, <2>3
    <2> QED
      BY <1>8, <2>2, <2>4
  <1> QED
    BY <1>1, <1>4, <1>9 DEF Fine, Elements

(* The requests of a queue that is cut in two.                             *)
LEMMA SplitElements ==
    ASSUME NEW S, NEW seq \in Seq(S), Distinct(seq), NEW n \in 0..Len(seq)
    PROVE  LET head == SubSeq(seq, 1, n)
               rest == SubSeq(seq, n + 1, Len(seq))
           IN  /\ head \in Seq(S) /\ rest \in Seq(S)
               /\ Len(head) = n
               /\ \A i \in 1..n : head[i] = seq[i]
               /\ Elements(head) \cup Elements(rest) = Elements(seq)
               /\ Elements(head) \cap Elements(rest) = {}
               /\ Distinct(head) /\ Distinct(rest)
  <1> DEFINE m == Len(seq)
             head == SubSeq(seq, 1, n)
             rest == SubSeq(seq, n + 1, m)
  <1>1. m \in Nat /\ n \in Nat /\ n <= m /\ DOMAIN seq = 1..m /\ \A i \in 1..m : seq[i] \in S
    OBVIOUS
  <1>2. \A i, j \in 1..m : seq[i] = seq[j] => i = j
    BY <1>1 DEF Distinct
  <1>3. /\ head \in Seq(S) /\ Len(head) = n /\ DOMAIN head = 1..n
        /\ \A i \in 1..n : head[i] = seq[i]
    BY <1>1
  <1>4. /\ rest \in Seq(S) /\ Len(rest) = m - n /\ DOMAIN rest = 1..(m - n)
        /\ \A i \in 1..(m - n) : rest[i] = seq[n + i]
    BY <1>1
  <1> HIDE DEF head, rest
  <1>5. \A i \in 1..(m - n) : n + i \in 1..m /\ n + i \notin 1..n
    BY <1>1
  <1>6. \A i \in 1..n : i \in 1..m
    BY <1>1
  <1>7. \A i \in 1..m : i \in 1..n \/ (i - n \in 1..(m - n) /\ n + (i - n) = i)
    BY <1>1
  <1>8. Elements(head) \cup Elements(rest) = Elements(seq)
    <2>1. Elements(head) \subseteq Elements(seq) /\ Elements(rest) \subseteq Elements(seq)
      BY <1>1, <1>3, <1>4, <1>5, <1>6 DEF Elements
    <2>2. ASSUME NEW i \in 1..m PROVE seq[i] \in Elements(head) \cup Elements(rest)
      <3>1. CASE i \in 1..n
        BY <1>3, <3>1 DEF Elements
      <3>2. CASE i - n \in 1..(m - n) /\ n + (i - n) = i
        <4>1. rest[i - n] = seq[i]
          BY <1>4, <3>2
        <4> QED
          BY <1>4, <3>2, <4>1 DEF Elements
      <3> QED
        BY <1>7, <3>1, <3>2
    <2> QED
      BY <1>1, <2>1, <2>2 DEF Elements
  <1>9. Elements(head) \cap Elements(rest) = {}
    <2> SUFFICES ASSUME NEW i \in 1..n, NEW k \in 1..(m - n) PROVE head[i] # rest[k]
      BY <1>3, <1>4 DEF Elements
    <2>1. i \in 1..m /\ n + k \in 1..m /\ i # n + k
      BY <1>5, <1>6
    <2> QED
      BY <1>2, <1>3, <1>4, <2>1
  <1>10. Distinct(head)
    BY <1>2, <1>3, <1>6 DEF Distinct
  <1>11. Distinct(rest)
    <2> SUFFICES ASSUME NEW i \in 1..(m - n), NEW j \in 1..(m - n), rest[i] = rest[j]
                 PROVE  i = j
      BY <1>4 DEF Distinct
    <2>1. n + i = n + j
      BY <1>2, <1>4, <1>5
    <2> QED
      BY <1>1, <2>1
  <1> QED
    BY <1>3, <1>4, <1>8, <1>9, <1>10, <1>11 DEF head, rest

(* The requests of two queues that are joined.                             *)
LEMMA JoinElements ==
    ASSUME NEW S, NEW p \in Seq(S), NEW q \in Seq(S)
    PROVE  /\ p \o q \in Seq(S)
           /\ Len(p \o q) = Len(p) + Len(q)
           /\ Elements(p \o q) = Elements(p) \cup Elements(q)
           /\ Distinct(p) /\ Distinct(q) /\ Elements(p) \cap Elements(q) = {} => Distinct(p \o q)
  <1> DEFINE m == Len(p)
             n == Len(q)
             r == p \o q
  <1>1. /\ m \in Nat /\ n \in Nat /\ DOMAIN p = 1..m /\ DOMAIN q = 1..n
        /\ r \in Seq(S) /\ Len(r) = m + n /\ DOMAIN r = 1..(m + n)
        /\ \A i \in 1..(m + n) : r[i] = IF i <= m THEN p[i] ELSE q[i - m]
    OBVIOUS
  <1> HIDE DEF m, n, r
  <1>2. \A i \in 1..m : i \in 1..(m + n) /\ r[i] = p[i]
    BY <1>1
  <1>3. \A i \in 1..n : m + i \in 1..(m + n) /\ r[m + i] = q[i]
    BY <1>1
  <1>4. \A i \in 1..(m + n) : i \in 1..m \/ (i - m \in 1..n /\ m + (i - m) = i)
    BY <1>1
  <1>5. Elements(r) = Elements(p) \cup Elements(q)
    <2>1. Elements(p) \subseteq Elements(r) /\ Elements(q) \subseteq Elements(r)
      <3>1. ASSUME NEW i \in 1..m PROVE p[i] \in Elements(r)
        BY <1>1, <1>2 DEF Elements
      <3>2. ASSUME NEW i \in 1..n PROVE q[i] \in Elements(r)
        BY <1>1, <1>3 DEF Elements
      <3> QED
        BY <1>1, <3>1, <3>2 DEF Elements
    <2>2. ASSUME NEW i \in 1..(m + n) PROVE r[i] \in Elements(p) \cup Elements(q)
      <3>1. CASE i \in 1..m
        BY <1>1, <1>2, <3>1 DEF Elements
      <3>2. CASE i - m \in 1..n /\ m + (i - m) = i
        <4>1. r[i] = q[i - m]
          BY <1>3, <3>2
        <4> QED
          BY <1>1, <3>2, <4>1 DEF Elements
      <3> QED
        BY <1>4, <3>1, <3>2
    <2> QED
      BY <1>1, <2>1, <2>2 DEF Elements
  <1>6. ASSUME Distinct(p), Distinct(q), Elements(p) \cap Elements(q) = {}
        PROVE  Distinct(r)
    <2> SUFFICES ASSUME NEW i \in 1..(m + n), NEW j \in 1..(m + n), r[i] = r[j]
                 PROVE  i = j
      BY <1>1 DEF Distinct
    <2>1. \A a \in 1..m, b \in 1..n : p[a] # q[b]
      BY <1>1, <1>6 DEF Elements
    <2>2. CASE i \in 1..m /\ j \in 1..m
      BY <1>1, <1>2, <1>6, <2>2 DEF Distinct
    <2>3. CASE i \in 1..m /\ (j - m \in 1..n /\ m + (j - m) = j)
      <3>1. r[i] = p[i] /\ r[j] = q[j - m]
        BY <1>2, <1>3, <2>3
      <3> QED
        BY <2>1, <2>3, <3>1
    <2>4. CASE j \in 1..m /\ (i - m \in 1..n /\ m + (i - m) = i)
      <3>1. r[j] = p[j] /\ r[i] = q[i - m]
        BY <1>2, <1>3, <2>4
      <3> QED
        BY <2>1, <2>4, <3>1
    <2>5. CASE (i - m \in 1..n /\ m + (i - m) = i) /\ (j - m \in 1..n /\ m + (j - m) = j)
      <3>1. r[i] = q[i - m] /\ r[j] = q[j - m]
        BY <1>3, <2>5
      <3>2. i - m = j - m
        BY <1>1, <1>6, <2>5, <3>1 DEF Distinct
      <3> QED
        BY <2>5, <3>2
    <2> QED
      BY <1>4, <2>2, <2>3, <2>4, <2>5
  <1> QED
    BY <1>1, <1>5, <1>6 DEF m, n, r

-----------------------------------------------------------------------------
(* The scheduler.                                                          *)

SchedType ==
    [status : [Requests -> {"absent", "waiting", "running"} \cup Finished],
     waiting : Seq(Requests), running : Seq(Requests),
     key : {KeyOf[r] : r \in Requests} \cup {NoKey}, finished : SUBSET Requests]

BatchType == [new : Seq(Requests), cached : Seq(Requests), finished : SUBSET Requests]

(* The queues hold each request of their status once, and what runs is of  *)
(* the key and fits.                                                       *)
WellFormed(s) ==
    /\ s \in SchedType
    /\ Elements(s.waiting) = {r \in Requests : s.status[r] = "waiting"}
    /\ Elements(s.running) = {r \in Requests : s.status[r] = "running"}
    /\ Distinct(s.waiting) /\ Distinct(s.running)
    /\ Len(s.running) <= MaxRunning
    /\ \A r \in Elements(s.running) : KeyOf[r] = s.key

Ended(s, r) == s.status[r] \notin {"waiting", "running"}

(* A scheduler with no request.                                            *)
LEMMA EmptyWellFormed ==
    WellFormed(Empty)
  <1>1. Empty \in SchedType
    BY DEF Empty, SchedType
  <1>2. /\ Empty.waiting = <<>> /\ Empty.running = <<>>
        /\ \A r \in Requests : Empty.status[r] = "absent"
    BY DEF Empty
  <1>3. Elements(<<>>) = {} /\ Distinct(<<>>) /\ Len(<<>>) = 0
    BY DEF Elements, Distinct
  <1>4. /\ {r \in Requests : Empty.status[r] = "waiting"} = {}
        /\ {r \in Requests : Empty.status[r] = "running"} = {}
    BY <1>2
  <1>5. 0 <= MaxRunning
    BY SchedulerAssumption
  <1> QED
    BY <1>1, <1>2, <1>3, <1>4, <1>5 DEF WellFormed

(* add_request.                                                            *)
LEMMA AddWellFormed ==
    ASSUME NEW s, WellFormed(s), NEW r \in Requests, s.status[r] = "absent"
    PROVE  LET t == AddRequest(s, r)
           IN  /\ WellFormed(t)
               /\ t.status = [s.status EXCEPT ![r] = "waiting"]
               /\ t.running = s.running /\ t.finished = s.finished
               /\ t.waiting # <<>>
  <1> DEFINE t == AddRequest(s, r)
  <1>1. s \in SchedType /\ s.waiting \in Seq(Requests) /\ s.running \in Seq(Requests)
    BY DEF WellFormed, SchedType
  <1>2. /\ Append(s.waiting, r) \in Seq(Requests)
        /\ Len(Append(s.waiting, r)) = Len(s.waiting) + 1
        /\ Elements(Append(s.waiting, r)) = Elements(s.waiting) \cup {r}
        /\ Distinct(s.waiting) /\ r \notin Elements(s.waiting) => Distinct(Append(s.waiting, r))
    BY <1>1, AppendElements
  <1>3. /\ t.status = [s.status EXCEPT ![r] = "waiting"]
        /\ t.waiting = Append(s.waiting, r)
        /\ t.running = s.running /\ t.finished = s.finished /\ t.key = s.key
    BY <1>1 DEF AddRequest, SchedType
  <1>4. t \in SchedType
    BY <1>1, <1>2 DEF AddRequest, SchedType
  <1>5. t.waiting # <<>>
    <2>1. Append(s.waiting, r) # <<>>
      BY <1>1
    <2> QED
      BY <1>3, <2>1
  <1>6. \A q \in Requests : t.status[q] = IF q = r THEN "waiting" ELSE s.status[q]
    BY <1>1, <1>3 DEF SchedType
  <1> HIDE DEF t
  <1>7. WellFormed(t)
    <2>1. Elements(t.waiting) = {q \in Requests : t.status[q] = "waiting"}
      BY <1>2, <1>3, <1>6 DEF WellFormed
    <2>2. Elements(t.running) = {q \in Requests : t.status[q] = "running"}
      BY <1>3, <1>6 DEF WellFormed
    <2>3. r \notin Elements(s.waiting)
      BY DEF WellFormed
    <2> QED
      BY <1>2, <1>3, <1>4, <2>1, <2>2, <2>3 DEF WellFormed
  <1> QED
    BY <1>3, <1>5, <1>7 DEF t

(* pop_request_state of what has ended.                                    *)
LEMMA PopWellFormed ==
    ASSUME NEW s, WellFormed(s), NEW r \in Requests, Ended(s, r)
    PROVE  LET t == PopState(s, r)
           IN  /\ WellFormed(t)
               /\ t.status = [s.status EXCEPT ![r] = "absent"]
               /\ t.waiting = s.waiting /\ t.running = s.running /\ t.finished = s.finished
  <1> DEFINE t == PopState(s, r)
  <1>1. s \in SchedType
    BY DEF WellFormed
  <1>2. /\ t.status = [s.status EXCEPT ![r] = "absent"]
        /\ t.waiting = s.waiting
        /\ t.running = s.running /\ t.finished = s.finished /\ t.key = s.key
        /\ t \in SchedType
    BY <1>1 DEF PopState, SchedType
  <1>3. \A q \in Requests : t.status[q] = IF q = r THEN "absent" ELSE s.status[q]
    BY <1>1, <1>2 DEF SchedType
  <1> HIDE DEF t
  <1>4. WellFormed(t)
    BY <1>2, <1>3 DEF WellFormed, Ended
  <1> QED
    BY <1>2, <1>4 DEF t

(* _finish_requests: what is live of the given requests ends, and only that. *)
LEMMA FinishFacts ==
    ASSUME NEW s, WellFormed(s), NEW ends, DOMAIN ends \subseteq Requests,
           \A r \in DOMAIN ends : ends[r] \in Finished
    PROVE  LET t == Finish(s, ends)
               ended == {r \in DOMAIN ends : s.status[r] \in {"waiting", "running"}}
           IN  /\ WellFormed(t)
               /\ \A r \in Requests : t.status[r] = IF r \in ended THEN ends[r] ELSE s.status[r]
               /\ Elements(t.running) = Elements(s.running) \ ended
               /\ t.finished = s.finished \cup ended
  <1> DEFINE t == Finish(s, ends)
             ended == {r \in DOMAIN ends : s.status[r] \in {"waiting", "running"}}
             running == Without(s.running, ended)
             waiting == Without(s.waiting, ended)
  <1>1. /\ s \in SchedType /\ s.waiting \in Seq(Requests) /\ s.running \in Seq(Requests)
        /\ s.status \in [Requests -> {"absent", "waiting", "running"} \cup Finished]
        /\ s.finished \subseteq Requests /\ ended \subseteq Requests
    BY DEF WellFormed, SchedType
  <1>2. Distinct(s.waiting) /\ Distinct(s.running)
    BY DEF WellFormed
  <1>3. /\ running \in Seq(Requests) /\ Elements(running) = Elements(s.running) \ ended
        /\ Len(running) <= Len(s.running) /\ Distinct(running)
    BY <1>1, <1>2, WithoutFacts
  <1>4. /\ waiting \in Seq(Requests) /\ Elements(waiting) = Elements(s.waiting) \ ended
        /\ Distinct(waiting)
    BY <1>1, <1>2, WithoutFacts
  <1>5. /\ t.waiting = waiting /\ t.running = running
        /\ t.status = [r \in Requests |-> IF r \in ended THEN ends[r] ELSE s.status[r]]
        /\ t.key = IF running = <<>> /\ s.running # <<>> THEN NoKey ELSE s.key
        /\ t.finished = s.finished \cup ended
    BY <1>1 DEF Finish, SchedType
  <1>6. t \in SchedType
    <2>1. [r \in Requests |-> IF r \in ended THEN ends[r] ELSE s.status[r]]
            \in [Requests -> {"absent", "waiting", "running"} \cup Finished]
      BY <1>1
    <2>2. (IF running = <<>> /\ s.running # <<>> THEN NoKey ELSE s.key)
            \in {KeyOf[r] : r \in Requests} \cup {NoKey}
      BY <1>1 DEF SchedType
    <2>3. s.finished \cup ended \in SUBSET Requests
      BY <1>1
    <2> HIDE DEF running, waiting, ended
    <2> QED
      BY <1>1, <1>3, <1>4, <2>1, <2>2, <2>3 DEF Finish, SchedType, running, waiting, ended
  <1>7. \A r \in Requests : t.status[r] = IF r \in ended THEN ends[r] ELSE s.status[r]
    BY <1>5
  <1>8. \A r \in Requests : r \in ended => ends[r] \in Finished
    OBVIOUS
  <1> HIDE DEF t, running, waiting, ended
  <1>9. WellFormed(t)
    <2>1. Elements(t.waiting) = {r \in Requests : t.status[r] = "waiting"}
      BY <1>4, <1>5, <1>7, <1>8 DEF WellFormed, Finished
    <2>2. Elements(t.running) = {r \in Requests : t.status[r] = "running"}
      BY <1>3, <1>5, <1>7, <1>8 DEF WellFormed, Finished
    <2>3. Len(t.running) <= MaxRunning
      <3>1. Len(running) \in Nat /\ Len(s.running) \in Nat /\ MaxRunning \in Nat
        BY <1>1, <1>3, SchedulerAssumption
      <3> QED
        BY <1>3, <1>5, <3>1 DEF WellFormed
    <2>4. \A r \in Elements(t.running) : KeyOf[r] = t.key
      <3>1. ASSUME NEW r \in Elements(running) PROVE running # <<>>
        BY DEF Elements
      <3> QED
        BY <1>3, <1>5, <3>1 DEF WellFormed
    <2> QED
      BY <1>3, <1>4, <1>5, <1>6, <2>1, <2>2, <2>3, <2>4 DEF WellFormed
  <1> QED
    BY <1>3, <1>5, <1>7, <1>9 DEF t, ended, running

(* schedule() starts what it may: as much as fits and has the key, and at  *)
(* least one request if none is running.                                   *)
LEMMA AdmittedFacts ==
    ASSUME NEW s, WellFormed(s)
    PROVE  /\ Admitted(s) \in 0..Len(s.waiting)
           /\ Admissible(s, Admitted(s))
           /\ s.running = <<>> /\ s.waiting # <<>> => Admitted(s) >= 1
  <1> DEFINE m == Len(s.waiting)
             T == {k \in 0..m : Admissible(s, m - k)}
  <1>1. m \in Nat /\ Len(s.running) \in Nat /\ Len(s.running) <= MaxRunning /\ MaxRunning \in Nat
        /\ MaxRunning >= 1
    BY SchedulerAssumption DEF WellFormed, SchedType
  <1>2. Admissible(s, 0)
    BY <1>1 DEF Admissible
  <1>3. T \in SUBSET Nat /\ T # {}
    <2>1. m \in 0..m /\ m - m = 0
      BY <1>1
    <2>2. m \in T
      BY <1>2, <2>1
    <2> QED
      BY <2>2
  <1>4. PICK k \in T : \A j \in T : k <= j
    <2> HIDE DEF T
    <2> QED
      BY <1>3, Smallest
  <1>5. /\ m - k \in 0..m /\ Admissible(s, m - k)
        /\ \A j \in 0..m : Admissible(s, j) => j <= m - k
    <2>1. k \in 0..m /\ Admissible(s, m - k)
      BY <1>4
    <2>2. ASSUME NEW j \in 0..m, Admissible(s, j) PROVE j <= m - k
      <3>1. m - j \in 0..m /\ m - (m - j) = j
        BY <1>1
      <3>2. m - j \in T
        BY <2>2, <3>1
      <3>3. k <= m - j
        BY <1>4, <3>2
      <3> QED
        BY <1>1, <2>1, <3>3
    <2> QED
      BY <1>1, <2>1, <2>2
  <1> HIDE DEF T
  <1>6. /\ Admitted(s) \in 0..m /\ Admissible(s, Admitted(s))
        /\ \A j \in 0..m : Admissible(s, j) => j <= Admitted(s)
    <2>1. \E n \in 0..m : Admissible(s, n) /\ \A j \in 0..m : Admissible(s, j) => j <= n
      BY <1>5
    <2> HIDE DEF m
    <2>2. Admitted(s) = CHOOSE n \in 0..m : Admissible(s, n) /\ \A j \in 0..m : Admissible(s, j) => j <= n
      BY DEF Admitted, m
    <2> QED
      BY <2>1, <2>2
  <1>7. ASSUME s.running = <<>>, s.waiting # <<>> PROVE Admitted(s) >= 1
    <2>1. s.waiting \in Seq(Requests)
      BY DEF WellFormed, SchedType
    <2>2. 1 \in 0..m
      BY <1>7, <2>1
    <2>3. Admissible(s, 1)
      BY <1>1, <1>7 DEF Admissible
    <2> QED
      BY <1>6, <2>2, <2>3
  <1> QED
    BY <1>6, <1>7

(* schedule(): what runs now is the batch, of one key; a scheduler with a  *)
(* request never makes an empty one.                                       *)
LEMMA ScheduleFacts ==
    ASSUME NEW s, WellFormed(s)
    PROVE  LET t == Schedule(s)
               o == Output(s)
           IN  /\ WellFormed(t)
               /\ o \in BatchType
               /\ Scheduled(o) = Elements(t.running)
               /\ o.cached = s.running
               /\ o.finished = s.finished
               /\ Elements(o.new) \subseteq Elements(s.waiting)
               /\ t.finished = {}
               /\ \A r \in Requests :
                     t.status[r] = IF r \in Elements(o.new) THEN "running" ELSE s.status[r]
               /\ HasRequests(s) => Scheduled(o) # {}
  <1> DEFINE n == Admitted(s)
             started == StartedBy(s)
             rest == SubSeq(s.waiting, Len(started) + 1, Len(s.waiting))
             t == Schedule(s)
             o == Output(s)
  <1>1. /\ s \in SchedType /\ s.waiting \in Seq(Requests) /\ s.running \in Seq(Requests)
        /\ s.finished \subseteq Requests
        /\ Distinct(s.waiting) /\ Distinct(s.running)
    BY DEF WellFormed, SchedType
  <1>2. /\ n \in 0..Len(s.waiting) /\ Admissible(s, n)
        /\ s.running = <<>> /\ s.waiting # <<>> => n >= 1
    BY AdmittedFacts
  <1>3. started = SubSeq(s.waiting, 1, n)
    BY DEF StartedBy
  <1> HIDE DEF n, started
  <1>4. /\ started \in Seq(Requests) /\ rest \in Seq(Requests)
        /\ Len(started) = n
        /\ \A i \in 1..n : started[i] = s.waiting[i]
        /\ Elements(started) \cup Elements(rest) = Elements(s.waiting)
        /\ Elements(started) \cap Elements(rest) = {}
        /\ Distinct(started) /\ Distinct(rest)
    <2> DEFINE head == SubSeq(s.waiting, 1, n)
               tail == SubSeq(s.waiting, n + 1, Len(s.waiting))
    <2>1. /\ head \in Seq(Requests) /\ tail \in Seq(Requests)
          /\ Len(head) = n
          /\ \A i \in 1..n : head[i] = s.waiting[i]
          /\ Elements(head) \cup Elements(tail) = Elements(s.waiting)
          /\ Elements(head) \cap Elements(tail) = {}
          /\ Distinct(head) /\ Distinct(tail)
      BY <1>1, <1>2, SplitElements
    <2>2. head = started
      BY <1>3
    <2>3. tail = rest
      BY <2>1, <2>2
    <2> HIDE DEF head, tail, rest
    <2> QED
      BY <2>1, <2>2, <2>3
  <1>5. Elements(s.running) \cap Elements(started) = {}
    BY <1>4 DEF WellFormed
  <1>6. /\ s.running \o started \in Seq(Requests)
        /\ Len(s.running \o started) = Len(s.running) + Len(started)
        /\ Elements(s.running \o started) = Elements(s.running) \cup Elements(started)
        /\ Distinct(s.running \o started)
    <2>1. started \in Seq(Requests) /\ s.running \in Seq(Requests)
      BY <1>1, <1>4
    <2>2. /\ s.running \o started \in Seq(Requests)
          /\ Len(s.running \o started) = Len(s.running) + Len(started)
          /\ Elements(s.running \o started) = Elements(s.running) \cup Elements(started)
          /\ Distinct(s.running) /\ Distinct(started)
               /\ Elements(s.running) \cap Elements(started) = {} => Distinct(s.running \o started)
      BY <2>1, JoinElements
    <2> QED
      BY <1>1, <1>4, <1>5, <2>2
  <1>7. /\ o.new = started /\ o.cached = s.running /\ o.finished = s.finished
        /\ o \in BatchType
    BY <1>1, <1>4 DEF Output, BatchType, started
  <1>8. started # <<>> => started[1] \in Requests
    BY <1>4
  <1>9. /\ t.waiting = rest /\ t.running = s.running \o started /\ t.finished = {}
        /\ t.status = [r \in Requests |-> IF r \in Elements(started) THEN "running" ELSE s.status[r]]
        /\ t.key = IF s.running = <<>> /\ started # <<>> THEN KeyOf[started[1]] ELSE s.key
        /\ DOMAIN t = {"status", "waiting", "running", "key", "finished"}
    BY <1>1 DEF Schedule, SchedType, started
  <1>10. t \in SchedType
    <2>1. t.status \in [Requests -> {"absent", "waiting", "running"} \cup Finished]
      BY <1>1, <1>9 DEF SchedType
    <2>2. t.key \in {KeyOf[r] : r \in Requests} \cup {NoKey}
      <3> HIDE DEF t
      <3> QED
        BY <1>1, <1>8, <1>9 DEF SchedType
    <2> DEFINE status == [r \in Requests |-> IF r \in Elements(started) THEN "running" ELSE s.status[r]]
               key == IF s.running = <<>> /\ started # <<>> THEN KeyOf[started[1]] ELSE s.key
    <2>3. t = [s EXCEPT !.status = status, !.waiting = rest, !.running = s.running \o started,
                        !.key = key, !.finished = {}]
      BY <1>1 DEF Schedule, SchedType, started
    <2>4. status = t.status /\ key = t.key
      BY <1>9
    <2> HIDE DEF t, rest, status, key
    <2> QED
      BY <1>1, <1>4, <1>6, <2>1, <2>2, <2>3, <2>4 DEF SchedType
  <1> HIDE DEF t, o, rest
  <1>11. Elements(t.waiting) = {r \in Requests : t.status[r] = "waiting"}
    BY <1>4, <1>9 DEF WellFormed
  <1>12. Elements(t.running) = {r \in Requests : t.status[r] = "running"}
    BY <1>4, <1>6, <1>9 DEF WellFormed
  <1>13. Len(t.running) <= MaxRunning
    BY <1>2, <1>4, <1>6, <1>9 DEF Admissible
  <1>14. \A r \in Elements(t.running) : KeyOf[r] = t.key
    <2>1. CASE s.running = <<>>
      <3>1. Elements(s.running) = {}
        BY <2>1 DEF Elements
      <3>2. ASSUME NEW i \in 1..n PROVE KeyOf[started[i]] = t.key
        <4>1. started # <<>> /\ started[1] = s.waiting[1] /\ started[i] = s.waiting[i]
          BY <1>2, <1>4, <3>2
        <4>2. t.key = KeyOf[s.waiting[1]]
          BY <1>9, <2>1, <4>1
        <4>3. KeyOf[s.waiting[i]] = KeyOf[s.waiting[1]]
          BY <1>2, <2>1, <3>2 DEF Admissible
        <4> QED
          BY <4>1, <4>2, <4>3
      <3>3. DOMAIN started = 1..n
        BY <1>4
      <3>4. \A r \in Elements(started) : KeyOf[r] = t.key
        BY <3>2, <3>3 DEF Elements
      <3> QED
        BY <1>6, <1>9, <3>1, <3>4
    <2>2. CASE s.running # <<>>
      <3>1. t.key = s.key
        BY <1>9, <2>2
      <3>2. ASSUME NEW i \in 1..n PROVE KeyOf[started[i]] = t.key
        <4>1. started[i] = s.waiting[i]
          BY <1>4, <3>2
        <4>2. KeyOf[s.waiting[i]] = s.key
          BY <1>2, <2>2, <3>2 DEF Admissible
        <4> QED
          BY <3>1, <4>1, <4>2
      <3>3. DOMAIN started = 1..n
        BY <1>4
      <3>4. \A r \in Elements(started) : KeyOf[r] = t.key
        BY <3>2, <3>3 DEF Elements
      <3>5. \A r \in Elements(s.running) : KeyOf[r] = t.key
        BY <3>1 DEF WellFormed
      <3> QED
        BY <1>6, <1>9, <3>4, <3>5
    <2> QED
      BY <2>1, <2>2
  <1>15. WellFormed(t)
    BY <1>4, <1>6, <1>9, <1>10, <1>11, <1>12, <1>13, <1>14 DEF WellFormed
  <1>16. Scheduled(o) = Elements(t.running)
    BY <1>6, <1>7, <1>9 DEF Scheduled
  <1>17. ASSUME HasRequests(s) PROVE Scheduled(o) # {}
    <2>1. CASE s.running # <<>>
      <3>1. 1 \in DOMAIN s.running
        BY <1>1, <2>1
      <3> QED
        BY <1>7, <3>1 DEF Scheduled, Elements
    <2>2. CASE s.running = <<>>
      <3>1. n >= 1
        BY <1>2, <1>17, <2>2 DEF HasRequests
      <3>2. 1 \in DOMAIN started
        BY <1>2, <1>4, <3>1
      <3> QED
        BY <1>7, <3>2 DEF Scheduled, Elements
    <2> QED
      BY <2>1, <2>2
  <1>18. \A r \in Requests : t.status[r] = IF r \in Elements(o.new) THEN "running" ELSE s.status[r]
    BY <1>7, <1>9
  <1> QED
    BY <1>4, <1>7, <1>9, <1>15, <1>16, <1>17, <1>18 DEF t, o

(* _process_aborts_queue.                                                  *)
LEMMA DrainedFacts ==
    ASSUME WellFormed(sched), aborts \subseteq Requests
    PROVE  /\ WellFormed(Drained)
           /\ \A r \in Requests :
                 Drained.status[r] = IF r \in aborts /\ Live(r) THEN "aborted" ELSE sched.status[r]
           /\ Elements(Drained.running) = Elements(sched.running) \ aborts
           /\ Drained.finished = sched.finished \cup {r \in aborts : Live(r)}
  <1> DEFINE ends == [r \in {q \in aborts : sched.status[q] # "absent"} |-> "aborted"]
             ended == {r \in DOMAIN ends : sched.status[r] \in {"waiting", "running"}}
             t == Finish(sched, ends)
  <1>1. /\ DOMAIN ends \subseteq Requests
        /\ \A r \in DOMAIN ends : ends[r] \in Finished
    BY DEF Finished
  <1>2. ended = {r \in aborts : Live(r)}
    BY DEF Live
  <1>3. \A r \in ended : ends[r] = "aborted"
    OBVIOUS
  <1>4. Drained = t
    BY DEF Drained
  <1> HIDE DEF ends
  <1>5. /\ WellFormed(t)
        /\ \A r \in Requests : t.status[r] = IF r \in ended THEN ends[r] ELSE sched.status[r]
        /\ Elements(t.running) = Elements(sched.running) \ ended
        /\ t.finished = sched.finished \cup ended
    BY <1>1, FinishFacts
  <1> HIDE DEF t, ended
  <1>6. Elements(sched.running) \ ended = Elements(sched.running) \ aborts
    BY <1>2 DEF WellFormed, Live
  <1>7. \A r \in Requests : t.status[r] = IF r \in aborts /\ Live(r) THEN "aborted" ELSE sched.status[r]
    BY <1>2, <1>3, <1>5
  <1> QED
    BY <1>2, <1>4, <1>5, <1>6, <1>7

(* update_from_output.                                                     *)
LEMMA UpdateFacts ==
    ASSUME NEW s, WellFormed(s), NEW o \in BatchType, NEW out
    PROVE  LET t == Update(s, o, out)
               ended == {r \in Scheduled(o) :
                           s.status[r] \in {"waiting", "running"} /\ out[r] \in Finished}
           IN  /\ WellFormed(t)
               /\ \A r \in Requests : t.status[r] = IF r \in ended THEN out[r] ELSE s.status[r]
               /\ Elements(t.running) = Elements(s.running) \ ended
               /\ t.finished = s.finished \cup ended
               /\ Surfaced(s, o, out) = (Scheduled(o) \cap s.finished) \cup ended
  <1> DEFINE ends == Ends(s, o, out)
             dom == {r \in Scheduled(o) :
                       s.status[r] \in {"waiting", "running"} /\ out[r] \in Finished}
             ended == {r \in DOMAIN ends : s.status[r] \in {"waiting", "running"}}
             t == Finish(s, ends)
  <1>1. Scheduled(o) \subseteq Requests
    <2>1. o.new \in Seq(Requests) /\ o.cached \in Seq(Requests)
      BY DEF BatchType
    <2> QED
      BY <2>1 DEF Scheduled, Elements
  <1>2. DOMAIN ends = dom /\ \A r \in dom : ends[r] = out[r]
    BY DEF Ends
  <1>3. Update(s, o, out) = t /\ Surfaced(s, o, out) = (Scheduled(o) \cap s.finished) \cup DOMAIN ends
    BY DEF Update, Surfaced
  <1> HIDE DEF ends
  <1>4. DOMAIN ends \subseteq Requests /\ \A r \in DOMAIN ends : ends[r] \in Finished
    BY <1>1, <1>2
  <1>5. ended = dom
    BY <1>2
  <1>6. /\ WellFormed(t)
        /\ \A r \in Requests : t.status[r] = IF r \in ended THEN ends[r] ELSE s.status[r]
        /\ Elements(t.running) = Elements(s.running) \ ended
        /\ t.finished = s.finished \cup ended
    BY <1>4, FinishFacts
  <1> HIDE DEF t, ended
  <1>7. \A r \in Requests : t.status[r] = IF r \in dom THEN out[r] ELSE s.status[r]
    BY <1>2, <1>5, <1>6
  <1> QED
    BY <1>2, <1>3, <1>5, <1>6, <1>7

-----------------------------------------------------------------------------
(* The invariant.                                                          *)

(* The fields but those of the scheduler.                                  *)
FieldsOK ==
    /\ mode \in Modes
    /\ aborts \subseteq Requests /\ surfaced \subseteq Requests /\ emitting \subseteq Requests
    /\ loop \in {"top", "lock", "admit", "execute", "update", "emit", "stopped"}
    /\ outcome \in [Requests -> {"none", "more", "chunk", "completed", "error"}]
    /\ cache \subseteq Requests /\ untold \subseteq Requests /\ stranded \subseteq Requests
    /\ progress \in [Requests -> 0..Steps]
    /\ task \in [Requests -> {"new", "streaming", "cancelled", "ended"}]
    /\ streams \subseteq Requests
    /\ outputs \in [Requests -> Seq({"chunk", "closed"} \cup Finished)]
    /\ closed \in BOOLEAN

(* A task that has not run has left no trace.                              *)
UnstartedOK ==
    \A r \in Requests : task[r] = "new" =>
        /\ sched.status[r] = "absent" /\ progress[r] = 0 /\ outputs[r] = <<>>
        /\ r \notin streams /\ r \notin aborts
        /\ r \notin sched.finished /\ r \notin untold /\ r \notin batch.finished

(* What the loop knows in each of its places.                              *)
LoopOK ==
    /\ loop \in {"top", "lock", "admit", "stopped"} => batch = NoBatch /\ emitting = {}
    /\ loop = "admit" => HasRequests(sched)
    /\ loop \in {"execute", "update"} =>
          /\ Scheduled(batch) = Elements(sched.running)
          /\ sched.finished = {}
          /\ emitting = {}
    /\ \A r, q \in Scheduled(batch) : KeyOf[r] = KeyOf[q]
    /\ loop = "emit" => \A r \in emitting :
          IF r \in surfaced THEN sched.status[r] \in Finished
          ELSE r \in Elements(sched.running)

(* What the scheduler, a batch or a lost batch calls ended has ended.      *)
EndedOK ==
    /\ \A r \in sched.finished \cup untold \cup batch.finished : Ended(sched, r)
    /\ \A r \in Requests : sched.status[r] \in Finished =>
          r \in stranded \/ (loop = "emit" /\ r \in emitting /\ r \in surfaced)

(* The states of the worker, wherever the loop is.                         *)
WorkerOK ==
    /\ mode = "request" => cache = {}
    /\ mode = "step" /\ loop \in {"top", "lock", "admit", "emit"} =>
          /\ Elements(sched.running) \subseteq cache
          /\ cache \subseteq Elements(sched.running) \cup sched.finished \cup untold
    /\ mode = "step" /\ loop = "execute" =>
          /\ Elements(batch.cached) \subseteq cache
          /\ cache \subseteq Elements(batch.cached) \cup batch.finished \cup untold
          /\ Elements(batch.cached) \cap Elements(batch.new) = {}
    /\ mode = "step" /\ loop = "update" =>
          /\ {r \in Scheduled(batch) : outcome[r] \notin {"completed", "error"}} \subseteq cache
          /\ cache \subseteq Scheduled(batch) \cup untold

(* A live request has a step left, or the runner has said that it ended.   *)
ProgressOK ==
    \A r \in Requests : Live(r) =>
        \/ progress[r] < Steps
        \/ loop = "update" /\ r \in Scheduled(batch) /\ outcome[r] \in {"completed", "error"}

(* A consumer has a stream until close() has answered it, and its last     *)
(* output leaves nothing to come.                                          *)
AnswerOK ==
    /\ closed => streams = {}
    /\ \A r \in Requests :
          /\ task[r] = "streaming" /\ ~closed => r \in streams
          /\ task[r] = "streaming" /\ closed => HasFinal(r)
          /\ task[r] = "streaming" => r \notin aborts
          /\ task[r] = "streaming" =>
                Live(r) \/ HasFinal(r) \/ (loop = "emit" /\ r \in emitting /\ r \in surfaced)
          /\ ~closed /\ HasFinal(r) => sched.status[r] = "absent"
          /\ \A i \in DOMAIN outputs[r] :
                i < Len(outputs[r]) /\ IsFinal(outputs[r][i]) => outputs[r][i + 1] = "closed"

DInv ==
    /\ FieldsOK /\ WellFormed(sched) /\ batch \in BatchType
    /\ UnstartedOK /\ LoopOK /\ EndedOK /\ WorkerOK /\ ProgressOK /\ AnswerOK

(* Where requests can be.                                                  *)
LEMMA Shape ==
    ASSUME DInv
    PROVE  /\ sched.status \in [Requests -> {"absent", "waiting", "running"} \cup Finished]
           /\ sched.finished \subseteq Requests
           /\ Elements(sched.running) = {r \in Requests : sched.status[r] = "running"}
           /\ Elements(sched.waiting) = {r \in Requests : sched.status[r] = "waiting"}
           /\ Scheduled(batch) \subseteq Requests
           /\ Elements(batch.new) \cup Elements(batch.cached) = Scheduled(batch)
           /\ batch.finished \subseteq Requests
  <1>1. batch.new \in Seq(Requests) /\ batch.cached \in Seq(Requests) /\ batch.finished \subseteq Requests
    BY DEF DInv, BatchType
  <1>2. \A i \in DOMAIN batch.new : batch.new[i] \in Requests
    BY <1>1
  <1>3. \A i \in DOMAIN batch.cached : batch.cached[i] \in Requests
    BY <1>1
  <1>4. Scheduled(batch) \subseteq Requests
    BY <1>2, <1>3 DEF Scheduled, Elements
  <1>5. Elements(batch.new) \cup Elements(batch.cached) = Scheduled(batch)
    BY DEF Scheduled
  <1> QED
    BY <1>1, <1>4, <1>5 DEF DInv, WellFormed, SchedType

(* A batch of none.                                                        *)
LEMMA NoBatchFacts ==
    /\ NoBatch \in BatchType
    /\ Scheduled(NoBatch) = {} /\ NoBatch.finished = {}
    /\ NoBatch.new = <<>> /\ NoBatch.cached = <<>>
  <1>1. NoBatch.new = <<>> /\ NoBatch.cached = <<>> /\ NoBatch.finished = {}
    BY DEF NoBatch
  <1>2. NoBatch \in BatchType
    BY DEF NoBatch, BatchType
  <1>3. Elements(<<>>) = {}
    BY DEF Elements
  <1> QED
    BY <1>1, <1>2, <1>3 DEF Scheduled

(* What the invariant says of the type.                                    *)
LEMMA DInvTypeOK ==
    DInv => TypeOK
  <1> SUFFICES ASSUME DInv PROVE TypeOK
    OBVIOUS
  <1>1. /\ sched.waiting \in Seq(Requests) /\ sched.running \in Seq(Requests)
        /\ Distinct(sched.waiting) /\ Distinct(sched.running)
    BY DEF DInv, WellFormed, SchedType
  <1>2. /\ Cardinality(Elements(sched.waiting)) = Len(sched.waiting)
        /\ Cardinality(Elements(sched.running)) = Len(sched.running)
    BY <1>1, DistinctCounts
  <1>3. cache \cup untold \cup stranded \subseteq Requests
    BY DEF DInv, FieldsOK
  <1> QED
    BY <1>2, <1>3, Shape DEF DInv, FieldsOK, TypeOK

(* The invariant holds at first.                                           *)
LEMMA InitDInv ==
    Init => DInv
  <1> SUFFICES ASSUME Init PROVE DInv
    OBVIOUS
  <1>1. WellFormed(sched)
    BY EmptyWellFormed DEF Init
  <1>2. batch \in BatchType /\ Scheduled(batch) = {} /\ batch.finished = {}
    BY NoBatchFacts DEF Init
  <1>3. sched.status = [r \in Requests |-> "absent"] /\ sched.finished = {}
        /\ sched.running = <<>>
    BY DEF Init, Empty
  <1>4. Elements(sched.running) = {}
    BY <1>3 DEF Elements
  <1>5. FieldsOK
    <2>1. outputs \in [Requests -> Seq({"chunk", "closed"} \cup Finished)]
      BY DEF Init
    <2>2. progress \in [Requests -> 0..Steps]
      BY EngineAssumption DEF Init
    <2>3. /\ outcome \in [Requests -> {"none", "more", "chunk", "completed", "error"}]
          /\ task \in [Requests -> {"new", "streaming", "cancelled", "ended"}]
      BY DEF Init
    <2> QED
      BY <2>1, <2>2, <2>3 DEF Init, FieldsOK
  <1>6. UnstartedOK
    BY <1>2, <1>3 DEF Init, UnstartedOK
  <1>7. LoopOK
    BY <1>2, <1>3 DEF Init, LoopOK
  <1>8. EndedOK
    BY <1>2, <1>3 DEF Init, EndedOK, Finished
  <1>9. WorkerOK
    BY <1>3, <1>4 DEF Init, WorkerOK
  <1>10. ProgressOK
    BY <1>3 DEF Init, ProgressOK, Live
  <1>11. AnswerOK
    <2>1. \A r \in Requests : task[r] = "new" /\ outputs[r] = <<>> /\ DOMAIN outputs[r] = {}
      BY DEF Init
    <2> QED
      BY <2>1 DEF Init, AnswerOK, HasFinal
  <1> QED
    BY <1>1, <1>2, <1>5, <1>6, <1>7, <1>8, <1>9, <1>10, <1>11 DEF DInv

-----------------------------------------------------------------------------
(* The steps of the event loop.                                            *)

(* What a stream says when one more output is put.                         *)
LEMMA PutFacts ==
    ASSUME NEW S, NEW seq \in Seq(S), NEW x \in S
    PROVE  LET more == Append(seq, x)
               HasOne(q) == \E i \in DOMAIN q : IsFinal(q[i])
               InOrder(q) == \A i \in DOMAIN q : i < Len(q) /\ IsFinal(q[i]) => q[i + 1] = "closed"
           IN  /\ more \in Seq(S)
               /\ HasOne(more) <=> HasOne(seq) \/ IsFinal(x)
               /\ InOrder(seq) /\ (x = "closed" \/ ~ HasOne(seq)) => InOrder(more)
  <1> DEFINE more == Append(seq, x)
             n == Len(seq)
  <1>1. /\ n \in Nat /\ DOMAIN seq = 1..n /\ DOMAIN more = 1..(n + 1) /\ Len(more) = n + 1
        /\ more \in Seq(S)
        /\ \A i \in 1..n : more[i] = seq[i]
        /\ more[n + 1] = x
    OBVIOUS
  <1> HIDE DEF more, n
  <1>2. \A i \in 1..(n + 1) : i \in 1..n \/ i = n + 1
    BY <1>1
  <1>3. \A i \in 1..n : i \in 1..(n + 1) /\ (i = n \/ i + 1 \in 1..n)
    BY <1>1
  <1>4. n + 1 \in 1..(n + 1)
    BY <1>1
  <1>5. (\E i \in 1..(n + 1) : IsFinal(more[i])) <=> (\E i \in 1..n : IsFinal(seq[i])) \/ IsFinal(x)
    <2>1. ASSUME NEW i \in 1..(n + 1), IsFinal(more[i])
          PROVE  (\E j \in 1..n : IsFinal(seq[j])) \/ IsFinal(x)
      BY <1>1, <1>2, <2>1
    <2>2. ASSUME NEW i \in 1..n, IsFinal(seq[i]) PROVE \E j \in 1..(n + 1) : IsFinal(more[j])
      <3>1. more[i] = seq[i] /\ i \in 1..(n + 1)
        BY <1>1, <1>3
      <3> QED
        BY <2>2, <3>1
    <2>3. ASSUME IsFinal(x) PROVE \E j \in 1..(n + 1) : IsFinal(more[j])
      BY <1>1, <1>4, <2>3
    <2> QED
      BY <2>1, <2>2, <2>3
  <1>6. ASSUME \A i \in 1..n : i < n /\ IsFinal(seq[i]) => seq[i + 1] = "closed",
               x = "closed" \/ ~ \E i \in 1..n : IsFinal(seq[i]),
               NEW i \in 1..(n + 1), i < n + 1, IsFinal(more[i])
        PROVE  more[i + 1] = "closed"
    <2>1. i \in 1..n /\ more[i] = seq[i]
      BY <1>1, <1>6
    <2>2. CASE i = n
      <3>1. x = "closed"
        BY <1>6, <2>1
      <3> QED
        BY <1>1, <2>2, <3>1
    <2>3. CASE i # n
      <3>1. i < n /\ i + 1 \in 1..n
        BY <1>1, <2>1, <2>3
      <3>2. seq[i + 1] = "closed"
        BY <1>6, <2>1, <3>1
      <3> QED
        BY <1>1, <3>1, <3>2
    <2> QED
      BY <2>2, <2>3
  <1>7. /\ (\E i \in DOMAIN more : IsFinal(more[i])) <=> (\E i \in DOMAIN seq : IsFinal(seq[i])) \/ IsFinal(x)
        /\ (\A i \in DOMAIN seq : i < Len(seq) /\ IsFinal(seq[i]) => seq[i + 1] = "closed")
             /\ (x = "closed" \/ ~ \E i \in DOMAIN seq : IsFinal(seq[i]))
           => \A i \in DOMAIN more : i < Len(more) /\ IsFinal(more[i]) => more[i + 1] = "closed"
    BY <1>1, <1>5, <1>6 DEF n
  <1> QED
    BY <1>1, <1>7 DEF more

(* A task adds its request.                                                *)
LEMMA AddStep ==
    ASSUME DInv, NEW r \in Requests, Add(r)
    PROVE  DInv'
  <1>1. /\ task[r] = "new" /\ ~closed
        /\ sched' = AddRequest(sched, r)
        /\ streams' = streams \cup {r}
        /\ task' = [task EXCEPT ![r] = "streaming"]
        /\ UNCHANGED <<mode, stranded, aborts, loopVars, workerVars, outputs, closed>>
    BY DEF Add
  <1>2. /\ sched.status[r] = "absent" /\ progress[r] = 0 /\ outputs[r] = <<>>
        /\ r \notin aborts /\ r \notin sched.finished
        /\ r \notin untold /\ r \notin batch.finished
    BY <1>1 DEF DInv, UnstartedOK
  <1>3. /\ WellFormed(sched')
        /\ sched'.status = [sched.status EXCEPT ![r] = "waiting"]
        /\ sched'.running = sched.running /\ sched'.finished = sched.finished
        /\ sched'.waiting # <<>>
    BY <1>1, <1>2, AddWellFormed DEF DInv
  <1>4. \A q \in Requests : sched'.status[q] = IF q = r THEN "waiting" ELSE sched.status[q]
    BY <1>3, Shape
  <1>5. FieldsOK'
    BY <1>1 DEF DInv, FieldsOK, loopVars, workerVars
  <1>6. batch' \in BatchType
    BY <1>1 DEF DInv, loopVars
  <1>7. \A q \in Requests : task'[q] = IF q = r THEN "streaming" ELSE task[q]
    BY <1>1 DEF DInv, FieldsOK
  <1>8. UnstartedOK'
    BY <1>1, <1>3, <1>4, <1>7 DEF DInv, UnstartedOK, loopVars, workerVars
  <1>10. r \notin emitting
    BY <1>2, Shape DEF DInv, LoopOK, FieldsOK, Finished
  <1>11. LoopOK'
    BY <1>1, <1>3, <1>4, <1>10 DEF DInv, FieldsOK, LoopOK, loopVars, HasRequests
  <1>12. EndedOK'
    BY <1>1, <1>2, <1>3, <1>4, Shape DEF DInv, FieldsOK, EndedOK, loopVars, workerVars, Ended, Finished
  <1>13. WorkerOK'
    BY <1>1, <1>3 DEF DInv, WorkerOK, loopVars, workerVars
  <1>14. ProgressOK'
    <2>1. progress[r] < Steps
      BY <1>2, EngineAssumption
    <2> QED
      BY <1>1, <1>4, <2>1 DEF DInv, ProgressOK, Live, loopVars, workerVars
  <1>15. AnswerOK'
    <2>1. DOMAIN outputs[r] = {}
      BY <1>2
    <2>2. ~HasFinal(r)
      BY <2>1 DEF HasFinal
    <2>3. \A q \in Requests : HasFinal(q)' <=> HasFinal(q)
      BY <1>1 DEF HasFinal
    <2>4. \A q \in Requests : q # r => (Live(q)' <=> Live(q))
      BY <1>4 DEF Live
    <2>5. Live(r)'
      BY <1>4 DEF Live
    <2> QED
      BY <1>1, <1>2, <1>4, <1>7, <2>1, <2>2, <2>3, <2>4, <2>5 DEF DInv, AnswerOK, loopVars
  <1> QED
    BY <1>3, <1>5, <1>6, <1>8, <1>11, <1>12, <1>13, <1>14, <1>15 DEF DInv

(* The steps that leave the loop, the scheduler and the worker alone.      *)
LEMMA SameLoop ==
    ASSUME DInv, UNCHANGED <<mode, stranded, sched, loopVars, workerVars>>
    PROVE  /\ WellFormed(sched') /\ batch' \in BatchType
           /\ LoopOK' /\ EndedOK' /\ WorkerOK' /\ ProgressOK'
           /\ \A r \in Requests : Live(r)' <=> Live(r)
  <1>1. /\ mode' = mode /\ stranded' = stranded /\ sched' = sched /\ loop' = loop /\ batch' = batch
        /\ outcome' = outcome /\ surfaced' = surfaced /\ emitting' = emitting
        /\ cache' = cache /\ untold' = untold /\ progress' = progress
    BY DEF loopVars, workerVars
  <1>2. WellFormed(sched') /\ batch' \in BatchType
    BY <1>1 DEF DInv
  <1>3. LoopOK'
    BY <1>1 DEF DInv, LoopOK
  <1>4. EndedOK'
    BY <1>1 DEF DInv, EndedOK
  <1>5. WorkerOK'
    BY <1>1 DEF DInv, WorkerOK
  <1>6. \A r \in Requests : Live(r)' <=> Live(r)
    BY <1>1 DEF Live
  <1>7. ProgressOK'
    BY <1>1, <1>6 DEF DInv, ProgressOK
  <1> QED
    BY <1>2, <1>3, <1>4, <1>5, <1>6, <1>7

(* A task that first runs after close().                                   *)
LEMMA AddClosedStep ==
    ASSUME DInv, NEW r \in Requests, AddClosed(r)
    PROVE  DInv'
  <1>1. /\ task[r] = "new"
        /\ task' = [task EXCEPT ![r] = "ended"]
        /\ UNCHANGED <<mode, stranded, sched, aborts, loopVars, workerVars, streams, outputs, closed>>
    BY DEF AddClosed
  <1>2. /\ WellFormed(sched') /\ batch' \in BatchType
        /\ LoopOK' /\ EndedOK' /\ WorkerOK' /\ ProgressOK'
        /\ \A q \in Requests : Live(q)' <=> Live(q)
    BY <1>1, SameLoop
  <1>3. FieldsOK'
    BY <1>1 DEF DInv, FieldsOK, loopVars, workerVars
  <1>4. \A q \in Requests : task'[q] = IF q = r THEN "ended" ELSE task[q]
    BY <1>1 DEF DInv, FieldsOK
  <1>5. UnstartedOK'
    BY <1>1, <1>4 DEF DInv, UnstartedOK, loopVars, workerVars
  <1>6. AnswerOK'
    <2>1. \A q \in Requests : HasFinal(q)' <=> HasFinal(q)
      BY <1>1 DEF HasFinal
    <2> QED
      BY <1>1, <1>2, <1>4, <2>1 DEF DInv, AnswerOK, loopVars
  <1> QED
    BY <1>2, <1>3, <1>5, <1>6 DEF DInv

(* An abort message.                                                       *)
LEMMA AbortStep ==
    ASSUME DInv, NEW r \in Requests, Abort(r)
    PROVE  DInv'
  <1>1. /\ task' = [task EXCEPT ![r] = "cancelled"]
        /\ aborts' = IF closed THEN aborts ELSE aborts \cup {r}
        /\ UNCHANGED <<mode, stranded, sched, loopVars, workerVars, streams, outputs, closed>>
    BY DEF Abort
  <1>2. /\ WellFormed(sched') /\ batch' \in BatchType
        /\ LoopOK' /\ EndedOK' /\ WorkerOK' /\ ProgressOK'
        /\ \A q \in Requests : Live(q)' <=> Live(q)
    BY <1>1, SameLoop
  <1>3. FieldsOK'
    BY <1>1 DEF DInv, FieldsOK, loopVars, workerVars
  <1>4. \A q \in Requests : task'[q] = IF q = r THEN "cancelled" ELSE task[q]
    BY <1>1 DEF DInv, FieldsOK
  <1>5. UnstartedOK'
    BY <1>1, <1>4 DEF DInv, UnstartedOK, loopVars, workerVars
  <1>6. AnswerOK'
    <2>1. \A q \in Requests : HasFinal(q)' <=> HasFinal(q)
      BY <1>1 DEF HasFinal
    <2> QED
      BY <1>1, <1>2, <1>4, <2>1 DEF DInv, AnswerOK, loopVars
  <1> QED
    BY <1>2, <1>3, <1>5, <1>6 DEF DInv

(* A task ends: its stream is given up.                                    *)
LEMMA EndTaskStep ==
    ASSUME DInv, NEW r \in Requests, EndCancelled(r) \/ Receive(r)
    PROVE  DInv'
  <1>1. /\ task[r] # "new"
        /\ task' = [task EXCEPT ![r] = "ended"]
        /\ streams' = streams \ {r}
        /\ outputs' = [outputs EXCEPT ![r] = <<>>]
        /\ UNCHANGED <<mode, stranded, sched, aborts, loopVars, workerVars, closed>>
    BY DEF EndCancelled, Receive
  <1>2. /\ WellFormed(sched') /\ batch' \in BatchType
        /\ LoopOK' /\ EndedOK' /\ WorkerOK' /\ ProgressOK'
        /\ \A q \in Requests : Live(q)' <=> Live(q)
    BY <1>1, SameLoop
  <1>3. outputs' \in [Requests -> Seq({"chunk", "closed"} \cup Finished)]
    BY <1>1 DEF DInv, FieldsOK
  <1>4. FieldsOK'
    BY <1>1, <1>3 DEF DInv, FieldsOK, loopVars, workerVars
  <1>5. \A q \in Requests : /\ task'[q] = IF q = r THEN "ended" ELSE task[q]
                            /\ outputs'[q] = IF q = r THEN <<>> ELSE outputs[q]
    BY <1>1 DEF DInv, FieldsOK
  <1>6. UnstartedOK'
    BY <1>1, <1>5 DEF DInv, UnstartedOK, loopVars, workerVars
  <1>7. AnswerOK'
    <2>1. \A q \in Requests : q # r => (HasFinal(q)' <=> HasFinal(q))
      BY <1>5 DEF HasFinal
    <2>2. DOMAIN outputs'[r] = {}
      BY <1>5
    <2>3. ~HasFinal(r)'
      BY <2>2 DEF HasFinal
    <2> QED
      BY <1>1, <1>2, <1>5, <2>1, <2>2, <2>3 DEF DInv, AnswerOK, loopVars
  <1> QED
    BY <1>2, <1>4, <1>6, <1>7 DEF DInv

(* close(): the errors are put.                                            *)
LEMMA CloseStep ==
    ASSUME DInv, Close
    PROVE  DInv'
  <1>1. /\ ~closed /\ closed' = TRUE
        /\ outputs' = [r \in Requests |->
                         IF r \in streams THEN Append(outputs[r], "closed") ELSE outputs[r]]
        /\ streams' = {}
        /\ UNCHANGED <<mode, stranded, sched, aborts, loopVars, workerVars, task>>
    BY DEF Close
  <1>2. /\ WellFormed(sched') /\ batch' \in BatchType
        /\ LoopOK' /\ EndedOK' /\ WorkerOK' /\ ProgressOK'
        /\ \A q \in Requests : Live(q)' <=> Live(q)
    BY <1>1, SameLoop
  <1> DEFINE S == {"chunk", "closed"} \cup Finished
  <1>3. ASSUME NEW r \in Requests
        PROVE  /\ outputs'[r] \in Seq(S)
               /\ HasFinal(r)' <=> HasFinal(r) \/ r \in streams
               /\ (\A i \in DOMAIN outputs[r] :
                      i < Len(outputs[r]) /\ IsFinal(outputs[r][i]) => outputs[r][i + 1] = "closed")
                  => (\A i \in DOMAIN outputs'[r] :
                      i < Len(outputs'[r]) /\ IsFinal(outputs'[r][i]) => outputs'[r][i + 1] = "closed")
    <2>1. outputs[r] \in Seq(S) /\ "closed" \in S
      BY DEF DInv, FieldsOK
    <2>2. CASE r \notin streams
      <3>1. outputs'[r] = outputs[r]
        BY <1>1, <2>2
      <3> QED
        BY <2>1, <2>2, <3>1 DEF HasFinal
    <2>3. CASE r \in streams
      <3> DEFINE seq == outputs[r]
                 more == Append(seq, "closed")
      <3>1. outputs'[r] = more
        BY <1>1, <2>3
      <3> HIDE DEF S, seq
      <3>2. seq \in Seq(S)
        BY <2>1 DEF seq
      <3>3. /\ more \in Seq(S)
            /\ (\E i \in DOMAIN more : IsFinal(more[i]))
                  <=> (\E i \in DOMAIN seq : IsFinal(seq[i])) \/ IsFinal("closed")
            /\ (\A i \in DOMAIN seq : i < Len(seq) /\ IsFinal(seq[i]) => seq[i + 1] = "closed")
                 => \A i \in DOMAIN more : i < Len(more) /\ IsFinal(more[i]) => more[i + 1] = "closed"
        BY <2>1, <3>2, PutFacts
      <3>4. IsFinal("closed")
        BY DEF IsFinal
      <3> HIDE DEF more
      <3> QED
        BY <2>3, <3>1, <3>3, <3>4 DEF HasFinal, seq
    <2> QED
      BY <2>2, <2>3
  <1>5. FieldsOK'
    <2>1. outputs' \in [Requests -> Seq(S)]
      <3>1. \A r \in Requests : outputs'[r] \in Seq(S)
        BY <1>3
      <3>2. outputs' = [r \in Requests |-> outputs'[r]]
        BY <1>1
      <3> HIDE DEF S
      <3> QED
        BY <3>1, <3>2
    <2> QED
      BY <1>1, <2>1 DEF DInv, FieldsOK, loopVars, workerVars
  <1>6. UnstartedOK'
    BY <1>1 DEF DInv, UnstartedOK, loopVars, workerVars
  <1>7. AnswerOK'
    BY <1>1, <1>2, <1>3 DEF DInv, AnswerOK, loopVars
  <1> QED
    BY <1>2, <1>5, <1>6, <1>7 DEF DInv

(* The end of close().                                                     *)
LEMMA ShutdownStep ==
    ASSUME DInv, Shutdown
    PROVE  DInv'
  <1>1. /\ closed /\ loop = "stopped" /\ sched' = Empty
        /\ UNCHANGED <<mode, stranded, aborts, loopVars, workerVars, taskVars, closed>>
    BY DEF Shutdown
  <1>2. WellFormed(sched')
    BY <1>1, EmptyWellFormed
  <1>3. batch' \in BatchType /\ batch = NoBatch /\ emitting = {}
    BY <1>1 DEF DInv, LoopOK, loopVars
  <1>4. (\A r \in Requests : sched'.status[r] = "absent") /\ sched'.finished = {}
    BY <1>1 DEF Empty
  <1>5. FieldsOK'
    BY <1>1 DEF DInv, FieldsOK, loopVars, workerVars, taskVars
  <1>6. UnstartedOK'
    BY <1>1, <1>4 DEF DInv, UnstartedOK, loopVars, workerVars, taskVars
  <1>7. LoopOK'
    BY <1>1, <1>3 DEF DInv, LoopOK, loopVars
  <1>8. EndedOK'
    BY <1>1, <1>4, Shape DEF DInv, FieldsOK, EndedOK, Ended, Finished, loopVars, workerVars
  <1>9. WorkerOK'
    BY <1>1 DEF DInv, WorkerOK, loopVars, workerVars
  <1>10. \A r \in Requests : ~Live(r)'
    BY <1>4 DEF Live
  <1>11. ProgressOK'
    BY <1>10 DEF ProgressOK
  <1>12. AnswerOK'
    <2>1. \A r \in Requests : HasFinal(r)' <=> HasFinal(r)
      BY <1>1 DEF HasFinal, taskVars
    <2> QED
      BY <1>1, <1>4, <2>1 DEF DInv, AnswerOK, loopVars, taskVars
  <1> QED
    BY <1>2, <1>3, <1>5, <1>6, <1>7, <1>8, <1>9, <1>11, <1>12 DEF DInv

-----------------------------------------------------------------------------
(* The steps of the busy loop.                                             *)

(* The aborts of a new round, or the end of the loop.                      *)
LEMMA BeginRoundStep ==
    ASSUME DInv, BeginRound
    PROVE  DInv'
  <1>1. /\ loop = "top"
        /\ UNCHANGED <<mode, batch, outcome, surfaced, emitting, workerVars, taskVars, closed>>
    BY DEF BeginRound
  <1>2. batch = NoBatch /\ emitting = {} /\ Scheduled(batch) = {} /\ batch.finished = {}
    BY <1>1, NoBatchFacts DEF DInv, LoopOK
  <1>3. batch' \in BatchType
    BY <1>1 DEF DInv
  <1>4. \A r \in Requests : HasFinal(r)' <=> HasFinal(r)
    BY <1>1 DEF HasFinal, taskVars
  <1>5. CASE closed
    <2>1. loop' = "stopped" /\ UNCHANGED <<sched, aborts, stranded>>
      BY <1>5 DEF BeginRound
    <2>2. WellFormed(sched')
      BY <2>1 DEF DInv
    <2>3. FieldsOK'
      BY <1>1, <2>1 DEF DInv, FieldsOK, workerVars, taskVars
    <2>4. UnstartedOK'
      BY <1>1, <2>1 DEF DInv, UnstartedOK, workerVars, taskVars
    <2>5. LoopOK'
      BY <1>1, <1>2, <2>1 DEF DInv, LoopOK
    <2>6. EndedOK'
      BY <1>1, <2>1 DEF DInv, EndedOK, Ended, workerVars
    <2>7. WorkerOK'
      BY <1>1, <2>1 DEF DInv, WorkerOK, workerVars
    <2>8. \A r \in Requests : Live(r)' <=> Live(r)
      BY <2>1 DEF Live
    <2>9. ProgressOK'
      BY <1>1, <2>1, <2>8 DEF DInv, ProgressOK, workerVars
    <2>10. AnswerOK'
      BY <1>1, <1>4, <1>5, <2>1, <2>8 DEF DInv, AnswerOK, taskVars
    <2> QED
      BY <1>3, <2>2, <2>3, <2>4, <2>5, <2>6, <2>7, <2>9, <2>10 DEF DInv
  <1>6. CASE ~closed
    <2>1. loop' = "lock" /\ sched' = Drained /\ stranded' = Stranded /\ aborts' = {}
      BY <1>6 DEF BeginRound
    <2>2. aborts \subseteq Requests
      BY DEF DInv, FieldsOK
    <2>3. /\ WellFormed(sched')
          /\ \A r \in Requests :
                sched'.status[r] = IF r \in aborts /\ Live(r) THEN "aborted" ELSE sched.status[r]
          /\ Elements(sched'.running) = Elements(sched.running) \ aborts
          /\ sched'.finished = sched.finished \cup {r \in aborts : Live(r)}
      BY <2>1, <2>2, DrainedFacts DEF DInv
    <2>4. stranded' = stranded \cup {r \in aborts : Live(r)}
      BY <1>2, <2>1 DEF Stranded
    <2>5. FieldsOK'
      BY <1>1, <2>1, <2>2, <2>4 DEF DInv, FieldsOK, workerVars, taskVars
    <2>6. UnstartedOK'
      BY <1>1, <2>1, <2>3 DEF DInv, UnstartedOK, workerVars, taskVars
    <2>7. LoopOK'
      BY <1>1, <1>2, <2>1 DEF DInv, LoopOK
    <2>8. EndedOK'
      BY <1>1, <2>1, <2>2, <2>3, <2>4, Shape
         DEF DInv, FieldsOK, EndedOK, Ended, Live, Finished, workerVars
    <2>9. WorkerOK'
      BY <1>1, <2>1, <2>3, Shape DEF DInv, WorkerOK, Live, workerVars
    <2>10. \A r \in Requests : Live(r)' <=> Live(r) /\ r \notin aborts
      BY <2>3 DEF Live
    <2>11. ProgressOK'
      BY <1>1, <2>1, <2>10 DEF DInv, ProgressOK, workerVars
    <2>12. AnswerOK'
      BY <1>1, <1>2, <1>4, <1>6, <2>1, <2>3, <2>10 DEF DInv, AnswerOK, Live, taskVars
    <2> QED
      BY <1>3, <2>3, <2>5, <2>6, <2>7, <2>8, <2>9, <2>11, <2>12 DEF DInv
  <1> QED
    BY <1>5, <1>6

(* The loop finds out why it was woken.                                    *)
LEMMA WakeStep ==
    ASSUME DInv, Wake
    PROVE  DInv'
  <1>1. /\ loop = "lock"
        /\ loop' \in {"stopped", "admit", "top"}
        /\ loop' = "admit" => HasRequests(sched)
        /\ UNCHANGED <<mode, stranded, sched, aborts, batch, outcome, surfaced, emitting,
                       workerVars, taskVars, closed>>
    BY DEF Wake
  <1>2. batch = NoBatch /\ emitting = {}
    BY <1>1 DEF DInv, LoopOK
  <1>3. WellFormed(sched') /\ batch' \in BatchType
    BY <1>1 DEF DInv
  <1>4. FieldsOK'
    BY <1>1 DEF DInv, FieldsOK, workerVars, taskVars
  <1>5. UnstartedOK'
    BY <1>1 DEF DInv, UnstartedOK, workerVars, taskVars
  <1>6. LoopOK'
    BY <1>1, <1>2 DEF DInv, LoopOK
  <1>7. EndedOK'
    BY <1>1 DEF DInv, EndedOK, Ended, workerVars
  <1>8. WorkerOK'
    BY <1>1 DEF DInv, WorkerOK, workerVars
  <1>9. \A r \in Requests : (Live(r)' <=> Live(r)) /\ (HasFinal(r)' <=> HasFinal(r))
    BY <1>1 DEF Live, HasFinal, taskVars
  <1>10. ProgressOK'
    BY <1>1, <1>9 DEF DInv, ProgressOK, workerVars
  <1>11. AnswerOK'
    BY <1>1, <1>9 DEF DInv, AnswerOK, taskVars
  <1> QED
    BY <1>3, <1>4, <1>5, <1>6, <1>7, <1>8, <1>10, <1>11 DEF DInv

(* A batch is made: it is never empty, so it is executed.                  *)
LEMMA ScheduleStep ==
    ASSUME DInv, ScheduleBatch
    PROVE  DInv'
  <1>1. /\ loop \in {"admit", "lock"}
        /\ HasRequests(sched)
        /\ sched' = Schedule(sched)
        /\ UNCHANGED <<mode, stranded, aborts, workerVars, taskVars, closed>>
    BY DEF ScheduleBatch, DInv, LoopOK
  <1> DEFINE o == Output(sched)
  <1>2. /\ WellFormed(sched')
        /\ o \in BatchType
        /\ Scheduled(o) = Elements(sched'.running)
        /\ o.cached = sched.running
        /\ o.finished = sched.finished
        /\ Elements(o.new) \subseteq Elements(sched.waiting)
        /\ sched'.finished = {}
        /\ \A r \in Requests :
              sched'.status[r] = IF r \in Elements(o.new) THEN "running" ELSE sched.status[r]
        /\ Scheduled(o) # {}
    <2> DEFINE t == Schedule(sched)
    <2>1. WellFormed(sched)
      BY DEF DInv
    <2>2. /\ WellFormed(t)
          /\ o \in BatchType
          /\ Scheduled(o) = Elements(t.running)
          /\ o.cached = sched.running
          /\ o.finished = sched.finished
          /\ Elements(o.new) \subseteq Elements(sched.waiting)
          /\ t.finished = {}
          /\ \A r \in Requests :
                t.status[r] = IF r \in Elements(o.new) THEN "running" ELSE sched.status[r]
          /\ HasRequests(sched) => Scheduled(o) # {}
      BY <2>1, ScheduleFacts
    <2>3. t = sched'
      BY <1>1
    <2> HIDE DEF t, o
    <2> QED
      BY <1>1, <2>2, <2>3
  <1> HIDE DEF o
  <1>3. loop' = "execute" /\ batch' = o /\ UNCHANGED <<outcome, surfaced, emitting>>
    BY <1>2 DEF ScheduleBatch, o
  <1>4. batch = NoBatch /\ emitting = {}
    BY <1>1 DEF DInv, LoopOK
  <1>5. FieldsOK'
    BY <1>1, <1>3 DEF DInv, FieldsOK, workerVars, taskVars
  <1>6. \A r \in Requests : sched.status[r] = "absent" => sched'.status[r] = "absent"
    BY <1>2, Shape
  <1>7. UnstartedOK'
    BY <1>1, <1>2, <1>3, <1>6 DEF DInv, UnstartedOK, workerVars, taskVars
  <1>8. LoopOK'
    <2>1. \A r, q \in Scheduled(o) : KeyOf[r] = KeyOf[q]
      <3>1. \A r \in Scheduled(o) : KeyOf[r] = sched'.key
        BY <1>2 DEF WellFormed
      <3> QED
        BY <3>1
    <2> QED
      BY <1>2, <1>3, <1>4, <2>1 DEF LoopOK
  <1>9. \A r \in Requests : Live(r)' <=> Live(r)
    BY <1>2, Shape DEF Live
  <1>10. EndedOK'
    <2>1. \A r \in Requests : Ended(sched, r) => sched'.status[r] = sched.status[r]
      BY <1>2, Shape DEF Ended
    <2>2. \A r \in Requests : sched'.status[r] \in Finished => sched.status[r] \in Finished
      BY <1>2 DEF Finished
    <2> QED
      BY <1>1, <1>2, <1>3, <2>1, <2>2, Shape DEF DInv, FieldsOK, EndedOK, Ended, workerVars
  <1>11. WorkerOK'
    <2>1. Elements(o.cached) \cap Elements(o.new) = {}
      BY <1>2, Shape
    <2> QED
      BY <1>1, <1>2, <1>3, <2>1 DEF DInv, WorkerOK, workerVars
  <1>12. ProgressOK'
    BY <1>1, <1>3, <1>9 DEF DInv, ProgressOK, workerVars
  <1>13. AnswerOK'
    <2>1. \A r \in Requests : HasFinal(r)' <=> HasFinal(r)
      BY <1>1 DEF HasFinal, taskVars
    <2> QED
      BY <1>1, <1>3, <1>4, <1>6, <1>9, <2>1 DEF DInv, AnswerOK, taskVars
  <1> QED
    BY <1>2, <1>3, <1>5, <1>7, <1>8, <1>10, <1>11, <1>12, <1>13 DEF DInv

(* A batch is executed.                                                    *)
LEMMA ExecuteStep ==
    ASSUME DInv, ExecuteBatch
    PROVE  DInv'
  <1>1. PICK results \in [Scheduled(batch) -> {"more", "chunk", "completed", "error"}] :
          /\ \A r \in Scheduled(batch) : results[r] \in Results(r)
          /\ outcome' = [r \in Requests |-> IF r \in Scheduled(batch) THEN results[r] ELSE "none"]
          /\ IF mode = "step"
               THEN \E gone \in {{}, {r \in Scheduled(batch) : results[r] = "error"}} :
                      cache' = (((cache \ batch.finished) \cup Elements(batch.new)) \ gone)
                                 \ {r \in Scheduled(batch) : results[r] = "completed"}
               ELSE UNCHANGED cache
    BY DEF ExecuteBatch
  <1>2. /\ loop = "execute" /\ loop' = "update"
        /\ progress' = [r \in Requests |->
              IF mode = "step" /\ r \in Scheduled(batch) THEN progress[r] + 1 ELSE progress[r]]
        /\ UNCHANGED <<mode, stranded, sched, aborts, batch, surfaced, emitting, untold, taskVars, closed>>
    BY DEF ExecuteBatch
  <1>3. WellFormed(sched') /\ batch' \in BatchType
    BY <1>2 DEF DInv
  <1>4. Scheduled(batch) = Elements(sched.running) /\ Scheduled(batch) \subseteq Requests
    BY <1>2, Shape DEF DInv, LoopOK
  <1>5. \A r \in Requests : (Live(r)' <=> Live(r)) /\ (HasFinal(r)' <=> HasFinal(r))
    BY <1>2 DEF Live, HasFinal, taskVars
  <1>6. \A r \in Scheduled(batch) :
          /\ Live(r) /\ outcome'[r] = results[r]
          /\ results[r] \in {"more", "chunk", "completed", "error"}
    BY <1>1, <1>4, Shape DEF Live
  <1>7. \A r \in Scheduled(batch) : progress[r] < Steps
    BY <1>2, <1>4, <1>6 DEF DInv, ProgressOK
  <1>8. \A r \in Requests : progress[r] \in 0..Steps
    BY DEF DInv, FieldsOK
  <1>9. progress' \in [Requests -> 0..Steps]
    <2>1. ASSUME NEW r \in Requests PROVE progress'[r] \in 0..Steps
      <3>1. progress[r] \in 0..Steps /\ Steps \in Nat
        BY <1>8, EngineAssumption
      <3>2. CASE r \in Scheduled(batch)
        BY <1>2, <1>7, <3>1, <3>2
      <3>3. CASE r \notin Scheduled(batch)
        BY <1>2, <3>1, <3>3
      <3> QED
        BY <3>2, <3>3
    <2> QED
      BY <1>2, <2>1
  <1>10. cache' \subseteq Requests
    BY <1>1, Shape DEF DInv, FieldsOK
  <1>11. outcome' \in [Requests -> {"none", "more", "chunk", "completed", "error"}]
    BY <1>1, <1>6
  <1>12. FieldsOK'
    BY <1>2, <1>9, <1>10, <1>11 DEF DInv, FieldsOK, taskVars
  <1>13. UnstartedOK'
    <2>1. \A r \in Requests : task[r] = "new" => r \notin Scheduled(batch)
      BY <1>6 DEF DInv, UnstartedOK, Live
    <2> QED
      BY <1>2, <2>1 DEF DInv, UnstartedOK, taskVars
  <1>14. LoopOK'
    BY <1>2 DEF DInv, LoopOK
  <1>15. EndedOK'
    BY <1>2 DEF DInv, EndedOK, Ended
  <1>16. WorkerOK'
    <2>1. CASE mode = "request"
      <3>1. cache' = cache
        BY <1>1, <2>1
      <3> QED
        BY <1>2, <2>1, <3>1 DEF DInv, WorkerOK
    <2>2. CASE mode = "step"
      <3>1. PICK gone \in {{}, {r \in Scheduled(batch) : results[r] = "error"}} :
               cache' = (((cache \ batch.finished) \cup Elements(batch.new)) \ gone)
                          \ {r \in Scheduled(batch) : results[r] = "completed"}
        BY <1>1, <2>2
      <3>2. \A r \in gone : results[r] = "error"
        BY <3>1
      <3>3. /\ Elements(batch.cached) \subseteq cache
            /\ cache \subseteq Elements(batch.cached) \cup batch.finished \cup untold
        BY <1>2, <2>2 DEF DInv, WorkerOK
      <3>4. Elements(batch.new) \cup Elements(batch.cached) = Scheduled(batch)
        BY Shape
      <3>5. \A r \in Scheduled(batch) : r \notin batch.finished
        BY <1>6 DEF DInv, EndedOK, Ended, Live
      <3>6. ASSUME NEW r \in Scheduled(batch), outcome'[r] \notin {"completed", "error"}
            PROVE  r \in cache'
        <4>1. r \notin gone /\ results[r] # "completed"
          BY <1>6, <3>2, <3>6
        <4> QED
          BY <3>1, <3>3, <3>4, <3>5, <4>1
      <3>7. cache' \subseteq Scheduled(batch) \cup untold
        BY <3>1, <3>3, <3>4
      <3> QED
        BY <1>2, <2>2, <3>6, <3>7 DEF WorkerOK
    <2> QED
      BY <2>1, <2>2, EngineAssumption DEF DInv, FieldsOK
  <1>17. ProgressOK'
    <2>1. ASSUME NEW r \in Requests, Live(r), ~ progress'[r] < Steps
          PROVE  r \in Scheduled(batch) /\ outcome'[r] \in {"completed", "error"}
      <3>1. progress[r] < Steps
        BY <1>2, <2>1 DEF DInv, ProgressOK
      <3>2. mode = "step" /\ r \in Scheduled(batch)
        BY <1>2, <2>1, <3>1
      <3>3. progress[r] + 1 >= Steps
        BY <1>2, <1>8, <2>1, <3>2, EngineAssumption
      <3>4. results[r] \in Results(r)
        BY <1>1, <3>2
      <3>5. results[r] \in {"completed", "error"}
        BY <3>3, <3>4 DEF Results
      <3> QED
        BY <1>6, <3>2, <3>5
    <2> QED
      BY <1>2, <1>5, <2>1 DEF ProgressOK
  <1>18. AnswerOK'
    BY <1>2, <1>5 DEF DInv, AnswerOK, taskVars
  <1> QED
    BY <1>3, <1>12, <1>13, <1>14, <1>15, <1>16, <1>17, <1>18 DEF DInv

(* A batch fails.                                                          *)
LEMMA ExecuteFailsStep ==
    ASSUME DInv, NEW failure \in {"activation", "states", "forward"}, ExecuteFails(failure)
    PROVE  DInv'
  <1>1. /\ loop = "execute" /\ loop' = "update"
        /\ outcome' = [r \in Requests |-> IF r \in Scheduled(batch) THEN "error" ELSE "none"]
        /\ UNCHANGED <<mode, stranded, sched, aborts, batch, surfaced, emitting, progress, taskVars, closed>>
    BY DEF ExecuteFails
  <1>2. mode = "request" => UNCHANGED <<cache, untold>>
    BY DEF ExecuteFails
  <1>3. mode = "step" =>
          \/ untold' = untold \cup (cache \cap batch.finished) /\ cache' = cache
          \/ untold' = untold /\ cache' = (cache \ batch.finished) \ Elements(batch.new)
          \/ untold' = untold /\ cache' = (cache \ batch.finished) \cup Elements(batch.new)
    BY DEF ExecuteFails
  <1>4. mode \in {"step", "request"}
    BY EngineAssumption DEF DInv, FieldsOK
  <1>5. WellFormed(sched') /\ batch' \in BatchType
    BY <1>1 DEF DInv
  <1>6. Scheduled(batch) = Elements(sched.running) /\ Scheduled(batch) \subseteq Requests
    BY <1>1, Shape DEF DInv, LoopOK
  <1>7. \A r \in Requests : (Live(r)' <=> Live(r)) /\ (HasFinal(r)' <=> HasFinal(r))
    BY <1>1 DEF Live, HasFinal, taskVars
  <1>8. cache' \subseteq Requests /\ untold' \subseteq Requests
    BY <1>2, <1>3, <1>4, Shape DEF DInv, FieldsOK
  <1>9. \A r \in untold' : r \in untold \cup batch.finished
    BY <1>2, <1>3, <1>4
  <1>10. FieldsOK'
    BY <1>1, <1>8 DEF DInv, FieldsOK, taskVars
  <1>11. UnstartedOK'
    BY <1>1, <1>9 DEF DInv, UnstartedOK, taskVars
  <1>12. LoopOK'
    BY <1>1 DEF DInv, LoopOK
  <1>13. EndedOK'
    BY <1>1, <1>9 DEF DInv, EndedOK, Ended
  <1>14. WorkerOK'
    <2>1. \A r \in Scheduled(batch) : outcome'[r] = "error"
      BY <1>1, <1>6
    <2>2. CASE mode = "request"
      BY <1>1, <1>2, <2>2 DEF DInv, WorkerOK
    <2>3. CASE mode = "step"
      <3>1. cache \subseteq Elements(batch.cached) \cup batch.finished \cup untold
        BY <1>1, <2>3 DEF DInv, WorkerOK
      <3>2. Elements(batch.new) \cup Elements(batch.cached) = Scheduled(batch)
        BY Shape
      <3>3. cache' \subseteq Scheduled(batch) \cup untold'
        BY <1>3, <2>3, <3>1, <3>2
      <3> QED
        BY <1>1, <2>1, <2>3, <3>3 DEF WorkerOK
    <2> QED
      BY <1>4, <2>2, <2>3
  <1>15. ProgressOK'
    BY <1>1, <1>7 DEF DInv, ProgressOK
  <1>16. AnswerOK'
    BY <1>1, <1>7 DEF DInv, AnswerOK, taskVars
  <1> QED
    BY <1>5, <1>10, <1>11, <1>12, <1>13, <1>14, <1>15, <1>16 DEF DInv

(* What the loop keeps of a batch whose outputs it hands out.              *)
LEMMA EmitNextFacts ==
    ASSUME DInv, NEW ended \in SUBSET Requests, NEW left \in SUBSET Requests, EmitNext(ended, left)
    PROVE  /\ emitting' = left
           /\ left = {} => loop' = "top" /\ batch' = NoBatch /\ surfaced' = {}
           /\ left # {} => loop' = "emit" /\ batch' = batch /\ surfaced' = ended
           /\ loop' \in {"top", "emit"}
           /\ batch' \in BatchType /\ batch'.finished \subseteq batch.finished
           /\ Scheduled(batch') \subseteq Scheduled(batch)
           /\ surfaced' \subseteq Requests
           /\ outcome' \in [Requests -> {"none", "more", "chunk", "completed", "error"}]
  <1>1. batch \in BatchType
        /\ outcome \in [Requests -> {"none", "more", "chunk", "completed", "error"}]
    BY DEF DInv, FieldsOK
  <1>2. CASE left = {}
    <2>1. /\ emitting' = left /\ loop' = "top" /\ batch' = NoBatch /\ surfaced' = {}
          /\ outcome' = [r \in Requests |-> "none"]
      BY <1>2 DEF EmitNext
    <2> QED
      BY <1>2, <2>1, NoBatchFacts
  <1>3. CASE left # {}
    <2>1. /\ emitting' = left /\ loop' = "emit" /\ batch' = batch /\ surfaced' = ended
          /\ outcome' = outcome
      BY <1>3 DEF EmitNext
    <2> QED
      BY <1>1, <1>3, <2>1
  <1> QED
    BY <1>2, <1>3

(* The results of a batch, with the aborts that came meanwhile.            *)
LEMMA UpdateStep ==
    ASSUME DInv, UpdateFromOutput
    PROVE  DInv'
  <1> DEFINE d == Drained
             finals == {r \in Scheduled(batch) :
                          d.status[r] \in {"waiting", "running"} /\ outcome[r] \in Finished}
             ended == Surfaced(d, batch, outcome)
             chunks == {r \in Scheduled(batch) : mode = "step" /\ outcome[r] = "chunk"}
             left == ended \cup chunks
  <1>1. /\ loop = "update"
        /\ sched' = Update(d, batch, outcome)
        /\ aborts' = {}
        /\ stranded' = Stranded
        /\ EmitNext(ended, left)
        /\ UNCHANGED <<mode, workerVars, taskVars, closed>>
    BY DEF UpdateFromOutput
  <1>2. /\ Scheduled(batch) = Elements(sched.running) /\ Scheduled(batch) \subseteq Requests
        /\ sched.finished = {}
    BY <1>1, Shape DEF DInv, LoopOK
  <1>3. /\ WellFormed(d)
        /\ \A r \in Requests : d.status[r] = IF r \in aborts /\ Live(r) THEN "aborted" ELSE sched.status[r]
        /\ Elements(d.running) = Elements(sched.running) \ aborts
        /\ d.finished = {r \in aborts : Live(r)}
    BY <1>2, DrainedFacts DEF DInv, FieldsOK
  <1> HIDE DEF d
  <1>4. /\ WellFormed(sched')
        /\ \A r \in Requests : sched'.status[r] = IF r \in finals THEN outcome[r] ELSE d.status[r]
        /\ Elements(sched'.running) = Elements(d.running) \ finals
        /\ sched'.finished = d.finished \cup finals
        /\ ended = (Scheduled(batch) \cap d.finished) \cup finals
    <2> DEFINE t == Update(d, batch, outcome)
    <2>1. batch \in BatchType
      BY DEF DInv
    <2>2. /\ WellFormed(t)
          /\ \A r \in Requests : t.status[r] = IF r \in finals THEN outcome[r] ELSE d.status[r]
          /\ Elements(t.running) = Elements(d.running) \ finals
          /\ t.finished = d.finished \cup finals
          /\ ended = (Scheduled(batch) \cap d.finished) \cup finals
      BY <1>3, <2>1, UpdateFacts
    <2>3. t = sched'
      BY <1>1
    <2> HIDE DEF t, finals, ended
    <2> QED
      BY <2>2, <2>3
  <1> HIDE DEF ended
  <1>5. \A r \in Scheduled(batch) : sched.status[r] = "running" /\ Live(r)
    BY <1>2, Shape DEF Live
  <1>6. outcome \in [Requests -> {"none", "more", "chunk", "completed", "error"}]
    BY DEF DInv, FieldsOK
  <1>7. \A r \in finals : r \in Scheduled(batch) /\ r \notin aborts /\ outcome[r] \in {"completed", "error"}
    <2>1. ASSUME NEW r \in finals
          PROVE  r \in Scheduled(batch) /\ r \notin aborts /\ outcome[r] \in {"completed", "error"}
      <3>1. r \in Scheduled(batch) /\ d.status[r] # "aborted"
        OBVIOUS
      <3> QED
        BY <1>2, <1>3, <1>5, <1>6, <3>1 DEF Finished
    <2> QED
      BY <2>1
  <1>8. \A r \in Scheduled(batch) : r \notin aborts /\ outcome[r] \in {"completed", "error"} => r \in finals
    BY <1>2, <1>3, <1>5 DEF Finished
  <1> HIDE DEF finals
  <1>9. \A r \in ended : r \in Scheduled(batch) /\ (r \in aborts \/ r \in finals)
    BY <1>3, <1>4, <1>7
  <1>10. \A r \in Scheduled(batch) : r \in aborts \/ r \in finals => r \in ended
    BY <1>3, <1>4, <1>5
  <1>11. \A r \in Requests : sched'.status[r] =
            IF r \in finals THEN outcome[r]
            ELSE IF r \in aborts /\ Live(r) THEN "aborted" ELSE sched.status[r]
    BY <1>3, <1>4
  <1>12. ended \in SUBSET Requests /\ left \in SUBSET Requests
    BY <1>2, <1>9
  <1> HIDE DEF chunks
  <1>13. chunks \subseteq Scheduled(batch) /\ \A r \in chunks : outcome[r] = "chunk"
    BY DEF chunks
  <1> HIDE DEF left
  <1>14. /\ emitting' = left
         /\ left = {} => loop' = "top" /\ batch' = NoBatch /\ surfaced' = {}
         /\ left # {} => loop' = "emit" /\ batch' = batch /\ surfaced' = ended
         /\ loop' \in {"top", "emit"}
         /\ batch' \in BatchType /\ batch'.finished \subseteq batch.finished
         /\ Scheduled(batch') \subseteq Scheduled(batch)
         /\ surfaced' \subseteq Requests
         /\ outcome' \in [Requests -> {"none", "more", "chunk", "completed", "error"}]
    BY <1>1, <1>12, EmitNextFacts
  <1>15. left = ended \cup chunks
    BY DEF left
  <1>16. FieldsOK'
    BY <1>1, <1>12, <1>14, Shape DEF DInv, FieldsOK, Stranded, workerVars, taskVars
  <1>17. \A r \in Requests : HasFinal(r)' <=> HasFinal(r)
    BY <1>1 DEF HasFinal, taskVars
  <1>18. \A r \in Requests : Live(r)' <=> Live(r) /\ r \notin aborts /\ r \notin finals
    BY <1>5, <1>7, <1>11 DEF Live
  <1>19. \A r \in Requests : ~Live(r) => sched'.status[r] = sched.status[r]
    BY <1>5, <1>7, <1>11
  <1>20. UnstartedOK'
    <2>1. \A r \in Requests : task[r] = "new" => ~Live(r) /\ r \notin sched'.finished
      BY <1>3, <1>4, <1>5, <1>7 DEF DInv, UnstartedOK, Live
    <2> QED
      BY <1>1, <1>14, <1>19, <2>1 DEF DInv, UnstartedOK, workerVars, taskVars
  <1>21. LoopOK'
    <2>1. \A r \in ended : sched'.status[r] \in Finished
      BY <1>2, <1>5, <1>7, <1>9, <1>11 DEF Finished
    <2>2. ASSUME NEW r \in chunks, r \notin ended PROVE r \in Elements(sched'.running)
      <3>1. r \in Scheduled(batch) /\ r \notin aborts /\ r \notin finals
        BY <1>10, <1>13, <2>2
      <3> QED
        BY <1>2, <1>3, <1>4, <3>1
    <2>3. \A r, q \in Scheduled(batch') : KeyOf[r] = KeyOf[q]
      BY <1>14 DEF DInv, LoopOK
    <2>4. loop' = "emit" => \A r \in emitting' :
            IF r \in surfaced' THEN sched'.status[r] \in Finished ELSE r \in Elements(sched'.running)
      BY <1>14, <1>15, <2>1, <2>2
    <2>5. loop' = "top" => batch' = NoBatch /\ emitting' = {}
      BY <1>14
    <2> QED
      BY <1>14, <2>3, <2>4, <2>5 DEF LoopOK
  <1>22. EndedOK'
    <2>1. \A r \in batch.finished \cup untold : ~Live(r)
      BY DEF DInv, EndedOK, Ended, Live
    <2>2. batch.finished \cup untold \subseteq Requests
      BY Shape DEF DInv, FieldsOK
    <2>3. ASSUME NEW r \in sched'.finished \cup untold' \cup batch'.finished PROVE Ended(sched', r)
      <3>1. CASE r \in sched'.finished
        <4>1. r \in Requests /\ (r \in finals \/ (r \in aborts /\ Live(r)))
          BY <1>2, <1>3, <1>4, <1>7, <3>1, Shape DEF DInv, FieldsOK
        <4> QED
          BY <1>7, <1>11, <4>1 DEF Ended
      <3>2. CASE r \in untold' \cup batch'.finished
        <4>1. r \in Requests /\ ~Live(r)
          BY <1>1, <1>14, <2>1, <2>2, <3>2 DEF workerVars
        <4> QED
          BY <1>19, <4>1 DEF Ended, Live
      <3> QED
        BY <2>3, <3>1, <3>2
    <2>4. ASSUME NEW r \in Requests, sched'.status[r] \in Finished
          PROVE  r \in stranded' \/ (loop' = "emit" /\ r \in emitting' /\ r \in surfaced')
      <3>1. CASE r \in ended
        BY <1>14, <1>15, <3>1
      <3>2. CASE r \notin ended /\ Live(r)
        <4>1. r \in aborts /\ r \notin Scheduled(batch)
          <5>1. r \notin finals
            BY <1>7, <1>10, <3>2
          <5>2. r \in aborts
            BY <1>11, <2>4, <3>2, <5>1 DEF Live, Finished
          <5> QED
            BY <1>10, <3>2, <5>2
        <4> QED
          BY <1>1, <3>2, <4>1 DEF Stranded
      <3>3. CASE ~Live(r)
        <4>1. sched.status[r] \in Finished
          BY <1>19, <2>4, <3>3
        <4>2. r \in stranded
          BY <1>1, <4>1 DEF DInv, EndedOK
        <4> QED
          BY <1>1, <4>2 DEF Stranded
      <3> QED
        BY <3>1, <3>2, <3>3
    <2> QED
      BY <2>3, <2>4 DEF EndedOK
  <1>23. WorkerOK'
    <2>1. cache' = cache /\ untold' = untold /\ mode' = mode
      BY <1>1 DEF workerVars
    <2>2. CASE mode = "request"
      BY <1>1, <2>1, <2>2, <1>14 DEF DInv, WorkerOK
    <2>3. CASE mode = "step"
      <3>1. /\ {r \in Scheduled(batch) : outcome[r] \notin {"completed", "error"}} \subseteq cache
            /\ cache \subseteq Scheduled(batch) \cup untold
        BY <1>1, <2>3 DEF DInv, WorkerOK
      <3>2. Elements(sched'.running) = (Scheduled(batch) \ aborts) \ finals
        BY <1>2, <1>3, <1>4
      <3>3. Elements(sched'.running) \subseteq cache
        BY <1>8, <3>1, <3>2
      <3>4. Scheduled(batch) \subseteq Elements(sched'.running) \cup sched'.finished
        BY <1>3, <1>4, <1>5, <3>2
      <3>5. cache \subseteq Elements(sched'.running) \cup sched'.finished \cup untold
        BY <3>1, <3>4
      <3> QED
        BY <1>14, <2>1, <2>3, <3>3, <3>5 DEF WorkerOK
    <2>4. mode \in {"request", "step"}
      BY EngineAssumption DEF DInv, FieldsOK
    <2> QED
      BY <2>2, <2>3, <2>4
  <1>24. ProgressOK'
    <2>1. ASSUME NEW r \in Requests, Live(r)' PROVE progress[r] < Steps
      <3>1. Live(r) /\ r \notin aborts /\ r \notin finals
        BY <1>18, <2>1
      <3>2. ~ (r \in Scheduled(batch) /\ outcome[r] \in {"completed", "error"})
        BY <1>8, <3>1
      <3> QED
        BY <3>1, <3>2 DEF DInv, ProgressOK
    <2>2. progress' = progress
      BY <1>1 DEF workerVars
    <2> QED
      BY <2>1, <2>2 DEF ProgressOK
  <1>25. AnswerOK'
    <2>1. ASSUME NEW r \in Requests, task[r] = "streaming", ~HasFinal(r)
          PROVE  Live(r)' \/ (loop' = "emit" /\ r \in emitting' /\ r \in surfaced')
      <3>1. Live(r) /\ r \notin aborts
        BY <1>1, <2>1 DEF DInv, AnswerOK
      <3>2. CASE r \in finals
        BY <1>7, <1>10, <1>14, <1>15, <3>2
      <3>3. CASE r \notin finals
        BY <1>18, <3>1, <3>3
      <3> QED
        BY <3>2, <3>3
    <2>2. \A r \in Requests : sched.status[r] = "absent" => sched'.status[r] = "absent"
      BY <1>19 DEF Live
    <2> QED
      BY <1>1, <1>17, <2>1, <2>2 DEF DInv, AnswerOK, taskVars
  <1> QED
    BY <1>4, <1>14, <1>16, <1>20, <1>21, <1>22, <1>23, <1>24, <1>25 DEF DInv

(* One output is put.                                                      *)
LEMMA EmitStep ==
    ASSUME DInv, NEW r \in Requests, Emit(r)
    PROVE  DInv'
  <1> DEFINE output == IF r \in surfaced THEN sched.status[r] ELSE "chunk"
             left == emitting \ {r}
             S == {"chunk", "closed"} \cup Finished
  <1>1. /\ loop = "emit" /\ r \in emitting
        /\ outputs' = IF r \in streams THEN [outputs EXCEPT ![r] = Append(@, output)] ELSE outputs
        /\ sched' = IF r \in surfaced THEN PopState(sched, r) ELSE sched
        /\ progress' = [progress EXCEPT ![r] = IF r \in surfaced THEN 0 ELSE @]
        /\ EmitNext(surfaced, left)
        /\ UNCHANGED <<mode, stranded, aborts, cache, untold, task, streams, closed>>
    BY DEF Emit, Put
  <1>2. IF r \in surfaced THEN sched.status[r] \in Finished ELSE r \in Elements(sched.running)
    BY <1>1 DEF DInv, LoopOK
  <1>3. surfaced \in SUBSET Requests /\ left \in SUBSET Requests
    BY DEF DInv, FieldsOK
  <1>4. left = emitting \ {r}
    OBVIOUS
  <1> HIDE DEF left
  <1>5. /\ emitting' = left
        /\ left = {} => loop' = "top" /\ batch' = NoBatch /\ surfaced' = {}
        /\ left # {} => loop' = "emit" /\ batch' = batch /\ surfaced' = surfaced
        /\ loop' \in {"top", "emit"}
        /\ batch' \in BatchType /\ batch'.finished \subseteq batch.finished
        /\ Scheduled(batch') \subseteq Scheduled(batch)
        /\ surfaced' \subseteq Requests
        /\ outcome' \in [Requests -> {"none", "more", "chunk", "completed", "error"}]
    BY <1>1, <1>3, EmitNextFacts
  <1>6. /\ WellFormed(sched')
        /\ Elements(sched'.running) = Elements(sched.running)
        /\ sched'.finished = sched.finished
        /\ \A q \in Requests : sched'.status[q] =
              IF q = r /\ r \in surfaced THEN "absent" ELSE sched.status[q]
    <2>1. WellFormed(sched)
      BY DEF DInv
    <2>2. CASE r \in surfaced
      <3> DEFINE t == PopState(sched, r)
      <3>1. Ended(sched, r)
        BY <1>2, <2>2 DEF Ended, Finished
      <3>2. /\ WellFormed(t)
            /\ t.status = [sched.status EXCEPT ![r] = "absent"]
            /\ t.waiting = sched.waiting /\ t.running = sched.running
            /\ t.finished = sched.finished
        BY <2>1, <3>1, PopWellFormed
      <3>3. t = sched'
        BY <1>1, <2>2
      <3> HIDE DEF t
      <3> QED
        BY <2>2, <3>2, <3>3, Shape
    <2>3. CASE r \notin surfaced
      BY <1>1, <2>1, <2>3
    <2> QED
      BY <2>2, <2>3
  <1>7. sched.status[r] \in Finished \cup {"running"} /\ sched.status[r] # "absent"
    BY <1>2, Shape DEF Finished
  <1>8. \A q \in Requests : Live(q)' <=> Live(q)
    BY <1>2, <1>6 DEF Live, Finished
  <1>9. task[r] # "new"
    BY <1>7 DEF DInv, UnstartedOK
  <1>10. output \in S /\ (IsFinal(output) <=> r \in surfaced) /\ output # "closed"
    BY <1>2 DEF IsFinal, Finished
  <1>11. r \in streams => ~closed
    BY DEF DInv, AnswerOK
  <1>12. r \in streams => ~HasFinal(r)
    BY <1>7, <1>11 DEF DInv, AnswerOK
  <1>13. outputs \in [Requests -> Seq(S)]
    BY DEF DInv, FieldsOK
  <1> HIDE DEF output, S
  <1>14. r \in streams =>
           /\ outputs'[r] \in Seq(S)
           /\ HasFinal(r)' <=> r \in surfaced
           /\ (\A i \in DOMAIN outputs[r] :
                  i < Len(outputs[r]) /\ IsFinal(outputs[r][i]) => outputs[r][i + 1] = "closed")
                => (\A i \in DOMAIN outputs'[r] :
                  i < Len(outputs'[r]) /\ IsFinal(outputs'[r][i]) => outputs'[r][i + 1] = "closed")
    <2> SUFFICES ASSUME r \in streams
                 PROVE  /\ outputs'[r] \in Seq(S)
                        /\ HasFinal(r)' <=> r \in surfaced
                        /\ (\A i \in DOMAIN outputs[r] :
                               i < Len(outputs[r]) /\ IsFinal(outputs[r][i])
                                 => outputs[r][i + 1] = "closed")
                             => (\A i \in DOMAIN outputs'[r] :
                               i < Len(outputs'[r]) /\ IsFinal(outputs'[r][i])
                                 => outputs'[r][i + 1] = "closed")
      OBVIOUS
    <2> DEFINE seq == outputs[r]
               more == Append(seq, output)
    <2>1. outputs'[r] = more
      BY <1>1, <1>13
    <2>2. seq \in Seq(S)
      BY <1>13
    <2>3. ~ \E i \in DOMAIN seq : IsFinal(seq[i])
      BY <1>12 DEF HasFinal
    <2> HIDE DEF seq
    <2>4. /\ more \in Seq(S)
          /\ (\E i \in DOMAIN more : IsFinal(more[i]))
               <=> (\E i \in DOMAIN seq : IsFinal(seq[i])) \/ IsFinal(output)
          /\ (\A i \in DOMAIN seq : i < Len(seq) /\ IsFinal(seq[i]) => seq[i + 1] = "closed")
               /\ (output = "closed" \/ ~ \E i \in DOMAIN seq : IsFinal(seq[i]))
               => (\A i \in DOMAIN more : i < Len(more) /\ IsFinal(more[i]) => more[i + 1] = "closed")
      BY <1>10, <2>2, PutFacts
    <2> HIDE DEF more
    <2>5. HasFinal(r)' <=> \E i \in DOMAIN more : IsFinal(more[i])
      BY <2>1 DEF HasFinal
    <2> QED
      BY <1>10, <2>1, <2>3, <2>4, <2>5 DEF seq
  <1>15. \A q \in Requests : q # r \/ r \notin streams => outputs'[q] = outputs[q]
    BY <1>1, <1>13
  <1>16. \A q \in Requests : q # r \/ r \notin streams => (HasFinal(q)' <=> HasFinal(q))
    BY <1>15 DEF HasFinal
  <1>17. outputs' \in [Requests -> Seq(S)]
    <2>1. CASE r \in streams
      <3>1. \A q \in Requests : outputs'[q] \in Seq(S)
        BY <1>13, <1>14, <1>15, <2>1
      <3>2. outputs' = [q \in Requests |-> outputs'[q]]
        BY <1>1, <1>13, <2>1
      <3> QED
        BY <3>1, <3>2
    <2>2. CASE r \notin streams
      BY <1>1, <1>13, <2>2
    <2> QED
      BY <2>1, <2>2
  <1>18. \A q \in Requests : progress'[q] = IF q = r /\ r \in surfaced THEN 0 ELSE progress[q]
    BY <1>1 DEF DInv, FieldsOK
  <1>19. FieldsOK'
    <2>1. progress' \in [Requests -> 0..Steps]
      BY <1>1, EngineAssumption DEF DInv, FieldsOK
    <2>2. outputs' \in [Requests -> Seq({"chunk", "closed"} \cup Finished)]
      BY <1>17 DEF S
    <2> QED
      BY <1>1, <1>3, <1>5, <2>1, <2>2 DEF DInv, FieldsOK
  <1>20. UnstartedOK'
    BY <1>1, <1>5, <1>6, <1>9, <1>15, <1>18 DEF DInv, UnstartedOK
  <1>21. LoopOK'
    <2>1. \A p, q \in Scheduled(batch') : KeyOf[p] = KeyOf[q]
      BY <1>5 DEF DInv, LoopOK
    <2>2. loop' = "emit" => \A q \in emitting' :
            IF q \in surfaced' THEN sched'.status[q] \in Finished ELSE q \in Elements(sched'.running)
      BY <1>1, <1>3, <1>4, <1>5, <1>6 DEF DInv, LoopOK
    <2>3. loop' = "top" => batch' = NoBatch /\ emitting' = {}
      BY <1>5
    <2> QED
      BY <1>5, <2>1, <2>2, <2>3 DEF LoopOK
  <1>22. EndedOK'
    <2>1. ASSUME NEW q \in sched'.finished \cup untold' \cup batch'.finished PROVE Ended(sched', q)
      <3>1. q \in Requests /\ ~Live(q)
        BY <1>1, <1>5, <1>6, <2>1, Shape DEF DInv, FieldsOK, EndedOK, Ended, Live
      <3> QED
        BY <1>8, <3>1 DEF Ended, Live
    <2>2. ASSUME NEW q \in Requests, sched'.status[q] \in Finished
          PROVE  q \in stranded' \/ (loop' = "emit" /\ q \in emitting' /\ q \in surfaced')
      <3>1. ~ (q = r /\ r \in surfaced) /\ sched.status[q] \in Finished
        BY <1>6, <2>2 DEF Finished
      <3>2. CASE q \in stranded
        BY <1>1, <3>2
      <3>3. CASE q \in emitting /\ q \in surfaced
        BY <1>4, <1>5, <3>1, <3>3
      <3> QED
        BY <3>1, <3>2, <3>3 DEF DInv, EndedOK
    <2> QED
      BY <2>1, <2>2 DEF EndedOK
  <1>23. WorkerOK'
    BY <1>1, <1>5, <1>6 DEF DInv, WorkerOK
  <1>24. ProgressOK'
    <2>1. ASSUME NEW q \in Requests, Live(q)' PROVE progress'[q] < Steps
      <3>1. Live(q)
        BY <1>8, <2>1
      <3>2. progress[q] < Steps
        BY <1>1, <3>1 DEF DInv, ProgressOK
      <3> QED
        BY <1>18, <3>2, EngineAssumption
    <2> QED
      BY <2>1 DEF ProgressOK
  <1>25. AnswerOK'
    <2>1. ASSUME NEW q \in Requests, task[q] = "streaming"
          PROVE  Live(q)' \/ HasFinal(q)' \/ (loop' = "emit" /\ q \in emitting' /\ q \in surfaced')
      <3>1. CASE Live(q)
        BY <1>8, <3>1
      <3>2. CASE HasFinal(q)
        <4>1. q # r \/ r \notin streams
          BY <1>12, <3>2
        <4> QED
          BY <1>16, <3>2, <4>1
      <3>3. CASE q \in emitting /\ q \in surfaced /\ q # r
        BY <1>4, <1>5, <3>3
      <3>4. CASE q \in surfaced /\ q = r
        <4>1. CASE closed
          <5>1. HasFinal(q)
            BY <2>1, <4>1 DEF DInv, AnswerOK
          <5> QED
            BY <3>2, <5>1
        <4>2. CASE ~closed
          <5>1. r \in streams
            BY <2>1, <3>4, <4>2 DEF DInv, AnswerOK
          <5> QED
            BY <1>14, <3>4, <5>1
        <4> QED
          BY <4>1, <4>2
      <3> QED
        BY <2>1, <3>1, <3>2, <3>3, <3>4 DEF DInv, AnswerOK
    <2>2. ASSUME NEW q \in Requests, ~closed, HasFinal(q)' PROVE sched'.status[q] = "absent"
      <3>1. CASE q # r \/ r \notin streams
        <4>1. sched.status[q] = "absent"
          BY <1>16, <2>2, <3>1 DEF DInv, AnswerOK
        <4> QED
          BY <1>6, <4>1
      <3>2. CASE q = r /\ r \in streams
        BY <1>6, <1>14, <2>2, <3>2
      <3> QED
        BY <3>1, <3>2
    <2>3. ASSUME NEW q \in Requests
          PROVE  \A i \in DOMAIN outputs'[q] :
                   i < Len(outputs'[q]) /\ IsFinal(outputs'[q][i]) => outputs'[q][i + 1] = "closed"
      <3>1. \A i \in DOMAIN outputs[q] :
              i < Len(outputs[q]) /\ IsFinal(outputs[q][i]) => outputs[q][i + 1] = "closed"
        BY DEF DInv, AnswerOK
      <3>2. CASE q # r \/ r \notin streams
        BY <1>15, <3>1, <3>2
      <3>3. CASE q = r /\ r \in streams
        BY <1>14, <3>1, <3>3
      <3> QED
        BY <3>2, <3>3
    <2>4. ASSUME NEW q \in Requests, task[q] = "streaming", closed PROVE HasFinal(q)'
      <3>1. HasFinal(q) /\ r \notin streams
        BY <1>11, <2>4 DEF DInv, AnswerOK
      <3> QED
        BY <1>16, <3>1
    <2> QED
      BY <1>1, <2>1, <2>2, <2>3, <2>4 DEF DInv, AnswerOK
  <1> QED
    BY <1>5, <1>6, <1>19, <1>20, <1>21, <1>22, <1>23, <1>24, <1>25 DEF DInv

-----------------------------------------------------------------------------
(* The theorems.                                                           *)

(* Every step preserves the invariant.                                     *)
LEMMA NextDInv ==
    DInv /\ [Next]_vars => DInv'
  <1> SUFFICES ASSUME DInv, [Next]_vars PROVE DInv'
    OBVIOUS
  <1>1. ASSUME NEW r \in Requests, Abort(r) PROVE DInv'
    BY <1>1, AbortStep
  <1>2. ASSUME NEW r \in Requests, TaskStep(r) PROVE DInv'
    BY <1>2, AddStep, AddClosedStep, EndTaskStep DEF TaskStep
  <1>3. CASE LoopStep
    <2>1. CASE BeginRound
      BY <2>1, BeginRoundStep
    <2>2. CASE Wake
      BY <2>2, WakeStep
    <2>3. CASE ScheduleBatch
      BY <2>3, ScheduleStep
    <2>4. CASE ExecuteBatch
      BY <2>4, ExecuteStep
    <2>5. ASSUME NEW failure \in {"activation", "states", "forward"}, ExecuteFails(failure)
          PROVE  DInv'
      BY <2>5, ExecuteFailsStep
    <2>6. CASE UpdateFromOutput
      BY <2>6, UpdateStep
    <2>7. ASSUME NEW r \in Requests, Emit(r) PROVE DInv'
      BY <2>7, EmitStep
    <2> QED
      BY <1>3, <2>1, <2>2, <2>3, <2>4, <2>5, <2>6, <2>7 DEF LoopStep
  <1>4. CASE Close
    BY <1>4, CloseStep
  <1>5. CASE Shutdown
    BY <1>5, ShutdownStep
  <1>6. CASE UNCHANGED vars
    <2>1. /\ UNCHANGED <<mode, stranded, sched, loopVars, workerVars>>
          /\ UNCHANGED <<aborts, task, streams, outputs, closed>>
      BY <1>6 DEF vars, taskVars
    <2>2. /\ WellFormed(sched') /\ batch' \in BatchType
          /\ LoopOK' /\ EndedOK' /\ WorkerOK' /\ ProgressOK'
          /\ \A r \in Requests : Live(r)' <=> Live(r)
      BY <2>1, SameLoop
    <2>3. FieldsOK'
      BY <2>1 DEF DInv, FieldsOK, loopVars, workerVars
    <2>4. UnstartedOK'
      BY <2>1 DEF DInv, UnstartedOK, loopVars, workerVars
    <2>5. \A r \in Requests : HasFinal(r)' <=> HasFinal(r)
      BY <2>1 DEF HasFinal
    <2>6. AnswerOK'
      BY <2>1, <2>2, <2>5 DEF DInv, AnswerOK, loopVars
    <2> QED
      BY <2>2, <2>3, <2>4, <2>6 DEF DInv
  <1> QED
    BY <1>1, <1>2, <1>3, <1>4, <1>5, <1>6 DEF Next

(* The invariant holds of the specification.                               *)
LEMMA DInvHolds ==
    Spec => []DInv
  <1> QED
    BY InitDInv, NextDInv, PTL DEF Spec

(* What the invariant says of the batches.                                 *)
LEMMA DInvBatchCompatible ==
    DInv => BatchCompatible
  <1> SUFFICES ASSUME DInv PROVE BatchCompatible
    OBVIOUS
  <1>1. /\ Len(sched.running) <= MaxRunning
        /\ \A r \in Elements(sched.running) : KeyOf[r] = sched.key
    BY DEF DInv, WellFormed
  <1>2. \A r, q \in Scheduled(batch) : KeyOf[r] = KeyOf[q]
    BY DEF DInv, LoopOK
  <1> QED
    BY <1>1, <1>2 DEF BatchCompatible

(* What the invariant says of the worker.                                  *)
LEMMA DInvCacheTracked ==
    DInv => CacheTracked
  <1> SUFFICES ASSUME DInv PROVE CacheTracked
    OBVIOUS
  <1>1. mode \in {"step", "request"}
    BY EngineAssumption DEF DInv, FieldsOK
  <1>2. CASE mode = "request"
    <2>1. cache = {}
      BY <1>2 DEF DInv, WorkerOK
    <2> QED
      BY <1>2, <2>1 DEF CacheTracked, Mismatch
  <1>3. CASE mode = "step"
    <2>1. Idle => cache \subseteq Elements(sched.running) \cup sched.finished \cup untold
      BY <1>3 DEF DInv, WorkerOK, Idle
    <2>2. ASSUME loop = "execute" PROVE ~Mismatch
      <3>1. /\ Elements(batch.cached) \subseteq cache
            /\ cache \subseteq Elements(batch.cached) \cup batch.finished \cup untold
            /\ Elements(batch.cached) \cap Elements(batch.new) = {}
        BY <1>3, <2>2 DEF DInv, WorkerOK
      <3>2. Elements(batch.new) \cup Elements(batch.cached) = Elements(sched.running)
        BY <2>2, Shape DEF DInv, LoopOK
      <3>3. \A r \in Elements(sched.running) : r \notin batch.finished /\ r \notin untold
        BY Shape DEF DInv, EndedOK, Ended
      <3> QED
        BY <3>1, <3>2, <3>3 DEF Mismatch
    <2> QED
      BY <2>1, <2>2 DEF CacheTracked
  <1> QED
    BY <1>1, <1>2, <1>3

(* What the invariant says of the consumers, and of what has ended.        *)
LEMMA DInvAnswered ==
    DInv => ConsumerAnswered /\ EndedIsReleased
  <1> SUFFICES ASSUME DInv PROVE ConsumerAnswered /\ EndedIsReleased
    OBVIOUS
  <1>1. ConsumerAnswered
    BY DEF DInv, AnswerOK, ConsumerAnswered, Idle
  <1>2. EndedIsReleased
    BY DEF DInv, EndedOK, EndedIsReleased, Idle
  <1> QED
    BY <1>1, <1>2

(* The engine's state has the types of its variables, and the scheduler's  *)
(* two queues hold the requests of their status, each of them once.        *)
THEOREM EngineTypeCorrect == Spec => []TypeOK
  <1> QED
    BY DInvHolds, DInvTypeOK, PTL

(* What runs together has one sampling parameters key and fits, also when  *)
(* aborts have emptied the batch and the next one has another key          *)
(* (_can_schedule_waiting, _finish_requests).                              *)
THEOREM OneKeyPerBatch == Spec => []BatchCompatible
  <1> QED
    BY DInvHolds, DInvBatchCompatible, PTL

(* The worker's state cache never holds a request that will not run again  *)
(* and that it will not be told of, but for the evictions lost with a      *)
(* batch; and the states a batch asks for are in it (_update_states).      *)
THEOREM CacheFollowsScheduler == Spec => []CacheTracked
  <1> QED
    BY DInvHolds, DInvCacheTracked, PTL

(* A consumer is never left without a last output and without a request    *)
(* that will give it one, and gets nothing but the error of close() after  *)
(* a last output.                                                          *)
THEOREM EveryConsumerAnswered == Spec => []ConsumerAnswered
  <1> QED
    BY DInvHolds, DInvAnswered, PTL

(* A request that ended leaves no state in the scheduler between two       *)
(* rounds, unless it was aborted while it was in no batch.                 *)
THEOREM SchedulerForgets == Spec => []EndedIsReleased
  <1> QED
    BY DInvHolds, DInvAnswered, PTL

===============================================================================
