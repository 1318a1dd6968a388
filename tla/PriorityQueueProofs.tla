------------------------ MODULE PriorityQueueProofs ------------------------
(***************************************************************************)
(* Lemmas about PriorityQueue: what queueAdd and queueDel do to the        *)
(* sequence, for every sequence, and that they do the same to the          *)
(* pointers, for every list that the pointers can make.                    *)
(***************************************************************************)
EXTENDS PriorityQueue, WellFoundedInduction, TLAPS

USE ZenonT(5), SMTT(60), SMTT(90)

(***************************************************************************)
(* A set of naturals that is not empty has a least element, which is Least.*)
(***************************************************************************)
LEMMA LeastProperties ==
  ASSUME NEW T \in SUBSET Nat, T # {}
  PROVE  Least(T) \in T /\ \A y \in T : Least(T) <= y
<1>1. \E x \in T : \A y \in T : ~(<<y, x>> \in OpToRel(<, Nat))
  BY NatLessThanWellFounded, WFMin, ZenonT(60)
<1>2. PICK x \in T : \A y \in T : ~(<<y, x>> \in OpToRel(<, Nat))
  BY <1>1, ZenonT(60)
<1>3. \A y \in T : ~(y < x)
  BY <1>2, ZenonT(60) DEF OpToRel
<1>4. \A y \in T : x <= y
  BY <1>3
<1> QED
  BY <1>4, ZenonT(60) DEF Least

(***************************************************************************)
(* The first member of a set of positions, or the position after the last. *)
(***************************************************************************)
LEMMA FirstPosition ==
  ASSUME NEW N \in Nat, N >= 1, NEW T \in SUBSET (2..N)
  PROVE  LET p == IF T = {} THEN N + 1 ELSE Least(T) IN
         /\ p \in 2..(N + 1)
         /\ \A i \in 2..(p - 1) : i \in 2..N /\ i \notin T
         /\ p <= N => p \in T
<1>1. CASE T = {}
  BY <1>1
<1>2. CASE T # {}
  <2>1. T \in SUBSET Nat
    BY SMTT(30)
  <2>2. Least(T) \in T /\ \A y \in T : Least(T) <= y
    BY <1>2, <2>1, LeastProperties
  <2> DEFINE m == Least(T)
  <2> HIDE DEF m
  <2>3. m \in 2..N /\ m \in T /\ \A y \in T : m <= y
    BY <2>2, ZenonT(60) DEF m
  <2>4. \A i \in 2..(m - 1) : i \in 2..N /\ i \notin T
    BY <2>3
  <2> QED
    BY <1>2, <2>3, <2>4 DEF m
<1> QED
  BY <1>1, <1>2

(***************************************************************************)
(* The position where queueAdd's loop stops: after the first node, behind  *)
(* all later deadlines, in front of the first one that is not later.       *)
(***************************************************************************)
LEMMA InsertPosProperties ==
  ASSUME NEW S, NEW q \in Seq(S), q # <<>>, NEW end \in [S -> Nat], NEW n \in S
  PROVE  LET p == InsertPos(q, end, n) IN
         /\ p \in 2..(Len(q) + 1)
         /\ \A i \in 2..(p - 1) : end[n] < end[q[i]]
         /\ p <= Len(q) => end[n] >= end[q[p]]
<1> DEFINE N == Len(q)
           T == {i \in 2..N : end[n] >= end[q[i]]}
           p == IF T = {} THEN N + 1 ELSE Least(T)
<1>1. N \in Nat /\ N >= 1
  OBVIOUS
<1>2. end[n] \in Nat /\ \A i \in 1..N : end[q[i]] \in Nat
  BY SMTT(30)
<1>3. T \in SUBSET (2..N)
  BY ZenonT(60)
<1>4. InsertPos(q, end, n) = p
  BY ZenonT(60) DEF InsertPos
<1>5. /\ p \in 2..(N + 1)
      /\ \A i \in 2..(p - 1) : i \in 2..N /\ i \notin T
      /\ p <= N => p \in T
  <2> HIDE DEF N, T
  <2> QED
    BY <1>1, <1>3, FirstPosition, ZenonT(60)
<1> HIDE DEF N, p
<1>6. \A i \in 2..(p - 1) : i \in 1..N /\ ~(end[n] >= end[q[i]])
  BY <1>1, <1>5, SMTT(30)
<1>7. \A i \in 2..(p - 1) : end[n] < end[q[i]]
  BY <1>2, <1>6
<1>8. p <= N => end[n] >= end[q[p]]
  BY <1>5, ZenonT(60)
<1> QED
  BY <1>4, <1>5, <1>7, <1>8, ZenonT(60) DEF N

(***************************************************************************)
(* r is q with n between the nodes p-1 and p of q; r is q without node p.  *)
(***************************************************************************)
Inserts(r, q, N, p, n) ==
    \A i \in 1..(N + 1) :
       r[i] = IF i < p THEN q[i] ELSE IF i = p THEN n ELSE q[i - 1]

Removes(r, q, N, p) ==
    \A i \in 1..(N - 1) : r[i] = IF i < p THEN q[i] ELSE q[i + 1]

LEMMA Joined ==
  ASSUME NEW S, NEW a \in Seq(S), NEW b \in Seq(S)
  PROVE  /\ a \o b \in Seq(S) /\ Len(a \o b) = Len(a) + Len(b)
         /\ \A i \in 1..(Len(a) + Len(b)) :
               (a \o b)[i] = IF i <= Len(a) THEN a[i] ELSE b[i - Len(a)]
OBVIOUS

(***************************************************************************)
(* LinkAt puts one element between two others and shifts the rest.         *)
(***************************************************************************)
LEMMA LinkAtElements ==
  ASSUME NEW S, NEW q \in Seq(S), NEW n \in S, NEW p \in 1..(Len(q) + 1)
  PROVE  /\ LinkAt(q, p, n) \in Seq(S)
         /\ Len(LinkAt(q, p, n)) = Len(q) + 1
         /\ Inserts(LinkAt(q, p, n), q, Len(q), p, n)
<1> DEFINE a == SubSeq(q, 1, p - 1)
           b == SubSeq(q, p, Len(q))
<1>1. /\ a \in Seq(S)
      /\ Len(a) = p - 1
      /\ \A i \in 1..(p - 1) : a[i] = q[i]
  OBVIOUS
<1>2. /\ b \in Seq(S)
      /\ Len(b) = Len(q) - p + 1
      /\ \A i \in 1..(Len(q) - p + 1) : b[i] = q[p + i - 1]
  OBVIOUS
<1>3. <<n>> \in Seq(S) /\ Len(<<n>>) = 1 /\ <<n>>[1] = n
  OBVIOUS
<1> HIDE DEF a, b
<1>4. /\ a \o <<n>> \in Seq(S)
      /\ Len(a \o <<n>>) = p
      /\ \A i \in 1..p : (a \o <<n>>)[i] = IF i < p THEN q[i] ELSE n
  BY <1>1, <1>3, Joined, SMTT(30)
<1>5. /\ (a \o <<n>>) \o b \in Seq(S)
      /\ Len((a \o <<n>>) \o b) = Len(q) + 1
      /\ \A i \in 1..(Len(q) + 1) : ((a \o <<n>>) \o b)[i] =
            IF i <= p THEN (a \o <<n>>)[i] ELSE b[i - p]
  <2>1. p + Len(b) = Len(q) + 1
    BY <1>2
  <2>2. b \in Seq(S) /\ a \o <<n>> \in Seq(S) /\ Len(a \o <<n>>) = p
    BY ONLY <1>2, <1>4
  <2>3. /\ (a \o <<n>>) \o b \in Seq(S)
        /\ Len((a \o <<n>>) \o b) = Len(a \o <<n>>) + Len(b)
        /\ \A i \in 1..(Len(a \o <<n>>) + Len(b)) : ((a \o <<n>>) \o b)[i] =
              IF i <= Len(a \o <<n>>) THEN (a \o <<n>>)[i] ELSE b[i - Len(a \o <<n>>)]
    BY ONLY <2>2, Joined, ZenonT(60)
  <2>4. Len(a \o <<n>>) = p
    BY ONLY <2>2
  <2> QED
    BY ONLY <2>1, <2>3, <2>4, ZenonT(60)
<1>6. \A i \in 1..(Len(q) + 1) : i > p => b[i - p] = q[i - 1]
  BY <1>2
<1>7. LinkAt(q, p, n) = (a \o <<n>>) \o b
  BY DEF LinkAt, a, b
<1>8. /\ LinkAt(q, p, n) \in Seq(S)
      /\ Len(LinkAt(q, p, n)) = Len(q) + 1
      /\ \A i \in 1..(Len(q) + 1) : LinkAt(q, p, n)[i] =
            IF i <= p THEN (a \o <<n>>)[i] ELSE b[i - p]
  BY ONLY <1>5, <1>7, ZenonT(60)
<1>9. Len(q) \in Nat
  OBVIOUS
<1>10. \A i \in 1..p : (a \o <<n>>)[i] = IF i < p THEN q[i] ELSE n
  BY ONLY <1>4
<1> DEFINE x == a \o <<n>>
<1>11. Inserts(LinkAt(q, p, n), q, Len(q), p, n)
  <2>1. \A i \in 1..(Len(q) + 1) : LinkAt(q, p, n)[i] = IF i <= p THEN x[i] ELSE b[i - p]
    BY ONLY <1>8, ZenonT(60)
  <2>2. \A i \in 1..p : x[i] = IF i < p THEN q[i] ELSE n
    BY ONLY <1>10, ZenonT(60)
  <2> HIDE DEF x
  <2> QED
    BY ONLY p \in 1..(Len(q) + 1), <1>6, <1>9, <2>1, <2>2, SMTT(60) DEF Inserts
<1> QED
  BY ONLY <1>8, <1>11

LEMMA UnlinkAtElements ==
  ASSUME NEW S, NEW q \in Seq(S), NEW p \in 1..Len(q)
  PROVE  /\ UnlinkAt(q, p) \in Seq(S)
         /\ Len(UnlinkAt(q, p)) = Len(q) - 1
         /\ Removes(UnlinkAt(q, p), q, Len(q), p)
<1> DEFINE a == SubSeq(q, 1, p - 1)
           b == SubSeq(q, p + 1, Len(q))
<1>1. /\ a \in Seq(S)
      /\ Len(a) = p - 1
      /\ \A i \in 1..(p - 1) : a[i] = q[i]
  OBVIOUS
<1>2. /\ b \in Seq(S)
      /\ Len(b) = Len(q) - p
      /\ \A i \in 1..(Len(q) - p) : b[i] = q[p + i]
  OBVIOUS
<1> HIDE DEF a, b
<1>3. /\ a \o b \in Seq(S)
      /\ Len(a \o b) = Len(q) - 1
      /\ \A i \in 1..(Len(q) - 1) : (a \o b)[i] =
            IF i <= p - 1 THEN a[i] ELSE b[i - (p - 1)]
  <2>1. (p - 1) + Len(b) = Len(q) - 1
    BY <1>2
  <2>2. b \in Seq(S) /\ a \in Seq(S) /\ Len(a) = p - 1
    BY ONLY <1>1, <1>2
  <2>3. /\ a \o b \in Seq(S)
        /\ Len(a \o b) = Len(a) + Len(b)
        /\ \A i \in 1..(Len(a) + Len(b)) : (a \o b)[i] =
              IF i <= Len(a) THEN a[i] ELSE b[i - Len(a)]
    BY ONLY <2>2, Joined, ZenonT(60)
  <2> QED
    BY ONLY <2>1, <2>2, <2>3, ZenonT(60)
<1>4. \A i \in 1..(Len(q) - 1) : i >= p => b[i - (p - 1)] = q[i + 1]
  BY <1>2, SMTT(30)
<1>5. UnlinkAt(q, p) = a \o b
  BY DEF UnlinkAt, a, b
<1>6. /\ UnlinkAt(q, p) \in Seq(S)
      /\ Len(UnlinkAt(q, p)) = Len(q) - 1
      /\ \A i \in 1..(Len(q) - 1) : UnlinkAt(q, p)[i] =
            IF i <= p - 1 THEN a[i] ELSE b[i - (p - 1)]
  BY ONLY <1>3, <1>5, ZenonT(60)
<1>7. Len(q) \in Nat
  OBVIOUS
<1>8. Removes(UnlinkAt(q, p), q, Len(q), p)
  <2>1. /\ \A i \in 1..(Len(q) - 1) : UnlinkAt(q, p)[i] =
              IF i <= p - 1 THEN a[i] ELSE b[i - (p - 1)]
        /\ \A i \in 1..(p - 1) : a[i] = q[i]
    BY ONLY <1>1, <1>6
  <2> QED
    BY ONLY p \in 1..Len(q), <1>4, <1>7, <2>1, SMTT(60) DEF Removes
<1> QED
  BY ONLY <1>6, <1>8

(***************************************************************************)
(* queueDel of a linked node removes it where it is.                       *)
(***************************************************************************)
LEMMA QueueDelPosition ==
  ASSUME NEW S, NEW q \in Seq(S), NoDuplicates(q), NEW p \in 1..Len(q)
  PROVE  QueueDel(q, q[p]) = UnlinkAt(q, p)
<1>1. \A i \in 1..Len(q) : q[i] = q[p] <=> i = p
  BY DEF NoDuplicates
<1>2. (CHOOSE i \in 1..Len(q) : q[i] = q[p]) = p
  BY <1>1
<1>3. q[p] \in Range(q)
  BY DEF Range
<1> QED
  BY <1>2, <1>3, ZenonT(60) DEF QueueDel

LEMMA QueueDelUnlinked ==
  ASSUME NEW S, NEW q \in Seq(S), NEW n, n \notin Range(q)
  PROVE  QueueDel(q, n) = q
BY DEF QueueDel

(***************************************************************************)
(* Where the nodes go, for lists seen as functions on 1..N: what is in     *)
(* them, that no node is in them twice, and their order from the second on.*)
(***************************************************************************)
Image(q, N) == {q[i] : i \in 1..N}

Distinct(q, N) == \A i, j \in 1..N : q[i] = q[j] => i = j

Descending(q, N, end) ==
    \A i, j \in 1..N : 2 <= i /\ i < j => end[q[i]] >= end[q[j]]

LEMMA SeqAsFunction ==
  ASSUME NEW S, NEW q \in Seq(S), NEW end
  PROVE  /\ Len(q) \in Nat
         /\ Range(q) = Image(q, Len(q))
         /\ NoDuplicates(q) <=> Distinct(q, Len(q))
         /\ TailSorted(q, end) <=> Descending(q, Len(q), end)
<1>1. Len(q) \in Nat /\ DOMAIN q = 1..Len(q)
  OBVIOUS
<1>2. Range(q) = Image(q, Len(q))
  BY <1>1, ZenonT(60) DEF Range, Image
<1>3. NoDuplicates(q) <=> Distinct(q, Len(q))
  BY ZenonT(60) DEF NoDuplicates, Distinct
<1>4. TailSorted(q, end) <=> Descending(q, Len(q), end)
  BY ZenonT(60) DEF TailSorted, SortedFrom, Descending
<1> QED
  BY <1>1, <1>2, <1>3, <1>4, ZenonT(60)

LEMMA Inserted ==
  ASSUME NEW N \in Nat, NEW p \in 2..(N + 1), NEW q, NEW r, NEW n,
         Inserts(r, q, N, p, n)
  PROVE  /\ Image(r, N + 1) = Image(q, N) \cup {n}
         /\ n \notin Image(q, N) /\ Distinct(q, N) => Distinct(r, N + 1)
<1> DEFINE from(i) == IF i < p THEN i ELSE i - 1
<1>1. p \in 1..(N + 1) /\ r[p] = n
  BY DEF Inserts
<1>2. \A i \in 1..(N + 1) : i # p => from(i) \in 1..N /\ r[i] = q[from(i)]
  BY DEF Inserts
<1>3. \A i, j \in 1..(N + 1) : i # p /\ j # p /\ from(i) = from(j) => i = j
  OBVIOUS
<1>4. \A k \in 1..N : \E i \in 1..(N + 1) : r[i] = q[k]
  <2> TAKE k \in 1..N
  <2>1. CASE k < p
    <3>1. k \in 1..(N + 1) /\ r[k] = q[k]
      BY <2>1 DEF Inserts
    <3> QED
      BY <3>1, ZenonT(60)
  <2>2. CASE k >= p
    <3>1. k + 1 \in 1..(N + 1) /\ r[k + 1] = q[k]
      BY <2>2 DEF Inserts
    <3> QED
      BY <3>1, ZenonT(60)
  <2> QED
    BY <2>1, <2>2
<1> HIDE DEF from
<1>5. Image(r, N + 1) = Image(q, N) \cup {n}
  <2>1. \A i \in 1..(N + 1) : r[i] \in Image(q, N) \cup {n}
    BY <1>1, <1>2, ZenonT(60) DEF Image
  <2>2. \A k \in 1..N : q[k] \in Image(r, N + 1)
    BY <1>4, ZenonT(60) DEF Image
  <2>3. n \in Image(r, N + 1)
    BY <1>1, ZenonT(60) DEF Image
  <2> QED
    BY <2>1, <2>2, <2>3, ZenonT(60) DEF Image
<1>6. ASSUME n \notin Image(q, N), Distinct(q, N) PROVE Distinct(r, N + 1)
  <2>1. \A i \in 1..(N + 1) : r[i] = n => i = p
    BY <1>2, <1>6, ZenonT(60) DEF Image
  <2> QED
    BY <1>1, <1>2, <1>3, <1>6, <2>1 DEF Distinct
<1> QED
  BY <1>5, <1>6, ZenonT(60)

(***************************************************************************)
(* A node that goes behind all later deadlines keeps the order.            *)
(***************************************************************************)
LEMMA InsertedInOrder ==
  ASSUME NEW N \in Nat, NEW p \in 2..(N + 1), NEW q, NEW r, NEW n, NEW end,
         Inserts(r, q, N, p, n), Descending(q, N, end),
         end[n] \in Nat, \A i \in 1..N : end[q[i]] \in Nat,
         \A i \in 2..(p - 1) : end[n] < end[q[i]],
         p <= N => end[n] >= end[q[p]]
  PROVE  Descending(r, N + 1, end)
<1> DEFINE v(i) == end[r[i]]
           w(i) == end[q[i]]
           e == end[n]
<1>1. /\ e \in Nat /\ \A i \in 1..N : w(i) \in Nat
      /\ \A i \in 2..(p - 1) : e < w(i)
      /\ p <= N => e >= w(p)
  BY ZenonT(60)
<1>2. \A i, j \in 1..N : 2 <= i /\ i < j => w(i) >= w(j)
  BY ZenonT(60) DEF Descending
<1>3. \A i \in 1..(N + 1) : v(i) = IF i < p THEN w(i) ELSE IF i = p THEN e ELSE w(i - 1)
  BY DEF Inserts
<1>4. SUFFICES \A i, j \in 1..(N + 1) : 2 <= i /\ i < j => v(i) >= v(j)
  BY <1>4, ZenonT(60) DEF Descending
<1> HIDE DEF v, w, e
<1>5. SUFFICES ASSUME NEW i \in 1..(N + 1), NEW j \in 1..(N + 1), 2 <= i, i < j
               PROVE  v(i) >= v(j)
  BY <1>5, ZenonT(60)
<1>6. \A k \in 1..N : p <= k => e >= w(k)
  BY <1>1, <1>2
<1>7. CASE j < p
  <2>1. v(i) = w(i) /\ v(j) = w(j) /\ i \in 1..N /\ j \in 1..N
    BY <1>3, <1>5, <1>7
  <2> QED
    BY <1>2, <1>5, <2>1
<1>8. CASE j = p
  <2>1. v(i) = w(i) /\ v(j) = e /\ i \in 2..(p - 1) /\ i \in 1..N
    BY <1>3, <1>5, <1>8
  <2> QED
    BY <1>1, <2>1
<1>9. CASE i < p /\ p < j
  <2>1. v(i) = w(i) /\ v(j) = w(j - 1) /\ i \in 1..N /\ j - 1 \in 1..N /\ i <= j - 1
    BY <1>3, <1>5, <1>9
  <2> QED
    BY <1>1, <1>2, <1>5, <2>1
<1>10. CASE i = p
  <2>1. v(i) = e /\ v(j) = w(j - 1) /\ j - 1 \in 1..N /\ p <= j - 1
    BY <1>3, <1>5, <1>10
  <2> QED
    BY <1>6, <2>1
<1>11. CASE i > p
  <2>1. /\ v(i) = w(i - 1) /\ i - 1 \in 1..N /\ 2 <= i - 1
        /\ v(j) = w(j - 1) /\ j - 1 \in 1..N /\ i - 1 < j - 1
    BY <1>3, <1>5, <1>11
  <2> QED
    BY <1>2, <2>1
<1> QED
  BY <1>5, <1>7, <1>8, <1>9, <1>10, <1>11

LEMMA Removed ==
  ASSUME NEW N \in Nat, NEW p \in 1..N, NEW q, NEW r, NEW end,
         Removes(r, q, N, p), Distinct(q, N)
  PROVE  /\ Image(r, N - 1) = Image(q, N) \ {q[p]}
         /\ Distinct(r, N - 1)
         /\ Descending(q, N, end) => Descending(r, N - 1, end)
<1> DEFINE from(i) == IF i < p THEN i ELSE i + 1
<1>1. \A i \in 1..(N - 1) : /\ from(i) \in 1..N
                            /\ from(i) # p
                            /\ r[i] = q[from(i)]
                            /\ 2 <= i => 2 <= from(i)
  BY DEF Removes
<1>2. \A i, j \in 1..(N - 1) : i < j => from(i) < from(j)
  OBVIOUS
<1>3. \A i, j \in 1..(N - 1) : from(i) = from(j) => i = j
  OBVIOUS
<1>4. \A k \in 1..N : k # p => \E i \in 1..(N - 1) : r[i] = q[k]
  <2> TAKE k \in 1..N
  <2> HAVE k # p
  <2>1. CASE k < p
    <3>1. k \in 1..(N - 1) /\ r[k] = q[k]
      BY <2>1 DEF Removes
    <3> QED
      BY <3>1, ZenonT(60)
  <2>2. CASE k > p
    <3>1. k - 1 \in 1..(N - 1) /\ r[k - 1] = q[k]
      BY <2>2 DEF Removes
    <3> QED
      BY <3>1, ZenonT(60)
  <2> QED
    BY <2>1, <2>2
<1> HIDE DEF from
<1>5. Distinct(r, N - 1)
  BY <1>1, <1>3 DEF Distinct
<1>6. Descending(q, N, end) => Descending(r, N - 1, end)
  BY <1>1, <1>2 DEF Descending
<1>7. Image(r, N - 1) = Image(q, N) \ {q[p]}
  <2>1. \A i \in 1..(N - 1) : r[i] \in Image(q, N) \ {q[p]}
    BY <1>1 DEF Image, Distinct
  <2>2. \A k \in 1..N : q[k] # q[p] => q[k] \in Image(r, N - 1)
    BY <1>4 DEF Image
  <2> QED
    BY <2>1, <2>2, ZenonT(60) DEF Image
<1> QED
  BY <1>5, <1>6, <1>7, ZenonT(60)

(***************************************************************************)
(* queueAdd adds the node and nothing else, keeps the nodes distinct and   *)
(* the list sorted from its second node on.                                *)
(***************************************************************************)
LEMMA QueueAddProperties ==
  ASSUME NEW S, NEW q \in Seq(S), NEW end \in [S -> Nat],
         NEW n \in S, n \notin Range(q)
  PROVE  /\ QueueAdd(q, end, n) \in Seq(S)
         /\ Len(QueueAdd(q, end, n)) = Len(q) + 1
         /\ Range(QueueAdd(q, end, n)) = Range(q) \cup {n}
         /\ NoDuplicates(q) => NoDuplicates(QueueAdd(q, end, n))
         /\ TailSorted(q, end) => TailSorted(QueueAdd(q, end, n), end)
<1>1. CASE q = <<>>
  <2>1. QueueAdd(q, end, n) = <<n>>
    BY <1>1, ZenonT(60) DEF QueueAdd
  <2>2. /\ <<n>> \in Seq(S)
        /\ Len(<<n>>) = Len(q) + 1
        /\ Range(<<n>>) = Range(q) \cup {n}
    BY <1>1, SMTT(30) DEF Range
  <2>3. NoDuplicates(<<n>>) /\ TailSorted(<<n>>, end)
    BY SMTT(30) DEF NoDuplicates, TailSorted, SortedFrom
  <2> QED
    BY <2>1, <2>2, <2>3, ZenonT(60)
<1>2. CASE q # <<>>
  <2> DEFINE N == Len(q)
             p == InsertPos(q, end, n)
             r == LinkAt(q, p, n)
  <2>1. QueueAdd(q, end, n) = r
    BY <1>2, ZenonT(60) DEF QueueAdd
  <2>2. /\ p \in 2..(N + 1)
        /\ \A i \in 2..(p - 1) : end[n] < end[q[i]]
        /\ p <= N => end[n] >= end[q[p]]
    BY <1>2, InsertPosProperties, ZenonT(60)
  <2>3. N \in Nat /\ n \notin Image(q, N)
    BY SeqAsFunction, ZenonT(60)
  <2>4. end[n] \in Nat /\ \A i \in 1..N : end[q[i]] \in Nat
    BY SMTT(30)
  <2> HIDE DEF N, p
  <2>5. p \in 1..(N + 1)
    BY <2>2, <2>3, SMTT(30)
  <2>6. r \in Seq(S) /\ Len(r) = N + 1 /\ Inserts(r, q, N, p, n)
    BY <2>5, LinkAtElements, ZenonT(60) DEF N
  <2> HIDE DEF r
  <2>7. /\ Image(r, N + 1) = Image(q, N) \cup {n}
        /\ Distinct(q, N) => Distinct(r, N + 1)
    BY <2>2, <2>3, <2>6, Inserted, SMTT(30)
  <2>8. Descending(q, N, end) => Descending(r, N + 1, end)
    BY <2>2, <2>3, <2>4, <2>6, InsertedInOrder, ZenonT(60)
  <2>9. /\ Range(r) = Image(r, N + 1)
        /\ NoDuplicates(r) <=> Distinct(r, N + 1)
        /\ TailSorted(r, end) <=> Descending(r, N + 1, end)
    BY <2>6, SeqAsFunction, ZenonT(60)
  <2>10. /\ Range(q) = Image(q, N)
         /\ NoDuplicates(q) <=> Distinct(q, N)
         /\ TailSorted(q, end) <=> Descending(q, N, end)
    BY SeqAsFunction, ZenonT(60) DEF N
  <2>11. Len(r) = Len(q) + 1
    BY <2>6, ZenonT(60) DEF N
  <2> QED
    BY <2>1, <2>6, <2>7, <2>8, <2>9, <2>10, <2>11, ZenonT(60)
<1> QED
  BY <1>1, <1>2, ZenonT(60)

(***************************************************************************)
(* queueDel removes the node and nothing else, and keeps the order.        *)
(***************************************************************************)
LEMMA QueueDelProperties ==
  ASSUME NEW S, NEW q \in Seq(S), NoDuplicates(q), NEW end \in [S -> Nat],
         NEW n \in S
  PROVE  /\ QueueDel(q, n) \in Seq(S)
         /\ Len(QueueDel(q, n)) = IF n \in Range(q) THEN Len(q) - 1 ELSE Len(q)
         /\ Range(QueueDel(q, n)) = Range(q) \ {n}
         /\ NoDuplicates(QueueDel(q, n))
         /\ TailSorted(q, end) => TailSorted(QueueDel(q, n), end)
<1>1. CASE n \notin Range(q)
  <2>1. QueueDel(q, n) = q
    BY <1>1, QueueDelUnlinked, ZenonT(60)
  <2>2. Range(q) = Range(q) \ {n}
    BY <1>1, ZenonT(60)
  <2> QED
    BY <1>1, <2>1, <2>2, ZenonT(60)
<1>2. CASE n \in Range(q)
  <2> DEFINE N == Len(q)
  <2>1. /\ N \in Nat
        /\ Range(q) = Image(q, N)
        /\ Distinct(q, N)
        /\ TailSorted(q, end) <=> Descending(q, N, end)
    BY SeqAsFunction, ZenonT(60)
  <2>2. PICK p \in 1..N : q[p] = n
    BY <1>2, <2>1, ZenonT(60) DEF Image
  <2> DEFINE r == UnlinkAt(q, p)
  <2>3. QueueDel(q, n) = r
    BY <2>2, QueueDelPosition, ZenonT(60)
  <2>4. r \in Seq(S) /\ Len(r) = N - 1 /\ Removes(r, q, N, p)
    BY UnlinkAtElements, ZenonT(60)
  <2> HIDE DEF r
  <2>5. /\ Range(r) = Image(r, N - 1)
        /\ NoDuplicates(r) <=> Distinct(r, N - 1)
        /\ TailSorted(r, end) <=> Descending(r, N - 1, end)
    BY <2>4, SeqAsFunction, ZenonT(60)
  <2> HIDE DEF N
  <2>6. /\ Image(r, N - 1) = Image(q, N) \ {q[p]}
        /\ Distinct(r, N - 1)
        /\ Descending(q, N, end) => Descending(r, N - 1, end)
    BY <2>1, <2>4, Removed, ZenonT(60)
  <2>7. Len(r) = Len(q) - 1
    BY <2>4, ZenonT(60) DEF N
  <2> QED
    BY <1>2, <2>1, <2>2, <2>3, <2>4, <2>5, <2>6, <2>7, ZenonT(60)
<1> QED
  BY <1>1, <1>2, ZenonT(60)
-----------------------------------------------------------------------------

(***************************************************************************)
(* The last node of a queue that is not empty is one of its nodes.         *)
(***************************************************************************)
LEMMA LastInQueue ==
  ASSUME NEW S, NEW q \in Seq(S), q # <<>>
  PROVE  Last(q) \in S /\ Last(q) \in Range(q) /\ Last(q) = q[Len(q)]
         /\ Len(q) \in 1..Len(q)
<1>1. Len(q) \in 1..Len(q) /\ DOMAIN q = 1..Len(q)
  OBVIOUS
<1> QED
  BY <1>1 DEF Last, Range

(***************************************************************************)
(* The pointers f, l, nx and pv link the nodes q[1] to q[N], and no other. *)
(***************************************************************************)
Linked(q, N, f, l, nx, pv) ==
    /\ f = IF N = 0 THEN NIL ELSE q[1]
    /\ l = IF N = 0 THEN NIL ELSE q[N]
    /\ \A i \in 1..N : nx[q[i]] = IF i = N THEN NIL ELSE q[i + 1]
    /\ \A i \in 1..N : pv[q[i]] = IF i = 1 THEN NIL ELSE q[i - 1]
    /\ \A m \in Cbid \ Image(q, N) : nx[m] = NIL /\ pv[m] = NIL

Nodes(q, N) == Distinct(q, N) /\ \A i \in 1..N : q[i] \in Cbid

(***************************************************************************)
(* Represents says that the pointers link the nodes of the sequence.       *)
(***************************************************************************)
LEMMA RepresentsLinked ==
  ASSUME NEW s \in Seq(Cbid)
  PROVE  /\ Represents(s) <=> Linked(s, Len(s), firstNode, lastNode, next, prev)
         /\ Represents(s)' <=> Linked(s, Len(s), firstNode', lastNode', next', prev')
<1>1. Len(s) \in Nat /\ (s = <<>> <=> Len(s) = 0)
  OBVIOUS
<1>2. Range(s) = Image(s, Len(s))
  BY SeqAsFunction, ZenonT(60)
<1> QED
  BY <1>1, <1>2, ZenonT(60) DEF Represents, Linked

(***************************************************************************)
(* What queueAdd does to the pointers when it links n behind z, and        *)
(* queueDel when it unlinks n.                                             *)
(***************************************************************************)
Links(n, z, l, nx, pv, l2, nx2, pv2) ==
    /\ nx2 = [nx EXCEPT ![z] = n, ![n] = nx[z]]
    /\ pv2 = [m \in Cbid |-> IF m = n THEN z ELSE IF m = nx[z] THEN n ELSE pv[m]]
    /\ l2 = IF nx[z] = NIL THEN n ELSE l

Unlinks(n, f, l, nx, pv, f2, l2, nx2, pv2) ==
    /\ nx2 = [m \in Cbid |-> IF m = n THEN NIL ELSE IF m = pv[n] THEN nx[n] ELSE nx[m]]
    /\ pv2 = [m \in Cbid |-> IF m = n THEN NIL ELSE IF m = nx[n] THEN pv[n] ELSE pv[m]]
    /\ f2 = IF n = f THEN nx[n] ELSE f
    /\ l2 = IF n = l THEN pv[n] ELSE l

(***************************************************************************)
(* queueAdd links the node n behind the node q[p - 1].                     *)
(***************************************************************************)
LEMMA InsertLinked ==
  ASSUME NEW N \in Nat, N >= 1, NEW p \in 2..(N + 1), NEW q, NEW r,
         NEW n \in Cbid, n \notin Image(q, N), Nodes(q, N),
         NEW f, NEW l,
         NEW nx \in [Cbid -> Cbid \cup {NIL}], NEW pv \in [Cbid -> Cbid \cup {NIL}],
         Linked(q, N, f, l, nx, pv), Inserts(r, q, N, p, n),
         NEW l2, NEW nx2, NEW pv2, Links(n, q[p - 1], l, nx, pv, l2, nx2, pv2)
  PROVE  Linked(r, N + 1, f, l2, nx2, pv2)
<1> DEFINE z == q[p - 1]
           x == nx[z]
<1>0. /\ nx2 = [nx EXCEPT ![z] = n, ![n] = x]
      /\ pv2 = [m \in Cbid |-> IF m = n THEN z ELSE IF m = x THEN n ELSE pv[m]]
      /\ l2 = IF x = NIL THEN n ELSE l
      /\ z = q[p - 1] /\ x = nx[z]
  BY ZenonT(20) DEF Links
<1> HIDE DEF z, x
<1>1. z \in Cbid /\ z # n /\ p - 1 \in 1..N /\ x = IF p = N + 1 THEN NIL ELSE q[p]
  BY <1>0, SMTT(30) DEF Image, Nodes, Linked
<1>2. \A m \in Cbid : nx2[m] = IF m = n THEN x ELSE IF m = z THEN n ELSE nx[m]
  BY <1>0, <1>1
<1>3. \A m \in Cbid : pv2[m] = IF m = n THEN z ELSE IF m = x THEN n ELSE pv[m]
  BY <1>0
<1>4. \A i \in 1..N : q[i] \in Cbid /\ q[i] # n /\ (q[i] = z <=> i = p - 1)
                      /\ (q[i] = x <=> i = p)
  BY <1>0, <1>1, NilAssumption, SMTT(30) DEF Image, Nodes, Distinct
<1>5. f = r[1] /\ l2 = r[N + 1]
  BY <1>0, <1>1, NilAssumption, SMTT(30) DEF Linked, Inserts, Nodes
<1>6. \A i \in 1..(N + 1) : nx2[r[i]] = IF i = N + 1 THEN NIL ELSE r[i + 1]
  <2> TAKE i \in 1..(N + 1)
  <2>1. CASE i < p
    <3>1. r[i] = q[i] /\ i \in 1..N /\ r[i + 1] = IF i = p - 1 THEN n ELSE q[i + 1]
      BY <2>1, SMTT(30) DEF Inserts
    <3>2. nx[q[i]] = IF i = N THEN NIL ELSE q[i + 1]
      BY <3>1 DEF Linked
    <3> QED
      BY <1>1, <1>2, <1>4, <2>1, <3>1, <3>2, SMTT(30)
  <2>2. CASE i = p
    <3>1. r[i] = n /\ (p # N + 1 => r[i + 1] = q[p])
      BY <2>2, SMTT(30) DEF Inserts
    <3> QED
      BY <1>1, <1>2, <2>2, <3>1
  <2>3. CASE i > p
    <3>1. r[i] = q[i - 1] /\ i - 1 \in 1..N /\ (i # N + 1 => r[i + 1] = q[i])
      BY <2>3, SMTT(30) DEF Inserts
    <3>2. nx[q[i - 1]] = IF i - 1 = N THEN NIL ELSE q[i]
      BY <3>1, SMTT(30) DEF Linked
    <3> QED
      BY <1>2, <1>4, <2>3, <3>1, <3>2, SMTT(30)
  <2> QED
    BY <2>1, <2>2, <2>3, SMTT(30)
<1>7. \A i \in 1..(N + 1) : pv2[r[i]] = IF i = 1 THEN NIL ELSE r[i - 1]
  <2> TAKE i \in 1..(N + 1)
  <2>1. CASE i < p
    <3>1. r[i] = q[i] /\ i \in 1..N /\ (i # 1 => r[i - 1] = q[i - 1])
      BY <2>1, SMTT(30) DEF Inserts
    <3>2. pv[q[i]] = IF i = 1 THEN NIL ELSE q[i - 1]
      BY <3>1 DEF Linked
    <3> QED
      BY <1>3, <1>4, <2>1, <3>1, <3>2, SMTT(30)
  <2>2. CASE i = p
    <3>1. r[i] = n /\ r[i - 1] = z
      BY <1>0, <2>2, SMTT(30) DEF Inserts
    <3> QED
      BY <1>3, <2>2, <3>1, SMTT(30)
  <2>3. CASE i > p
    <3>1. r[i] = q[i - 1] /\ i - 1 \in 1..N /\ r[i - 1] = IF i - 1 = p THEN n ELSE q[i - 2]
      BY <2>3, SMTT(30) DEF Inserts
    <3>2. pv[q[i - 1]] = q[i - 2]
      BY <2>3, <3>1, SMTT(30) DEF Linked
    <3> QED
      BY <1>3, <1>4, <2>3, <3>1, <3>2, SMTT(30)
  <2> QED
    BY <2>1, <2>2, <2>3, SMTT(30)
<1>8. \A m \in Cbid \ Image(r, N + 1) : nx2[m] = NIL /\ pv2[m] = NIL
  <2> TAKE m \in Cbid \ Image(r, N + 1)
  <2>1. Image(r, N + 1) = Image(q, N) \cup {n}
    BY Inserted, SMTT(30)
  <2>2. m # n /\ m \notin Image(q, N) /\ nx[m] = NIL /\ pv[m] = NIL
    BY <2>1 DEF Linked
  <2>3. m # z /\ m # x
    BY <1>0, <1>1, <2>2, NilAssumption, SMTT(30) DEF Image
  <2> QED
    BY <1>2, <1>3, <2>2, <2>3
<1>9. N + 1 # 0
  BY SMTT(30)
<1> QED
  BY ONLY <1>5, <1>6, <1>7, <1>8, <1>9, ZenonT(20) DEF Linked

(***************************************************************************)
(* queueDel unlinks the node q[p].                                         *)
(***************************************************************************)
LEMMA RemoveLinked ==
  ASSUME NEW N \in Nat, NEW p \in 1..N, NEW q, NEW r, Nodes(q, N),
         NEW f, NEW l,
         NEW nx \in [Cbid -> Cbid \cup {NIL}], NEW pv \in [Cbid -> Cbid \cup {NIL}],
         Linked(q, N, f, l, nx, pv), Removes(r, q, N, p),
         NEW f2, NEW l2, NEW nx2, NEW pv2, Unlinks(q[p], f, l, nx, pv, f2, l2, nx2, pv2)
  PROVE  Linked(r, N - 1, f2, l2, nx2, pv2)
<1> DEFINE n == q[p]
           z == pv[n]
           x == nx[n]
<1>0. /\ nx2 = [m \in Cbid |-> IF m = n THEN NIL ELSE IF m = z THEN x ELSE nx[m]]
      /\ pv2 = [m \in Cbid |-> IF m = n THEN NIL ELSE IF m = x THEN z ELSE pv[m]]
      /\ f2 = IF n = f THEN x ELSE f
      /\ l2 = IF n = l THEN z ELSE l
      /\ n = q[p] /\ z = pv[n] /\ x = nx[n]
  BY ZenonT(20) DEF Unlinks
<1> HIDE DEF n, z, x
<1>1. /\ n \in Cbid
      /\ x = IF p = N THEN NIL ELSE q[p + 1]
      /\ z = IF p = 1 THEN NIL ELSE q[p - 1]
  BY <1>0 DEF Nodes, Linked
<1>2. \A m \in Cbid : /\ nx2[m] = IF m = n THEN NIL ELSE IF m = z THEN x ELSE nx[m]
                      /\ pv2[m] = IF m = n THEN NIL ELSE IF m = x THEN z ELSE pv[m]
  BY <1>0
<1>3. \A i \in 1..N : q[i] \in Cbid /\ (q[i] = n <=> i = p)
                      /\ (q[i] = z <=> i = p - 1) /\ (q[i] = x <=> i = p + 1)
  BY <1>0, <1>1, NilAssumption, SMTT(30) DEF Nodes, Distinct
<1>4. f = q[1] /\ l = q[N]
  BY SMTT(30) DEF Linked
<1>5. f2 = IF N - 1 = 0 THEN NIL ELSE r[1]
  BY <1>0, <1>1, <1>3, <1>4, SMTT(30) DEF Removes
<1>6. l2 = IF N - 1 = 0 THEN NIL ELSE r[N - 1]
  BY <1>0, <1>1, <1>3, <1>4, SMTT(30) DEF Removes
<1>7. \A i \in 1..(N - 1) : nx2[r[i]] = IF i = N - 1 THEN NIL ELSE r[i + 1]
  <2> TAKE i \in 1..(N - 1)
  <2>1. CASE i < p
    <3>1. r[i] = q[i] /\ i \in 1..N /\ r[i] # n
      BY <1>3, <2>1 DEF Removes
    <3>2. nx[q[i]] = q[i + 1] /\ (i # N - 1 => r[i + 1] = IF i = p - 1 THEN q[i + 2] ELSE q[i + 1])
      BY <2>1, <3>1, SMTT(30) DEF Linked, Removes
    <3>3. nx2[r[i]] = IF i = p - 1 THEN x ELSE q[i + 1]
      <4>1. q[i] \in Cbid /\ q[i] # n /\ (q[i] = z <=> i = p - 1)
        BY ONLY <1>3, <3>1, ZenonT(20)
      <4>2. nx2[q[i]] = IF q[i] = z THEN x ELSE nx[q[i]]
        BY ONLY <1>2, <4>1, ZenonT(20)
      <4> QED
        BY ONLY <3>1, <3>2, <4>1, <4>2
    <3> QED
      BY ONLY <1>1, <2>1, <3>2, <3>3, N \in Nat, p \in 1..N, i \in 1..(N - 1)
  <2>2. CASE i >= p
    <3>1. r[i] = q[i + 1] /\ i + 1 \in 1..N /\ i + 1 # p - 1 /\ r[i] # n
      BY <1>3, <2>2 DEF Removes
    <3>2. nx[q[i + 1]] = (IF i + 1 = N THEN NIL ELSE q[i + 2]) /\ (i # N - 1 => r[i + 1] = q[i + 2])
      BY <2>2, <3>1, SMTT(30) DEF Linked, Removes
    <3>3. nx2[r[i]] = nx[q[i + 1]]
      BY ONLY <1>2, <1>3, <3>1, ZenonT(20)
    <3> QED
      BY ONLY <3>2, <3>3, N \in Nat, i \in 1..(N - 1)
  <2> QED
    BY ONLY <2>1, <2>2, N \in Nat, p \in 1..N, i \in 1..(N - 1)
<1>8. \A i \in 1..(N - 1) : pv2[r[i]] = IF i = 1 THEN NIL ELSE r[i - 1]
  <2> TAKE i \in 1..(N - 1)
  <2>1. CASE i < p
    <3>1. r[i] = q[i] /\ i \in 1..N /\ i # p + 1 /\ r[i] # n
      BY <1>3, <2>1 DEF Removes
    <3>2. pv[q[i]] = (IF i = 1 THEN NIL ELSE q[i - 1]) /\ (i # 1 => r[i - 1] = q[i - 1])
      BY <2>1, <3>1, SMTT(30) DEF Linked, Removes
    <3>3. pv2[r[i]] = pv[q[i]]
      BY ONLY <1>2, <1>3, <3>1, ZenonT(20)
    <3> QED
      BY ONLY <3>2, <3>3, i \in 1..(N - 1)
  <2>2. CASE i >= p
    <3>1. r[i] = q[i + 1] /\ i + 1 \in 1..N /\ (i + 1 = p + 1 <=> i = p) /\ r[i] # n
      BY <1>3, <2>2 DEF Removes
    <3>2. pv[q[i + 1]] = q[i] /\ (i # 1 => r[i - 1] = IF i = p THEN q[i - 1] ELSE q[i])
      BY <2>2, <3>1, SMTT(30) DEF Linked, Removes
    <3>3. pv2[r[i]] = IF i = p THEN z ELSE q[i]
      <4>1. q[i + 1] \in Cbid /\ q[i + 1] # n /\ (q[i + 1] = x <=> i = p)
        BY ONLY <1>3, <3>1, ZenonT(20)
      <4>2. pv2[q[i + 1]] = IF q[i + 1] = x THEN z ELSE pv[q[i + 1]]
        BY ONLY <1>2, <4>1, ZenonT(20)
      <4> QED
        BY ONLY <3>1, <3>2, <4>1, <4>2
    <3> QED
      BY ONLY <1>1, <2>2, <3>2, <3>3, N \in Nat, p \in 1..N, i \in 1..(N - 1)
  <2> QED
    BY ONLY <2>1, <2>2, N \in Nat, p \in 1..N, i \in 1..(N - 1)
<1>9. \A m \in Cbid \ Image(r, N - 1) : nx2[m] = NIL /\ pv2[m] = NIL
  <2> TAKE m \in Cbid \ Image(r, N - 1)
  <2>1. Image(r, N - 1) = Image(q, N) \ {n}
    BY <1>0, Removed, SMTT(30) DEF Nodes
  <2>2. CASE m = n
    BY <1>2, <2>2
  <2>3. CASE m # n
    <3>1. m \notin Image(q, N) /\ nx[m] = NIL /\ pv[m] = NIL
      BY <2>1, <2>3 DEF Linked
    <3>2. m # z /\ m # x
      BY <1>0, <1>1, <3>1, NilAssumption, SMTT(30) DEF Image
    <3> QED
      BY <1>2, <2>3, <3>1, <3>2
  <2> QED
    BY <2>2, <2>3
<1> QED
  BY <1>5, <1>6, <1>7, <1>8, <1>9 DEF Linked

(***************************************************************************)
(* The least of the naturals that are not in a set, if there is one: what  *)
(* holds of 0 and is passed on from i to i + 1 holds of all of 0..C.       *)
(***************************************************************************)
LEMMA UpTo ==
  ASSUME NEW C \in Nat, NEW T \in SUBSET Nat, 0 \in T,
         \A i \in 1..C : i - 1 \in T => i \in T
  PROVE  0..C \subseteq T
<1> DEFINE F == (0..C) \ T
<1>1. SUFFICES ASSUME F # {} PROVE FALSE
  OBVIOUS
<1>2. F \in SUBSET Nat
  BY SMTT(30)
<1>3. Least(F) \in F /\ \A y \in F : Least(F) <= y
  BY <1>1, <1>2, LeastProperties, ZenonT(20)
<1> DEFINE i == Least(F)
<1> HIDE DEF i
<1>4. i \in 0..C /\ i \notin T /\ \A y \in 0..C : y \notin T => i <= y
  BY <1>3, ZenonT(20) DEF i
<1>5. i # 0
  BY <1>4
<1>6. i \in 1..C /\ i - 1 \in 0..C /\ ~(i <= i - 1)
  BY <1>4, <1>5
<1> QED
  BY <1>4, <1>6

(***************************************************************************)
(* The walk of queueAdd goes from the first node to the one in front of    *)
(* the insertion point and stays there, if it may take enough steps.       *)
(***************************************************************************)
StopsAt(n) == {m \in Cbid : next[m] = NIL \/ GoesBefore(n, next[m])}

Walks(at, C, n) ==
    /\ at[0] = queue[1]
    /\ \A i \in 1..C : at[i - 1] \in Cbid =>
          at[i] = IF at[i - 1] \in StopsAt(n) THEN at[i - 1] ELSE next[at[i - 1]]

Halts(k, n) ==
    /\ \A i \in 1..k : queue[i] \in Cbid
    /\ \A i \in 1..(k - 1) : queue[i] \notin StopsAt(n) /\ next[queue[i]] = queue[i + 1]
    /\ queue[k] \in StopsAt(n)

LEMMA Walk ==
  ASSUME NEW C \in Nat, NEW k \in 1..(C + 1), NEW n, NEW at,
         Walks(at, C, n), Halts(k, n)
  PROVE  at[C] = queue[k]
<1> DEFINE W(i) == queue[IF i + 1 <= k THEN i + 1 ELSE k]
           T == {i \in Nat : i <= C => at[i] = W(i)}
<1>1. T \in SUBSET Nat /\ 0 \in T
  BY SMTT(30) DEF Walks
<1>2. ASSUME NEW i \in 1..C, i - 1 \in T PROVE i \in T
  <2>1. at[i - 1] = W(i - 1) /\ W(i - 1) \in Cbid
    BY <1>2, SMTT(30) DEF Halts
  <2>2. CASE i <= k - 1
    <3>1. at[i - 1] = queue[i] /\ W(i) = queue[i + 1] /\ i \in 1..(k - 1)
      BY <2>1, <2>2
    <3>2. at[i] = queue[i + 1]
      BY <2>1, <3>1, ZenonT(20) DEF Walks, Halts
    <3> QED
      BY <3>1, <3>2
  <2>3. CASE i > k - 1
    <3>1. at[i - 1] = queue[k] /\ W(i) = queue[k]
      BY <2>1, <2>3
    <3>2. at[i] = queue[k]
      BY <2>1, <3>1, ZenonT(20) DEF Walks, Halts
    <3> QED
      BY <3>1, <3>2
  <2> QED
    BY <2>2, <2>3
<1>3. 0..C \subseteq T
  <2> HIDE DEF T
  <2> QED
    BY <1>1, <1>2, UpTo, ZenonT(20)
<1>4. at[C] = W(C)
  BY <1>3
<1> QED
  BY <1>4

ListTypeOK == /\ prev \in [Cbid -> Cbid \cup {NIL}]
              /\ next \in [Cbid -> Cbid \cup {NIL}]

(***************************************************************************)
(* The walk of queueAdd ends at the node behind which QueueAdd of the      *)
(* sequence puts the new one.                                              *)
(***************************************************************************)
LEMMA WalkStops ==
  ASSUME TypeOK, Inv, ListTypeOK, Represents(queue), queue # <<>>, NEW n \in Cbid,
         Cardinality(Cbid) \in Nat, Len(queue) <= Cardinality(Cbid)
  PROVE  WalkEnd(n) = queue[InsertPos(queue, endTime, n) - 1]
<1> DEFINE N == Len(queue)
           C == Cardinality(Cbid)
           k == InsertPos(queue, endTime, n) - 1
           Body(f) == [i \in 0..C |->
              IF i = 0 THEN firstNode
              ELSE LET p == f[i - 1]
                   IN  IF next[p] = NIL \/ GoesBefore(n, next[p]) THEN p ELSE next[p]]
           at == CHOOSE f : f = Body(f)
           W == [i \in 0..C |-> queue[IF i + 1 <= k THEN i + 1 ELSE k]]
<1>1. /\ queue \in [1..N -> Cbid] /\ N \in Nat /\ N >= 1
      /\ Distinct(queue, N) /\ Linked(queue, N, firstNode, lastNode, next, prev)
  <2>1. queue \in [1..N -> Cbid] /\ N \in Nat /\ N >= 1
    BY DEF TypeOK
  <2>2. Distinct(queue, N) /\ Linked(queue, N, firstNode, lastNode, next, prev)
    BY SeqAsFunction, RepresentsLinked, ZenonT(20) DEF TypeOK, Inv
  <2> QED
    BY <2>1, <2>2
<1>2. C \in Nat /\ N <= C
  OBVIOUS
<1>3. /\ k \in Int /\ k + 1 \in 2..(N + 1)
      /\ \A i \in 2..k : endTime[n] < endTime[queue[i]]
      /\ k + 1 <= N => endTime[n] >= endTime[queue[k + 1]]
  <2> DEFINE p == InsertPos(queue, endTime, n)
  <2>1. /\ p \in 2..(N + 1)
        /\ \A i \in 2..(p - 1) : endTime[n] < endTime[queue[i]]
        /\ p <= N => endTime[n] >= endTime[queue[p]]
    BY InsertPosProperties, ZenonT(20) DEF TypeOK
  <2>2. k \in Int /\ k + 1 = p /\ k = p - 1
    BY <1>1, <2>1
  <2> QED
    BY <2>1, <2>2, ZenonT(20)
<1> HIDE DEF N, C, k
<1>4. k \in 1..N /\ k <= C + 1
  BY <1>1, <1>2, <1>3
<1>5. \A i \in 1..N : queue[i] \in Cbid /\ next[queue[i]] = IF i = N THEN NIL ELSE queue[i + 1]
  BY <1>1, ZenonT(20) DEF Linked
<1>6. \A i \in 1..(k - 1) : queue[i] \notin StopsAt(n) /\ next[queue[i]] = queue[i + 1]
  <2> TAKE i \in 1..(k - 1)
  <2>1. i \in 1..N /\ i # N /\ i + 1 \in 2..k /\ i + 1 \in 1..N
    BY <1>1, <1>4, SMTT(30)
  <2>2. next[queue[i]] = queue[i + 1] /\ queue[i + 1] # NIL
    BY <1>5, <2>1, NilAssumption, ZenonT(20)
  <2>3. ~GoesBefore(n, queue[i + 1])
    <3>1. endTime[n] \in Nat /\ endTime[queue[i + 1]] \in Nat
      BY <1>5, <2>1 DEF TypeOK
    <3> QED
      BY <1>3, <2>1, <3>1 DEF GoesBefore
  <2> QED
    BY <2>2, <2>3, ZenonT(20) DEF StopsAt
<1>7. queue[k] \in StopsAt(n)
  <2>1. CASE k = N
    BY <1>4, <1>5, <2>1, ZenonT(20) DEF StopsAt
  <2>2. CASE k # N
    <3>1. k + 1 <= N
      BY <1>1, <1>4, <2>2
    <3> QED
      BY <1>3, <1>4, <1>5, <2>2, <3>1, ZenonT(20) DEF GoesBefore, StopsAt
  <2> QED
    BY <2>1, <2>2
<1>8. W = Body(W)
  <2> SUFFICES ASSUME NEW i \in 0..C PROVE W[i] = Body(W)[i]
    BY ZenonT(20)
  <2>1. CASE i = 0
    <3>1. W[i] = queue[1]
      BY <1>2, <1>4, <2>1
    <3>2. firstNode = queue[1]
      BY <1>1, SMTT(30) DEF Linked
    <3> QED
      BY <2>1, <3>1, <3>2
  <2>2. CASE i # 0
    <3> DEFINE p == W[i - 1]
    <3>1. Body(W)[i] = IF next[p] = NIL \/ GoesBefore(n, next[p]) THEN p ELSE next[p]
      BY <2>2, ZenonT(20)
    <3>2. i - 1 \in 0..C
      BY <1>2, <2>2
    <3>3. p = IF i <= k THEN queue[i] ELSE queue[k]
      BY <1>2, <1>4, <2>2, <3>2
    <3>4. p \in Cbid
      BY <1>1, <1>4, <1>5, <2>2, <3>3, SMTT(30)
    <3> HIDE DEF p
    <3>5. Body(W)[i] = IF p \in StopsAt(n) THEN p ELSE next[p]
      BY <3>1, <3>4, ZenonT(20) DEF StopsAt
    <3>6. CASE i <= k - 1
      <4>1. W[i] = queue[i + 1] /\ p = queue[i] /\ i \in 1..(k - 1)
        BY <1>2, <1>4, <2>2, <3>3, <3>6
      <4> HIDE DEF W, Body
      <4> QED
        BY <1>6, <3>5, <4>1, ZenonT(20)
    <3>7. CASE i > k - 1
      <4>1. W[i] = queue[k] /\ p = queue[k]
        BY <1>2, <1>4, <2>2, <3>3, <3>7, SMTT(30)
      <4> HIDE DEF W, Body
      <4> QED
        BY <1>7, <3>5, <4>1, ZenonT(20)
    <3>8. i <= k - 1 \/ i > k - 1
      BY <1>4
    <3> QED
      BY ONLY <3>6, <3>7, <3>8, ZenonT(20)
  <2> QED
    BY <2>1, <2>2
<1>9. at = Body(at)
  <2> HIDE DEF Body, W
  <2> QED
    BY <1>8, ZenonT(20)
<1>10. WalkEnd(n) = at[C]
  BY ZenonT(20) DEF WalkEnd, C
<1> HIDE DEF at
<1>11. Walks(at, C, n)
  <2>1. at[0] = queue[1]
    <3>1. 0 \in 0..C /\ firstNode = queue[1]
      BY <1>1, <1>2, SMTT(30) DEF Linked
    <3> QED
      BY <1>9, <3>1, ZenonT(20)
  <2>2. ASSUME NEW i \in 1..C, at[i - 1] \in Cbid
        PROVE  at[i] = IF at[i - 1] \in StopsAt(n) THEN at[i - 1] ELSE next[at[i - 1]]
    <3>1. i \in 0..C /\ i # 0
      BY <1>2
    <3>2. at[i] = IF next[at[i - 1]] = NIL \/ GoesBefore(n, next[at[i - 1]])
                  THEN at[i - 1] ELSE next[at[i - 1]]
      BY <1>9, <3>1, ZenonT(20)
    <3> QED
      BY <2>2, <3>2, ZenonT(20) DEF StopsAt
  <2> QED
    BY ONLY <2>1, <2>2, ZenonT(20) DEF Walks
<1>12. at[C] = queue[k]
  <2>1. k \in 1..(C + 1) /\ \A i \in 1..k : queue[i] \in Cbid
    BY <1>1, <1>2, <1>4, <1>5, SMTT(30)
  <2>2. Halts(k, n)
    BY ONLY <1>6, <1>7, <2>1, ZenonT(20) DEF Halts
  <2> QED
    BY ONLY <1>2, <1>11, <2>1, <2>2, Walk, ZenonT(20)
<1> QED
  BY <1>10, <1>12, ZenonT(20) DEF k

(***************************************************************************)
(* Each step of the manager that changes the queue changes the pointers    *)
(* with it.                                                                *)
(***************************************************************************)
LEMMA PointersOfAdd ==
  ASSUME TypeOK, Inv, ListTypeOK, Represents(queue), NEW c \in Cbid, ListAdd(c),
         Cardinality(Cbid) \in Nat, Len(queue) <= Cardinality(Cbid)
  PROVE  ListTypeOK' /\ Represents(queue)'
<1>1. queue' = QueueAdd(queue, endTime, c) /\ queueAdd(c) /\ c \notin Range(queue)
  BY DEF ListAdd, SelectAdd, Inv, CallbackInv
<1>2. queue \in Seq(Cbid) /\ endTime \in [Cbid -> Nat]
  BY DEF TypeOK
<1> DEFINE N == Len(queue)
<1>3. /\ N \in Nat /\ c \notin Image(queue, N) /\ Nodes(queue, N)
      /\ Linked(queue, N, firstNode, lastNode, next, prev)
  <2>1. N \in Nat /\ \A i \in 1..N : queue[i] \in Cbid
    BY <1>2, SMTT(30)
  <2> QED
    BY <1>1, <1>2, <2>1, SeqAsFunction, RepresentsLinked, ZenonT(20) DEF Inv, Nodes
<1>4. queue' \in Seq(Cbid)
  BY <1>1, <1>2, QueueAddProperties, ZenonT(20)
<1>5. SUFFICES ListTypeOK' /\ Linked(queue', Len(queue'), firstNode', lastNode', next', prev')
  BY <1>4, <1>5, RepresentsLinked, ZenonT(20)
<1>6. CASE queue = <<>>
  <2>1. firstNode = NIL /\ queue' = <<c>> /\ N = 0
    BY <1>1, <1>3, <1>6 DEF Linked, QueueAdd
  <2>2. firstNode' = c /\ lastNode' = c /\ prev' = prev /\ next' = next
    BY <1>1, <2>1 DEF queueAdd
  <2>3. \A m \in Cbid : next[m] = NIL /\ prev[m] = NIL
    BY <1>3, <2>1, SMTT(30) DEF Linked, Image
  <2> QED
    BY <2>1, <2>2, <2>3, SMTT(30) DEF Linked, ListTypeOK
<1>7. CASE queue # <<>>
  <2> DEFINE p == InsertPos(queue, endTime, c)
             z == WalkEnd(c)
             x == next[z]
  <2>1. p \in 2..(N + 1) /\ N >= 1
    <3>1. p \in 2..(N + 1)
      BY <1>2, <1>7, InsertPosProperties, ZenonT(20)
    <3>2. N >= 1
      BY <1>2, <1>7, SMTT(30)
    <3> QED
      BY <3>1, <3>2
  <2>2. z = queue[p - 1]
    BY <1>7, WalkStops, ZenonT(20)
  <2>3. queue' = LinkAt(queue, p, c)
    BY <1>1, <1>7, ZenonT(20) DEF QueueAdd
  <2> HIDE DEF p, z
  <2>4. Inserts(queue', queue, N, p, c) /\ Len(queue') = N + 1
    <3>1. p \in 1..(N + 1)
      BY <1>3, <2>1
    <3> QED
      BY <1>2, <2>3, <3>1, LinkAtElements, ZenonT(20)
  <2>5. z \in Cbid /\ x \in Cbid \cup {NIL}
    BY <1>3, <2>1, <2>2, SMTT(30) DEF Nodes, ListTypeOK
  <2>6. firstNode # NIL
    BY <1>3, <2>1, NilAssumption, SMTT(30) DEF Linked, Nodes
  <2>7. /\ next' = [next EXCEPT ![z] = c, ![c] = x]
        /\ prev' = [m \in Cbid |-> IF m = c THEN z ELSE IF m = x THEN c ELSE prev[m]]
        /\ lastNode' = IF x = NIL THEN c ELSE lastNode
        /\ firstNode' = firstNode
    BY <1>1, <2>6, ZenonT(20) DEF queueAdd, z
  <2>8. ListTypeOK'
    BY <2>5, <2>7 DEF ListTypeOK
  <2>9. Links(c, queue[p - 1], lastNode, next, prev, lastNode', next', prev')
    BY <2>2, <2>7, ZenonT(20) DEF Links
  <2> HIDE DEF N
  <2>10. Linked(queue', N + 1, firstNode, lastNode', next', prev')
    BY ONLY <1>3, <2>1, <2>4, <2>9, c \in Cbid, ListTypeOK, InsertLinked, ZenonT(20)
       DEF ListTypeOK
  <2> QED
    BY <2>4, <2>7, <2>8, <2>10, ZenonT(20)
<1> QED
  BY <1>6, <1>7

LEMMA PointersOfDel ==
  ASSUME TypeOK, Inv, ListTypeOK, Represents(queue), NEW c \in Cbid,
         queue' = QueueDel(queue, c), queueDel(c)
  PROVE  ListTypeOK' /\ Represents(queue)'
<1> DEFINE N == Len(queue)
           z == prev[c]
           x == next[c]
<1>1. queue \in Seq(Cbid) /\ endTime \in [Cbid -> Nat] /\ NoDuplicates(queue)
  BY DEF TypeOK, Inv
<1>2. /\ N \in Nat /\ Nodes(queue, N) /\ Range(queue) = Image(queue, N)
      /\ Linked(queue, N, firstNode, lastNode, next, prev)
  <2>1. N \in Nat /\ \A i \in 1..N : queue[i] \in Cbid
    BY <1>1, SMTT(30)
  <2> QED
    BY <1>1, <2>1, SeqAsFunction, RepresentsLinked, ZenonT(20) DEF Nodes
<1>3. queue' \in Seq(Cbid)
  BY <1>1, QueueDelProperties, ZenonT(20)
<1>4. /\ next' = [m \in Cbid |-> IF m = c THEN NIL ELSE IF m = z THEN x ELSE next[m]]
      /\ prev' = [m \in Cbid |-> IF m = c THEN NIL ELSE IF m = x THEN z ELSE prev[m]]
      /\ firstNode' = IF c = firstNode THEN x ELSE firstNode
      /\ lastNode' = IF c = lastNode THEN z ELSE lastNode
  BY ZenonT(20) DEF queueDel
<1>5. ListTypeOK'
  BY <1>4 DEF ListTypeOK
<1>6. SUFFICES Linked(queue', Len(queue'), firstNode', lastNode', next', prev')
  BY <1>3, <1>5, <1>6, RepresentsLinked, ZenonT(20)
<1>7. CASE c \notin Range(queue)
  <2>1. queue' = queue
    BY <1>1, <1>7, QueueDelUnlinked, ZenonT(20)
  <2>2. z = NIL /\ x = NIL
    BY <1>2, <1>7 DEF Linked
  <2>3. next' = next /\ prev' = prev
    BY <1>4, <2>2, NilAssumption DEF ListTypeOK
  <2>4. c # firstNode /\ c # lastNode
    BY <1>2, <1>7, NilAssumption, SMTT(30) DEF Linked, Image
  <2> QED
    BY <1>2, <1>4, <2>1, <2>3, <2>4, ZenonT(20)
<1>8. CASE c \in Range(queue)
  <2>1. PICK p \in 1..N : queue[p] = c
    BY <1>2, <1>8, ZenonT(20) DEF Image
  <2>2. queue' = UnlinkAt(queue, p)
    BY <1>1, <2>1, QueueDelPosition, ZenonT(20)
  <2>3. Removes(queue', queue, N, p) /\ Len(queue') = N - 1
    BY <1>1, <2>2, UnlinkAtElements, ZenonT(20)
  <2>4. Unlinks(queue[p], firstNode, lastNode, next, prev, firstNode', lastNode', next', prev')
    BY <1>4, <2>1, ZenonT(20) DEF Unlinks
  <2> HIDE DEF N
  <2>5. Linked(queue', N - 1, firstNode', lastNode', next', prev')
    BY ONLY <1>2, <2>3, <2>4, p \in 1..N, ListTypeOK, RemoveLinked, ZenonT(20) DEF ListTypeOK
  <2> QED
    BY <2>3, <2>5, ZenonT(20)
<1> QED
  BY <1>7, <1>8
=============================================================================
