---------------------------- MODULE Agenda_proofs ----------------------------
(***************************************************************************)
(* What posting and dropping do to an agenda, place by place, for the      *)
(* proofs about the modules that have one or implement one.                *)
(***************************************************************************)
EXTENDS Agenda, Counting

(* The parts of an event and of an entry, and what makes them equal. *)
LEMMA EventParts ==
    /\ \A k, t : <<k, t>>[1] = k /\ <<k, t>>[2] = t
    /\ \A k, l, t, u : <<k, t>> = <<l, u>> <=> k = l /\ t = u
OBVIOUS

LEMMA EntryParts ==
    \A e, at, p : /\ Entry(e, at, p).ev = e
                  /\ Entry(e, at, p).at = at /\ Entry(e, at, p).prio = p
BY DEF Entry

(* Sequences of one length with the same members are equal. *)
LEMMA SameSequence ==
    ASSUME NEW S, NEW a \in Seq(S), NEW b \in Seq(S), Len(a) = Len(b),
           \A i \in 1..Len(a) : a[i] = b[i]
    PROVE  a = b
<1>1. a = [i \in 1..Len(a) |-> a[i]] /\ b = [i \in 1..Len(b) |-> b[i]]
  OBVIOUS
<1> QED
  BY <1>1

(* What two sequences hold when they are joined. *)
LEMMA Joined ==
    ASSUME NEW S, NEW a \in Seq(S), NEW b \in Seq(S)
    PROVE  /\ a \o b \in Seq(S)
           /\ Len(a \o b) = Len(a) + Len(b)
           /\ \A i \in 1..Len(a) + Len(b) :
                 (a \o b)[i] = IF i <= Len(a) THEN a[i] ELSE b[i - Len(a)]
OBVIOUS

(* What the two parts of a sequence hold, one place left out or none. *)
LEMMA Parts ==
    ASSUME NEW S, NEW q \in Seq(S), NEW k \in 1..Len(q) + 1, NEW m \in {k, k + 1},
           m <= Len(q) + 1
    PROVE  /\ SubSeq(q, 1, k - 1) \in Seq(S) /\ SubSeq(q, m, Len(q)) \in Seq(S)
           /\ Len(SubSeq(q, 1, k - 1)) = k - 1
           /\ Len(SubSeq(q, m, Len(q))) = Len(q) - m + 1
           /\ \A i \in 1..k-1 : SubSeq(q, 1, k - 1)[i] = q[i]
           /\ \A i \in 1..Len(q) - m + 1 :
                 SubSeq(q, m, Len(q))[i] = q[m + i - 1]
OBVIOUS

(* What an insertion does, place by place. *)
LEMMA InsertAtPlaces ==
    ASSUME NEW S, NEW q \in Seq(S), NEW y \in S, NEW k \in 1..Len(q) + 1
    PROVE  /\ InsertAt(q, k, y) \in Seq(S)
           /\ Len(InsertAt(q, k, y)) = Len(q) + 1
           /\ \A i \in 1..Len(q) + 1 :
                 InsertAt(q, k, y)[i] = IF i < k THEN q[i]
                                        ELSE IF i = k THEN y ELSE q[i - 1]
<1> DEFINE a == SubSeq(q, 1, k - 1)
           c == SubSeq(q, k, Len(q))
           b == a \o <<y>>
           r == b \o c
<1>1. /\ a \in Seq(S) /\ Len(a) = k - 1 /\ \A i \in 1..k-1 : a[i] = q[i]
      /\ c \in Seq(S) /\ Len(c) = Len(q) - k + 1
      /\ \A i \in 1..Len(q) - k + 1 : c[i] = q[k + i - 1]
  BY Parts
<1>2. Len(q) \in Nat /\ k \in Nat
  OBVIOUS
<1>3. InsertAt(q, k, y) = r
  BY DEF InsertAt
<1> HIDE DEF a, c
<1>4. b \in Seq(S) /\ Len(b) = k /\ b[k] = y /\ \A i \in 1..k-1 : b[i] = q[i]
  <2>1. <<y>> \in Seq(S) /\ Len(<<y>>) = 1 /\ <<y>>[1] = y
    OBVIOUS
  <2>2. /\ b \in Seq(S)
        /\ Len(b) = Len(a) + Len(<<y>>)
        /\ \A i \in 1..Len(a) + Len(<<y>>) :
              b[i] = IF i <= Len(a) THEN a[i] ELSE <<y>>[i - Len(a)]
    BY <1>1, <2>1, Joined
  <2> HIDE DEF b
  <2>3. Len(a) + Len(<<y>>) = k /\ k - Len(a) = 1
    BY <1>1, <1>2, <2>1
  <2>4. b[k] = <<y>>[1]
    BY <1>1, <1>2, <2>2, <2>3
  <2>5. \A i \in 1..k-1 : b[i] = a[i]
    BY <1>1, <1>2, <2>2, <2>3
  <2> QED
    BY <1>1, <2>1, <2>2, <2>3, <2>4, <2>5
<1> HIDE DEF b
<1>5. /\ r \in Seq(S)
      /\ Len(r) = Len(b) + Len(c)
      /\ \A i \in 1..Len(b) + Len(c) :
            r[i] = IF i <= Len(b) THEN b[i] ELSE c[i - Len(b)]
  BY <1>1, <1>4, Joined
<1> HIDE DEF r
<1>6. Len(b) + Len(c) = Len(q) + 1
  BY <1>1, <1>2, <1>4
<1>7. ASSUME NEW i \in 1..Len(q) + 1
      PROVE  r[i] = IF i < k THEN q[i] ELSE IF i = k THEN y ELSE q[i - 1]
  <2>1. CASE i <= k
    BY <1>2, <1>4, <1>5, <1>6, <2>1
  <2>2. CASE i > k
    <3>1. PICK j \in 1..Len(q) - k + 1 : j = i - k /\ k + j - 1 = i - 1
      BY <1>2, <2>2
    <3>2. r[i] = c[j]
      BY <1>2, <1>4, <1>5, <1>6, <2>2, <3>1
    <3>3. c[j] = q[i - 1]
      BY <1>1, <3>1
    <3> QED
      BY <1>2, <2>2, <3>2, <3>3
  <2> QED
    BY <1>2, <2>1, <2>2
<1> QED
  BY <1>3, <1>5, <1>6, <1>7

(* What a removal does, place by place. *)
LEMMA RemoveAtPlaces ==
    ASSUME NEW S, NEW q \in Seq(S), NEW k \in 1..Len(q)
    PROVE  /\ RemoveAt(q, k) \in Seq(S)
           /\ Len(RemoveAt(q, k)) = Len(q) - 1
           /\ \A i \in 1..Len(q) - 1 :
                 RemoveAt(q, k)[i] = IF i < k THEN q[i] ELSE q[i + 1]
<1> DEFINE a == SubSeq(q, 1, k - 1)
           c == SubSeq(q, k + 1, Len(q))
           r == a \o c
<1>1. /\ a \in Seq(S) /\ Len(a) = k - 1 /\ \A i \in 1..k-1 : a[i] = q[i]
      /\ c \in Seq(S) /\ Len(c) = Len(q) - (k + 1) + 1
      /\ \A i \in 1..Len(q) - (k + 1) + 1 : c[i] = q[(k + 1) + i - 1]
  BY Parts
<1>2. Len(q) \in Nat /\ k \in Nat
  OBVIOUS
<1>3. RemoveAt(q, k) = r
  BY DEF RemoveAt
<1> HIDE DEF a, c
<1>5. /\ r \in Seq(S)
      /\ Len(r) = Len(a) + Len(c)
      /\ \A i \in 1..Len(a) + Len(c) :
            r[i] = IF i <= Len(a) THEN a[i] ELSE c[i - Len(a)]
  BY <1>1, Joined
<1> HIDE DEF r
<1>6. Len(a) + Len(c) = Len(q) - 1
  BY <1>1, <1>2
<1>8. \A i \in 1..Len(q) - 1 :
         r[i] = IF i <= k - 1 THEN a[i] ELSE c[i - (k - 1)]
  BY <1>1, <1>5, <1>6
<1>7. ASSUME NEW i \in 1..Len(q) - 1
      PROVE  r[i] = IF i < k THEN q[i] ELSE q[i + 1]
  <2>1. CASE i < k
    <3>1. i \in 1..k-1 /\ i <= k - 1
      BY <1>2, <2>1
    <3> QED
      BY <1>1, <1>8, <2>1, <3>1
  <2>2. CASE i >= k
    <3>1. PICK j \in 1..Len(q) - (k + 1) + 1 :
             j = i - (k - 1) /\ (k + 1) + j - 1 = i + 1
      BY <1>2, <2>2
    <3>2. r[i] = c[j]
      <4>1. ~(i <= k - 1)
        BY <1>2, <2>2
      <4> QED
        BY <1>8, <3>1, <4>1
    <3>3. c[j] = q[i + 1]
      BY <1>1, <3>1
    <3> QED
      BY <1>2, <2>2, <3>2, <3>3
  <2> QED
    BY <1>2, <2>1, <2>2
<1> QED
  BY <1>3, <1>5, <1>6, <1>7

(* A set of the first numbers is told by how many there are. *)
LEMMA FirstNumbers ==
    ASSUME NEW n \in Nat, NEW D \in SUBSET (1..n),
           \A i \in D : 1..i \subseteq D
    PROVE  Cardinality(D) \in 0..n /\ D = 1..Cardinality(D)
<1>1. IsFiniteSet(1..n) /\ Cardinality(1..n) = n
  BY FS_Interval
<1>2. IsFiniteSet(D) /\ Cardinality(D) \in Nat /\ Cardinality(D) <= n
  BY <1>1, CountPart
<1>3. D \subseteq 1..Cardinality(D)
  <2> SUFFICES ASSUME NEW i \in D PROVE i <= Cardinality(D)
    BY <1>2
  <2>1. 1..i \subseteq D /\ i \in Nat
    OBVIOUS
  <2>2. Cardinality(1..i) = i
    BY <2>1, FS_Interval
  <2>3. Cardinality(1..i) <= Cardinality(D)
    BY <1>2, <2>1, CountPart
  <2> QED
    BY <2>2, <2>3
<1>4. /\ IsFiniteSet(1..Cardinality(D))
      /\ Cardinality(1..Cardinality(D)) = Cardinality(D)
  BY <1>2, FS_Interval
<1>5. D = 1..Cardinality(D)
  BY <1>3, <1>4, FS_Subset
<1> QED
  BY <1>2, <1>5

-----------------------------------------------------------------------------
(* Posting.                                                                  *)

(* How many entries of an agenda stay before a new one. *)
Before(q, y) == Cardinality({i \in DOMAIN q : Precedes(q[i], y)})

(* A post leaves the entries in their order and puts the new one among them.*)
LEMMA PostPlaces ==
    ASSUME NEW S, NEW q \in Seq(S), NEW y \in S
    PROVE  /\ Before(q, y) \in 0..Len(q)
           /\ PostIn(q, y) \in Seq(S)
           /\ Len(PostIn(q, y)) = Len(q) + 1
           /\ \A i \in 1..Len(q) + 1 :
                 PostIn(q, y)[i] = IF i <= Before(q, y) THEN q[i]
                                   ELSE IF i = Before(q, y) + 1 THEN y
                                   ELSE q[i - 1]
<1> DEFINE D == {i \in DOMAIN q : Precedes(q[i], y)}
           k == Cardinality(D) + 1
<1>1. D \subseteq 1..Len(q) /\ Len(q) \in Nat
  OBVIOUS
<1>2. IsFiniteSet(1..Len(q)) /\ Cardinality(1..Len(q)) = Len(q)
  <2>1. Len(q) \in Int /\ 1 \in Int
    BY <1>1
  <2>2. IsFiniteSet(1..Len(q))
        /\ Cardinality(1..Len(q)) = IF 1 > Len(q) THEN 0 ELSE Len(q) - 1 + 1
    BY <2>1, FS_Interval, ZenonT(40)
  <2> QED
    BY <1>1, <2>2
<1>3. Cardinality(D) \in Nat /\ Cardinality(D) <= Len(q)
  <2> HIDE DEF D
  <2> QED
    BY <1>1, <1>2, CountPart
<1>4. PostIn(q, y) = InsertAt(q, k, y) /\ Before(q, y) = k - 1
  <2>1. PostIn(q, y) = InsertAt(q, k, y) /\ Before(q, y) = Cardinality(D)
    BY DEF PostIn, Before
  <2> HIDE DEF D
  <2> QED
    BY <1>3, <2>1
<1>5. k \in 1..Len(q) + 1 /\ k - 1 \in 0..Len(q)
  <2> HIDE DEF D
  <2> QED
    BY <1>1, <1>3
<1> HIDE DEF k, D
<1>6. /\ InsertAt(q, k, y) \in Seq(S)
      /\ Len(InsertAt(q, k, y)) = Len(q) + 1
      /\ \A i \in 1..Len(q) + 1 :
            InsertAt(q, k, y)[i] = IF i < k THEN q[i]
                                   ELSE IF i = k THEN y ELSE q[i - 1]
  <2>1. k \in 1..Len(q) + 1
    BY <1>5
  <2> QED
    BY <2>1, InsertAtPlaces
<1>7. ASSUME NEW i \in 1..Len(q) + 1
      PROVE  (i < k <=> i <= k - 1) /\ (k - 1) + 1 = k
  BY <1>5
<1> QED
  BY <1>4, <1>5, <1>6, <1>7

(* After a post the new event is posted, and all that were before. *)
LEMMA PostPosts ==
    ASSUME NEW S, NEW q \in Seq(S), NEW y \in S, NEW e
    PROVE  IsPosted(PostIn(q, y), e) <=> IsPosted(q, e) \/ y.ev = e
<1> DEFINE k == Before(q, y)
<1>1. /\ k \in 0..Len(q)
      /\ PostIn(q, y) \in Seq(S)
      /\ Len(PostIn(q, y)) = Len(q) + 1
      /\ \A i \in 1..Len(q) + 1 :
            PostIn(q, y)[i] = IF i <= k THEN q[i]
                              ELSE IF i = k + 1 THEN y ELSE q[i - 1]
  BY PostPlaces
<1> HIDE DEF k
<1> DEFINE p == PostIn(q, y)
<1>2. DOMAIN p = 1..Len(q) + 1 /\ DOMAIN q = 1..Len(q)
  BY <1>1
<1> HIDE DEF p
<1>3. ASSUME NEW i \in DOMAIN p, p[i].ev = e
      PROVE  IsPosted(q, e) \/ y.ev = e
  <2>1. CASE i <= k
    BY <1>1, <1>2, <1>3, <2>1 DEF IsPosted, p
  <2>2. CASE i = k + 1
    BY <1>1, <1>2, <1>3, <2>2 DEF p
  <2>3. CASE i > k + 1
    <3>1. i - 1 \in 1..Len(q) /\ p[i] = q[i - 1]
      BY <1>1, <1>2, <2>3 DEF p
    <3> QED
      BY <1>2, <1>3, <3>1 DEF IsPosted
  <2> QED
    BY <1>1, <1>2, <2>1, <2>2, <2>3
<1>4. ASSUME NEW i \in DOMAIN q, q[i].ev = e
      PROVE  IsPosted(p, e)
  <2>1. CASE i <= k
    BY <1>1, <1>2, <1>4, <2>1 DEF IsPosted, p
  <2>2. CASE i > k
    <3>1. i + 1 \in 1..Len(q) + 1 /\ p[i + 1] = q[i]
      <4>1. i + 1 \in 1..Len(q) + 1 /\ ~(i + 1 <= k) /\ i + 1 # k + 1
            /\ (i + 1) - 1 = i
        BY <1>1, <1>2, <2>2
      <4> QED
        BY <1>1, <4>1 DEF p
    <3> QED
      BY <1>2, <1>4, <3>1 DEF IsPosted
  <2> QED
    BY <1>1, <1>2, <2>1, <2>2
<1>5. y.ev = e => IsPosted(p, e)
  <2>1. k + 1 \in 1..Len(q) + 1 /\ p[k + 1] = y
    BY <1>1 DEF p
  <2> QED
    BY <1>2, <2>1 DEF IsPosted
<1> QED
  BY <1>3, <1>4, <1>5 DEF IsPosted, p

-----------------------------------------------------------------------------
(* Dropping.                                                                 *)

(* No event is twice in an agenda. *)
PostedOnce(q) == \A i, j \in DOMAIN q : q[i].ev = q[j].ev => i = j

(* A drop removes the place of its event, or nothing. *)
LEMMA DropPlaces ==
    ASSUME NEW S, NEW q \in Seq(S), PostedOnce(q), NEW e
    PROVE  /\ DropFrom(q, e) \in Seq(S)
           /\ ~IsPosted(q, e) => DropFrom(q, e) = q
           /\ \A k \in DOMAIN q : q[k].ev = e =>
                 /\ Len(DropFrom(q, e)) = Len(q) - 1
                 /\ \A i \in 1..Len(q) - 1 :
                       DropFrom(q, e)[i] = IF i < k THEN q[i] ELSE q[i + 1]
<1>1. CASE ~IsPosted(q, e)
  BY <1>1 DEF DropFrom, IsPosted
<1>2. CASE IsPosted(q, e)
  <2>1. PICK k \in DOMAIN q : q[k].ev = e
    BY <1>2 DEF IsPosted
  <2>2. \A j \in DOMAIN q : q[j].ev = e => j = k
    BY <2>1 DEF PostedOnce
  <2>3. (CHOOSE j \in DOMAIN q : q[j].ev = e) = k
    BY <2>1, <2>2
  <2>4. DropFrom(q, e) = RemoveAt(q, k)
    BY <1>2, <2>3 DEF DropFrom
  <2>5. k \in 1..Len(q)
    BY <2>1
  <2>6. /\ RemoveAt(q, k) \in Seq(S)
        /\ Len(RemoveAt(q, k)) = Len(q) - 1
        /\ \A i \in 1..Len(q) - 1 :
              RemoveAt(q, k)[i] = IF i < k THEN q[i] ELSE q[i + 1]
    BY <2>5, RemoveAtPlaces
  <2> QED
    BY <1>2, <2>2, <2>4, <2>6
<1> QED
  BY <1>1, <1>2

-----------------------------------------------------------------------------
(* The agenda as a set, in order.                                            *)

Entries(q) == {q[i] : i \in DOMAIN q}

InOrder(q) == \A i, j \in DOMAIN q : i < j => Precedes(q[i], q[j])

(* An agenda in order, with no event twice. *)
Proper(q) == InOrder(q) /\ PostedOnce(q)

LEMMA PostedEntries ==
    ASSUME NEW q, NEW e
    PROVE  IsPosted(q, e) <=> \E x \in Entries(q) : x.ev = e
BY DEF IsPosted, Entries

(* A post adds an entry and keeps the order. *)
LEMMA PostEntries ==
    ASSUME NEW S, \A s \in S : s.at \in Nat /\ s.prio \in Nat,
           NEW q \in Seq(S), Proper(q), NEW y \in S, ~IsPosted(q, y.ev)
    PROVE  /\ PostIn(q, y) \in Seq(S)
           /\ Proper(PostIn(q, y))
           /\ Entries(PostIn(q, y)) = Entries(q) \cup {y}
<1> DEFINE D == {i \in DOMAIN q : Precedes(q[i], y)}
           k == Before(q, y)
           p == PostIn(q, y)
<1>1. Len(q) \in Nat /\ DOMAIN q = 1..Len(q) /\ \A i \in 1..Len(q) : q[i] \in S
  OBVIOUS
<1>2. k \in 0..Len(q) /\ D = 1..k
  <2>1. ASSUME NEW i \in D, NEW j \in 1..i PROVE j \in D
    <3>1. j \in DOMAIN q /\ i \in DOMAIN q /\ q[i] \in S /\ q[j] \in S
      BY <1>1
    <3>2. i = j \/ Precedes(q[j], q[i])
      <4>1. i = j \/ j < i
        BY <1>1, <3>1
      <4> QED
        BY <3>1, <4>1 DEF Proper, InOrder
    <3>3. Precedes(q[i], y)
      OBVIOUS
    <3>4. /\ q[i].at \in Int /\ q[j].at \in Int /\ y.at \in Int
          /\ q[i].prio \in Int /\ q[j].prio \in Int /\ y.prio \in Int
      BY <3>1
    <3>5. Precedes(q[j], y)
      BY <3>2, <3>3, <3>4 DEF Precedes
    <3> QED
      BY <3>1, <3>5
  <2>2. D \in SUBSET (1..Len(q)) /\ k = Cardinality(D)
    BY <1>1 DEF Before
  <2> HIDE DEF D, k
  <2> QED
    BY <1>1, <2>1, <2>2, FirstNumbers
<1>3. /\ p \in Seq(S)
      /\ Len(p) = Len(q) + 1
      /\ \A i \in 1..Len(q) + 1 :
            p[i] = IF i <= k THEN q[i]
                   ELSE IF i = k + 1 THEN y ELSE q[i - 1]
  BY PostPlaces
<1>4. \A i \in 1..Len(q) : IF i <= k THEN Precedes(q[i], y) ELSE Precedes(y, q[i])
  <2> SUFFICES ASSUME NEW i \in 1..Len(q)
               PROVE  IF i <= k THEN Precedes(q[i], y) ELSE Precedes(y, q[i])
    OBVIOUS
  <2>1. i <= k <=> i \in D
    <3> HIDE DEF k, D
    <3> QED
      BY <1>1, <1>2
  <2>2. Precedes(q[i], y) \/ Precedes(y, q[i])
    BY <1>1 DEF Precedes
  <2>3. i \in D <=> Precedes(q[i], y)
    BY <1>1
  <2> HIDE DEF k, D
  <2> QED
    BY <2>1, <2>2, <2>3
<1> HIDE DEF D, k, p
<1> DEFINE was(i) == IF i <= k THEN i ELSE i - 1
<1>5. /\ DOMAIN p = 1..Len(q) + 1 /\ k + 1 \in 1..Len(q) + 1 /\ p[k + 1] = y
      /\ \A i \in 1..Len(q) + 1 :
            i # k + 1 => was(i) \in 1..Len(q) /\ p[i] = q[was(i)]
  BY <1>1, <1>2, <1>3
<1>6. InOrder(p)
  <2> SUFFICES ASSUME NEW i \in 1..Len(q) + 1, NEW j \in 1..Len(q) + 1, i < j
               PROVE  Precedes(p[i], p[j])
    BY <1>5 DEF InOrder
  <2>1. CASE i = k + 1
    <3>1. was(j) \in 1..Len(q) /\ p[j] = q[was(j)] /\ ~(was(j) <= k)
      BY <1>1, <1>2, <1>5, <2>1
    <3> QED
      BY <1>4, <1>5, <2>1, <3>1
  <2>2. CASE j = k + 1
    <3>1. was(i) \in 1..Len(q) /\ p[i] = q[was(i)] /\ was(i) <= k
      BY <1>1, <1>2, <1>5, <2>2
    <3> QED
      BY <1>4, <1>5, <2>2, <3>1
  <2>3. CASE i # k + 1 /\ j # k + 1
    <3>1. was(i) < was(j)
      BY <1>1, <1>2, <2>3
    <3>2. /\ was(i) \in 1..Len(q) /\ p[i] = q[was(i)]
          /\ was(j) \in 1..Len(q) /\ p[j] = q[was(j)]
      BY <1>5, <2>3
    <3> HIDE DEF was
    <3> QED
      BY <1>1, <3>1, <3>2 DEF Proper, InOrder
  <2> QED
    BY <2>1, <2>2, <2>3
<1>7. PostedOnce(p)
  <2> SUFFICES ASSUME NEW i \in 1..Len(q) + 1, NEW j \in 1..Len(q) + 1,
                      p[i].ev = p[j].ev
               PROVE  i = j
    BY <1>5 DEF PostedOnce
  <2>1. \A n \in 1..Len(q) : q[n].ev # y.ev
    BY <1>1 DEF IsPosted
  <2>2. CASE i = k + 1 \/ j = k + 1
    <3> HIDE DEF was
    <3> QED
      BY <1>5, <2>1, <2>2
  <2>3. CASE i # k + 1 /\ j # k + 1
    <3>1. was(i) = was(j)
      <4> HIDE DEF was
      <4> QED
        BY <1>1, <1>5, <2>3 DEF Proper, PostedOnce
    <3> QED
      BY <1>1, <1>2, <2>3, <3>1
  <2> QED
    BY <2>2, <2>3
<1>8. Entries(p) = Entries(q) \cup {y}
  <2>1. ASSUME NEW i \in DOMAIN p PROVE p[i] \in Entries(q) \cup {y}
    <3> HIDE DEF was
    <3> QED
      BY <1>1, <1>5 DEF Entries
  <2>2. ASSUME NEW i \in DOMAIN q PROVE q[i] \in Entries(p)
    <3>1. CASE i <= k
      <4>1. i \in 1..Len(q) + 1 /\ p[i] = q[i]
        BY <1>1, <1>2, <1>3, <3>1
      <4> QED
        BY <1>5, <4>1 DEF Entries
    <3>2. CASE i > k
      <4>1. /\ i + 1 \in 1..Len(q) + 1 /\ ~(i + 1 <= k) /\ i + 1 # k + 1
            /\ (i + 1) - 1 = i
        BY <1>1, <1>2, <3>2
      <4>2. p[i + 1] = q[i]
        BY <1>3, <4>1
      <4> QED
        BY <1>5, <4>1, <4>2 DEF Entries
    <3> QED
      BY <1>1, <1>2, <3>1, <3>2
  <2>3. y \in Entries(p)
    BY <1>5 DEF Entries
  <2> QED
    BY <2>1, <2>2, <2>3 DEF Entries
<1> QED
  BY <1>3, <1>6, <1>7, <1>8 DEF p, Proper

(* What an agenda that keeps some of the places of another has of it. *)
LEMMA FewerEntries ==
    ASSUME NEW q, Proper(q), NEW p, NEW f \in [DOMAIN p -> DOMAIN q],
           DOMAIN q \subseteq Nat, DOMAIN p \subseteq Nat,
           \A i, j \in DOMAIN p : i < j => f[i] < f[j],
           \A i \in DOMAIN p : p[i] = q[f[i]]
    PROVE  /\ Proper(p)
           /\ Entries(p) \subseteq Entries(q)
           /\ \A i \in DOMAIN q : (\E j \in DOMAIN p : f[j] = i) => q[i] \in Entries(p)
           /\ \A i \in DOMAIN q : q[i] \in Entries(p) => \E j \in DOMAIN p : f[j] = i
<1>1. InOrder(p)
  BY DEF Proper, InOrder
<1>2. PostedOnce(p)
  <2> SUFFICES ASSUME NEW i \in DOMAIN p, NEW j \in DOMAIN p, p[i].ev = p[j].ev
               PROVE  i = j
    BY DEF PostedOnce
  <2>1. f[i] = f[j]
    BY DEF Proper, PostedOnce
  <2>2. ~(f[i] < f[j]) /\ ~(f[j] < f[i])
    BY <2>1
  <2> QED
    BY <2>2
<1>3. Entries(p) \subseteq Entries(q)
  BY DEF Entries
<1>4. \A i \in DOMAIN q : (\E j \in DOMAIN p : f[j] = i) => q[i] \in Entries(p)
  BY DEF Entries
<1>5. ASSUME NEW i \in DOMAIN q, q[i] \in Entries(p)
      PROVE  \E j \in DOMAIN p : f[j] = i
  <2>1. PICK j \in DOMAIN p : q[i] = p[j]
    BY <1>5 DEF Entries
  <2>2. q[i].ev = q[f[j]].ev /\ f[j] \in DOMAIN q
    BY <2>1
  <2> QED
    BY <2>2 DEF Proper, PostedOnce
<1> QED
  BY <1>1, <1>2, <1>3, <1>4, <1>5 DEF Proper

(* A drop takes the entry of its event, if there is one. *)
LEMMA DropEntries ==
    ASSUME NEW S, NEW q \in Seq(S), Proper(q), NEW e
    PROVE  /\ DropFrom(q, e) \in Seq(S)
           /\ Proper(DropFrom(q, e))
           /\ Entries(DropFrom(q, e)) = {x \in Entries(q) : x.ev # e}
<1> DEFINE p == DropFrom(q, e)
<1>1. /\ p \in Seq(S)
      /\ ~IsPosted(q, e) => p = q
      /\ \A k \in DOMAIN q : q[k].ev = e =>
            /\ Len(p) = Len(q) - 1
            /\ \A i \in 1..Len(q) - 1 :
                  p[i] = IF i < k THEN q[i] ELSE q[i + 1]
  BY DropPlaces DEF Proper
<1> HIDE DEF p
<1>2. CASE ~IsPosted(q, e)
  <2>1. \A x \in Entries(q) : x.ev # e
    BY <1>2 DEF IsPosted, Entries
  <2> QED
    BY <1>1, <1>2, <2>1 DEF p
<1>3. CASE IsPosted(q, e)
  <2>1. PICK k \in DOMAIN q : q[k].ev = e
    BY <1>3 DEF IsPosted
  <2> DEFINE f == [i \in 1..Len(q) - 1 |-> IF i < k THEN i ELSE i + 1]
  <2>2. /\ DOMAIN p = 1..Len(q) - 1 /\ DOMAIN q = 1..Len(q) /\ Len(q) \in Nat
        /\ k \in 1..Len(q)
        /\ \A i \in 1..Len(q) - 1 : p[i] = IF i < k THEN q[i] ELSE q[i + 1]
    BY <1>1, <2>1
  <2>3. /\ f \in [DOMAIN p -> DOMAIN q]
        /\ DOMAIN q \subseteq Nat /\ DOMAIN p \subseteq Nat
        /\ \A i, j \in DOMAIN p : i < j => f[i] < f[j]
    BY <2>2
  <2>4. \A i \in DOMAIN p : p[i] = q[f[i]]
    BY <2>2
  <2>5. \A i \in DOMAIN q : (\E j \in DOMAIN p : f[j] = i) <=> i # k
    <3> SUFFICES ASSUME NEW i \in DOMAIN q
                 PROVE  (\E j \in DOMAIN p : f[j] = i) <=> i # k
      OBVIOUS
    <3>1. CASE i < k
      <4>1. i \in DOMAIN p /\ f[i] = i
        BY <2>2, <3>1
      <4> QED
        BY <2>2, <3>1, <4>1
    <3>2. CASE i > k
      <4>1. i - 1 \in DOMAIN p /\ f[i - 1] = i
        BY <2>2, <3>2
      <4> QED
        BY <2>2, <3>2, <4>1
    <3>3. CASE i = k
      BY <2>2, <3>3
    <3> QED
      BY <2>2, <3>1, <3>2, <3>3
  <2> HIDE DEF f
  <2>6. /\ Proper(p)
        /\ Entries(p) \subseteq Entries(q)
        /\ \A i \in DOMAIN q : q[i] \in Entries(p) <=> i # k
    BY <2>3, <2>4, <2>5, FewerEntries
  <2>7. \A i \in DOMAIN q : q[i].ev = e <=> i = k
    BY <2>1 DEF Proper, PostedOnce
  <2>8. Entries(p) = {x \in Entries(q) : x.ev # e}
    BY <2>6, <2>7 DEF Entries
  <2> QED
    BY <1>1, <2>6, <2>8 DEF p
<1> QED
  BY <1>2, <1>3

(* What is left behind the first entry, which precedes it all. *)
LEMMA TailEntries ==
    ASSUME NEW S, \A s \in S : s.at \in Nat /\ s.prio \in Nat,
           NEW q \in Seq(S), Proper(q), q # <<>>
    PROVE  /\ Head(q) \in Entries(q)
           /\ \A x \in Entries(q) : Precedes(Head(q), x)
           /\ Tail(q) \in Seq(S)
           /\ Proper(Tail(q))
           /\ Entries(Tail(q)) = {x \in Entries(q) : x.ev # Head(q).ev}
<1>1. /\ Len(q) \in Nat \ {0} /\ DOMAIN q = 1..Len(q) /\ Head(q) = q[1]
      /\ \A i \in 1..Len(q) : q[i] \in S
  OBVIOUS
<1>2. Head(q) \in Entries(q)
  BY <1>1 DEF Entries
<1>3. \A x \in Entries(q) : Precedes(Head(q), x)
  <2> SUFFICES ASSUME NEW i \in 1..Len(q) PROVE Precedes(q[1], q[i])
    BY <1>1 DEF Entries
  <2>1. CASE i = 1
    BY <1>1, <2>1 DEF Precedes
  <2>2. CASE i > 1
    BY <1>1, <2>2 DEF Proper, InOrder
  <2> QED
    BY <1>1, <2>1, <2>2
<1> DEFINE p == Tail(q)
           f == [i \in 1..Len(q) - 1 |-> i + 1]
<1>4. /\ p \in Seq(S) /\ DOMAIN p = 1..Len(q) - 1
      /\ \A i \in 1..Len(q) - 1 : p[i] = q[i + 1]
  BY <1>1
<1> HIDE DEF p
<1>5. /\ f \in [DOMAIN p -> DOMAIN q]
      /\ DOMAIN q \subseteq Nat /\ DOMAIN p \subseteq Nat
      /\ \A i, j \in DOMAIN p : i < j => f[i] < f[j]
      /\ \A i \in DOMAIN p : p[i] = q[f[i]]
  BY <1>1, <1>4
<1>6. \A i \in DOMAIN q : (\E j \in DOMAIN p : f[j] = i) <=> i # 1
  <2> SUFFICES ASSUME NEW i \in DOMAIN q
               PROVE  (\E j \in DOMAIN p : f[j] = i) <=> i # 1
    OBVIOUS
  <2>1. CASE i = 1
    BY <1>1, <1>4, <2>1
  <2>2. CASE i # 1
    <3>1. i - 1 \in DOMAIN p /\ f[i - 1] = i
      BY <1>1, <1>4, <2>2
    <3> QED
      BY <2>2, <3>1
  <2> QED
    BY <2>1, <2>2
<1> HIDE DEF f
<1>7. /\ Proper(p)
      /\ Entries(p) \subseteq Entries(q)
      /\ \A i \in DOMAIN q : q[i] \in Entries(p) <=> i # 1
  BY <1>5, <1>6, FewerEntries
<1>8. \A i \in DOMAIN q : q[i].ev = Head(q).ev <=> i = 1
  BY <1>1 DEF Proper, PostedOnce
<1>9. Entries(p) = {x \in Entries(q) : x.ev # Head(q).ev}
  <2>1. ASSUME NEW x, x \in Entries(q)
        PROVE  x \in Entries(p) <=> x.ev # Head(q).ev
    <3>1. PICK i \in DOMAIN q : q[i] = x
      BY <2>1 DEF Entries
    <3>2. q[i] \in Entries(p) <=> i # 1
      BY <1>7
    <3>3. q[i].ev = Head(q).ev <=> i = 1
      BY <1>8
    <3> QED
      BY <3>1, <3>2, <3>3
  <2> QED
    BY <1>7, <2>1
<1> QED
  BY <1>2, <1>3, <1>4, <1>7, <1>9 DEF p

(* The drop of several events takes the entries of those that are posted. *)
LEMMA DropAllEntries ==
    ASSUME NEW S, NEW q \in Seq(S), Proper(q), NEW E
    PROVE  /\ DropAllFrom(q, E) \in Seq(S)
           /\ Proper(DropAllFrom(q, E))
           /\ Entries(DropAllFrom(q, E)) = {x \in Entries(q) : x.ev \notin E}
<1> DEFINE K == {i \in DOMAIN q : q[i].ev \notin E}
           n == Cardinality(K)
           before == [i \in K |-> {h \in K : h < i}]
           Nth(m) == CHOOSE i \in K : Cardinality({h \in K : h < i}) + 1 = m
           p == DropAllFrom(q, E)
<1>1. Len(q) \in Nat /\ DOMAIN q = 1..Len(q) /\ K \subseteq 1..Len(q)
      /\ K \subseteq Nat
  OBVIOUS
<1>2. IsFiniteSet(K) /\ n \in Nat
  <2>1. IsFiniteSet(1..Len(q))
    BY <1>1, FS_Interval
  <2> HIDE DEF K
  <2> QED
    BY <1>1, <2>1, CountPart
<1>3. p = [m \in 1..n |-> q[Nth(m)]]
  BY DEF DropAllFrom
<1>0. \A x \in K : before[x] = {h \in K : h < x}
  OBVIOUS
<1>4. /\ \A x \in K : Cardinality(before[x]) + 1 \in 1..n
      /\ \A i \in 1..n : \E x \in K : Cardinality(before[x]) + 1 = i
      /\ \A x, y \in K : x \in before[y]
            => Cardinality(before[x]) < Cardinality(before[y])
  <2>1. before \in [K -> SUBSET K]
    OBVIOUS
  <2>2. /\ \A x \in K : x \notin before[x]
        /\ \A x, y \in K : x = y \/ x \in before[y] \/ y \in before[x]
        /\ \A x, y \in K : x \in before[y] => before[x] \subseteq before[y]
    <3>1. \A x, y \in K : x \in before[y] <=> x < y
      <4> HIDE DEF K, before
      <4> QED
        BY <1>0
    <3>2. \A x \in K : before[x] \subseteq K /\ x \in Nat
      <4> HIDE DEF K, before
      <4> QED
        BY <1>0, <1>1
    <3> HIDE DEF K, before
    <3>3. ASSUME NEW x \in K, NEW y \in K, x \in before[y], NEW z \in before[x]
          PROVE  z \in before[y]
      BY <3>1, <3>2, <3>3
    <3>4. \A x \in K : x \notin before[x]
      BY <3>1, <3>2
    <3>5. \A x, y \in K : x = y \/ x \in before[y] \/ y \in before[x]
      BY <3>1, <3>2
    <3> QED
      BY <3>3, <3>4, <3>5
  <2> HIDE DEF K, before
  <2> QED
    BY <1>2, <2>1, <2>2, PlacesInOrder
<1>5. \A x, y \in K : x < y <=> x \in before[y]
  OBVIOUS
<1> HIDE DEF p, before, n
<1>6. ASSUME NEW m \in 1..n
      PROVE  Nth(m) \in K /\ Cardinality(before[Nth(m)]) + 1 = m
  <2>1. \E i \in K : Cardinality({h \in K : h < i}) + 1 = m
    <3> HIDE DEF K
    <3> QED
      BY <1>0, <1>4
  <2>2. Nth(m) \in K /\ Cardinality({h \in K : h < Nth(m)}) + 1 = m
    <3> HIDE DEF K
    <3> QED
      BY <2>1
  <2> HIDE DEF K, Nth
  <2> QED
    BY <1>0, <2>2
<1> DEFINE f == [m \in 1..n |-> Nth(m)]
<1>7. /\ f \in [1..n -> K]
      /\ \A m \in 1..n : Cardinality(before[f[m]]) + 1 = m
      /\ DOMAIN p = 1..n /\ \A m \in 1..n : p[m] = q[f[m]]
  <2> HIDE DEF Nth
  <2> QED
    BY <1>3, <1>6
<1> HIDE DEF f, Nth
<1>8. \A x \in K : Cardinality(before[x]) + 1 \in 1..n
                   /\ Cardinality(before[x]) \in Int
  <2> SUFFICES ASSUME NEW x \in K
               PROVE  /\ Cardinality(before[x]) + 1 \in 1..n
                      /\ Cardinality(before[x]) \in Int
    OBVIOUS
  <2>1. before[x] \subseteq K
    BY DEF before
  <2>2. Cardinality(before[x]) \in Nat
    <3> HIDE DEF K
    <3> QED
      BY <1>2, <2>1, CountPart
  <2> QED
    BY <1>4, <2>2
<1>9. \A x \in K : f[Cardinality(before[x]) + 1] = x
  <2> SUFFICES ASSUME NEW x \in K PROVE f[Cardinality(before[x]) + 1] = x
    OBVIOUS
  <2>1. PICK y \in K : y = f[Cardinality(before[x]) + 1]
    BY <1>7, <1>8
  <2>2. Cardinality(before[y]) + 1 = Cardinality(before[x]) + 1
    BY <1>7, <1>8, <2>1
  <2>3. Cardinality(before[y]) = Cardinality(before[x])
    BY <1>8, <2>2
  <2>4. ~(y \in before[x]) /\ ~(x \in before[y])
    BY <1>4, <1>8, <2>3
  <2>5. ~(y < x) /\ ~(x < y)
    BY <1>5, <2>4
  <2>6. x \in Nat /\ y \in Nat
    BY <1>1
  <2> QED
    BY <2>1, <2>5, <2>6
<1>10. ASSUME NEW i \in 1..n, NEW j \in 1..n, i < j
       PROVE  f[i] < f[j]
  <2>1. f[i] \in K /\ f[j] \in K /\ f[i] \in Nat /\ f[j] \in Nat
    BY <1>1, <1>7
  <2>2. Cardinality(before[f[i]]) + 1 = i /\ Cardinality(before[f[j]]) + 1 = j
    BY <1>7
  <2>3. ~(Cardinality(before[f[j]]) < Cardinality(before[f[i]])) /\ f[i] # f[j]
    BY <1>8, <1>10, <2>1, <2>2
  <2>4. ~(f[j] < f[i])
    BY <1>4, <1>5, <2>1, <2>3
  <2> QED
    BY <2>1, <2>3, <2>4
<1>11. /\ f \in [DOMAIN p -> DOMAIN q]
       /\ DOMAIN q \subseteq Nat /\ DOMAIN p \subseteq Nat
       /\ \A i, j \in DOMAIN p : i < j => f[i] < f[j]
       /\ \A i \in DOMAIN p : p[i] = q[f[i]]
  BY <1>1, <1>2, <1>7, <1>10
<1>12. /\ Proper(p)
       /\ Entries(p) \subseteq Entries(q)
       /\ \A i \in DOMAIN q : q[i] \in Entries(p)
                                 <=> \E j \in DOMAIN p : f[j] = i
  BY <1>11, FewerEntries
<1>13. \A i \in DOMAIN q : (\E j \in DOMAIN p : f[j] = i) <=> i \in K
  BY <1>7, <1>8, <1>9
<1>14. Entries(p) = {x \in Entries(q) : x.ev \notin E}
  <2>1. \A i \in DOMAIN q : i \in K <=> q[i].ev \notin E
    OBVIOUS
  <2>2. \A i \in DOMAIN q : q[i] \in Entries(p) <=> q[i].ev \notin E
    <3> HIDE DEF K
    <3> QED
      BY <1>12, <1>13, <2>1
  <2> QED
    BY <1>12, <2>2 DEF Entries
<1>15. p \in Seq(S)
  <2>1. p = [m \in 1..n |-> q[f[m]]]
    BY <1>3, <1>7 DEF f
  <2>2. \A m \in 1..n : q[f[m]] \in S
    BY <1>1, <1>7
  <2> QED
    BY <1>2, <2>1, <2>2
<1> QED
  BY <1>12, <1>14, <1>15 DEF p
==============================================================================
