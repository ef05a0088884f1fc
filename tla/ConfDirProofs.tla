--------------------------- MODULE ConfDirProofs ---------------------------
(***************************************************************************)
(* The loaded copy of a configuration directory is the directory: the      *)
(* merged lists stay those of the files, and what operations promise about *)
(* tags, rules and entries holds, for any number of files, any directory   *)
(* and any sequence of operations, discoveries and edits by others.        *)
(***************************************************************************)
EXTENDS ConfDir, FiniteSetTheorems, SequenceTheorems, WellFoundedInduction, TLAPS

-----------------------------------------------------------------------------
(* Induction over the natural numbers, on sets: the library's theorems for *)
(* it are about operators.                                                 *)
LEMMA SetInduction ==
    ASSUME NEW T, T \subseteq Nat, 0 \in T, \A n \in T : n + 1 \in T
    PROVE  T = Nat
<1> SUFFICES ASSUME Nat \ T # {} PROVE FALSE
    OBVIOUS
<1> DEFINE R == {p \in Nat \X Nat : p[1] < p[2]}
<1>1. IsWellFoundedOn(R, Nat)
    BY NatLessThanWellFounded DEF OpToRel
<1>2. \A x, y \in Nat : x < y => <<x, y>> \in R
    OBVIOUS
<1> HIDE DEF R
<1>3. PICK x \in Nat \ T : \A y \in Nat \ T : ~(<<y, x>> \in R)
    BY <1>1, WFMin
<1>4. x # 0 /\ x - 1 \in Nat /\ x - 1 < x /\ (x - 1) + 1 = x
    BY <1>3
<1>5. x - 1 \in T
    BY <1>2, <1>3, <1>4
<1> QED
    BY <1>3, <1>4, <1>5

(* A set of numbers that is not empty has a least element.                 *)
LEMMA LeastElement ==
    ASSUME NEW S, S \subseteq Nat, S # {}
    PROVE  \E x \in S : \A y \in S : x <= y
<1> SUFFICES ASSUME \A x \in S : \E y \in S : ~(x <= y) PROVE FALSE
    OBVIOUS
<1> DEFINE T == {n \in Nat : \A y \in S : n <= y}
<1>1. 0 \in T
    OBVIOUS
<1>2. \A n \in T : n + 1 \in T
    <2> SUFFICES ASSUME NEW n \in T, NEW y \in S PROVE n + 1 <= y
        OBVIOUS
    <2>1. n <= y /\ n \in Nat /\ y \in Nat
        OBVIOUS
    <2>2. n # y
        OBVIOUS
    <2> QED
        BY <2>1, <2>2
<1>3. T = Nat
    <2> HIDE DEF T
    <2>1. T \subseteq Nat
        BY DEF T
    <2> QED
        BY <1>1, <1>2, <2>1, SetInduction
<1>4. PICK y \in S : TRUE
    OBVIOUS
<1>5. y \in Nat /\ y + 1 \in T
    BY <1>3, <1>4
<1> QED
    BY <1>5

(* Min and Max of a set of file numbers.                                   *)
LEMMA MinIs ==
    ASSUME NEW S, S \subseteq Nat, S # {}
    PROVE  Min(S) \in S /\ \A y \in S : Min(S) <= y
BY LeastElement DEF Min

LEMMA MaxIs ==
    ASSUME NEW n \in Nat, NEW S, S \subseteq 1 .. n, S # {}
    PROVE  Max(S) \in S /\ \A y \in S : Max(S) >= y
<1> DEFINE T == {n - x : x \in S}
<1>1. T \subseteq Nat /\ T # {}
    <2>1. \A x \in S : x \in 1 .. n /\ n - x \in Nat
        OBVIOUS
    <2>2. PICK x \in S : TRUE
        OBVIOUS
    <2> QED
        BY <2>1, <2>2
<1>2. PICK t \in T : \A u \in T : t <= u
    <2> HIDE DEF T
    <2> QED
        BY <1>1, LeastElement
<1>3. PICK x \in S : t = n - x
    OBVIOUS
<1>4. \A y \in S : x >= y
    <2> TAKE y \in S
    <2>1. n - x <= n - y
        BY <1>2, <1>3
    <2> QED
        BY <2>1
<1> QED
    BY <1>4 DEF Max

-----------------------------------------------------------------------------
(* Places in a merged list.                                                *)

LEMMA PlaceType ==
    ASSUME NEW s, NEW f, NEW n \in Nat
    PROVE  /\ IsFiniteSet({i \in 1 .. n : s[i].file = f})
           /\ Place(s, f, n) \in Nat
<1>1. IsFiniteSet(1 .. n)
    BY FS_Interval
<1>2. {i \in 1 .. n : s[i].file = f} \in SUBSET (1 .. n)
    OBVIOUS
<1>3. IsFiniteSet({i \in 1 .. n : s[i].file = f})
    BY <1>1, <1>2, FS_Subset
<1> QED
    BY <1>3, FS_CardinalityType DEF Place

LEMMA PlaceZero ==
    ASSUME NEW s, NEW f
    PROVE  Place(s, f, 0) = 0
<1>1. {i \in 1 .. 0 : s[i].file = f} = {}
    OBVIOUS
<1> QED
    BY <1>1, FS_EmptySet DEF Place

(* The next entry counts when it is of the file.                           *)
LEMMA PlaceNext ==
    ASSUME NEW s, NEW f, NEW n \in Nat
    PROVE  Place(s, f, n + 1) = Place(s, f, n) + (IF s[n + 1].file = f THEN 1 ELSE 0)
<1> DEFINE P == {i \in 1 .. n : s[i].file = f}
           Q == {i \in 1 .. n + 1 : s[i].file = f}
<1>1. IsFiniteSet(P) /\ Cardinality(P) = Place(s, f, n) /\ Place(s, f, n) \in Nat
    BY PlaceType DEF Place
<1>2. Cardinality(Q) = Place(s, f, n + 1)
    BY DEF Place
<1>3. 1 .. n + 1 = (1 .. n) \cup {n + 1} /\ n + 1 \notin 1 .. n
    OBVIOUS
<1>4. CASE s[n + 1].file = f
    <2>1. Q = P \cup {n + 1} /\ n + 1 \notin P
        BY <1>3, <1>4
    <2> HIDE DEF P, Q
    <2>2. Cardinality(Q) = Cardinality(P) + 1
        BY <1>1, <2>1, FS_AddElement
    <2> QED
        BY <1>1, <1>2, <1>4, <2>2
<1>5. CASE s[n + 1].file # f
    <2>1. Q = P
        BY <1>3, <1>5
    <2> HIDE DEF P, Q
    <2> QED
        BY <1>1, <1>2, <1>5, <2>1
<1> QED
    BY <1>4, <1>5

(* Only whether the entries are of the file matters.                       *)
LEMMA PlaceSame ==
    ASSUME NEW s, NEW t, NEW f, NEW n \in Nat,
           \A i \in 1 .. n : s[i].file = f <=> t[i].file = f
    PROVE  Place(s, f, n) = Place(t, f, n)
<1>1. {i \in 1 .. n : s[i].file = f} = {i \in 1 .. n : t[i].file = f}
    OBVIOUS
<1> QED
    BY <1>1 DEF Place

LEMMA PlaceGrows ==
    ASSUME NEW s, NEW f, NEW m \in Nat, NEW n \in Nat, m <= n
    PROVE  Place(s, f, m) <= Place(s, f, n)
<1> DEFINE P == {i \in 1 .. m : s[i].file = f}
           Q == {i \in 1 .. n : s[i].file = f}
<1>1. IsFiniteSet(Q)
    BY PlaceType
<1>2. P \in SUBSET Q
    OBVIOUS
<1>3. Cardinality(P) <= Cardinality(Q)
    <2> HIDE DEF P, Q
    <2> QED
        BY <1>1, <1>2, FS_Subset
<1> QED
    BY <1>3 DEF Place

(* Entries of a file are at different places, in their order.              *)
LEMMA PlaceRises ==
    ASSUME NEW s, NEW f, NEW m \in Nat, NEW n \in Nat, m < n, s[n].file = f
    PROVE  Place(s, f, m) < Place(s, f, n)
<1>1. n - 1 \in Nat /\ (n - 1) + 1 = n /\ m <= n - 1
    OBVIOUS
<1>2. Place(s, f, n) = Place(s, f, n - 1) + 1
    <2>1. Place(s, f, (n - 1) + 1) = Place(s, f, n - 1) + 1
        BY <1>1, PlaceNext
    <2> QED
        BY <1>1, <2>1
<1>3. Place(s, f, m) <= Place(s, f, n - 1)
    BY <1>1, PlaceGrows
<1>4. Place(s, f, m) \in Nat /\ Place(s, f, n - 1) \in Nat
    BY <1>1, PlaceType
<1> QED
    BY <1>2, <1>3, <1>4

(* The place of an entry is one of the file's array.                       *)
LEMMA PlaceInside ==
    ASSUME NEW s, NEW f, NEW n \in Nat, NEW j \in 1 .. n, s[j].file = f
    PROVE  Place(s, f, j) \in 1 .. Place(s, f, n)
<1>1. Place(s, f, 0) < Place(s, f, j)
    BY PlaceRises
<1>2. Place(s, f, j) <= Place(s, f, n)
    BY PlaceGrows
<1>3. Place(s, f, j) \in Nat /\ Place(s, f, n) \in Nat
    <2>1. j \in Nat
        OBVIOUS
    <2> QED
        BY <2>1, PlaceType
<1> QED
    BY <1>1, <1>2, <1>3, PlaceZero

(* Every place is some entry's.                                            *)
LEMMA PlaceTaken ==
    ASSUME NEW s, NEW f, NEW n \in Nat, NEW r \in 1 .. Place(s, f, n)
    PROVE  \E j \in 1 .. n : s[j].file = f /\ Place(s, f, j) = r
<1> DEFINE T == {m \in Nat : r <= Place(s, f, m)}
<1>1. n \in T
    BY PlaceType
<1>2. PICK j \in T : \A y \in T : j <= y
    <2>1. T \subseteq Nat /\ T # {}
        BY <1>1
    <2> HIDE DEF T
    <2> QED
        BY <2>1, LeastElement
<1>3. j \in Nat /\ j <= n /\ r <= Place(s, f, j)
    BY <1>1, <1>2
<1>4. j # 0
    BY <1>3, PlaceZero
<1>5. j - 1 \in Nat /\ (j - 1) + 1 = j
    BY <1>3, <1>4
<1>6. ~(r <= Place(s, f, j - 1))
    BY <1>2, <1>3, <1>5
<1>7. Place(s, f, j) = Place(s, f, j - 1) + (IF s[j].file = f THEN 1 ELSE 0)
    <2>1. Place(s, f, (j - 1) + 1) =
              Place(s, f, j - 1) + (IF s[(j - 1) + 1].file = f THEN 1 ELSE 0)
        BY <1>5, PlaceNext
    <2> QED
        BY <1>5, <2>1
<1>8. Place(s, f, j - 1) \in Nat
    BY <1>5, PlaceType
<1>9. s[j].file = f /\ Place(s, f, j) = r
    BY <1>3, <1>6, <1>7, <1>8
<1> QED
    BY <1>3, <1>4, <1>9

-----------------------------------------------------------------------------
(* Lists and arrays that change together.                                  *)

(* A new last entry goes behind its file's array, and no other.            *)
LEMMA MirrorsAppend ==
    ASSUME NEW S, NEW s \in Seq(S), NEW A, NEW a \in Seq(A), NEW f, NEW e,
           Mirrors(s, f, a)
    PROVE  /\ e.file = f => Mirrors(Append(s, e), f, Append(a, e.item))
           /\ e.file # f => Mirrors(Append(s, e), f, a)
<1> DEFINE t == Append(s, e)
           b == Append(a, e.item)
<1>1. /\ Len(s) \in Nat /\ DOMAIN s = 1 .. Len(s) /\ Len(a) \in Nat
      /\ Len(t) = Len(s) + 1 /\ DOMAIN t = 1 .. Len(s) + 1 /\ t[Len(s) + 1] = e
      /\ \A i \in 1 .. Len(s) : t[i] = s[i]
    OBVIOUS
<1>2. /\ Len(b) = Len(a) + 1 /\ b[Len(a) + 1] = e.item
      /\ \A i \in 1 .. Len(a) : b[i] = a[i]
    OBVIOUS
<1> HIDE DEF t, b
<1>3. /\ Len(a) = Place(s, f, Len(s))
      /\ \A j \in 1 .. Len(s) : s[j].file = f => s[j].item = a[Place(s, f, j)]
    BY <1>1 DEF Mirrors
<1>4. ASSUME NEW j \in 0 .. Len(s) PROVE Place(t, f, j) = Place(s, f, j)
    <2>1. j \in Nat /\ \A i \in 1 .. j : t[i] = s[i]
        BY <1>1
    <2> QED
        BY <2>1, PlaceSame
<1>5. Place(t, f, Len(s) + 1) = Place(s, f, Len(s)) + (IF e.file = f THEN 1 ELSE 0)
    <2>1. Len(s) \in 0 .. Len(s) /\ Len(s) \in Nat
        BY <1>1
    <2>2. Place(t, f, Len(s) + 1)
            = Place(t, f, Len(s)) + (IF t[Len(s) + 1].file = f THEN 1 ELSE 0)
        BY <2>1, PlaceNext
    <2> QED
        BY <1>1, <1>4, <2>1, <2>2
<1>6. ASSUME NEW j \in 1 .. Len(s), s[j].file = f PROVE Place(s, f, j) \in 1 .. Len(a)
    BY <1>1, <1>3, <1>6, PlaceInside
<1>7. \A j \in 1 .. Len(s) : t[j].file = f =>
         Place(t, f, j) \in 1 .. Len(a) /\ t[j].item = a[Place(t, f, j)]
    BY <1>1, <1>3, <1>4, <1>6
<1>8. CASE e.file = f
    <2>1. Place(t, f, Len(s) + 1) = Len(a) + 1
        BY <1>3, <1>5, <1>8
    <2>2. ASSUME NEW j \in 1 .. Len(s) + 1, t[j].file = f
          PROVE  t[j].item = b[Place(t, f, j)]
        <3>1. CASE j \in 1 .. Len(s)
            BY <1>2, <1>7, <2>2, <3>1
        <3>2. CASE j = Len(s) + 1
            BY <1>1, <1>2, <2>1, <3>2
        <3> QED
            BY <1>1, <3>1, <3>2
    <2>3. Mirrors(t, f, b)
        BY <1>1, <1>2, <2>1, <2>2 DEF Mirrors
    <2> QED
        BY <1>8, <2>3 DEF t, b
<1>9. CASE e.file # f
    <2>1. Place(t, f, Len(s) + 1) = Len(a)
        BY <1>1, <1>3, <1>5, <1>9
    <2>2. \A j \in 1 .. Len(s) + 1 : t[j].file = f => j \in 1 .. Len(s)
        BY <1>1, <1>9
    <2>3. Mirrors(t, f, a)
        BY <1>1, <1>7, <2>1, <2>2 DEF Mirrors
    <2> QED
        BY <1>9, <2>3 DEF t
<1> QED
    BY <1>8, <1>9

(* A replaced entry is replaced in its file's array, and in no other.      *)
LEMMA MirrorsReplace ==
    ASSUME NEW S, NEW s \in Seq(S), NEW T, NEW t \in Seq(T),
           NEW A, NEW a \in Seq(A), NEW f, NEW at \in 1 .. Len(s), NEW x,
           Len(t) = Len(s), t[at].item = x,
           \A i \in 1 .. Len(s) : t[i].file = s[i].file,
           \A i \in 1 .. Len(s) : i # at => t[i].item = s[i].item,
           Mirrors(s, f, a)
    PROVE  /\ s[at].file = f => Mirrors(t, f, [a EXCEPT ![Place(s, f, at)] = x])
           /\ s[at].file # f => Mirrors(t, f, a)
<1>1. Len(s) \in Nat /\ DOMAIN s = 1 .. Len(s) /\ DOMAIN t = 1 .. Len(s)
    OBVIOUS
<1>2. /\ Len(a) = Place(s, f, Len(s))
      /\ \A j \in 1 .. Len(s) : s[j].file = f => s[j].item = a[Place(s, f, j)]
    BY <1>1 DEF Mirrors
<1>3. ASSUME NEW j \in 0 .. Len(s) PROVE Place(t, f, j) = Place(s, f, j)
    <2>1. j \in Nat /\ \A i \in 1 .. j : t[i].file = s[i].file
        BY <1>1
    <2> QED
        BY <2>1, PlaceSame
<1>4. ASSUME NEW j \in 1 .. Len(s), s[j].file = f
      PROVE  /\ Place(s, f, j) \in 1 .. Len(a)
             /\ j # at /\ s[at].file = f => Place(s, f, j) # Place(s, f, at)
    <2>1. Place(s, f, j) \in 1 .. Len(a)
        BY <1>1, <1>2, <1>4, PlaceInside
    <2>2. ASSUME j # at, s[at].file = f PROVE Place(s, f, j) # Place(s, f, at)
        <3>1. j \in Nat /\ at \in Nat /\ (j < at \/ at < j)
            BY <1>1, <2>2
        <3>2. Place(s, f, j) \in Nat /\ Place(s, f, at) \in Nat
            BY <3>1, PlaceType
        <3>3. Place(s, f, j) < Place(s, f, at) \/ Place(s, f, at) < Place(s, f, j)
            BY <1>4, <2>2, <3>1, PlaceRises
        <3> QED
            BY <3>2, <3>3
    <2> QED
        BY <2>1, <2>2
<1>5. CASE s[at].file = f
    <2> DEFINE p == Place(s, f, at)
               b == [a EXCEPT ![p] = x]
    <2>1. p \in 1 .. Len(a)
        BY <1>4, <1>5
    <2>2. Len(b) = Len(a) /\ \A i \in 1 .. Len(a) : b[i] = IF i = p THEN x ELSE a[i]
        <3> HIDE DEF p
        <3> QED
            BY <2>1
    <2> HIDE DEF b, p
    <2>3. ASSUME NEW j \in 1 .. Len(s), t[j].file = f
          PROVE  t[j].item = b[Place(t, f, j)]
        <3>1. Place(t, f, j) = Place(s, f, j) /\ s[j].file = f
            BY <1>1, <1>3, <2>3
        <3>2. CASE j = at
            BY <2>1, <2>2, <3>1, <3>2 DEF p
        <3>3. CASE j # at
            <4>1. Place(s, f, j) \in 1 .. Len(a) /\ Place(s, f, j) # p
                BY <1>4, <1>5, <3>1, <3>3 DEF p
            <4> QED
                BY <1>2, <2>2, <3>1, <3>3, <4>1
        <3> QED
            BY <3>2, <3>3
    <2>4. Len(b) = Place(t, f, Len(s))
        <3>1. Len(s) \in 0 .. Len(s)
            BY <1>1
        <3> QED
            BY <1>2, <1>3, <2>2, <3>1
    <2>5. Mirrors(t, f, b)
        BY <1>1, <2>3, <2>4 DEF Mirrors
    <2> QED
        BY <1>5, <2>5 DEF b, p
<1>6. CASE s[at].file # f
    <2>1. ASSUME NEW j \in 1 .. Len(s), t[j].file = f
          PROVE  t[j].item = a[Place(t, f, j)]
        <3>1. Place(t, f, j) = Place(s, f, j) /\ s[j].file = f /\ j # at
            BY <1>1, <1>3, <1>6, <2>1
        <3> QED
            BY <1>2, <3>1
    <2>2. Len(a) = Place(t, f, Len(s))
        <3>1. Len(s) \in 0 .. Len(s)
            BY <1>1
        <3> QED
            BY <1>2, <1>3, <3>1
    <2>3. Mirrors(t, f, a)
        BY <1>1, <2>1, <2>2 DEF Mirrors
    <2> QED
        BY <1>6, <2>3
<1> QED
    BY <1>5, <1>6

(* What RemoveAt leaves.                                                   *)
LEMMA RemoveAtIs ==
    ASSUME NEW S, NEW s \in Seq(S), NEW at \in 1 .. Len(s)
    PROVE  /\ RemoveAt(s, at) \in Seq(S)
           /\ Len(RemoveAt(s, at)) = Len(s) - 1
           /\ \A i \in 1 .. Len(s) - 1 :
                 RemoveAt(s, at)[i] = IF i < at THEN s[i] ELSE s[i + 1]
<1> DEFINE p == SubSeq(s, 1, at - 1)
           q == SubSeq(s, at + 1, Len(s))
<1>1. Len(s) \in Nat /\ at \in Nat /\ 1 <= at /\ at <= Len(s)
      /\ \A i \in 1 .. Len(s) : s[i] \in S
    OBVIOUS
<1>2. /\ p \in Seq(S) /\ Len(p) = at - 1
      /\ \A i \in 1 .. at - 1 : p[i] = s[i]
    <2>1. 1 \in Int /\ at - 1 \in Int /\ \A i \in 1 .. at - 1 : s[i] \in S
        BY <1>1
    <2>2. /\ p \in Seq(S)
          /\ Len(p) = IF 1 <= at - 1 THEN at - 1 - 1 + 1 ELSE 0
          /\ \A i \in 1 .. at - 1 - 1 + 1 : p[i] = s[1 + i - 1]
        BY <2>1, SubSeqProperties
    <2> HIDE DEF p
    <2> QED
        BY <1>1, <2>2
<1>3. /\ q \in Seq(S) /\ Len(q) = Len(s) - at
      /\ \A i \in 1 .. Len(s) - at : q[i] = s[at + i]
    <2>1. at + 1 \in Int /\ Len(s) \in Int /\ \A i \in at + 1 .. Len(s) : s[i] \in S
        BY <1>1
    <2>2. /\ q \in Seq(S)
          /\ Len(q) = IF at + 1 <= Len(s) THEN Len(s) - (at + 1) + 1 ELSE 0
          /\ \A i \in 1 .. Len(s) - (at + 1) + 1 : q[i] = s[at + 1 + i - 1]
        BY <2>1, SubSeqProperties
    <2> HIDE DEF q
    <2> QED
        BY <1>1, <2>2
<1>4. RemoveAt(s, at) = p \o q
    BY DEF RemoveAt
<1> HIDE DEF p, q
<1>5. /\ p \o q \in Seq(S) /\ Len(p \o q) = Len(s) - 1
      /\ \A i \in 1 .. Len(s) - 1 :
            (p \o q)[i] = IF i <= Len(p) THEN p[i] ELSE q[i - Len(p)]
    <2>1. /\ p \o q \in Seq(S) /\ Len(p \o q) = Len(p) + Len(q)
          /\ \A i \in 1 .. Len(p) + Len(q) :
                (p \o q)[i] = IF i <= Len(p) THEN p[i] ELSE q[i - Len(p)]
        BY <1>2, <1>3, ConcatProperties
    <2> QED
        BY <1>1, <1>2, <1>3, <2>1
<1>6. ASSUME NEW i \in 1 .. Len(s) - 1
      PROVE  (p \o q)[i] = IF i < at THEN s[i] ELSE s[i + 1]
    <2>1. CASE i < at
        <3>1. i \in 1 .. at - 1 /\ i <= Len(p)
            BY <1>1, <1>2, <2>1
        <3> QED
            BY <1>2, <1>5, <2>1, <3>1
    <2>2. CASE ~(i < at)
        <3>1. i - (at - 1) \in 1 .. Len(s) - at /\ ~(i <= Len(p))
              /\ at + (i - (at - 1)) = i + 1
            BY <1>1, <1>2, <2>2
        <3>2. (p \o q)[i] = q[i - (at - 1)]
            BY <1>2, <1>5, <3>1
        <3> QED
            BY <1>3, <2>2, <3>1, <3>2
    <2> QED
        BY <2>1, <2>2
<1> QED
    BY <1>4, <1>5, <1>6

(* Places after an entry was removed.                                      *)
LEMMA PlaceRemoved ==
    ASSUME NEW S, NEW s \in Seq(S), NEW at \in 1 .. Len(s), NEW f,
           NEW n \in 0 .. Len(s) - 1
    PROVE  LET t == RemoveAt(s, at)
           IN  Place(t, f, n) = IF n < at THEN Place(s, f, n)
                                ELSE Place(s, f, n + 1)
                                       - (IF s[at].file = f THEN 1 ELSE 0)
<1> DEFINE t == RemoveAt(s, at)
           one == IF s[at].file = f THEN 1 ELSE 0
           Right(m) == Place(t, f, m) = IF m < at THEN Place(s, f, m)
                                        ELSE Place(s, f, m + 1) - one
           T == {m \in Nat : m <= Len(s) - 1 => Right(m)}
<1>1. Len(s) \in Nat /\ at \in Nat /\ 1 <= at /\ at <= Len(s) /\ one \in {0, 1}
    OBVIOUS
<1>2. \A i \in 1 .. Len(s) - 1 : t[i] = IF i < at THEN s[i] ELSE s[i + 1]
    BY RemoveAtIs
<1> HIDE DEF t, one
<1>3. 0 \in T
    BY <1>1, PlaceZero
<1>4. ASSUME NEW m \in T PROVE m + 1 \in T
    <2> SUFFICES ASSUME m + 1 <= Len(s) - 1 PROVE Right(m + 1)
        OBVIOUS
    <2>1. m \in Nat /\ m + 1 \in 1 .. Len(s) - 1 /\ m <= Len(s) - 1 /\ (m + 1) + 1 \in Nat
        BY <1>1
    <2>2. Right(m)
        BY <2>1
    <2>3. Place(t, f, m + 1) = Place(t, f, m) + (IF t[m + 1].file = f THEN 1 ELSE 0)
        BY <2>1, PlaceNext
    <2>4. Place(s, f, m + 1) = Place(s, f, m) + (IF s[m + 1].file = f THEN 1 ELSE 0)
        BY <2>1, PlaceNext
    <2>5. Place(s, f, (m + 1) + 1) =
              Place(s, f, m + 1) + (IF s[(m + 1) + 1].file = f THEN 1 ELSE 0)
        BY <2>1, PlaceNext
    <2>6. /\ Place(s, f, m) \in Nat /\ Place(s, f, m + 1) \in Nat
          /\ Place(s, f, (m + 1) + 1) \in Nat
        <3>1. m \in Nat /\ m + 1 \in Nat /\ (m + 1) + 1 \in Nat
            BY <2>1
        <3> HIDE DEF Right
        <3> QED
            BY <3>1, PlaceType
    <2>7. CASE m + 1 < at
        <3>1. t[m + 1] = s[m + 1] /\ m < at
            BY <1>1, <1>2, <2>1, <2>7
        <3> QED
            BY <2>2, <2>3, <2>4, <2>7, <3>1
    <2>8. CASE ~(m + 1 < at)
        <3>1. t[m + 1] = s[(m + 1) + 1]
            BY <1>1, <1>2, <2>1, <2>8
        <3>2. Place(t, f, m) = Place(s, f, m + 1) - one
            <4>1. CASE m < at
                <5>1. m + 1 = at
                    BY <1>1, <2>1, <2>8, <4>1
                <5> QED
                    BY <1>1, <2>2, <2>4, <2>6, <4>1, <5>1 DEF one
            <4>2. CASE ~(m < at)
                BY <2>2, <4>2
            <4> QED
                BY <4>1, <4>2
        <3> QED
            BY <1>1, <2>3, <2>5, <2>6, <2>8, <3>1, <3>2
    <2> QED
        BY <2>7, <2>8
<1>5. T = Nat
    <2> HIDE DEF T
    <2>1. T \subseteq Nat
        BY DEF T
    <2> QED
        BY <1>3, <1>4, <2>1, SetInduction
<1>6. n \in Nat /\ n <= Len(s) - 1
    BY <1>1
<1>7. Right(n)
    BY <1>5, <1>6
<1> QED
    BY <1>7 DEF t, one

LEMMA LastIs ==
    ASSUME NEW n \in Nat, NEW at \in 1 .. n, n - 1 < at
    PROVE  at = n
OBVIOUS

(* An entry that is removed goes from its file's array, and from no other. *)
LEMMA MirrorsRemove ==
    ASSUME NEW S, NEW s \in Seq(S), NEW A, NEW a \in Seq(A), NEW f,
           NEW at \in 1 .. Len(s), Mirrors(s, f, a)
    PROVE  /\ s[at].file = f =>
                /\ Place(s, f, at) \in 1 .. Len(a)
                /\ Mirrors(RemoveAt(s, at), f, RemoveAt(a, Place(s, f, at)))
           /\ s[at].file # f => Mirrors(RemoveAt(s, at), f, a)
<1> DEFINE t == RemoveAt(s, at)
           p == Place(s, f, at)
<1>1. /\ Len(s) \in Nat /\ DOMAIN s = 1 .. Len(s) /\ Len(a) \in Nat
      /\ at \in Nat /\ 1 <= at /\ at <= Len(s)
    OBVIOUS
<1>2. /\ Len(a) = Place(s, f, Len(s))
      /\ \A j \in 1 .. Len(s) : s[j].file = f => s[j].item = a[Place(s, f, j)]
    BY <1>1 DEF Mirrors
<1>3. /\ Len(t) = Len(s) - 1 /\ DOMAIN t = 1 .. Len(s) - 1
      /\ \A i \in 1 .. Len(s) - 1 : t[i] = IF i < at THEN s[i] ELSE s[i + 1]
    <2>1. t \in Seq(S)
        BY RemoveAtIs
    <2>2. /\ Len(t) = Len(s) - 1
          /\ \A i \in 1 .. Len(s) - 1 : t[i] = IF i < at THEN s[i] ELSE s[i + 1]
        BY RemoveAtIs
    <2> HIDE DEF t
    <2> QED
        BY <2>1, <2>2
<1>4. ASSUME NEW n \in 0 .. Len(s) - 1
      PROVE  Place(t, f, n) = IF n < at THEN Place(s, f, n)
                              ELSE Place(s, f, n + 1)
                                     - (IF s[at].file = f THEN 1 ELSE 0)
    BY PlaceRemoved
<1> HIDE DEF t
<1>5. \A n \in 0 .. Len(s) : Place(s, f, n) \in Nat
    <2> TAKE n \in 0 .. Len(s)
    <2>1. n \in Nat
        OBVIOUS
    <2> QED
        BY <2>1, PlaceType
<1>6. ASSUME NEW j \in 1 .. Len(s), s[j].file = f
      PROVE  Place(s, f, j) \in 1 .. Len(a)
    BY <1>1, <1>2, <1>6, PlaceInside
<1>7. CASE s[at].file = f
    <2> DEFINE b == RemoveAt(a, p)
    <2>1. p \in 1 .. Len(a)
        BY <1>6, <1>7
    <2> HIDE DEF p
    <2>2. /\ Len(b) = Len(a) - 1
          /\ \A i \in 1 .. Len(a) - 1 : b[i] = IF i < p THEN a[i] ELSE a[i + 1]
        BY <2>1, RemoveAtIs
    <2> HIDE DEF b
    <2>3. Len(b) = Place(t, f, Len(s) - 1)
        <3>1. Len(s) - 1 \in 0 .. Len(s) - 1 /\ (Len(s) - 1) + 1 = Len(s)
            BY <1>1
        <3>2. CASE Len(s) - 1 < at
            <4>1. at = Len(s)
                BY <1>1, <3>2, LastIs
            <4>2. Place(s, f, (Len(s) - 1) + 1)
                    = Place(s, f, Len(s) - 1) + (IF s[(Len(s) - 1) + 1].file = f THEN 1 ELSE 0)
                <5>1. Len(s) - 1 \in Nat
                    BY <1>1
                <5> QED
                    BY <5>1, PlaceNext
            <4>3. Len(a) = Place(s, f, Len(s) - 1) + 1
                <5>1. s[(Len(s) - 1) + 1].file = f
                    BY <1>7, <3>1, <4>1
                <5> QED
                    BY <1>2, <3>1, <4>2, <5>1
            <4>4. Place(t, f, Len(s) - 1) = Place(s, f, Len(s) - 1)
                BY <1>4, <3>1, <3>2
            <4>5. Place(s, f, Len(s) - 1) \in Nat
                BY <1>5, <3>1, <1>1
            <4> QED
                BY <2>2, <4>3, <4>4, <4>5
        <3>3. CASE ~(Len(s) - 1 < at)
            <4>1. Place(t, f, Len(s) - 1) = Place(s, f, Len(s)) - 1
                BY <1>4, <1>7, <3>1, <3>3
            <4> QED
                BY <1>2, <2>2, <4>1
        <3> QED
            BY <3>2, <3>3
    <2>4. ASSUME NEW j \in 1 .. Len(s) - 1, t[j].file = f
          PROVE  t[j].item = b[Place(t, f, j)]
        <3>1. j \in 0 .. Len(s) - 1 /\ j \in 1 .. Len(s) /\ j + 1 \in 1 .. Len(s)
            BY <1>1
        <3>2. CASE j < at
            <4>1. t[j] = s[j] /\ Place(t, f, j) = Place(s, f, j)
                BY <1>3, <1>4, <3>1, <3>2
            <4>2. Place(s, f, j) \in 1 .. Len(a) /\ s[j].item = a[Place(s, f, j)]
                BY <1>2, <1>6, <2>4, <3>1, <4>1
            <4>3. Place(s, f, j) < p
                <5>1. j \in Nat
                    BY <3>1
                <5> QED
                    BY <1>1, <1>7, <3>2, <5>1, PlaceRises DEF p
            <4> QED
                BY <1>1, <2>1, <2>2, <4>1, <4>2, <4>3
        <3>3. CASE ~(j < at)
            <4>1. t[j] = s[j + 1] /\ Place(t, f, j) = Place(s, f, j + 1) - 1
                BY <1>3, <1>4, <1>7, <3>1, <3>3
            <4>2. Place(s, f, j + 1) \in 1 .. Len(a) /\ s[j + 1].item = a[Place(s, f, j + 1)]
                BY <1>2, <1>6, <2>4, <3>1, <4>1
            <4>3. p < Place(s, f, j + 1)
                <5>1. j + 1 \in Nat /\ at < j + 1 /\ s[j + 1].file = f
                    BY <1>1, <2>4, <3>1, <3>3, <4>1
                <5> QED
                    BY <1>1, <5>1, PlaceRises DEF p
            <4>4. Place(t, f, j) \in 1 .. Len(a) - 1 /\ ~(Place(t, f, j) < p)
                  /\ Place(t, f, j) + 1 = Place(s, f, j + 1)
                BY <1>1, <2>1, <4>1, <4>2, <4>3
            <4> QED
                BY <2>2, <4>1, <4>2, <4>4
        <3> QED
            BY <3>2, <3>3
    <2>5. Mirrors(t, f, b)
        BY <1>3, <2>3, <2>4 DEF Mirrors
    <2> QED
        BY <1>7, <2>1, <2>5 DEF b, p, t
<1>8. CASE s[at].file # f
    <2>1. Place(s, f, (at - 1) + 1) = Place(s, f, at - 1) + (IF s[(at - 1) + 1].file = f THEN 1 ELSE 0)
        <3>1. at - 1 \in Nat
            BY <1>1
        <3> QED
            BY <3>1, PlaceNext
    <2>2. Place(s, f, at) = Place(s, f, at - 1)
        <3>1. (at - 1) + 1 = at /\ at - 1 \in 0 .. Len(s)
            BY <1>1
        <3> QED
            BY <1>5, <1>8, <2>1, <3>1
    <2>3. Len(a) = Place(t, f, Len(s) - 1)
        <3>1. Len(s) - 1 \in 0 .. Len(s) - 1 /\ (Len(s) - 1) + 1 = Len(s)
              /\ Len(s) \in 0 .. Len(s)
            BY <1>1
        <3>2. CASE Len(s) - 1 < at
            <4>1. at = Len(s)
                BY <1>1, <3>2, LastIs
            <4> QED
                BY <1>2, <1>4, <2>2, <3>1, <3>2, <4>1
        <3>3. CASE ~(Len(s) - 1 < at)
            BY <1>2, <1>4, <1>5, <1>8, <3>1, <3>3
        <3> QED
            BY <3>2, <3>3
    <2>4. ASSUME NEW j \in 1 .. Len(s) - 1, t[j].file = f
          PROVE  t[j].item = a[Place(t, f, j)]
        <3>1. j \in 0 .. Len(s) - 1 /\ j \in 1 .. Len(s) /\ j + 1 \in 1 .. Len(s)
            BY <1>1
        <3>2. CASE j < at
            <4>1. t[j] = s[j] /\ Place(t, f, j) = Place(s, f, j)
                BY <1>3, <1>4, <3>1, <3>2
            <4> QED
                BY <1>2, <2>4, <3>1, <4>1
        <3>3. CASE ~(j < at)
            <4>1. t[j] = s[j + 1] /\ Place(t, f, j) = Place(s, f, j + 1) - 0
                BY <1>3, <1>4, <1>8, <3>1, <3>3
            <4>2. Place(s, f, j + 1) \in Nat
                BY <1>5, <3>1
            <4> QED
                BY <1>2, <2>4, <3>1, <4>1, <4>2
        <3> QED
            BY <3>2, <3>3
    <2>5. Mirrors(t, f, a)
        BY <1>3, <2>3, <2>4 DEF Mirrors
    <2> QED
        BY <1>8, <2>5 DEF t
<1> QED
    BY <1>7, <1>8

-----------------------------------------------------------------------------
(* Reading a directory.                                                    *)

(* FlattenSeq joins one more sequence at every step.                       *)
LEMMA FlattenSteps ==
    ASSUME NEW ss, NEW n \in Nat \ {0}, Len(ss) = n
    PROVE  \E g : /\ FlattenSeq(ss) = g[n]
                  /\ g[1] = ss[1]
                  /\ \A i \in 1 .. n - 1 : g[i + 1] = g[i] \o ss[i + 1]
<1> DEFINE Joins(g, m) == g = [i \in 1 .. m |-> IF i = 1 THEN ss[i] ELSE g[i - 1] \o ss[i]]
           T == {m \in Nat : \E g : Joins(g, m)}
<1>1. 0 \in T
    <2> DEFINE g == [i \in 1 .. 0 |-> i]
    <2>1. Joins(g, 0)
        OBVIOUS
    <2> QED
        BY <2>1
<1>2. ASSUME NEW m \in T PROVE m + 1 \in T
    <2>1. m \in Nat /\ m + 1 \in Nat
        OBVIOUS
    <2>2. PICK g : Joins(g, m)
        OBVIOUS
    <2> DEFINE last == IF m + 1 = 1 THEN ss[m + 1] ELSE g[m] \o ss[m + 1]
               h == [i \in 1 .. m + 1 |-> IF i = m + 1 THEN last ELSE g[i]]
    <2>3. /\ \A i \in 1 .. m : g[i] = IF i = 1 THEN ss[i] ELSE g[i - 1] \o ss[i]
        BY <2>2
    <2>4. ASSUME NEW i \in 1 .. m + 1
          PROVE  h[i] = IF i = 1 THEN ss[i] ELSE h[i - 1] \o ss[i]
        <3>1. CASE i = m + 1
            <4>1. CASE i = 1
                BY <3>1, <4>1
            <4>2. CASE i # 1
                <5>1. m \in 1 .. m + 1 /\ m # m + 1 /\ i - 1 = m /\ m + 1 # 1
                    BY <2>1, <3>1, <4>2
                <5>2. h[m] = g[m] /\ h[m + 1] = last
                    <6> HIDE DEF last
                    <6> QED
                        BY <5>1
                <5>3. last = g[m] \o ss[m + 1]
                    BY <5>1
                <5> HIDE DEF h, last
                <5> QED
                    BY <3>1, <4>2, <5>1, <5>2, <5>3
            <4> QED
                BY <4>1, <4>2
        <3>2. CASE i # m + 1
            <4>1. i \in 1 .. m /\ h[i] = g[i]
                BY <2>1, <3>2
            <4>2. CASE i = 1
                <5> HIDE DEF h, last
                <5> QED
                    BY <2>3, <4>1, <4>2
            <4>3. CASE i # 1
                <5>1. i - 1 \in 1 .. m + 1 /\ i - 1 # m + 1
                    BY <2>1, <3>2, <4>3
                <5>2. h[i - 1] = g[i - 1]
                    BY <5>1
                <5> HIDE DEF h, last
                <5> QED
                    BY <2>3, <4>1, <4>3, <5>2
            <4> QED
                BY <4>2, <4>3
        <3> QED
            BY <3>1, <3>2
    <2>5. Joins(h, m + 1)
        <3>1. h = [i \in 1 .. m + 1 |-> h[i]]
            OBVIOUS
        <3> HIDE DEF h, last
        <3> QED
            BY <2>4, <3>1
    <2> QED
        BY <2>1, <2>5
<1>3. T = Nat
    <2> HIDE DEF T
    <2>1. T \subseteq Nat
        BY DEF T
    <2> QED
        BY <1>1, <1>2, <2>1, SetInduction
<1>4. \E g : Joins(g, n)
    BY <1>3
<1> DEFINE j == CHOOSE flatten : Joins(flatten, n)
<1>5. FlattenSeq(ss) = j[n]
    BY DEF FlattenSeq
<1>6. Joins(j, n)
    BY <1>4
<1> HIDE DEF j
<1>7. \A i \in 1 .. n : j[i] = IF i = 1 THEN ss[i] ELSE j[i - 1] \o ss[i]
    BY <1>6
<1>8. j[1] = ss[1]
    BY <1>7
<1>9. ASSUME NEW i \in 1 .. n - 1 PROVE j[i + 1] = j[i] \o ss[i + 1]
    <2>1. i + 1 \in 1 .. n /\ i + 1 # 1 /\ (i + 1) - 1 = i
        OBVIOUS
    <2> QED
        BY <1>7, <2>1
<1> QED
    BY <1>5, <1>8, <1>9

(* u is p and then t; t is the array b of file k.                          *)
Joined(p, t, u) ==
    /\ Len(u) = Len(p) + Len(t)
    /\ \A i \in 1 .. Len(p) : u[i] = p[i]
    /\ \A i \in 1 .. Len(t) : u[Len(p) + i] = t[i]

OfFile(t, k, b) ==
    /\ Len(t) = Len(b)
    /\ \A i \in 1 .. Len(t) : t[i].file = k /\ t[i].item = b[i]

LEMMA ConcatIs ==
    ASSUME NEW S, NEW p \in Seq(S), NEW t \in Seq(S)
    PROVE  p \o t \in Seq(S) /\ Joined(p, t, p \o t)
<1> DEFINE u == p \o t
<1>1. /\ u \in Seq(S) /\ Len(u) = Len(p) + Len(t)
      /\ \A i \in 1 .. Len(p) + Len(t) :
            u[i] = IF i <= Len(p) THEN p[i] ELSE t[i - Len(p)]
    BY ConcatProperties
<1>2. Len(p) \in Nat /\ Len(t) \in Nat
    OBVIOUS
<1> HIDE DEF u
<1>3. ASSUME NEW i \in 1 .. Len(t) PROVE u[Len(p) + i] = t[i]
    <2>1. Len(p) + i \in 1 .. Len(p) + Len(t) /\ ~(Len(p) + i <= Len(p))
          /\ (Len(p) + i) - Len(p) = i
        BY <1>2
    <2> QED
        BY <1>1, <2>1
<1>4. ASSUME NEW i \in 1 .. Len(p) PROVE u[i] = p[i]
    <2>1. i \in 1 .. Len(p) + Len(t) /\ i <= Len(p)
        BY <1>2
    <2> QED
        BY <1>1, <2>1
<1>5. Joined(p, t, u)
    BY <1>1, <1>3, <1>4 DEF Joined
<1> QED
    BY <1>1, <1>5 DEF u

(* The entries of one more file, behind those of others.                   *)
LEMMA MirrorsConcat ==
    ASSUME NEW S, NEW p \in Seq(S), NEW t \in Seq(S), NEW u \in Seq(S), NEW b, NEW k,
           \A i \in 1 .. Len(p) : p[i].file # k,
           OfFile(t, k, b), Joined(p, t, u)
    PROVE  /\ Mirrors(u, k, b)
           /\ \A f, a : f # k /\ Mirrors(p, f, a) => Mirrors(u, f, a)
<1>0. Len(t) = Len(b) /\ \A i \in 1 .. Len(t) : t[i].file = k /\ t[i].item = b[i]
    BY DEF OfFile
<1>1. /\ Len(p) \in Nat /\ Len(t) \in Nat
      /\ Len(u) = Len(p) + Len(t) /\ DOMAIN u = 1 .. Len(p) + Len(t)
      /\ DOMAIN p = 1 .. Len(p)
      /\ \A i \in 1 .. Len(p) : u[i] = p[i]
      /\ \A i \in 1 .. Len(t) : u[Len(p) + i] = t[i]
    BY DEF Joined
<1>2. ASSUME NEW f, NEW n \in 0 .. Len(p) PROVE Place(u, f, n) = Place(p, f, n)
    <2>1. n \in Nat /\ \A i \in 1 .. n : u[i] = p[i]
        BY <1>1
    <2> QED
        BY <2>1, PlaceSame
<1>3. Place(p, k, Len(p)) = 0
    <2>1. {i \in 1 .. Len(p) : p[i].file = k} = {}
        OBVIOUS
    <2> QED
        BY <2>1, FS_EmptySet DEF Place
<1>4. ASSUME NEW f, NEW m \in 0 .. Len(t)
      PROVE  Place(u, f, Len(p) + m) = Place(p, f, Len(p)) + (IF f = k THEN m ELSE 0)
    <2> DEFINE Right(x) == Place(u, f, Len(p) + x)
                              = Place(p, f, Len(p)) + (IF f = k THEN x ELSE 0)
               T == {x \in Nat : x <= Len(t) => Right(x)}
    <2>1. Place(p, f, Len(p)) \in Nat
        BY <1>1, PlaceType
    <2>2. 0 \in T
        <3>1. Len(p) + 0 = Len(p) /\ Len(p) \in 0 .. Len(p)
            BY <1>1
        <3>2. Place(u, f, Len(p)) = Place(p, f, Len(p))
            BY <1>2, <3>1
        <3> QED
            BY <2>1, <3>1, <3>2
    <2>3. ASSUME NEW x \in T PROVE x + 1 \in T
        <3> SUFFICES ASSUME x + 1 <= Len(t) PROVE Right(x + 1)
            OBVIOUS
        <3>1. /\ x \in Nat /\ x <= Len(t) /\ x + 1 \in 1 .. Len(t)
              /\ Len(p) + x \in Nat /\ (Len(p) + x) + 1 = Len(p) + (x + 1)
            BY <1>1
        <3>2. Right(x)
            BY <3>1
        <3>3. Place(u, f, (Len(p) + x) + 1)
                = Place(u, f, Len(p) + x) + (IF u[(Len(p) + x) + 1].file = f THEN 1 ELSE 0)
            <4> HIDE DEF Right, T
            <4>1. Len(p) + x \in Nat
                BY <3>1
            <4> QED
                BY <4>1, PlaceNext
        <3>4. u[(Len(p) + x) + 1].file = k
            <4> HIDE DEF Right, T
            <4>1. u[Len(p) + (x + 1)] = t[x + 1]
                BY <1>1, <3>1
            <4>2. t[x + 1].file = k
                BY <1>0, <3>1
            <4> QED
                BY <3>1, <4>1, <4>2
        <3>5. Place(u, f, Len(p) + (x + 1))
                = Place(u, f, Len(p) + x) + (IF k = f THEN 1 ELSE 0)
            <4> HIDE DEF Right, T
            <4> QED
                BY <3>1, <3>3, <3>4
        <3>6. CASE f = k
            BY <2>1, <3>1, <3>2, <3>5, <3>6
        <3>7. CASE f # k
            BY <2>1, <3>1, <3>2, <3>5, <3>7
        <3> QED
            BY <3>6, <3>7
    <2>4. T = Nat
        <3> HIDE DEF T
        <3>1. T \subseteq Nat
            BY DEF T
        <3> QED
            BY <2>2, <2>3, <3>1, SetInduction
    <2>5. m \in Nat /\ m <= Len(t)
        BY <1>1
    <2> QED
        BY <2>4, <2>5
<1>5. ASSUME NEW j \in 1 .. Len(u)
      PROVE  j \in 1 .. Len(p) \/ \E m \in 1 .. Len(t) : j = Len(p) + m
    <2>1. CASE j <= Len(p)
        BY <1>1, <2>1
    <2>2. CASE ~(j <= Len(p))
        <3>1. j - Len(p) \in 1 .. Len(t) /\ j = Len(p) + (j - Len(p))
            BY <1>1, <2>2
        <3> QED
            BY <3>1
    <2> QED
        BY <2>1, <2>2
<1>6. Mirrors(u, k, b)
    <2>1. Len(b) = Place(u, k, Len(u))
        <3>1. Len(t) \in 0 .. Len(t)
            BY <1>1
        <3> QED
            BY <1>0, <1>1, <1>3, <1>4, <3>1
    <2>2. ASSUME NEW j \in 1 .. Len(u), u[j].file = k
          PROVE  u[j].item = b[Place(u, k, j)]
        <3>1. ~(j \in 1 .. Len(p))
            BY <1>1, <2>2
        <3>2. PICK m \in 1 .. Len(t) : j = Len(p) + m
            BY <1>5, <3>1
        <3>3. m \in 0 .. Len(t) /\ m \in Nat
            BY <1>1
        <3>4. Place(u, k, j) = m
            BY <1>3, <1>4, <3>2, <3>3
        <3> QED
            BY <1>0, <1>1, <3>2, <3>4
    <2> QED
        BY <1>1, <2>1, <2>2 DEF Mirrors
<1>7. ASSUME NEW f, NEW a, f # k, Mirrors(p, f, a) PROVE Mirrors(u, f, a)
    <2>1. /\ Len(a) = Place(p, f, Len(p))
          /\ \A j \in 1 .. Len(p) : p[j].file = f => p[j].item = a[Place(p, f, j)]
        BY <1>1, <1>7 DEF Mirrors
    <2>2. Len(a) = Place(u, f, Len(u))
        <3>1. Len(t) \in 0 .. Len(t)
            BY <1>1
        <3>2. Place(p, f, Len(p)) \in Nat
            BY <1>1, PlaceType
        <3> QED
            BY <1>1, <1>4, <1>7, <2>1, <3>1, <3>2
    <2>3. ASSUME NEW j \in 1 .. Len(u), u[j].file = f
          PROVE  u[j].item = a[Place(u, f, j)]
        <3>1. j \in 1 .. Len(p)
            <4> SUFFICES ASSUME ~(j \in 1 .. Len(p)) PROVE FALSE
                OBVIOUS
            <4>1. PICK m \in 1 .. Len(t) : j = Len(p) + m
                BY <1>5
            <4>2. u[j] = t[m] /\ t[m].file = k
                BY <1>0, <1>1, <4>1
            <4> QED
                BY <1>7, <2>3, <4>2
        <3>2. j \in 0 .. Len(p)
            BY <1>1, <3>1
        <3> QED
            BY <1>1, <1>2, <2>1, <2>3, <3>1, <3>2
    <2> QED
        BY <1>1, <2>2, <2>3 DEF Mirrors
<1> QED
    BY <1>6, <1>7

(* What directories without a broken file, and merged lists, are made of.  *)
Files == [File -> {NoFile} \union Root]
Entry == [file : File, item : Stored]

LEMMA FileFacts ==
    /\ NumFiles \in Nat /\ 1 <= NumFiles /\ File = 1 .. NumFiles
    /\ File \subseteq Nat /\ 1 \in File
BY ConfDirAssumption DEF File

LEMMA ItemsType ==
    ASSUME NEW root \in {NoFile} \union Root, NEW list \in Lists
    PROVE  Items(root, list) \in Seq(Stored)
<1>1. <<>> \in Seq(Stored)
    OBVIOUS
<1>2. CASE root = NoFile
    BY <1>1, <1>2 DEF Items
<1>3. CASE root # NoFile
    <2>1. root \in Root /\ (list = "in" \/ list = "out")
        BY <1>3 DEF Lists
    <2>2. root[list] \in {NoList} \union Seq(Stored)
        BY <2>1 DEF Root
    <2> QED
        BY <1>1, <1>3, <2>2 DEF Items
<1> QED
    BY <1>2, <1>3

(* What one file puts into a merged list.                                  *)
Part(roots, list, f) ==
    [i \in DOMAIN Items(roots[f], list) |->
        [file |-> f, item |-> Items(roots[f], list)[i]]]

LEMMA PartIs ==
    ASSUME NEW roots \in Files, NEW list \in Lists, NEW f \in File
    PROVE  /\ Part(roots, list, f) \in Seq(Entry)
           /\ OfFile(Part(roots, list, f), f, Items(roots[f], list))
<1> DEFINE a == Items(roots[f], list)
           t == [i \in 1 .. Len(a) |-> [file |-> f, item |-> a[i]]]
<1>1. a \in Seq(Stored)
    <2>1. roots[f] \in {NoFile} \union Root
        BY DEF Files
    <2> QED
        BY <2>1, ItemsType
<1>2. Part(roots, list, f) = t
    BY <1>1 DEF Part
<1> HIDE DEF a
<1>3. Len(a) \in Nat /\ \A i \in 1 .. Len(a) : a[i] \in Stored
    BY <1>1
<1>4. \A i \in 1 .. Len(a) : [file |-> f, item |-> a[i]] \in Entry
    BY <1>3 DEF Entry
<1>5. t \in Seq(Entry) /\ Len(t) = Len(a)
    BY <1>3, <1>4
<1>6. \A i \in 1 .. Len(a) : t[i].file = f /\ t[i].item = a[i]
    OBVIOUS
<1> HIDE DEF t
<1>7. OfFile(t, f, a)
    BY <1>5, <1>6 DEF OfFile
<1> QED
    BY <1>2, <1>5, <1>7 DEF a

(* The merged list of a directory holds every file's array, in order.      *)
LEMMA MergedMirrors ==
    ASSUME NEW roots \in Files, NEW list \in Lists
    PROVE  /\ Merged(roots, list) \in Seq(Entry)
           /\ \A f \in File : Mirrors(Merged(roots, list), f, Items(roots[f], list))
<1> DEFINE ss == [f \in File |-> Part(roots, list, f)]
<1>1. Merged(roots, list) = FlattenSeq(ss)
    BY DEF Merged, Part
<1>2. Len(ss) = NumFiles
    BY FileFacts
<1>3. \A f \in File : ss[f] = Part(roots, list, f)
    OBVIOUS
<1> HIDE DEF ss
<1>4. PICK g : /\ FlattenSeq(ss) = g[NumFiles]
               /\ g[1] = ss[1]
               /\ \A i \in 1 .. NumFiles - 1 : g[i + 1] = g[i] \o ss[i + 1]
    <2>1. NumFiles \in Nat \ {0}
        BY ConfDirAssumption
    <2> QED
        BY <1>2, <2>1, FlattenSteps
<1> DEFINE Upto(n) == /\ g[n] \in Seq(Entry)
                      /\ \A i \in 1 .. Len(g[n]) : g[n][i].file \in 1 .. n
                      /\ \A f \in 1 .. n : Mirrors(g[n], f, Items(roots[f], list))
<1>5. Upto(1)
    <2> DEFINE t == Part(roots, list, 1)
               b == Items(roots[1], list)
    <2>1. g[1] = t
        BY <1>3, <1>4, FileFacts
    <2>2. t \in Seq(Entry) /\ OfFile(t, 1, b)
        BY FileFacts, PartIs
    <2> HIDE DEF t, b
    <2>3. /\ <<>> \in Seq(Entry) /\ \A i \in 1 .. Len(<<>>) : <<>>[i].file # 1
          /\ Joined(<<>>, t, t)
        BY <2>2 DEF Joined
    <2>4. Mirrors(t, 1, b)
        BY <2>2, <2>3, MirrorsConcat
    <2>5. \A f \in 1 .. 1 : f = 1
        OBVIOUS
    <2>6. \A i \in 1 .. Len(t) : t[i].file \in 1 .. 1
        BY <2>2 DEF OfFile
    <2>7. \A f \in 1 .. 1 : Mirrors(t, f, Items(roots[f], list))
        BY <2>4, <2>5 DEF b
    <2> QED
        BY <2>1, <2>2, <2>6, <2>7
<1>6. ASSUME NEW n \in 1 .. NumFiles - 1, Upto(n) PROVE Upto(n + 1)
    <2> DEFINE p == g[n]
               t == Part(roots, list, n + 1)
               b == Items(roots[n + 1], list)
               u == g[n + 1]
    <2>1. n \in Nat /\ n + 1 \in File /\ n + 1 \in 1 .. NumFiles /\ n + 1 # n
        BY FileFacts
    <2>2. u = p \o t
        BY <1>3, <1>4, <2>1
    <2>3. p \in Seq(Entry) /\ \A i \in 1 .. Len(p) : p[i].file \in 1 .. n
        BY <1>6
    <2>4. t \in Seq(Entry) /\ OfFile(t, n + 1, b)
        BY <2>1, PartIs
    <2>5. \A f \in 1 .. n : Mirrors(p, f, Items(roots[f], list))
        BY <1>6
    <2> HIDE DEF p, t, b, u, Upto
    <2>6. u \in Seq(Entry) /\ Joined(p, t, u)
        BY <2>2, <2>3, <2>4, ConcatIs
    <2>7. \A i \in 1 .. Len(p) : p[i].file # n + 1
        BY <2>1, <2>3
    <2>8. /\ Mirrors(u, n + 1, b)
          /\ \A f, a : f # n + 1 /\ Mirrors(p, f, a) => Mirrors(u, f, a)
        BY <2>3, <2>4, <2>6, <2>7, MirrorsConcat
    <2>9. ASSUME NEW f \in 1 .. n + 1 PROVE Mirrors(u, f, Items(roots[f], list))
        <3>1. CASE f = n + 1
            BY <2>8, <3>1 DEF b
        <3>2. CASE f # n + 1
            <4>1. f \in 1 .. n
                BY <2>1, <3>2
            <4> QED
                BY <2>5, <2>8, <3>2, <4>1
        <3> QED
            BY <3>1, <3>2
    <2>10. ASSUME NEW i \in 1 .. Len(u) PROVE u[i].file \in 1 .. n + 1
        <3>1. Len(p) \in Nat /\ Len(t) \in Nat /\ i \in 1 .. Len(p) + Len(t)
            BY <2>3, <2>4, <2>6 DEF Joined
        <3>2. CASE i <= Len(p)
            <4>1. i \in 1 .. Len(p) /\ u[i] = p[i]
                BY <2>6, <3>1, <3>2 DEF Joined
            <4> QED
                BY <2>1, <2>3, <4>1
        <3>3. CASE ~(i <= Len(p))
            <4>1. i - Len(p) \in 1 .. Len(t) /\ i = Len(p) + (i - Len(p))
                BY <3>1, <3>3
            <4>2. u[i] = t[i - Len(p)]
                BY <2>6, <4>1 DEF Joined
            <4> QED
                BY <2>1, <2>4, <4>1, <4>2 DEF OfFile
        <3> QED
            BY <3>2, <3>3
    <2> QED
        BY <2>6, <2>9, <2>10 DEF u, Upto
<1> DEFINE T == {n \in Nat : n + 1 <= NumFiles => Upto(n + 1)}
<1>7. T = Nat
    <2> HIDE DEF Upto
    <2>1. 0 \in T
        BY <1>5
    <2>2. ASSUME NEW n \in T PROVE n + 1 \in T
        <3> SUFFICES ASSUME (n + 1) + 1 <= NumFiles PROVE Upto((n + 1) + 1)
            OBVIOUS
        <3>1. n \in Nat /\ n + 1 \in 1 .. NumFiles - 1 /\ n + 1 <= NumFiles
            BY FileFacts
        <3> QED
            BY <1>6, <3>1
    <2>3. T \subseteq Nat
        OBVIOUS
    <2> HIDE DEF T
    <2> QED
        BY <2>1, <2>2, <2>3, SetInduction
<1>8. Upto(NumFiles)
    <2> HIDE DEF Upto
    <2>1. NumFiles - 1 \in Nat /\ (NumFiles - 1) + 1 = NumFiles
        BY FileFacts
    <2> QED
        BY <1>7, <2>1
<1> QED
    BY <1>1, <1>4, <1>8, FileFacts

(* The section of a file, and the winner among them.                       *)
Section(roots, f) == IF roots[f] = NoFile THEN NoSection ELSE roots[f].routing
Having(roots) == {f \in File : Section(roots, f) # NoSection}

LEMMA WinnerIs ==
    ASSUME NEW roots
    PROVE  /\ Having(roots) = {} => Winner(roots) = NoSection
           /\ Having(roots) # {} =>
                Winner(roots) = [file |-> Max(Having(roots)),
                                 refs |-> Section(roots, Max(Having(roots)))]
<1> DEFINE h == {f \in File : roots[f] # NoFile /\ roots[f].routing # NoSection}
<1>1. h = Having(roots)
    BY DEF Having, Section
<1>2. Winner(roots) = IF h = {} THEN NoSection
                      ELSE [file |-> Max(h), refs |-> roots[Max(h)].routing]
    BY DEF Winner
<1> HIDE DEF h
<1>3. ASSUME Having(roots) # {} PROVE Section(roots, Max(Having(roots))) = roots[Max(h)].routing
    <2>1. Max(Having(roots)) \in Having(roots)
        BY <1>3, FileFacts, MaxIs DEF Having
    <2> QED
        BY <1>1, <2>1 DEF Having, Section
<1> QED
    BY <1>1, <1>2, <1>3

(* Only the sections matter.                                               *)
LEMMA WinnerSame ==
    ASSUME NEW roots, NEW others, \A f \in File : Section(roots, f) = Section(others, f)
    PROVE  Winner(roots) = Winner(others)
<1>1. Having(roots) = Having(others)
    BY DEF Having
<1>2. CASE Having(roots) = {}
    BY <1>1, <1>2, WinnerIs
<1>3. CASE Having(roots) # {}
    <2>1. Max(Having(roots)) \in File
        BY <1>3, FileFacts, MaxIs DEF Having
    <2> QED
        BY <1>1, <1>3, <2>1, WinnerIs
<1> QED
    BY <1>2, <1>3

(* The winning sections there can be, and what a loaded configuration is.  *)
Winning == [file : File, refs : SUBSET Rule]
Config == [roots : Files, in : Seq(Entry), out : Seq(Entry),
           routing : {NoSection} \union Winning]

LEMMA WinnerType ==
    ASSUME NEW roots \in Files
    PROVE  Winner(roots) \in {NoSection} \union Winning
<1>1. CASE Having(roots) = {}
    BY <1>1, WinnerIs
<1>2. CASE Having(roots) # {}
    <2> DEFINE f == Max(Having(roots))
    <2>1. f \in File /\ Section(roots, f) # NoSection
        BY <1>2, FileFacts, MaxIs DEF Having
    <2>2. Winner(roots) = [file |-> f, refs |-> Section(roots, f)]
        BY <1>2, WinnerIs
    <2> HIDE DEF f
    <2>3. roots[f] \in Root
        BY <2>1 DEF Files, Section
    <2>4. Section(roots, f) \in SUBSET Rule
        BY <2>1, <2>3 DEF Root, Section
    <2> QED
        BY <2>1, <2>2, <2>4 DEF Winning
<1> QED
    BY <1>1, <1>2

(* Two copies of the same thing.                                           *)
Good(cfg) ==
    /\ cfg \in Config
    /\ \A list \in Lists, f \in File :
          Mirrors(cfg[list], f, Items(cfg.roots[f], list))
    /\ cfg.routing = Winner(cfg.roots)

LEMMA GoodHas ==
    ASSUME NEW cfg, Good(cfg)
    PROVE  /\ cfg.roots \in Files
           /\ cfg.in \in Seq(Entry) /\ cfg.out \in Seq(Entry)
           /\ \A list \in Lists : cfg[list] \in Seq(Entry)
           /\ cfg = [roots |-> cfg.roots, in |-> cfg.in, out |-> cfg.out,
                     routing |-> cfg.routing]
           /\ cfg.routing \in {NoSection} \union Winning
<1>1. cfg \in Config
    BY DEF Good
<1>2. /\ cfg.roots \in Files /\ cfg.in \in Seq(Entry) /\ cfg.out \in Seq(Entry)
      /\ cfg = [roots |-> cfg.roots, in |-> cfg.in, out |-> cfg.out,
                routing |-> cfg.routing]
      /\ cfg.routing \in {NoSection} \union Winning
    BY <1>1 DEF Config
<1> QED
    BY <1>2 DEF Lists

LEMMA ReadIsGood ==
    ASSUME NEW roots \in Files
    PROVE  Good([roots |-> roots, in |-> Merged(roots, "in"),
                 out |-> Merged(roots, "out"), routing |-> Winner(roots)])
<1> DEFINE cfg == [roots |-> roots, in |-> Merged(roots, "in"),
                   out |-> Merged(roots, "out"), routing |-> Winner(roots)]
<1>1. "in" \in Lists /\ "out" \in Lists /\ \A list \in Lists : list = "in" \/ list = "out"
    BY DEF Lists
<1>2. /\ cfg.roots = roots /\ cfg["in"] = Merged(roots, "in")
      /\ cfg["out"] = Merged(roots, "out") /\ cfg.routing = Winner(roots)
    OBVIOUS
<1>3. /\ Merged(roots, "in") \in Seq(Entry) /\ Merged(roots, "out") \in Seq(Entry)
      /\ \A f \in File : /\ Mirrors(Merged(roots, "in"), f, Items(roots[f], "in"))
                         /\ Mirrors(Merged(roots, "out"), f, Items(roots[f], "out"))
    BY <1>1, MergedMirrors
<1>4. cfg \in Config
    BY <1>3, WinnerType DEF Config
<1> HIDE DEF cfg
<1>5. Good(cfg)
    BY <1>1, <1>2, <1>3, <1>4 DEF Good
<1> QED
    BY <1>5 DEF cfg

(* What a discovery loads.                                                 *)
LEMMA DiscoveredIsGood ==
    ASSUME NEW files \in [File -> {NoFile, Broken} \union Root], Parse(files) # Unloaded
    PROVE  Good(Parse(files)) /\ Parse(files).roots = files
<1>1. /\ \A f \in File : files[f] # Broken
      /\ Parse(files) = [roots |-> files, in |-> Merged(files, "in"),
                         out |-> Merged(files, "out"), routing |-> Winner(files)]
    BY DEF Parse
<1>2. files \in Files
    BY <1>1 DEF Files
<1> QED
    BY <1>1, <1>2, ReadIsGood

-----------------------------------------------------------------------------
(* The edits.                                                              *)

(* A root with another array, a configuration with another list.           *)
PutArray(root, list, a) ==
    [in |-> IF list = "in" THEN a ELSE root.in,
     out |-> IF list = "out" THEN a ELSE root.out,
     routing |-> root.routing]

PutRoots(cfg, list, f, a) ==
    [cfg.roots EXCEPT ![f] = PutArray(cfg.roots[f], list, a)]

PutList(cfg, list, f, a, s) ==
    [roots |-> PutRoots(cfg, list, f, a),
     in |-> IF list = "in" THEN s ELSE cfg.in,
     out |-> IF list = "out" THEN s ELSE cfg.out,
     routing |-> cfg.routing]

LEMMA PutArrayIs ==
    ASSUME NEW root \in Root, NEW list \in Lists, NEW a \in Seq(Stored)
    PROVE  /\ PutArray(root, list, a) \in Root
           /\ PutArray(root, list, a).routing = root.routing
           /\ Items(PutArray(root, list, a), list) = a
           /\ \A other \in Lists : other # list =>
                 Items(PutArray(root, list, a), other) = Items(root, other)
<1> DEFINE new == PutArray(root, list, a)
<1>1. /\ new \in Root /\ new.routing = root.routing
      /\ new[list] = a /\ \A other \in Lists : other # list => new[other] = root[other]
    BY DEF PutArray, Root, Lists
<1> HIDE DEF new
<1>2. new # NoFile /\ root # NoFile /\ a # NoList
    BY <1>1, AbsentAssumption
<1>3. Items(new, list) = a
    BY <1>1, <1>2 DEF Items
<1>4. \A other \in Lists : other # list => Items(new, other) = Items(root, other)
    BY <1>1, <1>2 DEF Items
<1> QED
    BY <1>1, <1>3, <1>4 DEF new

(* When the list follows the array, and no other file's entries move, the  *)
(* two copies stay the same.                                               *)
LEMMA PutKeepsGood ==
    ASSUME NEW cfg, Good(cfg), NEW list \in Lists, NEW f \in File,
           cfg.roots[f] \in Root, NEW a \in Seq(Stored), NEW s \in Seq(Entry),
           Mirrors(s, f, a),
           \A g \in File \ {f} : Mirrors(s, g, Items(cfg.roots[g], list))
    PROVE  Good(PutList(cfg, list, f, a, s))
<1> DEFINE new == PutList(cfg, list, f, a, s)
           roots == PutRoots(cfg, list, f, a)
<1>1. /\ cfg.roots \in Files /\ cfg.in \in Seq(Entry) /\ cfg.out \in Seq(Entry)
      /\ cfg.routing \in {NoSection} \union Winning
    BY GoodHas
<1>2. /\ new.roots = roots /\ new.routing = cfg.routing /\ new[list] = s
      /\ \A other \in Lists : other # list => new[other] = cfg[other]
    BY DEF PutList, Lists
<1>3. /\ roots[f] = PutArray(cfg.roots[f], list, a)
      /\ \A g \in File \ {f} : roots[g] = cfg.roots[g]
    BY <1>1 DEF PutRoots, Files
<1>4. roots \in Files
    <2>1. PutArray(cfg.roots[f], list, a) \in Root
        BY PutArrayIs
    <2> QED
        BY <1>1, <2>1 DEF PutRoots, Files
<1>5. new \in Config
    BY <1>1, <1>4 DEF PutList, Config
<1> HIDE DEF new, roots
<1>6. ASSUME NEW other \in Lists, NEW g \in File
      PROVE  Mirrors(new[other], g, Items(roots[g], other))
    <2>1. Mirrors(cfg[other], g, Items(cfg.roots[g], other))
        BY DEF Good
    <2>2. CASE other = list /\ g = f
        <3>1. Items(roots[f], list) = a
            BY <1>3, PutArrayIs
        <3> QED
            BY <1>2, <2>2, <3>1
    <2>3. CASE other = list /\ g # f
        BY <1>2, <1>3, <2>3
    <2>4. CASE other # list /\ g = f
        <3>1. Items(roots[f], other) = Items(cfg.roots[f], other)
            BY <1>3, <2>4, PutArrayIs
        <3> QED
            BY <1>2, <2>1, <2>4, <3>1
    <2>5. CASE other # list /\ g # f
        BY <1>2, <1>3, <2>1, <2>5
    <2> QED
        BY <2>2, <2>3, <2>4, <2>5
<1>7. Winner(roots) = Winner(cfg.roots)
    <2>1. ASSUME NEW g \in File PROVE Section(cfg.roots, g) = Section(roots, g)
        <3>1. CASE g = f
            <4>1. roots[f] \in Root /\ roots[f].routing = cfg.roots[f].routing
                BY <1>3, PutArrayIs
            <4> QED
                BY <3>1, <4>1, AbsentAssumption DEF Section
        <3>2. CASE g # f
            BY <1>3, <3>2 DEF Section
        <3> QED
            BY <3>1, <3>2
    <2> QED
        BY <2>1, WinnerSame
<1>8. cfg.routing = Winner(cfg.roots)
    BY DEF Good
<1>9. Good(new)
    BY <1>2, <1>5, <1>6, <1>7, <1>8 DEF Good
<1> QED
    BY <1>9 DEF new

(* An entry's file has the entry, at the place the merged list gives it.   *)
LEMMA EntryHas ==
    ASSUME NEW cfg, Good(cfg), NEW list \in Lists, NEW at \in DOMAIN cfg[list]
    PROVE  /\ at \in 1 .. Len(cfg[list])
           /\ cfg[list][at] \in Entry
           /\ cfg[list][at].file \in File /\ cfg[list][at].item \in Stored
           /\ cfg.roots[cfg[list][at].file] \in Root
           /\ cfg.roots[cfg[list][at].file][list]
                = Items(cfg.roots[cfg[list][at].file], list)
           /\ WithinFile(cfg, list, at) = Place(cfg[list], cfg[list][at].file, at)
           /\ WithinFile(cfg, list, at)
                \in 1 .. Len(Items(cfg.roots[cfg[list][at].file], list))
<1> DEFINE s == cfg[list]
           f == cfg[list][at].file
           a == Items(cfg.roots[f], list)
<1>1. s \in Seq(Entry) /\ cfg.roots \in Files
    BY GoodHas
<1> HIDE DEF s
<1>2. at \in 1 .. Len(s) /\ s[at] \in Entry
    BY <1>1 DEF s
<1>3. f \in File /\ cfg[list][at].item \in Stored
    BY <1>2 DEF Entry, s
<1> HIDE DEF f, a
<1>4. Mirrors(s, f, a)
    BY <1>3 DEF Good, s, a
<1>5. s[at].file = f /\ Len(s) \in Nat /\ Len(a) = Place(s, f, Len(s))
    BY <1>1, <1>4 DEF Mirrors, f, s
<1>6. Place(s, f, at) \in 1 .. Len(a)
    BY <1>2, <1>5, PlaceInside
<1>7. WithinFile(cfg, list, at) = Place(s, f, at)
    <2>1. at - 1 \in Nat /\ (at - 1) + 1 = at
        BY <1>2
    <2>2. Place(s, f, (at - 1) + 1) = Place(s, f, at - 1) + (IF s[(at - 1) + 1].file = f THEN 1 ELSE 0)
        BY <2>1, PlaceNext
    <2>3. Place(s, f, at - 1) \in Nat
        BY <2>1, PlaceType
    <2>4. Place(s, f, at) = 1 + Place(s, f, at - 1)
        BY <1>5, <2>1, <2>2, <2>3
    <2>5. Place(s, f, at - 1) = Cardinality({j \in 1 .. at - 1 : cfg[list][j].file = cfg[list][at].file})
        BY DEF Place, s, f
    <2> QED
        BY <2>4, <2>5 DEF WithinFile
<1>8. cfg.roots[f] \in {NoFile} \union Root
    BY <1>1, <1>3 DEF Files
<1>9. a # <<>>
    BY <1>6
<1>10. cfg.roots[f] # NoFile /\ cfg.roots[f][list] = a
    BY <1>9 DEF a, Items
<1> QED
    BY <1>2, <1>3, <1>6, <1>7, <1>8, <1>10 DEF s, f, a

LEMMA RootIs ==
    ASSUME NEW root \in Root
    PROVE  root = [in |-> root.in, out |-> root.out, routing |-> root.routing]
BY DEF Root

LEMMA PutArrayExcept ==
    ASSUME NEW root \in Root, NEW list \in Lists, NEW a
    PROVE  [root EXCEPT ![list] = a] = PutArray(root, list, a)
<1>1. root = [in |-> root.in, out |-> root.out, routing |-> root.routing]
    BY RootIs
<1> DEFINE i == root.in
           o == root.out
           r == root.routing
<1>2. root = [in |-> i, out |-> o, routing |-> r]
    BY <1>1
<1> HIDE DEF i, o, r
<1>3. CASE list = "in"
    <2>1. [root EXCEPT !["in"] = a] = [in |-> a, out |-> o, routing |-> r]
        BY <1>2
    <2> QED
        BY <1>3, <2>1 DEF PutArray, i, o, r
<1>4. CASE list = "out"
    <2>1. [root EXCEPT !["out"] = a] = [in |-> i, out |-> a, routing |-> r]
        BY <1>2
    <2> QED
        BY <1>4, <2>1 DEF PutArray, i, o, r
<1> QED
    BY <1>3, <1>4 DEF Lists

(* The file's array put back, then the merged list.                        *)
LEMMA PutListExcept ==
    ASSUME NEW cfg, NEW list \in Lists, NEW f, NEW a, NEW s, NEW two,
           two = [roots |-> PutRoots(cfg, list, f, a), in |-> cfg.in, out |-> cfg.out,
                  routing |-> cfg.routing]
    PROVE  [two EXCEPT ![list] = s] = PutList(cfg, list, f, a, s)
<1> DEFINE rs == PutRoots(cfg, list, f, a)
           i == cfg.in
           o == cfg.out
           r == cfg.routing
<1>1. two = [roots |-> rs, in |-> i, out |-> o, routing |-> r]
    OBVIOUS
<1>2. PutList(cfg, list, f, a, s)
        = [roots |-> rs, in |-> IF list = "in" THEN s ELSE i,
           out |-> IF list = "out" THEN s ELSE o, routing |-> r]
    BY DEF PutList
<1> HIDE DEF rs, i, o, r
<1>3. CASE list = "in"
    <2>1. [two EXCEPT !["in"] = s] = [roots |-> rs, in |-> s, out |-> o, routing |-> r]
        BY <1>1
    <2> QED
        BY <1>2, <1>3, <2>1
<1>4. CASE list = "out"
    <2>1. [two EXCEPT !["out"] = s] = [roots |-> rs, in |-> i, out |-> s, routing |-> r]
        BY <1>1
    <2> QED
        BY <1>2, <1>4, <2>1
<1> QED
    BY <1>3, <1>4 DEF Lists

LEMMA AppendIsPut ==
    ASSUME NEW cfg, Good(cfg), NEW list \in Lists, NEW item, NEW f \in File,
           cfg.roots[f] \in Root
    PROVE  AppendItem(cfg, list, item, f)
             = PutList(cfg, list, f, Append(Items(cfg.roots[f], list), item),
                       Append(cfg[list], [file |-> f, item |-> item]))
<1> DEFINE a == Append(Items(cfg.roots[f], list), item)
           s == Append(cfg[list], [file |-> f, item |-> item])
           root == cfg.roots[f]
           two == [cfg EXCEPT !.roots = [cfg.roots EXCEPT ![f] = [root EXCEPT ![list] = a]]]
<1>1. AppendItem(cfg, list, item, f) = [two EXCEPT ![list] = s]
    BY DEF AppendItem
<1>2. cfg = [roots |-> cfg.roots, in |-> cfg.in, out |-> cfg.out, routing |-> cfg.routing]
    BY GoodHas
<1>3. root \in Root
    OBVIOUS
<1> HIDE DEF a, s, root
<1>5. [root EXCEPT ![list] = a] = PutArray(root, list, a)
    BY <1>3, PutArrayExcept
<1>6. [cfg.roots EXCEPT ![f] = [root EXCEPT ![list] = a]] = PutRoots(cfg, list, f, a)
    BY <1>5 DEF PutRoots, root
<1>7. two = [roots |-> PutRoots(cfg, list, f, a), in |-> cfg.in, out |-> cfg.out,
             routing |-> cfg.routing]
    BY <1>2, <1>6
<1> HIDE DEF two
<1>8. [two EXCEPT ![list] = s] = PutList(cfg, list, f, a, s)
    BY <1>7, PutListExcept
<1> QED
    BY <1>1, <1>8 DEF a, s

LEMMA ReplaceIsPut ==
    ASSUME NEW cfg, Good(cfg), NEW list \in Lists, NEW at \in DOMAIN cfg[list], NEW item
    PROVE  ReplaceItem(cfg, list, at, item)
             = PutList(cfg, list, cfg[list][at].file,
                       [Items(cfg.roots[cfg[list][at].file], list)
                            EXCEPT ![Place(cfg[list], cfg[list][at].file, at)] = item],
                       [cfg[list] EXCEPT ![at] = [cfg[list][at] EXCEPT !.item = item]])
<1> DEFINE f == cfg[list][at].file
           root == cfg.roots[f]
           n == WithinFile(cfg, list, at)
           a == [root[list] EXCEPT ![n] = item]
           s == [cfg[list] EXCEPT ![at] = [cfg[list][at] EXCEPT !.item = item]]
           two == [cfg EXCEPT !.roots = [cfg.roots EXCEPT ![f] = [root EXCEPT ![list] = a]]]
<1>1. ReplaceItem(cfg, list, at, item)
        = [two EXCEPT ![list] = [two[list] EXCEPT ![at] = [two[list][at] EXCEPT !.item = item]]]
    BY DEF ReplaceItem
<1>2. cfg = [roots |-> cfg.roots, in |-> cfg.in, out |-> cfg.out, routing |-> cfg.routing]
    BY GoodHas
<1>3. root \in Root
    BY EntryHas
<1>4. list = "in" \/ list = "out"
    BY DEF Lists
<1>5. n = Place(cfg[list], f, at) /\ root[list] = Items(root, list)
    BY EntryHas
<1> HIDE DEF a, n, f, root
<1>6. [root EXCEPT ![list] = a] = PutArray(root, list, a)
    BY <1>3, PutArrayExcept
<1>7. [cfg.roots EXCEPT ![f] = [root EXCEPT ![list] = a]] = PutRoots(cfg, list, f, a)
    BY <1>6 DEF PutRoots, root
<1>8. two = [roots |-> PutRoots(cfg, list, f, a), in |-> cfg.in, out |-> cfg.out,
             routing |-> cfg.routing]
    <2> HIDE DEF s
    <2> QED
        BY <1>2, <1>7
<1> HIDE DEF two
<1>9. two[list] = cfg[list]
    BY <1>2, <1>4, <1>8
<1>10. ReplaceItem(cfg, list, at, item) = [two EXCEPT ![list] = s]
    BY <1>1, <1>9
<1> HIDE DEF s
<1>11. [two EXCEPT ![list] = s] = PutList(cfg, list, f, a, s)
    BY <1>8, PutListExcept
<1>12. a = [Items(cfg.roots[f], list) EXCEPT ![Place(cfg[list], f, at)] = item]
    BY <1>5 DEF a, root
<1> QED
    BY <1>10, <1>11, <1>12 DEF f, s

LEMMA RemoveIsPut ==
    ASSUME NEW cfg, Good(cfg), NEW list \in Lists, NEW at \in DOMAIN cfg[list]
    PROVE  RemoveItem(cfg, list, at)
             = PutList(cfg, list, cfg[list][at].file,
                       RemoveAt(Items(cfg.roots[cfg[list][at].file], list),
                                Place(cfg[list], cfg[list][at].file, at)),
                       RemoveAt(cfg[list], at))
<1> DEFINE f == cfg[list][at].file
           root == cfg.roots[f]
           n == WithinFile(cfg, list, at)
           a == RemoveAt(root[list], n)
           s == RemoveAt(cfg[list], at)
           two == [cfg EXCEPT !.roots = [cfg.roots EXCEPT ![f] = [root EXCEPT ![list] = a]]]
<1>1. RemoveItem(cfg, list, at) = [two EXCEPT ![list] = RemoveAt(cfg[list], at)]
    BY DEF RemoveItem
<1>2. cfg = [roots |-> cfg.roots, in |-> cfg.in, out |-> cfg.out, routing |-> cfg.routing]
    BY GoodHas
<1>3. root \in Root
    BY EntryHas
<1>5. n = Place(cfg[list], f, at) /\ root[list] = Items(root, list)
    BY EntryHas
<1> HIDE DEF a, n, f, root
<1>6. [root EXCEPT ![list] = a] = PutArray(root, list, a)
    BY <1>3, PutArrayExcept
<1>7. [cfg.roots EXCEPT ![f] = [root EXCEPT ![list] = a]] = PutRoots(cfg, list, f, a)
    BY <1>6 DEF PutRoots, root
<1>8. two = [roots |-> PutRoots(cfg, list, f, a), in |-> cfg.in, out |-> cfg.out,
             routing |-> cfg.routing]
    <2> HIDE DEF s
    <2> QED
        BY <1>2, <1>7
<1> HIDE DEF two
<1>10. RemoveItem(cfg, list, at) = [two EXCEPT ![list] = s]
    BY <1>1
<1> HIDE DEF s
<1>11. [two EXCEPT ![list] = s] = PutList(cfg, list, f, a, s)
    BY <1>8, PutListExcept
<1>12. a = RemoveAt(Items(cfg.roots[f], list), Place(cfg[list], f, at))
    BY <1>5 DEF a, root
<1> QED
    BY <1>10, <1>11, <1>12 DEF f, s

(* What every edit of the entries leaves alone.                            *)
LEMMA PutHas ==
    ASSUME NEW cfg, Good(cfg), NEW list \in Lists, NEW f \in File, cfg.roots[f] \in Root,
           NEW a \in Seq(Stored), NEW s,
           NEW new, new = PutList(cfg, list, f, a, s)
    PROVE  /\ new[list] = s
           /\ \A other \in Lists : other # list => new[other] = cfg[other]
           /\ new.routing = cfg.routing
           /\ new.roots = [cfg.roots EXCEPT ![f] = new.roots[f]]
           /\ new.roots[f] \in Root
<1>1. /\ new.roots = PutRoots(cfg, list, f, a) /\ new.routing = cfg.routing
      /\ new[list] = s
      /\ \A other \in Lists : other # list => new[other] = cfg[other]
    BY DEF PutList, Lists
<1>2. cfg.roots \in Files /\ DOMAIN cfg.roots = File
    BY GoodHas DEF Files
<1>3. new.roots[f] = PutArray(cfg.roots[f], list, a)
    BY <1>1, <1>2 DEF PutRoots
<1>4. new.roots = [cfg.roots EXCEPT ![f] = new.roots[f]]
    BY <1>1, <1>3 DEF PutRoots
<1> QED
    BY <1>1, <1>3, <1>4, PutArrayIs

(* new is cfg with list replaced by s, by a change of file f.              *)
EditedTo(cfg, new, list, f, s) ==
    /\ Good(new)
    /\ new[list] = s
    /\ \A other \in Lists : other # list => new[other] = cfg[other]
    /\ new.routing = cfg.routing
    /\ new.roots = [cfg.roots EXCEPT ![f] = new.roots[f]]
    /\ new.roots[f] \in Root

LEMMA AppendIsGood ==
    ASSUME NEW cfg, Good(cfg), NEW list \in Lists, NEW item \in Stored, NEW f \in File,
           cfg.roots[f] \in Root
    PROVE  EditedTo(cfg, AppendItem(cfg, list, item, f), list, f,
                    Append(cfg[list], [file |-> f, item |-> item]))
<1> DEFINE b == Items(cfg.roots[f], list)
           a == Append(b, item)
           e == [file |-> f, item |-> item]
           s == Append(cfg[list], e)
           new == AppendItem(cfg, list, item, f)
<1>1. new = PutList(cfg, list, f, a, s)
    BY AppendIsPut
<1>2. cfg[list] \in Seq(Entry) /\ e \in Entry /\ cfg.roots \in Files
    BY GoodHas DEF Entry
<1>3. \A g \in File : Items(cfg.roots[g], list) \in Seq(Stored)
    BY <1>2, ItemsType DEF Files
<1>4. \A g \in File : Mirrors(cfg[list], g, Items(cfg.roots[g], list))
    BY DEF Good
<1>5. b \in Seq(Stored) /\ Mirrors(cfg[list], f, b)
    BY <1>3, <1>4
<1> HIDE DEF new, b
<1>6. a \in Seq(Stored)
    BY <1>5
<1>7. s \in Seq(Entry)
    BY <1>2
<1>8. e.file = f /\ e.item = item
    OBVIOUS
<1> HIDE DEF e
<1>9. Mirrors(s, f, a)
    BY <1>2, <1>5, <1>8, MirrorsAppend
<1>10. \A g \in File \ {f} : Mirrors(s, g, Items(cfg.roots[g], list))
    BY <1>2, <1>3, <1>4, <1>8, MirrorsAppend
<1> HIDE DEF a, s
<1>11. Good(new)
    BY <1>1, <1>6, <1>7, <1>9, <1>10, PutKeepsGood
<1>12. EditedTo(cfg, new, list, f, s)
    BY <1>1, <1>6, <1>11, PutHas DEF EditedTo
<1> QED
    BY <1>12 DEF new, s, e

LEMMA ReplaceIsGood ==
    ASSUME NEW cfg, Good(cfg), NEW list \in Lists, NEW at \in DOMAIN cfg[list],
           NEW item \in Stored
    PROVE  EditedTo(cfg, ReplaceItem(cfg, list, at, item), list, cfg[list][at].file,
                    [cfg[list] EXCEPT ![at] = [cfg[list][at] EXCEPT !.item = item]])
<1> DEFINE old == cfg[list]
           f == cfg[list][at].file
           b == Items(cfg.roots[f], list)
           p == Place(cfg[list], f, at)
           a == [b EXCEPT ![p] = item]
           s == [cfg[list] EXCEPT ![at] = [cfg[list][at] EXCEPT !.item = item]]
           new == ReplaceItem(cfg, list, at, item)
<1>1. new = PutList(cfg, list, f, a, s)
    BY ReplaceIsPut
<1>2. old \in Seq(Entry) /\ cfg.roots \in Files
    BY GoodHas
<1>3. \A g \in File : Items(cfg.roots[g], list) \in Seq(Stored)
    BY <1>2, ItemsType DEF Files
<1>4. \A g \in File : Mirrors(old, g, Items(cfg.roots[g], list))
    BY DEF Good
<1>5. at \in 1 .. Len(old) /\ old[at] \in Entry /\ f \in File /\ cfg.roots[f] \in Root
    BY EntryHas
<1>6. b \in Seq(Stored) /\ Mirrors(old, f, b) /\ old[at].file = f
    BY <1>3, <1>4, <1>5
<1>7. p = Place(old, f, at)
    OBVIOUS
<1>8. s = [old EXCEPT ![at] = [old[at] EXCEPT !.item = item]]
    OBVIOUS
<1> HIDE DEF new, b, p, old, f, s
<1>9. a \in Seq(Stored)
    <2>1. Len(b) \in Nat /\ b \in [1 .. Len(b) -> Stored]
        BY <1>6
    <2>2. a \in [1 .. Len(b) -> Stored]
        BY <2>1
    <2> QED
        BY <2>1, <2>2
<1>10. [old[at] EXCEPT !.item = item] \in Entry
       /\ [old[at] EXCEPT !.item = item].file = old[at].file
       /\ [old[at] EXCEPT !.item = item].item = item
    BY <1>5 DEF Entry
<1>11. /\ s \in Seq(Entry) /\ Len(s) = Len(old)
       /\ s[at].item = item
       /\ \A i \in 1 .. Len(old) : s[i].file = old[i].file
       /\ \A i \in 1 .. Len(old) : i # at => s[i].item = old[i].item
    <2> DEFINE e == [old[at] EXCEPT !.item = item]
    <2>1. e \in Entry /\ e.file = old[at].file /\ e.item = item /\ s = [old EXCEPT ![at] = e]
        BY <1>8, <1>10
    <2> HIDE DEF e
    <2>2. s \in Seq(Entry) /\ Len(s) = Len(old)
          /\ \A i \in 1 .. Len(old) : s[i] = IF i = at THEN e ELSE old[i]
        BY <1>2, <1>5, <2>1
    <2> QED
        BY <1>5, <2>1, <2>2
<1>12. Mirrors(s, f, a)
    BY <1>2, <1>5, <1>6, <1>7, <1>11, MirrorsReplace
<1>13. \A g \in File \ {f} : Mirrors(s, g, Items(cfg.roots[g], list))
    <2> TAKE g \in File \ {f}
    <2> DEFINE c == Items(cfg.roots[g], list)
    <2>1. c \in Seq(Stored) /\ Mirrors(old, g, c)
        BY <1>3, <1>4
    <2>2. old[at].file # g
        BY <1>6
    <2> HIDE DEF c
    <2>3. Mirrors(s, g, c)
        BY <1>2, <1>5, <1>11, <2>1, <2>2, MirrorsReplace
    <2> QED
        BY <2>3 DEF c
<1> HIDE DEF a
<1>14. Good(new)
    BY <1>1, <1>5, <1>9, <1>11, <1>12, <1>13, PutKeepsGood
<1>15. EditedTo(cfg, new, list, f, s)
    BY <1>1, <1>5, <1>9, <1>14, PutHas DEF EditedTo
<1> QED
    BY <1>15 DEF new, f, s

LEMMA RemoveIsGood ==
    ASSUME NEW cfg, Good(cfg), NEW list \in Lists, NEW at \in DOMAIN cfg[list]
    PROVE  EditedTo(cfg, RemoveItem(cfg, list, at), list, cfg[list][at].file,
                    RemoveAt(cfg[list], at))
<1> DEFINE old == cfg[list]
           f == cfg[list][at].file
           b == Items(cfg.roots[f], list)
           p == Place(cfg[list], f, at)
           a == RemoveAt(b, p)
           s == RemoveAt(cfg[list], at)
           new == RemoveItem(cfg, list, at)
<1>1. new = PutList(cfg, list, f, a, s)
    BY RemoveIsPut
<1>2. old \in Seq(Entry) /\ cfg.roots \in Files
    BY GoodHas
<1>3. \A g \in File : Items(cfg.roots[g], list) \in Seq(Stored)
    BY <1>2, ItemsType DEF Files
<1>4. \A g \in File : Mirrors(old, g, Items(cfg.roots[g], list))
    BY DEF Good
<1>5. at \in 1 .. Len(old) /\ f \in File /\ cfg.roots[f] \in Root
    BY EntryHas
<1>6. b \in Seq(Stored) /\ Mirrors(old, f, b) /\ old[at].file = f
    BY <1>3, <1>4, <1>5
<1>7. p = Place(old, f, at) /\ s = RemoveAt(old, at)
    OBVIOUS
<1> HIDE DEF new, b, p, old, f, s
<1>8. p \in 1 .. Len(b) /\ Mirrors(s, f, a)
    BY <1>2, <1>5, <1>6, <1>7, MirrorsRemove
<1>9. a \in Seq(Stored)
    BY <1>6, <1>8, RemoveAtIs
<1>10. s \in Seq(Entry)
    BY <1>2, <1>5, <1>7, RemoveAtIs
<1>11. \A g \in File \ {f} : Mirrors(s, g, Items(cfg.roots[g], list))
    BY <1>2, <1>3, <1>4, <1>5, <1>6, <1>7, MirrorsRemove
<1> HIDE DEF a
<1>12. Good(new)
    BY <1>1, <1>5, <1>8, <1>9, <1>10, <1>11, PutKeepsGood
<1>13. EditedTo(cfg, new, list, f, s)
    BY <1>1, <1>5, <1>9, <1>12, PutHas DEF EditedTo
<1> QED
    BY <1>13 DEF new, f, s

LEMMA MaxSame ==
    ASSUME NEW S, S \subseteq File, NEW x \in S, \A y \in S : x >= y
    PROVE  Max(S) = x
<1>1. Max(S) \in S /\ \A y \in S : Max(S) >= y
    BY FileFacts, MaxIs
<1>2. Max(S) \in Nat /\ x \in Nat /\ Max(S) >= x /\ x >= Max(S)
    BY <1>1, FileFacts
<1> QED
    BY <1>2

(* The winning section is that of the last file having one.                *)
LEMMA WinnerOf ==
    ASSUME NEW roots, NEW f \in Having(roots), \A g \in Having(roots) : f >= g
    PROVE  Winner(roots) = [file |-> f, refs |-> Section(roots, f)]
<1>1. Having(roots) \subseteq File
    BY DEF Having
<1>2. Max(Having(roots)) = f
    BY <1>1, MaxSame
<1> QED
    BY <1>2, WinnerIs

(* new is cfg with its winning section or one file changed, and no list.   *)
SectionsTo(cfg, new, f) ==
    /\ Good(new)
    /\ \A list \in Lists : new[list] = cfg[list]
    /\ new.roots = [cfg.roots EXCEPT ![f] = new.roots[f]]
    /\ new.roots[f] \in {NoFile} \union Root

LEMMA SectionsKeepGood ==
    ASSUME NEW cfg, Good(cfg), NEW f \in File, NEW root \in {NoFile} \union Root,
           \A list \in Lists : Items(root, list) = Items(cfg.roots[f], list),
           NEW new, new.roots = [cfg.roots EXCEPT ![f] = root],
           new = [roots |-> new.roots, in |-> cfg.in, out |-> cfg.out,
                  routing |-> new.routing],
           new.routing = Winner(new.roots)
    PROVE  SectionsTo(cfg, new, f)
<1>1. /\ cfg.roots \in Files /\ cfg.in \in Seq(Entry) /\ cfg.out \in Seq(Entry)
    BY GoodHas
<1>2. new.roots \in Files /\ new.roots[f] = root
      /\ \A g \in File : g # f => new.roots[g] = cfg.roots[g]
    BY <1>1 DEF Files
<1>3. new.routing \in {NoSection} \union Winning
    BY <1>2, WinnerType
<1>4. new \in Config
    BY <1>1, <1>2, <1>3 DEF Config
<1>5. \A list \in Lists : new[list] = cfg[list]
    BY DEF Lists
<1>6. ASSUME NEW list \in Lists, NEW g \in File
      PROVE  Mirrors(new[list], g, Items(new.roots[g], list))
    <2>1. Mirrors(cfg[list], g, Items(cfg.roots[g], list))
        BY DEF Good
    <2>2. Items(new.roots[g], list) = Items(cfg.roots[g], list)
        BY <1>2
    <2> QED
        BY <1>5, <2>1, <2>2
<1>7. Good(new)
    BY <1>4, <1>6 DEF Good
<1> QED
    BY <1>2, <1>5, <1>7 DEF SectionsTo

LEMMA LoadedIs ==
    ASSUME NEW cfg, Good(cfg)
    PROVE  \A f \in Loaded(cfg) : f \in File /\ cfg.roots[f] \in Root
BY GoodHas DEF Loaded, Files

LEMMA PrimaryIs ==
    ASSUME NEW cfg, Loaded(cfg) # {}
    PROVE  PrimaryFile(cfg) \in Loaded(cfg)
<1>1. Loaded(cfg) \subseteq Nat
    BY FileFacts DEF Loaded
<1> QED
    BY <1>1, MinIs DEF PrimaryFile

LEMMA OutboundTargetIs ==
    ASSUME NEW cfg, Loaded(cfg) # {}
    PROVE  OutboundTarget(cfg) \in Loaded(cfg)
<1> DEFINE owners == {f \in Loaded(cfg) : cfg.roots[f]["out"] # NoList}
           named == Loaded(cfg) \intersect Hosting["out"]
<1>1. owners \subseteq Nat /\ named \subseteq Nat
    BY FileFacts DEF Loaded
<1>2. PrimaryFile(cfg) \in Loaded(cfg)
    BY PrimaryIs
<1>3. owners # {} => Min(owners) \in Loaded(cfg)
    <2>1. owners # {} => Min(owners) \in owners
        <3> HIDE DEF owners
        <3> QED
            BY <1>1, MinIs
    <2> QED
        BY <2>1
<1>4. named # {} => Min(named) \in Loaded(cfg)
    <2>1. named # {} => Min(named) \in named
        <3> HIDE DEF named
        <3> QED
            BY <1>1, MinIs
    <2> QED
        BY <2>1
<1> QED
    BY <1>2, <1>3, <1>4 DEF OutboundTarget

LEMMA RoutingTargetIs ==
    ASSUME NEW cfg, Good(cfg), Loaded(cfg) # {}
    PROVE  RoutingTarget(cfg) \in Loaded(cfg)
<1> DEFINE named == Loaded(cfg) \intersect Hosting["routing"]
<1>1. named \subseteq Nat
    BY FileFacts DEF Loaded
<1>2. PrimaryFile(cfg) \in Loaded(cfg)
    BY PrimaryIs
<1>3. named # {} => Min(named) \in Loaded(cfg)
    <2>1. named # {} => Min(named) \in named
        <3> HIDE DEF named
        <3> QED
            BY <1>1, MinIs
    <2> QED
        BY <2>1
<1>4. cfg.routing # NoSection => cfg.routing.file \in Loaded(cfg)
    <2> SUFFICES ASSUME cfg.routing # NoSection PROVE cfg.routing.file \in Loaded(cfg)
        OBVIOUS
    <2>1. cfg.routing = Winner(cfg.roots)
        BY DEF Good
    <2>2. Having(cfg.roots) # {} /\ cfg.routing.file = Max(Having(cfg.roots))
        BY <2>1, WinnerIs
    <2>3. Max(Having(cfg.roots)) \in Having(cfg.roots)
        BY <2>2, FileFacts, MaxIs DEF Having
    <2> QED
        BY <2>2, <2>3 DEF Having, Section, Loaded
<1> QED
    BY <1>2, <1>3, <1>4 DEF RoutingTarget

LEMMA SetRoutingIsGood ==
    ASSUME NEW cfg, Good(cfg), Loaded(cfg) # {}, NEW refs \in RoutingRefs
    PROVE  /\ SectionsTo(cfg, SetRouting(cfg, refs), RoutingTarget(cfg))
           /\ SetRouting(cfg, refs).roots[RoutingTarget(cfg)] \in Root
<1> DEFINE f == RoutingTarget(cfg)
           root == [cfg.roots[f] EXCEPT !.routing = refs]
           new == SetRouting(cfg, refs)
<1>1. f \in File /\ cfg.roots[f] \in Root /\ f \in Loaded(cfg)
    BY RoutingTargetIs, LoadedIs
<1>2. refs \in SUBSET Rule /\ refs # NoSection
    BY ConfDirAssumption, AbsentAssumption
<1>3. cfg = [roots |-> cfg.roots, in |-> cfg.in, out |-> cfg.out, routing |-> cfg.routing]
      /\ cfg.roots \in Files
    BY GoodHas
<1>4. new = [[cfg EXCEPT !.roots = [cfg.roots EXCEPT ![f] = root]]
                EXCEPT !.routing = [file |-> f, refs |-> refs]]
    BY DEF SetRouting
<1>5. root \in Root /\ root.routing = refs
      /\ \A list \in Lists : root[list] = cfg.roots[f][list]
    BY <1>1, <1>2 DEF Root, Lists
<1> HIDE DEF root, new
<1>6. /\ new.roots = [cfg.roots EXCEPT ![f] = root]
      /\ new.routing = [file |-> f, refs |-> refs]
      /\ new = [roots |-> new.roots, in |-> cfg.in, out |-> cfg.out,
                routing |-> new.routing]
    <2> DEFINE roots == [cfg.roots EXCEPT ![f] = root]
    <2>1. new = [[cfg EXCEPT !.roots = roots] EXCEPT !.routing = [file |-> f, refs |-> refs]]
        BY <1>4
    <2> HIDE DEF roots, f
    <2>2. new = [roots |-> roots, in |-> cfg.in, out |-> cfg.out,
                 routing |-> [file |-> f, refs |-> refs]]
        BY <1>3, <2>1
    <2>3. new.roots = roots
        BY <2>2
    <2> QED
        BY <2>2, <2>3 DEF roots
<1> HIDE DEF f
<1>7. \A list \in Lists : Items(root, list) = Items(cfg.roots[f], list)
    BY <1>1, <1>5, AbsentAssumption DEF Items
<1>8. new.routing = Winner(new.roots)
    <2>1. new.roots[f] = root /\ \A g \in File : g # f => new.roots[g] = cfg.roots[g]
        BY <1>1, <1>3, <1>6 DEF Files
    <2>2. Section(new.roots, f) = refs
        BY <1>5, <2>1, AbsentAssumption DEF Section
    <2>3. \A g \in File : g # f => Section(new.roots, g) = Section(cfg.roots, g)
        BY <2>1 DEF Section
    <2>4. f \in Having(new.roots)
        BY <1>1, <1>2, <2>2 DEF Having
    <2>5. \A g \in Having(cfg.roots) : f >= g
        <3> SUFFICES ASSUME NEW g \in Having(cfg.roots) PROVE f >= g
            OBVIOUS
        <3>1. cfg.routing = Winner(cfg.roots)
            BY DEF Good
        <3>2. cfg.routing = [file |-> Max(Having(cfg.roots)),
                             refs |-> Section(cfg.roots, Max(Having(cfg.roots)))]
            BY <3>1, WinnerIs
        <3>3. Max(Having(cfg.roots)) \in File /\ Max(Having(cfg.roots)) >= g
            BY FileFacts, MaxIs DEF Having
        <3>4. cfg.routing \in Winning
            <4>1. Max(Having(cfg.roots)) \in Having(cfg.roots)
                BY FileFacts, MaxIs DEF Having
            <4>2. cfg.roots[Max(Having(cfg.roots))] \in Root
                BY <1>3, <3>3, <4>1 DEF Having, Section, Files
            <4>3. Section(cfg.roots, Max(Having(cfg.roots))) \in SUBSET Rule
                BY <4>1, <4>2 DEF Having, Section, Root
            <4> QED
                BY <3>2, <3>3, <4>3 DEF Winning
        <3>5. cfg.routing # NoSection
            BY <3>4, AbsentAssumption DEF Winning
        <3>6. f = cfg.routing.file
            BY <3>5 DEF f, RoutingTarget
        <3> QED
            BY <3>2, <3>3, <3>6
    <2>6. \A g \in Having(new.roots) : f >= g
        <3> TAKE g \in Having(new.roots)
        <3>1. CASE g = f
            <4>1. f \in Nat
                BY <1>1, FileFacts
            <4> QED
                BY <3>1, <4>1
        <3>2. CASE g # f
            <4>1. g \in Having(cfg.roots)
                BY <2>3, <3>2 DEF Having
            <4> QED
                BY <2>5, <4>1
        <3> QED
            BY <3>1, <3>2
    <2> QED
        BY <1>6, <2>2, <2>4, <2>6, WinnerOf
<1>9. SectionsTo(cfg, new, f)
    BY <1>1, <1>5, <1>6, <1>7, <1>8, SectionsKeepGood
<1>10. new.roots[f] \in Root
    BY <1>1, <1>3, <1>5, <1>6 DEF Files
<1> QED
    BY <1>9, <1>10 DEF new, f

LEMMA AddFileIsGood ==
    ASSUME NEW cfg, Good(cfg), NEW f \in File, cfg.roots[f] = NoFile
    PROVE  SectionsTo(cfg, AddFile(cfg, f), f)
<1> DEFINE root == [in |-> NoList, out |-> NoList, routing |-> NoSection]
           new == AddFile(cfg, f)
<1>1. root \in Root /\ root.routing = NoSection /\ \A list \in Lists : root[list] = NoList
    BY DEF Root, Lists
<1>2. new = [cfg EXCEPT !.roots = [cfg.roots EXCEPT ![f] = root]]
    BY DEF AddFile
<1>3. cfg = [roots |-> cfg.roots, in |-> cfg.in, out |-> cfg.out, routing |-> cfg.routing]
      /\ cfg.roots \in Files
    BY GoodHas
<1> HIDE DEF root, new
<1>4. /\ new.roots = [cfg.roots EXCEPT ![f] = root] /\ new.routing = cfg.routing
      /\ new = [roots |-> new.roots, in |-> cfg.in, out |-> cfg.out,
                routing |-> new.routing]
    <2> DEFINE roots == [cfg.roots EXCEPT ![f] = root]
    <2>1. new = [cfg EXCEPT !.roots = roots]
        BY <1>2
    <2> HIDE DEF roots
    <2>2. new = [roots |-> roots, in |-> cfg.in, out |-> cfg.out, routing |-> cfg.routing]
        BY <1>3, <2>1
    <2>3. new.roots = roots
        BY <2>2
    <2> QED
        BY <2>2, <2>3 DEF roots
<1>5. \A list \in Lists : Items(root, list) = Items(cfg.roots[f], list)
    BY <1>1, AbsentAssumption DEF Items
<1>6. Winner(new.roots) = Winner(cfg.roots)
    <2>1. ASSUME NEW g \in File PROVE Section(cfg.roots, g) = Section(new.roots, g)
        <3>1. CASE g = f
            <4>1. new.roots[f] = root
                BY <1>3, <1>4 DEF Files
            <4> QED
                BY <1>1, <3>1, <4>1, AbsentAssumption DEF Section
        <3>2. CASE g # f
            BY <1>3, <1>4, <3>2 DEF Section, Files
        <3> QED
            BY <3>1, <3>2
    <2> QED
        BY <2>1, WinnerSame
<1>7. cfg.routing = Winner(cfg.roots)
    BY DEF Good
<1>8. SectionsTo(cfg, new, f)
    BY <1>1, <1>4, <1>5, <1>6, <1>7, SectionsKeepGood
<1> QED
    BY <1>8 DEF new

(* A file that holds no section has no entries, and does not win.          *)
LEMMA RemoveFileIsGood ==
    ASSUME NEW cfg, Good(cfg), NEW f \in File, cfg.roots[f] # NoFile, ~HoldsSections(cfg, f)
    PROVE  /\ SectionsTo(cfg, RemoveFile(cfg, f), f)
           /\ RemoveFile(cfg, f).roots[f] = NoFile
           /\ Winner(RemoveFile(cfg, f).roots) = Winner(cfg.roots)
           /\ \A list \in Lists : Items(cfg.roots[f], list) = <<>>
<1> DEFINE new == RemoveFile(cfg, f)
<1>1. new = [cfg EXCEPT !.roots = [cfg.roots EXCEPT ![f] = NoFile]]
    BY DEF RemoveFile
<1>2. cfg = [roots |-> cfg.roots, in |-> cfg.in, out |-> cfg.out, routing |-> cfg.routing]
      /\ cfg.roots \in Files
    BY GoodHas
<1> HIDE DEF new
<1>3. /\ new.roots = [cfg.roots EXCEPT ![f] = NoFile] /\ new.routing = cfg.routing
      /\ new = [roots |-> new.roots, in |-> cfg.in, out |-> cfg.out,
                routing |-> new.routing]
    <2> DEFINE roots == [cfg.roots EXCEPT ![f] = NoFile]
    <2>1. new = [cfg EXCEPT !.roots = roots]
        BY <1>1
    <2> HIDE DEF roots
    <2>2. new = [roots |-> roots, in |-> cfg.in, out |-> cfg.out, routing |-> cfg.routing]
        BY <1>2, <2>1
    <2>3. new.roots = roots
        BY <2>2
    <2> QED
        BY <2>2, <2>3 DEF roots
<1>4. ASSUME NEW list \in Lists PROVE Items(cfg.roots[f], list) = <<>>
    <2> DEFINE s == cfg[list]
               a == Items(cfg.roots[f], list)
    <2>1. s \in Seq(Entry)
        BY GoodHas
    <2>2. \A j \in DOMAIN s : s[j].file # f
        BY DEF HoldsSections
    <2>3. Len(a) = Place(s, f, Len(s))
        BY DEF Good, Mirrors
    <2>4. a \in Seq(Stored)
        BY <1>2, ItemsType DEF Files
    <2> HIDE DEF s, a
    <2>5. {i \in 1 .. Len(s) : s[i].file = f} = {}
        BY <2>1, <2>2
    <2>6. Len(a) = 0
        BY <2>3, <2>5, FS_EmptySet DEF Place
    <2>7. a = <<>>
        BY <2>4, <2>6
    <2> QED
        BY <2>7 DEF a
<1>5. \A list \in Lists : Items(NoFile, list) = Items(cfg.roots[f], list)
    BY <1>4 DEF Items
<1>6. new.roots[f] = NoFile /\ \A g \in File : g # f => new.roots[g] = cfg.roots[g]
    BY <1>2, <1>3 DEF Files
<1>7. cfg.routing = Winner(cfg.roots)
    BY DEF Good
<1>8. Winner(new.roots) = Winner(cfg.roots)
    <2>1. Having(new.roots) = Having(cfg.roots) \ {f}
        BY <1>6 DEF Having, Section
    <2>2. CASE Having(cfg.roots) = {}
        BY <2>1, <2>2, WinnerIs
    <2>3. CASE Having(cfg.roots) # {}
        <3> DEFINE h == Max(Having(cfg.roots))
        <3>1. h \in Having(cfg.roots) /\ h \in File /\ \A g \in Having(cfg.roots) : h >= g
            BY <2>3, FileFacts, MaxIs DEF Having
        <3>2. Winner(cfg.roots) = [file |-> h, refs |-> Section(cfg.roots, h)]
            BY <2>3, WinnerIs
        <3> HIDE DEF h
        <3>3. Winner(cfg.roots).file = h /\ Winner(cfg.roots) # NoSection
            <4>1. cfg.roots[h] \in Root
                BY <1>2, <3>1 DEF Having, Section, Files
            <4>2. Section(cfg.roots, h) \in SUBSET Rule
                BY <3>1, <4>1 DEF Having, Section, Root
            <4>3. Winner(cfg.roots) \in Winning
                BY <3>1, <3>2, <4>2 DEF Winning
            <4> QED
                BY <3>2, <4>3, AbsentAssumption DEF Winning
        <3>4. h # f
            BY <1>7, <3>3 DEF HoldsSections
        <3>5. h \in Having(new.roots) /\ \A g \in Having(new.roots) : h >= g
            BY <2>1, <3>1, <3>4
        <3>6. Section(new.roots, h) = Section(cfg.roots, h)
            BY <1>6, <3>1, <3>4 DEF Section
        <3> QED
            BY <3>2, <3>5, <3>6, WinnerOf
    <2> QED
        BY <2>2, <2>3
<1>9. SectionsTo(cfg, new, f)
    BY <1>3, <1>5, <1>7, <1>8, SectionsKeepGood
<1> QED
    BY <1>4, <1>6, <1>8, <1>9 DEF new

(* There is always a number left for a copy: fewer entries than numbers.   *)
LEMMA CopyTagIsFree ==
    ASSUME NEW cfg, Good(cfg), NEW list \in Lists, NEW tag \in Tag
    PROVE  /\ CopyTag(cfg, list, tag) \in Tag
           /\ ~Taken(cfg, list, CopyTag(cfg, list, tag), {})
<1> DEFINE m == Len(cfg[list])
           free == {n \in 1 .. m + 1 : ~Taken(cfg, list, Append(tag, n), {})}
           At(n) == CHOOSE j \in 1 .. m : Same(list, cfg[list][j].item.tag, Append(tag, n))
           w == [n \in 1 .. m + 1 |-> At(n)]
<1>1. m \in Nat /\ DOMAIN cfg[list] = 1 .. m
    BY GoodHas
<1>2. tag \in Seq(Names \union Nat) /\ tag # <<>> /\ Len(tag) \in Nat /\ Len(tag) # 0
    BY DEF Tag
<1>3. ASSUME free = {} PROVE FALSE
    <2>1. ASSUME NEW n \in 1 .. m + 1
          PROVE  At(n) \in 1 .. m /\ Same(list, cfg[list][At(n)].item.tag, Append(tag, n))
        <3>1. Taken(cfg, list, Append(tag, n), {})
            BY <1>3
        <3>2. \E j \in 1 .. m : Same(list, cfg[list][j].item.tag, Append(tag, n))
            BY <1>1, <3>1 DEF Taken
        <3> HIDE DEF m
        <3> QED
            BY <3>2
    <2> HIDE DEF m, At
    <2>2. w \in [1 .. m + 1 -> 1 .. m]
        BY <2>1
    <2>3. /\ IsFiniteSet(1 .. m + 1) /\ Cardinality(1 .. m + 1) = m + 1
          /\ IsFiniteSet(1 .. m) /\ Cardinality(1 .. m) = m
        <3>1. m + 1 \in Int /\ m \in Int /\ 1 \in Int
            BY <1>1
        <3>2. /\ IsFiniteSet(1 .. m + 1)
              /\ Cardinality(1 .. m + 1) = IF 1 > m + 1 THEN 0 ELSE m + 1 - 1 + 1
            BY <3>1, FS_Interval
        <3>3. /\ IsFiniteSet(1 .. m)
              /\ Cardinality(1 .. m) = IF 1 > m THEN 0 ELSE m - 1 + 1
            BY <3>1, FS_Interval
        <3> QED
            BY <1>1, <3>2, <3>3
    <2>4. Cardinality(1 .. m) < Cardinality(1 .. m + 1)
        BY <1>1, <2>3
    <2>5. PICK x \in 1 .. m + 1, y \in 1 .. m + 1 : x # y /\ w[x] = w[y]
        <3> HIDE DEF w
        <3> QED
            BY <2>2, <2>3, <2>4, FS_PigeonHole
    <2>6. At(x) = At(y)
        BY <2>5
    <2> DEFINE t == cfg[list][At(x)].item.tag
    <2>7. Same(list, t, Append(tag, x)) /\ Same(list, t, Append(tag, y))
        BY <2>1, <2>6
    <2> HIDE DEF t
    <2>8. Append(tag, x) = Append(tag, y) \/ Fold(Append(tag, x)) = Fold(Append(tag, y))
        BY <2>7 DEF Same
    <2>9. ASSUME NEW n \in 1 .. m + 1
          PROVE  /\ Append(tag, n)[Len(tag) + 1] = n
                 /\ Fold(Append(tag, n))[Len(tag) + 1] = n
        <3> DEFINE u == Append(tag, n)
        <3>1. /\ u[Len(tag) + 1] = n /\ Len(tag) + 1 \in DOMAIN u
              /\ Len(tag) + 1 # 1
            BY <1>2
        <3> HIDE DEF u
        <3>2. Fold(u)[Len(tag) + 1] = n
            BY <3>1 DEF Fold
        <3> QED
            BY <3>1, <3>2 DEF u
    <2> QED
        BY <2>5, <2>8, <2>9
<1>4. Min(free) \in free
    <2>1. free \subseteq Nat
        BY <1>1
    <2> HIDE DEF free
    <2> QED
        BY <1>3, <2>1, MinIs
<1>5. CopyTag(cfg, list, tag) = Append(tag, Min(free))
    BY DEF CopyTag
<1>6. ~Taken(cfg, list, Append(tag, Min(free)), {}) /\ Min(free) \in Nat
    BY <1>1, <1>4
<1>7. \A n \in Nat : Append(tag, n) \in Tag
    <2> TAKE n \in Nat
    <2>1. Append(tag, n) \in Seq(Names \union Nat) /\ Append(tag, n) # <<>>
        BY <1>2
    <2> QED
        BY <2>1 DEF Tag
<1> HIDE DEF free
<1> QED
    BY <1>5, <1>6, <1>7

LEMMA IndexIs ==
    ASSUME NEW cfg, Good(cfg), NEW tag, IndexByTag(cfg, tag) # 0
    PROVE  /\ IndexByTag(cfg, tag) \in DOMAIN cfg.out
           /\ Same("out", cfg.out[IndexByTag(cfg, tag)].item.tag, tag)
<1> DEFINE found == {j \in DOMAIN cfg.out : Same("out", cfg.out[j].item.tag, tag)}
<1>1. found \subseteq Nat
    <2>1. cfg.out \in Seq(Entry)
        BY GoodHas
    <2> QED
        BY <2>1
<1>2. found # {} /\ IndexByTag(cfg, tag) = Min(found)
    BY DEF IndexByTag
<1>3. Min(found) \in found
    <2> HIDE DEF found
    <2> QED
        BY <1>1, <1>2, MinIs
<1> QED
    BY <1>2, <1>3

-----------------------------------------------------------------------------
(* The inductive invariant.                                                *)

DialogSound ==
    dialog # NoDialog => dialog.list \in Lists /\ dialog.op \in DialogOps[dialog.list]

IInv ==
    /\ disk \in [File -> {NoFile, Broken} \union Root]
    /\ loaded = Unloaded \/ Good(loaded)
    /\ DialogSound
    /\ LoadedIsDisk

(* What an operation does to the configuration, whoever asked for it.      *)
Appends(list, item, f) ==
    /\ loaded.roots[f] \in Root
    /\ ~Taken(loaded, list, item.tag, {})
    /\ Save(AppendItem(loaded, list, item, f), f)

Replaces(list, at, item) ==
    /\ \/ item.tag = loaded[list][at].item.tag
       \/ ~Taken(loaded, list, item.tag, {at})
    /\ Save(ReplaceItem(loaded, list, at, item), loaded[list][at].file)

Removes(list, at) ==
    /\ ~Referenced(loaded, list, loaded[list][at].item.tag)
    /\ Save(RemoveItem(loaded, list, at), loaded[list][at].file)

SetsRouting(refs) ==
    /\ Loaded(loaded) # {}
    /\ Save(SetRouting(loaded, refs), RoutingTarget(loaded))

Creates(f) ==
    /\ loaded.roots[f] = NoFile
    /\ Save(AddFile(loaded, f), f)

Deletes(f) ==
    /\ loaded.roots[f] # NoFile
    /\ ~HoldsSections(loaded, f)
    /\ Save(RemoveFile(loaded, f), f)

Operation ==
    \/ \E list \in Lists, item \in Stored, f \in File : Appends(list, item, f)
    \/ \E list \in Lists : \E at \in DOMAIN loaded[list] : \E item \in Stored :
          Replaces(list, at, item)
    \/ \E list \in Lists : \E at \in DOMAIN loaded[list] : Removes(list, at)
    \/ \E refs \in RoutingRefs : SetsRouting(refs)
    \/ \E f \in File : Creates(f)
    \/ \E f \in File : Deletes(f)

LEMMA ItemFacts ==
    /\ Item \subseteq Stored /\ \A item \in Item : item.tag \in Typed
    /\ Typed \subseteq Tag
<1>1. ASSUME NEW t \in Typed PROVE t \in Tag
    <2>1. PICK n \in Names : t = <<n>>
        BY DEF Typed
    <2>2. <<n>> \in Seq(Names \union Nat) /\ <<n>> # <<>>
        OBVIOUS
    <2> QED
        BY <2>1, <2>2 DEF Tag
<1>2. \A item \in Item : item \in Stored /\ item.tag \in Typed
    BY <1>1 DEF Item, Stored
<1> QED
    BY <1>1, <1>2

LEMMA Retagged ==
    ASSUME NEW item \in Stored, NEW tag \in Tag
    PROVE  /\ [item EXCEPT !.tag = tag] \in Stored
           /\ [item EXCEPT !.tag = tag].tag = tag
BY DEF Stored

LEMMA Rebodied ==
    ASSUME NEW item \in Stored, NEW b \in {0, 1}
    PROVE  /\ [item EXCEPT !.body = b] \in Stored
           /\ [item EXCEPT !.body = b].tag = item.tag
BY DEF Stored

LEMMA StoredTag ==
    ASSUME NEW item \in Stored
    PROVE  item.tag \in Tag
BY DEF Stored

(* Where the dialog points, when it is confirmed.                          *)
LEMMA ConfirmedIs ==
    ASSUME IInv, NEW op, Confirmed(op)
    PROVE  /\ loaded # Unloaded /\ Good(loaded) /\ dialog.list \in Lists
           /\ dialog.at \in DOMAIN loaded[dialog.list]
           /\ op \in DialogOps[dialog.list]
           /\ Target = loaded[dialog.list][dialog.at]
           /\ Target.item \in Stored /\ Target.file \in File
           /\ loaded.roots[Target.file] \in Root
<1>1. loaded # Unloaded /\ Good(loaded)
    BY DEF IInv, Confirmed, Ready
<1>2. dialog.list \in Lists /\ dialog.at \in DOMAIN loaded[dialog.list]
      /\ op \in DialogOps[dialog.list]
    BY DEF IInv, DialogSound, Confirmed
<1> QED
    BY <1>1, <1>2, EntryHas DEF Target

(* Every confirmed dialog is such an operation.                            *)
LEMMA DialogOperations ==
    ASSUME IInv, UseDialog
    PROVE  \/ UNCHANGED <<disk, loaded, synced>>
           \/ loaded # Unloaded /\ Good(loaded) /\ Operation
<1>1. ASSUME loaded # Unloaded,
             \E list \in Lists : \E at \in DOMAIN loaded[list] :
                 \E op \in DialogOps[list] : Open(list, at, op)
      PROVE  UNCHANGED <<disk, loaded, synced>>
    BY <1>1 DEF Open
<1>2. ASSUME Cancel PROVE UNCHANGED <<disk, loaded, synced>>
    BY <1>2 DEF Cancel
<1>3. ASSUME NEW item \in Item, SaveEntry(item) PROVE loaded # Unloaded /\ Good(loaded) /\ Operation
    <2>1. Confirmed("save")
        BY <1>3 DEF SaveEntry
    <2>2. Replaces(dialog.list, dialog.at, item)
        BY <1>3 DEF SaveEntry, Replaces, Target
    <2> QED
        BY <2>1, <2>2, ConfirmedIs, ItemFacts DEF Operation
<1>4. ASSUME Delete PROVE loaded # Unloaded /\ Good(loaded) /\ Operation
    <2>1. Confirmed("delete")
        BY <1>4 DEF Delete
    <2>2. Removes(dialog.list, dialog.at)
        BY <1>4 DEF Delete, Removes, Target
    <2> QED
        BY <2>1, <2>2, ConfirmedIs DEF Operation
<1>5. ASSUME NEW tag \in Typed, Rename(tag) PROVE loaded # Unloaded /\ Good(loaded) /\ Operation
    <2>1. Confirmed("rename")
        BY <1>5 DEF Rename
    <2>2. dialog.list = "out"
        BY <2>1, ConfirmedIs DEF DialogOps, Lists
    <2> DEFINE item == [Target.item EXCEPT !.tag = tag]
    <2>3. item \in Stored /\ item.tag = tag
        BY <2>1, ConfirmedIs, ItemFacts, Retagged
    <2>4. /\ ~Taken(loaded, "out", tag, {dialog.at})
          /\ Save(ReplaceItem(loaded, "out", dialog.at, item), Target.file)
        BY <1>5 DEF Rename
    <2> HIDE DEF item
    <2>5. Replaces("out", dialog.at, item)
        BY <2>2, <2>3, <2>4 DEF Replaces, Target
    <2> QED
        BY <2>1, <2>2, <2>3, <2>5, ConfirmedIs DEF Operation
<1>6. ASSUME Duplicate PROVE loaded # Unloaded /\ Good(loaded) /\ Operation
    <2>1. Confirmed("duplicate")
        BY <1>6 DEF Duplicate
    <2> DEFINE tag == CopyTag(loaded, dialog.list, Target.item.tag)
               item == [Target.item EXCEPT !.tag = tag]
    <2>2. Save(AppendItem(loaded, dialog.list, item, Target.file), Target.file)
        BY <1>6 DEF Duplicate
    <2>3. tag \in Tag /\ ~Taken(loaded, dialog.list, tag, {})
        BY <2>1, ConfirmedIs, StoredTag, CopyTagIsFree
    <2> HIDE DEF tag
    <2>4. item \in Stored /\ item.tag = tag
        BY <2>1, <2>3, ConfirmedIs, Retagged
    <2> HIDE DEF item
    <2>5. Appends(dialog.list, item, Target.file)
        BY <2>1, <2>2, <2>3, <2>4, ConfirmedIs DEF Appends
    <2> QED
        BY <2>1, <2>4, <2>5, ConfirmedIs DEF Operation
<1>7. ASSUME NEW op, NEW present \in {0, 1}, SetClient(op, present),
             \A list \in Lists : op \in DialogOps[list] => list = "in"
      PROVE  loaded # Unloaded /\ Good(loaded) /\ Operation
    <2>1. Confirmed(op)
        BY <1>7 DEF SetClient
    <2>2. dialog.list = "in"
        BY <1>7, <2>1, ConfirmedIs
    <2> DEFINE item == [Target.item EXCEPT !.body = present]
    <2>3. item \in Stored /\ item.tag = Target.item.tag
        BY <2>1, ConfirmedIs, Rebodied
    <2>4. Save(ReplaceItem(loaded, "in", dialog.at, item), Target.file)
        BY <1>7 DEF SetClient
    <2> HIDE DEF item
    <2>5. Replaces("in", dialog.at, item)
        BY <2>2, <2>3, <2>4 DEF Replaces, Target
    <2> QED
        BY <2>1, <2>2, <2>3, <2>5, ConfirmedIs DEF Operation
<1>8. ASSUME AddClient PROVE loaded # Unloaded /\ Good(loaded) /\ Operation
    <2>1. \A list \in Lists : "add_client" \in DialogOps[list] => list = "in"
        BY DEF DialogOps, Lists
    <2> QED
        BY <1>7, <1>8, <2>1 DEF AddClient
<1>9. ASSUME DropClient PROVE loaded # Unloaded /\ Good(loaded) /\ Operation
    <2>1. \A list \in Lists : "drop_client" \in DialogOps[list] => list = "in"
        BY DEF DialogOps, Lists
    <2> QED
        BY <1>7, <1>9, <2>1 DEF DropClient
<1> QED
    BY <1>1, <1>2, <1>3, <1>4, <1>5, <1>6, <1>8, <1>9 DEF UseDialog

(* So is every operation that names no position.                           *)
LEMMA EditOperations ==
    ASSUME IInv, Edit
    PROVE  loaded # Unloaded /\ Good(loaded) /\ Operation
<1>1. Ready
    BY DEF Edit, Add, SaveRouting, WarpAdd, WarpReplace, WarpRemove, CreateFile, DeleteFile
<1>2. loaded # Unloaded /\ Good(loaded) /\ Loaded(loaded) # {}
    BY <1>1 DEF IInv, Ready
<1>3. "out" \in Lists
    BY DEF Lists
<1>4. ASSUME NEW list \in Lists, NEW item \in Item, Add(list, item) PROVE Operation
    <2>1. PrimaryFile(loaded) \in File /\ loaded.roots[PrimaryFile(loaded)] \in Root
        BY <1>2, PrimaryIs, LoadedIs
    <2>2. Appends(list, item, PrimaryFile(loaded))
        BY <1>4, <2>1 DEF Add, Appends
    <2> QED
        BY <2>1, <2>2, ItemFacts DEF Operation
<1>5. ASSUME NEW refs \in RoutingRefs, SaveRouting(refs) PROVE Operation
    BY <1>2, <1>5 DEF SaveRouting, SetsRouting, Operation
<1>6. ASSUME NEW item \in Item, WarpAdd(item) PROVE Operation
    <2>1. OutboundTarget(loaded) \in File /\ loaded.roots[OutboundTarget(loaded)] \in Root
        BY <1>2, OutboundTargetIs, LoadedIs
    <2>2. Appends("out", item, OutboundTarget(loaded))
        BY <1>6, <2>1 DEF WarpAdd, Appends
    <2> QED
        BY <1>3, <2>1, <2>2, ItemFacts DEF Operation
<1>7. ASSUME NEW item \in Item, WarpReplace(item) PROVE Operation
    <2> DEFINE at == IndexByTag(loaded, item.tag)
    <2>1. /\ at # 0 /\ ~Taken(loaded, "out", item.tag, {at})
          /\ Save(ReplaceItem(loaded, "out", at, item), loaded.out[at].file)
        BY <1>7 DEF WarpReplace
    <2>2. at \in DOMAIN loaded.out
        BY <1>2, <2>1, IndexIs
    <2> HIDE DEF at
    <2>3. Replaces("out", at, item)
        BY <2>1 DEF Replaces
    <2> QED
        BY <1>3, <2>2, <2>3, ItemFacts DEF Operation
<1>8. ASSUME NEW tag \in Typed, WarpRemove(tag) PROVE Operation
    <2> DEFINE at == IndexByTag(loaded, tag)
    <2>1. /\ at # 0 /\ ~Referenced(loaded, "out", tag)
          /\ Save(RemoveItem(loaded, "out", at), loaded.out[at].file)
        BY <1>8 DEF WarpRemove
    <2>2. at \in DOMAIN loaded.out /\ Same("out", loaded.out[at].item.tag, tag)
        BY <1>2, <2>1, IndexIs
    <2> HIDE DEF at
    <2>3. Fold(loaded.out[at].item.tag) = Fold(tag)
        BY <2>2 DEF Same
    <2>4. ~Referenced(loaded, "out", loaded.out[at].item.tag)
        BY <2>1, <2>3 DEF Referenced
    <2>5. Removes("out", at)
        BY <2>1, <2>4 DEF Removes
    <2> QED
        BY <1>3, <2>2, <2>5 DEF Operation
<1>9. ASSUME NEW f \in File, CreateFile(f) PROVE Operation
    BY <1>9 DEF CreateFile, Creates, Operation
<1>10. ASSUME NEW f \in File, DeleteFile(f) PROVE Operation
    <2>1. loaded.roots[f] # NoFile
        BY <1>10 DEF DeleteFile, Loaded
    <2> QED
        BY <1>10, <2>1 DEF DeleteFile, Deletes, Operation
<1> QED
    BY <1>2, <1>4, <1>5, <1>6, <1>7, <1>8, <1>9, <1>10 DEF Edit

LEMMA FileType ==
    ASSUME NEW files, files \in [File -> {NoFile, Broken} \union Root],
           NEW f \in File, NEW root \in {NoFile, Broken} \union Root
    PROVE  [files EXCEPT ![f] = root] \in [File -> {NoFile, Broken} \union Root]
OBVIOUS

(* One file is written, and what is installed is sound again.              *)
LEMMA OperationSaves ==
    ASSUME Good(loaded), Operation
    PROVE  /\ Good(loaded')
           /\ synced' = synced
           /\ \E f \in File :
                /\ loaded'.roots = [loaded.roots EXCEPT ![f] = loaded'.roots[f]]
                /\ loaded'.roots[f] \in {NoFile} \union Root
                /\ disk' = [disk EXCEPT ![f] = loaded'.roots[f]]
<1>1. ASSUME NEW list \in Lists, NEW f \in File, NEW s, NEW new,
             EditedTo(loaded, new, list, f, s), Save(new, f)
      PROVE  /\ Good(loaded') /\ synced' = synced
             /\ loaded'.roots = [loaded.roots EXCEPT ![f] = loaded'.roots[f]]
             /\ loaded'.roots[f] \in {NoFile} \union Root
             /\ disk' = [disk EXCEPT ![f] = loaded'.roots[f]]
    BY <1>1 DEF EditedTo, Save
<1>2. ASSUME NEW f \in File, NEW new, SectionsTo(loaded, new, f), Save(new, f)
      PROVE  /\ Good(loaded') /\ synced' = synced
             /\ loaded'.roots = [loaded.roots EXCEPT ![f] = loaded'.roots[f]]
             /\ loaded'.roots[f] \in {NoFile} \union Root
             /\ disk' = [disk EXCEPT ![f] = loaded'.roots[f]]
    BY <1>2 DEF SectionsTo, Save
<1>3. CASE \E list \in Lists, item \in Stored, f \in File : Appends(list, item, f)
    <2>1. PICK list \in Lists, item \in Stored, f \in File : Appends(list, item, f)
        BY <1>3
    <2>2. loaded.roots[f] \in Root /\ Save(AppendItem(loaded, list, item, f), f)
        BY <2>1 DEF Appends
    <2>3. EditedTo(loaded, AppendItem(loaded, list, item, f), list, f,
                   Append(loaded[list], [file |-> f, item |-> item]))
        BY <2>2, AppendIsGood
    <2> QED
        BY <1>1, <2>2, <2>3
<1>4. CASE \E list \in Lists : \E at \in DOMAIN loaded[list] : \E item \in Stored :
              Replaces(list, at, item)
    <2>1. PICK list \in Lists : \E at \in DOMAIN loaded[list] : \E item \in Stored :
              Replaces(list, at, item)
        BY <1>4
    <2>2. PICK at \in DOMAIN loaded[list] : \E item \in Stored : Replaces(list, at, item)
        BY <2>1
    <2>3. PICK item \in Stored : Replaces(list, at, item)
        BY <2>2
    <2>4. Save(ReplaceItem(loaded, list, at, item), loaded[list][at].file)
        BY <2>3 DEF Replaces
    <2>5. loaded[list][at].file \in File
        BY EntryHas
    <2>6. EditedTo(loaded, ReplaceItem(loaded, list, at, item), list, loaded[list][at].file,
                   [loaded[list] EXCEPT ![at] = [loaded[list][at] EXCEPT !.item = item]])
        BY ReplaceIsGood
    <2> QED
        BY <1>1, <2>4, <2>5, <2>6
<1>5. CASE \E list \in Lists : \E at \in DOMAIN loaded[list] : Removes(list, at)
    <2>1. PICK list \in Lists : \E at \in DOMAIN loaded[list] : Removes(list, at)
        BY <1>5
    <2>2. PICK at \in DOMAIN loaded[list] : Removes(list, at)
        BY <2>1
    <2>3. Save(RemoveItem(loaded, list, at), loaded[list][at].file)
        BY <2>2 DEF Removes
    <2>4. loaded[list][at].file \in File
        BY EntryHas
    <2> QED
        BY <1>1, <2>3, <2>4, RemoveIsGood
<1>6. CASE \E refs \in RoutingRefs : SetsRouting(refs)
    <2>1. PICK refs \in RoutingRefs : SetsRouting(refs)
        BY <1>6
    <2>2. Loaded(loaded) # {} /\ Save(SetRouting(loaded, refs), RoutingTarget(loaded))
        BY <2>1 DEF SetsRouting
    <2>3. RoutingTarget(loaded) \in File
        BY <2>2, RoutingTargetIs, LoadedIs
    <2> QED
        BY <1>2, <2>2, <2>3, SetRoutingIsGood
<1>7. CASE \E f \in File : Creates(f)
    <2>1. PICK f \in File : Creates(f)
        BY <1>7
    <2>2. loaded.roots[f] = NoFile /\ Save(AddFile(loaded, f), f)
        BY <2>1 DEF Creates
    <2> QED
        BY <1>2, <2>2, AddFileIsGood
<1>8. CASE \E f \in File : Deletes(f)
    <2>1. PICK f \in File : Deletes(f)
        BY <1>8
    <2>2. /\ loaded.roots[f] # NoFile /\ ~HoldsSections(loaded, f)
          /\ Save(RemoveFile(loaded, f), f)
        BY <2>1 DEF Deletes
    <2> QED
        BY <1>2, <2>2, RemoveFileIsGood
<1> QED
    BY <1>3, <1>4, <1>5, <1>6, <1>7, <1>8 DEF Operation

LEMMA InitIInv == Init => IInv
<1> SUFFICES ASSUME Init PROVE IInv
    OBVIOUS
<1>1. disk \in [File -> {NoFile, Broken} \union Root]
    BY ConfDirAssumption DEF Init
<1>2. loaded = Parse(disk) /\ dialog = NoDialog
    BY DEF Init
<1>3. loaded = Unloaded \/ (Good(loaded) /\ loaded.roots = disk)
    BY <1>1, <1>2, DiscoveredIsGood
<1> QED
    BY <1>1, <1>2, <1>3 DEF IInv, DialogSound, LoadedIsDisk

LEMMA DialogStays == IInv /\ [Next]_vars => DialogSound'
<1> SUFFICES ASSUME IInv, [Next]_vars PROVE DialogSound'
    OBVIOUS
<1>1. DialogSound
    BY DEF IInv
<1>2. ASSUME dialog' = dialog PROVE DialogSound'
    BY <1>1, <1>2 DEF DialogSound
<1>3. ASSUME dialog' = NoDialog PROVE DialogSound'
    BY <1>3 DEF DialogSound
<1>4. ASSUME NEW list \in Lists, NEW at, NEW op \in DialogOps[list], Open(list, at, op)
      PROVE  DialogSound'
    <2>1. dialog'.list = list /\ dialog'.op = op
        BY <1>4 DEF Open
    <2> QED
        BY <2>1 DEF DialogSound
<1>5. ASSUME UseDialog PROVE DialogSound'
    BY <1>3, <1>4, <1>5
    DEF UseDialog, Cancel, SaveEntry, Delete, Rename, Duplicate, AddClient, DropClient,
        SetClient, Confirmed
<1>6. ASSUME Edit PROVE DialogSound'
    BY <1>2, <1>6
    DEF Edit, Add, SaveRouting, WarpAdd, WarpReplace, WarpRemove, CreateFile, DeleteFile
<1>7. ASSUME NEW unread, Discover(unread) PROVE DialogSound'
    BY <1>2, <1>7 DEF Discover
<1>8. ASSUME NEW f, NEW root, AdminEdit(f, root) PROVE DialogSound'
    BY <1>2, <1>8 DEF AdminEdit
<1>9. ASSUME UNCHANGED vars PROVE DialogSound'
    BY <1>2, <1>9 DEF vars
<1> QED
    BY <1>5, <1>6, <1>7, <1>8, <1>9 DEF Next

LEMMA StepIInv == IInv /\ [Next]_vars => IInv'
<1> SUFFICES ASSUME IInv, [Next]_vars PROVE IInv'
    OBVIOUS
<1> DEFINE Typed0(files) == files \in [File -> {NoFile, Broken} \union Root]
<1>1. Typed0(disk) /\ (loaded = Unloaded \/ Good(loaded)) /\ LoadedIsDisk
    BY DEF IInv
<1>2. DialogSound'
    BY DialogStays
<1>3. ASSUME UNCHANGED <<disk, loaded, synced>> PROVE IInv'
    BY <1>1, <1>2, <1>3 DEF IInv, LoadedIsDisk
<1>4. ASSUME loaded # Unloaded, Good(loaded), Operation PROVE IInv'
    <2>1. Good(loaded') /\ synced' = synced
        BY <1>4, OperationSaves
    <2>2. PICK f \in File :
                /\ loaded'.roots = [loaded.roots EXCEPT ![f] = loaded'.roots[f]]
                /\ loaded'.roots[f] \in {NoFile} \union Root
                /\ disk' = [disk EXCEPT ![f] = loaded'.roots[f]]
        BY <1>4, OperationSaves
    <2>3. Typed0(disk')
        BY <1>1, <2>2, FileType
    <2>4. LoadedIsDisk'
        BY <1>1, <1>4, <2>1, <2>2 DEF LoadedIsDisk
    <2> QED
        BY <1>2, <2>1, <2>3, <2>4 DEF IInv
<1>5. ASSUME NEW unread \in SUBSET File, Discover(unread) PROVE IInv'
    <2> DEFINE files == [f \in File |-> IF f \in unread THEN NoFile ELSE disk[f]]
    <2>1. /\ loaded' = Parse(files) /\ disk' = disk
          /\ synced' = \A f \in unread : disk[f] = NoFile
        BY <1>5 DEF Discover
    <2>2. Typed0(files)
        BY <1>1
    <2>3. ASSUME synced' PROVE files = disk
        <3>1. \A f \in unread : disk[f] = NoFile
            BY <2>1, <2>3
        <3>2. \A f \in File : (IF f \in unread THEN NoFile ELSE disk[f]) = disk[f]
            BY <3>1
        <3>3. disk = [f \in File |-> disk[f]]
            BY <1>1
        <3> QED
            BY <3>2, <3>3
    <2> HIDE DEF files
    <2>4. loaded' = Unloaded \/ (Good(loaded') /\ loaded'.roots = files)
        BY <2>1, <2>2, DiscoveredIsGood
    <2>5. LoadedIsDisk'
        BY <2>1, <2>3, <2>4 DEF LoadedIsDisk
    <2> QED
        BY <1>1, <1>2, <2>1, <2>4, <2>5 DEF IInv
<1>6. ASSUME NEW f \in File, NEW root \in OutsideFiles, AdminEdit(f, root) PROVE IInv'
    <2>1. /\ disk' = [disk EXCEPT ![f] = root] /\ loaded' = loaded /\ synced' = FALSE
        BY <1>6 DEF AdminEdit
    <2>2. root \in {NoFile, Broken} \union Root
        BY ConfDirAssumption
    <2>3. Typed0(disk')
        BY <1>1, <2>1, <2>2, FileType
    <2> QED
        BY <1>1, <1>2, <2>1, <2>3 DEF IInv, LoadedIsDisk
<1>7. ASSUME UNCHANGED vars PROVE IInv'
    BY <1>3, <1>7 DEF vars
<1> QED
    BY <1>3, <1>4, <1>5, <1>6, <1>7, DialogOperations, EditOperations DEF Next

(* In every reachable state the directory is one the parser reads, the     *)
(* loaded configuration agrees with itself, an open dialog is one the page *)
(* offers, and the copy is the directory while nobody else writes.         *)
THEOREM Inductive == Spec => []IInv
BY InitIInv, StepIInv, PTL DEF Spec

(* The copy an operation leaves is what a discovery would read, as long as *)
(* nobody else writes: every worker installs the clone it wrote one file   *)
(* of.                                                                     *)
THEOREM CopyIsDisk == Spec => []LoadedIsDisk
<1>1. IInv => LoadedIsDisk
    BY DEF IInv
<1> QED
    BY <1>1, Inductive, PTL

(* The merged lists are the files' arrays, in their order, and the winning *)
(* section is the last file's: the position arithmetic of locate_inbound   *)
(* and of the replace and remove of both lists never misses.               *)
THEOREM ListsMirrorRoots == Spec => []MirrorsRoots
<1>1. IInv => MirrorsRoots
    BY DEF IInv, Good, MirrorsRoots
<1> QED
    BY <1>1, Inductive, PTL

-----------------------------------------------------------------------------
(* Tags.                                                                   *)

(* Both the directory and its copy change only by an operation.            *)
LEMMA EditedBy ==
    ASSUME IInv, [Next]_vars, Edited
    PROVE  loaded # Unloaded /\ Good(loaded) /\ Operation
<1>1. disk' # disk /\ loaded' # loaded
    BY DEF Edited
<1>2. ~(UNCHANGED vars) /\ ~(UNCHANGED <<disk, loaded, synced>>)
    BY <1>1 DEF vars
<1>3. \A unread : ~Discover(unread)
    BY <1>1 DEF Discover
<1>4. \A f, root : ~AdminEdit(f, root)
    BY <1>1 DEF AdminEdit
<1> QED
    BY <1>2, <1>3, <1>4, DialogOperations, EditOperations DEF Next

Distinct(list, s) ==
    \A i, j \in DOMAIN s : Same(list, s[i].item.tag, s[j].item.tag) => i = j

LEMMA DistinctAppend ==
    ASSUME NEW list, NEW s \in Seq(Entry), NEW e, Distinct(list, s),
           \A j \in DOMAIN s : ~Same(list, s[j].item.tag, e.item.tag)
    PROVE  Distinct(list, Append(s, e))
<1> DEFINE t == Append(s, e)
<1>1. /\ Len(s) \in Nat /\ DOMAIN s = 1 .. Len(s) /\ DOMAIN t = 1 .. Len(s) + 1
      /\ t[Len(s) + 1] = e /\ \A i \in 1 .. Len(s) : t[i] = s[i]
    OBVIOUS
<1> HIDE DEF t
<1>2. ASSUME NEW i \in DOMAIN t, NEW j \in DOMAIN t,
             Same(list, t[i].item.tag, t[j].item.tag)
      PROVE  i = j
    <2>1. CASE i \in DOMAIN s /\ j \in DOMAIN s
        BY <1>1, <1>2, <2>1 DEF Distinct
    <2>2. CASE i \in DOMAIN s /\ j = Len(s) + 1
        BY <1>1, <1>2, <2>2
    <2>3. CASE i = Len(s) + 1 /\ j \in DOMAIN s
        <3>1. Same(list, s[j].item.tag, e.item.tag)
            BY <1>1, <1>2, <2>3 DEF Same
        <3> QED
            BY <2>3, <3>1
    <2>4. CASE i = Len(s) + 1 /\ j = Len(s) + 1
        BY <2>4
    <2> QED
        BY <1>1, <2>1, <2>2, <2>3, <2>4
<1> QED
    BY <1>2 DEF Distinct, t

LEMMA DistinctReplace ==
    ASSUME NEW list, NEW s \in Seq(Entry), NEW at \in DOMAIN s, NEW e, Distinct(list, s),
           \/ e.item.tag = s[at].item.tag
           \/ \A j \in DOMAIN s \ {at} : ~Same(list, s[j].item.tag, e.item.tag)
    PROVE  Distinct(list, [s EXCEPT ![at] = e])
<1> DEFINE t == [s EXCEPT ![at] = e]
<1>1. DOMAIN t = DOMAIN s /\ \A i \in DOMAIN s : t[i] = IF i = at THEN e ELSE s[i]
    OBVIOUS
<1> HIDE DEF t
<1>2. CASE e.item.tag = s[at].item.tag
    BY <1>1, <1>2 DEF Distinct, t
<1>3. CASE \A j \in DOMAIN s \ {at} : ~Same(list, s[j].item.tag, e.item.tag)
    <2>1. ASSUME NEW i \in DOMAIN t, NEW j \in DOMAIN t,
                 Same(list, t[i].item.tag, t[j].item.tag)
          PROVE  i = j
        <3>1. CASE i # at /\ j # at
            BY <1>1, <2>1, <3>1 DEF Distinct
        <3>2. CASE i # at /\ j = at
            BY <1>1, <1>3, <2>1, <3>2
        <3>3. CASE i = at /\ j # at
            <4>1. Same(list, s[j].item.tag, e.item.tag)
                BY <1>1, <2>1, <3>3 DEF Same
            <4> QED
                BY <1>1, <1>3, <3>3, <4>1
        <3>4. CASE i = at /\ j = at
            BY <3>4
        <3> QED
            BY <3>1, <3>2, <3>3, <3>4
    <2> QED
        BY <2>1 DEF Distinct, t
<1> QED
    BY <1>2, <1>3

LEMMA DistinctRemove ==
    ASSUME NEW list, NEW s \in Seq(Entry), NEW at \in 1 .. Len(s), Distinct(list, s)
    PROVE  Distinct(list, RemoveAt(s, at))
<1> DEFINE t == RemoveAt(s, at)
           From(i) == IF i < at THEN i ELSE i + 1
<1>1. Len(s) \in Nat /\ DOMAIN s = 1 .. Len(s) /\ at \in Nat
    OBVIOUS
<1>2. /\ DOMAIN t = 1 .. Len(s) - 1
      /\ \A i \in 1 .. Len(s) - 1 : t[i] = IF i < at THEN s[i] ELSE s[i + 1]
    <2>1. t \in Seq(Entry)
        BY RemoveAtIs
    <2>2. /\ Len(t) = Len(s) - 1
          /\ \A i \in 1 .. Len(s) - 1 : t[i] = IF i < at THEN s[i] ELSE s[i + 1]
        BY RemoveAtIs
    <2> HIDE DEF t
    <2> QED
        BY <2>1, <2>2
<1> HIDE DEF t
<1>3. \A i \in DOMAIN t : From(i) \in DOMAIN s /\ t[i] = s[From(i)]
    BY <1>1, <1>2
<1>4. \A i, j \in DOMAIN t : From(i) = From(j) => i = j
    BY <1>1, <1>2
<1> HIDE DEF From
<1>5. Distinct(list, t)
    BY <1>3, <1>4 DEF Distinct
<1> QED
    BY <1>5 DEF t

LEMMA OperationKeepsTags ==
    ASSUME Good(loaded), Operation, NEW l \in Lists, Distinct(l, loaded[l])
    PROVE  Distinct(l, loaded'[l])
<1>1. ASSUME NEW list \in Lists, NEW f \in File, NEW s, NEW new,
             EditedTo(loaded, new, list, f, s), Save(new, f),
             Distinct(list, loaded[list]) => Distinct(list, s)
      PROVE  Distinct(l, loaded'[l])
    <2>1. loaded' = new /\ new[list] = s /\ (l # list => new[l] = loaded[l])
        BY <1>1 DEF EditedTo, Save
    <2> QED
        BY <1>1, <2>1
<1>2. ASSUME NEW f \in File, NEW new, SectionsTo(loaded, new, f), Save(new, f)
      PROVE  Distinct(l, loaded'[l])
    BY <1>2 DEF SectionsTo, Save
<1>3. \A list \in Lists : loaded[list] \in Seq(Entry)
    BY GoodHas
<1>4. CASE \E list \in Lists, item \in Stored, f \in File : Appends(list, item, f)
    <2>1. PICK list \in Lists, item \in Stored, f \in File : Appends(list, item, f)
        BY <1>4
    <2>2. /\ loaded.roots[f] \in Root /\ Save(AppendItem(loaded, list, item, f), f)
          /\ ~Taken(loaded, list, item.tag, {})
        BY <2>1 DEF Appends
    <2> DEFINE e == [file |-> f, item |-> item]
    <2>3. e.item.tag = item.tag
        OBVIOUS
    <2>4. \A j \in DOMAIN loaded[list] : ~Same(list, loaded[list][j].item.tag, e.item.tag)
        BY <2>2, <2>3 DEF Taken
    <2>5. EditedTo(loaded, AppendItem(loaded, list, item, f), list, f, Append(loaded[list], e))
        BY <2>2, AppendIsGood
    <2> HIDE DEF e
    <2>6. Distinct(list, loaded[list]) => Distinct(list, Append(loaded[list], e))
        BY <1>3, <2>4, DistinctAppend
    <2> QED
        BY <1>1, <2>2, <2>5, <2>6
<1>5. CASE \E list \in Lists : \E at \in DOMAIN loaded[list] : \E item \in Stored :
              Replaces(list, at, item)
    <2>1. PICK list \in Lists : \E at \in DOMAIN loaded[list] : \E item \in Stored :
              Replaces(list, at, item)
        BY <1>5
    <2>2. PICK at \in DOMAIN loaded[list] : \E item \in Stored : Replaces(list, at, item)
        BY <2>1
    <2>3. PICK item \in Stored : Replaces(list, at, item)
        BY <2>2
    <2>4. /\ Save(ReplaceItem(loaded, list, at, item), loaded[list][at].file)
          /\ \/ item.tag = loaded[list][at].item.tag
             \/ ~Taken(loaded, list, item.tag, {at})
        BY <2>3 DEF Replaces
    <2>5. loaded[list][at].file \in File /\ loaded[list][at] \in Entry
        BY EntryHas
    <2> DEFINE e == [loaded[list][at] EXCEPT !.item = item]
    <2>6. e.item.tag = item.tag
        BY <2>5 DEF Entry
    <2>7. EditedTo(loaded, ReplaceItem(loaded, list, at, item), list,
                   loaded[list][at].file, [loaded[list] EXCEPT ![at] = e])
        BY ReplaceIsGood
    <2> HIDE DEF e
    <2>8. \/ e.item.tag = loaded[list][at].item.tag
          \/ \A j \in DOMAIN loaded[list] \ {at} :
                ~Same(list, loaded[list][j].item.tag, e.item.tag)
        BY <2>4, <2>6 DEF Taken
    <2>9. Distinct(list, loaded[list]) => Distinct(list, [loaded[list] EXCEPT ![at] = e])
        BY <1>3, <2>8, DistinctReplace
    <2> QED
        BY <1>1, <2>4, <2>5, <2>7, <2>9
<1>6. CASE \E list \in Lists : \E at \in DOMAIN loaded[list] : Removes(list, at)
    <2>1. PICK list \in Lists : \E at \in DOMAIN loaded[list] : Removes(list, at)
        BY <1>6
    <2>2. PICK at \in DOMAIN loaded[list] : Removes(list, at)
        BY <2>1
    <2>3. Save(RemoveItem(loaded, list, at), loaded[list][at].file)
        BY <2>2 DEF Removes
    <2>4. loaded[list][at].file \in File /\ at \in 1 .. Len(loaded[list])
        BY EntryHas
    <2>5. Distinct(list, loaded[list]) => Distinct(list, RemoveAt(loaded[list], at))
        BY <1>3, <2>4, DistinctRemove
    <2> QED
        BY <1>1, <2>3, <2>4, <2>5, RemoveIsGood
<1>7. CASE \E refs \in RoutingRefs : SetsRouting(refs)
    <2>1. PICK refs \in RoutingRefs : SetsRouting(refs)
        BY <1>7
    <2>2. Loaded(loaded) # {} /\ Save(SetRouting(loaded, refs), RoutingTarget(loaded))
        BY <2>1 DEF SetsRouting
    <2>3. RoutingTarget(loaded) \in File
        BY <2>2, RoutingTargetIs, LoadedIs
    <2> QED
        BY <1>2, <2>2, <2>3, SetRoutingIsGood
<1>8. CASE \E f \in File : Creates(f)
    <2>1. PICK f \in File : Creates(f)
        BY <1>8
    <2>2. loaded.roots[f] = NoFile /\ Save(AddFile(loaded, f), f)
        BY <2>1 DEF Creates
    <2> QED
        BY <1>2, <2>2, AddFileIsGood
<1>9. CASE \E f \in File : Deletes(f)
    <2>1. PICK f \in File : Deletes(f)
        BY <1>9
    <2>2. /\ loaded.roots[f] # NoFile /\ ~HoldsSections(loaded, f)
          /\ Save(RemoveFile(loaded, f), f)
        BY <2>1 DEF Deletes
    <2> QED
        BY <1>2, <2>2, RemoveFileIsGood
<1> QED
    BY <1>4, <1>5, <1>6, <1>7, <1>8, <1>9 DEF Operation

(* No operation makes a tag ambiguous that was not: what is added, copied, *)
(* renamed or replaced is compared with the entries of every file.         *)
THEOREM TagsKept == Spec => TagsStayUnique
<1>1. IInv /\ [Next]_vars =>
        [Edited => \A list \in Lists : Unique(loaded, list) => Unique(loaded', list)]_vars
    <2> SUFFICES ASSUME IInv, [Next]_vars, Edited, NEW list \in Lists, Unique(loaded, list)
                 PROVE  Unique(loaded', list)
        OBVIOUS
    <2>1. Distinct(list, loaded[list])
        BY DEF Unique, Distinct
    <2>2. Distinct(list, loaded'[list])
        BY <2>1, EditedBy, OperationKeepsTags
    <2> QED
        BY <2>2 DEF Unique, Distinct
<1> QED
    BY <1>1, Inductive, PTL DEF Spec, TagsStayUnique

-----------------------------------------------------------------------------
(* What is on the server.                                                  *)

(* As long as nobody else writes, an operation's two copies are the        *)
(* directory before it and after it.                                       *)
LEMMA SyncedRoots ==
    ASSUME IInv, [Next]_vars, Edited, synced
    PROVE  disk = loaded.roots /\ disk' = loaded'.roots
<1>1. loaded # Unloaded /\ Good(loaded) /\ Operation
    BY EditedBy
<1>2. disk = loaded.roots
    BY <1>1 DEF IInv, LoadedIsDisk
<1> QED
    BY <1>1, <1>2, OperationSaves

LEMMA MergedSame ==
    ASSUME NEW roots, NEW others, NEW list,
           \A f \in File : Items(roots[f], list) = Items(others[f], list)
    PROVE  Merged(roots, list) = Merged(others, list)
<1>1. \A f \in File : Part(roots, list, f) = Part(others, list, f)
    BY DEF Part
<1>2. Merged(roots, list) = FlattenSeq([f \in File |-> Part(roots, list, f)])
    BY DEF Merged, Part
<1>3. Merged(others, list) = FlattenSeq([f \in File |-> Part(others, list, f)])
    BY DEF Merged, Part
<1>4. [f \in File |-> Part(roots, list, f)] = [f \in File |-> Part(others, list, f)]
    BY <1>1
<1> QED
    BY <1>2, <1>3, <1>4

(* The entries of a list, wherever they stand in it.                       *)
Holds(s) == {s[j].item : j \in DOMAIN s}

(* Two lists of the same arrays hold the same entries.                     *)
LEMMA MirrorsHold ==
    ASSUME NEW roots, NEW list, NEW s \in Seq(Entry), NEW t \in Seq(Entry),
           \A f \in File : Mirrors(s, f, Items(roots[f], list)),
           \A f \in File : Mirrors(t, f, Items(roots[f], list))
    PROVE  Holds(s) \subseteq Holds(t)
<1> SUFFICES ASSUME NEW j \in DOMAIN s PROVE s[j].item \in Holds(t)
    BY DEF Holds
<1> DEFINE f == s[j].file
           a == Items(roots[f], list)
           r == Place(s, f, j)
<1>1. /\ Len(s) \in Nat /\ DOMAIN s = 1 .. Len(s) /\ j \in 1 .. Len(s)
      /\ Len(t) \in Nat /\ DOMAIN t = 1 .. Len(t) /\ s[j] \in Entry
    OBVIOUS
<1>2. f \in File
    BY <1>1 DEF Entry
<1>3. Mirrors(s, f, a) /\ Mirrors(t, f, a)
    BY <1>2
<1>4. s[j].file = f
    OBVIOUS
<1> HIDE DEF f, a
<1>5. /\ Len(a) = Place(s, f, Len(s)) /\ Len(a) = Place(t, f, Len(t))
      /\ s[j].item = a[r]
      /\ \A k \in DOMAIN t : t[k].file = f => t[k].item = a[Place(t, f, k)]
    BY <1>1, <1>3, <1>4 DEF Mirrors
<1>6. r \in 1 .. Place(s, f, Len(s))
    BY <1>1, <1>4, PlaceInside
<1>7. r \in 1 .. Place(t, f, Len(t))
    BY <1>5, <1>6
<1> HIDE DEF r
<1>8. PICK k \in 1 .. Len(t) : t[k].file = f /\ Place(t, f, k) = r
    BY <1>1, <1>7, PlaceTaken
<1>9. t[k].item = s[j].item /\ k \in DOMAIN t
    BY <1>1, <1>5, <1>8
<1> QED
    BY <1>9 DEF Holds

(* The page lists what the server has.                                     *)
LEMMA HoldsSame ==
    ASSUME NEW cfg, Good(cfg), NEW list \in Lists
    PROVE  Holds(Merged(cfg.roots, list)) = Holds(cfg[list])
<1>1. cfg.roots \in Files /\ cfg[list] \in Seq(Entry)
    BY GoodHas
<1>2. /\ Merged(cfg.roots, list) \in Seq(Entry)
      /\ \A f \in File : Mirrors(Merged(cfg.roots, list), f, Items(cfg.roots[f], list))
    BY <1>1, MergedMirrors
<1>3. \A f \in File : Mirrors(cfg[list], f, Items(cfg.roots[f], list))
    BY DEF Good
<1> DEFINE m == Merged(cfg.roots, list)
           s == cfg[list]
           roots == cfg.roots
<1>4. m \in Seq(Entry) /\ \A f \in File : Mirrors(m, f, Items(roots[f], list))
    BY <1>2
<1>5. s \in Seq(Entry) /\ \A f \in File : Mirrors(s, f, Items(roots[f], list))
    BY <1>1, <1>3
<1> HIDE DEF m, s, roots
<1>6. Holds(m) \subseteq Holds(s)
    BY <1>4, <1>5, MirrorsHold
<1>7. Holds(s) \subseteq Holds(m)
    BY <1>4, <1>5, MirrorsHold
<1> QED
    BY <1>6, <1>7 DEF m, s

LEMMA RefsAreRules ==
    ASSUME NEW cfg, Good(cfg), cfg.routing # NoSection, NEW r \in cfg.routing.refs
    PROVE  r.list \in Lists
<1>1. cfg.routing \in Winning
    BY GoodHas
<1>2. r \in Rule
    BY <1>1 DEF Winning
<1> QED
    BY <1>2 DEF Rule

Dangles(cfg, r) ==
    /\ cfg.routing # NoSection /\ r \in cfg.routing.refs
    /\ \A item \in Holds(cfg[r.list]) : Fold(item.tag) # Fold(r.tag)

LEMMA DanglingIs ==
    ASSUME NEW cfg, Good(cfg), NEW r
    PROVE  r \in Dangling(cfg.roots) <=> Dangles(cfg, r)
<1>1. Winner(cfg.roots) = cfg.routing
    BY DEF Good
<1>2. r \in Dangling(cfg.roots) <=>
        /\ cfg.routing # NoSection /\ r \in cfg.routing.refs
        /\ \A j \in DOMAIN Merged(cfg.roots, r.list) :
              Fold(Merged(cfg.roots, r.list)[j].item.tag) # Fold(r.tag)
    BY <1>1 DEF Dangling
<1>3. (\A j \in DOMAIN Merged(cfg.roots, r.list) :
          Fold(Merged(cfg.roots, r.list)[j].item.tag) # Fold(r.tag))
      <=> \A item \in Holds(Merged(cfg.roots, r.list)) : Fold(item.tag) # Fold(r.tag)
    BY DEF Holds
<1>4. ASSUME cfg.routing # NoSection, r \in cfg.routing.refs
      PROVE  Holds(Merged(cfg.roots, r.list)) = Holds(cfg[r.list])
    BY <1>4, RefsAreRules, HoldsSame
<1> QED
    BY <1>2, <1>3, <1>4 DEF Dangles

(* All but the removed entry is still there.                               *)
LEMMA RemoveHolds ==
    ASSUME NEW s \in Seq(Entry), NEW at \in 1 .. Len(s), NEW j \in DOMAIN s, j # at
    PROVE  s[j].item \in Holds(RemoveAt(s, at))
<1> DEFINE t == RemoveAt(s, at)
<1>1. Len(s) \in Nat /\ DOMAIN s = 1 .. Len(s) /\ at \in Nat /\ j \in 1 .. Len(s)
    OBVIOUS
<1>2. /\ DOMAIN t = 1 .. Len(s) - 1
      /\ \A i \in 1 .. Len(s) - 1 : t[i] = IF i < at THEN s[i] ELSE s[i + 1]
    <2>1. t \in Seq(Entry)
        BY RemoveAtIs
    <2>2. /\ Len(t) = Len(s) - 1
          /\ \A i \in 1 .. Len(s) - 1 : t[i] = IF i < at THEN s[i] ELSE s[i + 1]
        BY RemoveAtIs
    <2> HIDE DEF t
    <2> QED
        BY <2>1, <2>2
<1> HIDE DEF t
<1>3. CASE j < at
    <2>1. j \in DOMAIN t /\ t[j] = s[j]
        BY <1>1, <1>2, <1>3
    <2> QED
        BY <2>1 DEF Holds, t
<1>4. CASE ~(j < at)
    <2>1. j - 1 \in 1 .. Len(s) - 1 /\ ~(j - 1 < at) /\ (j - 1) + 1 = j
        BY <1>1, <1>4
    <2>2. j - 1 \in DOMAIN t /\ t[j - 1] = s[j]
        BY <1>2, <2>1
    <2> QED
        BY <2>2 DEF Holds, t
<1> QED
    BY <1>3, <1>4

(* A list gets shorter only by removing an entry no rule names.            *)
LEMMA OnlyRemovesShorten ==
    ASSUME Good(loaded), Operation, NEW l \in Lists, Removed(l)
    PROVE  \E list \in Lists : \E at \in DOMAIN loaded[list] : Removes(list, at)
<1>1. Len(loaded'[l]) < Len(loaded[l]) /\ loaded[l] \in Seq(Entry)
    BY GoodHas DEF Removed
<1>2. ASSUME NEW f, NEW new, SectionsTo(loaded, new, f), Save(new, f) PROVE FALSE
    <2>1. loaded'[l] = loaded[l]
        BY <1>2 DEF SectionsTo, Save
    <2> QED
        BY <1>1, <2>1
<1>3. ASSUME NEW list \in Lists, NEW f, NEW s, NEW new,
             EditedTo(loaded, new, list, f, s), Save(new, f),
             Len(s) >= Len(loaded[list])
      PROVE  FALSE
    <2>1. /\ loaded'[list] = s /\ s \in Seq(Entry) /\ loaded[list] \in Seq(Entry)
          /\ (l # list => loaded'[l] = loaded[l])
        BY <1>3, GoodHas DEF EditedTo, Save
    <2>2. Len(s) \in Nat /\ Len(loaded[list]) \in Nat /\ Len(loaded[l]) \in Nat
        BY <1>1, <2>1
    <2> QED
        BY <1>1, <1>3, <2>1, <2>2
<1>4. ASSUME NEW list \in Lists, NEW item \in Stored, NEW f \in File,
             Appends(list, item, f)
      PROVE  FALSE
    <2> DEFINE s == Append(loaded[list], [file |-> f, item |-> item])
    <2>1. loaded.roots[f] \in Root /\ Save(AppendItem(loaded, list, item, f), f)
        BY <1>4 DEF Appends
    <2>2. EditedTo(loaded, AppendItem(loaded, list, item, f), list, f, s)
        BY <2>1, AppendIsGood
    <2>3. Len(s) >= Len(loaded[list])
        BY GoodHas
    <2> HIDE DEF s
    <2> QED
        BY <1>3, <2>1, <2>2, <2>3
<1>5. ASSUME NEW list \in Lists, NEW at \in DOMAIN loaded[list], NEW item \in Stored,
             Replaces(list, at, item)
      PROVE  FALSE
    <2> DEFINE s == [loaded[list] EXCEPT ![at] = [loaded[list][at] EXCEPT !.item = item]]
    <2>1. Save(ReplaceItem(loaded, list, at, item), loaded[list][at].file)
        BY <1>5 DEF Replaces
    <2>2. EditedTo(loaded, ReplaceItem(loaded, list, at, item), list,
                   loaded[list][at].file, s)
        BY ReplaceIsGood
    <2>3. Len(s) >= Len(loaded[list])
        <3>1. loaded[list] \in Seq(Entry)
            BY GoodHas
        <3>2. Len(s) = Len(loaded[list]) /\ Len(loaded[list]) \in Nat
            BY <3>1
        <3> HIDE DEF s
        <3> QED
            BY <3>2
    <2> HIDE DEF s
    <2> QED
        BY <1>3, <2>1, <2>2, <2>3
<1>6. ASSUME NEW refs \in RoutingRefs, SetsRouting(refs) PROVE FALSE
    BY <1>2, <1>6, SetRoutingIsGood DEF SetsRouting
<1>7. ASSUME NEW f \in File, Creates(f) PROVE FALSE
    BY <1>2, <1>7, AddFileIsGood DEF Creates
<1>8. ASSUME NEW f \in File, Deletes(f) PROVE FALSE
    BY <1>2, <1>8, RemoveFileIsGood DEF Deletes
<1> QED
    BY <1>4, <1>5, <1>6, <1>7, <1>8 DEF Operation

(* Deleting an entry, from the dialog or by WARP, leaves no rule naming    *)
(* nothing that named something before (the checks of tag_refs.rs).        *)
THEOREM ReferencesKept == Spec => DeleteKeepsReferences
<1>1. IInv /\ [Next]_vars =>
        [Edited /\ synced /\ (\E list \in Lists : Removed(list))
            => Dangling(disk') \subseteq Dangling(disk)]_vars
    <2> SUFFICES ASSUME IInv, [Next]_vars, Edited, synced, NEW l \in Lists, Removed(l),
                        NEW r \in Dangling(disk')
                 PROVE  r \in Dangling(disk)
        OBVIOUS
    <2>1. disk = loaded.roots /\ disk' = loaded'.roots
        BY SyncedRoots
    <2>2. Good(loaded) /\ Operation
        BY EditedBy
    <2>3. Good(loaded')
        BY <2>2, OperationSaves
    <2>4. PICK list \in Lists : \E at \in DOMAIN loaded[list] : Removes(list, at)
        BY <2>2, OnlyRemovesShorten
    <2>5. PICK at \in DOMAIN loaded[list] : Removes(list, at)
        BY <2>4
    <2> DEFINE old == loaded[list]
    <2>6. /\ ~Referenced(loaded, list, old[at].item.tag)
          /\ Save(RemoveItem(loaded, list, at), old[at].file)
        BY <2>5 DEF Removes
    <2>7. /\ loaded'[list] = RemoveAt(old, at)
          /\ \A other \in Lists : other # list => loaded'[other] = loaded[other]
          /\ loaded'.routing = loaded.routing
        <3>1. EditedTo(loaded, RemoveItem(loaded, list, at), list, loaded[list][at].file,
                       RemoveAt(loaded[list], at))
            BY <2>2, RemoveIsGood
        <3>2. EditedTo(loaded, loaded', list, loaded[list][at].file, RemoveAt(old, at))
            BY <2>6, <3>1 DEF Save
        <3> HIDE DEF old
        <3> QED
            BY <3>2 DEF EditedTo
    <2>8. old \in Seq(Entry) /\ at \in 1 .. Len(old)
        BY <2>2, GoodHas, EntryHas
    <2>9. Dangles(loaded', r)
        BY <2>1, <2>3, DanglingIs
    <2>10. /\ loaded.routing # NoSection /\ r \in loaded.routing.refs /\ r.list \in Lists
           /\ \A item \in Holds(loaded'[r.list]) : Fold(item.tag) # Fold(r.tag)
        BY <2>2, <2>7, <2>9, RefsAreRules DEF Dangles
    <2>11. ASSUME NEW j \in DOMAIN loaded[r.list]
           PROVE  Fold(loaded[r.list][j].item.tag) # Fold(r.tag)
        <3>1. CASE r.list # list
            <4>1. loaded[r.list][j].item \in Holds(loaded'[r.list])
                BY <2>7, <2>10, <3>1 DEF Holds
            <4> QED
                BY <2>10, <4>1
        <3>2. CASE r.list = list /\ j # at
            <4>1. old[j].item \in Holds(loaded'[list])
                BY <2>7, <2>8, <3>2, RemoveHolds
            <4> QED
                BY <2>10, <3>2, <4>1
        <3>3. CASE r.list = list /\ j = at
            BY <2>6, <2>10, <3>3 DEF Referenced
        <3> QED
            BY <3>1, <3>2, <3>3
    <2>12. Dangles(loaded, r)
        BY <2>10, <2>11 DEF Dangles, Holds
    <2> QED
        BY <2>1, <2>2, <2>12, DanglingIs
<1> QED
    BY <1>1, Inductive, PTL DEF Spec, DeleteKeepsReferences

LEMMA EntriesIs ==
    ASSUME NEW cfg, Good(cfg), NEW e
    PROVE  e \in EntriesOn(cfg.roots) <=>
              \E list \in Lists : \E item \in Holds(cfg[list]) :
                 e = [list |-> list, item |-> item]
<1>1. e \in EntriesOn(cfg.roots) <=>
        \E list \in Lists : \E item \in Holds(Merged(cfg.roots, list)) :
           e = [list |-> list, item |-> item]
    BY DEF EntriesOn, Holds
<1> QED
    BY <1>1, HoldsSame

(* A dialog that saves is confirmed by saving.                             *)
LEMMA OnlySaveSaves ==
    ASSUME [Next]_vars, Edited, dialog # NoDialog, dialog' = NoDialog, dialog.op = "save"
    PROVE  \E item \in Item : SaveEntry(item)
<1>1. disk' # disk /\ loaded' # loaded /\ dialog' # dialog
    BY DEF Edited
<1>2. ~Edit
    BY <1>1
    DEF Edit, Add, SaveRouting, WarpAdd, WarpReplace, WarpRemove, CreateFile, DeleteFile
<1>3. \A unread : ~Discover(unread)
    BY <1>1 DEF Discover
<1>4. \A f, root : ~AdminEdit(f, root)
    BY <1>1 DEF AdminEdit
<1>5. ~(UNCHANGED vars)
    BY <1>1 DEF vars
<1>6. UseDialog
    BY <1>2, <1>3, <1>4, <1>5 DEF Next
<1>7. ~Cancel /\ \A list, at, op : ~Open(list, at, op)
    BY <1>1 DEF Cancel, Open
<1>8. ~Delete /\ ~Duplicate /\ ~AddClient /\ ~DropClient /\ \A tag : ~Rename(tag)
    BY DEF Delete, Duplicate, AddClient, DropClient, SetClient, Rename, Confirmed
<1> QED
    BY <1>6, <1>7, <1>8 DEF UseDialog

(* A dialog that is saved takes nothing from the server but the entry it   *)
(* was opened on: its fingerprint is compared before anything is replaced  *)
(* (with_inbound_mut, replace_inbound_raw_json, update_outbound_shell).    *)
THEOREM SavesItsEntry == Spec => SavesWhatWasOpened
<1>1. IInv /\ [Next]_vars => [ActsOnItsEntry("save")]_vars
    <2> SUFFICES ASSUME IInv, [Next]_vars, dialog # NoDialog, dialog' = NoDialog,
                        Edited, synced, dialog.op = "save",
                        NEW e \in EntriesOn(disk) \ EntriesOn(disk')
                 PROVE  e = [list |-> dialog.list, item |-> dialog.seen]
        BY DEF ActsOnItsEntry
    <2>1. disk = loaded.roots /\ disk' = loaded'.roots
        BY SyncedRoots
    <2>2. Good(loaded) /\ Good(loaded')
        BY EditedBy, OperationSaves
    <2>3. PICK item \in Item : SaveEntry(item)
        BY OnlySaveSaves
    <2> DEFINE l == dialog.list
               at == dialog.at
    <2>4. /\ l \in Lists /\ at \in DOMAIN loaded[l] /\ loaded[l][at].item = dialog.seen
          /\ Save(ReplaceItem(loaded, l, at, item), loaded[l][at].file)
        BY <2>3, ConfirmedIs DEF SaveEntry, Target
    <2>5. item \in Stored
        BY ItemFacts
    <2> HIDE DEF l, at
    <2>6. /\ loaded'[l] = [loaded[l] EXCEPT ![at] = [loaded[l][at] EXCEPT !.item = item]]
          /\ \A other \in Lists : other # l => loaded'[other] = loaded[other]
        <3> DEFINE s == [loaded[l] EXCEPT ![at] = [loaded[l][at] EXCEPT !.item = item]]
        <3>1. EditedTo(loaded, ReplaceItem(loaded, l, at, item), l, loaded[l][at].file, s)
            BY <2>2, <2>4, <2>5, ReplaceIsGood
        <3> HIDE DEF s
        <3>2. EditedTo(loaded, loaded', l, loaded[l][at].file, s)
            BY <2>4, <3>1 DEF Save
        <3>3. /\ loaded'[l] = s
              /\ \A other \in Lists : other # l => loaded'[other] = loaded[other]
            BY <3>2 DEF EditedTo
        <3> QED
            BY <3>3 DEF s
    <2>7. PICK list \in Lists : \E x \in Holds(loaded[list]) : e = [list |-> list, item |-> x]
        BY <2>1, <2>2, EntriesIs
    <2>8. PICK j \in DOMAIN loaded[list] : e = [list |-> list, item |-> loaded[list][j].item]
        BY <2>7 DEF Holds
    <2>9. ~(\E x \in Holds(loaded'[list]) : e = [list |-> list, item |-> x])
        BY <2>1, <2>2, EntriesIs
    <2>10. loaded[list][j].item \notin Holds(loaded'[list])
        BY <2>8, <2>9
    <2>11. list = l
        <3> SUFFICES ASSUME list # l PROVE FALSE
            OBVIOUS
        <3>1. loaded'[list] = loaded[list]
            BY <2>6
        <3> QED
            BY <2>10, <3>1 DEF Holds
    <2>12. j = at
        <3> SUFFICES ASSUME j # at PROVE FALSE
            OBVIOUS
        <3>1. DOMAIN loaded'[l] = DOMAIN loaded[l] /\ loaded'[l][j] = loaded[l][j]
            BY <2>6, <2>11
        <3> QED
            BY <2>10, <2>11, <3>1 DEF Holds
    <2> QED
        BY <2>4, <2>8, <2>11, <2>12 DEF l
<1> QED
    BY <1>1, Inductive, PTL DEF Spec, SavesWhatWasOpened

=============================================================================
