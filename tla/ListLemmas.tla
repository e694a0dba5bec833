----------------------------- MODULE ListLemmas -----------------------------
(***************************************************************************)
(* Facts about lists that the proofs about the web client share: what a    *)
(* sequence of requests is after one is sent, changed or dropped; what a   *)
(* filter keeps; induction over the numbers, with a set in place of a      *)
(* predicate; and the sums that folds over finite sets make.               *)
(***************************************************************************)
EXTENDS Filters, Sequences, SequencesExt, WellFoundedInduction, FiniteSetTheorems, TLAPS

-----------------------------------------------------------------------------
(* What the requests under way are, a sequence of any length, after one is *)
(* sent, changed where it stands, or dropped: entry by entry, and by the   *)
(* set of the entries.                                                     *)

LEMMA NetAppended ==
  ASSUME NEW s, s \in Seq(Range(s)), NEW e
  PROVE  /\ Append(s, e) \in Seq(Range(Append(s, e)))
         /\ DOMAIN Append(s, e) = 1..(Len(s) + 1)
         /\ DOMAIN s = 1..Len(s) /\ Len(s) \in Nat
         /\ \A j \in 1..Len(s) : Append(s, e)[j] = s[j]
         /\ Append(s, e)[Len(s) + 1] = e
<1> DEFINE S == Range(s) \cup {e}
           t == Append(s, e)
<1>1. s \in Seq(S) /\ e \in S
  OBVIOUS
<1> HIDE DEF S
<1>2. /\ t \in Seq(S)
      /\ Len(t) = Len(s) + 1
      /\ \A j \in 1..Len(s) : t[j] = s[j]
      /\ t[Len(s) + 1] = e
      /\ DOMAIN s = 1..Len(s) /\ Len(s) \in Nat
      /\ DOMAIN t = 1..(Len(s) + 1)
  BY <1>1
<1> HIDE DEF t
<1>3. t \in Seq(Range(t))
  BY <1>2 DEF Range
<1>4. QED
  BY <1>2, <1>3 DEF t

LEMMA NetReplaced ==
  ASSUME NEW s, s \in Seq(Range(s)), NEW i \in DOMAIN s, NEW e
  PROVE  /\ [s EXCEPT ![i] = e] \in Seq(Range([s EXCEPT ![i] = e]))
         /\ DOMAIN [s EXCEPT ![i] = e] = DOMAIN s
         /\ \A j \in DOMAIN s : [s EXCEPT ![i] = e][j] = IF j = i THEN e ELSE s[j]
<1> DEFINE S == Range(s) \cup {e}
           t == [s EXCEPT ![i] = e]
<1>1. s \in Seq(S) /\ e \in S
  OBVIOUS
<1> HIDE DEF S
<1>2. t \in Seq(S) /\ DOMAIN t = DOMAIN s /\ \A j \in DOMAIN s : t[j] = IF j = i THEN e ELSE s[j]
  BY <1>1
<1> HIDE DEF t
<1>3. t \in Seq(Range(t))
  BY <1>2 DEF Range
<1>4. QED
  BY <1>2, <1>3 DEF t

LEMMA NetRemoved ==
  ASSUME NEW s, s \in Seq(Range(s)), NEW i \in DOMAIN s
  PROVE  /\ RemoveAt(s, i) \in Seq(Range(RemoveAt(s, i)))
         /\ DOMAIN s = 1..Len(s) /\ Len(s) \in Nat
         /\ Len(RemoveAt(s, i)) = Len(s) - 1
         /\ DOMAIN RemoveAt(s, i) = 1..(Len(s) - 1)
         /\ \A j \in 1..(Len(s) - 1) : RemoveAt(s, i)[j] = IF j < i THEN s[j] ELSE s[j + 1]
<1> DEFINE S == Range(s)
           a == SubSeq(s, 1, i - 1)
           b == SubSeq(s, i + 1, Len(s))
           t == a \o b
<1>1. s \in Seq(S) /\ DOMAIN s = 1..Len(s) /\ i \in 1..Len(s) /\ Len(s) \in Nat
  OBVIOUS
<1> HIDE DEF S
<1>2. a \in Seq(S) /\ Len(a) = i - 1 /\ \A j \in 1..(i - 1) : a[j] = s[j]
  BY <1>1
<1>3. b \in Seq(S) /\ Len(b) = Len(s) - i /\ \A j \in 1..(Len(s) - i) : b[j] = s[j + i]
  BY <1>1
<1> HIDE DEF a, b
<1>4. t \in Seq(S) /\ Len(t) = Len(s) - 1 /\ DOMAIN t = 1..(Len(s) - 1)
  <2>0. a \in Seq(S) /\ b \in Seq(S)
    BY <1>2, <1>3
  <2>1. t \in Seq(S) /\ Len(t) = Len(a) + Len(b)
    BY <2>0
  <2>2. Len(t) = Len(s) - 1
    BY <1>1, <1>2, <1>3, <2>1
  <2> HIDE DEF t
  <2>3. QED
    BY <2>1, <2>2
<1>5. ASSUME NEW j \in 1..(Len(s) - 1) PROVE t[j] = IF j < i THEN s[j] ELSE s[j + 1]
  <2>1. CASE j < i
    BY <1>1, <1>2, <1>3, <2>1
  <2>2. CASE ~(j < i)
    <3>1. j - (i - 1) \in 1..(Len(s) - i) /\ (j - (i - 1)) + i = j + 1
      BY <1>1, <2>2
    <3>2. t[j] = b[j - (i - 1)]
      BY <1>1, <1>2, <1>3, <2>2, <3>1
    <3>3. QED
      BY <1>3, <2>2, <3>1, <3>2
  <2>3. QED
    BY <2>1, <2>2
<1>6. RemoveAt(s, i) = t
  BY DEF RemoveAt, t, a, b
<1> HIDE DEF t
<1>7. t \in Seq(Range(t))
  BY <1>4 DEF Range
<1>8. QED
  BY <1>1, <1>4, <1>5, <1>6, <1>7

-----------------------------------------------------------------------------
LEMMA EntriesAppended ==
  ASSUME NEW S, NEW s \in Seq(S), NEW e \in S
  PROVE  Append(s, e) \in Seq(S) /\ Range(Append(s, e)) \subseteq Range(s) \cup {e}
<1>1. Append(s, e) \in Seq(S)
  OBVIOUS
<1>2. \A j \in DOMAIN Append(s, e) : Append(s, e)[j] \in Range(s) \cup {e}
  BY DEF Range
<1>3. QED
  BY <1>1, <1>2 DEF Range

LEMMA EntriesReplaced ==
  ASSUME NEW S, NEW s \in Seq(S), NEW i \in DOMAIN s, NEW e \in S
  PROVE  /\ [s EXCEPT ![i] = e] \in Seq(S)
         /\ Range([s EXCEPT ![i] = e]) \subseteq Range(s) \cup {e}
<1>1. [s EXCEPT ![i] = e] \in Seq(S)
  OBVIOUS
<1>2. \A j \in DOMAIN s : [s EXCEPT ![i] = e][j] \in Range(s) \cup {e}
  BY DEF Range
<1>3. QED
  BY <1>1, <1>2 DEF Range

LEMMA EntriesRemoved ==
  ASSUME NEW S, NEW s \in Seq(S), NEW i \in DOMAIN s
  PROVE  /\ RemoveAt(s, i) \in Seq(S)
         /\ Len(RemoveAt(s, i)) = Len(s) - 1
         /\ Range(RemoveAt(s, i)) \subseteq Range(s)
<1> DEFINE t == RemoveAt(s, i)
<1>1. s \in Seq(Range(s)) /\ Range(s) \subseteq S
  BY DEF Range
<1>2. /\ t \in Seq(Range(t)) /\ Len(t) = Len(s) - 1
      /\ DOMAIN s = 1..Len(s) /\ Len(s) \in Nat /\ DOMAIN t = 1..(Len(s) - 1)
      /\ \A j \in 1..(Len(s) - 1) : t[j] = IF j < i THEN s[j] ELSE s[j + 1]
  BY <1>1, NetRemoved
<1> HIDE DEF t
<1>3. \A j \in DOMAIN t : t[j] \in Range(s)
  <2> TAKE j \in DOMAIN t
  <2>1. j \in DOMAIN s /\ j + 1 \in DOMAIN s
    BY <1>2
  <2>2. QED
    BY <1>2, <2>1 DEF Range
<1>4. Range(t) \subseteq Range(s)
  BY <1>3 DEF Range
<1>5. t \in Seq(S)
  BY <1>1, <1>2, <1>4
<1>6. QED
  BY <1>2, <1>4, <1>5 DEF t

-----------------------------------------------------------------------------
(* Induction, with a set in place of a predicate. *)

LEMMA NatInduces ==
  ASSUME NEW T, 0 \in T, \A n \in Nat : n \in T => n + 1 \in T
  PROVE  Nat \subseteq T
<1> SUFFICES ASSUME Nat \ T # {} PROVE FALSE
  OBVIOUS
<1>1. PICK x \in Nat \ T : \A y \in Nat \ T : <<y, x>> \notin OpToRel(<, Nat)
  BY WFMin, NatLessThanWellFounded
<1>2. x # 0 /\ x - 1 \in Nat /\ x - 1 < x
  OBVIOUS
<1>3. <<x - 1, x>> \in OpToRel(<, Nat)
  BY <1>2 DEF OpToRel
<1>4. x - 1 \in T
  BY <1>1, <1>2, <1>3
<1>5. QED
  BY <1>2, <1>4

-----------------------------------------------------------------------------
(* Filters. *)

Rank(I, i) == Cardinality({h \in I : h <= i})

LEMMA PlacesFinite ==
  ASSUME NEW n \in Nat, NEW I \in SUBSET (1..n)
  PROVE  /\ IsFiniteSet(I) /\ Cardinality(I) \in 0..n
         /\ \A i \in I : IsFiniteSet({h \in I : h <= i}) /\ Rank(I, i) \in 1..Cardinality(I)
<1>1. IsFiniteSet(1..n) /\ Cardinality(1..n) = n
  BY FS_Interval
<1>2. IsFiniteSet(I) /\ Cardinality(I) <= n /\ Cardinality(I) \in Nat
  BY <1>1, FS_Subset, FS_CardinalityType
<1>3. ASSUME NEW i \in I PROVE IsFiniteSet({h \in I : h <= i}) /\ Rank(I, i) \in 1..Cardinality(I)
  <2> DEFINE J == {h \in I : h <= i}
  <2>1. J \in SUBSET I /\ i \in J
    OBVIOUS
  <2> HIDE DEF J
  <2>2. IsFiniteSet(J) /\ Cardinality(J) <= Cardinality(I) /\ Cardinality(J) \in Nat
    BY <1>2, <2>1, FS_Subset, FS_CardinalityType
  <2>3. Cardinality(J) # 0
    BY <2>1, <2>2, FS_EmptySet
  <2>4. Cardinality(J) \in 1..Cardinality(I)
    BY <1>2, <2>2, <2>3
  <2>5. QED
    BY <2>2, <2>4 DEF J, Rank
<1>4. QED
  BY <1>2, <1>3

(* The rank of a place tells it from the others, and orders them.            *)
LEMMA RanksOrder ==
  ASSUME NEW n \in Nat, NEW I \in SUBSET (1..n), NEW i \in I, NEW k \in I, i < k
  PROVE  Rank(I, i) < Rank(I, k)
<1> DEFINE J == {h \in I : h <= i}
           K == {h \in I : h <= k}
<1> i \in Nat /\ k \in Nat /\ \A h \in I : h \in Nat
  OBVIOUS
<1>1. J \in SUBSET K /\ k \in K /\ k \notin J
  <2>1. \A h \in J : h \in K
    <3> SUFFICES ASSUME NEW h \in I, h <= i PROVE h <= k
      OBVIOUS
    <3>1. h \in Nat
      OBVIOUS
    <3>2. QED
      BY <3>1
  <2>2. k \in K /\ k \notin J
    OBVIOUS
  <2> HIDE DEF J, K
  <2>3. QED
    BY <2>1, <2>2
<1>2. IsFiniteSet(K) /\ Rank(I, i) \in Nat /\ Rank(I, k) \in Nat
  <2>1. /\ Cardinality(I) \in 0..n
        /\ \A h \in I : IsFiniteSet({g \in I : g <= h}) /\ Rank(I, h) \in 1..Cardinality(I)
    BY PlacesFinite
  <2>2. Rank(I, i) \in 1..Cardinality(I) /\ Rank(I, k) \in 1..Cardinality(I) /\ IsFiniteSet(K)
    BY <2>1
  <2> HIDE DEF K
  <2>3. QED
    BY <2>1, <2>2
<1>3. Rank(I, i) = Cardinality(J) /\ Rank(I, k) = Cardinality(K)
  BY DEF Rank
<1> HIDE DEF J, K
<1>4. Cardinality(J) <= Cardinality(K) /\ Cardinality(J) # Cardinality(K)
  BY <1>1, <1>2, FS_Subset
<1>5. QED
  BY <1>2, <1>3, <1>4

RanksTaken(n) ==
  \A I \in SUBSET (1..n) : \A j \in 1..Cardinality(I) : \E i \in I : Rank(I, i) = j

LEMMA RanksTakenFurther ==
  ASSUME NEW n \in Nat, RanksTaken(n)
  PROVE  RanksTaken(n + 1)
<1> SUFFICES ASSUME NEW I \in SUBSET (1..(n + 1)), NEW j \in 1..Cardinality(I)
             PROVE  \E i \in I : Rank(I, i) = j
  BY DEF RanksTaken
<1>1. CASE n + 1 \notin I
  <2>1. I \in SUBSET (1..n)
    BY <1>1
  <2>2. QED
    BY <2>1 DEF RanksTaken
<1>2. CASE n + 1 \in I
  <2> DEFINE J == I \ {n + 1}
  <2>1. J \in SUBSET (1..n)
    OBVIOUS
  <2>2. IsFiniteSet(J) /\ Cardinality(J) \in Nat /\ I = J \cup {n + 1} /\ n + 1 \notin J
    BY <1>2, <2>1, PlacesFinite
  <2>3. Cardinality(I) = Cardinality(J) + 1
    BY <2>2, FS_AddElement
  <2>4. CASE j = Cardinality(I)
    <3>1. {h \in I : h <= n + 1} = I
      <4>1. \A h \in I : h <= n + 1
        OBVIOUS
      <4>2. QED
        BY <4>1
    <3>2. Rank(I, n + 1) = j
      BY <2>4, <3>1 DEF Rank
    <3>3. QED
      BY <1>2, <3>2
  <2>5. CASE j # Cardinality(I)
    <3>1. j \in 1..Cardinality(J)
      BY <2>2, <2>3, <2>5
    <3>2. PICK i \in J : Rank(J, i) = j
      BY <2>1, <3>1 DEF RanksTaken
    <3>3. {h \in I : h <= i} = {h \in J : h <= i}
      BY <2>1, <2>2
    <3>4. i \in I /\ Rank(I, i) = j
      BY <3>2, <3>3 DEF Rank
    <3>5. QED
      BY <3>4
  <2>6. QED
    BY <2>4, <2>5
<1>3. QED
  BY <1>1, <1>2

LEMMA AllRanksTaken == \A n \in Nat : RanksTaken(n)
<1> DEFINE T == {n \in Nat : RanksTaken(n)}
<1>1. 0 \in T
  <2>1. \A I \in SUBSET (1..0) : I = {}
    OBVIOUS
  <2>2. Cardinality({}) = 0
    BY FS_EmptySet
  <2>3. RanksTaken(0)
    BY <2>1, <2>2 DEF RanksTaken
  <2>4. QED
    BY <2>3
<1>2. \A n \in Nat : n \in T => n + 1 \in T
  BY RanksTakenFurther
<1> HIDE DEF T
<1>3. Nat \subseteq T
  BY <1>1, <1>2, NatInduces
<1>4. QED
  BY <1>3 DEF T

LEMMA PlaceIs ==
  ASSUME NEW n \in Nat, NEW I \in SUBSET (1..n)
  PROVE  /\ \A j \in 1..Cardinality(I) : Place(I, j) \in I /\ Rank(I, Place(I, j)) = j
         /\ \A i \in I : Place(I, Rank(I, i)) = i
<1>1. ASSUME NEW j \in 1..Cardinality(I) PROVE Place(I, j) \in I /\ Rank(I, Place(I, j)) = j
  <2>1. \E i \in I : Rank(I, i) = j
    BY AllRanksTaken DEF RanksTaken
  <2>2. QED
    BY <2>1 DEF Place, Rank
<1>2. ASSUME NEW i \in I PROVE Place(I, Rank(I, i)) = i
  <2> DEFINE k == Place(I, Rank(I, i))
  <2>1. Cardinality(I) \in 0..n /\ Rank(I, i) \in 1..Cardinality(I)
    BY PlacesFinite
  <2>2. k \in I /\ Rank(I, k) = Rank(I, i)
    BY <1>1, <2>1
  <2> HIDE DEF k
  <2>3. i \in Nat /\ k \in Nat /\ Rank(I, i) \in Nat
    BY <2>1, <2>2
  <2>5. ~(Rank(I, i) < Rank(I, k)) /\ ~(Rank(I, k) < Rank(I, i))
    BY <2>2, <2>3
  <2>6. ~(i < k) /\ ~(k < i)
    BY <2>2, <2>5, RanksOrder
  <2>7. k = i
    BY <2>3, <2>6
  <2>8. QED
    BY <2>7 DEF k
<1>3. QED
  BY <1>1, <1>2

(* A filter keeps the elements that pass, each once, in their order.         *)
LEMMA FilterKeeps ==
  ASSUME NEW S, NEW s \in Seq(S), NEW I \in SUBSET DOMAIN s
  PROVE  /\ Filtered(s, I) \in Seq(S)
         /\ Cardinality(I) \in 0..Len(s) /\ Len(Filtered(s, I)) = Cardinality(I)
         /\ DOMAIN Filtered(s, I) = 1..Cardinality(I)
         /\ \A j \in 1..Cardinality(I) : Place(I, j) \in I /\ Filtered(s, I)[j] = s[Place(I, j)]
         /\ \A j, k \in 1..Cardinality(I) : j < k => Place(I, j) < Place(I, k)
         /\ \A i \in I : \E j \in 1..Cardinality(I) : Place(I, j) = i
<1>1. Len(s) \in Nat /\ DOMAIN s = 1..Len(s) /\ I \in SUBSET (1..Len(s))
  OBVIOUS
<1>2. Cardinality(I) \in 0..Len(s) /\ \A i \in I : Rank(I, i) \in 1..Cardinality(I)
  BY <1>1, PlacesFinite
<1>3. /\ \A j \in 1..Cardinality(I) : Place(I, j) \in I /\ Rank(I, Place(I, j)) = j
      /\ \A i \in I : Place(I, Rank(I, i)) = i
  BY <1>1, PlaceIs
<1>4. /\ DOMAIN Filtered(s, I) = 1..Cardinality(I)
      /\ \A j \in 1..Cardinality(I) : Filtered(s, I)[j] = s[Place(I, j)] /\ Filtered(s, I)[j] \in S
  BY <1>3 DEF Filtered
<1>5. Filtered(s, I) \in Seq(S) /\ Len(Filtered(s, I)) = Cardinality(I)
  <2>1. Filtered(s, I) \in [1..Cardinality(I) -> S]
    BY <1>4 DEF Filtered
  <2> HIDE DEF Filtered
  <2>2. QED
    BY <1>2, <2>1
<1>6. ASSUME NEW j \in 1..Cardinality(I), NEW k \in 1..Cardinality(I), j < k
      PROVE  Place(I, j) < Place(I, k)
  <2> DEFINE a == Place(I, j)
             b == Place(I, k)
  <2>1. a \in I /\ b \in I /\ Rank(I, a) = j /\ Rank(I, b) = k
    BY <1>3
  <2> HIDE DEF a, b
  <2>2. j \in Nat /\ k \in Nat /\ a \in Nat /\ b \in Nat
    BY <1>1, <1>2, <2>1
  <2>3. a # b /\ ~(Rank(I, b) < Rank(I, a))
    BY <1>6, <2>1, <2>2
  <2>4. ~(b < a)
    BY <1>1, <2>1, <2>3, RanksOrder
  <2>5. a < b
    BY <2>2, <2>3, <2>4
  <2>6. QED
    BY <2>5 DEF a, b
<1>7. \A i \in I : \E j \in 1..Cardinality(I) : Place(I, j) = i
  BY <1>2, <1>3
<1>8. QED
  BY <1>2, <1>3, <1>4, <1>5, <1>6, <1>7

-----------------------------------------------------------------------------
(* Sums over finite sets, in whatever order they are added up. *)

(* Among the members of a set there is one of least measure.                 *)
LEMMA LeastMeasure ==
  ASSUME NEW D, D # {}, NEW m \in [D -> Nat]
  PROVE  \E x \in D : \A y \in D : m[x] <= m[y]
<1> DEFINE M == {m[x] : x \in D}
<1>1. M # {} /\ M \subseteq Nat
  OBVIOUS
<1> HIDE DEF M
<1>2. PICK n \in M : \A k \in M : <<k, n>> \notin OpToRel(<, Nat)
  BY <1>1, WFMin, NatLessThanWellFounded
<1>3. \A k \in M : n <= k
  <2> TAKE k \in M
  <2>1. k \in Nat /\ n \in Nat /\ ~(k < n)
    BY <1>1, <1>2 DEF OpToRel
  <2>2. QED
    BY <2>1
<1>4. QED
  BY <1>3 DEF M

(* g sums up f over each subset of S. *)
AddsUp(f, g, S) ==
  /\ g \in [SUBSET S -> Int] /\ g[{}] = 0
  /\ \A s \in SUBSET S : \A x \in s : g[s] = f[x] + g[s \ {x}]

LEMMA OneMoreAddsUp ==
  ASSUME NEW S, NEW f \in [S -> Int], NEW x \in S, NEW g, AddsUp(f, g, S \ {x})
  PROVE  \E h : AddsUp(f, h, S)
<1> DEFINE R == S \ {x}
           h == [s \in SUBSET S |-> IF x \in s THEN f[x] + g[s \ {x}] ELSE g[s]]
<1>1. g \in [SUBSET R -> Int] /\ g[{}] = 0 /\ \A s \in SUBSET R : \A y \in s : g[s] = f[y] + g[s \ {y}]
  BY DEF AddsUp
<1>2. /\ h \in [SUBSET S -> Int] /\ h[{}] = 0
      /\ \A s \in SUBSET R : h[s] = g[s] /\ g[s] \in Int
      /\ \A s \in SUBSET S : x \in s => h[s] = f[x] + g[s \ {x}]
  <2>1. \A s \in SUBSET S : s \ {x} \in SUBSET R /\ (x \notin s => s \in SUBSET R)
    OBVIOUS
  <2>2. \A s \in SUBSET S : h[s] \in Int
    BY <1>1, <2>1
  <2>3. QED
    BY <1>1, <2>1, <2>2
<1> HIDE DEF h
<1>3. ASSUME NEW s \in SUBSET S, NEW y \in s PROVE h[s] = f[y] + h[s \ {y}]
  <2> f[x] \in Int /\ f[y] \in Int
    OBVIOUS
  <2>1. CASE x \notin s
    <3>1. s \in SUBSET R /\ s \ {y} \in SUBSET R
      BY <2>1
    <3>2. QED
      BY <1>1, <1>2, <3>1
  <2>2. CASE x = y
    <3>1. s \ {x} \in SUBSET R
      OBVIOUS
    <3>2. QED
      BY <1>2, <2>2, <3>1
  <2>3. CASE x \in s /\ x # y
    <3> DEFINE r == s \ {x}
    <3>1. r \in SUBSET R /\ y \in r /\ r \ {y} \in SUBSET R /\ (s \ {y}) \ {x} = r \ {y}
          /\ s \ {y} \in SUBSET S /\ x \in s \ {y}
      BY <2>3
    <3>2. h[s] = f[x] + g[r] /\ g[r] = f[y] + g[r \ {y}]
      BY <1>1, <1>2, <2>3, <3>1
    <3>3. h[s \ {y}] = f[x] + g[r \ {y}] /\ g[r \ {y}] \in Int
      BY <1>2, <3>1
    <3> HIDE DEF r
    <3>4. QED
      BY <3>2, <3>3
  <2>4. QED
    BY <2>1, <2>2, <2>3
<1>4. QED
  BY <1>2, <1>3 DEF AddsUp

Summable(f, S) == {n \in Nat : \A s \in SUBSET S : Cardinality(s) = n => \E g : AddsUp(f, g, s)}

LEMMA SumExists ==
  ASSUME NEW S, IsFiniteSet(S), NEW f \in [S -> Int]
  PROVE  \E g : AddsUp(f, g, S)
<1>1. \A s \in SUBSET S : IsFiniteSet(s) /\ Cardinality(s) \in Nat
  BY FS_Subset, FS_CardinalityType
<1>2. 0 \in Summable(f, S)
  <2> SUFFICES ASSUME NEW s \in SUBSET S, Cardinality(s) = 0 PROVE \E g : AddsUp(f, g, s)
    BY DEF Summable
  <2> DEFINE g == [r \in {{}} |-> 0]
  <2>1. s = {}
    BY <1>1, FS_EmptySet
  <2>2. AddsUp(f, g, s)
    BY <2>1 DEF AddsUp
  <2> HIDE DEF g
  <2>3. QED
    BY <2>2
<1>3. ASSUME NEW n \in Nat, n \in Summable(f, S) PROVE n + 1 \in Summable(f, S)
  <2> SUFFICES ASSUME NEW s \in SUBSET S, Cardinality(s) = n + 1 PROVE \E g : AddsUp(f, g, s)
    BY DEF Summable
  <2>1. s # {}
    BY FS_EmptySet
  <2>2. PICK x : x \in s
    BY <2>1
  <2>3. Cardinality(s \ {x}) = n /\ s \ {x} \in SUBSET S
    <3>1. IsFiniteSet(s)
      BY <1>1
    <3>2. Cardinality(s \ {x}) = (n + 1) - 1
      BY <2>2, <3>1, FS_RemoveElement
    <3>3. QED
      BY <3>2
  <2>4. PICK g : AddsUp(f, g, s \ {x})
    BY <1>3, <2>3 DEF Summable
  <2> DEFINE e == [y \in s |-> f[y]]
  <2>5. e \in [s -> Int] /\ \A y \in s : e[y] = f[y]
    OBVIOUS
  <2> HIDE DEF e
  <2>6. AddsUp(e, g, s \ {x})
    BY <2>4, <2>5 DEF AddsUp
  <2>7. PICK h : AddsUp(e, h, s)
    BY <2>2, <2>5, <2>6, OneMoreAddsUp
  <2>8. AddsUp(f, h, s)
    BY <2>5, <2>7 DEF AddsUp
  <2>9. QED
    BY <2>8
<1>4. Nat \subseteq Summable(f, S)
  BY <1>2, <1>3, NatInduces
<1>5. QED
  BY <1>1, <1>4 DEF Summable

(* The recursive function by which the folds add up. *)
OneOf(s) == CHOOSE x \in s : TRUE

AddStep(f, g, s) == IF s = {} THEN 0 ELSE f[OneOf(s)] + g[s \ {OneOf(s)}]

Adding(f, g, S) == g = [s \in SUBSET S |-> AddStep(f, g, s)]

SumAll(f, S) == CHOOSE g : Adding(f, g, S)

LEMMA SumAllIs ==
  ASSUME NEW S, IsFiniteSet(S), NEW f, NEW g, AddsUp(f, g, S)
  PROVE  \A s \in SUBSET S : SumAll(f, S)[s] = g[s]
<1> DEFINE h == SumAll(f, S)
<1>1. \A s \in SUBSET S : s # {} => OneOf(s) \in s
  BY DEF OneOf
<1>2. Adding(f, g, S)
  <2>1. \A s \in SUBSET S : g[s] = AddStep(f, g, s)
    BY <1>1 DEF AddsUp, AddStep
  <2>2. g = [s \in SUBSET S |-> g[s]]
    BY DEF AddsUp
  <2>3. QED
    BY <2>1, <2>2 DEF Adding
<1>3. Adding(f, h, S)
  BY <1>2 DEF SumAll
<1> HIDE DEF h
<1>4. \A s \in SUBSET S : h[s] = AddStep(f, h, s)
  <2>1. h = [s \in SUBSET S |-> AddStep(f, h, s)]
    BY <1>3 DEF Adding
  <2>2. QED
    BY <2>1
<1> DEFINE W == {s \in SUBSET S : h[s] # g[s]}
           m == [s \in W |-> Cardinality(s)]
<1>5. ASSUME W # {} PROVE FALSE
  <2>1. \A s \in SUBSET S : IsFiniteSet(s) /\ Cardinality(s) \in Nat
    BY FS_Subset, FS_CardinalityType
  <2>2. m \in [W -> Nat]
    BY <2>1
  <2>3. PICK s \in W : \A r \in W : m[s] <= m[r]
    BY <1>5, <2>2, LeastMeasure
  <2>4. s \in SUBSET S /\ s # {} /\ h[s] # g[s]
    BY <1>4 DEF AddsUp, AddStep
  <2> DEFINE x == OneOf(s)
             r == s \ {x}
  <2>5. x \in s
    BY <1>1, <2>4
  <2> HIDE DEF x
  <2>6. r \in SUBSET S /\ Cardinality(r) = Cardinality(s) - 1 /\ Cardinality(s) \in Nat /\ Cardinality(r) \in Nat
    BY <2>1, <2>4, <2>5, FS_RemoveElement
  <2>7. r \notin W
    <3> SUFFICES ASSUME r \in W PROVE FALSE
      OBVIOUS
    <3>1. m[s] <= m[r] /\ m[s] = Cardinality(s) /\ m[r] = Cardinality(r)
      BY <2>3
    <3>2. QED
      BY <2>6, <3>1
  <2>8. h[r] = g[r]
    BY <2>6, <2>7
  <2>9. h[s] = f[x] + h[r]
    BY <1>4, <2>4 DEF AddStep, x
  <2>10. g[s] = f[x] + g[r]
    BY <2>4, <2>5 DEF AddsUp
  <2>11. QED
    BY <2>4, <2>8, <2>9, <2>10
<1>6. QED
  BY <1>5 DEF h

(* The same values, added up under other names. *)
LEMMA SumRenamed ==
  ASSUME NEW S, IsFiniteSet(S), NEW f \in [S -> Int], NEW T, NEW g, NEW h \in Surjection(S, T),
         \A i, j \in S : h[i] = h[j] => i = j, \A i \in S : g[h[i]] = f[i]
  PROVE  SumAll(g, T)[T] = SumAll(f, S)[S]
<1> DEFINE At(t) == {i \in S : h[i] \in t}
<1>1. PICK F : AddsUp(f, F, S)
  BY SumExists
<1> DEFINE G == [t \in SUBSET T |-> F[At(t)]]
<1>2. h \in [S -> T] /\ \A x \in T : \E i \in S : h[i] = x
  BY DEF Surjection
<1>3. IsFiniteSet(T)
  BY FS_Surjection
<1>4. At({}) = {} /\ At(T) = S
  BY <1>2
<1>5. G \in [SUBSET T -> Int] /\ G[{}] = 0
  BY <1>1, <1>4 DEF AddsUp
<1>6. ASSUME NEW t \in SUBSET T, NEW x \in t PROVE G[t] = g[x] + G[t \ {x}]
  <2>1. PICK i \in S : h[i] = x
    BY <1>2
  <2>2. i \in At(t) /\ At(t) \in SUBSET S /\ At(t \ {x}) = At(t) \ {i}
    BY <2>1
  <2> HIDE DEF At
  <2>3. F[At(t)] = f[i] + F[At(t) \ {i}]
    BY <1>1, <2>2 DEF AddsUp
  <2>4. QED
    BY <2>1, <2>2, <2>3
<1> HIDE DEF At
<1>7. AddsUp(g, G, T)
  BY <1>5, <1>6 DEF AddsUp
<1>8. SumAll(g, T)[T] = G[T]
  <2> HIDE DEF G
  <2>1. QED
    BY <1>3, <1>7, SumAllIs
<1>9. SumAll(f, S)[S] = F[S]
  BY <1>1, SumAllIs
<1>10. QED
  BY <1>4, <1>8, <1>9
=============================================================================
