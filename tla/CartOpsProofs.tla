---------------------------- MODULE CartOpsProofs ----------------------------
(***************************************************************************)
(* What the operations of the cart preserve, and what they compute, for    *)
(* every cart.                                                             *)
(***************************************************************************)
EXTENDS CartOps, FiniteSetTheorems, WellFoundedInduction, TLAPS

\* Every nonempty set of natural numbers has a least element.
LEMMA LeastElement ==
    ASSUME NEW S, S \subseteq Nat, S # {}
    PROVE  \E m \in S : \A n \in S : m <= n
<1> DEFINE Less == {ss \in Nat \X Nat : ss[1] < ss[2]}
<1>1. IsWellFoundedOn(Less, Nat)
  BY NatLessThanWellFounded DEF OpToRel
<1>2. PICK m \in S : \A n \in S : <<n, m>> \notin Less
  BY <1>1, WFMin
<1>3. \A n \in S : ~ (n < m)
  BY <1>2
<1> QED
  BY <1>3, SMT

\* The first element of a set of positions is one of them.
LEMMA MinIsMember ==
    ASSUME NEW S, S \subseteq Nat, S # {}
    PROVE  Min(S) \in S
  BY LeastElement DEF Min

\* IndexOf is 0 or a position of the cart whose line has the productId.
LEMMA IndexOfInRange ==
    ASSUME NEW c \in Seq(Line), NEW id, IndexOf(c, id) # 0
    PROVE  IndexOf(c, id) \in DOMAIN c /\ c[IndexOf(c, id)].productId = id
<1> DEFINE I == {i \in 1 .. Len(c) : c[i].productId = id}
<1>1. I # {}
  BY DEF IndexOf, SelectInSeq
<1>2. IndexOf(c, id) = Min(I)
  BY <1>1 DEF IndexOf, SelectInSeq
<1>3. I \subseteq Nat
  OBVIOUS
<1>4. Min(I) \in I
  BY <1>1, <1>3, MinIsMember
<1> QED
  BY <1>2, <1>4

\* indexWhere finds the line at i or one above it.
LEMMA IndexOfIsFirst ==
    ASSUME NEW c \in Seq(Line), NEW i \in DOMAIN c
    PROVE  /\ IndexOf(c, c[i].productId) \in DOMAIN c
           /\ IndexOf(c, c[i].productId) <= i
           /\ c[IndexOf(c, c[i].productId)].productId = c[i].productId
<1> DEFINE id == c[i].productId
           I == {k \in 1 .. Len(c) : c[k].productId = id}
<1>1. i \in I /\ I \subseteq Nat
  OBVIOUS
<1>2. IndexOf(c, id) = Min(I)
  BY <1>1 DEF IndexOf, SelectInSeq
<1>3. Min(I) \in I /\ \A n \in I : Min(I) <= n
  <2>1. \E m \in I : \A n \in I : m <= n
    BY <1>1, LeastElement
  <2> HIDE DEF I
  <2> QED
    BY <2>1 DEF Min
<1> QED
  BY <1>1, <1>2, <1>3

-----------------------------------------------------------------------------
(***************************************************************************)
(* RemoveItem enumerates the positions that stay from left to right.  Rank *)
(* counts the positions up to n; every count from 1 to Cardinality(K) is   *)
(* reached first at a member of K.                                         *)
(***************************************************************************)
Rank(K, n) == Cardinality({j \in K : j <= n})

LEMMA RankStep ==
    ASSUME NEW K, IsFiniteSet(K), K \subseteq Nat \ {0}, NEW n \in Nat
    PROVE  /\ Rank(K, n) \in Nat
           /\ Rank(K, n) <= n
           /\ Rank(K, n + 1) = IF n + 1 \in K THEN Rank(K, n) + 1 ELSE Rank(K, n)
<1> DEFINE U == {j \in K : j <= n}
           V == {j \in K : j <= n + 1}
<1>0. \A j \in K : j \in Nat /\ j # 0
  OBVIOUS
<1>1. IsFiniteSet(U) /\ Cardinality(U) \in Nat
  BY FS_Subset, FS_CardinalityType
<1>2. Cardinality(U) <= n
  <2>0. \A j \in U : j \in 1 .. n
    BY <1>0
  <2>1. U \subseteq 1 .. n
    BY <2>0
  <2>2. IsFiniteSet(1 .. n) /\ Cardinality(1 .. n) = n
    BY FS_Interval
  <2>3. Cardinality(U) <= Cardinality(1 .. n)
    BY <2>1, <2>2, FS_Subset
  <2> HIDE DEF U
  <2> QED
    BY <2>2, <2>3
<1>3. CASE n + 1 \in K
  <2>1. \A j \in K : j <= n + 1 <=> j <= n \/ j = n + 1
    BY <1>0
  <2>2. n + 1 \notin U
    OBVIOUS
  <2>3. V = U \cup {n + 1}
    BY <1>3, <2>1
  <2> QED
    BY <1>1, <1>2, <1>3, <2>2, <2>3, FS_AddElement DEF Rank
<1>4. CASE n + 1 \notin K
  <2>1. \A j \in K : j <= n + 1 <=> j <= n
    BY <1>0, <1>4
  <2>2. V = U
    BY <2>1
  <2> QED
    BY <1>1, <1>2, <1>4, <2>2 DEF Rank
<1> QED
  BY <1>3, <1>4

\* PlaceOf(K, k) is a member of K, and k is its rank.
LEMMA PlaceOfInRange ==
    ASSUME NEW N \in Nat, NEW K \in SUBSET (1 .. N), NEW k \in 1 .. Cardinality(K)
    PROVE  /\ IsFiniteSet(K) /\ Cardinality(K) \in Nat
           /\ PlaceOf(K, k) \in K
           /\ Rank(K, PlaceOf(K, k)) = k
           /\ k <= PlaceOf(K, k)
<1> DEFINE Reach == {n \in Nat : k <= Rank(K, n)}
<1>1. IsFiniteSet(K) /\ Cardinality(K) \in Nat /\ K \subseteq Nat \ {0}
  <2>1. IsFiniteSet(1 .. N)
    BY FS_Interval
  <2>2. IsFiniteSet(K)
    BY <2>1, FS_Subset
  <2>3. \A j \in K : j \in Nat \ {0}
    OBVIOUS
  <2> QED
    BY <2>2, <2>3, FS_CardinalityType
<1>2. N \in Reach
  <2>1. \A j \in K : j <= N
    OBVIOUS
  <2>2. {j \in K : j <= N} = K
    BY <2>1
  <2> QED
    BY <1>1, <2>2 DEF Rank
<1>3. PICK m \in Reach : \A n \in Reach : m <= n
  BY <1>2, LeastElement
<1>0. \A n \in Nat : /\ Rank(K, n) \in Nat
                    /\ Rank(K, n) <= n
                    /\ Rank(K, n + 1) = IF n + 1 \in K THEN Rank(K, n) + 1
                                                      ELSE Rank(K, n)
  BY <1>1, RankStep
<1>4. m # 0
  BY <1>0, <1>1, <1>3
<1>5. m - 1 \in Nat /\ ~ (k <= Rank(K, m - 1))
  BY <1>3, <1>4, SMT
<1>6. m \in K /\ Rank(K, m) = k
  <2>1. /\ Rank(K, m - 1) \in Nat
        /\ Rank(K, m) = IF m \in K THEN Rank(K, m - 1) + 1 ELSE Rank(K, m - 1)
    BY <1>0, <1>5, (m - 1) + 1 = m
  <2> QED
    BY <1>1, <1>3, <1>5, <2>1
<1>7. PlaceOf(K, k) \in K /\ Rank(K, PlaceOf(K, k)) = k
  BY <1>6 DEF PlaceOf, Rank
<1>8. k <= PlaceOf(K, k)
  BY <1>0, <1>1, <1>7
<1> QED
  BY <1>1, <1>7, <1>8

\* Every member of K is enumerated, at its rank.
LEMMA PlaceOfReaches ==
    ASSUME NEW N \in Nat, NEW K \in SUBSET (1 .. N), NEW i \in K
    PROVE  Rank(K, i) \in 1 .. Cardinality(K) /\ PlaceOf(K, Rank(K, i)) = i
<1> DEFINE Upto(n) == {j \in K : j <= n}
<1>1. IsFiniteSet(K) /\ Cardinality(K) \in Nat
  <2>1. IsFiniteSet(1 .. N)
    BY FS_Interval
  <2> QED
    BY <2>1, FS_Subset, FS_CardinalityType
<1>2. K \subseteq Nat /\ i \in Nat
  <2>1. \A j \in K : j \in Nat
    OBVIOUS
  <2> QED
    BY <2>1
<1>3. \A n \in Nat : Upto(n) \in SUBSET K /\ IsFiniteSet(Upto(n)) /\ Cardinality(Upto(n)) \in Nat
  <2> SUFFICES ASSUME NEW n \in Nat
               PROVE  Upto(n) \in SUBSET K /\ IsFiniteSet(Upto(n)) /\ Cardinality(Upto(n)) \in Nat
    OBVIOUS
  <2>1. Upto(n) \in SUBSET K
    OBVIOUS
  <2> HIDE DEF Upto
  <2> QED
    BY <1>1, <2>1, FS_Subset, FS_CardinalityType
<1>4. Rank(K, i) \in 1 .. Cardinality(K)
  <2>1. i \in Upto(i)
    BY <1>2
  <2>2. Rank(K, i) = Cardinality(Upto(i))
    BY DEF Rank
  <2> HIDE DEF Upto
  <2>3. Cardinality(Upto(i)) <= Cardinality(K)
    BY <1>1, <1>2, <1>3, FS_Subset
  <2>4. Upto(i) # {}
    BY <2>1
  <2>5. Cardinality(Upto(i)) # 0
    BY <1>2, <1>3, <2>4, FS_EmptySet
  <2> QED
    BY <1>1, <1>2, <1>3, <2>2, <2>3, <2>5
<1>5. ASSUME NEW j \in K, NEW k \in K, j < k
      PROVE  Rank(K, j) # Rank(K, k)
  <2>1. j \in Nat /\ k \in Nat
    BY <1>2
  <2>2. Upto(j) \in SUBSET Upto(k)
    <3>1. \A m \in K : m <= j => m <= k
      BY <1>2, <1>5, <2>1
    <3> QED
      BY <3>1
  <2>3. k \in Upto(k) /\ k \notin Upto(j)
    BY <1>5, <2>1
  <2>4. Rank(K, j) = Cardinality(Upto(j)) /\ Rank(K, k) = Cardinality(Upto(k))
    BY DEF Rank
  <2> HIDE DEF Upto
  <2>5. Upto(j) # Upto(k)
    BY <2>3
  <2> QED
    BY <1>3, <2>1, <2>2, <2>4, <2>5, FS_Subset
<1>6. \A j \in K : Rank(K, j) = Rank(K, i) => j = i
  <2> SUFFICES ASSUME NEW j \in K, j # i
               PROVE  Rank(K, j) # Rank(K, i)
    OBVIOUS
  <2>1. j < i \/ i < j
    BY <1>2
  <2> QED
    BY <1>5, <2>1
<1>7. PlaceOf(K, Rank(K, i)) \in K /\ Rank(K, PlaceOf(K, Rank(K, i))) = Rank(K, i)
  BY <1>4, PlaceOfInRange
<1> QED
  BY <1>4, <1>6, <1>7

-----------------------------------------------------------------------------
\* The carts the invariant is about.
WFCart == {c \in Seq(Line) : WellFormed(c)}

\* Appending a product that is not in the cart yet keeps the cart well formed.
LEMMA AddKeepsWF ==
    ASSUME NEW c \in WFCart, NEW t \in Titles, NEW q \in 1 .. MaxQuantity,
           NEW p \in Prices, t \notin TitlesOf(c)
    PROVE  AddToCart(c, NewLine(c, t, q, p)) \in WFCart
<1> DEFINE l == NewLine(c, t, q, p)
           d == Append(c, l)
<1>1. c \in Seq(Line) /\ Len(c) \in Nat /\ WellFormed(c)
  BY DEF WFCart
<1>2. l \in Line /\ l.productId = Len(c) /\ l.productTitle = t
  BY <1>1 DEF NewLine, Line
<1>3. AddToCart(c, l) = d
  BY <1>1, <1>2 DEF AddToCart
<1>4. d \in Seq(Line)
  BY <1>1, <1>2
<1>5. /\ DOMAIN d = 1 .. Len(c) + 1
      /\ \A i \in 1 .. Len(c) : d[i] = c[i]
      /\ d[Len(c) + 1] = l
      /\ DOMAIN c = 1 .. Len(c)
  BY <1>1, <1>2
<1>6. \A i \in 1 .. Len(c) : d[i].productTitle # t
  BY <1>5 DEF TitlesOf
<1> HIDE DEF d, l
<1>7. UniqueTitlesIn(d)
  BY <1>1, <1>2, <1>5, <1>6, SMT DEF UniqueTitlesIn, WellFormed
<1>8. IdNotLeftIn(d)
  BY <1>1, <1>2, <1>5, SMT DEF IdNotLeftIn, WellFormed
<1> QED
  BY <1>3, <1>4, <1>7, <1>8 DEF WFCart, WellFormed, l

\* A change of quantity keeps the cart well formed.
LEMMA UpdateKeepsWF ==
    ASSUME NEW c \in WFCart, NEW id, NEW q \in 1 .. MaxQuantity
    PROVE  UpdateQuantity(c, id, q) \in WFCart
<1>1. CASE IndexOf(c, id) = 0
  BY <1>1 DEF UpdateQuantity
<1>2. CASE IndexOf(c, id) # 0
  <2> DEFINE k == IndexOf(c, id)
             d == [c EXCEPT ![k].quantity = q]
  <2>1. c \in Seq(Line) /\ WellFormed(c)
    BY DEF WFCart
  <2>2. k \in DOMAIN c
    BY <1>2, <2>1, IndexOfInRange
  <2> HIDE DEF k
  <2>3. /\ DOMAIN d = DOMAIN c
        /\ \A i \in DOMAIN c : /\ d[i].productTitle = c[i].productTitle
                               /\ d[i].productId = c[i].productId
    BY <2>1, <2>2 DEF Line
  <2>4. d \in Seq(Line)
    <3>1. \A l \in Line : [l EXCEPT !.quantity = q] \in Line
      BY DEF Line
    <3>2. \A i \in 1 .. Len(c) :
             d[i] = IF i = k THEN [c[i] EXCEPT !.quantity = q] ELSE c[i]
      BY <2>1, <2>2
    <3>3. \A i \in 1 .. Len(c) : d[i] \in Line
      BY <2>1, <3>1, <3>2
    <3>4. DOMAIN d = 1 .. Len(c) /\ Len(c) \in Nat /\ d = [i \in DOMAIN d |-> d[i]]
      BY <2>1
    <3> HIDE DEF d
    <3> QED
      BY <3>3, <3>4
  <2>5. WellFormed(d)
    BY <2>1, <2>3 DEF WellFormed, UniqueTitlesIn, IdNotLeftIn
  <2> QED
    BY <1>2, <2>4, <2>5 DEF UpdateQuantity, WFCart, k
<1> QED
  BY <1>1, <1>2

\* Removing lines keeps the cart well formed: the lines that stay move left.
LEMMA RemoveKeepsWF ==
    ASSUME NEW c \in WFCart, NEW id
    PROVE  RemoveItem(c, id) \in WFCart
<1> DEFINE K == {i \in DOMAIN c : c[i].productId # id}
           d == [k \in 1 .. Cardinality(K) |-> c[PlaceOf(K, k)]]
<1>1. c \in Seq(Line) /\ WellFormed(c) /\ Len(c) \in Nat /\ DOMAIN c = 1 .. Len(c)
  BY DEF WFCart
<1>2. K \in SUBSET (1 .. Len(c))
  BY <1>1
<1> HIDE DEF K
<1>3. Cardinality(K) \in Nat
  <2>1. IsFiniteSet(1 .. Len(c))
    BY <1>1, FS_Interval
  <2> QED
    BY <1>2, <2>1, FS_Subset, FS_CardinalityType
<1>4. \A k \in 1 .. Cardinality(K) :
         PlaceOf(K, k) \in DOMAIN c /\ Rank(K, PlaceOf(K, k)) = k /\ k <= PlaceOf(K, k)
  BY <1>1, <1>2, PlaceOfInRange
<1>5. d \in Seq(Line)
  <2>1. \A k \in 1 .. Cardinality(K) : c[PlaceOf(K, k)] \in Line
    BY <1>1, <1>4
  <2> QED
    BY <1>3, <2>1
<1>6. UniqueTitlesIn(d)
  BY <1>1, <1>4 DEF UniqueTitlesIn, WellFormed
<1>7. IdNotLeftIn(d)
  <2> SUFFICES ASSUME NEW k \in 1 .. Cardinality(K)
               PROVE  c[PlaceOf(K, k)].productId + 1 >= k
    BY DEF IdNotLeftIn
  <2>1. c[PlaceOf(K, k)].productId + 1 >= PlaceOf(K, k)
    BY <1>1, <1>4 DEF WellFormed, IdNotLeftIn
  <2>2. c[PlaceOf(K, k)].productId \in Nat /\ PlaceOf(K, k) \in Nat
    <3>1. PlaceOf(K, k) \in 1 .. Len(c)
      BY <1>1, <1>4
    <3>2. c[PlaceOf(K, k)] \in Line
      BY <1>1, <3>1
    <3> QED
      BY <3>1, <3>2 DEF Line
  <2> QED
    BY <1>3, <1>4, <2>1, <2>2
<1> QED
  BY <1>5, <1>6, <1>7 DEF RemoveItem, WFCart, WellFormed, K

\* What is left is made of the lines with other productIds.
LEMMA RemoveKeepsLines ==
    ASSUME NEW c \in WFCart, NEW id
    PROVE  /\ \A k \in DOMAIN RemoveItem(c, id) :
                 \E i \in DOMAIN c : c[i].productId # id /\ RemoveItem(c, id)[k] = c[i]
           /\ \A i \in DOMAIN c : c[i].productId # id =>
                 \E k \in DOMAIN RemoveItem(c, id) : RemoveItem(c, id)[k] = c[i]
<1> DEFINE K == {i \in DOMAIN c : c[i].productId # id}
           d == [k \in 1 .. Cardinality(K) |-> c[PlaceOf(K, k)]]
<1>1. Len(c) \in Nat /\ DOMAIN c = 1 .. Len(c)
  BY DEF WFCart
<1>2. K \in SUBSET (1 .. Len(c))
  BY <1>1
<1>3. RemoveItem(c, id) = d
  BY DEF RemoveItem
<1>4. \A i \in DOMAIN c : c[i].productId # id <=> i \in K
  OBVIOUS
<1>5. K \subseteq DOMAIN c
  OBVIOUS
<1> HIDE DEF K
<1>6. \A k \in 1 .. Cardinality(K) : PlaceOf(K, k) \in K
  BY <1>1, <1>2, PlaceOfInRange
<1>7. \A k \in DOMAIN d : \E i \in DOMAIN c : c[i].productId # id /\ d[k] = c[i]
  BY <1>4, <1>5, <1>6
<1>8. ASSUME NEW i \in DOMAIN c, c[i].productId # id
      PROVE  \E k \in DOMAIN d : d[k] = c[i]
  <2>1. i \in K
    BY <1>4, <1>8
  <2>2. Rank(K, i) \in 1 .. Cardinality(K) /\ PlaceOf(K, Rank(K, i)) = i
    BY <1>1, <1>2, <2>1, PlaceOfReaches
  <2>3. Rank(K, i) \in DOMAIN d /\ d[Rank(K, i)] = c[i]
    BY <2>2
  <2> QED
    BY <2>3, Zenon
<1> HIDE DEF d
<1> QED
  BY <1>3, <1>7, <1>8

\* The empty cart is well formed.
LEMMA EmptyIsWF == << >> \in WFCart
  BY DEF WFCart, WellFormed, UniqueTitlesIn, IdNotLeftIn

-----------------------------------------------------------------------------
(***************************************************************************)
(* The closed forms of RemoveItem and Discount against the folds a reader  *)
(* would expect.  A fold is a recursive function on the sets of what is    *)
(* left to fold; it is known once some function is seen to satisfy the     *)
(* recursion (Kept, and W) and the recursion to have one solution          *)
(* (FoldIsUnique, where x is what is folded next).                         *)
(***************************************************************************)

\* The last element of a nonempty set of positions is one of them.
LEMMA MaxIsMember ==
    ASSUME NEW n \in Nat, NEW s \in SUBSET (1 .. n), s # {}
    PROVE  Max(s) \in s /\ \A j \in s : j <= Max(s)
<1> DEFINE U == {a \in Nat : \A j \in s : j <= a}
<1>1. n \in U
  OBVIOUS
<1>2. PICK b \in U : \A a \in U : b <= a
  <2>1. U \subseteq Nat /\ U # {}
    BY <1>1
  <2> HIDE DEF U
  <2> QED
    BY <2>1, LeastElement
<1>3. b \in s
  <2> SUFFICES ASSUME b \notin s
               PROVE  FALSE
    OBVIOUS
  <2>0. \A j \in s : j <= b
    BY <1>2
  <2>1. \A j \in s : j \in Nat /\ j >= 1 /\ j <= b /\ j # b
    BY <2>0
  <2>a. PICK k \in s : TRUE
    OBVIOUS
  <2>2. b \in Nat /\ b >= 1
    BY <1>2, <2>1, <2>a
  <2>3. b - 1 \in Nat /\ \A j \in s : j <= b - 1
    BY <2>1, <2>2
  <2>4. b - 1 \in U
    BY <2>3
  <2> QED
    BY <1>2, <2>2, <2>4
<1>4. \A j \in s : b >= j
  BY <1>2
<1>5. Max(s) \in s /\ \A j \in s : Max(s) >= j
  <2>1. \E x \in s : \A y \in s : x >= y
    BY <1>3, <1>4
  <2> QED
    BY <2>1, Zenon DEF Max
<1>6. \A j \in s : j \in Nat
  OBVIOUS
<1> QED
  BY <1>5, <1>6

LEMMA FoldIsUnique ==
    ASSUME NEW S, IsFiniteSet(S), NEW u, NEW r, u[{}] = r[{}],
           \A s \in SUBSET S : s # {} => \E x \in s : u[s \ {x}] = r[s \ {x}] => u[s] = r[s]
    PROVE  u[S] = r[S]
<1> DEFINE B == {k \in Nat : \E s \in SUBSET S : Cardinality(s) = k /\ u[s] # r[s]}
<1>0. \A s \in SUBSET S : IsFiniteSet(s) /\ Cardinality(s) \in Nat
  BY FS_Subset, FS_CardinalityType
<1>1. B = {}
  <2> SUFFICES ASSUME B # {}
               PROVE  FALSE
    OBVIOUS
  <2>1. PICK m \in B : \A k \in B : m <= k
    <3>1. B \subseteq Nat
      OBVIOUS
    <3> HIDE DEF B
    <3> QED
      BY <3>1, LeastElement
  <2>2. PICK s \in SUBSET S : Cardinality(s) = m /\ u[s] # r[s]
    BY <2>1
  <2>3. s # {}
    BY <2>2
  <2>a. PICK x \in s : u[s \ {x}] = r[s \ {x}] => u[s] = r[s]
    BY <2>3
  <2> DEFINE t == s \ {x}
  <2>4. t \in SUBSET S /\ u[t] # r[t]
    BY <2>2, <2>a
  <2>5. Cardinality(t) = m - 1 /\ m \in Nat /\ Cardinality(t) \in Nat
    BY <1>0, <2>1, <2>2, <2>4, FS_RemoveElement
  <2> HIDE DEF t
  <2>6. Cardinality(t) \in B
    BY <2>4, <2>5
  <2> QED
    BY <2>1, <2>5, <2>6
<1>2. S \in SUBSET S
  OBVIOUS
<1> HIDE DEF B
<1>3. Cardinality(S) \notin B
  BY <1>1
<1> QED
  BY <1>0, <1>2, <1>3 DEF B

-----------------------------------------------------------------------------
\* The last of the positions that stay is enumerated last.
LEMMA LastPlace ==
    ASSUME NEW N \in Nat, NEW M \in SUBSET (1 .. N), NEW m \in M, \A j \in M : j <= m
    PROVE  /\ Cardinality(M \ {m}) \in Nat
           /\ Cardinality(M) = Cardinality(M \ {m}) + 1
           /\ PlaceOf(M, Cardinality(M)) = m
           /\ \A k \in 1 .. Cardinality(M \ {m}) : PlaceOf(M, k) = PlaceOf(M \ {m}, k)
<1> DEFINE L == M \ {m}
<1>1. IsFiniteSet(M) /\ Cardinality(M) \in Nat
  <2>1. IsFiniteSet(1 .. N)
    BY FS_Interval
  <2> QED
    BY <2>1, FS_Subset, FS_CardinalityType
<1>2. IsFiniteSet(L) /\ Cardinality(L) \in Nat /\ Cardinality(M) = Cardinality(L) + 1
  <2>1. IsFiniteSet(M \ {m}) /\ Cardinality(M \ {m}) = Cardinality(M) - 1
    BY <1>1, FS_RemoveElement
  <2> HIDE DEF L
  <2>2. IsFiniteSet(L) /\ Cardinality(L) = Cardinality(M) - 1
    BY <2>1 DEF L
  <2>3. Cardinality(L) \in Nat
    BY <2>2, FS_CardinalityType
  <2> QED
    BY <1>1, <2>2, <2>3
<1>3. Rank(M, m) = Cardinality(M)
  <2>1. {j \in M : j <= m} = M
    OBVIOUS
  <2> QED
    BY <2>1 DEF Rank
<1>4. PlaceOf(M, Cardinality(M)) = m
  BY <1>3, PlaceOfReaches
<1>5. ASSUME NEW k \in 1 .. Cardinality(L)
      PROVE  PlaceOf(M, k) = PlaceOf(L, k)
  <2> DEFINE i == PlaceOf(L, k)
  <2>0. L \in SUBSET (1 .. N)
    OBVIOUS
  <2>1. i \in L /\ Rank(L, i) = k
    BY <2>0, PlaceOfInRange
  <2> HIDE DEF i
  <2>2. i \in M /\ ~ (m <= i)
    <3>1. i \in Nat /\ m \in Nat /\ i <= m /\ i # m
      BY <2>1
    <3> QED
      BY <2>1, <3>1
  <2>3. {j \in M : j <= i} = {j \in L : j <= i}
    BY <2>2
  <2>4. Rank(M, i) = k
    BY <2>1, <2>3 DEF Rank
  <2> QED
    BY <2>2, <2>4, PlaceOfReaches DEF i
<1> QED
  BY <1>2, <1>4, <1>5

\* The lines at the positions of s that do not have the productId.
Staying(c, id) == {i \in DOMAIN c : c[i].productId # id}
Kept(c, K) == [k \in 1 .. Cardinality(K) |-> c[PlaceOf(K, k)]]

\* One line more.
LEMMA KeptStep ==
    ASSUME NEW c \in Seq(Line), NEW K \in SUBSET DOMAIN c, NEW s \in SUBSET DOMAIN c, s # {}
    PROVE  Kept(c, K \cap s) =
              IF Max(s) \in K THEN Append(Kept(c, K \cap (s \ {Max(s)})), c[Max(s)])
                              ELSE Kept(c, K \cap (s \ {Max(s)}))
<1> DEFINE m == Max(s)
           M == K \cap s
           L == K \cap (s \ {m})
<1>1. Len(c) \in Nat /\ DOMAIN c = 1 .. Len(c)
  OBVIOUS
<1>2. m \in s /\ \A j \in s : j <= m
  BY <1>1, MaxIsMember
<1> HIDE DEF m
<1>3. CASE m \notin K
  <2>1. L = M
    BY <1>3
  <2> QED
    BY <1>3, <2>1 DEF m
<1>4. CASE m \in K
  <2>1. M \in SUBSET (1 .. Len(c)) /\ m \in M /\ L = M \ {m} /\ \A j \in M : j <= m
    BY <1>1, <1>2, <1>4
  <2> HIDE DEF M, L
  <2>a. /\ Cardinality(M \ {m}) \in Nat
        /\ Cardinality(M) = Cardinality(M \ {m}) + 1
        /\ PlaceOf(M, Cardinality(M)) = m
        /\ \A k \in 1 .. Cardinality(M \ {m}) : PlaceOf(M, k) = PlaceOf(M \ {m}, k)
    BY <1>1, <2>1, LastPlace
  <2>2. /\ Cardinality(L) \in Nat
        /\ Cardinality(M) = Cardinality(L) + 1
        /\ PlaceOf(M, Cardinality(M)) = m
        /\ \A k \in 1 .. Cardinality(L) : PlaceOf(M, k) = PlaceOf(L, k)
    BY <2>1, <2>a
  <2>3. L \in SUBSET (1 .. Len(c))
    BY <2>1
  <2>4. \A k \in 1 .. Cardinality(L) : PlaceOf(L, k) \in DOMAIN c
    BY <1>1, <2>3, PlaceOfInRange
  <2>5. Kept(c, L) \in Seq(Line) /\ Len(Kept(c, L)) = Cardinality(L)
    <3>1. \A k \in 1 .. Cardinality(L) : c[PlaceOf(L, k)] \in Line
      BY <1>1, <2>4
    <3> QED
      BY <2>2, <3>1 DEF Kept
  <2>6. \A k \in 1 .. Cardinality(L) : Kept(c, M)[k] = Kept(c, L)[k]
    BY <2>2 DEF Kept
  <2>7. Kept(c, M)[Cardinality(M)] = c[m] /\ DOMAIN Kept(c, M) = 1 .. Cardinality(M)
    BY <2>2 DEF Kept
  <2>8. Kept(c, M) = [k \in 1 .. Cardinality(M) |-> Kept(c, M)[k]]
    BY DEF Kept
  <2>9. Append(Kept(c, L), c[m]) =
           [k \in 1 .. Cardinality(L) + 1 |->
               IF k = Cardinality(L) + 1 THEN c[m] ELSE Kept(c, L)[k]]
    BY <2>5
  <2>10. \A k \in 1 .. Cardinality(M) :
            Kept(c, M)[k] = IF k = Cardinality(L) + 1 THEN c[m] ELSE Kept(c, L)[k]
    BY <2>2, <2>6, <2>7
  <2>11. Kept(c, M) = Append(Kept(c, L), c[m])
    BY <2>2, <2>8, <2>9, <2>10
  <2> QED
    BY <1>4, <2>11 DEF m, M, L
<1> QED
  BY <1>3, <1>4

\* removeItem is the loop over the lines that keeps those with another
\* productId, in their order.
LEMMA RemoveIsTheLoop ==
    ASSUME NEW c \in Seq(Line), NEW id
    PROVE  RemoveItem(c, id) = RemoveWhere(c, id)
<1> DEFINE Loop(v) == v = [s \in SUBSET DOMAIN c |->
                             IF s = {} THEN << >>
                             ELSE IF c[Max(s)].productId # id
                                  THEN Append(v[s \ {Max(s)}], c[Max(s)])
                                  ELSE v[s \ {Max(s)}]]
           K == Staying(c, id)
           r == [s \in SUBSET DOMAIN c |-> Kept(c, K \cap s)]
           v == CHOOSE u : Loop(u)
<1>1. /\ Len(c) \in Nat /\ DOMAIN c = 1 .. Len(c) /\ K \in SUBSET DOMAIN c
      /\ \A i \in DOMAIN c : i \in K <=> c[i].productId # id
  BY DEF Staying
<1>2. RemoveWhere(c, id) = v[DOMAIN c]
  BY DEF RemoveWhere, FoldLeft, MapThenFoldSet
<1>3. \A s \in SUBSET DOMAIN c : s # {} => Max(s) \in s
  BY <1>1, MaxIsMember
<1> HIDE DEF K
<1>4. r[{}] = << >>
  <2>1. {} \in SUBSET DOMAIN c /\ K \cap {} = {} /\ Cardinality({}) = 0
    BY FS_EmptySet
  <2>2. r[{}] = Kept(c, {})
    BY <2>1
  <2>3. Kept(c, {}) = << >>
    BY <2>1 DEF Kept
  <2> QED
    BY <2>2, <2>3
<1>5. ASSUME NEW s \in SUBSET DOMAIN c, s # {}
      PROVE  r[s] = IF c[Max(s)].productId # id
                    THEN Append(r[s \ {Max(s)}], c[Max(s)])
                    ELSE r[s \ {Max(s)}]
  <2>1. Max(s) \in DOMAIN c /\ s \ {Max(s)} \in SUBSET DOMAIN c
    BY <1>3, <1>5
  <2>2. r[s] = Kept(c, K \cap s) /\ r[s \ {Max(s)}] = Kept(c, K \cap (s \ {Max(s)}))
    BY <2>1
  <2>3. Kept(c, K \cap s) =
              IF Max(s) \in K THEN Append(Kept(c, K \cap (s \ {Max(s)})), c[Max(s)])
                              ELSE Kept(c, K \cap (s \ {Max(s)}))
    BY <1>1, <1>5, KeptStep
  <2> HIDE DEF r
  <2> QED
    BY <1>1, <2>1, <2>2, <2>3
<1>6. r = [s \in SUBSET DOMAIN c |-> r[s]]
  OBVIOUS
<1> HIDE DEF r
<1>7. Loop(r)
  BY <1>4, <1>5, <1>6
<1>8. Loop(v)
  BY <1>7
<1> HIDE DEF v
<1>9. v[{}] = << >>
  BY <1>8
<1>10. ASSUME NEW s \in SUBSET DOMAIN c, s # {}
       PROVE  \E x \in s : v[s \ {x}] = r[s \ {x}] => v[s] = r[s]
  <2>1. v[s \ {Max(s)}] = r[s \ {Max(s)}] => v[s] = r[s]
    BY <1>5, <1>8, <1>10
  <2> QED
    BY <1>3, <1>10, <2>1
<1>11. v[{}] = r[{}]
  BY <1>4, <1>9
<1>12. IsFiniteSet(DOMAIN c)
  BY <1>1, FS_Interval
<1> HIDE DEF Loop
<1>13. v[DOMAIN c] = r[DOMAIN c]
  <2>1. \A s \in SUBSET DOMAIN c : s # {} =>
           \E x \in s : v[s \ {x}] = r[s \ {x}] => v[s] = r[s]
    BY <1>10, Zenon
  <2> QED
    BY <1>11, <1>12, <2>1, FoldIsUnique, Zenon
<1>14. r[DOMAIN c] = RemoveItem(c, id)
  <2>1. K \cap DOMAIN c = K /\ DOMAIN c \in SUBSET DOMAIN c
    BY <1>1
  <2> QED
    BY <2>1 DEF r, K, Kept, Staying, RemoveItem
<1> QED
  BY <1>2, <1>13, <1>14

-----------------------------------------------------------------------------
\* Amounts at positions have a sum: one function on the sets of positions that
\* takes any of its members off.
LEMMA SumExists ==
    ASSUME NEW N \in Nat, NEW A \in [1 .. N -> Nat]
    PROVE  \E W \in [SUBSET (1 .. N) -> Nat] :
              /\ W[{}] = 0
              /\ \A K \in SUBSET (1 .. N) : \A i \in K : W[K] = W[K \ {i}] + A[i]
<1> DEFINE SumsTo(n, W) ==
             /\ W \in [SUBSET (1 .. n) -> Nat]
             /\ W[{}] = 0
             /\ \A K \in SUBSET (1 .. n) : \A i \in K : W[K] = W[K \ {i}] + A[i]
           B == {n \in 0 .. N : ~ \E W : SumsTo(n, W)}
<1>1. B = {}
  <2> SUFFICES ASSUME B # {}
               PROVE  FALSE
    OBVIOUS
  <2>1. PICK m \in B : \A k \in B : m <= k
    <3>1. B \subseteq Nat
      OBVIOUS
    <3> HIDE DEF B
    <3> QED
      BY <3>1, LeastElement
  <2>2. m \in 0 .. N /\ ~ \E W : SumsTo(m, W)
    OBVIOUS
  <2>3. m # 0
    <3> SUFFICES ASSUME m = 0
                 PROVE  FALSE
      OBVIOUS
    <3> DEFINE Z == [K \in SUBSET (1 .. 0) |-> 0]
    <3>1. 1 .. 0 = {}
      OBVIOUS
    <3>2. SumsTo(0, Z)
      BY <3>1
    <3> HIDE DEF SumsTo
    <3> QED
      BY <2>2, <3>2
  <2> DEFINE k == m - 1
  <2>4. k \in 0 .. N /\ k + 1 = m /\ k \notin B /\ 1 .. m = (1 .. k) \cup {m} /\ m \notin 1 .. k
    <3> HIDE DEF B
    <3>1. k \in 0 .. N /\ k + 1 = m /\ ~ (m <= k)
      BY <2>2, <2>3
    <3>2. k \notin B
      BY <2>1, <3>1
    <3> HIDE DEF k
    <3> QED
      BY <3>1, <3>2
  <2> HIDE DEF k
  <2>5. PICK V : SumsTo(k, V)
    BY <2>4
  <2> DEFINE W == [K \in SUBSET (1 .. m) |-> IF m \in K THEN V[K \ {m}] + A[m] ELSE V[K]]
  <2>6. \A K \in SUBSET (1 .. m) : K \ {m} \in SUBSET (1 .. k) /\ (m \notin K => K \ {m} = K)
    BY <2>4
  <2>7. A[m] \in Nat /\ \A i \in 1 .. k : A[i] \in Nat
    BY <2>2, <2>3, <2>4
  <2>8. W \in [SUBSET (1 .. m) -> Nat]
    <3>1. \A K \in SUBSET (1 .. m) : V[K \ {m}] \in Nat
      BY <2>5, <2>6
    <3>2. \A K \in SUBSET (1 .. m) : m \notin K => V[K] \in Nat
      BY <2>6, <3>1
    <3> QED
      BY <2>7, <3>1, <3>2
  <2>9. W[{}] = 0
    BY <2>5
  <2>10. ASSUME NEW K \in SUBSET (1 .. m), NEW i \in K
         PROVE  W[K] = W[K \ {i}] + A[i]
    <3> DEFINE L == K \ {m}
    <3>0. L \in SUBSET (1 .. k) /\ K \ {i} \in SUBSET (1 .. m)
      BY <2>6
    <3>1. CASE i = m
      BY <3>0, <3>1
    <3>2. CASE i # m /\ m \in K
      <4>1. i \in L /\ (K \ {i}) \ {m} = L \ {i} /\ m \in K \ {i} /\ i \in 1 .. k
        BY <3>0, <3>2
      <4>2. W[K] = V[L] + A[m] /\ W[K \ {i}] = V[L \ {i}] + A[m]
        BY <3>0, <3>2, <4>1
      <4> HIDE DEF W, L
      <4>3. V[L] = V[L \ {i}] + A[i] /\ V[L \ {i}] \in Nat
        BY <2>5, <3>0, <4>1
      <4>4. A[i] \in Nat /\ A[m] \in Nat
        BY <2>7, <4>1
      <4> QED
        BY <4>2, <4>3, <4>4
    <3>3. CASE i # m /\ m \notin K
      <4>1. K = L /\ m \notin K \ {i}
        BY <3>3
      <4>2. W[K] = V[L] /\ W[K \ {i}] = V[L \ {i}]
        BY <3>0, <4>1
      <4> HIDE DEF W, L
      <4>3. V[L] = V[L \ {i}] + A[i]
        BY <2>5, <3>0, <4>1
      <4> QED
        BY <4>2, <4>3
    <3> QED
      BY <3>1, <3>2, <3>3
  <2>11. SumsTo(m, W)
    <3> HIDE DEF W
    <3> QED
      BY <2>8, <2>9, <2>10
  <2> HIDE DEF W, SumsTo
  <2> QED
    BY <2>2, <2>11
<1> HIDE DEF SumsTo
<1>2. \A n \in 0 .. N : \E W : SumsTo(n, W)
  BY <1>1
<1>3. PICK W : SumsTo(N, W)
  BY <1>2
<1> QED
  BY <1>3 DEF SumsTo

\* The amount of a line of a cart is a natural number.
LEMMA AmountIsNat ==
    ASSUME NEW c \in Seq(Line), NEW i \in DOMAIN c
    PROVE  c[i].price * c[i].quantity \in Nat
<1>1. c[i] \in Line
  OBVIOUS
<1>2. c[i].price \in Nat /\ c[i].quantity \in Nat
  <2>1. c[i].price \in Prices /\ c[i].quantity \in 1 .. MaxQuantity
    BY <1>1 DEF Line
  <2>2. c[i].price \in Nat
    BY <2>1, PricesAssumption
  <2>3. c[i].quantity \in Nat
    BY <2>1, MaxQuantityAssumption
  <2> QED
    BY <2>2, <2>3
<1> QED
  BY <1>2

LineAmounts(c) == [i \in 1 .. Len(c) |-> c[i].price * c[i].quantity]

\* W gives the amount of every set of positions of the cart.
SumsAmounts(c, W) ==
    /\ W \in [SUBSET (1 .. Len(c)) -> Nat]
    /\ W[{}] = 0
    /\ \A K \in SUBSET (1 .. Len(c)) : \A i \in K :
          W[K] = W[K \ {i}] + c[i].price * c[i].quantity

LEMMA AmountsHaveASum ==
    ASSUME NEW c \in Seq(Line)
    PROVE  \E W : SumsAmounts(c, W)
<1>1. Len(c) \in Nat /\ DOMAIN c = 1 .. Len(c)
  OBVIOUS
<1>2. LineAmounts(c) \in [1 .. Len(c) -> Nat]
  BY <1>1, AmountIsNat DEF LineAmounts
<1> DEFINE A == LineAmounts(c)
<1>3. \A i \in 1 .. Len(c) : A[i] = c[i].price * c[i].quantity
  BY DEF LineAmounts
<1> HIDE DEF A
<1>4. \E W \in [SUBSET (1 .. Len(c)) -> Nat] :
              /\ W[{}] = 0
              /\ \A K \in SUBSET (1 .. Len(c)) : \A i \in K : W[K] = W[K \ {i}] + A[i]
  BY <1>1, <1>2, SumExists DEF A
<1>5. PICK W \in [SUBSET (1 .. Len(c)) -> Nat] :
              /\ W[{}] = 0
              /\ \A K \in SUBSET (1 .. Len(c)) : \A i \in K : W[K] = W[K \ {i}] + A[i]
  BY <1>4
<1>6. ASSUME NEW K \in SUBSET (1 .. Len(c)), NEW i \in K
      PROVE  W[K] = W[K \ {i}] + c[i].price * c[i].quantity
  <2>1. i \in 1 .. Len(c) /\ W[K] = W[K \ {i}] + A[i]
    BY <1>5
  <2>2. A[i] = c[i].price * c[i].quantity
    BY <1>3, <2>1
  <2> QED
    BY <2>1, <2>2
<1>7. SumsAmounts(c, W)
  BY <1>5, <1>6 DEF SumsAmounts
<1> QED
  BY <1>7

\* The total shown is the sum of the amounts.
LEMMA DiscountIsSum ==
    ASSUME NEW c \in Seq(Line), NEW W, SumsAmounts(c, W)
    PROVE  Discount(c) = W[DOMAIN c]
<1> DEFINE Loop(v) == v = [s \in SUBSET DOMAIN c |->
                             IF s = {} THEN 0
                             ELSE v[s \ {Max(s)}] + c[Max(s)].price * c[Max(s)].quantity]
           v == CHOOSE u : Loop(u)
<1>1. Len(c) \in Nat /\ DOMAIN c = 1 .. Len(c)
  OBVIOUS
<1>2. Discount(c) = v[DOMAIN c]
  BY DEF Discount, FoldLeft, MapThenFoldSet
<1>3. \A s \in SUBSET DOMAIN c : s # {} => Max(s) \in s
  BY <1>1, MaxIsMember
<1>4. W[{}] = 0 /\ W = [s \in SUBSET DOMAIN c |-> W[s]]
  BY <1>1 DEF SumsAmounts
<1>5. ASSUME NEW s \in SUBSET DOMAIN c, s # {}
      PROVE  W[s] = W[s \ {Max(s)}] + c[Max(s)].price * c[Max(s)].quantity
  BY <1>1, <1>3, <1>5, Zenon DEF SumsAmounts
<1>7. Loop(W)
  BY <1>4, <1>5
<1>8. Loop(v)
  BY <1>7
<1> HIDE DEF v
<1>10. ASSUME NEW s \in SUBSET DOMAIN c, s # {}
       PROVE  \E x \in s : v[s \ {x}] = W[s \ {x}] => v[s] = W[s]
  <2>1. v[s] = v[s \ {Max(s)}] + c[Max(s)].price * c[Max(s)].quantity
    BY <1>8, <1>10
  <2>2. v[s \ {Max(s)}] = W[s \ {Max(s)}] => v[s] = W[s]
    BY <1>5, <1>10, <2>1, Zenon
  <2> QED
    BY <1>3, <1>10, <2>2
<1>11. v[{}] = W[{}]
  <2>1. v[{}] = 0
    BY <1>8
  <2> QED
    BY <1>4, <2>1
<1>12. IsFiniteSet(DOMAIN c)
  BY <1>1, FS_Interval
<1> HIDE DEF Loop
<1>13. v[DOMAIN c] = W[DOMAIN c]
  <2>1. \A s \in SUBSET DOMAIN c : s # {} =>
           \E x \in s : v[s \ {x}] = W[s \ {x}] => v[s] = W[s]
    BY <1>10, Zenon
  <2> QED
    BY <1>11, <1>12, <2>1, FoldIsUnique, Zenon
<1> QED
  BY <1>2, <1>13

\* The total shown is a natural number.
LEMMA DiscountIsNat ==
    ASSUME NEW c \in Seq(Line)
    PROVE  Discount(c) \in Nat
<1>1. PICK W : SumsAmounts(c, W)
  BY AmountsHaveASum
<1>2. Discount(c) = W[DOMAIN c]
  BY <1>1, DiscountIsSum
<1>3. DOMAIN c \in SUBSET (1 .. Len(c))
  OBVIOUS
<1>4. W[DOMAIN c] \in Nat
  BY <1>1, <1>3 DEF SumsAmounts
<1> QED
  BY <1>2, <1>4

\* Summing the amounts of the products, one by one in whatever order, gives the
\* same total: two lines are never about the same product.
LEMMA DiscountIsTheTotal ==
    ASSUME NEW c \in WFCart
    PROVE  Discount(c) = SumOverProducts(c)
<1> DEFINE View(i) == [title |-> c[i].productTitle, quantity |-> c[i].quantity,
                       price |-> c[i].price]
           L == LinesOf(c)
           pick(S) == CHOOSE line \in S : TRUE
           Pos(s) == {i \in DOMAIN c : View(i) \in s}
           Loop(v) == v = [s \in SUBSET L |->
                             IF s = {} THEN 0
                             ELSE pick(s).price * pick(s).quantity + v[s \ {pick(s)}]]
           v == CHOOSE u : Loop(u)
<1>1. c \in Seq(Line) /\ Len(c) \in Nat /\ DOMAIN c = 1 .. Len(c) /\ UniqueTitlesIn(c)
  BY DEF WFCart, WellFormed
<1>2. SumOverProducts(c) = v[L]
  BY DEF SumOverProducts, MapThenFoldSet
<1>3. \A s : s # {} => pick(s) \in s
  OBVIOUS
<1>4. L = {View(i) : i \in DOMAIN c}
  BY DEF LinesOf
<1>5. \A i, j \in DOMAIN c : View(i) = View(j) => i = j
  BY <1>1 DEF UniqueTitlesIn
<1>6. \A i \in DOMAIN c : View(i).price = c[i].price /\ View(i).quantity = c[i].quantity
  OBVIOUS
<1> HIDE DEF View, L, pick
<1>7. PICK W : SumsAmounts(c, W)
  BY <1>1, AmountsHaveASum
<1> DEFINE r == [s \in SUBSET L |-> W[Pos(s)]]
<1>8. r[{}] = 0
  <2>1. Pos({}) = {} /\ {} \in SUBSET L
    OBVIOUS
  <2> HIDE DEF Pos
  <2> QED
    BY <1>7, <2>1 DEF SumsAmounts
<1>9. ASSUME NEW s \in SUBSET L, s # {}
      PROVE  r[s] = pick(s).price * pick(s).quantity + r[s \ {pick(s)}]
  <2> DEFINE x == pick(s)
  <2>1. x \in s
    BY <1>3, <1>9
  <2> HIDE DEF x
  <2>2. PICK i \in DOMAIN c : x = View(i)
    BY <1>4, <2>1
  <2>3. i \in Pos(s) /\ Pos(s) \in SUBSET (1 .. Len(c)) /\ Pos(s \ {x}) = Pos(s) \ {i}
    BY <1>1, <1>5, <2>1, <2>2
  <2>4. r[s] = W[Pos(s)] /\ r[s \ {x}] = W[Pos(s \ {x})]
    OBVIOUS
  <2> HIDE DEF Pos, r
  <2>5. W[Pos(s)] = W[Pos(s) \ {i}] + c[i].price * c[i].quantity
    BY <1>7, <2>3, Zenon DEF SumsAmounts
  <2>6. W[Pos(s) \ {i}] \in Nat
    <3>1. Pos(s) \ {i} \in SUBSET (1 .. Len(c))
      BY <2>3
    <3> QED
      BY <1>7, <3>1 DEF SumsAmounts
  <2>7. c[i].price * c[i].quantity \in Nat /\ x.price * x.quantity = c[i].price * c[i].quantity
    BY <1>1, <1>6, <2>2, AmountIsNat
  <2> DEFINE a == c[i].price * c[i].quantity
  <2>8. r[s] = W[Pos(s) \ {i}] + a /\ r[s \ {x}] = W[Pos(s) \ {i}] /\ a \in Nat
        /\ x.price * x.quantity = a
    BY <2>3, <2>4, <2>5, <2>7
  <2> HIDE DEF a
  <2>9. r[s] = a + r[s \ {x}]
    BY <2>6, <2>8
  <2> QED
    BY <2>8, <2>9 DEF x
<1>10. r = [s \in SUBSET L |-> r[s]]
  OBVIOUS
<1>11. L \in SUBSET L /\ Pos(L) = DOMAIN c
  BY <1>4
<1>12. r[L] = W[DOMAIN c]
  BY <1>11
<1> HIDE DEF r
<1>13. Loop(r)
  BY <1>8, <1>9, <1>10
<1>14. Loop(v)
  BY <1>13
<1> HIDE DEF v
<1>15. ASSUME NEW s \in SUBSET L, s # {}
       PROVE  \E x \in s : v[s \ {x}] = r[s \ {x}] => v[s] = r[s]
  <2>1. v[s] = pick(s).price * pick(s).quantity + v[s \ {pick(s)}]
    BY <1>14, <1>15
  <2>2. v[s \ {pick(s)}] = r[s \ {pick(s)}] => v[s] = r[s]
    BY <1>9, <1>15, <2>1, Zenon
  <2> QED
    BY <1>3, <1>15, <2>2
<1>16. v[{}] = r[{}]
  <2>1. v[{}] = 0
    BY <1>14
  <2> QED
    BY <1>8, <2>1
<1>17. IsFiniteSet(L)
  <2> DEFINE f == [i \in 1 .. Len(c) |-> View(i)]
  <2>1. f \in Surjection(1 .. Len(c), L)
    BY <1>1, <1>4 DEF Surjection
  <2>2. ExistsSurjection(1 .. Len(c), L)
    BY <2>1 DEF ExistsSurjection
  <2> QED
    BY <1>1, <2>2, FS_NatSurjection
<1> HIDE DEF Loop
<1>18. v[L] = r[L]
  <2>1. \A s \in SUBSET L : s # {} =>
           \E x \in s : v[s \ {x}] = r[s \ {x}] => v[s] = r[s]
    BY <1>15, Zenon
  <2> QED
    BY <1>16, <1>17, <2>1, FoldIsUnique, Zenon
<1>19. Discount(c) = W[DOMAIN c]
  BY <1>1, <1>7, DiscountIsSum
<1> QED
  BY <1>2, <1>12, <1>18, <1>19, Zenon
=============================================================================
