---------------------------- MODULE ProviderProofs ----------------------------
(***************************************************************************)
(* Proofs about the provider IR as a function of the Ingresses, and the    *)
(* lemmas on sequences, orders and names that they rest on.                *)
(***************************************************************************)
EXTENDS ProviderIR, FiniteSetTheorems, SequenceTheorems, WellFoundedInduction, TLAPS

(***************************************************************************)
(* Sequences                                                               *)
(***************************************************************************)
IsSeq(s) == s \in Seq({s[n] : n \in DOMAIN s})

LEMMA SeqOfAny ==
  ASSUME NEW S, NEW s \in Seq(S)
  PROVE  IsSeq(s) /\ Len(s) \in Nat /\ DOMAIN s = 1..Len(s)
<1>1. Len(s) \in Nat /\ DOMAIN s = 1..Len(s) /\ s \in [1..Len(s) -> S]
  BY LenProperties
<1>2. s \in [1..Len(s) -> {s[n] : n \in DOMAIN s}]
  BY <1>1
<1>3. s \in Seq({s[n] : n \in DOMAIN s})
  <2> DEFINE T == {s[n] : n \in DOMAIN s}  k == Len(s)
  <2>1. k \in Nat /\ s \in [1..k -> T]
    BY <1>1, <1>2
  <2> HIDE DEF T, k
  <2>2. s \in Seq(T)
    BY <2>1
  <2> QED
    BY <2>2 DEF T
<1> QED
  BY <1>1, <1>3 DEF IsSeq

LEMMA IsSeqShape ==
  ASSUME NEW s, IsSeq(s)
  PROVE  Len(s) \in Nat /\ DOMAIN s = 1..Len(s)
  BY LenProperties DEF IsSeq

LEMMA FunctionIsSeq ==
  ASSUME NEW k \in Nat, NEW s, DOMAIN s = 1..k, s = [n \in 1..k |-> s[n]]
  PROVE  IsSeq(s) /\ Len(s) = k
<1>1. s \in [1..k -> {s[n] : n \in DOMAIN s}]
  OBVIOUS
<1> DEFINE T == {s[n] : n \in DOMAIN s}
<1>2. s \in Seq(T) /\ Len(s) = k
  <2>1. s \in [1..k -> T]
    BY <1>1
  <2> HIDE DEF T
  <2> QED
    BY <2>1
<1> QED
  BY <1>2 DEF IsSeq

LEMMA EmptyIsSeq == IsSeq(<<>>) /\ Len(<<>>) = 0
  BY EmptySeq DEF IsSeq

LEMMA ConcatSeq ==
  ASSUME NEW s, NEW t, IsSeq(s), IsSeq(t)
  PROVE  /\ IsSeq(s \o t) /\ Len(s \o t) = Len(s) + Len(t)
         /\ DOMAIN (s \o t) = 1..(Len(s) + Len(t))
         /\ \A n \in 1..Len(s) : (s \o t)[n] = s[n]
         /\ \A n \in 1..Len(t) : (s \o t)[Len(s) + n] = t[n]
<1> DEFINE U == {s[n] : n \in DOMAIN s} \union {t[n] : n \in DOMAIN t}
<1>1. s \in Seq(U) /\ t \in Seq(U)
  BY SeqMonotonic DEF IsSeq
<1>2. /\ s \o t \in Seq(U) /\ Len(s \o t) = Len(s) + Len(t)
      /\ \A n \in 1..(Len(s) + Len(t)) : (s \o t)[n] = IF n <= Len(s) THEN s[n] ELSE t[n - Len(s)]
  BY <1>1, ConcatProperties
<1>3. Len(s) \in Nat /\ Len(t) \in Nat
  BY IsSeqShape
<1>4. IsSeq(s \o t) /\ DOMAIN (s \o t) = 1..Len(s \o t)
  BY <1>2, SeqOfAny
<1> QED
  BY <1>2, <1>3, <1>4

LEMMA AppendSeq ==
  ASSUME NEW s, NEW x, IsSeq(s)
  PROVE  /\ IsSeq(Append(s, x)) /\ Len(Append(s, x)) = Len(s) + 1
         /\ DOMAIN Append(s, x) = 1..(Len(s) + 1)
         /\ \A n \in 1..Len(s) : Append(s, x)[n] = s[n]
         /\ Append(s, x)[Len(s) + 1] = x
<1> DEFINE U == {s[n] : n \in DOMAIN s} \union {x}
<1>1. s \in Seq(U) /\ x \in U
  BY SeqMonotonic DEF IsSeq
<1>2. Len(s) \in Nat
  BY IsSeqShape
<1>3. Append(s, x) \in Seq(U)
  BY <1>1
<1>4. /\ Len(Append(s, x)) = Len(s) + 1
      /\ \A n \in 1..Len(s) : Append(s, x)[n] = s[n]
      /\ Append(s, x)[Len(s) + 1] = x
  BY <1>1, <1>2
<1>5. IsSeq(Append(s, x)) /\ DOMAIN Append(s, x) = 1..Len(Append(s, x))
  BY <1>3, SeqOfAny
<1> QED
  BY <1>2, <1>4, <1>5

(***************************************************************************)
(* Finite sets in their order                                              *)
(***************************************************************************)
LEMMA OrderedShape ==
  ASSUME NEW S, IsFiniteSet(S), NEW order
  PROVE  /\ IsSeq(Ordered(S, order)) /\ Len(Ordered(S, order)) = Cardinality(S)
         /\ DOMAIN Ordered(S, order) = 1..Cardinality(S)
<1>1. Cardinality(S) \in Nat
  BY FS_CardinalityType
<1> DEFINE s == Ordered(S, order)
<1>2. DOMAIN s = 1..Cardinality(S)
  BY DEF Ordered
<1>3. s = [n \in 1..Cardinality(S) |-> s[n]]
  <2> DEFINE k == Cardinality(S)
             e(n) == CHOOSE x \in S : Cardinality({y \in S : <<y, x>> \in order}) = n - 1
  <2>1. s = [n \in 1..k |-> e(n)]
    BY DEF Ordered
  <2> HIDE DEF s, e, k
  <2>2. s = [n \in 1..k |-> s[n]]
    BY <2>1
  <2> QED
    BY <2>2 DEF k
<1> HIDE DEF s
<1> QED
  BY <1>1, <1>2, <1>3, FunctionIsSeq DEF s

IsOrder(S, order) ==
  /\ \A x, y \in S : x # y => <<x, y>> \in order \/ <<y, x>> \in order
  /\ \A x, y, z \in S : <<x, y>> \in order /\ <<y, z>> \in order => <<x, z>> \in order
  /\ \A x \in S : <<x, x>> \notin order

\* The elements before one, and their number.
Preceding(S, order, x) == {y \in S : <<y, x>> \in order}

LEMMA PrecedingFewer ==
  ASSUME NEW S, IsFiniteSet(S), NEW order, IsOrder(S, order), NEW x \in S
  PROVE  /\ Cardinality(Preceding(S, order, x)) \in 0..(Cardinality(S) - 1)
         /\ \A y \in S : <<x, y>> \in order =>
              Cardinality(Preceding(S, order, x)) < Cardinality(Preceding(S, order, y))
<1> DEFINE before(y) == Preceding(S, order, y)
<1>1. \A y \in S : /\ before(y) \subseteq S
                   /\ IsFiniteSet(before(y)) /\ Cardinality(before(y)) \in Nat
  BY FS_Subset, FS_CardinalityType DEF Preceding
<1>2. IsFiniteSet(S \ {x}) /\ Cardinality(S \ {x}) = Cardinality(S) - 1 /\ Cardinality(S) \in Nat
  BY FS_RemoveElement, FS_CardinalityType
<1>3. before(x) \subseteq S \ {x}
  BY DEF Preceding, IsOrder
<1>4. Cardinality(before(x)) <= Cardinality(S) - 1
  BY <1>2, <1>3, FS_Subset
<1>5. ASSUME NEW y \in S, <<x, y>> \in order
      PROVE  Cardinality(before(x)) < Cardinality(before(y))
  <2>1. before(x) \union {x} \subseteq before(y) /\ x \notin before(x)
    BY <1>5 DEF Preceding, IsOrder
  <2>2. Cardinality(before(x) \union {x}) = Cardinality(before(x)) + 1
    BY <1>1, <2>1, FS_AddElement
  <2>3. Cardinality(before(x) \union {x}) <= Cardinality(before(y))
    BY <1>1, <2>1, FS_Subset
  <2> QED
    BY <1>1, <2>2, <2>3
<1> QED
  BY <1>1, <1>2, <1>4, <1>5

LEMMA OrderedElements ==
  ASSUME NEW S, IsFiniteSet(S), NEW order, IsOrder(S, order)
  PROVE  /\ \A n \in DOMAIN Ordered(S, order) : Ordered(S, order)[n] \in S
         /\ \A x \in S : \E n \in DOMAIN Ordered(S, order) : Ordered(S, order)[n] = x
         /\ \A m, n \in DOMAIN Ordered(S, order) :
              m < n => <<Ordered(S, order)[m], Ordered(S, order)[n]>> \in order
<1> DEFINE k    == Cardinality(S)
           r    == [x \in S |-> Cardinality(Preceding(S, order, x))]
           s    == Ordered(S, order)
<1>1. k \in Nat
  BY FS_CardinalityType
<1>2. \A x, y \in S : <<x, y>> \in order => r[x] < r[y]
  BY PrecedingFewer
<1>3. \A x \in S : r[x] \in 0..(k - 1)
  BY PrecedingFewer
<1>4. r \in Injection(S, 0..(k - 1))
  <2>1. ASSUME NEW x \in S, NEW y \in S, x # y
        PROVE  r[x] # r[y]
    <3>1. r[x] < r[y] \/ r[y] < r[x]
      BY <1>2, <2>1 DEF IsOrder
    <3>2. r[x] \in Int /\ r[y] \in Int
      BY <1>1, <1>3
    <3> HIDE DEF r
    <3> QED
      BY <3>1, <3>2
  <2> QED
    BY <1>3, <2>1 DEF Injection, IsInjective
<1>5. IsFiniteSet(0..(k - 1)) /\ Cardinality(0..(k - 1)) = k
  <2>1. 0 \in Int /\ k - 1 \in Int
    BY <1>1
  <2> QED
    BY <1>1, <2>1, FS_Interval
<1>6. r \in Surjection(S, 0..(k - 1))
  <2> HIDE DEF r, k
  <2> QED
    BY <1>4, <1>5, FS_Injection DEF k
<1>7. \A n \in 1..k : s[n] \in S /\ r[s[n]] = n - 1
  <2> TAKE n \in 1..k
  <2>1. n - 1 \in 0..(k - 1)
    BY <1>1
  <2>2. \E x \in S : r[x] = n - 1
    BY <1>6, <2>1 DEF Surjection
  <2>3. \E x \in S : Cardinality({y \in S : <<y, x>> \in order}) = n - 1
    BY <2>2 DEF Preceding
  <2>4. s[n] = CHOOSE x \in S : Cardinality({y \in S : <<y, x>> \in order}) = n - 1
    BY DEF Ordered
  <2>5. s[n] \in S /\ Cardinality({y \in S : <<y, s[n]>> \in order}) = n - 1
    BY <2>3, <2>4
  <2> QED
    BY <2>5 DEF Preceding
<1>8. DOMAIN s = 1..k
  BY DEF Ordered
<1>9. ASSUME NEW x \in S
      PROVE  \E n \in DOMAIN s : s[n] = x
  <2>1. r[x] + 1 \in 1..k
    BY <1>1, <1>3
  <2>2. s[r[x] + 1] \in S /\ r[s[r[x] + 1]] = r[x]
    BY <1>1, <1>3, <1>7, <2>1
  <2>3. s[r[x] + 1] = x
    BY <1>4, <2>2 DEF Injection, IsInjective
  <2> QED
    BY <1>8, <2>1, <2>3
<1>10. ASSUME NEW m \in DOMAIN s, NEW n \in DOMAIN s, m < n
       PROVE  <<s[m], s[n]>> \in order
  <2>1. s[m] \in S /\ s[n] \in S /\ r[s[m]] = m - 1 /\ r[s[n]] = n - 1
    BY <1>7, <1>8
  <2>2. s[m] # s[n] /\ ~(r[s[n]] < r[s[m]])
    BY <1>1, <1>8, <1>10, <2>1
  <2> QED
    BY <1>2, <2>1, <2>2 DEF IsOrder
<1> QED
  BY <1>7, <1>8, <1>9, <1>10

LEMMA LeastNatural ==
  ASSUME NEW T, T \subseteq Nat, T # {}
  PROVE  \E n \in T : \A m \in T : n <= m
<1>1. IsWellFoundedOn(OpToRel(<, Nat), Nat)
  BY NatLessThanWellFounded, Zenon
<1>2. PICK n \in T : \A m \in Nat : <<m, n>> \in OpToRel(<, Nat) => m \notin T
  BY <1>1, WFMin
<1>3. \A m \in T : n <= m
  <2> TAKE m \in T
  <2>1. ~(m < n)
    BY <1>2 DEF OpToRel
  <2> QED
    BY <2>1
<1> QED
  BY <1>3

LEMMA MinIsLeast ==
  ASSUME NEW T, T \subseteq Nat, T # {}
  PROVE  Min(T) \in T /\ \A m \in T : Min(T) <= m
  BY LeastNatural DEF Min

(***************************************************************************)
(* Finite sets made of finite sets                                         *)
(***************************************************************************)
LEMMA IndicesFinite ==
  ASSUME NEW n \in Nat
  PROVE  IsFiniteSet(1..n) /\ Cardinality(1..n) = n
<1>1. 1 \in Int /\ n \in Int
  OBVIOUS
<1>2. IsFiniteSet(1..n) /\ Cardinality(1..n) = IF 1 > n THEN 0 ELSE n - 1 + 1
  BY <1>1, FS_Interval
<1> QED
  BY <1>2

LEMMA ImageFinite ==
  ASSUME NEW f, IsFiniteSet(DOMAIN f)
  PROVE  IsFiniteSet({f[x] : x \in DOMAIN f})
<1> DEFINE T == {f[x] : x \in DOMAIN f}  g == [x \in DOMAIN f |-> f[x]]
<1>1. g \in Surjection(DOMAIN f, T)
  BY DEF Surjection
<1> HIDE DEF g, T
<1> QED
  BY <1>1, FS_Surjection DEF T

LEMMA UnionFinite ==
  ASSUME NEW f, IsFiniteSet(DOMAIN f), \A x \in DOMAIN f : IsFiniteSet(f[x])
  PROVE  IsFiniteSet(UNION {f[x] : x \in DOMAIN f})
<1>1. IsFiniteSet({f[x] : x \in DOMAIN f})
  BY ImageFinite
<1> QED
  BY <1>1, FS_UNION

(***************************************************************************)
(* The order of names                                                      *)
(***************************************************************************)
LEMMA RankOfToken ==
  ASSUME NEW t \in Tokens
  PROVE  Rank(t) \in Nat /\ Alphabet[Rank(t)] = t
<1>1. Rank(t) \in DOMAIN Alphabet /\ Alphabet[Rank(t)] = t
  BY DEF Rank, Tokens
<1>2. DOMAIN Alphabet = 1..Len(Alphabet) /\ Len(Alphabet) \in Nat
  BY AlphabetAssumption, LenProperties
<1> QED
  BY <1>1, <1>2

LEMMA StringShape ==
  ASSUME NEW s \in String
  PROVE  /\ Len(s) \in Nat /\ DOMAIN s = 1..Len(s)
         /\ \A n \in 1..Len(s) : Rank(s[n]) \in Nat /\ Alphabet[Rank(s[n])] = s[n]
<1>1. Len(s) \in Nat /\ DOMAIN s = 1..Len(s) /\ \A n \in 1..Len(s) : s[n] \in Tokens
  BY LenProperties DEF String
<1> QED
  BY <1>1, RankOfToken

LEMMA PrecedesIrreflexive ==
  ASSUME NEW s \in String
  PROVE  ~Precedes(s, s)
  BY StringShape DEF Precedes

LEMMA PrecedesTransitive ==
  ASSUME NEW s \in String, NEW t \in String, NEW u \in String, Precedes(s, t), Precedes(t, u)
  PROVE  Precedes(s, u)
<1>1. PICK m \in 1..Len(t) :
        /\ m <= Len(s) + 1
        /\ \A x \in 1..(m - 1) : s[x] = t[x]
        /\ m <= Len(s) => Rank(s[m]) < Rank(t[m])
  BY DEF Precedes
<1>2. PICK n \in 1..Len(u) :
        /\ n <= Len(t) + 1
        /\ \A x \in 1..(n - 1) : t[x] = u[x]
        /\ n <= Len(t) => Rank(t[n]) < Rank(u[n])
  BY DEF Precedes
<1>3. Len(s) \in Nat /\ Len(t) \in Nat /\ Len(u) \in Nat
  BY StringShape
<1>4. CASE m < n
  <2>1. m \in 1..Len(u) /\ m <= Len(t) /\ m \in 1..(n - 1) /\ t[m] = u[m]
    BY <1>1, <1>2, <1>3, <1>4
  <2>2. \A x \in 1..(m - 1) : s[x] = u[x]
    BY <1>1, <1>2, <1>3, <1>4
  <2> QED
    BY <1>1, <2>1, <2>2 DEF Precedes
<1>5. CASE n < m
  <2>1. n <= Len(s) + 1 /\ n <= Len(t) /\ n \in 1..(m - 1) /\ s[n] = t[n]
    BY <1>1, <1>2, <1>3, <1>5
  <2>2. \A x \in 1..(n - 1) : s[x] = u[x]
    BY <1>1, <1>2, <1>3, <1>5
  <2> QED
    BY <1>2, <2>1, <2>2 DEF Precedes
<1>6. CASE m = n
  <2>1. \A x \in 1..(n - 1) : s[x] = u[x]
    BY <1>1, <1>2, <1>3, <1>6
  <2>2. n <= Len(s) => Rank(s[n]) < Rank(u[n])
    <3> HAVE n <= Len(s)
    <3>1. n \in 1..Len(s) /\ n \in 1..Len(t) /\ n \in 1..Len(u)
      BY <1>1, <1>2, <1>3, <1>6
    <3>2. Rank(s[n]) \in Nat /\ Rank(t[n]) \in Nat /\ Rank(u[n]) \in Nat
      BY <3>1, StringShape
    <3>3. Rank(s[n]) < Rank(t[n]) /\ Rank(t[n]) < Rank(u[n])
      BY <1>1, <1>2, <1>3, <1>6, <3>1
    <3> QED
      BY <3>2, <3>3
  <2> QED
    BY <1>1, <1>6, <2>1, <2>2 DEF Precedes
<1> QED
  BY <1>3, <1>4, <1>5, <1>6

LEMMA PrecedesTotal ==
  ASSUME NEW s \in String, NEW t \in String, s # t
  PROVE  Precedes(s, t) \/ Precedes(t, s)
<1> DEFINE D == {n \in Nat \ {0} : n <= Len(s) /\ n <= Len(t) /\ s[n] # t[n]}
<1>1. /\ Len(s) \in Nat /\ Len(t) \in Nat /\ DOMAIN s = 1..Len(s) /\ DOMAIN t = 1..Len(t)
  BY StringShape
<1>2. CASE D = {}
  <2>1. \A n \in 1..Len(s) : n <= Len(t) => s[n] = t[n]
    BY <1>1, <1>2
  <2>2. Len(s) # Len(t)
    <3>1. s \in Seq(Tokens) /\ t \in Seq(Tokens)
      BY DEF String
    <3>2. ASSUME Len(s) = Len(t)
          PROVE  FALSE
      <4>1. \A n \in 1..Len(s) : s[n] = t[n]
        BY <1>1, <2>1, <3>2
      <4> QED
        BY <3>1, <3>2, <4>1, SeqEqual
    <3> QED
      BY <3>2
  <2>3. CASE Len(s) < Len(t)
    <3>1. Len(s) + 1 \in 1..Len(t) /\ \A n \in 1..Len(s) : s[n] = t[n]
      BY <1>1, <2>1, <2>3
    <3>2. Precedes(s, t)
      BY <1>1, <3>1 DEF Precedes
    <3> QED
      BY <3>2
  <2>4. CASE Len(t) < Len(s)
    <3>1. Len(t) + 1 \in 1..Len(s) /\ \A n \in 1..Len(t) : t[n] = s[n]
      BY <1>1, <2>1, <2>4
    <3>2. Precedes(t, s)
      BY <1>1, <3>1 DEF Precedes
    <3> QED
      BY <3>2
  <2> QED
    <3>1. \A a, b \in Nat : a # b => a < b \/ b < a
      OBVIOUS
    <3>2. Len(s) < Len(t) \/ Len(t) < Len(s)
      BY <1>1, <2>2, <3>1, Zenon
    <3> QED
      BY <2>3, <2>4, <3>2
<1>3. CASE D # {}
  <2>1. D \subseteq Nat
    OBVIOUS
  <2>2. PICK d \in D : \A n \in D : d <= n
    <3> HIDE DEF D
    <3> QED
      BY <1>3, <2>1, LeastNatural
  <2>3. \A n \in 1..(d - 1) : s[n] = t[n]
    BY <1>1, <2>2
  <2>4. Rank(s[d]) \in Nat /\ Rank(t[d]) \in Nat /\ Rank(s[d]) # Rank(t[d])
    BY <1>1, <2>2, StringShape
  <2>5. Rank(s[d]) < Rank(t[d]) \/ Rank(t[d]) < Rank(s[d])
    BY <2>4
  <2>6. d \in 1..Len(s) /\ d \in 1..Len(t) /\ d <= Len(s) + 1 /\ d <= Len(t) + 1
    BY <1>1, <2>2
  <2> QED
    BY <2>3, <2>5, <2>6 DEF Precedes
<1> QED
  BY <1>2, <1>3

LEMMA FirstInOrder ==
  ASSUME NEW S, IsFiniteSet(S), S # {}, NEW order, IsOrder(S, order)
  PROVE  \E x \in S : \A y \in S : x = y \/ <<x, y>> \in order
<1> DEFINE s == Ordered(S, order)
<1>1. DOMAIN s = 1..Cardinality(S) /\ Cardinality(S) \in Nat /\ Cardinality(S) # 0
  BY OrderedShape, FS_CardinalityType, FS_EmptySet
<1>2. /\ \A n \in DOMAIN s : s[n] \in S
      /\ \A x \in S : \E n \in DOMAIN s : s[n] = x
      /\ \A m, n \in DOMAIN s : m < n => <<s[m], s[n]>> \in order
  BY OrderedElements
<1> HIDE DEF s
<1>3. 1 \in DOMAIN s /\ \A n \in DOMAIN s : n = 1 \/ 1 < n
  BY <1>1
<1>4. \A y \in S : s[1] = y \/ <<s[1], y>> \in order
  BY <1>2, <1>3
<1> QED
  BY <1>2, <1>3, <1>4

(***************************************************************************)
(* The places of a rule group                                              *)
(***************************************************************************)
LEMMA InputShape ==
  ASSUME NEW S \in Inputs
  PROVE  /\ IsFiniteSet(S)
         /\ \A ing \in S :
              /\ ing.ns \in String /\ ing.name \in String
              /\ Len(ing.rules) \in Nat /\ DOMAIN ing.rules = 1..Len(ing.rules)
              /\ \A r \in DOMAIN ing.rules :
                   /\ ing.rules[r].host \in String
                   /\ Len(ing.rules[r].paths) \in Nat
                   /\ DOMAIN ing.rules[r].paths = 1..Len(ing.rules[r].paths)
              /\ GetIngressClass(ing) \in String
         /\ \A a, b \in S : a.ns = b.ns /\ a.name = b.name => a = b
<1> DEFINE Path == [type : PathTypes, value : STRING, backend : Backend]
           Rule == [host : String, http : BOOLEAN, paths : Seq(Path)]
<1>1. \A ing \in S : ing \in Ingress
  BY InputsAssumption
<1>2. ASSUME NEW ing \in S
      PROVE  /\ ing.ns \in String /\ ing.name \in String /\ ing.rules \in Seq(Rule)
             /\ GetIngressClass(ing) \in String
  BY <1>1, <1>2 DEF Ingress, GetIngressClass
<1>3. ASSUME NEW ing \in S, NEW r \in DOMAIN ing.rules
      PROVE  ing.rules[r].host \in String /\ ing.rules[r].paths \in Seq(Path)
  <2>1. ing.rules[r] \in Rule
    BY <1>2, LenProperties
  <2> HIDE DEF Path
  <2> QED
    BY <2>1
<1> HIDE DEF Path, Rule
<1>4. \A ing \in S : Len(ing.rules) \in Nat /\ DOMAIN ing.rules = 1..Len(ing.rules)
  BY <1>2, LenProperties
<1>5. \A ing \in S : \A r \in DOMAIN ing.rules :
        /\ Len(ing.rules[r].paths) \in Nat
        /\ DOMAIN ing.rules[r].paths = 1..Len(ing.rules[r].paths)
  BY <1>3, LenProperties
<1> QED
  BY <1>2, <1>3, <1>4, <1>5, InputsAssumption

LEMMA PlaceFacts ==
  ASSUME NEW S \in Inputs, NEW key, NEW p \in Places(S, key)
  PROVE  /\ p = [ing |-> p.ing, rule |-> p.rule, path |-> p.path]
         /\ p.ing \in S /\ p.rule \in DOMAIN p.ing.rules
         /\ p.path \in DOMAIN p.ing.rules[p.rule].paths
         /\ p.rule \in Nat \ {0} /\ p.path \in Nat
         /\ key = GroupKey(p.ing, p.ing.rules[p.rule].host)
         /\ [ing |-> p.ing, rule |-> p.rule] \in Members(S, key)
<1>1. PICK m \in Members(S, key) :
        p \in [ing : {m.ing}, rule : {m.rule}, path : DOMAIN m.ing.rules[m.rule].paths]
  BY DEF Places
<1>2. /\ m = [ing |-> m.ing, rule |-> m.rule] /\ m.ing \in S /\ m.rule \in DOMAIN m.ing.rules
      /\ GroupKey(m.ing, m.ing.rules[m.rule].host) = key
  BY DEF Members
<1>3. p.ing = m.ing /\ p.rule = m.rule /\ p.path \in DOMAIN m.ing.rules[m.rule].paths
  BY <1>1
<1>4. p = [ing |-> p.ing, rule |-> p.rule, path |-> p.path]
  BY <1>1
<1>5. m.rule \in Nat \ {0} /\ p.path \in Nat
  BY <1>2, <1>3, InputShape
<1> QED
  BY <1>2, <1>3, <1>4, <1>5

LEMMA MembersFinite ==
  ASSUME NEW S \in Inputs, NEW key
  PROVE  IsFiniteSet(Members(S, key))
<1> DEFINE rules(ing) == [ing : {ing}, rule : DOMAIN ing.rules]
           f          == [ing \in S |-> rules(ing)]
<1>1. ASSUME NEW ing \in S
      PROVE  IsFiniteSet(rules(ing))
  <2> DEFINE g == [r \in DOMAIN ing.rules |-> [ing |-> ing, rule |-> r]]
  <2>1. IsFiniteSet(1..Len(ing.rules)) /\ DOMAIN ing.rules = 1..Len(ing.rules)
    BY InputShape, IndicesFinite
  <2>2. g \in Surjection(DOMAIN ing.rules, rules(ing))
    BY DEF Surjection
  <2> QED
    BY <2>1, <2>2, FS_Surjection
<1> HIDE DEF rules
<1>2. IsFiniteSet(DOMAIN f) /\ \A ing \in DOMAIN f : IsFiniteSet(f[ing])
  BY <1>1, InputShape
<1>3. IsFiniteSet(UNION {f[ing] : ing \in DOMAIN f})
  <2> HIDE DEF f
  <2> QED
    BY <1>2, UnionFinite
<1>4. Members(S, key) \subseteq UNION {f[ing] : ing \in DOMAIN f}
  BY DEF Members, rules
<1> QED
  BY <1>3, <1>4, FS_Subset

LEMMA PlacesFinite ==
  ASSUME NEW S \in Inputs, NEW key
  PROVE  IsFiniteSet(Places(S, key))
<1> DEFINE paths(m) == [ing : {m.ing}, rule : {m.rule}, path : DOMAIN m.ing.rules[m.rule].paths]
           f        == [m \in Members(S, key) |-> paths(m)]
<1>1. ASSUME NEW m \in Members(S, key)
      PROVE  IsFiniteSet(paths(m))
  <2> DEFINE D == DOMAIN m.ing.rules[m.rule].paths
             g == [x \in D |-> [ing |-> m.ing, rule |-> m.rule, path |-> x]]
  <2>1. m.ing \in S /\ m.rule \in DOMAIN m.ing.rules
    BY DEF Members
  <2>2. D = 1..Len(m.ing.rules[m.rule].paths) /\ Len(m.ing.rules[m.rule].paths) \in Nat
    BY <2>1, InputShape
  <2>3. IsFiniteSet(D)
    BY <2>2, IndicesFinite
  <2>4. g \in Surjection(D, paths(m))
    BY DEF Surjection
  <2> QED
    BY <2>3, <2>4, FS_Surjection
<1> HIDE DEF paths
<1>2. IsFiniteSet(DOMAIN f) /\ \A m \in DOMAIN f : IsFiniteSet(f[m])
  BY <1>1, MembersFinite
<1>3. IsFiniteSet(UNION {f[m] : m \in DOMAIN f})
  <2> HIDE DEF f
  <2> QED
    BY <1>2, UnionFinite
<1>4. Places(S, key) = UNION {f[m] : m \in DOMAIN f}
  BY DEF Places, paths
<1> QED
  BY <1>3, <1>4

BeforeIn(P) == {q \in P \X P : Before(q[1], q[2])}

LEMMA BeforeIsOrder ==
  ASSUME NEW S \in Inputs, NEW key, NEW P, P \subseteq Places(S, key)
  PROVE  IsOrder(P, BeforeIn(P))
<1>1. \A p \in P : /\ p = [ing |-> p.ing, rule |-> p.rule, path |-> p.path]
                   /\ p.ing \in S /\ p.rule \in Nat /\ p.path \in Nat /\ p.ing.name \in String
                   /\ p.ing.ns = key.ns
  <2> TAKE p \in P
  <2>1. p \in Places(S, key)
    OBVIOUS
  <2>2. /\ p = [ing |-> p.ing, rule |-> p.rule, path |-> p.path]
        /\ p.ing \in S /\ p.rule \in Nat /\ p.path \in Nat
        /\ key = GroupKey(p.ing, p.ing.rules[p.rule].host)
    BY <2>1, PlaceFacts
  <2> QED
    BY <2>2, InputShape DEF GroupKey
<1>2. \A p, q \in P : p.ing.name = q.ing.name => p.ing = q.ing
  BY <1>1, InputShape
<1>3. ASSUME NEW p \in P, NEW q \in P, p # q
      PROVE  Before(p, q) \/ Before(q, p)
  <2>1. CASE p.ing.name # q.ing.name
    BY <1>1, <2>1, PrecedesTotal DEF Before
  <2>2. CASE p.ing.name = q.ing.name
    <3>1. p.rule # q.rule \/ p.path # q.path
      BY <1>1, <1>2, <1>3, <2>2
    <3>2. /\ p.rule < q.rule \/ q.rule < p.rule \/ p.rule = q.rule
          /\ p.path < q.path \/ q.path < p.path \/ p.path = q.path
      BY <1>1
    <3> QED
      BY <2>2, <3>1, <3>2 DEF Before
  <2> QED
    BY <2>1, <2>2
<1>4. ASSUME NEW p \in P, NEW q \in P, NEW r \in P, Before(p, q), Before(q, r)
      PROVE  Before(p, r)
  <2>1. CASE p.ing.name # q.ing.name /\ q.ing.name # r.ing.name
    <3>1. Precedes(p.ing.name, q.ing.name) /\ Precedes(q.ing.name, r.ing.name)
      BY <1>4, <2>1 DEF Before
    <3> QED
      BY <1>1, <3>1, PrecedesTransitive DEF Before
  <2>2. CASE p.ing.name = q.ing.name /\ q.ing.name # r.ing.name
    BY <1>4, <2>2 DEF Before
  <2>3. CASE p.ing.name # q.ing.name /\ q.ing.name = r.ing.name
    BY <1>4, <2>3 DEF Before
  <2>4. CASE p.ing.name = q.ing.name /\ q.ing.name = r.ing.name
    <3>1. ~Precedes(p.ing.name, q.ing.name) /\ ~Precedes(q.ing.name, r.ing.name)
      BY <1>1, <2>4, PrecedesIrreflexive
    <3>2. /\ p.rule < q.rule \/ (p.rule = q.rule /\ p.path < q.path)
          /\ q.rule < r.rule \/ (q.rule = r.rule /\ q.path < r.path)
      BY <1>4, <3>1 DEF Before
    <3>3. p.rule < r.rule \/ (p.rule = r.rule /\ p.path < r.path)
      BY <1>1, <3>2
    <3> QED
      BY <2>4, <3>3 DEF Before
  <2> QED
    BY <2>1, <2>2, <2>3, <2>4
<1>5. ASSUME NEW p \in P
      PROVE  ~Before(p, p)
  BY <1>1, PrecedesIrreflexive DEF Before
<1>6. \A p, q \in P : <<p, q>> \in BeforeIn(P) <=> Before(p, q)
  BY DEF BeforeIn
<1> QED
  BY <1>3, <1>4, <1>5, <1>6 DEF IsOrder

(***************************************************************************)
(* The rules of the provider IR                                            *)
(***************************************************************************)
Matches(S, key) == {PathMatchKey(PathOf(p)) : p \in Places(S, key)}
Sharing(S, key, match) == {p \in Places(S, key) : PathMatchKey(PathOf(p)) = match}

\* Rules are a sequence; so are their sources, which are all the places with
\* one match key.
ProvidedRules(rules, S, key) ==
  /\ IsSeq(rules)
  /\ \A n \in DOMAIN rules :
       /\ IsSeq(rules[n].sources) /\ rules[n].sources # <<>>
       /\ \E match \in Matches(S, key) :
            /\ rules[n].match = ToHTTPRouteMatch(match)
            /\ {rules[n].sources[x] : x \in DOMAIN rules[n].sources} = Sharing(S, key, match)

LEMMA RulesShape ==
  ASSUME NEW S \in Inputs, NEW key
  PROVE  ProvidedRules(Rules(S, key), S, key)
<1> DEFINE places  == Places(S, key)
           matches == {PathMatchKey(PathOf(p)) : p \in places}
           sharing == [match \in matches |-> {p \in places : PathMatchKey(PathOf(p)) = match}]
           first   == [match \in matches |->
                         CHOOSE p \in sharing[match] :
                           \A q \in sharing[match] : p = q \/ Before(p, q)]
           order   == {m \in matches \X matches : Before(first[m[1]], first[m[2]])}
           keys    == Ordered(matches, order)
           sorted(match) == Ordered(sharing[match], {p \in places \X places : Before(p[1], p[2])})
<1>1. Rules(S, key) = [n \in DOMAIN keys |->
                         [match |-> ToHTTPRouteMatch(keys[n]), sources |-> sorted(keys[n])]]
  BY DEF Rules
<1>2. IsFiniteSet(places) /\ IsOrder(places, {p \in places \X places : Before(p[1], p[2])})
  BY PlacesFinite, BeforeIsOrder DEF BeforeIn
<1>3. ASSUME NEW match \in matches
      PROVE  /\ sharing[match] = Sharing(S, key, match) /\ sharing[match] \subseteq places
             /\ IsFiniteSet(sharing[match]) /\ sharing[match] # {}
             /\ IsOrder(sharing[match], {p \in places \X places : Before(p[1], p[2])})
  <2>1. sharing[match] \subseteq places /\ sharing[match] # {} /\ sharing[match] = Sharing(S, key, match)
    BY DEF Sharing
  <2>2. IsFiniteSet(sharing[match])
    BY <1>2, <2>1, FS_Subset
  <2> HIDE DEF sharing, places
  <2> QED
    BY <1>2, <2>1, <2>2 DEF IsOrder
<1>4. ASSUME NEW match \in matches
      PROVE  first[match] \in places /\ PathMatchKey(PathOf(first[match])) = match
  <2> DEFINE pairs == {p \in places \X places : Before(p[1], p[2])}
  <2>1. \E p \in sharing[match] : \A q \in sharing[match] : p = q \/ <<p, q>> \in pairs
    <3> DEFINE T == sharing[match]
    <3>1. IsFiniteSet(T) /\ T # {} /\ IsOrder(T, pairs)
      BY <1>3
    <3> HIDE DEF pairs, T
    <3>2. \E p \in T : \A q \in T : p = q \/ <<p, q>> \in pairs
      BY <3>1, FirstInOrder
    <3> QED
      BY <3>2 DEF T
  <2>2. \E p \in sharing[match] : \A q \in sharing[match] : p = q \/ Before(p, q)
    BY <2>1
  <2>3. first[match] \in sharing[match]
    BY <2>2
  <2> QED
    BY <2>3
<1>5. IsFiniteSet(matches)
  <2> DEFINE f == [p \in places |-> PathMatchKey(PathOf(p))]
  <2>1. matches = {f[p] : p \in DOMAIN f} /\ DOMAIN f = places
    OBVIOUS
  <2> HIDE DEF f, matches
  <2> QED
    BY <1>2, <2>1, ImageFinite
<1>6. IsOrder(matches, order)
  <2>1. \A m, n \in matches : <<m, n>> \in order <=> Before(first[m], first[n])
    BY DEF order
  <2>2. \A p, q \in places : <<p, q>> \in BeforeIn(places) <=> Before(p, q)
    BY DEF BeforeIn
  <2>3. IsOrder(places, BeforeIn(places))
    BY BeforeIsOrder
  <2>4. \A m, n \in matches : m # n => first[m] # first[n]
    BY <1>4
  <2> HIDE DEF order, matches, first, places
  <2> QED
    BY <1>4, <2>1, <2>2, <2>3, <2>4 DEF IsOrder
<1>7. IsSeq(keys) /\ \A n \in DOMAIN keys : keys[n] \in matches
  <2> HIDE DEF order, matches
  <2> QED
    BY <1>5, <1>6, OrderedShape, OrderedElements
<1>8. ASSUME NEW match \in matches
      PROVE  /\ IsSeq(sorted(match)) /\ sorted(match) # <<>>
             /\ {sorted(match)[x] : x \in DOMAIN sorted(match)} = sharing[match]
  <2> DEFINE pairs == {p \in places \X places : Before(p[1], p[2])}
             T == sharing[match]
  <2>1. IsFiniteSet(T) /\ T # {} /\ IsOrder(T, pairs)
    BY <1>3
  <2>2. sorted(match) = Ordered(T, pairs)
    BY DEF sorted, pairs, T
  <2> HIDE DEF pairs, T
  <2>3. /\ IsSeq(Ordered(T, pairs))
        /\ \A n \in DOMAIN Ordered(T, pairs) : Ordered(T, pairs)[n] \in T
        /\ \A x \in T : \E n \in DOMAIN Ordered(T, pairs) : Ordered(T, pairs)[n] = x
    BY <2>1, OrderedShape, OrderedElements
  <2>4. {Ordered(T, pairs)[x] : x \in DOMAIN Ordered(T, pairs)} = T
    BY <2>3
  <2>5. Ordered(T, pairs) # <<>>
    BY <2>1, <2>4
  <2>6. T = sharing[match]
    BY DEF T
  <2> HIDE DEF sorted, sharing
  <2> QED
    BY <2>2, <2>3, <2>4, <2>5, <2>6
<1> HIDE DEF keys, sorted
<1>9. IsSeq(Rules(S, key))
  <2> DEFINE r == Rules(S, key)
  <2>1. DOMAIN keys = 1..Len(keys) /\ Len(keys) \in Nat
    BY <1>7, IsSeqShape
  <2>2. DOMAIN r = 1..Len(keys) /\ r = [n \in 1..Len(keys) |-> r[n]]
    BY <1>1, <2>1
  <2> HIDE DEF r
  <2> QED
    BY <2>1, <2>2, FunctionIsSeq DEF r
<1>10. ASSUME NEW n \in DOMAIN Rules(S, key)
       PROVE  /\ IsSeq(Rules(S, key)[n].sources) /\ Rules(S, key)[n].sources # <<>>
              /\ \E match \in Matches(S, key) :
                   /\ Rules(S, key)[n].match = ToHTTPRouteMatch(match)
                   /\ {Rules(S, key)[n].sources[x] : x \in DOMAIN Rules(S, key)[n].sources}
                        = Sharing(S, key, match)
  <2>1. /\ keys[n] \in matches
        /\ Rules(S, key)[n].sources = sorted(keys[n])
        /\ Rules(S, key)[n].match = ToHTTPRouteMatch(keys[n])
    BY <1>1, <1>7, <1>10
  <2>2. keys[n] \in Matches(S, key)
    BY <2>1 DEF Matches
  <2>3. sharing[keys[n]] = Sharing(S, key, keys[n])
    BY <1>3, <2>1
  <2> HIDE DEF sharing, matches, places
  <2> QED
    BY <1>8, <2>1, <2>2, <2>3
<1> QED
  BY <1>9, <1>10 DEF ProvidedRules

(***************************************************************************)
(* The routes of the provider IR                                           *)
(***************************************************************************)
LEMMA RouteOrigin ==
  ASSUME NEW S, NEW name \in DOMAIN Routes(S)
  PROVE  \/ \E ing \in S : HasDefault(ing) /\ Routes(S)[name] = DefaultRoute(ing)
         \/ \E k : Routes(S)[name] = GroupRoute(S, k)
<1> DEFINE defaults == {DefaultRoute(ing) : ing \in {x \in S : HasDefault(x)}}
           Name(r)  == [ns |-> r.ns, name |-> r.name]
           same     == {k \in Groups(S) : Name(GroupRoute(S, k)) = name}
           default  == CHOOSE d \in defaults : Name(d) = name
           k        == CHOOSE k \in same : \A l \in same : ~KeyPrecedes(k, l)
<1>1. Routes(S)[name] = IF \E d \in defaults : Name(d) = name THEN default ELSE GroupRoute(S, k)
  BY DEF Routes
<1>2. CASE \E d \in defaults : Name(d) = name
  <2>1. default \in defaults
    BY <1>2
  <2>2. \E ing \in S : HasDefault(ing) /\ default = DefaultRoute(ing)
    BY <2>1
  <2> HIDE DEF default
  <2> QED
    BY <1>1, <1>2, <2>2
<1>3. CASE ~\E d \in defaults : Name(d) = name
  <2> HIDE DEF k, defaults, default
  <2> QED
    BY <1>1, <1>3
<1> QED
  BY <1>2, <1>3

\* A route's rules and their sources are sequences; the sources are places of
\* the Ingresses that were read.
IsProvided(rules, S) ==
  /\ IsSeq(rules)
  /\ \A n \in DOMAIN rules :
       /\ IsSeq(rules[n].sources)
       /\ rules[n].sources # <<>>
       /\ \A x \in DOMAIN rules[n].sources : rules[n].sources[x].ing \in S

LEMMA SingleIsSeq ==
  ASSUME NEW x
  PROVE  IsSeq(<<x>>) /\ Len(<<x>>) = 1 /\ DOMAIN <<x>> = {1} /\ <<x>>[1] = x /\ <<x>> # <<>>
<1>1. <<x>> \in Seq({x})
  OBVIOUS
<1>2. IsSeq(<<x>>) /\ DOMAIN <<x>> = 1..Len(<<x>>)
  BY <1>1, SeqOfAny
<1> QED
  BY <1>2

LEMMA RoutesAreProvided ==
  ASSUME NEW S \in Inputs, NEW name \in DOMAIN Routes(S)
  PROVE  IsProvided(Routes(S)[name].rules, S)
<1>1. ASSUME NEW ing \in S
      PROVE  IsProvided(DefaultRoute(ing).rules, S)
  <2> DEFINE source == [ing |-> ing, rule |-> 0, path |-> 0]
             rule   == [match |-> Nothing, sources |-> <<source>>]
  <2>1. DefaultRoute(ing).rules = <<rule>>
    BY DEF DefaultRoute
  <2>2. rule.sources = <<source>> /\ source.ing = ing
    OBVIOUS
  <2> HIDE DEF source, rule
  <2> DEFINE one == <<rule>>  src == <<source>>
  <2>4. IsSeq(one) /\ DOMAIN one = {1} /\ one[1] = rule
    BY SingleIsSeq
  <2>5. IsSeq(src) /\ DOMAIN src = {1} /\ src[1] = source /\ src # <<>>
    BY SingleIsSeq
  <2>6. rule.sources = src
    BY <2>2
  <2> HIDE DEF one, src
  <2>7. IsProvided(one, S)
    BY <1>1, <2>2, <2>4, <2>5, <2>6 DEF IsProvided
  <2> QED
    BY <2>1, <2>7 DEF one
<1>2. ASSUME NEW k
      PROVE  IsProvided(GroupRoute(S, k).rules, S)
  <2> DEFINE rules == Rules(S, k)
  <2>1. GroupRoute(S, k).rules = rules
    BY DEF GroupRoute
  <2>2. ProvidedRules(rules, S, k)
    BY RulesShape
  <2>3. ASSUME NEW n \in DOMAIN rules, NEW x \in DOMAIN rules[n].sources
        PROVE  rules[n].sources[x].ing \in S
    <3> HIDE DEF rules
    <3>1. \E match \in Matches(S, k) : rules[n].sources[x] \in Sharing(S, k, match)
      BY <2>2, <2>3 DEF ProvidedRules
    <3>2. rules[n].sources[x] \in Places(S, k)
      BY <3>1 DEF Sharing
    <3> QED
      BY <3>2, PlaceFacts
  <2> HIDE DEF rules
  <2> QED
    BY <2>1, <2>2, <2>3 DEF IsProvided, ProvidedRules
<1> QED
  BY <1>1, <1>2, RouteOrigin

(***************************************************************************)
(* What lists a set in order is Ordered                                    *)
(***************************************************************************)
LEMMA OrderedIs ==
  ASSUME NEW S, IsFiniteSet(S), NEW order, IsOrder(S, order),
         NEW k \in Nat, NEW s, s = [n \in 1..k |-> s[n]],
         \A n \in 1..k : s[n] \in S,
         \A x \in S : \E n \in 1..k : s[n] = x,
         \A m, n \in 1..k : m < n => <<s[m], s[n]>> \in order
  PROVE  Ordered(S, order) = s
<1> DEFINE before(n) == {y \in S : <<y, s[n]>> \in order}
<1>1. \A m, n \in 1..k : s[m] = s[n] => m = n
  <2> SUFFICES ASSUME NEW m \in 1..k, NEW n \in 1..k, s[m] = s[n], m # n
               PROVE  FALSE
    OBVIOUS
  <2>1. m < n \/ n < m
    OBVIOUS
  <2>2. <<s[m], s[m]>> \in order
    BY <2>1
  <2> QED
    BY <2>2 DEF IsOrder
<1>2. Cardinality(S) = k
  <2> DEFINE f == [n \in 1..k |-> s[n]]
  <2>1. f \in Bijection(1..k, S)
    BY <1>1 DEF Bijection, Injection, IsInjective, Surjection
  <2>2. ExistsBijection(1..k, S)
    BY <2>1 DEF ExistsBijection
  <2> QED
    BY <2>2, IndicesFinite, FS_Bijection
<1>3. \A n \in 1..k : Cardinality(before(n)) = n - 1
  <2> TAKE n \in 1..k
  <2> DEFINE f == [m \in 1..(n - 1) |-> s[m]]
  <2>1. \A m \in 1..(n - 1) : m \in 1..k /\ s[m] \in before(n)
    <3> TAKE m \in 1..(n - 1)
    <3>1. m \in 1..k /\ m < n
      OBVIOUS
    <3> QED
      BY <3>1
  <2>2. ASSUME NEW y \in before(n) PROVE \E m \in 1..(n - 1) : s[m] = y
    <3>1. PICK m \in 1..k : s[m] = y
      OBVIOUS
    <3>2. <<s[m], s[n]>> \in order
      BY <3>1
    <3>3. ~(n < m)
      BY <3>2 DEF IsOrder
    <3>4. m # n
      BY <3>2 DEF IsOrder
    <3> QED
      BY <3>1, <3>3, <3>4
  <2>3. f \in Bijection(1..(n - 1), before(n))
    <3> HIDE DEF before
    <3> QED
      BY <1>1, <2>1, <2>2 DEF Bijection, Injection, IsInjective, Surjection
  <2>4. ExistsBijection(1..(n - 1), before(n))
    BY <2>3 DEF ExistsBijection
  <2>5. n - 1 \in Nat
    OBVIOUS
  <2> HIDE DEF before
  <2> QED
    BY <2>4, <2>5, IndicesFinite, FS_Bijection
<1>4. \A x, y \in S : Cardinality({z \in S : <<z, x>> \in order})
                        = Cardinality({z \in S : <<z, y>> \in order}) => x = y
  <2> TAKE x \in S, y \in S
  <2>1. PICK m \in 1..k : s[m] = x
    OBVIOUS
  <2>2. PICK n \in 1..k : s[n] = y
    OBVIOUS
  <2>3. Cardinality(before(m)) = m - 1 /\ Cardinality(before(n)) = n - 1
    BY <1>3
  <2> QED
    BY <2>1, <2>2, <2>3
<1>5. \A n \in 1..k :
        (CHOOSE x \in S : Cardinality({y \in S : <<y, x>> \in order}) = n - 1) = s[n]
  <2> TAKE n \in 1..k
  <2>1. s[n] \in S /\ Cardinality({y \in S : <<y, s[n]>> \in order}) = n - 1
    BY <1>3
  <2> QED
    BY <1>4, <2>1
<1> QED
  BY <1>2, <1>5 DEF Ordered

LEMMA PrecedesAsymmetric ==
  ASSUME NEW s \in String, NEW t \in String, Precedes(s, t)
  PROVE  ~Precedes(t, s)
  BY PrecedesIrreflexive, PrecedesTransitive

(***************************************************************************)
(* The keys of rule groups.  A namespace and a class have no "/", so the   *)
(* string that a key is turned into tells its parts.                       *)
(***************************************************************************)
NoSlash(s) == \A n \in DOMAIN s : s[n] # "/"

\* From place o on u reads a and a "/".
ReadsFrom(u, o, a) ==
  /\ \A n \in 1..Len(a) : u[o + n] = a[n]
  /\ u[o + Len(a) + 1] = "/"

LEMMA ReadOnce ==
  ASSUME NEW a \in String, NEW b \in String, NoSlash(a), NoSlash(b),
         NEW u, NEW o \in Nat, ReadsFrom(u, o, a), ReadsFrom(u, o, b)
  PROVE  a = b
<1> DEFINE m == Len(a)  n == Len(b)
<1>1. m \in Nat /\ n \in Nat
  BY StringShape
<1>2. (\A x \in 1..m : a[x] # "/") /\ (\A x \in 1..n : b[x] # "/")
  BY StringShape DEF NoSlash
<1>3. /\ \A x \in 1..m : u[o + x] = a[x]
      /\ \A x \in 1..n : u[o + x] = b[x]
      /\ u[o + m + 1] = "/" /\ u[o + n + 1] = "/"
  BY DEF ReadsFrom
<1> HIDE DEF m, n
<1>4. m = n
  <2>1. m + 1 \notin 1..n
    <3> SUFFICES ASSUME m + 1 \in 1..n PROVE FALSE
      OBVIOUS
    <3>1. o + m + 1 = o + (m + 1)
      BY <1>1
    <3> QED
      BY <1>2, <1>3, <3>1
  <2>2. n + 1 \notin 1..m
    <3> SUFFICES ASSUME n + 1 \in 1..m PROVE FALSE
      OBVIOUS
    <3>1. o + n + 1 = o + (n + 1)
      BY <1>1
    <3> QED
      BY <1>2, <1>3, <3>1
  <2> QED
    BY <1>1, <2>1, <2>2
<1>5. \A x \in 1..m : a[x] = b[x]
  BY <1>3, <1>4
<1>6. a \in Seq(Tokens) /\ b \in Seq(Tokens)
  BY DEF String
<1> QED
  BY <1>4, <1>5, <1>6, SeqEqual DEF m, n

IsJoin(u, s, t) ==
  /\ Len(u) = Len(s) + Len(t)
  /\ \A n \in 1..Len(s) : u[n] = s[n]
  /\ \A n \in 1..Len(t) : u[Len(s) + n] = t[n]

LEMMA ConcatIsJoin ==
  ASSUME NEW T, NEW s \in Seq(T), NEW t \in Seq(T)
  PROVE  s \o t \in Seq(T) /\ IsJoin(s \o t, s, t)
<1>1. /\ s \o t \in Seq(T) /\ Len(s \o t) = Len(s) + Len(t)
      /\ \A n \in 1..(Len(s) + Len(t)) :
           (s \o t)[n] = IF n <= Len(s) THEN s[n] ELSE t[n - Len(s)]
  BY ConcatProperties
<1>2. PICK m \in Nat, k \in Nat : m = Len(s) /\ k = Len(t)
  BY LenProperties
<1> DEFINE u == s \o t
<1> HIDE DEF u
<1>3. \A n \in 1..(m + k) : u[n] = IF n <= m THEN s[n] ELSE t[n - m]
  BY <1>1, <1>2 DEF u
<1>4. \A n \in 1..m : u[n] = s[n]
  BY <1>3
<1>5. \A n \in 1..k : u[m + n] = t[n]
  BY <1>3
<1>6. IsJoin(u, s, t)
  BY <1>1, <1>2, <1>4, <1>5 DEF IsJoin, u
<1> QED
  BY <1>1, <1>6 DEF u

LEMMA KeyStringReads ==
  ASSUME NEW k, k.ns \in String, k.class \in String, k.host \in String
  PROVE  /\ KeyString(k) \in String
         /\ Len(KeyString(k)) = Len(k.ns) + 1 + Len(k.class) + 1 + Len(k.host)
         /\ ReadsFrom(KeyString(k), 0, k.ns)
         /\ ReadsFrom(KeyString(k), Len(k.ns) + 1, k.class)
         /\ \A n \in 1..Len(k.host) :
              KeyString(k)[Len(k.ns) + 1 + Len(k.class) + 1 + n] = k.host[n]
<1> DEFINE a  == k.ns
           b  == k.class
           c  == k.host
           s  == <<"/">>
           p1 == a \o s
           p2 == p1 \o b
           p3 == p2 \o s
           p4 == p3 \o c
<1>0. KeyString(k) = p4
  BY DEF KeyString
<1>1. a \in Seq(Tokens) /\ b \in Seq(Tokens) /\ c \in Seq(Tokens)
  BY DEF String
<1>2. s \in Seq(Tokens) /\ Len(s) = 1 /\ s[1] = "/"
  BY AlphabetAssumption DEF Tokens
<1> HIDE DEF a, b, c, s
<1>3. PICK x \in Nat, y \in Nat, z \in Nat : x = Len(a) /\ y = Len(b) /\ z = Len(c)
  BY <1>1, LenProperties
<1>4. /\ p1 \in Seq(Tokens) /\ Len(p1) = x + 1
      /\ \A n \in 1..x : p1[n] = a[n]
      /\ p1[x + 1] = "/"
  <2>1. p1 \in Seq(Tokens) /\ IsJoin(p1, a, s)
    BY <1>1, <1>2, ConcatIsJoin
  <2> HIDE DEF p1
  <2> QED
    BY <1>2, <1>3, <2>1 DEF IsJoin
<1> HIDE DEF p1
<1>5. /\ p2 \in Seq(Tokens) /\ Len(p2) = x + 1 + y
      /\ \A n \in 1..(x + 1) : p2[n] = p1[n]
      /\ \A n \in 1..y : p2[x + 1 + n] = b[n]
  <2>1. p2 \in Seq(Tokens) /\ IsJoin(p2, p1, b)
    BY <1>1, <1>4, ConcatIsJoin
  <2> HIDE DEF p2
  <2> QED
    BY <1>3, <1>4, <2>1 DEF IsJoin
<1> HIDE DEF p2
<1>6. /\ p3 \in Seq(Tokens) /\ Len(p3) = x + 1 + y + 1
      /\ \A n \in 1..(x + 1 + y) : p3[n] = p2[n]
      /\ p3[x + 1 + y + 1] = "/"
  <2>1. p3 \in Seq(Tokens) /\ IsJoin(p3, p2, s)
    BY <1>2, <1>5, ConcatIsJoin
  <2> HIDE DEF p3
  <2> QED
    BY <1>2, <1>5, <2>1 DEF IsJoin
<1> HIDE DEF p3
<1>7. /\ p4 \in Seq(Tokens) /\ Len(p4) = x + 1 + y + 1 + z
      /\ \A n \in 1..(x + 1 + y + 1) : p4[n] = p3[n]
      /\ \A n \in 1..z : p4[x + 1 + y + 1 + n] = c[n]
  <2>1. p4 \in Seq(Tokens) /\ IsJoin(p4, p3, c)
    BY <1>1, <1>6, ConcatIsJoin
  <2> HIDE DEF p4
  <2> QED
    BY <1>3, <1>6, <2>1 DEF IsJoin
<1> HIDE DEF p4
<1>8. \A n \in 1..x : p4[n] = a[n]
  BY <1>4, <1>5, <1>6, <1>7
<1>9. p4[x + 1] = "/"
  <2>1. x + 1 \in 1..(x + 1) /\ x + 1 \in 1..(x + 1 + y) /\ x + 1 \in 1..(x + 1 + y + 1)
    OBVIOUS
  <2> QED
    BY <1>4, <1>5, <1>6, <1>7, <2>1
<1>10. \A n \in 1..y : p4[x + 1 + n] = b[n]
  <2> TAKE n \in 1..y
  <2>1. x + 1 + n \in 1..(x + 1 + y) /\ x + 1 + n \in 1..(x + 1 + y + 1)
    OBVIOUS
  <2> QED
    BY <1>5, <1>6, <1>7, <2>1
<1>11. p4[x + 1 + y + 1] = "/"
  <2>1. x + 1 + y + 1 \in 1..(x + 1 + y + 1)
    OBVIOUS
  <2> QED
    BY <1>6, <1>7, <2>1
<1>12. ReadsFrom(p4, 0, a) /\ ReadsFrom(p4, x + 1, b)
  <2>1. \A n \in 1..x : 0 + n = n
    OBVIOUS
  <2>2. 0 + x + 1 = x + 1
    OBVIOUS
  <2> QED
    BY <1>3, <1>8, <1>9, <1>10, <1>11, <2>1, <2>2 DEF ReadsFrom
<1> QED
  BY <1>0, <1>3, <1>7, <1>12 DEF a, b, c, String

LEMMA KeyStringTells ==
  ASSUME NEW k, k.ns \in String, k.class \in String, k.host \in String, NoSlash(k.ns), NoSlash(k.class),
         NEW l, l.ns \in String, l.class \in String, l.host \in String, NoSlash(l.ns), NoSlash(l.class),
         KeyString(k) = KeyString(l)
  PROVE  k.ns = l.ns /\ k.class = l.class /\ k.host = l.host
<1>1. k.ns = l.ns
  <2>1. ReadsFrom(KeyString(k), 0, k.ns) /\ ReadsFrom(KeyString(k), 0, l.ns)
    BY KeyStringReads
  <2> QED
    BY <2>1, ReadOnce
<1>2. k.class = l.class
  <2> DEFINE o == Len(k.ns) + 1
  <2>1. o \in Nat
    BY StringShape
  <2>2. ReadsFrom(KeyString(k), o, k.class) /\ ReadsFrom(KeyString(k), o, l.class)
    BY <1>1, KeyStringReads
  <2> HIDE DEF o
  <2> QED
    BY <2>1, <2>2, ReadOnce
<1>3. k.host = l.host
  <2> DEFINE o == Len(k.ns) + 1 + Len(k.class) + 1
  <2>0. Len(k.ns) \in Nat /\ Len(k.class) \in Nat
    BY StringShape
  <2>1. /\ Len(KeyString(k)) = o + Len(k.host)
        /\ \A n \in 1..Len(k.host) : KeyString(k)[o + n] = k.host[n]
    BY KeyStringReads
  <2>2. /\ Len(KeyString(l)) = o + Len(l.host)
        /\ \A n \in 1..Len(l.host) : KeyString(l)[o + n] = l.host[n]
    BY <1>1, <1>2, KeyStringReads
  <2>3. Len(k.host) \in Nat /\ Len(l.host) \in Nat
    BY StringShape
  <2>x. o \in Nat
    <3>1. \A x, y \in Nat : x + 1 + y + 1 \in Nat
      OBVIOUS
    <3> QED
      BY <2>0, <3>1, Zenon
  <2>4. k.host \in Seq(Tokens) /\ l.host \in Seq(Tokens)
    BY DEF String
  <2> HIDE DEF o
  <2>5. Len(k.host) = Len(l.host)
    BY <2>1, <2>2, <2>3, <2>x
  <2>6. \A n \in 1..Len(k.host) : k.host[n] = l.host[n]
    BY <2>1, <2>2, <2>5
  <2> QED
    BY <2>4, <2>5, <2>6, SeqEqual
<1> QED
  BY <1>1, <1>2, <1>3

\* Keys that are told apart by their strings are ordered by them.
InKeyOrder(K) == {p \in K \X K : KeyPrecedes(p[1], p[2])}

LEMMA KeysAreOrdered ==
  ASSUME NEW K, \A k \in K : KeyString(k) \in String,
         \A k, l \in K : KeyString(k) = KeyString(l) => k = l
  PROVE  IsOrder(K, InKeyOrder(K))
<1>1. \A k, l \in K : <<k, l>> \in InKeyOrder(K) <=> Precedes(KeyString(k), KeyString(l))
  BY DEF InKeyOrder, KeyPrecedes
<1>2. \A k, l \in K : k # l => Precedes(KeyString(k), KeyString(l)) \/ Precedes(KeyString(l), KeyString(k))
  BY PrecedesTotal
<1>3. \A k \in K : ~Precedes(KeyString(k), KeyString(k))
  BY PrecedesIrreflexive
<1>4. \A k, l, m \in K : Precedes(KeyString(k), KeyString(l)) /\ Precedes(KeyString(l), KeyString(m))
        => Precedes(KeyString(k), KeyString(m))
  BY PrecedesTransitive
<1> QED
  BY <1>1, <1>2, <1>3, <1>4 DEF IsOrder
===============================================================================
