----------------------------- MODULE ProgramProofs -----------------------------
(***************************************************************************)
(* Proof that the print command implements ProgramContract.  The inductive *)
(* invariant says of every stage how its data are made of the versions     *)
(* read: ReadInv up to the storage, OutputInv from there to the output.    *)
(***************************************************************************)
EXTENDS DriverProofs

(***************************************************************************)
(* A reading goes over the places of a version in order.  pos gives the    *)
(* documents that were kept their indices, at the items their places.      *)
(***************************************************************************)
Collected(version, ns, unstructured, pos, n) ==
  /\ pos \in [DOMAIN unstructured -> DOMAIN version.docs]
  /\ \A x \in DOMAIN unstructured :
       /\ unstructured[x] = version.docs[pos[x]] /\ pos[x] < n
       /\ Kept(version.docs[pos[x]], ns)
  /\ \A x, y \in DOMAIN unstructured : x < y => pos[x] < pos[y]
  /\ \A m \in DOMAIN version.docs :
       m < n /\ Kept(version.docs[m], ns) => \E x \in DOMAIN unstructured : pos[x] = m

Unfolded(version, ns, pos, extracted, at, n) ==
  /\ at \in [DOMAIN extracted -> Places(version.docs, ns)]
  /\ \A x \in DOMAIN extracted :
       /\ extracted[x] = ObjectAt(version.docs, at[x])
       /\ \E m \in DOMAIN pos : m < n /\ at[x][1] = pos[m]
  /\ \A x, y \in DOMAIN extracted : x < y => Earlier(at[x], at[y])
  /\ \A p \in Places(version.docs, ns) : \A m \in DOMAIN pos :
       m < n /\ p[1] = pos[m] => \E x \in DOMAIN extracted : at[x] = p

\* Extracted are objects of the version, among them all of a kind, and of
\* those of one name the last one comes last.
Arranged(version, ns, kind, extracted) ==
  \E at \in [DOMAIN extracted -> Places(version.docs, ns)] :
    /\ \A x \in DOMAIN extracted : extracted[x] = ObjectAt(version.docs, at[x])
    /\ \A p \in PlacesOf(version.docs, ns, kind) : \E x \in DOMAIN extracted : at[x] = p
    /\ \A x, y \in DOMAIN extracted :
         x < y /\ extracted[x].kind = kind /\ extracted[y].kind = kind
           /\ NamespacedName(extracted[x]) = NamespacedName(extracted[y])
           => Earlier(at[x], at[y])

Selects(obj, kind, cls) == obj.kind = kind /\ (obj.kind = "Service" \/ OfClass(obj, cls))

\* The map has every name that was selected so far, with the last object.
NamedUpTo(kind, cls, extracted, map, n) ==
  /\ map = [nn \in DOMAIN map |-> map[nn]]
  /\ \A m \in DOMAIN extracted :
       m < n /\ Selects(extracted[m], kind, cls) => NamespacedName(extracted[m]) \in DOMAIN map
  /\ \A nn \in DOMAIN map : \E m \in DOMAIN extracted :
       /\ m < n /\ Selects(extracted[m], kind, cls) /\ NamespacedName(extracted[m]) = nn
       /\ map[nn] = extracted[m]
       /\ \A l \in DOMAIN extracted :
            m < l /\ l < n /\ Selects(extracted[l], kind, cls) => NamespacedName(extracted[l]) # nn

ValidUpTo(kind, extracted, n) ==
  \A m \in DOMAIN extracted : m < n /\ extracted[m].kind = kind => extracted[m].valid

LEMMA PlaceIs ==
  ASSUME NEW content, NEW ns, NEW p
  PROVE  p \in Places(content, ns)
           <=> \E n \in DOMAIN content :
                  Kept(content[n], ns) /\ \E m \in DOMAIN Items(content[n]) : p = <<n, m>>
BY DEF Places

LEMMA CollectOne ==
  ASSUME NEW version \in Version, NEW ns, NEW old \in Seq(Decoded), NEW new, NEW pos,
         NEW n \in DOMAIN version.docs,
         version.docs[n].kind # "malformed",
         Collected(version, ns, old, pos, n),
         new = IF Kept(version.docs[n], ns) THEN Append(old, version.docs[n]) ELSE old
  PROVE  \E npos : Collected(version, ns, new, npos, n + 1)
PROOF
<1>1. version.docs \in Seq(Document) /\ DOMAIN version.docs = 1..Len(version.docs)
      /\ Len(version.docs) \in Nat
  BY FileDocs, LenProperties
<1>2. DOMAIN old = 1..Len(old) /\ Len(old) \in Nat
  BY LenProperties
<1>3. CASE ~Kept(version.docs[n], ns)
  <2>1. new = old
    BY <1>3
  <2>2. Collected(version, ns, old, pos, n + 1)
    BY <1>1, <1>3 DEF Collected
  <2> QED
    BY <2>1, <2>2
<1>4. CASE Kept(version.docs[n], ns)
  <2> DEFINE doc == version.docs[n]
             L   == Len(old)
             npos == [x \in 1..(L + 1) |-> IF x <= L THEN pos[x] ELSE n]
  <2>1. doc \in Decoded
    BY <1>1, <1>4 DEF Kept, Decoded
  <2>2. new \in Seq(Decoded) /\ Len(new) = L + 1 /\ DOMAIN new = 1..(L + 1)
        /\ (\A x \in 1..L : new[x] = old[x]) /\ new[L + 1] = doc
    BY <1>4, <2>1, AppendProperties, LenProperties
  <2>3. /\ pos \in [1..L -> DOMAIN version.docs]
        /\ \A x \in 1..L :
             /\ old[x] = version.docs[pos[x]] /\ pos[x] < n
             /\ Kept(version.docs[pos[x]], ns)
        /\ \A x, y \in 1..L : x < y => pos[x] < pos[y]
        /\ \A m \in DOMAIN version.docs :
             m < n /\ Kept(version.docs[m], ns) => \E x \in 1..L : pos[x] = m
    BY <1>2 DEF Collected
  <2>4. npos \in [1..(L + 1) -> DOMAIN version.docs]
        /\ (\A x \in 1..L : npos[x] = pos[x]) /\ npos[L + 1] = n
    BY <1>1, <1>2, <2>3
  <2>5. \A x \in 1..(L + 1) : x \in 1..L \/ x = L + 1
    BY <1>2
  <2> HIDE DEF npos
  <2>6. \A x \in 1..(L + 1) :
             /\ new[x] = version.docs[npos[x]] /\ npos[x] < n + 1
             /\ Kept(version.docs[npos[x]], ns)
    BY <1>1, <1>4, <2>2, <2>3, <2>4, <2>5
  <2>7. \A x, y \in 1..(L + 1) : x < y => npos[x] < npos[y]
    BY <1>1, <1>2, <2>3, <2>4, <2>5
  <2>8. \A m \in DOMAIN version.docs :
             m < n + 1 /\ Kept(version.docs[m], ns) => \E x \in 1..(L + 1) : npos[x] = m
    BY <1>1, <1>2, <2>3, <2>4
  <2>9. Collected(version, ns, new, npos, n + 1)
    BY <2>2, <2>4, <2>6, <2>7, <2>8 DEF Collected
  <2> QED
    BY <2>9
<1> QED
  BY <1>3, <1>4

LEMMA UnfoldOne ==
  ASSUME NEW version \in Version, NEW ns, NEW unstructured \in Seq(Decoded), NEW pos,
         NEW n \in DOMAIN unstructured, NEW k,
         Collected(version, ns, unstructured, pos, k),
         NEW old \in Seq(Object), NEW new, NEW at,
         Unfolded(version, ns, pos, old, at, n),
         new = old \o Items(unstructured[n])
  PROVE  \E nat : Unfolded(version, ns, pos, new, nat, n + 1)
PROOF
<1> DEFINE its == Items(unstructured[n])
           L == Len(old)
           M == Len(its)
           content == version.docs
           nat == [x \in 1..(L + M) |-> IF x <= L THEN at[x] ELSE <<pos[n], x - L>>]
<1>1. unstructured[n] \in Decoded /\ DOMAIN unstructured = 1..Len(unstructured)
      /\ Len(unstructured) \in Nat
  BY LenProperties
<1>2. its \in Seq(Object) /\ M \in Nat /\ DOMAIN its = 1..M
  BY <1>1, ItemsAreObjects, LenProperties
<1>3. L \in Nat /\ DOMAIN old = 1..L
  BY LenProperties
<1>4. DOMAIN new = 1..(L + M) /\ \A x \in 1..(L + M) : new[x] = IF x <= L THEN old[x] ELSE its[x - L]
  BY <1>2, <1>3, ConcatProperties, LenProperties
<1>5. /\ pos \in [DOMAIN unstructured -> DOMAIN content]
      /\ unstructured[n] = content[pos[n]] /\ Kept(content[pos[n]], ns)
      /\ \A x, y \in DOMAIN unstructured : x < y => pos[x] < pos[y]
  BY DEF Collected
<1>6. DOMAIN pos = DOMAIN unstructured /\ pos[n] \in DOMAIN content
  BY <1>5
<1>7. DOMAIN content = 1..Len(content) /\ Len(content) \in Nat
  BY FileDocs, LenProperties
<1>8. /\ at \in [1..L -> Places(content, ns)]
      /\ \A x \in 1..L :
           /\ old[x] = ObjectAt(content, at[x])
           /\ \E m \in DOMAIN pos : m < n /\ at[x][1] = pos[m]
      /\ \A x, y \in 1..L : x < y => Earlier(at[x], at[y])
      /\ \A p \in Places(content, ns) : \A m \in DOMAIN pos :
           m < n /\ p[1] = pos[m] => \E x \in 1..L : at[x] = p
  BY <1>3 DEF Unfolded
<1>9. \A m \in 1..M : <<pos[n], m>> \in Places(content, ns) /\ ObjectAt(content, <<pos[n], m>>) = its[m]
  BY <1>2, <1>5, <1>6, PlaceIs DEF ObjectAt
<1>10. /\ \A x \in 1..L : nat[x] = at[x] /\ x \in 1..(L + M)
       /\ \A m \in 1..M : nat[L + m] = <<pos[n], m>> /\ L + m \in 1..(L + M)
       /\ DOMAIN nat = 1..(L + M)
  BY <1>2, <1>3
<1>11. \A x \in 1..(L + M) : x \in 1..L \/ \E m \in 1..M : x = L + m
  <2> SUFFICES ASSUME NEW x \in 1..(L + M), x \notin 1..L PROVE \E m \in 1..M : x = L + m
    OBVIOUS
  <2>1. x - L \in 1..M /\ x = L + (x - L)
    BY <1>2, <1>3
  <2> QED
    BY <2>1
<1>18. \A m \in 1..M : new[L + m] = its[m]
  <2> SUFFICES ASSUME NEW m \in 1..M PROVE new[L + m] = its[m]
    OBVIOUS
  <2>1. ~(L + m <= L) /\ (L + m) - L = m /\ L + m \in 1..(L + M)
    BY <1>2, <1>3
  <2> QED
    BY <1>4, <2>1
<1>12. nat = [x \in 1..(L + M) |-> nat[x]]
  OBVIOUS
<1> HIDE DEF nat, its, L, M, content
<1>13. nat \in [1..(L + M) -> Places(content, ns)]
  <2>1. \A x \in 1..L : nat[x] \in Places(content, ns)
    BY <1>8, <1>10
  <2>3. \A m \in 1..M : nat[L + m] \in Places(content, ns)
    BY <1>9, <1>10
  <2>4. \A x \in 1..(L + M) : nat[x] \in Places(content, ns)
    BY <1>11, <2>1, <2>3
  <2> QED
    BY <1>12, <2>4
<1>14. \A x \in 1..(L + M) :
         /\ new[x] = ObjectAt(content, nat[x])
         /\ \E m \in DOMAIN pos : m < n + 1 /\ nat[x][1] = pos[m]
  <2> SUFFICES ASSUME NEW x \in 1..(L + M)
               PROVE  /\ new[x] = ObjectAt(content, nat[x])
                      /\ \E m \in DOMAIN pos : m < n + 1 /\ nat[x][1] = pos[m]
    OBVIOUS
  <2>1. CASE x \in 1..L
    <3>1. new[x] = ObjectAt(content, nat[x])
      BY <1>3, <1>4, <1>8, <1>10, <2>1
    <3>2. PICK m \in DOMAIN pos : m < n /\ at[x][1] = pos[m]
      BY <1>8, <2>1
    <3>3. m < n + 1
      BY <1>1, <1>6, <3>2
    <3> QED
      BY <1>10, <2>1, <3>1, <3>2, <3>3
  <2>2. CASE \E m \in 1..M : x = L + m
    <3>1. PICK m \in 1..M : x = L + m
      BY <2>2
    <3>2. nat[x] = <<pos[n], m>> /\ new[x] = its[m]
      BY <1>10, <1>18, <3>1
    <3>3. n < n + 1 /\ n \in DOMAIN pos
      BY <1>1, <1>6
    <3> QED
      BY <1>9, <3>1, <3>2, <3>3
  <2> QED
    BY <1>11, <2>1, <2>2
<1>15. \A x, y \in 1..(L + M) : x < y => Earlier(nat[x], nat[y])
  <2> SUFFICES ASSUME NEW x \in 1..(L + M), NEW y \in 1..(L + M), x < y
               PROVE  Earlier(nat[x], nat[y])
    OBVIOUS
  <2>1. CASE y \in 1..L
    <3>1. x \in 1..L
      BY <1>2, <1>3, <2>1
    <3> QED
      BY <1>8, <1>10, <2>1, <3>1
  <2>2. CASE \E m \in 1..M : y = L + m
    <3>1. PICK b \in 1..M : y = L + b
      BY <2>2
    <3>2. nat[y] = <<pos[n], b>> /\ pos[n] \in Nat
      BY <1>6, <1>7, <1>10, <3>1
    <3>3. CASE x \in 1..L
      <4>1. PICK m \in DOMAIN pos : m < n /\ at[x][1] = pos[m]
        BY <1>8, <3>3
      <4>2. pos[m] < pos[n]
        BY <1>5, <1>6, <4>1
      <4> QED
        BY <1>10, <3>2, <3>3, <4>1, <4>2 DEF Earlier
    <3>4. CASE \E m \in 1..M : x = L + m
      <4>1. PICK a \in 1..M : x = L + a
        BY <3>4
      <4>2. nat[x] = <<pos[n], a>>
        BY <1>10, <4>1
      <4>3. a < b
        BY <1>2, <1>3, <3>1, <4>1
      <4> QED
        BY <3>2, <4>2, <4>3 DEF Earlier
    <3> QED
      BY <1>11, <3>3, <3>4
  <2> QED
    BY <1>11, <2>1, <2>2
<1>16. \A p \in Places(content, ns) : \A m \in DOMAIN pos :
         m < n + 1 /\ p[1] = pos[m] => \E x \in 1..(L + M) : nat[x] = p
  <2> SUFFICES ASSUME NEW p \in Places(content, ns), NEW m \in DOMAIN pos, m < n + 1, p[1] = pos[m]
               PROVE  \E x \in 1..(L + M) : nat[x] = p
    OBVIOUS
  <2>1. CASE m < n
    <3>1. PICK x \in 1..L : at[x] = p
      BY <1>8, <2>1
    <3> QED
      BY <1>10, <3>1
  <2>2. CASE m = n
    <3>1. PICK a \in DOMAIN content :
            Kept(content[a], ns) /\ \E b \in DOMAIN Items(content[a]) : p = <<a, b>>
      BY PlaceIs
    <3>2. PICK b \in DOMAIN Items(content[a]) : p = <<a, b>>
      BY <3>1
    <3>3. a = pos[n]
      BY <2>2, <3>2
    <3>4. Items(content[a]) = its
      BY <1>5, <3>3 DEF its
    <3>5. b \in 1..M
      BY <1>2, <3>2, <3>4
    <3> QED
      BY <1>10, <3>2, <3>3, <3>5
  <2>3. m < n \/ m = n
    BY <1>1, <1>6
  <2> QED
    BY <2>1, <2>2, <2>3
<1>17. Unfolded(version, ns, pos, new, nat, n + 1)
  BY <1>4, <1>13, <1>14, <1>15, <1>16 DEF Unfolded, content
<1> QED
  BY <1>17

LEMMA FileArranged ==
  ASSUME NEW version \in Version, NEW ns, NEW kind, NEW unstructured \in Seq(Decoded), NEW pos, NEW k,
         NEW n \in Nat, NEW extracted, NEW at,
         Collected(version, ns, unstructured, pos, k), k > Len(version.docs), k \in Nat,
         Unfolded(version, ns, pos, extracted, at, n), n > Len(unstructured)
  PROVE  Arranged(version, ns, kind, extracted)
PROOF
<1> DEFINE content == version.docs
<1>1. DOMAIN content = 1..Len(content) /\ Len(content) \in Nat
  BY FileDocs, LenProperties
<1>2. DOMAIN unstructured = 1..Len(unstructured) /\ Len(unstructured) \in Nat
  BY LenProperties
<1>3. /\ DOMAIN pos = DOMAIN unstructured
      /\ \A m \in DOMAIN content :
            m < k /\ Kept(content[m], ns) => \E x \in DOMAIN unstructured : pos[x] = m
  BY DEF Collected
<1>4. /\ at \in [DOMAIN extracted -> Places(content, ns)]
      /\ \A x \in DOMAIN extracted : extracted[x] = ObjectAt(content, at[x])
      /\ \A x, y \in DOMAIN extracted : x < y => Earlier(at[x], at[y])
      /\ \A p \in Places(content, ns) : \A m \in DOMAIN pos :
           m < n /\ p[1] = pos[m] => \E x \in DOMAIN extracted : at[x] = p
  BY DEF Unfolded
<1>5. \A p \in PlacesOf(content, ns, kind) : \E x \in DOMAIN extracted : at[x] = p
  <2> SUFFICES ASSUME NEW p \in PlacesOf(content, ns, kind) PROVE \E x \in DOMAIN extracted : at[x] = p
    OBVIOUS
  <2>1. p \in Places(content, ns)
    BY DEF PlacesOf
  <2>2. PICK a \in DOMAIN content :
          Kept(content[a], ns) /\ \E b \in DOMAIN Items(content[a]) : p = <<a, b>>
    BY <2>1, PlaceIs
  <2>3. p[1] = a /\ a < k
    BY <1>1, <2>2
  <2>4. PICK m \in DOMAIN unstructured : pos[m] = a
    BY <1>3, <2>2, <2>3
  <2>5. m < n
    BY <1>2
  <2> QED
    BY <1>3, <1>4, <2>1, <2>3, <2>4, <2>5
<1> HIDE DEF content
<1>6. Arranged(version, ns, kind, extracted)
  BY <1>4, <1>5 DEF Arranged, content
<1> QED
  BY <1>6

\* Any order of a part of a sequence has every element once.
LEMMA OrdersOnce ==
  ASSUME NEW T, NEW s \in Seq(T), NEW S \in SUBSET ToSet(s), NEW t \in Orders(S)
  PROVE  \A x, y \in DOMAIN t : t[x] = t[y] => x = y
PROOF
<1>1. IsFiniteSet(1..Len(s)) /\ Len(s) \in Nat /\ DOMAIN s = 1..Len(s)
  BY LenProperties, FS_Interval
<1>2. s \in Surjection(1..Len(s), ToSet(s))
  BY <1>1 DEF ToSet, Surjection
<1>3. IsFiniteSet(ToSet(s))
  BY <1>1, <1>2, FS_Surjection
<1>4. IsFiniteSet(S)
  BY <1>3, FS_Subset
<1> DEFINE c == Cardinality(S)
<1>5. c \in Nat
  BY <1>4, FS_CardinalityType
<1>6. t \in [1..c -> S] /\ ToSet(t) = S
  BY DEF Orders
<1>7. IsFiniteSet(1..c) /\ Cardinality(1..c) = c
  BY <1>5, FS_Interval
<1>8. t \in Surjection(1..c, S)
  BY <1>6 DEF ToSet, Surjection
<1>9. t \in Injection(1..c, S)
  BY <1>7, <1>8, FS_Surjection
<1>10. DOMAIN t = 1..c
  BY <1>6
<1> QED
  BY <1>9, <1>10 DEF Injection, IsInjective

LEMMA ClusterArranged ==
  ASSUME NEW version \in ClusterVersions, reading \in {"Ingress", "Service"},
         NEW extracted \in Orders(Listed(version))
  PROVE  Arranged(version, namespace, reading, extracted)
PROOF
<1> DEFINE content == version.docs
           L == Listed(version)
           index(obj) == CHOOSE m \in DOMAIN content : content[m] = obj
           at == [x \in DOMAIN extracted |-> <<index(extracted[x]), 1>>]
<1>1. content \in Seq(Document)
  BY ClusterAssumption, FileDocs
<1>2. L \in SUBSET ToSet(content)
  BY DEF Listed
<1>3. extracted \in Seq(L) /\ ToSet(extracted) = L
  BY <1>1, <1>2, OrdersOfPart
<1>4. \A x, y \in DOMAIN extracted : extracted[x] = extracted[y] => x = y
  BY <1>1, <1>2, OrdersOnce
<1>5. \A x \in DOMAIN extracted : extracted[x] \in L
  BY <1>3 DEF ToSet
<1>6. \A obj \in L : index(obj) \in DOMAIN content /\ content[index(obj)] = obj
  BY <1>2 DEF ToSet
<1>7. \A m \in DOMAIN content :
        content[m].kind \notin {"List", "null"} /\ Items(content[m]) = <<content[m]>>
  BY ClusterAssumption DEF Items, Object, IngressObject, ServiceObject, OtherObject
<1>8. \A m, n \in DOMAIN content :
        content[m].kind = content[n].kind /\ NamespacedName(content[m]) = NamespacedName(content[n])
          => m = n
  BY ClusterAssumption
<1>9. \A obj \in L : obj.kind = reading /\ InNamespace(obj, namespace)
  BY DEF Listed
<1>10. \A obj \in L : <<index(obj), 1>> \in Places(content, namespace)
                      /\ ObjectAt(content, <<index(obj), 1>>) = obj
  <2> SUFFICES ASSUME NEW obj \in L
               PROVE  /\ <<index(obj), 1>> \in Places(content, namespace)
                      /\ ObjectAt(content, <<index(obj), 1>>) = obj
    OBVIOUS
  <2> DEFINE m == index(obj)
  <2>1. m \in DOMAIN content /\ content[m] = obj
    BY <1>6
  <2> HIDE DEF m
  <2>2. Items(content[m]) = <<obj>> /\ 1 \in DOMAIN Items(content[m]) /\ Items(content[m])[1] = obj
    BY <1>7, <2>1
  <2>3. Kept(content[m], namespace)
    BY <1>7, <1>9, <2>1 DEF Kept
  <2>4. <<m, 1>> \in Places(content, namespace)
    BY <2>1, <2>2, <2>3, PlaceIs
  <2>5. ObjectAt(content, <<m, 1>>) = obj
    BY <2>2 DEF ObjectAt
  <2> QED
    BY <2>4, <2>5 DEF m
<1>11. /\ at = [x \in DOMAIN extracted |-> at[x]]
       /\ \A x \in DOMAIN extracted : at[x] = <<index(extracted[x]), 1>>
  OBVIOUS
<1> HIDE DEF at, index, content, L
<1>12. at \in [DOMAIN extracted -> Places(content, namespace)]
  <2>1. \A x \in DOMAIN extracted : at[x] \in Places(content, namespace)
    BY <1>5, <1>10, <1>11
  <2> QED
    BY <1>11, <2>1
<1>13. \A x \in DOMAIN extracted : extracted[x] = ObjectAt(content, at[x])
  BY <1>5, <1>10, <1>11
<1>14. \A p \in PlacesOf(content, namespace, reading) : \E x \in DOMAIN extracted : at[x] = p
  <2> SUFFICES ASSUME NEW p \in PlacesOf(content, namespace, reading)
               PROVE  \E x \in DOMAIN extracted : at[x] = p
    OBVIOUS
  <2>1. p \in Places(content, namespace) /\ ObjectAt(content, p).kind = reading
    BY DEF PlacesOf
  <2>2. PICK a \in DOMAIN content :
          Kept(content[a], namespace) /\ \E b \in DOMAIN Items(content[a]) : p = <<a, b>>
    BY <2>1, PlaceIs
  <2>3. p = <<a, 1>> /\ ObjectAt(content, p) = content[a]
    <3>1. PICK b \in DOMAIN Items(content[a]) : p = <<a, b>>
      BY <2>2
    <3>2. b = 1
      BY <1>7, <3>1
    <3> QED
      BY <1>7, <3>1, <3>2 DEF ObjectAt
  <2>4. content[a] \in L
    BY <2>1, <2>2, <2>3 DEF L, Listed, content, ToSet, Kept
  <2>5. PICK x \in DOMAIN extracted : extracted[x] = content[a]
    BY <1>3, <2>4 DEF ToSet
  <2>6. index(content[a]) = a
    BY <1>6, <1>8, <2>4
  <2> QED
    BY <1>11, <2>3, <2>5, <2>6
<1>15. \A x, y \in DOMAIN extracted :
         NamespacedName(extracted[x]) = NamespacedName(extracted[y]) => x = y
  <2> SUFFICES ASSUME NEW x \in DOMAIN extracted, NEW y \in DOMAIN extracted,
                      NamespacedName(extracted[x]) = NamespacedName(extracted[y])
               PROVE  x = y
    OBVIOUS
  <2>1. PICK m \in DOMAIN content : content[m] = extracted[x]
    BY <1>5, <1>6
  <2>2. PICK n \in DOMAIN content : content[n] = extracted[y]
    BY <1>5, <1>6
  <2>3. content[m].kind = reading /\ content[n].kind = reading
    BY <1>5, <1>9, <2>1, <2>2
  <2>4. m = n
    BY <1>8, <2>1, <2>2, <2>3
  <2> QED
    BY <1>4, <2>1, <2>2, <2>4
<1>16. DOMAIN extracted = 1..Len(extracted)
  BY <1>3, LenProperties
<1>17. \A x, y \in DOMAIN extracted :
         x < y /\ extracted[x].kind = reading /\ extracted[y].kind = reading
           /\ NamespacedName(extracted[x]) = NamespacedName(extracted[y])
           => Earlier(at[x], at[y])
  BY <1>15, <1>16
<1> QED
  BY <1>12, <1>13, <1>14, <1>17 DEF Arranged, content

LEMMA NothingNamed ==
  ASSUME NEW kind, NEW cls, NEW extracted \in Seq(Object)
  PROVE  NamedUpTo(kind, cls, extracted, EmptyMap, 1) /\ ValidUpTo(kind, extracted, 1)
PROOF
<1>1. DOMAIN extracted = 1..Len(extracted) /\ Len(extracted) \in Nat
  BY LenProperties
<1>2. \A m \in DOMAIN extracted : ~(m < 1)
  BY <1>1
<1>3. DOMAIN EmptyMap = {} /\ EmptyMap = [nn \in DOMAIN EmptyMap |-> EmptyMap[nn]]
  BY DEF EmptyMap
<1> HIDE DEF EmptyMap
<1> QED
  BY <1>2, <1>3 DEF NamedUpTo, ValidUpTo

LEMMA NameOne ==
  ASSUME NEW kind, NEW cls, NEW extracted \in Seq(Object), NEW old, NEW new,
         NEW n \in DOMAIN extracted,
         NamedUpTo(kind, cls, extracted, old, n),
         new = IF Selects(extracted[n], kind, cls)
               THEN Put(old, NamespacedName(extracted[n]), extracted[n]) ELSE old
  PROVE  NamedUpTo(kind, cls, extracted, new, n + 1)
PROOF
<1>1. DOMAIN extracted = 1..Len(extracted) /\ Len(extracted) \in Nat
  BY LenProperties
<1>2. \A m \in DOMAIN extracted : m < n + 1 <=> (m < n \/ m = n)
  BY <1>1
<1>3. CASE ~Selects(extracted[n], kind, cls)
  <2>1. new = old
    BY <1>3
  <2>2. new = [nn \in DOMAIN new |-> new[nn]]
    BY <2>1 DEF NamedUpTo
  <2>3. \A m \in DOMAIN extracted :
          m < n + 1 /\ Selects(extracted[m], kind, cls) => NamespacedName(extracted[m]) \in DOMAIN new
    BY <1>2, <1>3, <2>1 DEF NamedUpTo
  <2>4. ASSUME NEW nn \in DOMAIN new
        PROVE  \E m \in DOMAIN extracted :
                 /\ m < n + 1 /\ Selects(extracted[m], kind, cls)
                 /\ NamespacedName(extracted[m]) = nn /\ new[nn] = extracted[m]
                 /\ \A l \in DOMAIN extracted :
                      m < l /\ l < n + 1 /\ Selects(extracted[l], kind, cls)
                        => NamespacedName(extracted[l]) # nn
    <3>1. PICK m \in DOMAIN extracted :
            /\ m < n /\ Selects(extracted[m], kind, cls) /\ NamespacedName(extracted[m]) = nn
            /\ old[nn] = extracted[m]
            /\ \A l \in DOMAIN extracted :
                 m < l /\ l < n /\ Selects(extracted[l], kind, cls) => NamespacedName(extracted[l]) # nn
      BY <2>1, <2>4 DEF NamedUpTo
    <3> QED
      BY <1>2, <1>3, <2>1, <3>1
  <2> QED
    BY <2>2, <2>3, <2>4 DEF NamedUpTo
<1>4. CASE Selects(extracted[n], kind, cls)
  <2> DEFINE name == NamespacedName(extracted[n])
  <2>1. /\ new = [nn \in DOMAIN new |-> new[nn]]
        /\ DOMAIN new = DOMAIN old \union {name} /\ new[name] = extracted[n]
        /\ \A nn \in DOMAIN old : nn # name => new[nn] = old[nn]
    BY <1>4 DEF Put
  <2>2. name = NamespacedName(extracted[n])
    OBVIOUS
  <2> HIDE DEF name
  <2>3. \A m \in DOMAIN extracted :
          m < n + 1 /\ Selects(extracted[m], kind, cls) => NamespacedName(extracted[m]) \in DOMAIN new
    BY <1>2, <2>1, <2>2 DEF NamedUpTo
  <2>4. ASSUME NEW nn \in DOMAIN new
        PROVE  \E m \in DOMAIN extracted :
                 /\ m < n + 1 /\ Selects(extracted[m], kind, cls)
                 /\ NamespacedName(extracted[m]) = nn /\ new[nn] = extracted[m]
                 /\ \A l \in DOMAIN extracted :
                      m < l /\ l < n + 1 /\ Selects(extracted[l], kind, cls)
                        => NamespacedName(extracted[l]) # nn
    <3>1. CASE nn = name
      <4>1. \A l \in DOMAIN extracted : ~(n < l /\ l < n + 1)
        BY <1>1
      <4>2. n < n + 1
        BY <1>1
      <4> QED
        BY <1>4, <2>1, <2>2, <3>1, <4>1, <4>2
    <3>2. CASE nn # name
      <4>1. nn \in DOMAIN old /\ new[nn] = old[nn]
        BY <2>1, <2>4, <3>2
      <4>2. PICK m \in DOMAIN extracted :
              /\ m < n /\ Selects(extracted[m], kind, cls) /\ NamespacedName(extracted[m]) = nn
              /\ old[nn] = extracted[m]
              /\ \A l \in DOMAIN extracted :
                   m < l /\ l < n /\ Selects(extracted[l], kind, cls) => NamespacedName(extracted[l]) # nn
        BY <4>1 DEF NamedUpTo
      <4> QED
        BY <1>2, <2>2, <3>2, <4>1, <4>2
    <3> QED
      BY <3>1, <3>2
  <2> QED
    BY <2>1, <2>3, <2>4 DEF NamedUpTo
<1> QED
  BY <1>3, <1>4

SelectedPlaces(content, ns, kind, cls) ==
  {p \in Places(content, ns) : Selects(ObjectAt(content, p), kind, cls)}

\* No two places are each before the other.
LEMMA EarlierIsAsymmetric ==
  ASSUME NEW content \in Seq(Document), NEW ns, NEW p \in Places(content, ns),
         NEW q \in Places(content, ns),
         Earlier(p, q)
  PROVE  ~Earlier(q, p) /\ p # q
PROOF
<1>1. DOMAIN content = 1..Len(content) /\ Len(content) \in Nat
  BY LenProperties
<1>2. PICK a \in DOMAIN content :
        Kept(content[a], ns) /\ \E b \in DOMAIN Items(content[a]) : p = <<a, b>>
  BY PlaceIs
<1>3. PICK b \in DOMAIN Items(content[a]) : p = <<a, b>>
  BY <1>2
<1>4. PICK c \in DOMAIN content :
        Kept(content[c], ns) /\ \E d \in DOMAIN Items(content[c]) : q = <<c, d>>
  BY PlaceIs
<1>5. PICK d \in DOMAIN Items(content[c]) : q = <<c, d>>
  BY <1>4
<1>6. \A doc \in Document : DOMAIN Items(doc) \subseteq Nat
  <2> SUFFICES ASSUME NEW doc \in Document PROVE DOMAIN Items(doc) \subseteq Nat
    OBVIOUS
  <2>1. CASE doc.kind = "List"
    <3>1. doc.items \in Seq(Object)
      BY <2>1 DEF Document, Object, IngressObject, ServiceObject, OtherObject
    <3>2. DOMAIN doc.items = 1..Len(doc.items)
      BY <3>1, LenProperties
    <3> QED
      BY <2>1, <3>2 DEF Items
  <2>2. CASE doc.kind # "List"
    BY <2>2 DEF Items
  <2> QED
    BY <2>1, <2>2
<1>7. content[a] \in Document /\ content[c] \in Document
  BY <1>1
<1>8. b \in Nat /\ d \in Nat /\ a \in Nat /\ c \in Nat
  BY <1>1, <1>6, <1>7
<1>9. a < c \/ (a = c /\ b < d)
  BY <1>3, <1>5 DEF Earlier
<1> QED
  BY <1>3, <1>5, <1>8, <1>9 DEF Earlier

\* The map that the loop ends with is the one that goes by places.
LEMMA NamedAll ==
  ASSUME NEW version \in Version, NEW ns, NEW kind, NEW cls, NEW extracted \in Seq(Object), NEW map,
         NEW n \in Nat, n > Len(extracted),
         Arranged(version, ns, kind, extracted), NamedUpTo(kind, cls, extracted, map, n)
  PROVE  map = ByName(version.docs, SelectedPlaces(version.docs, ns, kind, cls))
PROOF
<1> DEFINE content == version.docs
           S == SelectedPlaces(content, ns, kind, cls)
           names == {NamespacedName(ObjectAt(content, p)) : p \in S}
           named(nn) == {p \in S : NamespacedName(ObjectAt(content, p)) = nn}
           last(nn) == CHOOSE p \in named(nn) : \A q \in named(nn) : q = p \/ Earlier(q, p)
<1>1. PICK at \in [DOMAIN extracted -> Places(content, ns)] :
        /\ \A x \in DOMAIN extracted : extracted[x] = ObjectAt(content, at[x])
        /\ \A p \in PlacesOf(content, ns, kind) : \E x \in DOMAIN extracted : at[x] = p
        /\ \A x, y \in DOMAIN extracted :
             x < y /\ extracted[x].kind = kind /\ extracted[y].kind = kind
               /\ NamespacedName(extracted[x]) = NamespacedName(extracted[y])
               => Earlier(at[x], at[y])
  BY DEF Arranged
<1>2. DOMAIN extracted = 1..Len(extracted) /\ Len(extracted) \in Nat
  BY LenProperties
<1>3. \A m \in DOMAIN extracted : m < n
  BY <1>2
<1>4. content \in Seq(Document)
  BY FileDocs
<1>5. \A p : p \in S <=> p \in Places(content, ns) /\ Selects(ObjectAt(content, p), kind, cls)
  BY DEF SelectedPlaces
<1>6. ByName(content, S) = [nn \in names |-> ObjectAt(content, last(nn))]
  BY DEF ByName
<1>7. \A nn : named(nn) = {p \in S : NamespacedName(ObjectAt(content, p)) = nn}
  OBVIOUS
<1>8. \A nn : last(nn) = CHOOSE p \in named(nn) : \A q \in named(nn) : q = p \/ Earlier(q, p)
  OBVIOUS
<1>9. \A nn : nn \in names <=> \E p \in S : NamespacedName(ObjectAt(content, p)) = nn
  OBVIOUS
<1> HIDE DEF content, S, names, named, last
<1>10. \A p \in S : \E x \in DOMAIN extracted : at[x] = p /\ Selects(extracted[x], kind, cls)
                      /\ extracted[x] = ObjectAt(content, p)
  BY <1>1, <1>5 DEF PlacesOf, Selects
<1>11. \A x \in DOMAIN extracted : Selects(extracted[x], kind, cls) => at[x] \in S
  BY <1>1, <1>5
<1>12. DOMAIN map = names
  <2>1. ASSUME NEW nn \in DOMAIN map PROVE nn \in names
    <3>1. PICK m \in DOMAIN extracted :
            Selects(extracted[m], kind, cls) /\ NamespacedName(extracted[m]) = nn
      BY DEF NamedUpTo
    <3> QED
      BY <1>1, <1>9, <1>11, <3>1
  <2>2. ASSUME NEW nn \in names PROVE nn \in DOMAIN map
    <3>1. PICK p \in S : NamespacedName(ObjectAt(content, p)) = nn
      BY <1>9
    <3>2. PICK x \in DOMAIN extracted :
            Selects(extracted[x], kind, cls) /\ extracted[x] = ObjectAt(content, p)
      BY <1>10
    <3> QED
      BY <1>3, <3>1, <3>2 DEF NamedUpTo
  <2> QED
    BY <2>1, <2>2
<1>13. \A nn \in DOMAIN map : map[nn] = ObjectAt(content, last(nn))
  <2> SUFFICES ASSUME NEW nn \in DOMAIN map PROVE map[nn] = ObjectAt(content, last(nn))
    OBVIOUS
  <2>1. PICK m \in DOMAIN extracted :
          /\ Selects(extracted[m], kind, cls) /\ NamespacedName(extracted[m]) = nn
          /\ map[nn] = extracted[m]
          /\ \A l \in DOMAIN extracted :
               m < l /\ l < n /\ Selects(extracted[l], kind, cls) => NamespacedName(extracted[l]) # nn
    BY DEF NamedUpTo
  <2>2. at[m] \in named(nn)
    BY <1>1, <1>7, <1>11, <2>1
  <2>3. ASSUME NEW q \in named(nn) PROVE q = at[m] \/ Earlier(q, at[m])
    <3>1. q \in S /\ NamespacedName(ObjectAt(content, q)) = nn
      BY <1>7, <2>3
    <3>2. PICK y \in DOMAIN extracted : at[y] = q /\ Selects(extracted[y], kind, cls)
                                        /\ extracted[y] = ObjectAt(content, q)
      BY <1>10, <3>1
    <3>3. ~(m < y)
      BY <1>3, <2>1, <3>1, <3>2
    <3>4. y = m \/ y < m
      BY <1>2, <3>3
    <3>5. y < m => Earlier(at[y], at[m])
      BY <1>1, <2>1, <3>1, <3>2 DEF Selects
    <3> QED
      BY <3>2, <3>4, <3>5
  <2>4. last(nn) \in named(nn) /\ \A q \in named(nn) : q = last(nn) \/ Earlier(q, last(nn))
    BY <1>8, <2>2, <2>3
  <2>5. last(nn) \in S /\ at[m] \in S
    BY <1>7, <2>2, <2>4
  <2>6. last(nn) \in Places(content, ns) /\ at[m] \in Places(content, ns)
    BY <1>5, <2>5
  <2>7. last(nn) = at[m]
    BY <1>4, <2>2, <2>3, <2>4, <2>6, EarlierIsAsymmetric
  <2> QED
    BY <1>1, <2>1, <2>7
<1>14. map = [nn \in DOMAIN map |-> map[nn]]
  BY DEF NamedUpTo
<1>15. map = [nn \in names |-> ObjectAt(content, last(nn))]
  BY <1>12, <1>13, <1>14
<1> QED
  BY <1>6, <1>15 DEF content, S

-------------------------------------------------------------------------------
(***************************************************************************)
(* The invariant of the stages up to the storage                           *)
(***************************************************************************)
Working == {"emitter", "convert", "emit", "check", "tables", "warn", "print"}

\* The version that is being read.
Current == seen[IF First THEN 1 ELSE 2]

\* All of it can be decoded.
Whole(version, ns) ==
  /\ version.readable
  /\ \A doc \in ToSet(version.docs) : doc.kind # "malformed" /\ ~(Kept(doc, ns) /\ BrokenList(doc))

FlagsInv ==
  /\ phase \in Before \ {"start"} => ~(config.namespace # <<>> /\ config.allNamespaces)
  /\ phase \in Before \ {"start", "printer"} => config.output \in Formats
  /\ phase \in {"connect", "construct"} =>
       /\ namespace = NamespaceOf(config)
       /\ config.file \/ config.allNamespaces \/ config.namespace # <<>> \/ config.context # <<>>
  /\ phase = "construct" => config.file \/ config.kubeconfig
  /\ phase \in Reading \union Working => namespace = NamespaceOf(config) /\ ~CannotStart(config)
  /\ phase \in Reading => config.providers # <<>> /\ class = config.ingressClass

VersionsInv ==
  /\ phase \in Before => seen = <<>> /\ First
  /\ phase = "open" => Len(seen) = IF First THEN 0 ELSE 1
  /\ phase \in Reading \ {"open"} => Len(seen) = IF First THEN 1 ELSE 2
  /\ phase = "list" => First
  /\ phase = "group" => ~First

FirstReadInv ==
  phase \in Reading /\ ~First =>
    /\ ~ReadFails(seen[1], "Ingress", namespace)
    /\ DOMAIN draft = {"ingresses", "names", "ports"}
    /\ draft.ingresses = IngressesIn(seen[1].docs, namespace, class)

DecodingInv ==
  phase = "decode" =>
    /\ Current.readable /\ docs = Current.docs /\ items = <<>> /\ found = EmptyMap
    /\ \A m \in DOMAIN docs : m < i => docs[m].kind # "malformed"
    /\ \E pos \in [DOMAIN objs -> DOMAIN docs] : Collected(Current, namespace, objs, pos, i)

ExpandingInv ==
  phase = "expand" =>
    /\ Current.readable /\ found = EmptyMap
    /\ \A doc \in ToSet(Current.docs) : doc.kind # "malformed"
    /\ \A m \in DOMAIN objs : m < i => ~BrokenList(objs[m])
    /\ \E pos \in [DOMAIN objs -> DOMAIN Current.docs] :
         /\ Collected(Current, namespace, objs, pos, Len(Current.docs) + 1)
         /\ \E at \in [DOMAIN items -> Places(Current.docs, namespace)] :
              Unfolded(Current, namespace, pos, items, at, i)

TakingInv ==
  phase = "take" =>
    /\ Whole(Current, namespace) /\ Arranged(Current, namespace, reading, items)
    /\ NamedUpTo(reading, class, items, found, i) /\ ValidUpTo(reading, items, i)

TakenInv ==
  phase \in {"list", "group"} =>
    /\ ~ReadFails(Current, reading, namespace)
    /\ found = ByName(Current.docs, SelectedPlaces(Current.docs, namespace, reading, class))

StoredInv ==
  phase \in Working =>
    IF config.providers = <<>> THEN seen = <<>>
    ELSE /\ Len(seen) = 2 /\ ~ReadFailed(config, seen)
         /\ storage.ingresses = StoredIngresses(config, seen)
         /\ storage.ports = StoredPorts(config, seen)

ReadInv ==
  /\ FlagsInv /\ VersionsInv /\ FirstReadInv
  /\ DecodingInv /\ ExpandingInv /\ TakingInv /\ TakenInv
  /\ StoredInv

LEMMA CurrentVersion ==
  ASSUME DriverTypeOK, VersionsInv, phase \in Reading \ {"open"}
  PROVE  Current \in Version /\ Current \in Source
PROOF
<1>1. seen \in Seq(Source) /\ config \in Configs
  BY DEF DriverTypeOK
<1>2. Len(seen) = IF First THEN 1 ELSE 2
  BY DEF VersionsInv
<1>3. Current \in Source
  BY <1>1, <1>2, ElementOfSeq DEF Current
<1> QED
  BY <1>1, <1>3, SourceVersions

LEMMA InitRead == Init => ReadInv
  BY DEF Init, ReaderInit, ReadInv, FlagsInv, VersionsInv, FirstReadInv, DecodingInv, ExpandingInv,
         TakingInv, TakenInv, StoredInv, First, Before, Reading, Working

\* After a failure nothing is claimed.
LEMMA EndedRead ==
  ASSUME phase' \in Ended
  PROVE  ReadInv'
  BY DEF ReadInv, FlagsInv, VersionsInv, FirstReadInv, DecodingInv, ExpandingInv,
         TakingInv, TakenInv, StoredInv, Before, Reading, Working, Ended

\* The steps after the reading.
LEMMA WorkingRead ==
  ASSUME ReadInv, phase \in Working, phase' \in Working \union Ended,
         UNCHANGED <<config, namespace, seen, storage>>
  PROVE  ReadInv'
  BY DEF ReadInv, FlagsInv, VersionsInv, FirstReadInv, DecodingInv, ExpandingInv,
         TakingInv, TakenInv, StoredInv, Before, Reading, Working, Ended

\* The steps within a reading.
LEMMA InnerRead ==
  ASSUME ReadInv, phase \in Reading \ {"open"}, phase' \in Reading \ {"open"},
         UNCHANGED <<config, namespace, class, reading, draft, seen>>,
         phase' = "list" => First, phase' = "group" => ~First
  PROVE  FlagsInv' /\ VersionsInv' /\ FirstReadInv' /\ StoredInv' /\ Current' = Current
         /\ First' = First
PROOF
<1>1. FlagsInv'
  BY DEF ReadInv, FlagsInv, Before, Reading, Working
<1>2. VersionsInv'
  BY DEF ReadInv, VersionsInv, First, Before, Reading, Working
<1>3. FirstReadInv'
  BY DEF ReadInv, FirstReadInv, First, Before, Reading, Working
<1>4. StoredInv'
  BY DEF StoredInv, Reading, Working
<1> QED
  BY <1>1, <1>2, <1>3, <1>4 DEF Current, First

LEMMA StartRead ==
  ASSUME DriverTypeOK, ReadInv,
         ParseFlags \/ InitializeResourcePrinter \/ InitializeNamespaceFilter
           \/ ConnectClient \/ ConstructProviders
  PROVE  ReadInv'
PROOF
<1>1. /\ UNCHANGED <<config, seen, reading>> /\ phase \in Before
      /\ phase' \in Before \union {"open", "emitter", "failed"}
  BY DEF ParseFlags, InitializeResourcePrinter, InitializeNamespaceFilter, ConnectClient,
         ConstructProviders, Goto, Fail, settings, readVars, Before
<1>2. seen = <<>> /\ First /\ Len(seen) = 0
  BY <1>1, EmptySeq DEF ReadInv, VersionsInv
<1>3. VersionsInv'
  BY <1>1, <1>2 DEF VersionsInv, First, Before, Reading
<1>4. FirstReadInv' /\ DecodingInv' /\ ExpandingInv' /\ TakingInv' /\ TakenInv'
  BY <1>1, <1>2 DEF FirstReadInv, DecodingInv, ExpandingInv, TakingInv, TakenInv, First, Before
<1>5. FlagsInv' /\ StoredInv'
  <2>1. CASE ParseFlags \/ InitializeResourcePrinter
    BY <2>1 DEF ParseFlags, InitializeResourcePrinter, Goto, settings, ReadInv, FlagsInv, StoredInv,
                Before, Reading, Working
  <2>2. CASE InitializeNamespaceFilter
    <3>1. CASE phase' = "connect"
      <4>1. /\ namespace' = NamespaceOf(config)
            /\ config.file \/ config.allNamespaces \/ config.namespace # <<>> \/ config.context # <<>>
        BY <2>2, <3>1 DEF InitializeNamespaceFilter, Goto, Fail, NamespaceOf
      <4>2. /\ phase = "filter"
            /\ ~(config.namespace # <<>> /\ config.allNamespaces) /\ config.output \in Formats
        BY <2>2 DEF InitializeNamespaceFilter, ReadInv, FlagsInv, Before
      <4> QED
        BY <1>1, <3>1, <4>1, <4>2 DEF FlagsInv, StoredInv, Before, Reading, Working
    <3>2. CASE phase' # "connect"
      BY <2>2, <3>2 DEF InitializeNamespaceFilter, Goto, Fail, FlagsInv, StoredInv, Before, Reading,
                        Working
    <3> QED
      BY <3>1, <3>2
  <2>3. CASE ConnectClient
    BY <2>3 DEF ConnectClient, Goto, settings, ReadInv, FlagsInv, StoredInv, Before, Reading, Working
  <2>4. CASE ConstructProviders
    <3>1. CASE phase' = "failed"
      BY <3>1 DEF FlagsInv, StoredInv, Before, Reading, Working
    <3>2. CASE phase' # "failed"
      <4>1. /\ phase' = IF config.providers = <<>> THEN "emitter" ELSE "open"
            /\ namespace' = namespace
            /\ config.providers # <<>> => class' = config.ingressClass
            /\ \A p \in ToSet(config.providers) : p = Provider
        <5>1. config.providers = <<>> => ToSet(config.providers) = {}
          BY DEF ToSet
        <5> QED
          BY <2>4, <3>2, <5>1 DEF ConstructProviders, Goto, Fail
      <4>2. /\ phase = "construct"
            /\ ~(config.namespace # <<>> /\ config.allNamespaces) /\ config.output \in Formats
            /\ config.file \/ config.allNamespaces \/ config.namespace # <<>> \/ config.context # <<>>
            /\ namespace = NamespaceOf(config) /\ (config.file \/ config.kubeconfig)
        BY <2>4 DEF ConstructProviders, ReadInv, FlagsInv, Before
      <4>3. ~CannotStart(config)
        BY <4>1, <4>2 DEF CannotStart, Formats
      <4> QED
        BY <1>1, <1>2, <4>1, <4>2, <4>3 DEF FlagsInv, StoredInv, Before, Reading, Working
    <3> QED
      BY <3>1, <3>2
  <2> QED
    BY <2>1, <2>2, <2>3, <2>4
<1> QED
  BY <1>3, <1>4, <1>5 DEF ReadInv

LEMMA OpenRead == DriverTypeOK /\ ReadInv /\ (OpenFile \/ ListObjects) => ReadInv'
PROOF
<1> SUFFICES ASSUME DriverTypeOK, ReadInv, OpenFile \/ ListObjects PROVE ReadInv'
  OBVIOUS
<1>1. /\ config \in Configs /\ world \in Source /\ world \in Version /\ seen \in Seq(Source)
      /\ reading \in {"Ingress", "Service"}
  BY SourceVersions DEF DriverTypeOK
<1>2. /\ phase = "open" /\ UNCHANGED <<config, namespace, class, reading, draft>>
      /\ seen' = Append(seen, world) /\ found' = EmptyMap
      /\ phase' \in {"decode", "take", "failed"}
      /\ phase' # "failed" => world.readable
      /\ i' = 1
  BY DEF OpenFile, ListObjects, Goto, Fail, settings
<1>3. CASE phase' = "failed"
  BY <1>3, EndedRead DEF Ended
<1>4. CASE phase' # "failed"
  <2>1. Len(seen) = (IF First THEN 0 ELSE 1) /\ Len(seen') = Len(seen) + 1
        /\ (\A x \in 1..Len(seen) : seen'[x] = seen[x]) /\ seen'[Len(seen) + 1] = world
    BY <1>1, <1>2, AppendProperties DEF ReadInv, VersionsInv
  <2>2. First' = First /\ Current' = world /\ (~First => seen'[1] = seen[1])
    BY <1>2, <2>1 DEF First, Current
  <2>3. FlagsInv' /\ VersionsInv' /\ FirstReadInv' /\ StoredInv'
    <3>1. FlagsInv' /\ StoredInv'
      BY <1>2, <1>4 DEF ReadInv, FlagsInv, StoredInv, Before, Reading, Working
    <3>2. VersionsInv'
      BY <1>2, <1>4, <2>1, <2>2 DEF VersionsInv, Before, Reading
    <3>3. FirstReadInv'
      BY <1>2, <2>2 DEF ReadInv, FirstReadInv, Reading
    <3> QED
      BY <3>1, <3>2, <3>3
  <2>4. ExpandingInv' /\ TakenInv'
    BY <1>2 DEF ExpandingInv, TakenInv
  <2>5. DecodingInv'
    <3>1. CASE phase' = "decode"
      <4>1. docs' = world.docs /\ objs' = <<>> /\ items' = <<>>
        BY <1>2, <3>1 DEF OpenFile, ListObjects, Goto, Fail
      <4>2. DOMAIN docs' = 1..Len(docs') /\ Len(docs') \in Nat
        BY <1>1, <4>1, FileDocs, LenProperties
      <4>3. \A m \in DOMAIN docs' : ~(m < 1)
        BY <4>2
      <4> DEFINE none == [x \in {} |-> 1]
      <4>4. none \in [DOMAIN objs' -> DOMAIN docs']
        BY <4>1
      <4>5. DOMAIN objs' = {}
        BY <4>1
      <4> HIDE DEF none
      <4>6. Collected(Current', namespace', objs', none, i')
        BY <1>2, <2>2, <4>1, <4>3, <4>4, <4>5 DEF Collected
      <4> QED
        BY <1>2, <1>4, <2>2, <4>1, <4>3, <4>4, <4>6 DEF DecodingInv
    <3> QED
      BY <3>1 DEF DecodingInv
  <2>6. TakingInv'
    <3>1. CASE phase' = "take"
      <4>1. ListObjects /\ items' \in Orders(Listed(world)) /\ ~config.file
        BY <1>2, <3>1 DEF OpenFile, ListObjects, Goto, Fail
      <4>2. world \in ClusterVersions
        BY <1>1, <4>1 DEF Source
      <4>3. Arranged(world, namespace, reading, items')
        BY <1>1, <4>1, <4>2, ClusterArranged
      <4>4. items' \in Seq(Object)
        BY <4>1, <4>2, ListedObjects
      <4>5. Whole(world, namespace)
        <5>1. \A doc \in ToSet(world.docs) : doc.kind # "malformed" /\ doc.kind # "List"
          BY <4>2, ClusterAssumption DEF ToSet, Object, IngressObject, ServiceObject, OtherObject
        <5> QED
          BY <1>2, <1>4, <5>1 DEF Whole, BrokenList
      <4>6. NamedUpTo(reading, class, items', EmptyMap, 1) /\ ValidUpTo(reading, items', 1)
        BY <4>4, NothingNamed
      <4> QED
        BY <1>2, <2>2, <4>3, <4>5, <4>6 DEF TakingInv
    <3> QED
      BY <3>1 DEF TakingInv
  <2> QED
    BY <2>3, <2>4, <2>5, <2>6 DEF ReadInv
<1> QED
  BY <1>3, <1>4

LEMMA DecodeRead == DriverTypeOK /\ ReadInv /\ (DecodeDocument \/ EndOfFile) => ReadInv'
PROOF
<1> SUFFICES ASSUME DriverTypeOK, ReadInv, DecodeDocument \/ EndOfFile PROVE ReadInv'
  OBVIOUS
<1>1. /\ phase = "decode" /\ phase' \in {"decode", "expand", "failed"}
      /\ UNCHANGED <<config, namespace, class, reading, docs, items, found, draft, storage, seen>>
  BY DEF DecodeDocument, EndOfFile, Goto, Fail, settings, readVars
<1>2. objs \in Seq(Decoded) /\ docs \in Seq(Document) /\ i \in Nat \ {0}
  BY DEF DriverTypeOK
<1>3. CASE phase' = "failed"
  BY <1>3, EndedRead DEF Ended
<1>4. CASE phase' # "failed"
  <2>1. Current \in Version
    BY <1>1, CurrentVersion DEF ReadInv, Reading
  <2>2. /\ FlagsInv' /\ VersionsInv' /\ FirstReadInv' /\ StoredInv' /\ Current' = Current
        /\ First' = First
    BY <1>1, <1>4, InnerRead DEF Reading
  <2>3. /\ Current.readable /\ docs = Current.docs /\ items = <<>> /\ found = EmptyMap
        /\ \A m \in DOMAIN docs : m < i => docs[m].kind # "malformed"
    BY <1>1 DEF ReadInv, DecodingInv
  <2>4. PICK pos : Collected(Current, namespace, objs, pos, i)
    BY <1>1 DEF ReadInv, DecodingInv
  <2>5. DOMAIN docs = 1..Len(docs) /\ Len(docs) \in Nat
    BY <1>2, LenProperties
  <2>6. DecodingInv'
    <3>1. CASE phase' = "decode"
      <4>1. DecodeDocument /\ i \in DOMAIN docs /\ docs[i].kind # "malformed" /\ i' = i + 1
        BY <1>2, <2>5, <3>1 DEF DecodeDocument, EndOfFile, Goto, Fail
      <4>2. objs' = IF Kept(docs[i], namespace) THEN Append(objs, docs[i]) ELSE objs
        BY <4>1 DEF DecodeDocument
      <4>3. PICK npos : Collected(Current, namespace, objs', npos, i + 1)
        BY <1>2, <2>1, <2>3, <2>4, <4>1, <4>2, CollectOne
      <4>4. npos \in [DOMAIN objs' -> DOMAIN docs]
        BY <2>3, <4>3 DEF Collected
      <4>5. \A m \in DOMAIN docs : m < i + 1 => docs[m].kind # "malformed"
        BY <1>2, <2>3, <2>5, <4>1
      <4>6. docs' = docs /\ items' = items /\ found' = found /\ namespace' = namespace
        BY <1>1
      <4> HIDE DEF Current
      <4> QED
        BY <2>2, <2>3, <4>1, <4>3, <4>4, <4>5, <4>6 DEF DecodingInv
    <3> QED
      BY <3>1 DEF DecodingInv
  <2>7. ExpandingInv'
    <3>1. CASE phase' = "expand"
      <4>1. EndOfFile /\ i > Len(docs) /\ i' = 1 /\ objs' = objs
        BY <1>1, <3>1 DEF DecodeDocument, EndOfFile, Goto, Fail, readVars
      <4>2. \A doc \in ToSet(docs) : doc.kind # "malformed"
        BY <1>2, <2>3, <2>5, <4>1 DEF ToSet
      <4>3. DOMAIN objs = 1..Len(objs) /\ Len(objs) \in Nat
        BY <1>2, LenProperties
      <4>4. \A m \in DOMAIN objs : ~(m < 1)
        BY <4>3
      <4>5. Collected(Current, namespace, objs, pos, Len(docs) + 1)
        <5>1. \A m \in DOMAIN docs : m < Len(docs) + 1 /\ m < i
          BY <1>2, <2>5, <4>1
        <5> QED
          BY <2>3, <2>4, <5>1 DEF Collected
      <4>6. pos \in [DOMAIN objs -> DOMAIN docs]
        BY <2>3, <2>4 DEF Collected
      <4> DEFINE none == [x \in {} |-> 1]
      <4>7. none \in [DOMAIN items -> Places(docs, namespace)] /\ DOMAIN items = {}
        BY <2>3
      <4>8. DOMAIN pos = DOMAIN objs
        BY <4>6
      <4> HIDE DEF none
      <4>9. Unfolded(Current, namespace, pos, items, none, 1)
        BY <2>3, <4>4, <4>7, <4>8 DEF Unfolded
      <4>10. docs' = docs /\ items' = items /\ found' = found /\ namespace' = namespace
        BY <1>1
      <4> QED
        BY <2>2, <2>3, <4>1, <4>2, <4>4, <4>5, <4>6, <4>7, <4>9, <4>10 DEF ExpandingInv
    <3> QED
      BY <3>1 DEF ExpandingInv
  <2> QED
    BY <1>1, <2>2, <2>6, <2>7 DEF ReadInv, TakingInv, TakenInv
<1> QED
  BY <1>3, <1>4

LEMMA ExpandRead == DriverTypeOK /\ ReadInv /\ (ExpandObject \/ AllExpanded) => ReadInv'
PROOF
<1> SUFFICES ASSUME DriverTypeOK, ReadInv, ExpandObject \/ AllExpanded PROVE ReadInv'
  OBVIOUS
<1>1. /\ phase = "expand" /\ phase' \in {"expand", "take", "failed"}
      /\ UNCHANGED <<config, namespace, class, reading, docs, objs, found, draft, storage, seen>>
  BY DEF ExpandObject, AllExpanded, Goto, Fail, settings, readVars
<1>2. objs \in Seq(Decoded) /\ items \in Seq(Object) /\ i \in Nat \ {0}
      /\ DOMAIN objs = 1..Len(objs) /\ Len(objs) \in Nat
  BY LenProperties DEF DriverTypeOK
<1>3. CASE phase' = "failed"
  BY <1>3, EndedRead DEF Ended
<1>4. CASE phase' # "failed"
  <2>1. Current \in Version
    BY <1>1, CurrentVersion DEF ReadInv, Reading
  <2>2. /\ FlagsInv' /\ VersionsInv' /\ FirstReadInv' /\ StoredInv' /\ Current' = Current
        /\ First' = First
    BY <1>1, <1>4, InnerRead DEF Reading
  <2>3. /\ Current.readable /\ found = EmptyMap
        /\ \A doc \in ToSet(Current.docs) : doc.kind # "malformed"
        /\ \A m \in DOMAIN objs : m < i => ~BrokenList(objs[m])
    BY <1>1 DEF ReadInv, ExpandingInv
  <2>4. PICK pos \in [DOMAIN objs -> DOMAIN Current.docs] :
          /\ Collected(Current, namespace, objs, pos, Len(Current.docs) + 1)
          /\ \E at \in [DOMAIN items -> Places(Current.docs, namespace)] :
               Unfolded(Current, namespace, pos, items, at, i)
    BY <1>1 DEF ReadInv, ExpandingInv
  <2>5. PICK at : Unfolded(Current, namespace, pos, items, at, i)
    BY <2>4
  <2>6. Current.docs \in Seq(Document) /\ Len(Current.docs) \in Nat
        /\ DOMAIN Current.docs = 1..Len(Current.docs)
    BY <2>1, FileDocs, LenProperties
  <2> HIDE DEF Current
  <2>7. ExpandingInv'
    <3>1. CASE phase' = "expand"
      <4>1. i \in DOMAIN objs /\ ~BrokenList(objs[i]) /\ i' = i + 1 /\ items' = items \o Items(objs[i])
        BY <1>2, <3>1 DEF ExpandObject, AllExpanded, Goto, Fail
      <4>2. PICK nat : Unfolded(Current, namespace, pos, items', nat, i + 1)
        BY <1>2, <2>1, <2>4, <2>5, <4>1, UnfoldOne
      <4>3. nat \in [DOMAIN items' -> Places(Current.docs, namespace)]
        BY <4>2 DEF Unfolded
      <4>4. \A m \in DOMAIN objs : m < i + 1 => ~BrokenList(objs[m])
        BY <1>2, <2>3, <4>1
      <4>5. objs' = objs /\ found' = found /\ namespace' = namespace
        BY <1>1
      <4> QED
        BY <2>2, <2>3, <2>4, <4>1, <4>2, <4>3, <4>4, <4>5 DEF ExpandingInv
    <3> QED
      BY <3>1 DEF ExpandingInv
  <2>8. TakingInv'
    <3>1. CASE phase' = "take"
      <4>1. i > Len(objs) /\ i' = 1 /\ items' = items
        BY <1>1, <3>1 DEF ExpandObject, AllExpanded, Goto, Fail, readVars
      <4>2. Len(Current.docs) + 1 > Len(Current.docs) /\ Len(Current.docs) + 1 \in Nat
        BY <2>6
      <4>3. Arranged(Current, namespace, reading, items)
        BY <1>2, <2>1, <2>4, <2>5, <4>1, <4>2, FileArranged
      <4>4. NamedUpTo(reading, class, items, found, 1) /\ ValidUpTo(reading, items, 1)
        BY <1>2, <2>3, NothingNamed
      <4>5. Whole(Current, namespace)
        <5> SUFFICES ASSUME NEW doc \in ToSet(Current.docs), Kept(doc, namespace)
                     PROVE  ~BrokenList(doc)
          BY <2>3 DEF Whole
        <5>1. PICK m \in DOMAIN Current.docs : Current.docs[m] = doc
          BY DEF ToSet
        <5>2. m < Len(Current.docs) + 1
          BY <2>6
        <5>3. PICK x \in DOMAIN objs : objs[x] = doc
          BY <2>4, <5>1, <5>2 DEF Collected
        <5>4. x < i
          BY <1>2, <4>1
        <5> QED
          BY <2>3, <5>3, <5>4
      <4>6. found' = found /\ namespace' = namespace /\ class' = class /\ reading' = reading
        BY <1>1
      <4> QED
        BY <2>2, <4>1, <4>3, <4>4, <4>5, <4>6 DEF TakingInv
    <3> QED
      BY <3>1 DEF TakingInv
  <2> QED
    BY <1>1, <2>2, <2>7, <2>8 DEF ReadInv, DecodingInv, TakenInv
<1> QED
  BY <1>3, <1>4

\* A version that has been taken is one that could be read.
LEMMA NothingFailed ==
  ASSUME NEW version, NEW ns, NEW kind, NEW extracted \in Seq(Object), NEW n \in Nat,
         n > Len(extracted), Whole(version, ns), Arranged(version, ns, kind, extracted),
         ValidUpTo(kind, extracted, n)
  PROVE  ~ReadFails(version, kind, ns)
PROOF
<1>1. DOMAIN extracted = 1..Len(extracted) /\ Len(extracted) \in Nat
  BY LenProperties
<1>2. \A x \in DOMAIN extracted : extracted[x].kind = kind => extracted[x].valid
  BY <1>1 DEF ValidUpTo
<1>3. ASSUME NEW p \in PlacesOf(version.docs, ns, kind) PROVE ObjectAt(version.docs, p).valid
  <2>1. PICK x \in DOMAIN extracted : extracted[x] = ObjectAt(version.docs, p)
    BY <1>3 DEF Arranged
  <2>2. extracted[x].kind = kind
    BY <2>1 DEF PlacesOf
  <2> QED
    BY <1>2, <2>1, <2>2
<1> QED
  BY <1>3 DEF ReadFails, Whole

LEMMA TakeRead == DriverTypeOK /\ ReadInv /\ (TakeObject \/ AllTaken) => ReadInv'
PROOF
<1> SUFFICES ASSUME DriverTypeOK, ReadInv, TakeObject \/ AllTaken PROVE ReadInv'
  OBVIOUS
<1>1. /\ phase = "take" /\ phase' \in {"take", "list", "group", "failed"}
      /\ UNCHANGED <<config, namespace, class, reading, docs, objs, items, draft, storage, seen>>
      /\ phase' = "list" => First
      /\ phase' = "group" => ~First
  BY DEF TakeObject, AllTaken, Goto, Fail, settings, readVars, First
<1>2. /\ reading \in {"Ingress", "Service"} /\ items \in Seq(Object) /\ i \in Nat \ {0}
      /\ DOMAIN items = 1..Len(items) /\ Len(items) \in Nat
  BY LenProperties DEF DriverTypeOK
<1>3. CASE phase' = "failed"
  BY <1>3, EndedRead DEF Ended
<1>4. CASE phase' # "failed"
  <2>1. Current \in Version
    BY <1>1, CurrentVersion DEF ReadInv, Reading
  <2>2. /\ FlagsInv' /\ VersionsInv' /\ FirstReadInv' /\ StoredInv' /\ Current' = Current
        /\ First' = First
    BY <1>1, <1>4, InnerRead DEF Reading
  <2>3. /\ Whole(Current, namespace) /\ Arranged(Current, namespace, reading, items)
        /\ NamedUpTo(reading, class, items, found, i) /\ ValidUpTo(reading, items, i)
    BY <1>1 DEF ReadInv, TakingInv
  <2> HIDE DEF Current
  <2>4. TakingInv'
    <3>1. CASE phase' = "take"
      <4>1. TakeObject /\ i \in DOMAIN items /\ i' = i + 1
        BY <1>2, <3>1 DEF TakeObject, AllTaken, Goto, Fail
      <4>2. found' = IF Selects(items[i], reading, class)
                     THEN Put(found, NamespacedName(items[i]), items[i]) ELSE found
        BY <3>1, <4>1 DEF TakeObject, Goto, Fail, Selects, Wanted
      <4>3. NamedUpTo(reading, class, items, found', i + 1)
        BY <1>2, <2>3, <4>1, <4>2, NameOne
      <4>4. ValidUpTo(reading, items, i + 1)
        <5>1. items[i].kind = reading => items[i].valid
          BY <3>1, <4>1 DEF TakeObject, Goto, Fail
        <5>2. \A m \in DOMAIN items : m < i + 1 => m < i \/ m = i
          BY <1>2
        <5> QED
          BY <2>3, <5>1, <5>2 DEF ValidUpTo
      <4>5. items' = items /\ namespace' = namespace /\ class' = class /\ reading' = reading
        BY <1>1
      <4> QED
        BY <2>2, <2>3, <4>1, <4>3, <4>4, <4>5 DEF TakingInv
    <3> QED
      BY <3>1 DEF TakingInv
  <2>5. TakenInv'
    <3>1. CASE phase' \in {"list", "group"}
      <4>1. i > Len(items) /\ found' = found
        BY <1>1, <3>1 DEF TakeObject, AllTaken, Goto, Fail, readVars
      <4>2. ~ReadFails(Current, reading, namespace)
        BY <1>2, <2>3, <4>1, NothingFailed
      <4>3. found = ByName(Current.docs, SelectedPlaces(Current.docs, namespace, reading, class))
        BY <1>2, <2>1, <2>3, <4>1, NamedAll
      <4>4. namespace' = namespace /\ class' = class /\ reading' = reading
        BY <1>1
      <4> QED
        BY <2>2, <4>1, <4>2, <4>3, <4>4 DEF TakenInv
    <3> QED
      BY <3>1 DEF TakenInv
  <2> QED
    BY <1>1, <2>2, <2>4, <2>5 DEF ReadInv, DecodingInv, ExpandingInv
<1> QED
  BY <1>3, <1>4

\* What the loop selects is what the contract goes by.
LEMMA IngressesByPlace ==
  ASSUME NEW content, NEW ns, NEW cls
  PROVE  ByName(content, SelectedPlaces(content, ns, "Ingress", cls)) = IngressesIn(content, ns, cls)
PROOF
<1>1. SelectedPlaces(content, ns, "Ingress", cls)
        = {p \in PlacesOf(content, ns, "Ingress") : OfClass(ObjectAt(content, p), cls)}
  BY DEF SelectedPlaces, PlacesOf, Selects
<1> QED
  BY <1>1 DEF IngressesIn

LEMMA ServicesByPlace ==
  ASSUME NEW content, NEW ns, NEW cls
  PROVE  ByName(content, SelectedPlaces(content, ns, "Service", cls)) = ServicesIn(content, ns)
PROOF
<1>1. SelectedPlaces(content, ns, "Service", cls) = PlacesOf(content, ns, "Service")
  BY DEF SelectedPlaces, PlacesOf, Selects
<1> QED
  BY <1>1 DEF ServicesIn

LEMMA FromMapRead == DriverTypeOK /\ ReadInv /\ FromMap => ReadInv'
PROOF
<1> SUFFICES ASSUME DriverTypeOK, ReadInv, FromMap PROVE ReadInv'
  OBVIOUS
<1>1. /\ phase = "list" /\ phase' = "open" /\ reading' = "Service"
      /\ UNCHANGED <<config, namespace, class, found, storage, seen>>
  BY DEF FromMap, Goto, settings
<1>2. PICK order \in SortedNames(DOMAIN found) :
        draft' = [ingresses |-> found, names |-> order, ports |-> draft.ports]
  BY DEF FromMap
<1>3. First /\ Len(seen) = 1 /\ Current = seen[1] /\ reading = "Ingress" /\ ~First'
  BY <1>1 DEF ReadInv, VersionsInv, Reading, Current, First
<1>4. /\ ~ReadFails(seen[1], "Ingress", namespace)
      /\ found = IngressesIn(seen[1].docs, namespace, class)
  BY <1>1, <1>3, IngressesByPlace DEF ReadInv, TakenInv
<1>5. DOMAIN draft' = {"ingresses", "names", "ports"} /\ draft'.ingresses = found
  BY <1>2
<1>6. FirstReadInv'
  BY <1>1, <1>4, <1>5 DEF FirstReadInv
<1>7. VersionsInv'
  BY <1>1, <1>3 DEF VersionsInv, Before, Reading
<1>8. FlagsInv'
  BY <1>1 DEF ReadInv, FlagsInv, Before, Reading, Working
<1> QED
  BY <1>1, <1>6, <1>7, <1>8
  DEF ReadInv, DecodingInv, ExpandingInv, TakingInv, TakenInv, StoredInv, Reading, Working

LEMMA StoreRead == DriverTypeOK /\ ReadInv /\ StoreServicePorts => ReadInv'
PROOF
<1> SUFFICES ASSUME DriverTypeOK, ReadInv, StoreServicePorts PROVE ReadInv'
  OBVIOUS
<1>1. /\ phase = "group" /\ phase' = "emitter"
      /\ UNCHANGED <<config, namespace, class, reading, seen>>
      /\ draft' = [draft EXCEPT !.ports = GroupServicePortsByPortName(found)] /\ storage' = draft'
  BY DEF StoreServicePorts, Goto, settings
<1>2. ~First /\ Len(seen) = 2 /\ Current = seen[2] /\ reading = "Service"
  BY <1>1 DEF ReadInv, VersionsInv, Reading, Current, First, DriverTypeOK
<1>3. /\ ~ReadFails(seen[2], "Service", namespace)
      /\ found = ServicesIn(seen[2].docs, namespace)
  BY <1>1, <1>2, ServicesByPlace DEF ReadInv, TakenInv
<1>4. /\ ~ReadFails(seen[1], "Ingress", namespace)
      /\ DOMAIN draft = {"ingresses", "names", "ports"}
      /\ draft.ingresses = IngressesIn(seen[1].docs, namespace, class)
  BY <1>1, <1>2 DEF ReadInv, FirstReadInv, Reading
<1>5. storage'.ingresses = draft.ingresses /\ storage'.ports = GroupServicePortsByPortName(found)
  BY <1>1, <1>4
<1>6. /\ namespace = NamespaceOf(config) /\ ~CannotStart(config) /\ config.providers # <<>>
      /\ class = config.ingressClass
  BY <1>1 DEF ReadInv, FlagsInv, Reading
<1>7. ~ReadFailed(config, seen)
  BY <1>2, <1>3, <1>4, <1>6 DEF ReadFailed
<1>8. /\ storage'.ingresses = StoredIngresses(config, seen)
      /\ storage'.ports = StoredPorts(config, seen)
  BY <1>3, <1>4, <1>5, <1>6 DEF StoredIngresses, StoredPorts
<1>9. StoredInv' /\ FlagsInv' /\ VersionsInv'
  BY <1>1, <1>2, <1>6, <1>7, <1>8
  DEF StoredInv, FlagsInv, VersionsInv, Before, Reading, Working
<1> QED
  BY <1>1, <1>9
  DEF ReadInv, FirstReadInv, DecodingInv, ExpandingInv, TakingInv, TakenInv, Reading

LEMMA NextRead == DriverTypeOK /\ ReadInv /\ [Next]_vars => ReadInv'
PROOF
<1> SUFFICES ASSUME DriverTypeOK, ReadInv, [Next]_vars PROVE ReadInv'
  OBVIOUS
<1>1. CASE ParseFlags \/ InitializeResourcePrinter \/ InitializeNamespaceFilter
             \/ ConnectClient \/ ConstructProviders
  BY <1>1, StartRead
<1>2. CASE ReadResources
  BY <1>2, OpenRead, DecodeRead, ExpandRead, TakeRead, FromMapRead, StoreRead
  DEF ReadResources, Read
<1>3. CASE LookUpEmitter \/ ToIR \/ Emit \/ CheckFeature \/ AllChecked \/ CreateNotificationTables
  <2>1. /\ UNCHANGED <<config, namespace, seen, storage>>
        /\ phase \in Working /\ phase' \in Working \union Ended
    <3>1. CASE LookUpEmitter \/ CheckFeature \/ AllChecked \/ CreateNotificationTables
      BY <1>3, <3>1 DEF LookUpEmitter, CheckFeature, AllChecked, CreateNotificationTables, Goto,
                        settings, readVars, Working, Ended
    <3>2. CASE ToIR
      BY <3>2 DEF ToIR, Goto, settings, readVars, Working, Ended
    <3>3. CASE Emit
      BY <3>3 DEF Emit, Goto, settings, readVars, Working, Ended
    <3> QED
      BY <1>3, <3>1, <3>2, <3>3
  <2> QED
    BY <2>1, WorkingRead
<1>4. CASE PrintTable \/ AllTablesPrinted \/ PrintResource \/ NextKind \/ EndOfOutput
  <2>1. /\ UNCHANGED <<config, namespace, seen, storage>>
        /\ phase \in Working /\ phase' \in Working \union Ended
    BY <1>4 DEF PrintTable, AllTablesPrinted, PrintResource, NextKind, EndOfOutput, Goto, settings,
                readVars, Working, Ended
  <2> QED
    BY <2>1, WorkingRead
<1>5. CASE ChangeWorld \/ Finished \/ UNCHANGED vars
  <2>1. UNCHANGED <<phase, i, config, namespace, class, reading, docs, objs, items, found, draft,
                    storage, seen>>
    BY <1>5 DEF ChangeWorld, Change, Finished, vars, readerVars, settings, readVars
  <2> QED
    BY <2>1
    DEF ReadInv, FlagsInv, VersionsInv, FirstReadInv, DecodingInv, ExpandingInv, TakingInv, TakenInv,
        StoredInv, First, Current
<1> QED
  BY <1>1, <1>2, <1>3, <1>4, <1>5 DEF Next, Work

-------------------------------------------------------------------------------
(***************************************************************************)
(* From the storage to the output                                          *)
(***************************************************************************)
FeaturesOf(http) ==
  UNION {{[route |-> key, feature |-> f] : f \in http[key]} : key \in DOMAIN http}

Warned(c) == Warning(c.feature, c.route)

\* What the features checked so far have called for.
WarnedOf(http, rest) == {Warned(c) : c \in {x \in FeaturesOf(http) \ rest : ~x.feature.parsed}}

AllNotes == UNION Range(notifications)

IdleInv ==
  phase \in Before \union Reading \union {"emitter", "convert"} =>
    ir = EmptyIR /\ resources = NoResources /\ notifications = EmptyMap

EmitterInv ==
  /\ phase \in Working \ {"emitter"} => config.emitter \in Emitters
  /\ phase \in {"convert", "emit", "check"} => config.providers # <<>>

\* What a conversion leaves, and after it an emission.
ConvertedInv ==
  phase = "emit" =>
    \E c \in Conversions(storage.ingresses, storage.ports) :
      /\ c.end # "panicked"
      /\ (errors <=> c.errors # {}) /\ ir = c.ir /\ AllNotes = c.notes

Checking(c, e) ==
  /\ c.end # "panicked" /\ e.end # "panicked"
  /\ (errors <=> c.errors \union e.errors # {}) /\ ir = e.ir /\ resources = e.resources
  /\ unchecked \subseteq FeaturesOf(ir.http)
  /\ \A x \in FeaturesOf(ir.http) \ unchecked : x.feature.parsed \/ x.feature.source # <<>>
  /\ AllNotes = c.notes \union e.notes \union WarnedOf(ir.http, unchecked)

CheckedInv ==
  phase = "check" =>
    \E c \in Conversions(storage.ingresses, storage.ports) :
      \E e \in Emissions(config.emitter, c.ir) : Checking(c, e)

\* What is left to do is to write it.
SettledInv ==
  phase \in {"tables", "warn", "print"} =>
    (IF errors THEN Nowhere ELSE Printed(config, resources, AllNotes)) \in Outcomes(config, seen)

WrittenInv ==
  /\ phase \in {"warn", "print"} =>
       /\ ~errors /\ tables = notifications
       /\ DOMAIN stderr \subseteq DOMAIN tables
       /\ \A by \in DOMAIN stderr : stderr[by] = tables[by]
  /\ phase = "warn" => stdout = <<>>
  /\ phase = "print" =>
       /\ DOMAIN tables \subseteq DOMAIN stderr
       /\ stdout \in Seq(Lines(resources))
       /\ \A m \in DOMAIN PrintOrder : m < i =>
            \A key \in resources[PrintOrder[m]] : Line(PrintOrder[m], key) \in ToSet(stdout)

OutputInv == IdleInv /\ EmitterInv /\ ConvertedInv /\ CheckedInv /\ SettledInv /\ WrittenInv

(***************************************************************************)
(* Features and what becomes of them                                       *)
(***************************************************************************)
LEMMA FeatureOf ==
  ASSUME NEW http, NEW c
  PROVE  c \in FeaturesOf(http)
           <=> \E key \in DOMAIN http : \E f \in http[key] : c = [route |-> key, feature |-> f]
BY DEF FeaturesOf

LEMMA WarningsOfAll == ASSUME NEW final PROVE WarnedOf(final.http, {}) = Warnings(final)
PROOF
<1> DEFINE A == Warnings(final)
           B == WarnedOf(final.http, {})
<1>1. \A w : w \in A <=> \E key \in DOMAIN final.http : \E f \in final.http[key] :
                           ~f.parsed /\ w = Warning(f, key)
  BY DEF Warnings, Lost
<1>2. \A w : w \in B <=> \E c \in FeaturesOf(final.http) : ~c.feature.parsed /\ w = Warned(c)
  BY DEF WarnedOf
<1>3. \A key, f : Warned([route |-> key, feature |-> f]) = Warning(f, key)
                  /\ [route |-> key, feature |-> f].feature = f
  BY DEF Warned
<1> HIDE DEF A, B
<1>4. ASSUME NEW w \in A PROVE w \in B
  <2>1. PICK key \in DOMAIN final.http : \E f \in final.http[key] : ~f.parsed /\ w = Warning(f, key)
    BY <1>1, <1>4
  <2>2. PICK f \in final.http[key] : ~f.parsed /\ w = Warning(f, key)
    BY <2>1
  <2> DEFINE c == [route |-> key, feature |-> f]
  <2>3. c \in FeaturesOf(final.http)
    BY FeatureOf
  <2>4. ~c.feature.parsed /\ w = Warned(c)
    BY <1>3, <2>2
  <2> QED
    BY <1>2, <2>3, <2>4
<1>5. ASSUME NEW w \in B PROVE w \in A
  <2>1. PICK c \in FeaturesOf(final.http) : ~c.feature.parsed /\ w = Warned(c)
    BY <1>2, <1>5
  <2>2. PICK key \in DOMAIN final.http : \E f \in final.http[key] : c = [route |-> key, feature |-> f]
    BY FeatureOf
  <2>3. PICK f \in final.http[key] : c = [route |-> key, feature |-> f]
    BY <2>2
  <2>4. ~f.parsed /\ w = Warning(f, key)
    BY <1>3, <2>1, <2>3
  <2> QED
    BY <1>1, <2>4
<1>6. A = B
  BY <1>4, <1>5
<1> QED
  BY <1>6 DEF A, B

LEMMA DispatchedAll ==
  ASSUME NEW by, NEW notes
  PROVE  UNION Range(Dispatched(by, notes)) = AllNotes \union notes
PROOF
<1> DEFINE before == IF by \in DOMAIN notifications THEN notifications[by] ELSE {}
           new    == Put(notifications, by, before \union notes)
<1>1. CASE notes = {}
  BY <1>1 DEF Dispatched, AllNotes
<1>2. CASE notes # {}
  <2>1. Dispatched(by, notes) = new
    BY <1>2 DEF Dispatched
  <2>2. /\ DOMAIN new = DOMAIN notifications \union {by}
        /\ new[by] = before \union notes
        /\ \A b \in DOMAIN notifications : b # by => new[b] = notifications[b]
    BY DEF Put
  <2>3. \A n : n \in before <=> by \in DOMAIN notifications /\ n \in notifications[by]
    OBVIOUS
  <2> HIDE DEF new, before
  <2>4. \A n : n \in UNION Range(new) <=> \E b \in DOMAIN new : n \in new[b]
    BY DEF Range
  <2>5. \A n : n \in AllNotes <=> \E b \in DOMAIN notifications : n \in notifications[b]
    BY DEF Range, AllNotes
  <2>6. ASSUME NEW n PROVE n \in UNION Range(new) <=> n \in AllNotes \union notes
    <3>1. n \in new[by] <=> (n \in notes \/ (by \in DOMAIN notifications /\ n \in notifications[by]))
      BY <2>2, <2>3
    <3> QED
      BY <2>2, <2>4, <2>5, <3>1
  <2>7. UNION Range(new) = AllNotes \union notes
    BY <2>6
  <2> QED
    BY <2>1, <2>7
<1> QED
  BY <1>1, <1>2

(***************************************************************************)
(* The outcome, when all has been read                                     *)
(***************************************************************************)
LEMMA NothingRead == seen = <<>> => ~ReadFailed(config, seen)
  BY DEF ReadFailed

\* The outcome in the stages from ToIR on.
LEMMA OutcomeOfStored ==
  ASSUME FlagsInv, StoredInv, EmitterInv, phase \in {"convert", "emit", "check"}
  PROVE  Outcomes(config, seen)
           = UNION {ConversionResults(config, c) :
                      c \in Conversions(storage.ingresses, storage.ports)}
BY DEF FlagsInv, StoredInv, EmitterInv, Working, Outcomes

\* The result of a conversion, and of an emission of what it returns.
LEMMA ResultIsOutcome ==
  ASSUME FlagsInv, StoredInv, EmitterInv, phase \in {"convert", "emit", "check"},
         NEW c \in Conversions(storage.ingresses, storage.ports)
  PROVE  /\ c.end = "panicked" => Crash \in Outcomes(config, seen)
         /\ c.end # "panicked" =>
              \A e \in Emissions(config.emitter, c.ir) : Result(config, c, e) \in Outcomes(config, seen)
PROOF
<1>1. ConversionResults(config, c) \subseteq Outcomes(config, seen)
  BY OutcomeOfStored
<1>2. c.end = "panicked" => Crash \in ConversionResults(config, c)
  BY DEF ConversionResults
<1>3. ASSUME c.end # "panicked", NEW e \in Emissions(config.emitter, c.ir)
      PROVE  Result(config, c, e) \in ConversionResults(config, c)
  BY <1>3 DEF ConversionResults
<1> QED
  BY <1>1, <1>2, <1>3

(***************************************************************************)
(* The steps keep the invariant of the output                              *)
(***************************************************************************)
LEMMA InitOutput == Init => OutputInv
  BY DEF Init, ReaderInit, OutputInv, IdleInv, EmitterInv, ConvertedInv, CheckedInv, SettledInv,
         WrittenInv, Working

LEMMA SameOutput ==
  ASSUME OutputInv,
         UNCHANGED <<phase, i, config, seen, storage, ir, resources, errors, notifications, unchecked,
                     tables, stderr, stdout>>
  PROVE  OutputInv'
PROOF
<1>1. AllNotes' = AllNotes
  BY DEF AllNotes
<1>2. CheckedInv'
  BY <1>1 DEF OutputInv, CheckedInv, Checking
<1> QED
  BY <1>1, <1>2 DEF OutputInv, IdleInv, EmitterInv, ConvertedInv, SettledInv, WrittenInv

LEMMA EndedOutput == phase' \in Ended => OutputInv'
  BY DEF Ended, OutputInv, IdleInv, EmitterInv, ConvertedInv, CheckedInv, SettledInv, WrittenInv,
         Before, Reading, Working

LEMMA IdleOutput ==
  ASSUME OutputInv, phase \in Before \union Reading,
         phase' \in Before \union Reading \union {"emitter"} \union Ended,
         UNCHANGED <<ir, resources, notifications>>
  PROVE  OutputInv'
PROOF
<1>1. CASE phase' \in Ended
  BY <1>1, EndedOutput
<1>2. CASE phase' \in Before \union Reading \union {"emitter"}
  <2>1. IdleInv'
    BY DEF OutputInv, IdleInv
  <2> QED
    BY <1>2, <2>1
    DEF OutputInv, EmitterInv, ConvertedInv, CheckedInv, SettledInv, WrittenInv, Before, Reading,
        Working
<1> QED
  BY <1>1, <1>2

LEMMA BeforeOutput ==
  ASSUME OutputInv, ParseFlags \/ InitializeResourcePrinter \/ InitializeNamespaceFilter
                    \/ ConnectClient \/ ConstructProviders \/ ReadResources
  PROVE  OutputInv'
PROOF
<1>1. CASE ParseFlags \/ InitializeResourcePrinter \/ InitializeNamespaceFilter
           \/ ConnectClient \/ ConstructProviders
  <2>1. /\ phase \in Before
        /\ phase' \in Before \union Reading \union {"emitter"} \union Ended
        /\ UNCHANGED <<ir, resources, notifications>>
    BY <1>1 DEF ParseFlags, InitializeResourcePrinter, InitializeNamespaceFilter, ConnectClient,
                ConstructProviders, Goto, Fail, results, Before, Reading, Ended
  <2> QED
    BY <2>1, IdleOutput
<1>2. CASE ReadResources
  <2>1. /\ phase \in Reading
        /\ phase' \in Before \union Reading \union {"emitter"} \union Ended
        /\ UNCHANGED <<ir, resources, notifications>>
    BY <1>2, ReadPhases DEF ReadResources, results, Reading, Ended
  <2> QED
    BY <2>1, IdleOutput
<1> QED
  BY <1>1, <1>2

LEMMA NoNotes == notifications = EmptyMap => AllNotes = {}
  BY DEF AllNotes, EmptyMap, Range

LEMMA LookUpOutput == QuietInv /\ ReadInv /\ OutputInv /\ LookUpEmitter => OutputInv'
PROOF
<1> SUFFICES ASSUME QuietInv, ReadInv, OutputInv, LookUpEmitter PROVE OutputInv'
  OBVIOUS
<1>1. /\ phase = "emitter" /\ UNCHANGED <<config, seen, ir, resources, errors, notifications>>
      /\ ir = EmptyIR /\ resources = NoResources /\ notifications = EmptyMap /\ ~errors
  BY DEF LookUpEmitter, settings, readVars, results, OutputInv, IdleInv, QuietInv, ErrorPhases
<1>2. CASE config.emitter \notin Emitters
  BY <1>2, EndedOutput DEF LookUpEmitter, Goto, Ended
<1>3. CASE config.emitter \in Emitters /\ config.providers # <<>>
  <2>1. phase' = "convert"
    BY <1>3 DEF LookUpEmitter, Goto
  <2> QED
    BY <1>1, <1>3, <2>1
    DEF OutputInv, IdleInv, EmitterInv, ConvertedInv, CheckedInv, SettledInv, WrittenInv, Before,
        Reading, Working
<1>4. CASE config.emitter \in Emitters /\ config.providers = <<>>
  <2>1. phase' = "tables"
    BY <1>4 DEF LookUpEmitter, Goto
  <2>2. ~CannotStart(config) /\ seen = <<>>
    BY <1>1, <1>4 DEF ReadInv, FlagsInv, StoredInv, Working
  <2>3. Outcomes(config, seen) = {Printed(config, NoResources, {})}
    BY <1>4, <2>2, NothingRead DEF Outcomes
  <2>4. Printed(config, resources, AllNotes) \in Outcomes(config, seen)
    BY <1>1, <2>3, NoNotes
  <2>5. (Printed(config, resources, AllNotes) \in Outcomes(config, seen))'
    BY <1>1, <2>4 DEF AllNotes
  <2> QED
    BY <1>1, <1>4, <2>1, <2>5
    DEF OutputInv, IdleInv, EmitterInv, ConvertedInv, CheckedInv, SettledInv, WrittenInv, Before,
        Reading, Working
<1> QED
  BY <1>2, <1>3, <1>4

LEMMA ToIROutput == QuietInv /\ OutputInv /\ ToIR => OutputInv'
PROOF
<1> SUFFICES ASSUME QuietInv, OutputInv, ToIR PROVE OutputInv'
  OBVIOUS
<1>1. /\ phase = "convert" /\ UNCHANGED <<config, storage>>
      /\ ir = EmptyIR /\ AllNotes = {} /\ ~errors
      /\ config.emitter \in Emitters /\ config.providers # <<>>
  BY NoNotes DEF ToIR, settings, readVars, OutputInv, IdleInv, QuietInv, ErrorPhases, EmitterInv,
                 Working
<1>2. CASE phase' = "panicked"
  BY <1>2, EndedOutput DEF Ended
<1>3. CASE phase' # "panicked"
  <2>1. PICK c \in Conversions(storage.ingresses, storage.ports) :
          /\ c.end # "panicked" /\ phase' = "emit" /\ ir' = c.ir /\ errors' = (c.errors # {})
          /\ notifications' = Dispatched("ingress-nginx", c.notes)
    BY <1>3 DEF ToIR, Goto
  <2>2. UNION Range(Dispatched("ingress-nginx", c.notes)) = c.notes
    BY <1>1, DispatchedAll
  <2>3. AllNotes' = c.notes
    BY <2>1, <2>2 DEF AllNotes
  <2>4. ConvertedInv'
    BY <1>1, <2>1, <2>3 DEF ConvertedInv
  <2> QED
    BY <1>1, <2>1, <2>4
    DEF OutputInv, IdleInv, EmitterInv, CheckedInv, SettledInv, WrittenInv, Before, Reading, Working
<1> QED
  BY <1>2, <1>3

LEMMA EmitOutput == OutputInv /\ Emit => OutputInv'
PROOF
<1> SUFFICES ASSUME OutputInv, Emit PROVE OutputInv'
  OBVIOUS
<1>1. /\ phase = "emit" /\ UNCHANGED <<config, storage>>
      /\ config.emitter \in Emitters /\ config.providers # <<>>
  BY DEF Emit, settings, readVars, OutputInv, EmitterInv, Working
<1>2. CASE phase' = "panicked"
  BY <1>2, EndedOutput DEF Ended
<1>3. CASE phase' # "panicked"
  <2>1. PICK c \in Conversions(storage.ingresses, storage.ports) :
          c.end # "panicked" /\ (errors <=> c.errors # {}) /\ ir = c.ir /\ AllNotes = c.notes
    BY <1>1 DEF OutputInv, ConvertedInv
  <2>2. PICK e \in Emissions(config.emitter, c.ir) :
          /\ e.end # "panicked" /\ phase' = "check" /\ ir' = e.ir /\ resources' = e.resources
          /\ errors' = (errors \/ e.errors # {})
          /\ notifications' = Dispatched("envoy-gateway", e.notes)
          /\ unchecked' = FeaturesOf(e.ir.http)
    BY <1>3, <2>1 DEF Emit, Goto, FeaturesOf
  <2>3. UNION Range(Dispatched("envoy-gateway", e.notes)) = AllNotes \union e.notes
    BY DispatchedAll
  <2>4. WarnedOf(e.ir.http, unchecked') = {}
    BY <2>2 DEF WarnedOf
  <2>5. AllNotes' = c.notes \union e.notes \union WarnedOf(ir'.http, unchecked')
    BY <2>1, <2>2, <2>3, <2>4 DEF AllNotes
  <2>6. errors' <=> c.errors \union e.errors # {}
    BY <2>1, <2>2
  <2>7. /\ unchecked' \subseteq FeaturesOf(ir'.http)
        /\ FeaturesOf(ir'.http) \ unchecked' = {}
    BY <2>2
  <2>8. Checking(c, e)'
    BY <2>1, <2>2, <2>5, <2>6, <2>7 DEF Checking
  <2>9. CheckedInv'
    BY <1>1, <2>8 DEF CheckedInv
  <2> QED
    BY <1>1, <2>2, <2>9
    DEF OutputInv, IdleInv, EmitterInv, ConvertedInv, SettledInv, WrittenInv, Before, Reading, Working
<1> QED
  BY <1>2, <1>3

LEMMA WarnedOne ==
  ASSUME NEW http, NEW rest, rest \subseteq FeaturesOf(http), NEW c \in rest
  PROVE  WarnedOf(http, rest \ {c})
           = WarnedOf(http, rest) \union (IF c.feature.parsed THEN {} ELSE {Warned(c)})
PROOF
<1> DEFINE some(r) == {x \in FeaturesOf(http) \ r : ~x.feature.parsed}
<1>1. some(rest \ {c}) = some(rest) \union (IF c.feature.parsed THEN {} ELSE {c})
  OBVIOUS
<1>2. \A r : WarnedOf(http, r) = {Warned(x) : x \in some(r)}
  BY DEF WarnedOf
<1> HIDE DEF some
<1> QED
  BY <1>1, <1>2

LEMMA CheckOutput == OutputInv /\ CheckFeature => OutputInv'
PROOF
<1> SUFFICES ASSUME OutputInv, CheckFeature PROVE OutputInv'
  OBVIOUS
<1>1. /\ phase = "check" /\ UNCHANGED <<config, storage, errors, ir, resources>>
      /\ config.emitter \in Emitters /\ config.providers # <<>>
  BY DEF CheckFeature, settings, readVars, OutputInv, EmitterInv, Working
<1>2. CASE phase' = "panicked"
  BY <1>2, EndedOutput DEF Ended
<1>3. CASE phase' # "panicked"
  <2>1. PICK x \in unchecked :
          /\ unchecked' = unchecked \ {x} /\ phase' = phase
          /\ \/ x.feature.parsed /\ notifications' = notifications
             \/ /\ ~x.feature.parsed /\ x.feature.source # <<>>
                /\ notifications' = Dispatched("INGRESS2EG", {Warned(x)})
    BY <1>3 DEF CheckFeature, NeedsWarning, Goto, Warned
  <2>2. PICK c \in Conversions(storage.ingresses, storage.ports) :
          \E e \in Emissions(config.emitter, c.ir) : Checking(c, e)
    BY <1>1 DEF OutputInv, CheckedInv
  <2>3. PICK e \in Emissions(config.emitter, c.ir) : Checking(c, e)
    BY <2>2
  <2>4. AllNotes' = AllNotes \union (IF x.feature.parsed THEN {} ELSE {Warned(x)})
    <3>1. UNION Range(Dispatched("INGRESS2EG", {Warned(x)})) = AllNotes \union {Warned(x)}
      BY DispatchedAll
    <3> QED
      BY <2>1, <3>1 DEF AllNotes
  <2>5. WarnedOf(ir.http, unchecked')
          = WarnedOf(ir.http, unchecked) \union (IF x.feature.parsed THEN {} ELSE {Warned(x)})
    BY <2>1, <2>3, WarnedOne DEF Checking
  <2>6. AllNotes' = c.notes \union e.notes \union WarnedOf(ir.http, unchecked')
    BY <2>3, <2>4, <2>5 DEF Checking
  <2>7. /\ unchecked' \subseteq FeaturesOf(ir.http)
        /\ \A y \in FeaturesOf(ir.http) \ unchecked' : y.feature.parsed \/ y.feature.source # <<>>
    BY <2>1, <2>3 DEF Checking
  <2>8. Checking(c, e)'
    BY <1>1, <2>3, <2>6, <2>7 DEF Checking
  <2>9. CheckedInv'
    BY <1>1, <2>8 DEF CheckedInv
  <2> QED
    BY <1>1, <2>1, <2>9
    DEF OutputInv, IdleInv, EmitterInv, ConvertedInv, SettledInv, WrittenInv, Before, Reading, Working
<1> QED
  BY <1>2, <1>3

LEMMA AllCheckedOutput == ReadInv /\ OutputInv /\ AllChecked => OutputInv'
PROOF
<1> SUFFICES ASSUME ReadInv, OutputInv, AllChecked PROVE OutputInv'
  OBVIOUS
<1>1. /\ phase = "check" /\ phase' = "tables" /\ unchecked = {}
      /\ UNCHANGED <<config, seen, errors, resources, notifications>>
      /\ config.emitter \in Emitters
  BY DEF AllChecked, Goto, settings, readVars, results, OutputInv, EmitterInv, Working
<1>2. PICK c \in Conversions(storage.ingresses, storage.ports) :
        \E e \in Emissions(config.emitter, c.ir) : Checking(c, e)
  BY <1>1 DEF OutputInv, CheckedInv
<1>3. PICK e \in Emissions(config.emitter, c.ir) : Checking(c, e)
  BY <1>2
<1>4. Result(config, c, e) \in Outcomes(config, seen)
  BY <1>1, <1>3, ResultIsOutcome DEF ReadInv, OutputInv, Checking
<1>5. ~Crashes(e.ir)
  <2> SUFFICES ASSUME NEW key \in DOMAIN ir.http, NEW f \in ir.http[key], ~f.parsed
               PROVE  f.source # <<>>
    BY <1>3 DEF Crashes, Lost, Checking
  <2> DEFINE x == [route |-> key, feature |-> f]
  <2>1. x \in FeaturesOf(ir.http) \ unchecked
    BY <1>1, FeatureOf
  <2> QED
    BY <1>3, <2>1 DEF Checking
<1>6. AllNotes = c.notes \union e.notes \union Warnings(e.ir)
  BY <1>1, <1>3, WarningsOfAll DEF Checking
<1>7. Result(config, c, e) = IF errors THEN Nowhere ELSE Printed(config, resources, AllNotes)
  BY <1>3, <1>5, <1>6 DEF Result, Checking
<1>8. SettledInv'
  BY <1>1, <1>4, <1>7 DEF SettledInv, AllNotes
<1> QED
  BY <1>1, <1>8
  DEF OutputInv, IdleInv, EmitterInv, ConvertedInv, CheckedInv, WrittenInv, Before, Reading, Working

LEMMA TablesOutput == QuietInv /\ OutputInv /\ CreateNotificationTables => OutputInv'
PROOF
<1> SUFFICES ASSUME QuietInv, OutputInv, CreateNotificationTables PROVE OutputInv'
  OBVIOUS
<1>1. /\ phase = "tables" /\ tables' = notifications
      /\ UNCHANGED <<config, seen, errors, resources, notifications, stderr, stdout>>
      /\ stderr = EmptyMap /\ stdout = <<>> /\ config.emitter \in Emitters
  BY DEF CreateNotificationTables, settings, readVars, QuietInv, Writing, OutputInv, EmitterInv, Working
<1>2. CASE errors
  BY <1>2, EndedOutput DEF CreateNotificationTables, Goto, Ended
<1>3. CASE ~errors
  <2>1. phase' = "warn"
    BY <1>3 DEF CreateNotificationTables, Goto
  <2>2. SettledInv'
    BY <1>1 DEF OutputInv, SettledInv, AllNotes
  <2>3. WrittenInv'
    BY <1>1, <1>3, <2>1 DEF WrittenInv, EmptyMap
  <2> QED
    BY <1>1, <2>1, <2>2, <2>3
    DEF OutputInv, IdleInv, EmitterInv, ConvertedInv, CheckedInv, Before, Reading, Working
<1> QED
  BY <1>2, <1>3

\* Printing leaves what is to be printed alone.
LEMMA WritingStep ==
  ASSUME OutputInv, phase \in {"warn", "print"}, phase' \in {"warn", "print"}, WrittenInv',
         UNCHANGED <<config, seen, errors, resources, notifications>>
  PROVE  OutputInv'
PROOF
<1>1. SettledInv'
  BY DEF OutputInv, SettledInv, AllNotes
<1> QED
  BY <1>1
  DEF OutputInv, IdleInv, EmitterInv, ConvertedInv, CheckedInv, Before, Reading, Working

LEMMA PrintTableOutput == OutputInv /\ PrintTable => OutputInv'
PROOF
<1> SUFFICES ASSUME OutputInv, PrintTable PROVE OutputInv'
  OBVIOUS
<1>1. /\ phase = "warn" /\ phase' = "warn"
      /\ UNCHANGED <<config, seen, errors, resources, notifications, tables, stdout>>
      /\ ~errors /\ tables = notifications /\ stdout = <<>>
      /\ DOMAIN stderr \subseteq DOMAIN tables /\ \A by \in DOMAIN stderr : stderr[by] = tables[by]
  BY DEF PrintTable, settings, readVars, results, OutputInv, WrittenInv
<1>2. PICK by \in DOMAIN tables \ DOMAIN stderr : stderr' = Put(stderr, by, tables[by])
  BY DEF PrintTable
<1>3. /\ DOMAIN stderr' = DOMAIN stderr \union {by} /\ stderr'[by] = tables[by]
      /\ \A b \in DOMAIN stderr : stderr'[b] = stderr[b]
  BY <1>2 DEF Put
<1>4. WrittenInv'
  BY <1>1, <1>2, <1>3 DEF WrittenInv
<1> QED
  BY <1>1, <1>4, WritingStep

LEMMA AllPrintedOutput == OutputInv /\ AllTablesPrinted => OutputInv'
PROOF
<1> SUFFICES ASSUME OutputInv, AllTablesPrinted PROVE OutputInv'
  OBVIOUS
<1>1. /\ phase = "warn" /\ phase' = "print" /\ i' = 1
      /\ UNCHANGED <<config, seen, errors, resources, notifications, tables, stderr, stdout>>
      /\ ~errors /\ tables = notifications /\ stdout = <<>>
      /\ DOMAIN stderr \subseteq DOMAIN tables /\ \A by \in DOMAIN stderr : stderr[by] = tables[by]
      /\ DOMAIN tables \subseteq DOMAIN stderr
  BY DEF AllTablesPrinted, Goto, settings, readVars, results, OutputInv, WrittenInv
<1>2. \A m \in DOMAIN PrintOrder : ~(m < 1)
  BY DEF PrintOrder
<1>3. stdout \in Seq(Lines(resources))
  BY <1>1
<1>4. WrittenInv'
  BY <1>1, <1>2, <1>3 DEF WrittenInv
<1> QED
  BY <1>1, <1>4, WritingStep

LEMMA PrintResourceOutput == DriverTypeOK /\ OutputInv /\ PrintResource => OutputInv'
PROOF
<1> SUFFICES ASSUME DriverTypeOK, OutputInv, PrintResource PROVE OutputInv'
  OBVIOUS
<1>1. /\ phase = "print" /\ phase' = "print" /\ i' = i
      /\ UNCHANGED <<config, seen, errors, resources, notifications, tables, stderr>>
      /\ WrittenInv /\ stdout \in Seq(Lines(resources))
      /\ i \in DOMAIN PrintOrder
  <2>1. i \in Nat \ {0} /\ i <= Len(PrintOrder) /\ DOMAIN PrintOrder = 1..Len(PrintOrder)
        /\ Len(PrintOrder) \in Nat
    BY DEF PrintResource, DriverTypeOK, PrintOrder
  <2> QED
    BY <2>1 DEF PrintResource, settings, readVars, results, OutputInv, WrittenInv
<1>2. PICK key \in resources[PrintOrder[i]] : stdout' = Append(stdout, Line(PrintOrder[i], key))
  BY DEF PrintResource, Unprinted
<1>3. Line(PrintOrder[i], key) \in Lines(resources)
  <2>1. PrintOrder[i] \in ToSet(PrintOrder)
    BY <1>1 DEF ToSet
  <2> QED
    BY <1>2, <2>1 DEF Lines, Line
<1>4. stdout' \in Seq(Lines(resources)) /\ ToSet(stdout) \subseteq ToSet(stdout')
  BY <1>1, <1>2, <1>3, AppendSet
<1>5. WrittenInv'
  BY <1>1, <1>4 DEF WrittenInv
<1> QED
  BY <1>1, <1>5, WritingStep

LEMMA NextKindOutput == DriverTypeOK /\ OutputInv /\ NextKind => OutputInv'
PROOF
<1> SUFFICES ASSUME DriverTypeOK, OutputInv, NextKind PROVE OutputInv'
  OBVIOUS
<1>1. /\ phase = "print" /\ phase' = "print" /\ i' = i + 1
      /\ UNCHANGED <<config, seen, errors, resources, notifications, tables, stderr, stdout>>
      /\ WrittenInv /\ Unprinted(PrintOrder[i]) = {} /\ i \in Nat
      /\ \A m \in DOMAIN PrintOrder : m \in Nat
  BY DEF NextKind, settings, readVars, results, OutputInv, DriverTypeOK, PrintOrder
<1>2. \A key \in resources[PrintOrder[i]] : Line(PrintOrder[i], key) \in ToSet(stdout)
  BY <1>1 DEF Unprinted
<1>3. \A m \in DOMAIN PrintOrder : m < i + 1 =>
        \A key \in resources[PrintOrder[m]] : Line(PrintOrder[m], key) \in ToSet(stdout)
  <2> SUFFICES ASSUME NEW m \in DOMAIN PrintOrder, m < i + 1, NEW key \in resources[PrintOrder[m]]
               PROVE  Line(PrintOrder[m], key) \in ToSet(stdout)
    OBVIOUS
  <2>1. m = i \/ m < i
    BY <1>1
  <2> QED
    BY <1>1, <1>2, <2>1 DEF WrittenInv
<1>4. WrittenInv'
  BY <1>1, <1>3 DEF WrittenInv
<1> QED
  BY <1>1, <1>4, WritingStep

LEMMA NextOutput == DriverTypeOK /\ QuietInv /\ ReadInv /\ OutputInv /\ [Next]_vars => OutputInv'
PROOF
<1> SUFFICES ASSUME DriverTypeOK, QuietInv, ReadInv, OutputInv, [Next]_vars PROVE OutputInv'
  OBVIOUS
<1>1. CASE EndOfOutput
  BY <1>1, EndedOutput DEF EndOfOutput, Goto, Ended
<1>2. CASE ChangeWorld \/ Finished \/ UNCHANGED vars
  <2>1. UNCHANGED <<phase, i, config, seen, storage, ir, resources, errors, notifications, unchecked,
                    tables, stderr, stdout>>
    BY <1>2 DEF ChangeWorld, Change, Finished, vars, readerVars, settings, readVars, results
  <2> QED
    BY <2>1, SameOutput
<1> QED
  BY <1>1, <1>2, BeforeOutput, LookUpOutput, ToIROutput, EmitOutput, CheckOutput, AllCheckedOutput,
     TablesOutput, PrintTableOutput, AllPrintedOutput, PrintResourceOutput, NextKindOutput
  DEF Next, Work

-------------------------------------------------------------------------------
(***************************************************************************)
(* Every step is one of the contract                                       *)
(***************************************************************************)
ContractInv == DriverTypeOK /\ QuietInv /\ ReadInv /\ OutputInv

ContractStep ==
  [Contract!ReadWorld \/ Contract!End \/ Contract!Change]_<<config, world, seen, AbstractOutcome>>

LEMMA InnerStep ==
  ASSUME phase \notin Ended, phase' \notin Ended, UNCHANGED <<config, world, seen>>
  PROVE  ContractStep
BY DEF ContractStep, AbstractOutcome

LEMMA NothingWritten ==
  ASSUME QuietInv', phase' \in {"failed", "panicked"}
  PROVE  AbstractOutcome' = Outcome(phase', {}, {})
PROOF
<1>1. stdout' = <<>> /\ stderr' = EmptyMap /\ phase' \in Ended
  BY DEF QuietInv, Writing, Ended
<1>2. ToSet(<<>>) = {}
  BY DEF ToSet
<1>3. UNION Range(EmptyMap) = {}
  BY DEF Range, EmptyMap
<1> QED
  BY <1>1, <1>2, <1>3 DEF AbstractOutcome, Outcome

\* A step to an outcome that the contract allows.
LEMMA EndStep ==
  ASSUME phase \notin Ended, UNCHANGED <<config, world, seen>>, ~ReadsOn(config, seen),
         AbstractOutcome' \in Outcomes(config, seen)
  PROVE  ContractStep
BY DEF ContractStep, Contract!End, AbstractOutcome

LEMMA FailStep ==
  ASSUME QuietInv', phase \notin Ended, phase' = "failed", UNCHANGED <<config, world, seen>>,
         ~ReadsOn(config, seen), Nowhere \in Outcomes(config, seen)
  PROVE  ContractStep
PROOF
<1>1. AbstractOutcome' = Nowhere
  BY NothingWritten DEF Nowhere
<1> QED
  BY <1>1, EndStep

LEMMA PanicStep ==
  ASSUME QuietInv', phase \notin Ended, phase' = "panicked", UNCHANGED <<config, world, seen>>,
         ~ReadsOn(config, seen), Crash \in Outcomes(config, seen)
  PROVE  ContractStep
PROOF
<1>1. AbstractOutcome' = Crash
  BY NothingWritten DEF Crash
<1> QED
  BY <1>1, EndStep

LEMMA StartFails ==
  ASSUME CannotStart(config)
  PROVE  ~ReadsOn(config, seen) /\ Nowhere \in Outcomes(config, seen)
BY DEF ReadsOn, Outcomes

LEMMA ReadingFails ==
  ASSUME ReadFailed(config, seen)
  PROVE  ~ReadsOn(config, seen) /\ Nowhere \in Outcomes(config, seen)
BY DEF ReadsOn, Outcomes

LEMMA AllRead ==
  ASSUME ReadInv, phase \in Working
  PROVE  ~ReadsOn(config, seen)
BY DEF ReadInv, StoredInv, ReadsOn

LEMMA StartStep ==
  ASSUME ContractInv, QuietInv',
         ParseFlags \/ InitializeResourcePrinter \/ InitializeNamespaceFilter
           \/ ConnectClient \/ ConstructProviders
  PROVE  ContractStep
PROOF
<1>1. /\ phase \in Before /\ UNCHANGED <<config, world, seen>>
      /\ phase' \in Before \union Reading \union {"emitter", "failed"}
  BY DEF ParseFlags, InitializeResourcePrinter, InitializeNamespaceFilter, ConnectClient,
         ConstructProviders, Goto, Fail, settings, readVars, Before, Reading
<1>2. phase \notin Ended
  BY <1>1 DEF Before, Ended
<1>3. CASE phase' # "failed"
  BY <1>1, <1>2, <1>3, InnerStep DEF Before, Reading, Ended
<1>4. CASE phase' = "failed"
  <2>1. CannotStart(config)
    <3>1. CASE ParseFlags \/ InitializeResourcePrinter \/ ConnectClient
      BY <1>4, <3>1 DEF ParseFlags, InitializeResourcePrinter, ConnectClient, Goto, Formats,
                        CannotStart
    <3>2. CASE InitializeNamespaceFilter
      BY <1>4, <3>2 DEF InitializeNamespaceFilter, Goto, Fail, CannotStart
    <3>3. CASE ConstructProviders
      BY <1>4, <3>3 DEF ConstructProviders, Goto, Fail, CannotStart
    <3> QED
      BY <3>1, <3>2, <3>3
  <2> QED
    BY <1>1, <1>2, <1>4, <2>1, StartFails, FailStep
<1> QED
  BY <1>3, <1>4

LEMMA OpenStep ==
  ASSUME ContractInv, QuietInv', OpenFile \/ ListObjects
  PROVE  ContractStep
PROOF
<1>1. /\ phase = "open" /\ UNCHANGED <<config, world>> /\ seen' = Append(seen, world)
      /\ IF world.readable THEN phase' \in {"decode", "take"} ELSE phase' = "failed"
  BY DEF OpenFile, ListObjects, Goto, Fail, settings
<1>2. /\ ~CannotStart(config) /\ config.providers # <<>> /\ namespace = NamespaceOf(config)
      /\ Len(seen) = (IF First THEN 0 ELSE 1)
      /\ ~First => ~ReadFails(seen[1], "Ingress", namespace)
  BY <1>1 DEF ContractInv, ReadInv, FlagsInv, VersionsInv, FirstReadInv, Reading
<1>3. ReadsOn(config, seen)
  BY <1>2 DEF ReadsOn, ReadFailed
<1>4. AbstractOutcome = <<>>
  BY <1>1 DEF AbstractOutcome, Ended
<1>5. AbstractOutcome' \in IF world.readable THEN {<<>>} ELSE Outcomes(config, seen')
  <2>1. CASE world.readable
    BY <1>1, <2>1 DEF AbstractOutcome, Ended
  <2>2. CASE ~world.readable
    <3>1. AbstractOutcome' = Nowhere
      BY <1>1, <2>2, NothingWritten DEF Nowhere
    <3>2. Len(seen') = Len(seen) + 1 /\ seen'[Len(seen) + 1] = world
      BY <1>1, AppendProperties DEF ContractInv, DriverTypeOK
    <3>3. \A kind, ns : ReadFails(world, kind, ns)
      BY <2>2 DEF ReadFails
    <3>4. ReadFailed(config, seen')
      BY <1>2, <3>2, <3>3 DEF ReadFailed
    <3> QED
      BY <2>2, <3>1, <3>4 DEF Outcomes
  <2> QED
    BY <2>1, <2>2
<1> QED
  BY <1>1, <1>3, <1>4, <1>5 DEF ContractStep, Contract!ReadWorld

LEMMA CurrentFails ==
  ASSUME ReadInv, phase \in Reading \ {"open"}, ReadFails(Current, reading, namespace),
         reading \in {"Ingress", "Service"}
  PROVE  ReadFailed(config, seen)
PROOF
<1>1. namespace = NamespaceOf(config) /\ Len(seen) = (IF First THEN 1 ELSE 2)
  BY DEF ReadInv, FlagsInv, VersionsInv
<1> QED
  BY <1>1 DEF Current, First, ReadFailed

\* The reading goes on, or what is read cannot be.
LEMMA ReadStep ==
  ASSUME ContractInv, QuietInv', ReadResources, ~OpenFile, ~ListObjects
  PROVE  ContractStep
PROOF
<1>1. UNCHANGED <<config, world, seen>> /\ phase \in Reading \ {"open"}
  BY DEF ReadResources, Read, DecodeDocument, EndOfFile, ExpandObject, AllExpanded, TakeObject,
         AllTaken, FromMap, StoreServicePorts, settings, readVars, Reading
<1>2. phase \notin Ended
  BY <1>1 DEF Reading, Ended
<1>3. CASE phase' # "failed"
  <2>1. phase' \notin Ended
    BY <1>3, ReadPhases DEF Ended
  <2> QED
    BY <1>1, <1>2, <2>1, InnerStep
<1>4. CASE phase' = "failed"
  <2>1. Current \in Version /\ reading \in {"Ingress", "Service"}
    BY <1>1, CurrentVersion DEF ContractInv, ReadInv, DriverTypeOK
  <2>2. /\ docs \in Seq(Document) /\ DOMAIN docs = 1..Len(docs)
        /\ objs \in Seq(Decoded) /\ DOMAIN objs = 1..Len(objs)
        /\ items \in Seq(Object) /\ DOMAIN items = 1..Len(items) /\ i \in Nat \ {0}
        /\ Len(docs) \in Nat /\ Len(objs) \in Nat /\ Len(items) \in Nat
    BY LenProperties DEF ContractInv, DriverTypeOK
  <2>3. CASE DecodeDocument
    <3>1. phase = "decode" /\ i \in DOMAIN docs /\ docs[i].kind = "malformed"
      BY <1>4, <2>2, <2>3 DEF DecodeDocument, Goto, Fail
    <3>2. docs = Current.docs
      BY <3>1 DEF ContractInv, ReadInv, DecodingInv
    <3>3. docs[i] \in ToSet(docs)
      BY <3>1 DEF ToSet
    <3> HIDE DEF Current
    <3>4. ReadFails(Current, reading, namespace)
      BY <3>1, <3>2, <3>3 DEF ReadFails
    <3> QED
      BY <1>1, <1>2, <1>4, <2>1, <3>4, CurrentFails, ReadingFails, FailStep DEF ContractInv
  <2>4. CASE ExpandObject
    <3>1. phase = "expand" /\ i \in DOMAIN objs /\ BrokenList(objs[i])
      BY <1>4, <2>2, <2>4 DEF ExpandObject, Goto, Fail
    <3>2. PICK pos \in [DOMAIN objs -> DOMAIN Current.docs] :
            Collected(Current, namespace, objs, pos, Len(Current.docs) + 1)
      BY <3>1 DEF ContractInv, ReadInv, ExpandingInv
    <3> HIDE DEF Current
    <3>3. objs[i] = Current.docs[pos[i]] /\ Kept(objs[i], namespace) /\ pos[i] \in DOMAIN Current.docs
      BY <3>1, <3>2 DEF Collected
    <3>4. objs[i] \in ToSet(Current.docs)
      BY <3>3 DEF ToSet
    <3>5. ReadFails(Current, reading, namespace)
      BY <3>1, <3>3, <3>4 DEF ReadFails
    <3> QED
      BY <1>1, <1>2, <1>4, <2>1, <3>5, CurrentFails, ReadingFails, FailStep DEF ContractInv
  <2>5. CASE TakeObject
    <3>1. phase = "take" /\ i \in DOMAIN items /\ items[i].kind = reading /\ ~items[i].valid
      BY <1>4, <2>2, <2>5 DEF TakeObject, Goto, Fail
    <3>2. PICK at \in [DOMAIN items -> Places(Current.docs, namespace)] :
            \A x \in DOMAIN items : items[x] = ObjectAt(Current.docs, at[x])
      BY <3>1 DEF ContractInv, ReadInv, TakingInv, Arranged
    <3> HIDE DEF Current
    <3>3. at[i] \in PlacesOf(Current.docs, namespace, reading) /\ ~ObjectAt(Current.docs, at[i]).valid
      BY <3>1, <3>2 DEF PlacesOf
    <3>4. ReadFails(Current, reading, namespace)
      BY <3>3 DEF ReadFails
    <3> QED
      BY <1>1, <1>2, <1>4, <2>1, <3>4, CurrentFails, ReadingFails, FailStep DEF ContractInv
  <2>6. CASE EndOfFile \/ AllExpanded \/ AllTaken \/ FromMap \/ StoreServicePorts
    BY <1>4, <2>6 DEF EndOfFile, AllExpanded, AllTaken, FromMap, StoreServicePorts, Goto
  <2> QED
    BY <2>3, <2>4, <2>5, <2>6 DEF ReadResources, Read
<1> QED
  BY <1>3, <1>4

LEMMA LookUpStep ==
  ASSUME ContractInv, QuietInv', LookUpEmitter
  PROVE  ContractStep
PROOF
<1>1. /\ phase = "emitter" /\ UNCHANGED <<config, world, seen>>
      /\ phase \notin Ended /\ phase' \in {"failed", "tables", "convert"}
  BY DEF LookUpEmitter, Goto, settings, readVars, Ended
<1>2. CASE phase' # "failed"
  BY <1>1, <1>2, InnerStep DEF Ended
<1>3. CASE phase' = "failed"
  <2>1. config.emitter \notin Emitters
    BY <1>3 DEF LookUpEmitter, Goto
  <2> QED
    BY <1>1, <1>3, <2>1, AllRead, FailStep DEF ContractInv, Working, Outcomes
<1> QED
  BY <1>2, <1>3

LEMMA ToIRStep ==
  ASSUME ContractInv, QuietInv', ToIR
  PROVE  ContractStep
PROOF
<1>1. /\ phase = "convert" /\ UNCHANGED <<config, world, seen>>
      /\ phase \notin Ended /\ phase' \in {"emit", "panicked"}
  BY DEF ToIR, Goto, settings, readVars, Ended
<1>2. CASE phase' # "panicked"
  BY <1>1, <1>2, InnerStep DEF Ended
<1>3. CASE phase' = "panicked"
  <2>1. PICK c \in Conversions(storage.ingresses, storage.ports) : c.end = "panicked"
    BY <1>3 DEF ToIR, Goto
  <2>2. Crash \in Outcomes(config, seen)
    BY <1>1, <2>1, ResultIsOutcome DEF ContractInv, ReadInv, OutputInv
  <2> QED
    BY <1>1, <1>3, <2>2, AllRead, PanicStep DEF ContractInv, Working
<1> QED
  BY <1>2, <1>3

LEMMA EmitStep ==
  ASSUME ContractInv, QuietInv', Emit
  PROVE  ContractStep
PROOF
<1>1. /\ phase = "emit" /\ UNCHANGED <<config, world, seen>>
      /\ phase \notin Ended /\ phase' \in {"check", "panicked"}
  BY DEF Emit, Goto, settings, readVars, Ended
<1>2. CASE phase' # "panicked"
  BY <1>1, <1>2, InnerStep DEF Ended
<1>3. CASE phase' = "panicked"
  <2>1. PICK c \in Conversions(storage.ingresses, storage.ports) : c.end # "panicked" /\ ir = c.ir
    BY <1>1 DEF ContractInv, OutputInv, ConvertedInv
  <2>2. PICK e \in Emissions(config.emitter, c.ir) : e.end = "panicked"
    BY <1>3, <2>1 DEF Emit, Goto
  <2>3. Result(config, c, e) = Crash
    BY <2>2 DEF Result
  <2>4. Crash \in Outcomes(config, seen)
    BY <1>1, <2>1, <2>3, ResultIsOutcome DEF ContractInv, ReadInv, OutputInv
  <2> QED
    BY <1>1, <1>3, <2>4, AllRead, PanicStep DEF ContractInv, Working
<1> QED
  BY <1>2, <1>3

LEMMA CheckStep ==
  ASSUME ContractInv, QuietInv', CheckFeature
  PROVE  ContractStep
PROOF
<1>1. /\ phase = "check" /\ UNCHANGED <<config, world, seen>>
      /\ phase \notin Ended /\ phase' \in {"check", "panicked"}
  BY DEF CheckFeature, Goto, settings, readVars, Ended
<1>2. CASE phase' # "panicked"
  BY <1>1, <1>2, InnerStep DEF Ended
<1>3. CASE phase' = "panicked"
  <2>1. PICK x \in unchecked : ~x.feature.parsed /\ x.feature.source = <<>>
    BY <1>1, <1>3 DEF CheckFeature, NeedsWarning
  <2>2. PICK c \in Conversions(storage.ingresses, storage.ports) :
          \E e \in Emissions(config.emitter, c.ir) : Checking(c, e)
    BY <1>1 DEF ContractInv, OutputInv, CheckedInv
  <2>3. PICK e \in Emissions(config.emitter, c.ir) : Checking(c, e)
    BY <2>2
  <2>4. x \in FeaturesOf(e.ir.http) /\ c.end # "panicked"
    BY <2>1, <2>3 DEF Checking
  <2>5. PICK key \in DOMAIN e.ir.http : \E f \in e.ir.http[key] : x = [route |-> key, feature |-> f]
    BY <2>4, FeatureOf
  <2>6. PICK f \in e.ir.http[key] : x = [route |-> key, feature |-> f]
    BY <2>5
  <2>7. Result(config, c, e) = Crash
    BY <2>1, <2>6 DEF Crashes, Lost, Result
  <2>8. Crash \in Outcomes(config, seen)
    BY <1>1, <2>4, <2>7, ResultIsOutcome DEF ContractInv, ReadInv, OutputInv
  <2> QED
    BY <1>1, <1>3, <2>8, AllRead, PanicStep DEF ContractInv, Working
<1> QED
  BY <1>2, <1>3

LEMMA TablesStep ==
  ASSUME ContractInv, QuietInv', CreateNotificationTables
  PROVE  ContractStep
PROOF
<1>1. /\ phase = "tables" /\ UNCHANGED <<config, world, seen>>
      /\ phase \notin Ended /\ phase' \in {"failed", "warn"}
  BY DEF CreateNotificationTables, Goto, settings, readVars, Ended
<1>2. CASE phase' # "failed"
  BY <1>1, <1>2, InnerStep DEF Ended
<1>3. CASE phase' = "failed"
  <2>1. errors
    BY <1>3 DEF CreateNotificationTables, Goto
  <2>2. Nowhere \in Outcomes(config, seen)
    BY <1>1, <2>1 DEF ContractInv, OutputInv, SettledInv
  <2> QED
    BY <1>1, <1>3, <2>2, AllRead, FailStep DEF ContractInv, Working
<1> QED
  BY <1>2, <1>3

LEMMA EndOfOutputStep ==
  ASSUME ContractInv, EndOfOutput
  PROVE  ContractStep
PROOF
<1>1. /\ phase = "print" /\ UNCHANGED <<config, world, seen, stderr>>
      /\ phase \notin Ended /\ phase' = "printed"
      /\ stdout' = IF stdout = <<>> THEN <<Line("message", namespace)>> ELSE stdout
      /\ i > Len(PrintOrder) /\ i \in Nat
  BY DEF EndOfOutput, Goto, settings, readVars, Ended, ContractInv, DriverTypeOK
<1>2. namespace = NamespaceOf(config) /\ ~ReadsOn(config, seen)
  BY <1>1, AllRead DEF ContractInv, ReadInv, FlagsInv, Working
<1>3. WrittenInv /\ Printed(config, resources, AllNotes) \in Outcomes(config, seen)
  BY <1>1 DEF ContractInv, OutputInv, SettledInv, WrittenInv
<1>4. UNION Range(stderr) = AllNotes
  <2>1. DOMAIN stderr = DOMAIN notifications /\ \A by \in DOMAIN stderr : stderr[by] = notifications[by]
    BY <1>1, <1>3 DEF WrittenInv
  <2> QED
    BY <2>1 DEF AllNotes, Range
<1>5. ToSet(stdout) = Lines(resources)
  <2>1. stdout \in Seq(Lines(resources))
    BY <1>1, <1>3 DEF WrittenInv
  <2>2. ToSet(stdout) \subseteq Lines(resources)
    BY <2>1, ElementOfSeq, LenProperties DEF ToSet
  <2>3. ASSUME NEW line \in Lines(resources) PROVE line \in ToSet(stdout)
    <3>1. PICK kind \in ToSet(PrintOrder) :
            line \in {[kind |-> kind, key |-> key] : key \in resources[kind]}
      BY DEF Lines
    <3>2. PICK key \in resources[kind] : line = Line(kind, key)
      BY <3>1 DEF Line
    <3>3. PICK m \in DOMAIN PrintOrder : PrintOrder[m] = kind
      BY DEF ToSet
    <3>4. m < i
      BY <1>1 DEF PrintOrder
    <3> QED
      BY <1>1, <1>3, <3>2, <3>3, <3>4 DEF WrittenInv
  <2> QED
    BY <2>2, <2>3
<1>6. ToSet(stdout')
        = IF Lines(resources) = {} THEN {Line("message", namespace)} ELSE Lines(resources)
  <2>1. stdout = <<>> <=> ToSet(stdout) = {}
    <3>1. stdout \in Seq(Lines(resources))
      BY <1>1, <1>3 DEF WrittenInv
    <3>2. DOMAIN stdout = {} => stdout = <<>>
      BY <3>1, LenProperties, EmptySeq
    <3>3. ToSet(stdout) = {} => DOMAIN stdout = {}
      BY DEF ToSet
    <3>4. ToSet(<<>>) = {}
      BY DEF ToSet
    <3> QED
      BY <3>2, <3>3, <3>4
  <2>2. ToSet(<<Line("message", namespace)>>) = {Line("message", namespace)}
    BY DEF ToSet
  <2> QED
    BY <1>1, <1>5, <2>1, <2>2
<1>7. AbstractOutcome' = Printed(config, resources, AllNotes)
  BY <1>1, <1>2, <1>4, <1>6 DEF AbstractOutcome, Printed, Outcome, Line, Ended
<1> QED
  BY <1>1, <1>2, <1>3, <1>7, EndStep

\* The steps that end nothing.
LEMMA GoOnStep ==
  ASSUME ContractInv, AllChecked \/ PrintTable \/ AllTablesPrinted \/ PrintResource \/ NextKind
  PROVE  ContractStep
PROOF
<1>1. phase \notin Ended /\ phase' \notin Ended /\ UNCHANGED <<config, world, seen>>
  BY DEF AllChecked, PrintTable, AllTablesPrinted, PrintResource, NextKind, Goto, settings, readVars,
         Ended
<1> QED
  BY <1>1, InnerStep

LEMMA OtherStep ==
  ASSUME ChangeWorld \/ Finished \/ UNCHANGED vars
  PROVE  ContractStep
PROOF
<1>1. CASE ChangeWorld
  <2>1. world' \in Source /\ UNCHANGED <<config, seen, phase, stdout, stderr>>
    BY <1>1 DEF ChangeWorld, Change, settings, readVars
  <2>2. Contract!Change
    BY <2>1 DEF Contract!Change, Contract!Source, Source, AbstractOutcome
  <2> QED
    BY <2>2 DEF ContractStep
<1>2. CASE Finished \/ UNCHANGED vars
  <2>1. UNCHANGED <<config, world, seen, phase, stdout, stderr>>
    BY <1>2 DEF Finished, vars, readerVars, settings, readVars
  <2> QED
    BY <2>1 DEF ContractStep, AbstractOutcome
<1> QED
  BY <1>1, <1>2

LEMMA NextContract == ContractInv /\ [Next]_vars => ContractInv'
  BY NextTypes, NextQuiet, NextRead, NextOutput DEF ContractInv

LEMMA NextStep == ContractInv /\ ContractInv' /\ [Next]_vars => ContractStep
  BY StartStep, OpenStep, ReadStep, LookUpStep, ToIRStep, EmitStep, CheckStep, TablesStep,
     EndOfOutputStep, GoOnStep, OtherStep
  DEF Next, Work, ReadResources, Read, ContractInv

LEMMA InitContract == Init => ContractInv /\ Contract!Init
PROOF
<1>1. Init => Contract!Init
  BY DEF Init, ReaderInit, Contract!Init, Contract!Source, Source, AbstractOutcome, Ended
<1> QED
  BY <1>1, InitTypes, InitQuiet, InitRead, InitOutput DEF ContractInv

\* print keeps what ProgramContract promises of it, for any files, clusters,
\* command lines, conversion and emission: it reads as many versions as it has
\* to, and what it ends with is the outcome that the command line and these
\* versions have, in whichever order documents are gone through, features
\* checked and resources printed, and whatever is written to the file or
\* cluster meanwhile.  (print.go, ingress2gateway.go, resource_reader.go)
THEOREM ImplementsTheProgram == Spec => ImplementsProgram
PROOF
<1>1. ContractStep
        <=> [Contract!ReadWorld \/ Contract!End \/ Contract!Change]_<<config, world, seen, AbstractOutcome>>
  BY DEF ContractStep
<1> QED
  BY <1>1, InitContract, NextContract, NextStep, PTL DEF Spec, ImplementsProgram, Contract!Spec
================================================================================
