----------------------------- MODULE MitmCAProofs -----------------------------
(* For any hosts, handshakes, cache size and rotations: the list and the   *)
(* index of the leaf cache agree, no stale leaf is served from it, and a   *)
(* rotation empties it of the retired CA's leaves for good.                *)
EXTENDS MitmCA, SequenceTheorems, FiniteSetTheorems, TLAPS

\* The keys of a list of entries.
Keys(s) == {s[i].key : i \in 1..Len(s)}

\* No key is in the list twice.
Distinct(s) == \A i, j \in 1..Len(s) : s[i].key = s[j].key => i = j

\* Every leaf of the list, but for those under the names in L, was signed by
\* one generation of the CA.
Signed(s, g, L) == \A i \in 1..Len(s) : s[i].leaf.gen = g \/ s[i].key \in L

\* The list of an empty cache.
LEMMA EmptyList == <<>> \in Seq(Entry) /\ Len(<<>>) = 0 /\ Distinct(<<>>) /\ Keys(<<>>) = {}
<1>1. <<>> \in Seq(Entry) /\ Len(<<>>) = 0 /\ 1..0 = {}
  OBVIOUS
<1> QED BY <1>1 DEF Distinct, Keys

\* A list with an entry put in front: what its elements are.
LEMMA PushFront ==
    ASSUME NEW e \in Entry, NEW s \in Seq(Entry), Distinct(s), e.key \notin Keys(s)
    PROVE  LET t == <<e>> \o s IN
           /\ t \in Seq(Entry) /\ Len(t) = Len(s) + 1
           /\ Distinct(t) /\ Keys(t) = Keys(s) \cup {e.key} /\ t[1] = e
           /\ \A g, L : Signed(s, g, L) /\ (e.leaf.gen = g \/ e.key \in L) => Signed(t, g, L)
<1> DEFINE t == <<e>> \o s
<1>1. t \in Seq(Entry) /\ Len(t) = Len(s) + 1
  OBVIOUS
<1>2. t[1] = e /\ \A i \in 2..Len(t) : t[i] = s[i - 1]
  OBVIOUS
<1>len. Len(s) \in Nat
  OBVIOUS
<1> HIDE DEF t
<1>3. Distinct(t)
  <2> SUFFICES ASSUME NEW i \in 1..Len(t), NEW j \in 1..Len(t), t[i].key = t[j].key
               PROVE  i = j
    BY DEF Distinct
  <2>1. CASE i = 1 /\ j # 1
    <3>1. j - 1 \in 1..Len(s) /\ t[j] = s[j - 1]
      BY <2>1, <1>1, <1>2, <1>len
    <3> QED BY <2>1, <3>1, <1>2 DEF Keys
  <2>2. CASE i # 1 /\ j = 1
    <3>1. i - 1 \in 1..Len(s) /\ t[i] = s[i - 1]
      BY <2>2, <1>1, <1>2, <1>len
    <3> QED BY <2>2, <3>1, <1>2 DEF Keys
  <2>3. CASE i # 1 /\ j # 1
    <3>1. i - 1 \in 1..Len(s) /\ t[i] = s[i - 1] /\ j - 1 \in 1..Len(s) /\ t[j] = s[j - 1]
      BY <2>3, <1>1, <1>2, <1>len
    <3>2. i - 1 = j - 1
      BY <3>1 DEF Distinct
    <3> QED BY <3>2
  <2> QED BY <2>1, <2>2, <2>3
<1>4. Keys(t) = Keys(s) \cup {e.key}
  <2>1. ASSUME NEW k \in Keys(t) PROVE k \in Keys(s) \cup {e.key}
    <3>1. PICK i \in 1..Len(t) : k = t[i].key
      BY DEF Keys
    <3>2. CASE i = 1
      BY <3>1, <3>2, <1>2
    <3>3. CASE i # 1
      <4>1. i - 1 \in 1..Len(s) /\ t[i] = s[i - 1]
        BY <3>3, <1>1, <1>2, <1>len
      <4> QED BY <3>1, <4>1 DEF Keys
    <3> QED BY <3>2, <3>3
  <2>2. ASSUME NEW k \in Keys(s) PROVE k \in Keys(t)
    <3>1. PICK i \in 1..Len(s) : k = s[i].key
      BY DEF Keys
    <3>2. i + 1 \in 1..Len(t) /\ i + 1 \in 2..Len(t) /\ i + 1 - 1 = i
      BY <1>1, <1>len
    <3>3. t[i + 1] = s[i]
      BY <1>2, <3>2
    <3> QED BY <3>1, <3>2, <3>3 DEF Keys
  <2>3. e.key \in Keys(t)
    <3>1. 1 \in 1..Len(t)
      BY <1>1, <1>len
    <3> QED BY <1>2, <3>1 DEF Keys
  <2> QED BY <2>1, <2>2, <2>3
<1>5. ASSUME NEW g, NEW L, Signed(s, g, L), (e.leaf.gen = g \/ e.key \in L), NEW i \in 1..Len(t)
      PROVE  t[i].leaf.gen = g \/ t[i].key \in L
  <2>1. CASE i = 1
    BY <1>2, <1>5, <2>1
  <2>2. CASE i # 1
    <3>1. i - 1 \in 1..Len(s) /\ t[i] = s[i - 1]
      BY <2>2, <1>1, <1>2, <1>len
    <3> QED BY <1>5, <3>1 DEF Signed
  <2> QED BY <2>1, <2>2
<1>6. \A g, L : Signed(s, g, L) /\ (e.leaf.gen = g \/ e.key \in L) => Signed(t, g, L)
  BY <1>5 DEF Signed
<1> QED BY <1>1, <1>2, <1>3, <1>4, <1>6 DEF t

\* A list with one element taken out.
LEMMA TakeOut ==
    ASSUME NEW s \in Seq(Entry), Distinct(s), NEW n \in 1..Len(s)
    PROVE  LET t == RemoveAt(s, n) IN
           /\ t \in Seq(Entry) /\ Len(t) = Len(s) - 1
           /\ Distinct(t) /\ Keys(t) = Keys(s) \ {s[n].key}
           /\ \A g, L : Signed(s, g, L) => Signed(t, g, L)
<1> DEFINE a == SubSeq(s, 1, n - 1)
           b == SubSeq(s, n + 1, Len(s))
           t == a \o b
<1>len. Len(s) \in Nat /\ n \in Nat
  OBVIOUS
<1>1. a \in Seq(Entry) /\ Len(a) = n - 1 /\ \A i \in 1..(n - 1) : a[i] = s[i]
  <2>1. \A i \in 1..(n - 1) : s[i] \in Entry
    BY <1>len
  <2>2. /\ a \in Seq(Entry) /\ Len(a) = IF 1 <= n - 1 THEN (n - 1) - 1 + 1 ELSE 0
        /\ \A i \in 1..((n - 1) - 1 + 1) : a[i] = s[1 + i - 1]
    BY <1>len, <2>1, SubSeqProperties
  <2> HIDE DEF a
  <2>3. Len(a) = n - 1
    BY <1>len, <2>2
  <2>4. \A i \in 1..(n - 1) : a[i] = s[i]
    BY <1>len, <2>2
  <2> QED BY <2>2, <2>3, <2>4
<1>2. b \in Seq(Entry) /\ Len(b) = Len(s) - n /\ \A i \in 1..(Len(s) - n) : b[i] = s[n + i]
  <2>1. \A i \in (n + 1)..Len(s) : s[i] \in Entry
    BY <1>len
  <2>2. /\ b \in Seq(Entry) /\ Len(b) = IF n + 1 <= Len(s) THEN Len(s) - (n + 1) + 1 ELSE 0
        /\ \A i \in 1..(Len(s) - (n + 1) + 1) : b[i] = s[n + 1 + i - 1]
    BY <1>len, <2>1, SubSeqProperties
  <2> HIDE DEF b
  <2>3. Len(b) = Len(s) - n
    BY <1>len, <2>2
  <2>4. \A i \in 1..(Len(s) - n) : b[i] = s[n + i]
    BY <1>len, <2>2
  <2> QED BY <2>2, <2>3, <2>4
<1> HIDE DEF a, b
<1>3. /\ t \in Seq(Entry) /\ Len(t) = Len(a) + Len(b)
      /\ \A i \in 1..(Len(a) + Len(b)) : t[i] = IF i <= Len(a) THEN a[i] ELSE b[i - Len(a)]
  BY <1>1, <1>2, ConcatProperties
<1> HIDE DEF t
<1>4. Len(t) = Len(s) - 1
  BY <1>1, <1>2, <1>3, <1>len
<1>5. \A i \in 1..Len(t) : t[i] = IF i < n THEN s[i] ELSE s[i + 1]
  <2> SUFFICES ASSUME NEW i \in 1..Len(t) PROVE t[i] = IF i < n THEN s[i] ELSE s[i + 1]
    OBVIOUS
  <2>1. CASE i < n
    BY <2>1, <1>1, <1>2, <1>3, <1>len
  <2>2. CASE ~(i < n)
    <3>1. t[i] = b[i - Len(a)]
      BY <2>2, <1>1, <1>2, <1>3, <1>len
    <3>2. i - Len(a) \in 1..(Len(s) - n) /\ n + (i - Len(a)) = i + 1
      BY <2>2, <1>1, <1>4, <1>len
    <3> QED BY <2>2, <3>1, <3>2, <1>2
  <2> QED BY <2>1, <2>2
<1>6. Distinct(t)
  <2> SUFFICES ASSUME NEW i \in 1..Len(t), NEW j \in 1..Len(t), t[i].key = t[j].key
               PROVE  i = j
    BY DEF Distinct
  <2> DEFINE f(x) == IF x < n THEN x ELSE x + 1
  <2>1. f(i) \in 1..Len(s) /\ f(j) \in 1..Len(s) /\ t[i] = s[f(i)] /\ t[j] = s[f(j)]
    BY <1>4, <1>5, <1>len
  <2>2. f(i) = f(j)
    BY <2>1 DEF Distinct
  <2> QED BY <2>2, <1>len
<1>7. Keys(t) = Keys(s) \ {s[n].key}
  <2>1. ASSUME NEW k \in Keys(t) PROVE k \in Keys(s) \ {s[n].key}
    <3>1. PICK i \in 1..Len(t) : k = t[i].key
      BY DEF Keys
    <3>2. PICK j \in 1..Len(s) : t[i] = s[j] /\ j # n
      BY <1>4, <1>5, <1>len
    <3> QED BY <3>1, <3>2 DEF Keys, Distinct
  <2>2. ASSUME NEW k \in Keys(s), k # s[n].key PROVE k \in Keys(t)
    <3>1. PICK i \in 1..Len(s) : k = s[i].key
      BY DEF Keys
    <3>2. i # n
      BY <2>2, <3>1
    <3>3. PICK j \in 1..Len(t) : t[j] = s[i]
      <4>1. CASE i < n
        BY <4>1, <1>4, <1>5, <1>len
      <4>2. CASE i > n
        <5>1. i - 1 \in 1..Len(t) /\ ~(i - 1 < n) /\ i - 1 + 1 = i
          BY <4>2, <1>4, <1>len
        <5> QED BY <5>1, <1>5
      <4> QED BY <3>2, <4>1, <4>2, <1>len
    <3> QED BY <3>1, <3>3 DEF Keys
  <2> QED BY <2>1, <2>2
<1>8. ASSUME NEW g, NEW L, Signed(s, g, L), NEW i \in 1..Len(t)
      PROVE  t[i].leaf.gen = g \/ t[i].key \in L
  <2>1. PICK j \in 1..Len(s) : t[i] = s[j]
    BY <1>4, <1>5, <1>len
  <2> QED BY <1>8, <2>1 DEF Signed
<1>9. \A g, L : Signed(s, g, L) => Signed(t, g, L)
  BY <1>8 DEF Signed
<1> QED BY <1>3, <1>4, <1>6, <1>7, <1>9 DEF t, a, b, RemoveAt

\* A list cut into two parts: the first has the keys the second has not.
LEMMA CutOff ==
    ASSUME NEW s \in Seq(Entry), Distinct(s), NEW m \in 0..Len(s)
    PROVE  LET kept == SubSeq(s, 1, m)
               gone == SubSeq(s, m + 1, Len(s)) IN
           /\ kept \in Seq(Entry) /\ Len(kept) = m
           /\ Distinct(kept) /\ Keys(kept) = Keys(s) \ {e.key : e \in ToSet(gone)}
           /\ \A g, L : Signed(s, g, L) => Signed(kept, g, L)
<1> DEFINE kept == SubSeq(s, 1, m)
           gone == SubSeq(s, m + 1, Len(s))
<1>len. Len(s) \in Nat /\ m \in Nat /\ m <= Len(s)
  OBVIOUS
<1>1. kept \in Seq(Entry) /\ Len(kept) = m /\ \A i \in 1..m : kept[i] = s[i]
  <2>1. \A i \in 1..m : s[i] \in Entry
    BY <1>len
  <2>2. /\ kept \in Seq(Entry) /\ Len(kept) = IF 1 <= m THEN m - 1 + 1 ELSE 0
        /\ \A i \in 1..(m - 1 + 1) : kept[i] = s[1 + i - 1]
    BY <1>len, <2>1, SubSeqProperties
  <2> HIDE DEF kept
  <2>3. Len(kept) = m
    BY <1>len, <2>2
  <2>4. \A i \in 1..m : kept[i] = s[i]
    BY <1>len, <2>2
  <2> QED BY <2>2, <2>3, <2>4
<1>2. gone \in Seq(Entry) /\ Len(gone) = Len(s) - m /\ \A i \in 1..(Len(s) - m) : gone[i] = s[m + i]
  <2>1. \A i \in (m + 1)..Len(s) : s[i] \in Entry
    BY <1>len
  <2>2. /\ gone \in Seq(Entry) /\ Len(gone) = IF m + 1 <= Len(s) THEN Len(s) - (m + 1) + 1 ELSE 0
        /\ \A i \in 1..(Len(s) - (m + 1) + 1) : gone[i] = s[m + 1 + i - 1]
    BY <1>len, <2>1, SubSeqProperties
  <2> HIDE DEF gone
  <2>3. Len(gone) = Len(s) - m
    BY <1>len, <2>2
  <2>4. \A i \in 1..(Len(s) - m) : gone[i] = s[m + i]
    BY <1>len, <2>2
  <2> QED BY <2>2, <2>3, <2>4
<1> HIDE DEF kept, gone
<1>3. Distinct(kept)
  BY <1>1, <1>len DEF Distinct
<1>4. {e.key : e \in ToSet(gone)} = {s[i].key : i \in (m + 1)..Len(s)}
  <2>1. DOMAIN gone = 1..(Len(s) - m)
    BY <1>2
  <2>2. ASSUME NEW i \in (m + 1)..Len(s) PROVE \E e \in ToSet(gone) : e.key = s[i].key
    <3>1. i - m \in 1..(Len(s) - m) /\ m + (i - m) = i
      BY <1>len
    <3> QED BY <3>1, <2>1, <1>2 DEF ToSet
  <2>3. ASSUME NEW e \in ToSet(gone) PROVE \E i \in (m + 1)..Len(s) : s[i].key = e.key
    <3>1. PICK j \in 1..(Len(s) - m) : e = gone[j]
      BY <2>1 DEF ToSet
    <3>2. m + j \in (m + 1)..Len(s) /\ gone[j] = s[m + j]
      BY <1>2, <1>len
    <3> QED BY <3>1, <3>2
  <2> QED BY <2>2, <2>3
<1>5. Keys(kept) = Keys(s) \ {s[i].key : i \in (m + 1)..Len(s)}
  <2>1. ASSUME NEW k \in Keys(kept) PROVE k \in Keys(s) \ {s[i].key : i \in (m + 1)..Len(s)}
    <3>1. PICK j \in 1..m : k = s[j].key
      BY <1>1 DEF Keys
    <3>2. j \in 1..Len(s) /\ \A i \in (m + 1)..Len(s) : i \in 1..Len(s) /\ i # j
      BY <1>len
    <3> QED BY <3>1, <3>2 DEF Keys, Distinct
  <2>2. ASSUME NEW k \in Keys(s) \ {s[i].key : i \in (m + 1)..Len(s)} PROVE k \in Keys(kept)
    <3>1. PICK j \in 1..Len(s) : k = s[j].key
      BY <2>2 DEF Keys
    <3>2. j \in 1..m
      BY <2>2, <3>1, <1>len
    <3> QED BY <3>1, <3>2, <1>1 DEF Keys
  <2> QED BY <2>1, <2>2
<1>6. \A g, L : Signed(s, g, L) => Signed(kept, g, L)
  BY <1>1, <1>len DEF Signed
<1> QED BY <1>1, <1>3, <1>4, <1>5, <1>6 DEF kept, gone

\* With distinct keys there are as many keys as elements.
LEMMA KeysCounted ==
    ASSUME NEW s \in Seq(Entry), Distinct(s)
    PROVE  Cardinality(Keys(s)) = Len(s)
<1> DEFINE f == [i \in 1..Len(s) |-> s[i].key]
<1>1. f \in Bijection(1..Len(s), Keys(s))
  BY DEF Bijection, Injection, Surjection, IsInjective, Keys, Distinct
<1>2. ExistsBijection(1..Len(s), Keys(s)) /\ Len(s) \in Nat
  BY <1>1 DEF ExistsBijection
<1> QED BY <1>2, FS_CountingElements

-----------------------------------------------------------------------------

\* What a handshake carries at each step.
HandshakesOK ==
    \A w \in Workers :
        /\ wpc[w] # "idle" => wname[w] \in Names
        /\ wpc[w] \in {"compare", "put"} => wleaf[w] \in Leaf

\* List and index agree and are bounded.
CacheOK == Distinct(order) /\ index = Keys(order) /\ Len(order) <= CacheSize

\* The inductive invariant.
IndInv == TypeOK /\ HandshakesOK /\ CacheOK

\* The element the index holds for a key is in the list.
LEMMA FoundInList ==
    ASSUME IndInv, NEW k \in index
    PROVE  At(k) \in 1..Len(order) /\ EntryOf(k) \in Entry /\ EntryOf(k).key = k
<1>1. DOMAIN order = 1..Len(order) /\ order \in Seq(Entry)
  BY DEF IndInv, TypeOK
<1>2. \E i \in DOMAIN order : order[i].key = k
  BY <1>1 DEF IndInv, CacheOK, Keys
<1>3. At(k) \in DOMAIN order /\ order[At(k)].key = k
  BY <1>2 DEF At
<1> QED BY <1>1, <1>3 DEF EntryOf

\* A known entry, or its replacement, goes to the front.
LEMMA MovedToFront ==
    ASSUME IndInv, NEW k \in index, NEW e \in Entry, e.key = k
    PROVE  LET t == <<e>> \o Without(k) IN
           /\ t \in Seq(Entry) /\ Distinct(t) /\ Keys(t) = index /\ Len(t) = Len(order)
           /\ \A g, L : Signed(order, g, L) /\ (e.leaf.gen = g \/ e.key \in L) => Signed(t, g, L)
<1>1. At(k) \in 1..Len(order) /\ order[At(k)].key = k
  BY FoundInList DEF EntryOf
<1>2. order \in Seq(Entry) /\ Len(order) \in Nat /\ Distinct(order) /\ Keys(order) = index
  BY DEF IndInv, TypeOK, CacheOK
<1>3. /\ Without(k) \in Seq(Entry) /\ Len(Without(k)) = Len(order) - 1
      /\ Distinct(Without(k)) /\ Keys(Without(k)) = index \ {k}
      /\ \A g, L : Signed(order, g, L) => Signed(Without(k), g, L)
  BY <1>1, <1>2, TakeOut DEF Without
<1> DEFINE t == <<e>> \o Without(k)
<1>4. /\ t \in Seq(Entry) /\ Len(t) = Len(Without(k)) + 1 /\ Distinct(t) /\ Keys(t) = (index \ {k}) \cup {k}
      /\ \A g, L : Signed(Without(k), g, L) /\ (e.leaf.gen = g \/ e.key \in L) => Signed(t, g, L)
  BY <1>3, PushFront
<1> HIDE DEF t
<1>5. Len(t) = Len(order)
  BY <1>2, <1>3, <1>4
<1>6. Keys(t) = index
  BY <1>4
<1> QED BY <1>3, <1>4, <1>5, <1>6 DEF t

\* certCache.get moves an entry to the front and keeps the cache in order.
LEMMA GetKeeps ==
    ASSUME IndInv, NEW k, get(k), index' = index
    PROVE  /\ order' \in Seq(Entry) /\ CacheOK'
           /\ \A g, L : Signed(order, g, L) => Signed(order', g, L)
<1>1. CASE k \in index
  <2>1. EntryOf(k) \in Entry /\ EntryOf(k).key = k
    BY <1>1, FoundInList
  <2>2. order' = <<EntryOf(k)>> \o Without(k)
    BY <1>1 DEF get
  <2>3. /\ order' \in Seq(Entry) /\ Distinct(order') /\ Keys(order') = index /\ Len(order') = Len(order)
        /\ \A g, L : Signed(order, g, L) /\ (EntryOf(k).leaf.gen = g \/ EntryOf(k).key \in L) => Signed(order', g, L)
    BY <1>1, <2>1, <2>2, MovedToFront
  <2>4. \A g, L : Signed(order, g, L) => (EntryOf(k).leaf.gen = g \/ EntryOf(k).key \in L)
    BY <1>1, FoundInList DEF EntryOf, Signed
  <2> QED BY <2>3, <2>4 DEF IndInv, CacheOK, Keys, Distinct
<1>2. CASE k \notin index
  <2>1. order' = order
    BY <1>2 DEF get
  <2> QED BY <2>1 DEF IndInv, TypeOK, CacheOK, Keys, Distinct
<1> QED BY <1>1, <1>2

\* certCache.put stores in front, evicts from the back and keeps it so too.
LEMMA PutKeeps ==
    ASSUME IndInv, NEW k \in Names, NEW cert \in Leaf, put(k, cert)
    PROVE  /\ order' \in Seq(Entry) /\ index' \subseteq Names /\ CacheOK'
           /\ \A g, L : Signed(order, g, L) /\ (cert.gen = g \/ k \in L) => Signed(order', g, L)
<1> DEFINE e == [key |-> k, leaf |-> cert]
           all == <<e>> \o (IF k \in index THEN Without(k) ELSE order)
           m == IF Len(all) < CacheSize THEN Len(all) ELSE CacheSize
           kept == SubSeq(all, 1, m)
           gone == SubSeq(all, Len(kept) + 1, Len(all))
<1>1. e \in Entry /\ e.key = k /\ e.leaf = cert
  BY DEF Entry
<1>2. order \in Seq(Entry) /\ Distinct(order) /\ index = Keys(order)
  BY DEF IndInv, TypeOK, CacheOK
<1> HIDE DEF e
<1>3. /\ all \in Seq(Entry) /\ Distinct(all) /\ Keys(all) = index \cup {k} /\ Len(all) \in Nat
      /\ \A g, L : Signed(order, g, L) /\ (cert.gen = g \/ k \in L) => Signed(all, g, L)
  <2>1. CASE k \in index
    BY <1>1, <2>1, MovedToFront
  <2>2. CASE k \notin index
    BY <1>1, <1>2, <2>2, PushFront
  <2> QED BY <2>1, <2>2
<1> HIDE DEF all
<1>4. m \in 0..Len(all) /\ m <= CacheSize
  BY <1>3, CAAssumption
<1> HIDE DEF m
<1>5. /\ kept \in Seq(Entry) /\ Len(kept) = m /\ Distinct(kept)
      /\ \A g, L : Signed(all, g, L) => Signed(kept, g, L)
      /\ Keys(kept) = Keys(all) \ {x.key : x \in ToSet(SubSeq(all, m + 1, Len(all)))}
  BY <1>3, <1>4, CutOff
<1>6. Keys(kept) = (index \cup {k}) \ {x.key : x \in ToSet(gone)}
  BY <1>3, <1>5
<1>7. order' = kept /\ index' = (index \cup {k}) \ {x.key : x \in ToSet(gone)}
  BY DEF put, e, all, m
<1>8. index' \subseteq Names
  BY <1>7 DEF IndInv, TypeOK
<1> HIDE DEF kept, gone
<1>9. CacheOK'
  BY <1>4, <1>5, <1>6, <1>7 DEF CacheOK, Keys, Distinct
<1> QED BY <1>3, <1>5, <1>7, <1>8, <1>9

\* Every step keeps the invariant.
LEMMA NextInv == IndInv /\ [Next]_vars => IndInv'
<1> SUFFICES ASSUME IndInv, [Next]_vars PROVE IndInv'
  OBVIOUS
<1> USE CAAssumption
<1>late. late' \subseteq Names
  <2>1. late' = late \/ late' \subseteq {wname[w] : w \in {v \in Workers : wpc[v] = "put"}}
    BY DEF Next, Handshake, certFor, mint, CompareGen, CacheLeaf, Rotate, RotatePurge, Tick, vars
  <2> QED BY <2>1 DEF IndInv, TypeOK, HandshakesOK
<1>1. ASSUME NEW w \in Workers, NEW sni \in Hosts \cup {None}, NEW target \in Hosts \cup {None},
             certFor(w, sni, target)
      PROVE  IndInv'
  <2> DEFINE name == leafIdentity(sni, target)
  <2>1. name \in Names
    BY DEF leafIdentity, Names
  <2> HIDE DEF name
  <2>2. get(name) /\ UNCHANGED <<gen, rotating, index>>
    BY <1>1 DEF certFor, name
  <2>3. order' \in Seq(Entry) /\ CacheOK'
    BY <2>2, GetKeeps
  <2>4. CASE name \in index /\ leafFresh(EntryOf(name).leaf)
    <3>1. Serve(w, EntryOf(name).leaf) /\ EntryOf(name).leaf \in Leaf
      BY <1>1, <2>4, FoundInList DEF certFor, name, Entry
    <3> QED BY <1>late, <2>2, <2>3, <3>1 DEF Serve, IndInv, TypeOK, HandshakesOK
  <2>5. CASE ~(name \in index /\ leafFresh(EntryOf(name).leaf))
    <3>1. /\ wpc' = [wpc EXCEPT ![w] = "mint"] /\ wname' = [wname EXCEPT ![w] = name]
          /\ served' = [served EXCEPT ![w] = None] /\ UNCHANGED wleaf
      BY <1>1, <2>5 DEF certFor, name
    <3> QED BY <1>late, <2>1, <2>2, <2>3, <3>1 DEF IndInv, TypeOK, HandshakesOK
  <2> QED BY <2>4, <2>5
<1>2. ASSUME NEW w \in Workers, mint(w)
      PROVE  IndInv'
  <2>1. [gen |-> gen, left |-> LeafTTL] \in Leaf
    BY DEF IndInv, TypeOK, Leaf
  <2>2. CacheOK'
    BY <1>2 DEF mint, IndInv, CacheOK, Keys, Distinct
  <2>3. TypeOK'
    BY <1>2, <2>1 DEF mint, Serve, IndInv, TypeOK
  <2>4. HandshakesOK'
    BY <1>2, <2>1 DEF mint, Serve, IndInv, TypeOK, HandshakesOK
  <2> QED BY <2>2, <2>3, <2>4 DEF IndInv
<1>3. ASSUME NEW w \in Workers, CompareGen(w)
      PROVE  IndInv'
  <2>1. CacheOK'
    BY <1>3 DEF CompareGen, IndInv, CacheOK, Keys, Distinct
  <2>2. CASE wleaf[w].gen = gen
    <3>1. /\ wpc[w] = "compare" /\ wpc' = [wpc EXCEPT ![w] = "put"]
          /\ UNCHANGED <<gen, rotating, order, index, wname, wleaf, served, late>>
      BY <1>3, <2>2 DEF CompareGen
    <3>2. TypeOK'
      BY <3>1 DEF IndInv, TypeOK
    <3>3. HandshakesOK'
      BY <3>1 DEF IndInv, TypeOK, HandshakesOK
    <3> QED BY <2>1, <3>2, <3>3 DEF IndInv
  <2>3. CASE wleaf[w].gen # gen
    <3>1. Serve(w, wleaf[w]) /\ UNCHANGED <<gen, rotating, order, index, late>>
      BY <1>3, <2>3 DEF CompareGen
    <3>2. TypeOK'
      BY <3>1 DEF Serve, IndInv, TypeOK
    <3>3. HandshakesOK'
      BY <3>1 DEF Serve, IndInv, TypeOK, HandshakesOK
    <3> QED BY <2>1, <3>2, <3>3 DEF IndInv
  <2> QED BY <2>2, <2>3
<1>4. ASSUME NEW w \in Workers, CacheLeaf(w)
      PROVE  IndInv'
  <2>1. wname[w] \in Names /\ wleaf[w] \in Leaf
    BY <1>4 DEF CacheLeaf, IndInv, HandshakesOK
  <2>2. order' \in Seq(Entry) /\ index' \subseteq Names /\ CacheOK'
    BY <1>4, <2>1, PutKeeps DEF CacheLeaf
  <2> QED BY <1>4, <2>1, <2>2 DEF CacheLeaf, Serve, IndInv, TypeOK, HandshakesOK
<1>5. CASE Rotate
  BY <1>5 DEF Rotate, IndInv, TypeOK, HandshakesOK, CacheOK, Keys, Distinct
<1>6. CASE RotatePurge
  <2>1. CacheOK'
    BY <1>6, EmptyList DEF RotatePurge, purge, CacheOK, Keys, Distinct
  <2> QED BY <1>6, <2>1, EmptyList DEF RotatePurge, purge, IndInv, TypeOK, HandshakesOK
<1>7. CASE Tick
  <2>1. ASSUME NEW cert \in Leaf PROVE Aged(cert) \in Leaf
    <3>1. PICK g \in 0..MaxRotations, n \in 0..LeafTTL : cert = [gen |-> g, left |-> n]
      BY DEF Leaf
    <3>2. n # 0 => n - 1 \in 0..LeafTTL
      OBVIOUS
    <3> QED BY <3>1, <3>2 DEF Aged, Leaf
  <2>2. Aged(None) = None
    BY DEF Aged
  <2>3. ASSUME NEW i \in 1..Len(order)
        PROVE  order'[i] \in Entry /\ order'[i].key = order[i].key
    <3>1. order[i] \in Entry /\ i \in DOMAIN order
      BY DEF IndInv, TypeOK
    <3>2. order'[i] = [order[i] EXCEPT !.leaf = Aged(@)]
      BY <1>7, <3>1 DEF Tick
    <3> QED BY <2>1, <3>1, <3>2 DEF Entry
  <2>4. Len(order) \in Nat /\ DOMAIN order' = 1..Len(order)
    BY <1>7 DEF Tick, IndInv, TypeOK
  <2>5. order' = [i \in 1..Len(order) |-> order'[i]]
    BY <1>7 DEF Tick, IndInv, TypeOK
  <2>6. order' \in Seq(Entry) /\ Len(order') = Len(order)
    BY <2>3, <2>4, <2>5, IsASeq
  <2>7. CacheOK'
    BY <1>7, <2>3, <2>6 DEF Tick, IndInv, CacheOK, Keys, Distinct
  <2>8. wleaf' \in [Workers -> Leaf \cup {None}]
    BY <1>7, <2>1, <2>2 DEF Tick, IndInv, TypeOK
  <2>9. HandshakesOK'
    BY <1>7, <2>1 DEF Tick, IndInv, HandshakesOK
  <2> QED BY <1>7, <2>6, <2>7, <2>8, <2>9 DEF Tick, IndInv, TypeOK
<1>8. CASE UNCHANGED vars
  BY <1>8 DEF vars, IndInv, TypeOK, HandshakesOK, CacheOK, Keys, Distinct
<1> QED BY <1>1, <1>2, <1>3, <1>4, <1>5, <1>6, <1>7, <1>8 DEF Next, Handshake

\* The cache is empty when the CA is loaded.
LEMMA InitInv == Init => IndInv
<1> SUFFICES ASSUME Init PROVE IndInv
  OBVIOUS
<1>1. CacheOK
  BY CAAssumption, EmptyList DEF Init, CacheOK, Keys, Distinct
<1>2. order \in Seq(Entry) /\ gen \in 0..MaxRotations
  BY CAAssumption, EmptyList DEF Init
<1>3. TypeOK
  BY <1>2 DEF Init, TypeOK
<1>4. HandshakesOK
  BY DEF Init, HandshakesOK
<1> QED BY <1>1, <1>3, <1>4 DEF IndInv

\* So it holds in every reachable state.
LEMMA Invariance == Spec => []IndInv
BY InitInv, NextInv, PTL DEF Spec

\* However handshakes for a host overlap, whatever is evicted and whenever the CA
\* is rotated, list and index of certCache hold the same keys, each once, and no
\* more than the cache's size.
THEOREM CacheConsistent == Spec => [](TypeOK /\ OrderMatchesIndex)
<1>1. IndInv => OrderMatchesIndex
  <2> SUFFICES ASSUME IndInv PROVE OrderMatchesIndex
    OBVIOUS
  <2>1. order \in Seq(Entry) /\ DOMAIN order = 1..Len(order)
    BY DEF IndInv, TypeOK
  <2>2. Keys(order) = {e.key : e \in ToSet(order)}
    BY <2>1 DEF Keys, ToSet
  <2>3. Cardinality(index) = Len(order)
    BY <2>1, KeysCounted DEF IndInv, CacheOK
  <2> QED BY <2>2, <2>3 DEF IndInv, CacheOK, OrderMatchesIndex
<1> QED BY <1>1, Invariance, PTL DEF IndInv

\* No handshake is ever answered from the cache with a leaf at or past its renewal
\* time (certFor, leafFresh).
THEOREM NothingStaleServed == Spec => CachedServedFresh
<1>1. IndInv /\ [Next]_vars =>
        [\A w \in Workers : wpc[w] = "idle" /\ served'[w] \notin {None, served[w]}
            => served'[w].left > 0]_vars
  <2> SUFFICES ASSUME IndInv, [Next]_vars, NEW w \in Workers, wpc[w] = "idle",
                      served'[w] \notin {None, served[w]}
               PROVE  served'[w].left > 0
    OBVIOUS
  <2>1. ASSUME NEW v \in Workers, NEW sni, NEW target, certFor(v, sni, target)
        PROVE  served'[w].left > 0
    <3>1. v = w
      BY <2>1 DEF certFor, Serve, IndInv, TypeOK
    <3> QED BY <2>1, <3>1 DEF certFor, Serve, leafFresh, IndInv, TypeOK
  <2>2. ASSUME NEW v \in Workers, Handshake(v) PROVE FALSE
    BY <2>2 DEF Handshake, mint, CompareGen, CacheLeaf, Serve, IndInv, TypeOK
  <2>3. CASE Rotate \/ RotatePurge \/ Tick \/ UNCHANGED vars
    BY <2>3 DEF Rotate, RotatePurge, Tick, vars
  <2> QED BY <2>1, <2>2, <2>3 DEF Next
<1> QED BY <1>1, Invariance, PTL DEF Spec, CachedServedFresh

-----------------------------------------------------------------------------
(* Rotation.                                                               *)

\* Outside a rotation, what is cached and what is about to be cached is signed by the
\* current CA, but for the names of handshakes that the last one overtook.
Current ==
    \/ rotating
    \/ /\ Signed(order, gen, late)
       /\ \A w \in Workers : wpc[w] = "put" => wleaf[w].gen = gen \/ wname[w] \in late

\* Every step keeps it so.
LEMMA NextCurrent ==
    ASSUME IndInv, Current, [Next]_vars
    PROVE  Current'
<1> SUFFICES ASSUME ~rotating' PROVE Current'
  BY DEF Current
<1>1. CASE RotatePurge
  <2>1. \A w \in Workers : wpc'[w] = "put" => wleaf'[w].gen = gen' \/ wname'[w] \in late'
    BY <1>1 DEF RotatePurge
  <2>2. Signed(order', gen', late')
    BY <1>1, EmptyList DEF RotatePurge, purge, Signed
  <2> QED BY <2>1, <2>2 DEF Current, Signed
<1>2. CASE Rotate
  BY <1>2 DEF Rotate
<1>3. ASSUME ~RotatePurge, ~Rotate
      PROVE  ~rotating /\ late' = late /\ gen' = gen
  BY <1>3 DEF Next, Handshake, certFor, mint, CompareGen, CacheLeaf, Tick, vars
<1>4. ASSUME NEW w \in Workers, NEW sni \in Hosts \cup {None}, NEW target \in Hosts \cup {None},
             certFor(w, sni, target), ~RotatePurge, ~Rotate
      PROVE  Current'
  <2> DEFINE name == leafIdentity(sni, target)
  <2>1. get(name) /\ index' = index
    BY <1>4 DEF certFor
  <2> HIDE DEF name
  <2>2. Signed(order', gen, late)
    BY <1>3, <1>4, <2>1, GetKeeps DEF Current
  <2>3. \A v \in Workers : wpc'[v] = "put" => wpc[v] = "put" /\ wleaf'[v] = wleaf[v] /\ wname'[v] = wname[v]
    BY <1>4 DEF certFor, Serve, IndInv, TypeOK
  <2> QED BY <1>3, <1>4, <2>2, <2>3 DEF Current, Signed
<1>5. ASSUME NEW w \in Workers, mint(w) \/ CompareGen(w), ~RotatePurge, ~Rotate
      PROVE  Current'
  <2>1. order' = order
    BY <1>5 DEF mint, CompareGen
  <2>2. \A v \in Workers : wpc'[v] = "put" =>
           wleaf'[v] = wleaf[v] /\ wname'[v] = wname[v] /\ (wpc[v] = "put" \/ wleaf[v].gen = gen)
    BY <1>5 DEF mint, CompareGen, Serve, IndInv, TypeOK
  <2> QED BY <1>3, <1>5, <2>1, <2>2 DEF Current, Signed
<1>6. ASSUME NEW w \in Workers, CacheLeaf(w), ~RotatePurge, ~Rotate
      PROVE  Current'
  <2>1. wname[w] \in Names /\ wleaf[w] \in Leaf /\ wpc[w] = "put" /\ put(wname[w], wleaf[w])
    BY <1>6 DEF CacheLeaf, IndInv, HandshakesOK
  <2>2. wleaf[w].gen = gen \/ wname[w] \in late
    BY <1>3, <1>6, <2>1 DEF Current
  <2>3. Signed(order', gen, late)
    BY <1>3, <1>6, <2>1, <2>2, PutKeeps DEF Current
  <2>4. \A v \in Workers : wpc'[v] = "put" => wpc[v] = "put" /\ wleaf'[v] = wleaf[v] /\ wname'[v] = wname[v]
    BY <1>6 DEF CacheLeaf, Serve, IndInv, TypeOK
  <2> QED BY <1>3, <1>6, <2>3, <2>4 DEF Current, Signed
<1>7. ASSUME Tick, ~RotatePurge, ~Rotate
      PROVE  Current'
  <2>1. ASSUME NEW cert \in Leaf PROVE Aged(cert).gen = cert.gen
    <3>1. PICK g \in 0..MaxRotations, n \in 0..LeafTTL : cert = [gen |-> g, left |-> n]
      BY DEF Leaf
    <3> QED BY <3>1 DEF Aged
  <2>2. ASSUME NEW i \in 1..Len(order)
        PROVE  order'[i].leaf.gen = order[i].leaf.gen /\ order'[i].key = order[i].key
    <3>1. order[i] \in Entry /\ i \in DOMAIN order
      BY DEF IndInv, TypeOK
    <3>2. order'[i] = [order[i] EXCEPT !.leaf = Aged(@)]
      BY <1>7, <3>1 DEF Tick
    <3>3. order'[i].leaf = Aged(order[i].leaf) /\ order[i].leaf \in Leaf /\ order'[i].key = order[i].key
      BY <3>1, <3>2 DEF Entry
    <3> QED BY <2>1, <3>3
  <2>3. Len(order) \in Nat /\ DOMAIN order' = 1..Len(order) /\ order' = [i \in 1..Len(order) |-> order'[i]]
    BY <1>7 DEF Tick, IndInv, TypeOK
  <2>4. Len(order') = Len(order)
    BY <2>3
  <2>5. Signed(order', gen, late)
    BY <1>3, <1>7, <2>2, <2>4 DEF Current, Signed
  <2>6. \A w \in Workers : wpc'[w] = "put" => wpc[w] = "put" /\ wleaf'[w].gen = wleaf[w].gen /\ wname'[w] = wname[w]
    BY <1>7, <2>1 DEF Tick, IndInv, HandshakesOK
  <2> QED BY <1>3, <1>7, <2>5, <2>6 DEF Current, Signed
<1>8. CASE UNCHANGED vars
  BY <1>8 DEF vars, Current, Signed
<1> QED BY <1>1, <1>2, <1>4, <1>5, <1>6, <1>7, <1>8 DEF Next, Handshake

\* When Rotate returns, the cache has no leaf of a retired CA and gets none back,
\* however many handshakes were signing as the CA was swapped, but under the names of
\* those that store after the purge what they had compared before the swap.
THEOREM RotationsTakeEffect == Spec => []RotationTakesEffect
<1>1. Init => Current
  BY EmptyList DEF Init, Current, Signed
<1>2. IndInv /\ Current /\ [Next]_vars => Current'
  BY NextCurrent
<1>3. IndInv /\ Current => RotationTakesEffect
  <2> SUFFICES ASSUME IndInv, Signed(order, gen, late)
               PROVE  \A e \in ToSet(order) : e.leaf.gen = gen \/ e.key \in late
    BY DEF Current, RotationTakesEffect
  <2>1. DOMAIN order = 1..Len(order)
    BY DEF IndInv, TypeOK
  <2> QED BY <2>1 DEF ToSet, Signed
<1> QED BY <1>1, <1>2, <1>3, Invariance, PTL DEF Spec
===============================================================================
