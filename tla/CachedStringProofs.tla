------------------------- MODULE CachedStringProofs -------------------------
(***************************************************************************)
(* Proofs about CachedString, for any number of threads and labels, every  *)
(* hash function and every number of buckets: the maps stay paired however *)
(* insertions fail, push_map tells all entries, a number is announced      *)
(* once, a single user announces a number before it uses it, and a         *)
(* timeline owns exactly the memory of its features.                       *)
(***************************************************************************)
EXTENDS CachedString, FiniteSetTheorems, TLAPS

-----------------------------------------------------------------------------
(***************************************************************************)
(* The inductive invariant.                                                *)
(***************************************************************************)

Keys == Nat
BagOf(S) == [data : Seq(S), cap : Nat, block : Nat]
BucketSet(L) == [keys : BagOf(Keys), values : BagOf(L)]
EventSet == {"map", "again", "use"} \X Nat \X Labels

FeatureType ==
  /\ id \in [Features -> 0..MaxFeatures] /\ count \in Nat
  /\ slots \in [0..(MaxFeatures - 1) -> Features \cup {"none"}]
  /\ safe \in BOOLEAN

TypeOK ==
  /\ FeatureType
  /\ alive \in BOOLEAN /\ lock \in Threads \cup {Nobody}
  /\ static \in [Buckets -> BucketSet(Static)] /\ dynamic \in [Buckets -> BucketSet(Dynamic)]
  /\ pc \in [Threads -> {"idle", "insert", "event", "use", "map"}]
  /\ label \in [Threads -> Labels \cup {NoLabel}]
  /\ number \in [Threads -> Nat]
  /\ bucket \in 0..(Visited - 1) /\ place \in Nat \ {0} /\ from \in Nat
  /\ stream \in Seq(EventSet)
  /\ uses \in Nat /\ pushes \in Nat /\ fails \in Nat
  /\ users \subseteq Threads

\* A bucket, however the growth of its two bags has failed.
GoodBucket(b) ==
  /\ Len(b.keys.data) = Len(b.values.data)
  /\ \A j, k \in DOMAIN b.keys.data : b.keys.data[j] = b.keys.data[k] => j = k
  /\ Len(b.values.data) <= b.values.cap /\ b.values.cap >= 2
  /\ b.keys.cap = b.values.cap \/ b.keys.cap = 2 * b.values.cap
  /\ \A j \in DOMAIN b.keys.data : b.keys.data[j] = Hash[b.values.data[j]]

GoodMap(map) == \A i \in Buckets : GoodBucket(map[i])

MapsInv == GoodMap(static) /\ GoodMap(dynamic) /\ ~overrun

\* A key of the map, and the map of a label.
Found(map, h) ==
  \E p \in DOMAIN map[BucketOf(h)].keys.data : map[BucketOf(h)].keys.data[p] = h
MapOf(l) == IF l \in Static THEN static ELSE dynamic

\* Where the threads are, and who holds the lock.
Call(t) ==
  /\ lock = t <=> pc[t] = "map"
  /\ pc[t] # "idle" => t \in users /\ alive /\ GetFeature("cached")
  /\ pc[t] \in {"insert", "event"} => label[t] \in Labels /\ number[t] = Hash[label[t]]
  /\ pc[t] = "use" => label[t] \in Labels /\ number[t] \in {0, Hash[label[t]]}

CallInv == \A t \in Threads : Call(t)

\* What an event says.
EventInv ==
  \A n \in DOMAIN stream :
    IF IsMapping(stream[n]) THEN stream[n][2] = Hash[stream[n][3]]
    ELSE stream[n][2] \in {0, Hash[stream[n][3]]}

\* The mapping event of number h and a label of the kind of l is in the stream.
SameKind(l, k) == l \in Static <=> k \in Static
Announced(n, h, l) ==
  stream[n][1] = "map" /\ stream[n][2] = h /\ SameKind(stream[n][3], l)

\* A number that is announced, or about to be, is a key; no one else announces
\* it.
OnceInv ==
  /\ \A n \in DOMAIN stream : stream[n][1] = "map" => Found(MapOf(stream[n][3]), stream[n][2])
  /\ \A n, m \in DOMAIN stream :
       stream[m][1] = "map" /\ Announced(n, stream[m][2], stream[m][3]) => n = m
  /\ \A t \in Threads : pc[t] = "event" =>
       /\ Found(MapOf(label[t]), number[t])
       /\ \A n \in DOMAIN stream : ~Announced(n, number[t], label[t])
       /\ \A u \in Threads :
            pc[u] = "event" /\ number[u] = number[t] /\ SameKind(label[u], label[t]) => u = t

\* The running push_map has pushed the entries before its place.
CursorInv ==
  (\E t \in Threads : pc[t] = "map") =>
    /\ from <= Len(stream)
    /\ \A b \in 0..(Visited - 1) : \A p \in DOMAIN KeysAt(b) :
         b < bucket \/ (b = bucket /\ p < place) =>
           \E n \in (from + 1)..Len(stream) :
             stream[n] = <<"again", KeysAt(b)[p], BucketAt(b).values.data[p]>>

\* What holds for a single user that was never out of memory.
Mapped(h) == \E n \in DOMAIN stream : IsMapping(stream[n]) /\ stream[n][2] = h

OwnInv ==
  \A u \in Threads : users \subseteq {u} /\ fails = 0 =>
    /\ \A h \in Numbers : Found(static, h) \/ Found(dynamic, h) =>
         Mapped(h) \/ (pc[u] = "event" /\ number[u] = h)
    /\ pc[u] = "use" => Mapped(number[u])
    /\ MappingBeforeUse

\* The copies of a single user: those in the map, and the one it will insert.
CopyInv ==
  /\ IsFiniteSet(users) /\ IsFiniteSet(Entries(dynamic))
  /\ users = {} => copies = 0 /\ Entries(dynamic) = {} /\ stream = << >>
  /\ users # {} /\ alive => GetFeature("cached")
  /\ ~alive => \A t \in Threads : pc[t] = "idle"
  /\ \A u \in Threads : users = {u} /\ fails = 0 =>
       /\ pc[u] = "insert" /\ label[u] \in Dynamic => ~Found(dynamic, number[u])
       /\ IF ~alive THEN copies = 0
          ELSE copies = Cardinality(Entries(dynamic))
                          + (IF pc[u] = "insert" /\ label[u] \in Dynamic THEN 1 ELSE 0)

\* The slots of the features.
FeatureInv ==
  /\ id["cached"] = id["callstack"] => id["cached"] = Invalid
  /\ (\A f \in Features : id[f] = Invalid) => \A i \in DOMAIN slots : slots[i] = "none"
  /\ OwnsItsMemory

IInv ==
  /\ TypeOK /\ MapsInv /\ CallInv /\ EventInv /\ OnceInv /\ CursorInv /\ OwnInv
  /\ CopyInv /\ FeatureInv

-----------------------------------------------------------------------------
(***************************************************************************)
(* The hash map.                                                           *)
(***************************************************************************)

LEMMA SeqFacts ==
  ASSUME NEW S, NEW q \in Seq(S)
  PROVE  Len(q) \in Nat /\ DOMAIN q = 1..Len(q) /\ \A k \in 1..Len(q) : q[k] \in S
OBVIOUS

LEMMA CatFacts ==
  ASSUME NEW S, NEW q \in Seq(S), NEW r \in Seq(S)
  PROVE  /\ q \o r \in Seq(S) /\ Len(q \o r) = Len(q) + Len(r)
         /\ \A k \in 1..(Len(q) + Len(r)) :
              (q \o r)[k] = IF k <= Len(q) THEN q[k] ELSE r[k - Len(q)]
BY SMT

LEMMA SeqIsFunction ==
  ASSUME NEW S, NEW q \in Seq(S)
  PROVE  q = [k \in 1..Len(q) |-> q[k]]
OBVIOUS

LEMMA AppendFacts ==
  ASSUME NEW S, NEW q \in Seq(S), NEW x \in S
  PROVE  /\ Append(q, x) \in Seq(S) /\ Len(Append(q, x)) = Len(q) + 1
         /\ \A k \in 1..Len(q) : Append(q, x)[k] = q[k]
         /\ Append(q, x)[Len(q) + 1] = x
OBVIOUS

LEMMA AppendDomain ==
  ASSUME NEW S, NEW q \in Seq(S), NEW x \in S
  PROVE  /\ Len(q) \in Nat /\ DOMAIN q = 1..Len(q) /\ DOMAIN Append(q, x) = 1..(Len(q) + 1)
         /\ DOMAIN Append(q, x) = DOMAIN q \cup {Len(q) + 1} /\ Len(q) + 1 \notin DOMAIN q
         /\ \A k \in DOMAIN q : Append(q, x)[k] = q[k]
         /\ Append(q, x)[Len(q) + 1] = x
<1>1. Len(q) \in Nat /\ DOMAIN q = 1..Len(q) /\ DOMAIN Append(q, x) = 1..(Len(q) + 1)
  OBVIOUS
<1>2. 1..(Len(q) + 1) = 1..Len(q) \cup {Len(q) + 1} /\ Len(q) + 1 \notin 1..Len(q)
  BY <1>1
<1>3. (\A k \in 1..Len(q) : Append(q, x)[k] = q[k]) /\ Append(q, x)[Len(q) + 1] = x
  OBVIOUS
<1> QED
  BY <1>1, <1>2, <1>3, Zenon

LEMMA BucketOfIn ==
  ASSUME NEW key \in Keys
  PROVE  BucketOf(key) \in Buckets
BY CachedStringAssumption, SMT DEF BucketOf, Buckets, Keys

\* ht_hash_bucket_find_value finds the key, if it is there.
LEMMA FindFacts ==
  ASSUME NEW L, NEW b \in BucketSet(L), GoodBucket(b), NEW key
  PROVE  \/ /\ FindValue(b, key) = 0
            /\ \A j \in DOMAIN b.keys.data : b.keys.data[j] # key
         \/ /\ FindValue(b, key) \in DOMAIN b.keys.data
            /\ b.keys.data[FindValue(b, key)] = key
<1> DEFINE places == {j \in DOMAIN b.keys.data : b.keys.data[j] = key}
<1>1. CASE places = {}
  BY <1>1, Zenon DEF FindValue
<1>2. CASE places # {}
  <2>1. PICK p \in places : TRUE
    BY <1>2, Zenon
  <2>2. \A j \in places : p <= j
    <3>1. \A j \in places : j = p
      BY <2>1, Zenon DEF GoodBucket
    <3>2. b.keys.data \in Seq(Keys)
      BY SMT DEF BucketSet, BagOf
    <3>3. p \in Nat
      BY <2>1, <3>2, SMT
    <3> QED
      BY <3>1, <3>3, SMT
  <2>3. FindValue(b, key) = CHOOSE i \in places : \A j \in places : i <= j
    BY <1>2, Zenon DEF FindValue
  <2>4. FindValue(b, key) \in places
    BY <2>1, <2>2, <2>3, Zenon
  <2> QED
    BY <2>4, Zenon
<1> QED
  BY <1>1, <1>2, Zenon

LEMMA BagFields ==
  ASSUME NEW S, NEW b \in BagOf(S)
  PROVE  b.data \in Seq(S) /\ b.cap \in Nat /\ b.block \in Nat
BY SMT DEF BagOf

LEMMA BucketFields ==
  ASSUME NEW L, NEW b \in BucketSet(L)
  PROVE  b.keys \in BagOf(Keys) /\ b.values \in BagOf(L)
BY SMT DEF BucketSet

LEMMA SetData ==
  ASSUME NEW S, NEW b \in BagOf(S), NEW q \in Seq(S), NEW c, c = [b EXCEPT !.data = q]
  PROVE  c \in BagOf(S) /\ c.data = q /\ c.cap = b.cap
BY SMT DEF BagOf

LEMMA MakeBucket ==
  ASSUME NEW L, NEW k \in BagOf(Keys), NEW v \in BagOf(L), NEW c, c = [keys |-> k, values |-> v]
  PROVE  c \in BucketSet(L) /\ c.keys = k /\ c.values = v
BY SMT DEF BucketSet

\* ht_bag_add, when it succeeds.
LEMMA AddFacts ==
  ASSUME NEW S, NEW b \in BagOf(S), NEW x \in S, NEW ok \in BOOLEAN, BagAdds(b, ok)
  PROVE  /\ BagAdd(b, x, ok) \in BagOf(S) /\ BagAdd(b, x, ok).data = Append(b.data, x)
         /\ BagAdd(b, x, ok).cap = IF Len(b.data) < b.cap THEN b.cap ELSE b.cap * 2
<1> DEFINE q == Append(b.data, x)
           r == BagAdd(b, x, ok)
<1>1. b.data \in Seq(S) /\ b.cap * 2 \in Nat /\ q \in Seq(S)
  BY BagFields, SMT
<1>2. CASE Len(b.data) < b.cap
  <2>1. r = [b EXCEPT !.data = q]
    BY <1>2, Zenon DEF BagAdd
  <2> HIDE DEF q, r
  <2>2. r \in BagOf(S) /\ r.data = q /\ r.cap = b.cap
    BY <1>1, <2>1, SetData
  <2> QED
    BY <1>2, <2>2, Zenon DEF q, r
<1>3. CASE ~(Len(b.data) < b.cap)
  <2>1. ok
    BY <1>3, Zenon DEF BagAdds
  <2> DEFINE n == b.cap * 2
             c == [b EXCEPT !.cap = n, !.block = n]
  <2>2. r = [c EXCEPT !.data = Append(c.data, x)]
    BY <1>3, <2>1, Zenon DEF BagAdd, BagResize
  <2>3. n \in Nat
    BY <1>1, Zenon
  <2> HIDE DEF n
  <2>4. c \in BagOf(S) /\ c.data = b.data /\ c.cap = n
    BY <2>3, Zenon DEF BagOf
  <2> HIDE DEF c, q, r
  <2>5. r = [c EXCEPT !.data = q]
    BY <2>2, <2>4, Zenon DEF q
  <2>6. r \in BagOf(S) /\ r.data = q /\ r.cap = n
    BY <1>1, <2>4, <2>5, SetData
  <2> QED
    BY <1>3, <2>6, Zenon DEF n, q, r
<1> QED
  BY <1>2, <1>3, Zenon

\* The value of a key is replaced.
LEMMA BucketReplace ==
  ASSUME NEW L, L \subseteq Labels, NEW b \in BucketSet(L), GoodBucket(b),
         NEW l \in L, NEW i \in DOMAIN b.keys.data, b.keys.data[i] = Hash[l],
         NEW c, c = [b EXCEPT !.values.data[i] = l]
  PROVE  c \in BucketSet(L) /\ GoodBucket(c) /\ c.keys.data = b.keys.data
<1>1. /\ b.keys \in BagOf(Keys) /\ b.values \in BagOf(L)
      /\ b.keys.data \in Seq(Keys) /\ b.values.data \in Seq(L)
  BY BucketFields, BagFields, Zenon
<1>2. Len(b.keys.data) = Len(b.values.data)
  BY Zenon DEF GoodBucket
<1>3. DOMAIN b.keys.data = 1..Len(b.values.data) /\ DOMAIN b.values.data = 1..Len(b.values.data)
  BY <1>1, <1>2, SeqFacts, Zenon
<1> DEFINE d == [b.values.data EXCEPT ![i] = l]
           v == [b.values EXCEPT !.data = d]
<1>4. d \in Seq(L) /\ Len(d) = Len(b.values.data)
  BY <1>1, <1>3, SMT
<1>5. c = [b EXCEPT !.values = v]
  OBVIOUS
<1>6. \A j \in DOMAIN b.keys.data : b.keys.data[j] = Hash[d[j]]
  BY <1>1, <1>3, Zenon DEF GoodBucket
<1> HIDE DEF d
<1>7. v \in BagOf(L) /\ v.data = d /\ v.cap = b.values.cap
  BY <1>1, <1>4, SetData
<1> HIDE DEF v
<1>9. c \in BucketSet(L) /\ c.keys = b.keys /\ c.values = v
  BY <1>5, <1>7, Zenon DEF BucketSet
<1>10. GoodBucket(c)
  <2>1. Len(c.keys.data) = Len(c.values.data) /\ Len(c.values.data) <= c.values.cap
    BY <1>2, <1>4, <1>7, <1>9, Zenon DEF GoodBucket
  <2>2. /\ c.values.cap >= 2
        /\ c.keys.cap = c.values.cap \/ c.keys.cap = 2 * c.values.cap
    BY <1>7, <1>9, Zenon DEF GoodBucket
  <2>3. \A j, k \in DOMAIN c.keys.data : c.keys.data[j] = c.keys.data[k] => j = k
    BY <1>9, Zenon DEF GoodBucket
  <2>4. \A j \in DOMAIN c.keys.data : c.keys.data[j] = Hash[c.values.data[j]]
    BY <1>6, <1>7, <1>9, ZenonT(60)
  <2> QED
    BY <2>1, <2>2, <2>3, <2>4, Zenon DEF GoodBucket
<1> QED
  BY <1>9, <1>10, Zenon

LEMMA KeyFacts ==
  ASSUME NEW b \in BagOf(Keys), NEW x \in Keys, NEW ok \in BOOLEAN, BagAdds(b, ok),
         NEW r, r = BagAdd(b, x, ok)
  PROVE  /\ r \in BagOf(Keys) /\ r.data = Append(b.data, x)
         /\ r.cap = IF Len(b.data) < b.cap THEN b.cap ELSE b.cap * 2
BY AddFacts, ZenonT(60)

LEMMA ValueFacts ==
  ASSUME NEW S, NEW b \in BagOf(S), NEW x \in S, NEW ok \in BOOLEAN, BagAdds(b, ok),
         NEW r, r = BagAdd(b, x, ok)
  PROVE  /\ r \in BagOf(S) /\ r.data = Append(b.data, x)
         /\ r.cap = IF Len(b.data) < b.cap THEN b.cap ELSE b.cap * 2
BY AddFacts, ZenonT(60)

\* An entry is added.
LEMMA BucketAdd ==
  ASSUME NEW L, L \subseteq Labels, NEW b \in BucketSet(L), GoodBucket(b),
         NEW l \in L, NEW h \in Keys, h = Hash[l],
         \A j \in DOMAIN b.keys.data : b.keys.data[j] # h,
         NEW k \in BagOf(Keys), k.data = Append(b.keys.data, h),
         k.cap = IF Len(b.keys.data) < b.keys.cap THEN b.keys.cap ELSE b.keys.cap * 2,
         NEW v \in BagOf(L), v.data = Append(b.values.data, l),
         v.cap = IF Len(b.values.data) < b.values.cap THEN b.values.cap ELSE b.values.cap * 2,
         NEW c, c = [keys |-> k, values |-> v]
  PROVE  c \in BucketSet(L) /\ GoodBucket(c) /\ c.keys.data = Append(b.keys.data, h)
<1>1. /\ b.keys \in BagOf(Keys) /\ b.values \in BagOf(L)
      /\ b.keys.data \in Seq(Keys) /\ b.values.data \in Seq(L)
      /\ b.keys.cap \in Nat /\ b.values.cap \in Nat
  BY BucketFields, BagFields, Zenon
<1> DEFINE ks == Append(b.keys.data, h)
           vs == Append(b.values.data, l)
           n == Len(b.keys.data)
<1>3. /\ k \in BagOf(Keys) /\ k.data = ks
      /\ k.cap = IF n < b.keys.cap THEN b.keys.cap ELSE b.keys.cap * 2
  OBVIOUS
<1>4. /\ v \in BagOf(L) /\ v.data = vs
      /\ v.cap = IF Len(b.values.data) < b.values.cap THEN b.values.cap ELSE b.values.cap * 2
  OBVIOUS
<1>5. c \in BucketSet(L) /\ c.keys = k /\ c.values = v
  BY MakeBucket, SMTT(60)
<1>6. /\ ks \in Seq(Keys) /\ Len(ks) = n + 1
      /\ \A j \in 1..n : ks[j] = b.keys.data[j]
      /\ ks[n + 1] = h
  BY <1>1, AppendFacts, SMTT(60)
<1>7. /\ vs \in Seq(L) /\ Len(vs) = Len(b.values.data) + 1
      /\ \A j \in 1..Len(b.values.data) : vs[j] = b.values.data[j]
      /\ vs[Len(b.values.data) + 1] = l
  BY <1>1, AppendFacts
<1> HIDE DEF ks, vs
<1>8. Len(b.values.data) = n
  BY Zenon DEF GoodBucket
<1>9. /\ n \in Nat /\ DOMAIN b.keys.data = 1..n
      /\ DOMAIN ks = 1..(n + 1) /\ \A j \in 1..(n + 1) : j \in 1..n \/ j = n + 1
  <2>1. n \in Nat /\ DOMAIN b.keys.data = 1..n /\ DOMAIN ks = 1..(n + 1)
    BY <1>1, <1>6, SeqFacts, Zenon
  <2> HIDE DEF n
  <2> QED
    BY <2>1, SMT
<1>10. \A j \in DOMAIN ks : ks[j] = Hash[vs[j]]
  <2>1. \A j \in 1..n : b.keys.data[j] = Hash[b.values.data[j]]
    BY <1>9, Zenon DEF GoodBucket
  <2> QED
    BY <1>6, <1>7, <1>8, <1>9, <2>1, Zenon
<1>11. \A j, m \in DOMAIN ks : ks[j] = ks[m] => j = m
  <2>1. \A j, m \in 1..n : b.keys.data[j] = b.keys.data[m] => j = m
    BY <1>9, Zenon DEF GoodBucket
  <2> QED
    BY <1>6, <1>9, <2>1, ZenonT(60)
<1>12. n + 1 <= v.cap /\ v.cap >= 2 /\ (k.cap = v.cap \/ k.cap = 2 * v.cap)
  <2>1. /\ n <= b.values.cap /\ b.values.cap >= 2
        /\ b.keys.cap = b.values.cap \/ b.keys.cap = 2 * b.values.cap
    BY <1>8, Zenon DEF GoodBucket
  <2> HIDE DEF n
  <2> QED
    BY <1>1, <1>3, <1>4, <1>8, <1>9, <2>1, SMTT(60)
<1>13. GoodBucket(c)
  <2>1. Len(c.keys.data) = Len(c.values.data) /\ Len(c.values.data) = n + 1
    BY <1>3, <1>4, <1>5, <1>6, <1>7, <1>8, Zenon
  <2>2. /\ Len(c.values.data) <= c.values.cap /\ c.values.cap >= 2
        /\ c.keys.cap = c.values.cap \/ c.keys.cap = 2 * c.values.cap
    BY <1>5, <1>12, <2>1, Zenon
  <2>3. \A j, m \in DOMAIN c.keys.data : c.keys.data[j] = c.keys.data[m] => j = m
    BY <1>3, <1>5, <1>11, Zenon
  <2>4. \A j \in DOMAIN c.keys.data : c.keys.data[j] = Hash[c.values.data[j]]
    BY <1>3, <1>4, <1>5, <1>10, Zenon
  <2> QED
    BY <2>1, <2>2, <2>3, <2>4, Zenon DEF GoodBucket
<1> QED
  BY <1>3, <1>5, <1>13, Zenon DEF ks

\* A key whose value could not be stored is taken back.
LEMMA TakeBackFacts ==
  ASSUME NEW L, NEW b \in BucketSet(L), GoodBucket(b), NEW h \in Keys,
         ~(Len(b.values.data) < b.values.cap),
         NEW k \in BagOf(Keys), k.data = Append(b.keys.data, h),
         k.cap = IF Len(b.keys.data) < b.keys.cap THEN b.keys.cap ELSE b.keys.cap * 2
  PROVE  /\ TakeBack(k) \in BagOf(Keys) /\ TakeBack(k).data = b.keys.data
         /\ TakeBack(k).cap = 2 * b.values.cap
         /\ Len(k.data) + 1 <= k.cap
<1>1. /\ b.keys \in BagOf(Keys) /\ b.values \in BagOf(L)
      /\ b.keys.data \in Seq(Keys) /\ b.values.data \in Seq(L)
      /\ b.keys.cap \in Nat /\ b.values.cap \in Nat
  BY BucketFields, BagFields, Zenon
<1> DEFINE ks == Append(b.keys.data, h)
           n == Len(b.keys.data)
<1>3. /\ k \in BagOf(Keys) /\ k.data = ks
      /\ k.cap = IF n < b.keys.cap THEN b.keys.cap ELSE b.keys.cap * 2
  OBVIOUS
<1>4. /\ ks \in Seq(Keys) /\ Len(ks) = n + 1
      /\ \A j \in 1..n : ks[j] = b.keys.data[j]
  BY <1>1, AppendFacts
<1> HIDE DEF ks
<1>5. n \in Nat /\ DOMAIN b.keys.data = 1..n
  BY <1>1, SMT
<1>6. Len(b.values.data) = n
  BY Zenon DEF GoodBucket
<1>7. k.cap = 2 * b.values.cap /\ n + 2 <= k.cap /\ ~(n < k.cap \div 4)
  <2>1. /\ n <= b.values.cap /\ b.values.cap >= 2 /\ ~(n < b.values.cap)
        /\ b.keys.cap = b.values.cap \/ b.keys.cap = 2 * b.values.cap
    BY <1>6, Zenon DEF GoodBucket
  <2> HIDE DEF n
  <2> QED
    BY <1>1, <1>3, <1>5, <2>1, SMTT(60)
<1> DEFINE d == [i \in 1..(Len(k.data) - 1) |->
                   k.data[IF i = Len(k.data) + 1 THEN Len(k.data) ELSE i]]
           r == [k EXCEPT !.data = d]
<1>8. d = b.keys.data
  <2>1. Len(k.data) = n + 1
    BY <1>3, <1>4, Zenon
  <2>2. d = [i \in 1..n |-> b.keys.data[i]]
    BY <1>3, <1>4, <1>5, <2>1, SMTT(60)
  <2> HIDE DEF d
  <2> QED
    BY <1>1, <2>2, SeqIsFunction, Zenon
<1> HIDE DEF d
<1>9. r \in BagOf(Keys) /\ r.data = b.keys.data /\ r.cap = k.cap
  BY <1>1, <1>3, <1>8, SetData
<1>10. TakeBack(k) = r
  <2>1. ~(Len(r.data) < r.cap \div 4)
    BY <1>7, <1>9, Zenon
  <2> QED
    BY <2>1, Zenon DEF TakeBack, BagRemoveNth, d
<1> HIDE DEF r
<1>11. Len(k.data) + 1 <= k.cap
  BY <1>3, <1>4, <1>5, <1>7, SMTT(60)
<1> QED
  BY <1>7, <1>9, <1>10, <1>11, Zenon

LEMMA BucketKeep ==
  ASSUME NEW L, NEW b \in BucketSet(L), GoodBucket(b),
         NEW k \in BagOf(Keys), k.data = b.keys.data, k.cap = 2 * b.values.cap,
         NEW c, c = [b EXCEPT !.keys = k]
  PROVE  c \in BucketSet(L) /\ GoodBucket(c) /\ c.keys.data = b.keys.data
<1>1. /\ c \in BucketSet(L) /\ c.keys = k /\ c.values = b.values
      /\ c.keys.data = b.keys.data
  BY Zenon DEF BucketSet
<1>2. Len(c.keys.data) = Len(c.values.data) /\ Len(c.values.data) <= c.values.cap
  <2>1. Len(b.keys.data) = Len(b.values.data) /\ Len(b.values.data) <= b.values.cap
    BY Zenon DEF GoodBucket
  <2> QED
    BY <1>1, <2>1, Zenon
<1>3. c.values.cap >= 2 /\ c.keys.cap = 2 * c.values.cap
  BY <1>1, Zenon DEF GoodBucket
<1>4. \A j, m \in DOMAIN c.keys.data : c.keys.data[j] = c.keys.data[m] => j = m
  BY <1>1, ZenonT(60) DEF GoodBucket
<1>5. \A j \in DOMAIN c.keys.data : c.keys.data[j] = Hash[c.values.data[j]]
  BY <1>1, Zenon DEF GoodBucket
<1>6. GoodBucket(c)
  BY <1>2, <1>3, <1>4, <1>5, Zenon DEF GoodBucket
<1> QED
  BY <1>1, <1>6, Zenon

LEMMA MapUpdate ==
  ASSUME NEW L, NEW map \in [Buckets -> BucketSet(L)], GoodMap(map), NEW n \in Buckets,
         NEW c \in BucketSet(L), GoodBucket(c), NEW m, m = [map EXCEPT ![n] = c]
  PROVE  /\ m \in [Buckets -> BucketSet(L)] /\ GoodMap(m) /\ m[n] = c
         /\ \A i \in Buckets : i # n => m[i] = map[i]
BY Zenon DEF GoodMap

\* ht_hash_map_get_value returns NULL for the numbers that are no keys.
LEMMA GetFacts ==
  ASSUME NEW L, L \subseteq Labels, NEW map \in [Buckets -> BucketSet(L)], GoodMap(map),
         NEW h \in Keys
  PROVE  /\ Found(map, h) <=> GetValue(map, h) # NoLabel
         /\ \A l \in Labels : GetValue(map, h) = l =>
              \E p \in DOMAIN map[BucketOf(h)].keys.data :
                /\ map[BucketOf(h)].keys.data[p] = h
                /\ map[BucketOf(h)].values.data[p] = l
<1> DEFINE b == map[BucketOf(h)]
           i == FindValue(b, h)
<1>1. b \in BucketSet(L) /\ GoodBucket(b)
  BY BucketOfIn, Zenon DEF GoodMap
<1>2. /\ b.keys.data \in Seq(Keys) /\ b.values.data \in Seq(L)
      /\ Len(b.keys.data) = Len(b.values.data)
  BY <1>1, BucketFields, BagFields, Zenon DEF GoodBucket
<1>3. DOMAIN b.keys.data = 1..Len(b.values.data) /\ ~(0 \in DOMAIN b.keys.data)
  <2> HIDE DEF b
  <2> QED
    BY <1>2, SMT
<1>4. \A p \in DOMAIN b.keys.data : b.values.data[p] \in Labels
  BY <1>2, <1>3, SeqFacts, Zenon
<1>5. \/ i = 0 /\ \A j \in DOMAIN b.keys.data : b.keys.data[j] # h
      \/ i \in DOMAIN b.keys.data /\ b.keys.data[i] = h
  BY <1>1, FindFacts, Zenon
<1>6. GetValue(map, h) = IF i = 0 THEN NoLabel ELSE b.values.data[i]
  BY Zenon DEF GetValue
<1>7. NoLabel \notin Labels
  BY CachedStringAssumption, Zenon
<1>8. Found(map, h) <=> \E p \in DOMAIN b.keys.data : b.keys.data[p] = h
  BY Zenon DEF Found
<1> HIDE DEF b, i
<1>9. Found(map, h) <=> GetValue(map, h) # NoLabel
  BY <1>3, <1>4, <1>5, <1>6, <1>7, <1>8, ZenonT(60)
<1>10. ASSUME NEW l \in Labels, GetValue(map, h) = l
       PROVE  \E p \in DOMAIN b.keys.data : b.keys.data[p] = h /\ b.values.data[p] = l
  BY <1>5, <1>6, <1>7, <1>10, Zenon
<1> QED
  BY <1>9, <1>10, Zenon DEF b

\* What the insertion of key h leaves in the map.
LEMMA FoundSame ==
  ASSUME NEW map, NEW m, \A i \in Buckets : m[i].keys.data = map[i].keys.data
  PROVE  \A g \in Keys : Found(m, g) <=> Found(map, g)
BY BucketOfIn, Zenon DEF Found

LEMMA EntriesSame ==
  ASSUME NEW map, NEW m, \A i \in Buckets : m[i].keys.data = map[i].keys.data
  PROVE  Entries(m) = Entries(map)
BY Zenon DEF Entries

LEMMA EntriesMore ==
  ASSUME NEW map, NEW m, NEW n \in Buckets, NEW h \in Keys,
         map[n].keys.data \in Seq(Keys), \A i \in Buckets : i # n => m[i] = map[i],
         m[n].keys.data = Append(map[n].keys.data, h)
  PROVE  \E x : x \notin Entries(map) /\ Entries(m) = Entries(map) \cup {x}
<1> DEFINE q == map[n].keys.data
           x == <<n, Len(q) + 1>>
<1>1. q \in Seq(Keys)
  BY SMTT(60)
<1>2. DOMAIN Append(q, h) = DOMAIN q \cup {Len(q) + 1} /\ Len(q) + 1 \notin DOMAIN q
  <2> HIDE DEF q
  <2> QED
    BY <1>1, AppendDomain, SMTT(60)
<1>3. \A y : y \in Entries(map) <=> \E i \in Buckets : \E j \in DOMAIN map[i].keys.data : y = <<i, j>>
  BY SMTT(60) DEF Entries
<1>4. \A y : y \in Entries(m) <=> \E i \in Buckets : \E j \in DOMAIN m[i].keys.data : y = <<i, j>>
  BY SMTT(60) DEF Entries
<1>5. x \notin Entries(map)
  BY <1>2, <1>3, SMT
<1>6. \A y : y \in Entries(m) <=> y \in Entries(map) \/ y = x
  <2> DEFINE z == Len(q) + 1
  <2>1. DOMAIN m[n].keys.data = DOMAIN map[n].keys.data \cup {z}
    BY <1>2, Zenon
  <2> HIDE DEF z, q
  <2>2. ASSUME NEW y, y \in Entries(m)
        PROVE  y \in Entries(map) \/ y = <<n, z>>
    BY <1>3, <1>4, <2>1, <2>2, ZenonT(60)
  <2>3. ASSUME NEW y, y \in Entries(map) \/ y = <<n, z>>
        PROVE  y \in Entries(m)
    <3>1. \A i \in Buckets : \A j \in DOMAIN map[i].keys.data : j \in DOMAIN m[i].keys.data
      BY <2>1, Zenon
    <3>2. z \in DOMAIN m[n].keys.data
      BY <2>1, Zenon
    <3> QED
      BY <1>3, <1>4, <2>3, <3>1, <3>2, Zenon
  <2> QED
    BY <2>2, <2>3, Zenon DEF z
<1> QED
  BY <1>5, <1>6, ZenonT(60)

\* m is the map with key h added.
Grown(map, m, h) ==
  /\ map[BucketOf(h)].keys.data \in Seq(Keys)
  /\ \A i \in Buckets : i # BucketOf(h) => m[i] = map[i]
  /\ m[BucketOf(h)].keys.data = Append(map[BucketOf(h)].keys.data, h)

LEMMA MapMore ==
  ASSUME NEW map, NEW m, NEW h \in Keys, Grown(map, m, h)
  PROVE  /\ \E x : x \notin Entries(map) /\ Entries(m) = Entries(map) \cup {x}
         /\ \A g \in Keys : Found(m, g) <=> Found(map, g) \/ g = h
<1> DEFINE n == BucketOf(h)
<1>0. /\ n \in Buckets /\ map[n].keys.data \in Seq(Keys)
      /\ \A i \in Buckets : i # n => m[i] = map[i]
      /\ m[n].keys.data = Append(map[n].keys.data, h)
  BY BucketOfIn, ZenonT(60) DEF Grown
<1>1. \E x : x \notin Entries(map) /\ Entries(m) = Entries(map) \cup {x}
  BY <1>0, EntriesMore
<1>2. \A g \in Keys : Found(m, g) <=> Found(map, g) \/ g = h
  <2> SUFFICES ASSUME NEW g \in Keys PROVE Found(m, g) <=> Found(map, g) \/ g = h
    OBVIOUS
  <2>1. BucketOf(g) \in Buckets
    BY BucketOfIn, Zenon
  <2>2. CASE BucketOf(g) # n
    BY <1>0, <2>1, <2>2, Zenon DEF Found
  <2>3. CASE BucketOf(g) = n
    <3> DEFINE q == map[n].keys.data
    <3>1. /\ DOMAIN Append(q, h) = DOMAIN q \cup {Len(q) + 1}
          /\ \A k \in DOMAIN q : Append(q, h)[k] = q[k]
          /\ Append(q, h)[Len(q) + 1] = h
      <4>1. q \in Seq(Keys)
        BY <1>0, Zenon
      <4> HIDE DEF q
      <4> QED
        BY <4>1, AppendDomain
    <3>2. Found(map, g) <=> \E p \in DOMAIN q : q[p] = g
      BY <1>0, <2>3, Zenon DEF Found
    <3>3. Found(m, g) <=> \E p \in DOMAIN Append(q, h) : Append(q, h)[p] = g
      BY <1>0, <2>3, Zenon DEF Found
    <3> HIDE DEF q
    <3> QED
      BY <2>3, <3>1, <3>2, <3>3, Zenon
  <2> QED
    BY <2>2, <2>3, Zenon
<1> QED
  BY <1>1, <1>2, Zenon

\* The result of ht_hash_map_insert: key h is in the map afterwards, if ok.
Inserted(L, map, h, r) ==
  /\ r.map \in [Buckets -> BucketSet(L)] /\ GoodMap(r.map) /\ r.inside
  /\ r.ok \in BOOLEAN
  /\ \A g \in Keys : Found(r.map, g) <=> Found(map, g) \/ (r.ok /\ g = h)
  /\ IF r.ok /\ ~Found(map, h)
     THEN \E x : x \notin Entries(map) /\ Entries(r.map) = Entries(map) \cup {x}
     ELSE Entries(r.map) = Entries(map)

\* ht_hash_map_insert: it replaces the value of a key it finds; else it adds an
\* entry or leaves the map as it is, and writes nothing behind a block.
LEMMA InsertFacts ==
  ASSUME NEW L, L \subseteq Labels, NEW map \in [Buckets -> BucketSet(L)], GoodMap(map),
         NEW l \in L, NEW h \in Keys, h = Hash[l], NEW okKey \in BOOLEAN, NEW okValue \in BOOLEAN,
         NEW r, r = MapInsert(map, h, l, okKey, okValue)
  PROVE  Inserted(L, map, h, r)
<1> DEFINE n == BucketOf(h)
           b == map[n]
           i == FindValue(b, h)
           k == BagAdd(b.keys, h, okKey)
           v == BagAdd(b.values, l, okValue)
           Outcome ==
             /\ r.map \in [Buckets -> BucketSet(L)] /\ GoodMap(r.map) /\ r.inside
             /\ r.ok \in BOOLEAN
             /\ \A j \in Buckets : j # n => r.map[j] = map[j]
             /\ \/ r.ok /\ Found(map, h) /\ r.map[n].keys.data = map[n].keys.data
                \/ /\ r.ok /\ ~Found(map, h)
                   /\ r.map[n].keys.data = Append(map[n].keys.data, h)
                \/ ~r.ok /\ ~Found(map, h) /\ r.map[n].keys.data = map[n].keys.data
<1>1. n \in Buckets /\ b \in BucketSet(L) /\ GoodBucket(b)
  BY BucketOfIn, Zenon DEF GoodMap
<1>2. \/ i = 0 /\ \A j \in DOMAIN b.keys.data : b.keys.data[j] # h
      \/ i \in DOMAIN b.keys.data /\ b.keys.data[i] = h
  BY <1>1, FindFacts, ZenonT(60)
<1>3. b.keys \in BagOf(Keys) /\ b.values \in BagOf(L) /\ b.keys.data \in Seq(Keys)
  BY <1>1, BucketFields, BagFields, Zenon
<1>4. Found(map, h) <=> \E p \in DOMAIN b.keys.data : b.keys.data[p] = h
  BY Zenon DEF Found
<1>5. ~(0 \in DOMAIN b.keys.data)
  <2> HIDE DEF b
  <2> QED
    BY <1>3, SMT
<1>6. ASSUME i # 0 PROVE Outcome
  <2> DEFINE c == [b EXCEPT !.values.data[i] = l]
             m == [map EXCEPT ![n] = c]
  <2>1. r = [map |-> [map EXCEPT ![n].values.data[i] = l], ok |-> TRUE, inside |-> TRUE]
    BY <1>6, Zenon DEF MapInsert
  <2>2. [map EXCEPT ![n].values.data[i] = l] = m
    OBVIOUS
  <2>3. i \in DOMAIN b.keys.data /\ b.keys.data[i] = Hash[l]
    BY <1>2, <1>6, Zenon
  <2> HIDE DEF b, i
  <2>4. c \in BucketSet(L) /\ GoodBucket(c) /\ c.keys.data = b.keys.data
    BY <1>1, <2>3, BucketReplace, SMTT(60)
  <2> HIDE DEF c
  <2>5. /\ m \in [Buckets -> BucketSet(L)] /\ GoodMap(m) /\ m[n] = c
        /\ \A j \in Buckets : j # n => m[j] = map[j]
    BY <1>1, <2>4, MapUpdate, ZenonT(60)
  <2> HIDE DEF m
  <2>6. r.map = m /\ r.ok = TRUE /\ r.inside
    BY <2>1, <2>2, SMTT(60)
  <2>7. Found(map, h)
    BY <1>2, <1>4, <1>6, ZenonT(60)
  <2> QED
    BY <2>4, <2>5, <2>6, <2>7, ZenonT(60) DEF b
<1>7. ASSUME i = 0 /\ ~BagAdds(b.keys, okKey) PROVE Outcome
  <2>1. r = [map |-> map, ok |-> FALSE, inside |-> TRUE]
    BY <1>7, Zenon DEF MapInsert
  <2>2. r.map = map /\ r.ok = FALSE /\ r.inside
    BY <2>1, SMT
  <2>3. ~Found(map, h)
    BY <1>2, <1>4, <1>5, <1>7, ZenonT(60)
  <2> QED
    BY <2>2, <2>3, Zenon
<1>8. ASSUME i = 0, BagAdds(b.keys, okKey)
      PROVE  /\ k \in BagOf(Keys) /\ k.data = Append(b.keys.data, h)
             /\ k.cap = IF Len(b.keys.data) < b.keys.cap THEN b.keys.cap ELSE b.keys.cap * 2
             /\ ~Found(map, h) /\ \A j \in DOMAIN b.keys.data : b.keys.data[j] # h
  <2>1. ~Found(map, h) /\ \A j \in DOMAIN b.keys.data : b.keys.data[j] # h
    BY <1>2, <1>4, <1>5, <1>8, ZenonT(60)
  <2> HIDE DEF b, i
  <2> QED
    BY <1>3, <1>8, <2>1, KeyFacts, SMTT(60)
<1>9. ASSUME i = 0 /\ BagAdds(b.keys, okKey) /\ BagAdds(b.values, okValue) PROVE Outcome
  <2> DEFINE c == [keys |-> k, values |-> v]
             m == [map EXCEPT ![n] = c]
  <2>1. r = [map |-> m, ok |-> TRUE, inside |-> TRUE]
    BY <1>9, ZenonT(60) DEF MapInsert
  <2> HIDE DEF b, i
  <2>2. /\ v \in BagOf(L) /\ v.data = Append(b.values.data, l)
        /\ v.cap = IF Len(b.values.data) < b.values.cap THEN b.values.cap ELSE b.values.cap * 2
    BY <1>3, <1>9, ValueFacts, SMTT(60)
  <2> HIDE DEF k, v
  <2>3. c \in BucketSet(L) /\ GoodBucket(c) /\ c.keys.data = Append(b.keys.data, h)
    BY <1>1, <1>8, <1>9, <2>2, BucketAdd, SMTT(60)
  <2> HIDE DEF c
  <2>4. /\ m \in [Buckets -> BucketSet(L)] /\ GoodMap(m) /\ m[n] = c
        /\ \A j \in Buckets : j # n => m[j] = map[j]
    BY <1>1, <2>3, MapUpdate, Zenon
  <2> HIDE DEF m
  <2>5. r.map = m /\ r.ok = TRUE /\ r.inside
    BY <2>1, SMT
  <2> QED
    BY <1>8, <1>9, <2>3, <2>4, <2>5, ZenonT(60) DEF b
<1>10. ASSUME i = 0 /\ BagAdds(b.keys, okKey) /\ ~BagAdds(b.values, okValue) PROVE Outcome
  <2> DEFINE c == [b EXCEPT !.keys = TakeBack(k)]
             m == [map EXCEPT ![n] = c]
  <2>1. r = [map |-> [map EXCEPT ![n].keys = TakeBack(k)], ok |-> FALSE,
             inside |-> Len(k.data) + 1 <= k.cap]
    BY <1>10, Zenon DEF MapInsert
  <2>2. [map EXCEPT ![n].keys = TakeBack(k)] = m
    OBVIOUS
  <2> HIDE DEF b, i, k
  <2>3. ~(Len(b.values.data) < b.values.cap)
    BY <1>10, Zenon DEF BagAdds
  <2>4. /\ c \in BucketSet(L) /\ GoodBucket(c) /\ c.keys.data = b.keys.data
        /\ Len(k.data) + 1 <= k.cap
    <3>1. /\ k \in BagOf(Keys) /\ k.data = Append(b.keys.data, h)
          /\ k.cap = IF Len(b.keys.data) < b.keys.cap THEN b.keys.cap ELSE b.keys.cap * 2
      BY <1>8, <1>10, ZenonT(60)
    <3> DEFINE w == TakeBack(k)
    <3>2. /\ w \in BagOf(Keys) /\ w.data = b.keys.data /\ w.cap = 2 * b.values.cap
          /\ Len(k.data) + 1 <= k.cap
      BY <1>1, <2>3, <3>1, TakeBackFacts, SMTT(60)
    <3> HIDE DEF w
    <3>3. c = [b EXCEPT !.keys = w]
      BY DEF w
    <3> HIDE DEF c
    <3> QED
      BY <1>1, <3>2, <3>3, BucketKeep, SMTT(60)
  <2> HIDE DEF c
  <2>5. /\ m \in [Buckets -> BucketSet(L)] /\ GoodMap(m) /\ m[n] = c
        /\ \A j \in Buckets : j # n => m[j] = map[j]
    BY <1>1, <2>4, MapUpdate, ZenonT(60)
  <2> HIDE DEF m
  <2>6. r.map = m /\ r.ok = FALSE /\ r.inside
    <3>1. (Len(k.data) + 1 <= k.cap) = TRUE
      BY <2>4, Zenon
    <3>2. r = [map |-> m, ok |-> FALSE, inside |-> TRUE]
      BY <2>1, <2>2, <3>1, Zenon
    <3> QED
      BY <3>2, SMTT(60)
  <2> QED
    BY <1>8, <1>10, <2>4, <2>5, <2>6, Zenon DEF b
<1>11. Outcome
  <2> HIDE DEF Outcome
  <2> QED
    BY <1>6, <1>7, <1>9, <1>10, ZenonT(60)
<1> DEFINE m == r.map
           ok == r.ok
<1>12. map[n].keys.data \in Seq(Keys)
  BY <1>3, Zenon
<1> HIDE DEF n, b, i, k, v
<1>13. CASE ok /\ ~Found(map, h)
  <2>1. m[n].keys.data = Append(map[n].keys.data, h)
    BY <1>11, <1>13, Zenon
  <2>2. \A j \in Buckets : j # n => m[j] = map[j]
    BY <1>11, Zenon
  <2> HIDE DEF m
  <2>3. /\ \E x : x \notin Entries(map) /\ Entries(m) = Entries(map) \cup {x}
        /\ \A g \in Keys : Found(m, g) <=> Found(map, g) \/ g = h
    <3>1. Grown(map, m, h)
      BY <1>12, <2>1, <2>2, Zenon DEF n, Grown
    <3> QED
      BY <3>1, MapMore, Zenon
  <2> QED
    BY <1>11, <1>13, <2>3, Zenon DEF m, Inserted
<1>14. CASE ~(ok /\ ~Found(map, h))
  <2>1. \A j \in Buckets : m[j].keys.data = map[j].keys.data
    BY <1>11, <1>14, Zenon
  <2> HIDE DEF m
  <2>2. Entries(m) = Entries(map)
    BY <2>1, EntriesSame, ZenonT(60)
  <2>3. \A g \in Keys : Found(m, g) <=> Found(map, g)
    BY <2>1, FoundSame
  <2> QED
    BY <1>11, <1>14, <2>2, <2>3, ZenonT(60) DEF m, Inserted
<1> QED
  BY <1>13, <1>14, Zenon

LEMMA InsertSound ==
  ASSUME NEW L, L \subseteq Labels, NEW map \in [Buckets -> BucketSet(L)], GoodMap(map),
         NEW l \in L, NEW okKey \in BOOLEAN, NEW okValue \in BOOLEAN
  PROVE  Inserted(L, map, Hash[l], MapInsert(map, Hash[l], l, okKey, okValue))
<1>1. Hash[l] \in Keys
  BY CachedStringAssumption, SMT DEF Keys
<1>2. PICK h : h = Hash[l]
  OBVIOUS
<1>3. PICK r : r = MapInsert(map, h, l, okKey, okValue)
  OBVIOUS
<1>4. h \in Keys
  BY <1>1, <1>2, Zenon
<1>5. Inserted(L, map, h, r)
  BY <1>2, <1>3, <1>4, InsertFacts, SMTT(60)
<1> QED
  BY <1>2, <1>3, <1>5, Zenon

\* What the insertion of thread t does to the state; h and l are its number and
\* its label.
Insertion(t, h, l, ok) ==
  /\ static' \in [Buckets -> BucketSet(Static)] /\ dynamic' \in [Buckets -> BucketSet(Dynamic)]
  /\ GoodMap(static') /\ GoodMap(dynamic') /\ ~overrun'
  /\ fails' = IF ok THEN fails ELSE fails + 1
  /\ number' = [number EXCEPT ![t] = IF ok \/ l \in Dynamic THEN h ELSE 0]
  /\ pc' = [pc EXCEPT ![t] = IF ok /\ ~Found(MapOf(l), h) THEN "event" ELSE "use"]
  /\ \A g \in Keys : Found(static', g) <=> Found(static, g) \/ (ok /\ l \in Static /\ g = h)
  /\ \A g \in Keys : Found(dynamic', g) <=> Found(dynamic, g) \/ (ok /\ l \in Dynamic /\ g = h)
  /\ IF ok /\ l \in Dynamic /\ ~Found(dynamic, h)
     THEN \E x : x \notin Entries(dynamic) /\ Entries(dynamic') = Entries(dynamic) \cup {x}
     ELSE Entries(dynamic') = Entries(dynamic)
  /\ UNCHANGED <<featureVars, alive, lock, copies, label, visit, stream, uses, pushes, users>>

LEMMA InsertStep ==
  ASSUME TypeOK, MapsInv, CallInv, NEW t \in Threads, Insert(t)
  PROVE  /\ pc[t] = "insert" /\ lock = Nobody
         /\ label[t] \in Labels /\ number[t] = Hash[label[t]] /\ number[t] \in Keys
         /\ \E ok \in BOOLEAN : Insertion(t, number[t], label[t], ok)
<1>1. pc[t] = "insert" /\ lock = Nobody
  BY Zenon DEF Insert
<1>2. label[t] \in Labels /\ number[t] = Hash[label[t]]
  BY <1>1, Zenon DEF CallInv, Call
<1>3. number[t] \in Keys
  BY <1>2, CachedStringAssumption, SMT DEF Keys
<1>4. PICK okKey, okValue \in IF fails < MaxFails THEN BOOLEAN ELSE {TRUE} :
        LET l == label[t]
            map == IF l \in Static THEN static ELSE dynamic
            r == MapInsert(map, Hash[l], l, okKey, okValue)
        IN  /\ static' = IF l \in Static THEN r.map ELSE static
            /\ dynamic' = IF l \in Static THEN dynamic ELSE r.map
            /\ overrun' = (overrun \/ ~r.inside)
            /\ fails' = IF r.ok THEN fails ELSE fails + 1
            /\ number' = [number EXCEPT ![t] = IF r.ok \/ l \in Dynamic THEN @ ELSE 0]
            /\ pc' = [pc EXCEPT ![t] = IF r.ok THEN AfterInsert(GetValue(map, Hash[l])) ELSE "use"]
  BY Zenon DEF Insert
<1>0. okKey \in BOOLEAN /\ okValue \in BOOLEAN
  BY ZenonT(60)
<1> DEFINE l == label[t]
           h == number[t]
           map == MapOf(l)
           L == IF l \in Static THEN Static ELSE Dynamic
           r == MapInsert(map, h, l, okKey, okValue)
<1>5. /\ static' = IF l \in Static THEN r.map ELSE static
      /\ dynamic' = IF l \in Static THEN dynamic ELSE r.map
      /\ overrun' = (overrun \/ ~r.inside)
      /\ fails' = IF r.ok THEN fails ELSE fails + 1
      /\ number' = [number EXCEPT ![t] = IF r.ok \/ l \in Dynamic THEN h ELSE 0]
      /\ pc' = [pc EXCEPT ![t] = IF r.ok THEN AfterInsert(GetValue(map, h)) ELSE "use"]
  BY <1>2, <1>4, Zenon DEF MapOf
<1>6. /\ l \in L /\ L \subseteq Labels /\ map \in [Buckets -> BucketSet(L)] /\ GoodMap(map)
      /\ l \in Dynamic <=> l \notin Static
  BY <1>2, CachedStringAssumption, ZenonT(60) DEF Labels, TypeOK, MapsInv, MapOf
<1>7. Found(map, h) <=> GetValue(map, h) # NoLabel
  <2> HIDE DEF map, L, l, h
  <2> QED
    BY <1>3, <1>6, GetFacts, SMTT(60) DEF h
<1>8. Inserted(L, map, h, r)
  <2>1. r = MapInsert(map, Hash[l], l, okKey, okValue)
    BY <1>2, Zenon
  <2> HIDE DEF map, L, r, l
  <2> QED
    BY <1>0, <1>2, <1>6, <2>1, InsertSound, SMTT(60) DEF l
<1> DEFINE ok == r.ok
<1>9. /\ r.map \in [Buckets -> BucketSet(L)] /\ GoodMap(r.map) /\ r.inside
      /\ ok \in BOOLEAN
      /\ \A g \in Keys : Found(r.map, g) <=> Found(map, g) \/ (ok /\ g = h)
      /\ IF ok /\ ~Found(map, h)
         THEN \E x : x \notin Entries(map) /\ Entries(r.map) = Entries(map) \cup {x}
         ELSE Entries(r.map) = Entries(map)
  BY <1>8, Zenon DEF Inserted
<1>10. pc' = [pc EXCEPT ![t] = IF ok /\ ~Found(map, h) THEN "event" ELSE "use"]
  BY <1>5, <1>7, Zenon DEF AfterInsert
<1>11. UNCHANGED <<featureVars, alive, lock, copies, label, visit, stream, uses, pushes, users>>
  BY Zenon DEF Insert
<1>12. ~overrun'
  BY <1>5, <1>9, ZenonT(60) DEF MapsInv
<1> HIDE DEF r, h
<1>13. CASE l \in Static
  <2>1. static' = r.map /\ dynamic' = dynamic /\ map = static /\ L = Static /\ l \notin Dynamic
    BY <1>5, <1>6, <1>13, ZenonT(60) DEF MapOf
  <2> HIDE DEF l, map, L, ok
  <2>2. /\ static' \in [Buckets -> BucketSet(Static)] /\ dynamic' \in [Buckets -> BucketSet(Dynamic)]
        /\ GoodMap(static') /\ GoodMap(dynamic')
    BY <1>9, <2>1, Zenon DEF TypeOK, MapsInv
  <2>3. \A g \in Keys : Found(static', g) <=> Found(static, g) \/ (ok /\ l \in Static /\ g = h)
    BY <1>9, <1>13, <2>1, ZenonT(60)
  <2>4. \A g \in Keys : Found(dynamic', g) <=> Found(dynamic, g) \/ (ok /\ l \in Dynamic /\ g = h)
    BY <1>9, <1>13, <2>1, ZenonT(60)
  <2>5. IF ok /\ l \in Dynamic /\ ~Found(dynamic, h)
        THEN \E x : x \notin Entries(dynamic) /\ Entries(dynamic') = Entries(dynamic) \cup {x}
        ELSE Entries(dynamic') = Entries(dynamic)
    BY <1>9, <1>13, <2>1, ZenonT(60)
  <2>6. /\ fails' = IF ok THEN fails ELSE fails + 1
        /\ number' = [number EXCEPT ![t] = IF ok \/ l \in Dynamic THEN h ELSE 0]
        /\ pc' = [pc EXCEPT ![t] = IF ok /\ ~Found(MapOf(l), h) THEN "event" ELSE "use"]
    BY <1>5, <1>10, Zenon DEF ok, map
  <2>7. Insertion(t, h, l, ok)
    BY <1>11, <1>12, <2>2, <2>3, <2>4, <2>5, <2>6, ZenonT(60) DEF Insertion
  <2>8. \E x \in BOOLEAN : Insertion(t, h, l, x)
    BY <1>9, <2>7, ZenonT(60)
  <2> QED
    BY <1>1, <1>2, <1>3, <2>8, ZenonT(60) DEF h, l
<1>14. CASE l \notin Static
  <2>1. static' = static /\ dynamic' = r.map /\ map = dynamic /\ L = Dynamic /\ l \in Dynamic
    BY <1>5, <1>6, <1>14, Zenon DEF MapOf
  <2> HIDE DEF l, map, L, ok
  <2>2. /\ static' \in [Buckets -> BucketSet(Static)] /\ dynamic' \in [Buckets -> BucketSet(Dynamic)]
        /\ GoodMap(static') /\ GoodMap(dynamic')
    BY <1>9, <2>1, Zenon DEF TypeOK, MapsInv
  <2>3. \A g \in Keys : Found(static', g) <=> Found(static, g) \/ (ok /\ l \in Static /\ g = h)
    BY <1>9, <1>14, <2>1, ZenonT(60)
  <2>4. \A g \in Keys : Found(dynamic', g) <=> Found(dynamic, g) \/ (ok /\ l \in Dynamic /\ g = h)
    BY <1>9, <1>14, <2>1, ZenonT(60)
  <2>5. IF ok /\ l \in Dynamic /\ ~Found(dynamic, h)
        THEN \E x : x \notin Entries(dynamic) /\ Entries(dynamic') = Entries(dynamic) \cup {x}
        ELSE Entries(dynamic') = Entries(dynamic)
    BY <1>9, <1>14, <2>1, ZenonT(60)
  <2>6. /\ fails' = IF ok THEN fails ELSE fails + 1
        /\ number' = [number EXCEPT ![t] = IF ok \/ l \in Dynamic THEN h ELSE 0]
        /\ pc' = [pc EXCEPT ![t] = IF ok /\ ~Found(MapOf(l), h) THEN "event" ELSE "use"]
    BY <1>5, <1>10, Zenon DEF ok, map
  <2>7. Insertion(t, h, l, ok)
    BY <1>11, <1>12, <2>2, <2>3, <2>4, <2>5, <2>6, Zenon DEF Insertion
  <2>8. \E x \in BOOLEAN : Insertion(t, h, l, x)
    BY <1>9, <2>7, Zenon
  <2> QED
    BY <1>1, <1>2, <1>3, <2>8, Zenon DEF h, l
<1> QED
  BY <1>13, <1>14, Zenon

-----------------------------------------------------------------------------
(***************************************************************************)
(* Each step keeps the invariant.                                          *)
(***************************************************************************)

\* A call of one of the two functions begins.
Begins(t, l) ==
  /\ alive /\ pc[t] = "idle" /\ GetFeature("cached") /\ l \in Labels
  /\ \E next \in {"insert", "use"} :
       /\ pc' = [pc EXCEPT ![t] = next]
       /\ next = "use" => l \in Dynamic /\ GetValue(dynamic, Hash[l]) # NoLabel
       /\ IF next = "insert" /\ l \in Dynamic
          THEN GetValue(dynamic, Hash[l]) = NoLabel /\ copies' = copies + 1
          ELSE copies' = copies
  /\ uses' = uses + 1
  /\ users' = users \cup {t}
  /\ label' = [label EXCEPT ![t] = l]
  /\ number' = [number EXCEPT ![t] = Hash[l]]
  /\ UNCHANGED <<featureVars, alive, lock, maps, visit, stream, pushes, fails>>

LEMMA AddBegins ==
  ASSUME NEW t \in Threads, NEW l,
         (l \in Static /\ AddMapping(t, l)) \/ (l \in Dynamic /\ AddMappingDynamic(t, l))
  PROVE  Begins(t, l)
<1>1. CASE l \in Static /\ AddMapping(t, l)
  <2>1. l \notin Dynamic
    BY <1>1, CachedStringAssumption, Zenon
  <2> QED
    BY <1>1, <2>1, Zenon DEF Begins, AddMapping, Begin, MayUse, Labels
<1>2. CASE l \in Dynamic /\ AddMappingDynamic(t, l)
  <2>1. CASE GetValue(dynamic, Hash[l]) = NoLabel
    BY <1>2, <2>1, Zenon DEF Begins, AddMappingDynamic, Begin, MayUse, Labels
  <2>2. CASE GetValue(dynamic, Hash[l]) # NoLabel
    BY <1>2, <2>2, ZenonT(60) DEF Begins, AddMappingDynamic, Begin, MayUse, Labels
  <2> QED
    BY <2>1, <2>2, Zenon
<1> QED
  BY <1>1, <1>2, Zenon

\* The steps a proof goes through.
LEMMA NextCases ==
  ASSUME [Next]_vars
  PROVE  \/ Setup \/ Destroy \/ UNCHANGED vars
         \/ \E t \in Threads :
              \/ Insert(t) \/ Announce(t) \/ Use(t) \/ PushMap(t) \/ PushEntry(t) \/ PushMapDone(t)
              \/ \E l \in Labels : Begins(t, l)
<1>1. \A t \in Threads : \A l \in Static : AddMapping(t, l) => Begins(t, l) /\ l \in Labels
  BY AddBegins, Zenon DEF Labels
<1>2. \A t \in Threads : \A l \in Dynamic : AddMappingDynamic(t, l) => Begins(t, l) /\ l \in Labels
  BY AddBegins, Zenon DEF Labels
<1> QED
  BY <1>1, <1>2, Zenon DEF Next, Work

LEMMA FeatureTypeStep == FeatureType /\ Setup => FeatureType'
<1> SUFFICES ASSUME FeatureType, Setup PROVE FeatureType'
  OBVIOUS
<1>1. CASE RegisterCoreFeatures
  <2> DEFINE Id(i) == IF i < MaxFeatures THEN i ELSE Invalid
  <2>1. /\ id' = [f \in Features |-> IF f = "cached" THEN Id(count) ELSE Id(count + 1)]
        /\ count' = IF count + 2 < MaxFeatures THEN count + 2 ELSE MaxFeatures
        /\ UNCHANGED <<slots, safe, heap>>
    BY <1>1, ZenonT(60) DEF RegisterCoreFeatures
  <2>2. Id(count) \in 0..MaxFeatures /\ Id(count + 1) \in 0..MaxFeatures /\ count' \in Nat
    BY <2>1, FeatureAssumption, SMTT(60) DEF FeatureType, Invalid
  <2> HIDE DEF Id
  <2> QED
    BY <2>1, <2>2, Zenon DEF FeatureType
<1>2. ASSUME NEW f \in Features, NEW ts \in BOOLEAN, EnableFails(f, ts)
      PROVE  FeatureType'
  BY <1>2, Zenon DEF EnableFails, FeatureType
<1>3. ASSUME NEW f \in Features, NEW ts \in BOOLEAN, Enable(f, ts)
      PROVE  FeatureType'
  <2>1. CASE id[f] # Invalid /\ slots[id[f]] = "none"
    <3>1. /\ slots' = [slots EXCEPT ![id[f]] = f]
          /\ safe' = IF f = "cached" THEN ts ELSE safe
          /\ UNCHANGED <<id, count>>
      BY <1>3, <2>1, ZenonT(60) DEF Enable
    <3> QED
      BY <1>3, <3>1, Zenon DEF FeatureType
  <2>2. CASE ~(id[f] # Invalid /\ slots[id[f]] = "none")
    BY <1>3, <2>2, Zenon DEF Enable, FeatureType
  <2> QED
    BY <2>1, <2>2, Zenon
<1> QED
  BY <1>1, <1>2, <1>3, Zenon DEF Setup

\* The entries of both maps.
LEMMA EntryFacts ==
  ASSUME TypeOK, MapsInv, NEW b \in 0..(Visited - 1)
  PROVE  /\ KeysAt(b) \in Seq(Keys)
         /\ \A p \in DOMAIN KeysAt(b) :
              /\ BucketAt(b).values.data[p] \in Labels
              /\ KeysAt(b)[p] = Hash[BucketAt(b).values.data[p]] /\ KeysAt(b)[p] \in Keys
<1>1. b < BucketCount => b \in Buckets
  BY CachedStringAssumption, SMTT(60) DEF Buckets
<1>2. ~(b < BucketCount) => b - BucketCount \in Buckets
  BY CachedStringAssumption, SMT DEF Buckets, Visited
<1>3. PICK L : L \subseteq Labels /\ BucketAt(b) \in BucketSet(L) /\ GoodBucket(BucketAt(b))
  <2>1. CASE b < BucketCount
    BY <1>1, <2>1, Zenon DEF BucketAt, TypeOK, MapsInv, GoodMap, Labels
  <2>2. CASE ~(b < BucketCount)
    BY <1>2, <2>2, Zenon DEF BucketAt, TypeOK, MapsInv, GoodMap, Labels
  <2> QED
    BY <2>1, <2>2, Zenon
<1> DEFINE c == BucketAt(b)
<1>4. /\ c.keys.data \in Seq(Keys) /\ c.values.data \in Seq(L)
      /\ Len(c.keys.data) = Len(c.values.data)
  BY <1>3, BucketFields, BagFields, Zenon DEF GoodBucket
<1>5. DOMAIN c.keys.data = DOMAIN c.values.data
  BY <1>4, SeqFacts, Zenon
<1>6. \A p \in DOMAIN c.keys.data : c.values.data[p] \in Labels /\ c.keys.data[p] \in Keys
  BY <1>3, <1>4, <1>5, SeqFacts, Zenon
<1>7. \A p \in DOMAIN c.keys.data : c.keys.data[p] = Hash[c.values.data[p]]
  BY <1>3, Zenon DEF GoodBucket
<1> QED
  BY <1>4, <1>6, <1>7, ZenonT(60) DEF KeysAt

\* push_map pushes entry p of bucket b, the next one.
Visits(b, p) ==
  /\ b \in 0..(Visited - 1) /\ p \in DOMAIN KeysAt(b)
  /\ \/ b = bucket /\ p = place
     \/ b > bucket /\ p = 1 /\ Passes(b)
  /\ stream' = Append(stream, <<"again", KeysAt(b)[p], BucketAt(b).values.data[p]>>)
  /\ bucket' = b /\ place' = p + 1

LEMMA EntryVisited ==
  ASSUME TypeOK, MapsInv, NEW t \in Threads, PushEntry(t)
  PROVE  \E b, p : Visits(b, p)
<1>1. bucket \in 0..(Visited - 1) /\ place \in Nat \ {0} /\ Visited \in Nat
  BY CachedStringAssumption, SMT DEF TypeOK, Visited
<1>2. CASE place <= Len(KeysAt(bucket)) /\ PushAgain(bucket, place)
  <2>1. KeysAt(bucket) \in Seq(Keys)
    BY <1>1, EntryFacts, Zenon
  <2>2. place \in DOMAIN KeysAt(bucket)
    <3> DEFINE q == KeysAt(bucket)
    <3>1. DOMAIN q = 1..Len(q) /\ Len(q) \in Nat
      BY <2>1, SeqFacts, Zenon
    <3>2. place <= Len(q)
      BY <1>2, Zenon
    <3> HIDE DEF q
    <3>3. place \in 1..Len(q)
      BY <1>1, <3>1, <3>2, SMTT(60)
    <3> QED
      BY <3>1, <3>3, Zenon DEF q
  <2>3. Visits(bucket, place)
    BY <1>1, <1>2, <2>2, Zenon DEF Visits, PushAgain, PushEvent
  <2> QED
    BY <2>3, Zenon
<1>3. CASE \E b \in (bucket + 1)..(Visited - 1) : Passes(b) /\ KeysAt(b) # << >> /\ PushAgain(b, 1)
  <2>1. PICK b \in (bucket + 1)..(Visited - 1) : Passes(b) /\ KeysAt(b) # << >> /\ PushAgain(b, 1)
    BY <1>3, Zenon
  <2>2. b \in 0..(Visited - 1) /\ b > bucket
    BY <1>1, <2>1, SMT
  <2>3. KeysAt(b) \in Seq(Keys)
    BY <2>2, EntryFacts, Zenon
  <2>4. 1 \in DOMAIN KeysAt(b)
    <3> DEFINE q == KeysAt(b)
    <3>1. q \in Seq(Keys) /\ q # << >>
      BY <2>1, <2>3, Zenon
    <3> HIDE DEF q
    <3>2. 1 \in DOMAIN q
      BY <3>1, SMT
    <3> QED
      BY <3>2, Zenon DEF q
  <2>5. Visits(b, 1)
    BY <2>1, <2>2, <2>4, Zenon DEF Visits, PushAgain, PushEvent
  <2> QED
    BY <2>5, Zenon
<1> QED
  BY <1>2, <1>3, ZenonT(60) DEF PushEntry

\* Types of what the calls and the timeline change.
LEMMA CallTypes ==
  ASSUME TypeOK
  PROVE  /\ pc \in [Threads -> {"idle", "insert", "event", "use", "map"}]
         /\ label \in [Threads -> Labels \cup {NoLabel}]
         /\ number \in [Threads -> Nat]
BY Zenon DEF TypeOK

LEMMA StreamType ==
  ASSUME TypeOK
  PROVE  stream \in Seq(EventSet)
BY Zenon DEF TypeOK

LEMMA EventAppended ==
  ASSUME stream \in Seq(EventSet), NEW k \in {"map", "again", "use"}, NEW h \in Nat, NEW l \in Labels,
         stream' = Append(stream, <<k, h, l>>)
  PROVE  /\ stream' \in Seq(EventSet) /\ Len(stream) \in Nat
         /\ DOMAIN stream' = DOMAIN stream \cup {Len(stream) + 1}
         /\ Len(stream) + 1 \notin DOMAIN stream /\ DOMAIN stream = 1..Len(stream)
         /\ Len(stream') = Len(stream) + 1
         /\ \A n \in DOMAIN stream : stream'[n] = stream[n]
         /\ stream'[Len(stream) + 1] = <<k, h, l>>
<1>1. <<k, h, l>> \in EventSet
  BY SMT DEF EventSet
<1> HIDE DEF EventSet
<1>2. PICK x \in EventSet : x = <<k, h, l>>
  BY <1>1, Zenon
<1>3. Append(stream, x) \in Seq(EventSet) /\ Len(Append(stream, x)) = Len(stream) + 1
  BY AppendFacts
<1>4. /\ Len(stream) \in Nat /\ DOMAIN stream = 1..Len(stream)
      /\ DOMAIN Append(stream, x) = DOMAIN stream \cup {Len(stream) + 1}
      /\ Len(stream) + 1 \notin DOMAIN stream
      /\ \A n \in DOMAIN stream : Append(stream, x)[n] = stream[n]
      /\ Append(stream, x)[Len(stream) + 1] = x
  BY AppendDomain
<1> QED
  BY <1>2, <1>3, <1>4, ZenonT(60)

LEMMA TypeStep == TypeOK /\ MapsInv /\ CallInv /\ [Next]_vars => TypeOK' /\ MapsInv'
<1> SUFFICES ASSUME TypeOK, MapsInv, CallInv, [Next]_vars PROVE TypeOK' /\ MapsInv'
  OBVIOUS
<1>1. CASE Setup
  BY <1>1, FeatureTypeStep, Zenon DEF Setup, maps, visit, counters, TypeOK, MapsInv
<1>2. CASE Destroy
  <2>1. FeatureType'
    BY <1>2, Zenon DEF Destroy, DestroyFeatures, TypeOK, FeatureType
  <2> QED
    BY <1>2, <2>1, Zenon DEF Destroy, maps, visit, counters, TypeOK, MapsInv
<1>3. CASE UNCHANGED vars
  BY <1>3, Zenon DEF vars, featureVars, maps, visit, counters, TypeOK, FeatureType, MapsInv
<1>4. ASSUME NEW t \in Threads, Insert(t)
      PROVE  TypeOK' /\ MapsInv'
  <2>1. PICK ok \in BOOLEAN : Insertion(t, number[t], label[t], ok)
    BY <1>4, InsertStep, Zenon
  <2>2. fails' \in Nat /\ number' \in [Threads -> Nat]
    <3>1. fails + 1 \in Nat /\ 0 \in Nat
      BY SMT DEF TypeOK
    <3> QED
      BY <2>1, <3>1, Zenon DEF Insertion, TypeOK
  <2>3. pc' \in [Threads -> {"idle", "insert", "event", "use", "map"}]
    BY <2>1, Zenon DEF Insertion, TypeOK
  <2> QED
    BY <2>1, <2>2, <2>3, ZenonT(60) DEF Insertion, featureVars, visit, TypeOK, FeatureType, MapsInv
<1>5. ASSUME NEW t \in Threads, Announce(t)
      PROVE  TypeOK' /\ MapsInv'
  <2>1. stream' \in Seq(EventSet)
    <3>1. number[t] \in Nat /\ label[t] \in Labels
      BY <1>5, Zenon DEF Announce, CallInv, Call, TypeOK
    <3> QED
      BY <1>5, <3>1, EventAppended, ZenonT(60) DEF Announce, PushEvent, TypeOK
  <2> QED
    BY <1>5, <2>1, Zenon DEF Announce, featureVars, maps, visit, counters, TypeOK, FeatureType, MapsInv
<1>6. ASSUME NEW t \in Threads, Use(t)
      PROVE  TypeOK' /\ MapsInv'
  <2>1. stream' \in Seq(EventSet)
    <3>1. number[t] \in Nat /\ label[t] \in Labels
      BY <1>6, Zenon DEF Use, CallInv, Call, TypeOK
    <3> QED
      BY <1>6, <3>1, EventAppended, ZenonT(60) DEF Use, PushEvent, TypeOK
  <2>2. 0 \in Nat
    OBVIOUS
  <2> QED
    BY <1>6, <2>1, <2>2, ZenonT(60) DEF Use, featureVars, maps, visit, counters, TypeOK, FeatureType, MapsInv
<1>7. ASSUME NEW t \in Threads, PushMap(t)
      PROVE  TypeOK' /\ MapsInv'
  <2>1. 0 \in 0..(Visited - 1) /\ 1 \in Nat \ {0} /\ pushes + 1 \in Nat /\ Len(stream) \in Nat
    BY CachedStringAssumption, SMTT(60) DEF TypeOK, Visited
  <2> QED
    BY <1>7, <2>1, ZenonT(60) DEF PushMap, featureVars, maps, TypeOK, FeatureType, MapsInv
<1>8. ASSUME NEW t \in Threads, PushEntry(t)
      PROVE  TypeOK' /\ MapsInv'
  <2>1. PICK b, p : Visits(b, p)
    BY <1>8, EntryVisited, Zenon
  <2>2. KeysAt(b)[p] \in Nat /\ BucketAt(b).values.data[p] \in Labels /\ KeysAt(b) \in Seq(Keys)
    BY <2>1, EntryFacts, ZenonT(60) DEF Visits, Keys
  <2>3. stream' \in Seq(EventSet)
    BY <2>1, <2>2, EventAppended, ZenonT(60) DEF Visits, TypeOK
  <2>4. p \in Nat
    <3>1. p \in 1..Len(KeysAt(b))
      BY <2>1, <2>2, SeqFacts, ZenonT(60) DEF Visits
    <3> QED
      BY <3>1, SMTT(60)
  <2>5. place' \in Nat \ {0}
    BY <2>1, <2>4, SMTT(60) DEF Visits
  <2> QED
    BY <1>8, <2>1, <2>3, <2>5, ZenonT(60) DEF PushEntry, Visits, featureVars, maps, counters, TypeOK,
       FeatureType, MapsInv
<1>9. ASSUME NEW t \in Threads, PushMapDone(t)
      PROVE  TypeOK' /\ MapsInv'
  <2>1. 0 \in 0..(Visited - 1) /\ 1 \in Nat \ {0} /\ 0 \in Nat
    BY CachedStringAssumption, SMTT(60) DEF Visited
  <2> QED
    BY <1>9, <2>1, ZenonT(60) DEF PushMapDone, featureVars, maps, counters, TypeOK, FeatureType, MapsInv
<1>10. ASSUME NEW t \in Threads, NEW l \in Labels, Begins(t, l)
       PROVE  TypeOK' /\ MapsInv'
  <2>1. uses + 1 \in Nat /\ Hash[l] \in Nat
    BY CachedStringAssumption, SMTT(60) DEF TypeOK
  <2>2. pc' \in [Threads -> {"idle", "insert", "event", "use", "map"}]
    BY <1>10, Zenon DEF Begins, TypeOK
  <2> QED
    BY <1>10, <2>1, <2>2, ZenonT(60) DEF Begins, featureVars, maps, visit, TypeOK, FeatureType, MapsInv
<1> QED
  BY <1>1, <1>2, <1>3, <1>4, <1>5, <1>6, <1>7, <1>8, <1>9, <1>10, NextCases, ZenonT(60)

LEMMA SameFeature ==
  ASSUME UNCHANGED featureVars
  PROVE  GetFeature("cached")' <=> GetFeature("cached")
BY Zenon DEF featureVars, GetFeature, Invalid

LEMMA CallStep == TypeOK /\ MapsInv /\ CallInv /\ [Next]_vars => CallInv'
<1> SUFFICES ASSUME TypeOK, MapsInv, CallInv, [Next]_vars, NEW u \in Threads PROVE Call(u)'
  BY Zenon DEF CallInv
<1>c. Call(u)
  BY Zenon DEF CallInv
<1>n. \A t \in Threads : t # Nobody
  BY CachedStringAssumption, Zenon
<1>1. CASE Setup
  <2>1. pc[u] = "idle"
    BY <1>1, <1>c, Zenon DEF Setup, Call
  <2> QED
    BY <1>1, <1>c, <2>1, Zenon DEF Setup, Call
<1>2. CASE Destroy
  BY <1>2, <1>c, Zenon DEF Destroy, Call
<1>3. CASE UNCHANGED vars
  BY <1>3, <1>c, SameFeature, Zenon DEF vars, Call
<1>4. ASSUME NEW t \in Threads, Insert(t)
      PROVE  Call(u)'
  <2>1. PICK ok \in BOOLEAN : Insertion(t, number[t], label[t], ok)
    BY <1>4, InsertStep, Zenon
  <2>2. /\ pc[t] = "insert" /\ label[t] \in Labels /\ number[t] = Hash[label[t]]
        /\ label' = label /\ lock' = lock /\ users' = users /\ alive' = alive
        /\ GetFeature("cached")' <=> GetFeature("cached")
    BY <1>4, <2>1, InsertStep, SameFeature, ZenonT(60) DEF Insertion
  <2>3. CASE u # t
    <3>1. pc'[u] = pc[u] /\ number'[u] = number[u]
      BY <2>1, <2>3, ZenonT(60) DEF Insertion, TypeOK
    <3> QED
      BY <1>c, <2>2, <3>1, ZenonT(60) DEF Call
  <2>4. CASE u = t
    <3>1. /\ pc'[t] = "event" \/ pc'[t] = "use"
          /\ number'[t] = number[t] \/ (number'[t] = 0 /\ ~ok)
          /\ pc'[t] = "event" => ok
      BY <2>1, Zenon DEF Insertion, TypeOK
    <3> QED
      BY <1>c, <2>2, <2>4, <3>1, ZenonT(60) DEF Call
  <2> QED
    BY <2>3, <2>4, Zenon
<1>5. ASSUME NEW t \in Threads, Announce(t)
      PROVE  Call(u)'
  BY <1>5, <1>c, SameFeature, ZenonT(60) DEF Announce, Call, TypeOK
<1>6. ASSUME NEW t \in Threads, Use(t)
      PROVE  Call(u)'
  BY <1>6, <1>c, SameFeature, ZenonT(60) DEF Use, Call, TypeOK
<1>7. ASSUME NEW t \in Threads, PushMap(t)
      PROVE  Call(u)'
  BY <1>7, <1>c, <1>n, SameFeature, ZenonT(60) DEF PushMap, MayUse, Call, TypeOK
<1>8. ASSUME NEW t \in Threads, PushEntry(t)
      PROVE  Call(u)'
  BY <1>8, <1>c, SameFeature, ZenonT(60) DEF PushEntry, Call
<1>9. ASSUME NEW t \in Threads, PushMapDone(t)
      PROVE  Call(u)'
  <2>1. Call(t)
    BY Zenon DEF CallInv
  <2> QED
    BY <1>9, <1>c, <1>n, <2>1, SameFeature, ZenonT(60) DEF PushMapDone, Call, TypeOK
<1>10. ASSUME NEW t \in Threads, NEW l \in Labels, Begins(t, l)
       PROVE  Call(u)'
  BY <1>10, <1>c, SameFeature, Zenon DEF Begins, Call, TypeOK
<1> QED
  BY <1>1, <1>2, <1>3, <1>4, <1>5, <1>6, <1>7, <1>8, <1>9, <1>10, NextCases, ZenonT(60)

LEMMA EventStep == TypeOK /\ MapsInv /\ CallInv /\ EventInv /\ [Next]_vars => EventInv'
<1> DEFINE Says(e) == IF IsMapping(e) THEN e[2] = Hash[e[3]] ELSE e[2] \in {0, Hash[e[3]]}
<1> SUFFICES ASSUME TypeOK, MapsInv, CallInv, EventInv, [Next]_vars
             PROVE  EventInv'
  OBVIOUS
<1>1. CASE stream' = stream
  BY <1>1, Zenon DEF EventInv, IsMapping
<1>2. ASSUME NEW k \in {"map", "again", "use"}, NEW h \in Nat, NEW l \in Labels,
             stream' = Append(stream, <<k, h, l>>),
             IF k \in {"map", "again"} THEN h = Hash[l] ELSE h \in {0, Hash[l]}
      PROVE  EventInv'
  <2>1. /\ DOMAIN stream' = DOMAIN stream \cup {Len(stream) + 1}
        /\ \A n \in DOMAIN stream : stream'[n] = stream[n]
        /\ stream'[Len(stream) + 1] = <<k, h, l>>
    BY <1>2, EventAppended, StreamType, ZenonT(60)
  <2>2. Says(<<k, h, l>>)
    BY <1>2, SMT DEF IsMapping
  <2>3. \A n \in DOMAIN stream : Says(stream[n])
    BY Zenon DEF EventInv
  <2>4. \A n \in DOMAIN stream' : Says(stream'[n])
    <3> HIDE DEF Says
    <3> QED
      BY <2>1, <2>2, <2>3, ZenonT(60)
  <2> QED
    BY <2>4, Zenon DEF EventInv, IsMapping
<1>3. ASSUME NEW t \in Threads, Announce(t)
      PROVE  EventInv'
  <2>1. label[t] \in Labels /\ number[t] \in Nat /\ number[t] = Hash[label[t]]
    BY <1>3, Zenon DEF Announce, CallInv, Call, TypeOK
  <2>2. stream' = Append(stream, <<"map", number[t], label[t]>>)
    BY <1>3, Zenon DEF Announce, PushEvent
  <2> QED
    BY <1>2, <2>1, <2>2, ZenonT(60)
<1>4. ASSUME NEW t \in Threads, Use(t)
      PROVE  EventInv'
  <2>1. label[t] \in Labels /\ number[t] \in Nat /\ number[t] \in {0, Hash[label[t]]}
    BY <1>4, Zenon DEF Use, CallInv, Call, TypeOK
  <2>2. stream' = Append(stream, <<"use", number[t], label[t]>>)
    BY <1>4, Zenon DEF Use, PushEvent
  <2>3. "use" \notin {"map", "again"}
    OBVIOUS
  <2> QED
    BY <1>2, <2>1, <2>2, <2>3, ZenonT(60)
<1>5. ASSUME NEW t \in Threads, PushEntry(t)
      PROVE  EventInv'
  <2>1. PICK b, p : Visits(b, p)
    BY <1>5, EntryVisited, Zenon
  <2>2. /\ KeysAt(b)[p] \in Nat /\ BucketAt(b).values.data[p] \in Labels
        /\ KeysAt(b)[p] = Hash[BucketAt(b).values.data[p]]
    BY <2>1, EntryFacts, Zenon DEF Visits, Keys
  <2>3. stream' = Append(stream, <<"again", KeysAt(b)[p], BucketAt(b).values.data[p]>>)
    BY <2>1, Zenon DEF Visits
  <2> QED
    BY <1>2, <2>2, <2>3, ZenonT(60)
<1>6. ASSUME NEW t \in Threads, Insert(t)
      PROVE  stream' = stream
  BY <1>6, Zenon DEF Insert
<1>7. ASSUME NEW t \in Threads, PushMap(t)
      PROVE  stream' = stream
  BY <1>7, Zenon DEF PushMap
<1>8. ASSUME NEW t \in Threads, PushMapDone(t)
      PROVE  stream' = stream
  BY <1>8, Zenon DEF PushMapDone
<1>9. ASSUME NEW t \in Threads, NEW l \in Labels, Begins(t, l)
      PROVE  stream' = stream
  BY <1>9, Zenon DEF Begins
<1>10. Setup \/ Destroy \/ UNCHANGED vars => stream' = stream
  BY Zenon DEF Setup, Destroy, vars
<1> QED
  BY <1>1, <1>3, <1>4, <1>5, <1>6, <1>7, <1>8, <1>9, <1>10, NextCases, ZenonT(60)

LEMMA StreamFields ==
  ASSUME stream \in Seq(EventSet), NEW n \in DOMAIN stream
  PROVE  /\ stream[n][1] \in {"map", "again", "use"}
         /\ stream[n][2] \in Keys /\ stream[n][3] \in Labels
<1>1. stream[n] \in EventSet
  <2> HIDE DEF EventSet
  <2> QED
    BY SeqFacts, Zenon
<1> QED
  BY <1>1, SMTT(60) DEF EventSet, Keys

\* What step appends an event to the stream.
LEMMA EventStepFacts ==
  ASSUME TypeOK, MapsInv, CallInv, [Next]_vars
  PROVE  \/ stream' = stream
         \/ \E k \in {"map", "again", "use"}, h \in Nat, l \in Labels :
              /\ stream' = Append(stream, <<k, h, l>>)
              /\ k = "map" => \E t \in Threads : Announce(t)
              /\ k = "use" => \E t \in Threads : Use(t) /\ h = number[t]
              /\ k = "again" => \E t \in Threads : PushEntry(t)
<1> DEFINE Appends == \E k \in {"map", "again", "use"}, h \in Nat, l \in Labels :
              /\ stream' = Append(stream, <<k, h, l>>)
              /\ k = "map" => \E t \in Threads : Announce(t)
              /\ k = "use" => \E t \in Threads : Use(t) /\ h = number[t]
              /\ k = "again" => \E t \in Threads : PushEntry(t)
<1>3. ASSUME NEW t \in Threads, Announce(t)
      PROVE  Appends
  <2>1. label[t] \in Labels /\ number[t] \in Nat
    BY <1>3, Zenon DEF Announce, CallInv, Call, TypeOK
  <2>2. stream' = Append(stream, <<"map", number[t], label[t]>>)
    BY <1>3, Zenon DEF Announce, PushEvent
  <2> QED
    BY <1>3, <2>1, <2>2, ZenonT(60)
<1>4. ASSUME NEW t \in Threads, Use(t)
      PROVE  Appends
  <2>1. label[t] \in Labels /\ number[t] \in Nat
    BY <1>4, Zenon DEF Use, CallInv, Call, TypeOK
  <2>2. stream' = Append(stream, <<"use", number[t], label[t]>>)
    BY <1>4, Zenon DEF Use, PushEvent
  <2> QED
    BY <1>4, <2>1, <2>2, ZenonT(60)
<1>5. ASSUME NEW t \in Threads, PushEntry(t)
      PROVE  Appends
  <2>1. PICK b, p : Visits(b, p)
    BY <1>5, EntryVisited, Zenon
  <2>2. KeysAt(b)[p] \in Nat /\ BucketAt(b).values.data[p] \in Labels
    BY <2>1, EntryFacts, Zenon DEF Visits, Keys
  <2>3. stream' = Append(stream, <<"again", KeysAt(b)[p], BucketAt(b).values.data[p]>>)
    BY <2>1, Zenon DEF Visits
  <2> QED
    BY <1>5, <2>2, <2>3, ZenonT(60)
<1>6. ASSUME NEW t \in Threads, Insert(t) \/ PushMap(t) \/ PushMapDone(t)
      PROVE  stream' = stream
  BY <1>6, Zenon DEF Insert, PushMap, PushMapDone
<1>7. ASSUME NEW t \in Threads, NEW l \in Labels, Begins(t, l)
      PROVE  stream' = stream
  BY <1>7, Zenon DEF Begins
<1>8. Setup \/ Destroy \/ UNCHANGED vars => stream' = stream
  BY Zenon DEF Setup, Destroy, vars
<1> HIDE DEF Appends
<1>9. stream' = stream \/ Appends
  BY <1>3, <1>4, <1>5, <1>6, <1>7, <1>8, NextCases, ZenonT(60)
<1> QED
  BY <1>9, Zenon DEF Appends

\* Only an insertion changes the maps; no step takes a key away.
LEMMA MapsSame ==
  ASSUME [Next]_vars, \A t \in Threads : ~Insert(t)
  PROVE  static' = static /\ dynamic' = dynamic
<1>1. \A t \in Threads : Announce(t) \/ Use(t) \/ PushMap(t) \/ PushEntry(t) \/ PushMapDone(t)
        => static' = static /\ dynamic' = dynamic
  BY Zenon DEF Announce, Use, PushMap, PushEntry, PushMapDone, maps
<1>2. \A t \in Threads, l \in Labels : Begins(t, l) => static' = static /\ dynamic' = dynamic
  BY Zenon DEF Begins, maps
<1>3. Setup \/ Destroy \/ UNCHANGED vars => static' = static /\ dynamic' = dynamic
  BY Zenon DEF Setup, Destroy, vars, maps
<1> QED
  BY <1>1, <1>2, <1>3, NextCases, ZenonT(60)

LEMMA KeysKept ==
  ASSUME TypeOK, MapsInv, CallInv, [Next]_vars
  PROVE  \A g \in Keys : /\ Found(static, g) => Found(static', g)
                         /\ Found(dynamic, g) => Found(dynamic', g)
<1>1. ASSUME NEW t \in Threads, Insert(t)
      PROVE  \A g \in Keys : /\ Found(static, g) => Found(static', g)
                             /\ Found(dynamic, g) => Found(dynamic', g)
  BY <1>1, InsertStep, ZenonT(60) DEF Insertion
<1>2. CASE \A t \in Threads : ~Insert(t)
  BY <1>2, MapsSame, Zenon
<1> QED
  BY <1>1, <1>2, Zenon

\* The map of a label after the step.
MapNext(l) == IF l \in Static THEN static' ELSE dynamic'

LEMMA OnceStep == TypeOK /\ MapsInv /\ CallInv /\ OnceInv /\ [Next]_vars => OnceInv'
<1> SUFFICES ASSUME TypeOK, MapsInv, CallInv, OnceInv, [Next]_vars
             PROVE  OnceInv'
  OBVIOUS
<1> DEFINE Kept(l, g) == Found(MapOf(l), g) => Found(MapNext(l), g)
           Waits(u) == /\ pc'[u] = "event" => pc[u] = "event"
                       /\ pc'[u] = "event" => number'[u] = number[u] /\ label'[u] = label[u]
<1>k. \A l, g : g \in Keys => Kept(l, g)
  BY KeysKept, Zenon DEF MapOf, MapNext
<1>s. \A n \in DOMAIN stream : stream[n][2] \in Keys /\ stream[n][3] \in Labels
  BY StreamFields, Zenon DEF TypeOK
<1>t. \A u \in Threads : number[u] \in Keys
  BY Zenon DEF TypeOK, Keys
<1>1. ASSUME NEW t \in Threads, Announce(t)
      PROVE  OnceInv'
  <2> DEFINE h == number[t]
             l == label[t]
             k == Len(stream) + 1
  <2>1. pc[t] = "event" /\ l \in Labels /\ h \in Nat
    BY <1>1, Zenon DEF Announce, CallInv, Call, TypeOK
  <2>2. stream' = Append(stream, <<"map", h, l>>)
    BY <1>1, Zenon DEF Announce, PushEvent
  <2>3. /\ DOMAIN stream' = DOMAIN stream \cup {k} /\ k \notin DOMAIN stream
        /\ \A n \in DOMAIN stream : stream'[n] = stream[n]
        /\ stream'[k] = <<"map", h, l>>
    BY <2>1, <2>2, EventAppended, StreamType, ZenonT(60)
  <2>4. stream'[k][1] = "map" /\ stream'[k][2] = h /\ stream'[k][3] = l
    BY <2>3, SMTT(60)
  <2>5. /\ static' = static /\ dynamic' = dynamic /\ number' = number /\ label' = label
        /\ pc' = [pc EXCEPT ![t] = "use"]
    BY <1>1, Zenon DEF Announce, maps
  <2>6. \A u \in Threads : pc'[u] = "event" => pc[u] = "event" /\ u # t
    BY <2>5, Zenon DEF TypeOK
  <2>7. /\ Found(MapOf(l), h)
        /\ \A n \in DOMAIN stream : ~(/\ stream[n][1] = "map" /\ stream[n][2] = h
                                      /\ SameKind(stream[n][3], l))
        /\ \A u \in Threads : pc[u] = "event" /\ number[u] = h /\ SameKind(label[u], l) => u = t
    BY <2>1, Zenon DEF OnceInv, Announced
  <2>8. \A x : MapNext(x) = MapOf(x)
    BY <2>5, Zenon DEF MapOf, MapNext
  <2> HIDE DEF k, h, l
  <2>9. ASSUME NEW n \in DOMAIN stream', stream'[n][1] = "map"
        PROVE  Found(MapNext(stream'[n][3]), stream'[n][2])
    BY <2>3, <2>4, <2>7, <2>8, <2>9, ZenonT(60) DEF OnceInv
  <2>10. ASSUME NEW n \in DOMAIN stream', NEW m \in DOMAIN stream', stream'[m][1] = "map",
                stream'[n][1] = "map", stream'[n][2] = stream'[m][2],
                SameKind(stream'[n][3], stream'[m][3])
         PROVE  n = m
    <3>1. CASE n \in DOMAIN stream /\ m \in DOMAIN stream
      BY <2>3, <2>10, <3>1, ZenonT(60) DEF OnceInv, Announced
    <3>2. CASE n = k \/ m = k
      BY <2>3, <2>4, <2>7, <2>10, <3>2, ZenonT(60) DEF SameKind
    <3> QED
      BY <2>3, <3>1, <3>2, ZenonT(60)
  <2>11. ASSUME NEW u \in Threads, pc'[u] = "event"
         PROVE  /\ Found(MapNext(label[u]), number[u])
                /\ \A n \in DOMAIN stream' :
                     ~(/\ stream'[n][1] = "map" /\ stream'[n][2] = number[u]
                       /\ SameKind(stream'[n][3], label[u]))
                /\ \A v \in Threads : pc'[v] = "event" /\ number[v] = number[u]
                                        /\ SameKind(label[v], label[u]) => v = u
    <3>1. pc[u] = "event" /\ u # t
      BY <2>6, <2>11, Zenon
    <3>2. \A n \in DOMAIN stream : ~(/\ stream[n][1] = "map" /\ stream[n][2] = number[u]
                                     /\ SameKind(stream[n][3], label[u]))
      BY <3>1, Zenon DEF OnceInv, Announced
    <3>3. ~(h = number[u] /\ SameKind(l, label[u]))
      BY <2>7, <3>1, Zenon DEF SameKind
    <3>4. \A n \in DOMAIN stream' : ~(/\ stream'[n][1] = "map" /\ stream'[n][2] = number[u]
                                      /\ SameKind(stream'[n][3], label[u]))
      BY <2>3, <2>4, <3>2, <3>3, ZenonT(60)
    <3>5. Found(MapNext(label[u]), number[u])
      BY <2>8, <3>1, Zenon DEF OnceInv
    <3>6. \A v \in Threads : pc'[v] = "event" /\ number[v] = number[u]
                               /\ SameKind(label[v], label[u]) => v = u
      BY <2>6, <3>1, ZenonT(60) DEF OnceInv
    <3> QED
      BY <3>4, <3>5, <3>6, ZenonT(60)
  <2> QED
    BY <2>5, <2>9, <2>10, <2>11, ZenonT(60) DEF OnceInv, Announced, SameKind, MapOf, MapNext
<1>2. ASSUME NEW t \in Threads, Insert(t)
      PROVE  OnceInv'
  <2> DEFINE h == number[t]
             l == label[t]
  <2>1. /\ l \in Labels /\ h \in Keys /\ pc[t] = "insert"
        /\ \E ok \in BOOLEAN : Insertion(t, h, l, ok)
    BY <1>2, InsertStep, Zenon
  <2>2. PICK ok \in BOOLEAN : Insertion(t, h, l, ok)
    BY <2>1, Zenon
  <2>3. /\ stream' = stream /\ label' = label
        /\ pc' = [pc EXCEPT ![t] = IF ok /\ ~Found(MapOf(l), h) THEN "event" ELSE "use"]
        /\ number' = [number EXCEPT ![t] = IF ok \/ l \in Dynamic THEN h ELSE 0]
    BY <2>2, Zenon DEF Insertion
  <2>4. \A u \in Threads : u # t => pc'[u] = pc[u] /\ number'[u] = number[u]
    BY <2>3, Zenon DEF TypeOK
  <2>5. /\ pc'[t] = "event" => ok /\ ~Found(MapOf(l), h)
        /\ ok => number'[t] = h
    BY <2>3, Zenon DEF TypeOK
  <2>6. ok => Found(MapNext(l), h)
    BY <2>1, <2>2, Zenon DEF Insertion, MapNext, Labels
  <2>7. \A x, y : SameKind(x, y) => MapOf(x) = MapOf(y)
    BY Zenon DEF SameKind, MapOf
  <2> HIDE DEF h, l
  <2>8. ASSUME pc'[t] = "event"
        PROVE  /\ Found(MapNext(l), h) /\ number'[t] = h
               /\ \A n \in DOMAIN stream : ~(/\ stream[n][1] = "map" /\ stream[n][2] = h
                                             /\ SameKind(stream[n][3], l))
               /\ \A u \in Threads : pc[u] = "event" /\ number[u] = h => ~SameKind(label[u], l)
    BY <2>5, <2>6, <2>7, <2>8, ZenonT(60) DEF OnceInv
  <2>9. ASSUME NEW n \in DOMAIN stream, stream[n][1] = "map"
        PROVE  Found(MapNext(stream[n][3]), stream[n][2])
    BY <1>k, <1>s, <2>9, Zenon DEF OnceInv
  <2>10. ASSUME NEW u \in Threads, pc'[u] = "event"
         PROVE  /\ Found(MapNext(label[u]), number'[u])
                /\ \A n \in DOMAIN stream : ~(/\ stream[n][1] = "map" /\ stream[n][2] = number'[u]
                                              /\ SameKind(stream[n][3], label[u]))
                /\ \A v \in Threads : pc'[v] = "event" /\ number'[v] = number'[u]
                                        /\ SameKind(label[v], label[u]) => v = u
    <3>1. CASE u = t
      BY <2>4, <2>8, <2>10, <3>1, Zenon DEF l
    <3>2. CASE u # t
      <4>1. pc[u] = "event" /\ number'[u] = number[u]
        BY <2>4, <2>10, <3>2, Zenon
      <4>2. Found(MapNext(label[u]), number'[u])
        BY <1>k, <1>t, <4>1, ZenonT(60) DEF OnceInv
      <4>3. \A n \in DOMAIN stream : ~(/\ stream[n][1] = "map" /\ stream[n][2] = number'[u]
                                       /\ SameKind(stream[n][3], label[u]))
        BY <4>1, Zenon DEF OnceInv, Announced
      <4>4. \A v \in Threads : pc'[v] = "event" /\ number'[v] = number'[u]
                                 /\ SameKind(label[v], label[u]) => v = u
        <5> SUFFICES ASSUME NEW v \in Threads, pc'[v] = "event", number'[v] = number'[u],
                            SameKind(label[v], label[u])
                     PROVE  v = u
          OBVIOUS
        <5>1. CASE v = t
          BY <2>8, <4>1, <5>1, ZenonT(60) DEF SameKind, l
        <5>2. CASE v # t
          BY <2>4, <4>1, <5>2, ZenonT(60) DEF OnceInv
        <5> QED
          BY <5>1, <5>2, ZenonT(60)
      <4> QED
        BY <4>2, <4>3, <4>4, ZenonT(60)
    <3> QED
      BY <3>1, <3>2, Zenon
  <2> QED
    BY <2>3, <2>9, <2>10, ZenonT(60) DEF OnceInv, Announced, SameKind, MapOf, MapNext
<1>3. CASE \A t \in Threads : ~Announce(t) /\ ~Insert(t)
  <2>1. \A n \in DOMAIN stream' : stream'[n][1] = "map" => n \in DOMAIN stream /\ stream'[n] = stream[n]
    <3>1. CASE stream' = stream
      BY <3>1, Zenon
    <3>2. ASSUME NEW k \in {"map", "again", "use"}, NEW h \in Nat, NEW l \in Labels,
                 stream' = Append(stream, <<k, h, l>>), k # "map"
          PROVE  \A n \in DOMAIN stream' :
                   stream'[n][1] = "map" => n \in DOMAIN stream /\ stream'[n] = stream[n]
      <4>1. /\ DOMAIN stream' = DOMAIN stream \cup {Len(stream) + 1}
            /\ \A n \in DOMAIN stream : stream'[n] = stream[n]
            /\ stream'[Len(stream) + 1] = <<k, h, l>>
        BY <3>2, EventAppended, StreamType, ZenonT(60)
      <4>2. stream'[Len(stream) + 1][1] = k
        BY <4>1, SMTT(60)
      <4> QED
        BY <3>2, <4>1, <4>2, ZenonT(60)
    <3> QED
      BY <1>3, <3>1, <3>2, EventStepFacts, ZenonT(60)
  <2>2. \A u \in Threads : Waits(u)
    <3>1. \A t \in Threads : Use(t) \/ PushMap(t) \/ PushEntry(t) \/ PushMapDone(t)
            => \A u \in Threads : Waits(u)
      BY CallTypes, ZenonT(60) DEF Use, PushMap, PushEntry, PushMapDone
    <3>2. \A t \in Threads, l \in Labels : Begins(t, l) => \A u \in Threads : Waits(u)
      BY CallTypes, ZenonT(60) DEF Begins
    <3>3. Setup \/ Destroy \/ UNCHANGED vars => \A u \in Threads : Waits(u)
      BY Zenon DEF Setup, Destroy, vars
    <3> HIDE DEF Waits
    <3> QED
      BY <1>3, <3>1, <3>2, <3>3, NextCases, ZenonT(60)
  <2>3. static' = static /\ dynamic' = dynamic
    BY <1>3, MapsSame, Zenon
  <2>4. \A x : MapNext(x) = MapOf(x)
    BY <2>3, ZenonT(60) DEF MapOf, MapNext
  <2>5. \A n \in DOMAIN stream' : stream'[n][1] = "map" => Found(MapNext(stream'[n][3]), stream'[n][2])
    BY <2>1, <2>4, ZenonT(60) DEF OnceInv
  <2>6. \A n, m \in DOMAIN stream' :
          stream'[m][1] = "map" /\ stream'[n][1] = "map" /\ stream'[n][2] = stream'[m][2]
            /\ SameKind(stream'[n][3], stream'[m][3]) => n = m
    <3> SUFFICES ASSUME NEW n \in DOMAIN stream', NEW m \in DOMAIN stream',
                        stream'[m][1] = "map", stream'[n][1] = "map",
                        stream'[n][2] = stream'[m][2], SameKind(stream'[n][3], stream'[m][3])
                 PROVE  n = m
      BY Zenon
    <3>1. /\ n \in DOMAIN stream /\ stream'[n] = stream[n]
          /\ m \in DOMAIN stream /\ stream'[m] = stream[m]
      BY <2>1, Zenon
    <3> QED
      BY <3>1, Zenon DEF OnceInv, Announced
  <2>7. ASSUME NEW u \in Threads, pc'[u] = "event"
        PROVE  /\ Found(MapNext(label'[u]), number'[u])
               /\ \A n \in DOMAIN stream' :
                    ~(/\ stream'[n][1] = "map" /\ stream'[n][2] = number'[u]
                      /\ SameKind(stream'[n][3], label'[u]))
               /\ \A v \in Threads : pc'[v] = "event" /\ number'[v] = number'[u]
                                       /\ SameKind(label'[v], label'[u]) => v = u
    <3>1. pc[u] = "event" /\ number'[u] = number[u] /\ label'[u] = label[u]
      BY <2>2, <2>7, Zenon
    <3>2. Found(MapNext(label'[u]), number'[u])
      BY <2>4, <3>1, Zenon DEF OnceInv
    <3>3. \A n \in DOMAIN stream' : ~(/\ stream'[n][1] = "map" /\ stream'[n][2] = number'[u]
                                      /\ SameKind(stream'[n][3], label'[u]))
      BY <2>1, <3>1, ZenonT(60) DEF OnceInv, Announced
    <3>4. \A v \in Threads : pc'[v] = "event" /\ number'[v] = number'[u]
                               /\ SameKind(label'[v], label'[u]) => v = u
      BY <2>2, <3>1, ZenonT(60) DEF OnceInv
    <3> QED
      BY <3>2, <3>3, <3>4, Zenon
  <2> QED
    BY <2>5, <2>6, <2>7, ZenonT(60) DEF OnceInv, Announced, SameKind, MapOf, MapNext
<1> QED
  BY <1>1, <1>2, <1>3, ZenonT(60)

LEMMA StreamGrows ==
  ASSUME TypeOK, MapsInv, CallInv, [Next]_vars
  PROVE  /\ Len(stream) \in Nat /\ Len(stream') \in Nat /\ Len(stream) <= Len(stream')
         /\ DOMAIN stream = 1..Len(stream) /\ DOMAIN stream' = 1..Len(stream')
         /\ \A n \in DOMAIN stream : n \in DOMAIN stream' /\ stream'[n] = stream[n]
<1>1. stream \in Seq(EventSet) /\ stream' \in Seq(EventSet)
  BY TypeStep, ZenonT(60) DEF TypeOK
<1> HIDE DEF EventSet
<1>2. /\ Len(stream) \in Nat /\ DOMAIN stream = 1..Len(stream)
      /\ Len(stream') \in Nat /\ DOMAIN stream' = 1..Len(stream')
  BY <1>1, SeqFacts, ZenonT(60)
<1>3. CASE stream' = stream
  <2>1. Len(stream) <= Len(stream')
    BY <1>2, <1>3, SMTT(60)
  <2> QED
    BY <1>2, <1>3, <2>1, ZenonT(60)
<1>4. ASSUME NEW k \in {"map", "again", "use"}, NEW h \in Nat, NEW l \in Labels,
             stream' = Append(stream, <<k, h, l>>)
      PROVE  /\ Len(stream) <= Len(stream')
             /\ \A n \in DOMAIN stream : n \in DOMAIN stream' /\ stream'[n] = stream[n]
  <2>1. /\ DOMAIN stream' = DOMAIN stream \cup {Len(stream) + 1}
        /\ Len(stream') = Len(stream) + 1
        /\ \A n \in DOMAIN stream : stream'[n] = stream[n]
    BY <1>1, <1>4, EventAppended, ZenonT(60)
  <2>2. Len(stream) <= Len(stream')
    BY <1>2, <2>1, SMTT(60)
  <2> QED
    BY <2>1, <2>2, ZenonT(60)
<1> QED
  BY <1>2, <1>3, <1>4, EventStepFacts, ZenonT(60)

LEMMA BucketsSame ==
  ASSUME static' = static, dynamic' = dynamic
  PROVE  \A b : BucketAt(b)' = BucketAt(b) /\ KeysAt(b)' = KeysAt(b)
BY Zenon DEF BucketAt, KeysAt

LEMMA CursorStep == TypeOK /\ MapsInv /\ CallInv /\ CursorInv /\ [Next]_vars => CursorInv'
<1> SUFFICES ASSUME TypeOK, MapsInv, CallInv, CursorInv, [Next]_vars,
                    NEW w \in Threads, pc'[w] = "map"
             PROVE  /\ from' <= Len(stream')
                    /\ \A b \in 0..(Visited - 1) : \A p \in DOMAIN KeysAt(b)' :
                         b < bucket' \/ (b = bucket' /\ p < place') =>
                           \E n \in (from' + 1)..Len(stream') : stream'[n] =
                             <<"again", KeysAt(b)'[p], BucketAt(b)'.values.data[p]>>
  BY Zenon DEF CursorInv, Visited
<1> DEFINE Entry(b, p) == <<"again", KeysAt(b)[p], BucketAt(b).values.data[p]>>
           Told(b, p) == \E n \in (from + 1)..Len(stream) : stream[n] = Entry(b, p)
           ToldNext(b, p) == \E n \in (from' + 1)..Len(stream') : stream'[n] = Entry(b, p)
           Before(b, p) == b < bucket \/ (b = bucket /\ p < place)
           BeforeNext(b, p) == b < bucket' \/ (b = bucket' /\ p < place')
<1>n. \A t \in Threads : t # Nobody
  BY CachedStringAssumption, Zenon
<1>m. \A t \in Threads : lock = t <=> pc[t] = "map"
  BY Zenon DEF CallInv, Call
<1>m2. \A t \in Threads : lock' = t <=> pc'[t] = "map"
  BY CallStep, Zenon DEF CallInv, Call
<1>f. \A t \in Threads : pc[t] = "map" =>
        from <= Len(stream)
          /\ \A b \in 0..(Visited - 1) : \A p \in DOMAIN KeysAt(b) : Before(b, p) => Told(b, p)
  BY ZenonT(60) DEF CursorInv
<1>g. /\ Len(stream) \in Nat /\ Len(stream') \in Nat /\ Len(stream) <= Len(stream')
      /\ \A n \in 1..Len(stream) : stream'[n] = stream[n]
  BY StreamGrows, ZenonT(60)
<1>k. from \in Nat
  BY ZenonT(60) DEF TypeOK
<1>h. from' = from /\ from <= Len(stream) => from' <= Len(stream')
  BY <1>g, <1>k, SMTT(60)
<1>t. ASSUME from' = from, NEW b, NEW p, Told(b, p)
      PROVE  ToldNext(b, p)
  <2> DEFINE e == Entry(b, p)
  <2>1. \E n \in (from + 1)..Len(stream) : stream[n] = e
    BY <1>t, ZenonT(60)
  <2> HIDE DEF Entry, e
  <2>2. \E n \in (from' + 1)..Len(stream') : stream'[n] = e
    BY <1>g, <1>k, <1>t, <2>1, SMTT(60)
  <2> QED
    BY <2>2, ZenonT(60) DEF e
<1>i. \A t \in Threads : ~Insert(t)
  <2> SUFFICES ASSUME NEW t \in Threads, Insert(t) PROVE FALSE
    OBVIOUS
  <2>1. lock = Nobody /\ lock' = lock
    BY Zenon DEF Insert
  <2> QED
    BY <1>m2, <1>n, <2>1, ZenonT(60)
<1>e. \A b : BucketAt(b)' = BucketAt(b) /\ KeysAt(b)' = KeysAt(b)
  BY <1>i, MapsSame, BucketsSame, ZenonT(60)
<1>q. SUFFICES /\ from' <= Len(stream')
               /\ \A b \in 0..(Visited - 1) : \A p \in DOMAIN KeysAt(b) :
                    BeforeNext(b, p) => ToldNext(b, p)
  BY <1>e, ZenonT(60)
<1> HIDE DEF Entry, Told, ToldNext
<1>1. ASSUME visit' = visit, NEW t \in Threads, pc[t] = "map"
      PROVE  /\ from' <= Len(stream')
             /\ \A b \in 0..(Visited - 1) : \A p \in DOMAIN KeysAt(b) :
                  BeforeNext(b, p) => ToldNext(b, p)
  <2>1. from' = from /\ bucket' = bucket /\ place' = place
    BY <1>1, ZenonT(60) DEF visit
  <2> QED
    BY <1>1, <1>f, <1>h, <1>t, <2>1, ZenonT(60)
<1>2. ASSUME NEW t \in Threads, PushMap(t)
      PROVE  /\ from' <= Len(stream')
             /\ \A b \in 0..(Visited - 1) : \A p \in DOMAIN KeysAt(b) :
                  BeforeNext(b, p) => ToldNext(b, p)
  <2>1. bucket' = 0 /\ place' = 1 /\ from' = Len(stream)
    BY <1>2, ZenonT(60) DEF PushMap
  <2>2. from' <= Len(stream')
    BY <1>g, <2>1, SMTT(60)
  <2>3. ASSUME NEW b \in 0..(Visited - 1), NEW p \in DOMAIN KeysAt(b), BeforeNext(b, p)
        PROVE  FALSE
    <3>1. KeysAt(b) \in Seq(Keys)
      BY EntryFacts, ZenonT(60)
    <3>2. Len(KeysAt(b)) \in Nat /\ p \in 1..Len(KeysAt(b))
      BY <3>1, SeqFacts, ZenonT(60)
    <3> QED
      BY <2>1, <2>3, <3>2, SMTT(60)
  <2> QED
    BY <2>2, <2>3, ZenonT(60)
<1>3. ASSUME NEW t \in Threads, PushMapDone(t)
      PROVE  FALSE
  <2>1. lock' = Nobody
    BY <1>3, ZenonT(60) DEF PushMapDone
  <2> QED
    BY <1>m2, <1>n, <2>1, ZenonT(60)
<1>4. ASSUME NEW t \in Threads, PushEntry(t)
      PROVE  /\ from' <= Len(stream')
             /\ \A b \in 0..(Visited - 1) : \A p \in DOMAIN KeysAt(b) :
                  BeforeNext(b, p) => ToldNext(b, p)
  <2>1. pc[t] = "map" /\ from' = from
    BY <1>4, ZenonT(60) DEF PushEntry
  <2>2. PICK c, d : Visits(c, d)
    BY <1>4, EntryVisited, ZenonT(60)
  <2>3. c \in 0..(Visited - 1) /\ d \in DOMAIN KeysAt(c) /\ bucket' = c /\ place' = d + 1
    BY <2>2, ZenonT(60) DEF Visits
  <2>4. KeysAt(c)[d] \in Nat /\ BucketAt(c).values.data[d] \in Labels
    BY <2>3, EntryFacts, ZenonT(60) DEF Keys
  <2>5. Len(stream') = Len(stream) + 1 /\ stream'[Len(stream) + 1] = Entry(c, d)
    BY <2>2, <2>4, EventAppended, ZenonT(60) DEF Visits, TypeOK, Entry
  <2>6. ToldNext(c, d)
    <3>1. Len(stream) + 1 \in (from' + 1)..Len(stream')
      BY <1>f, <1>g, <1>k, <2>1, <2>5, SMTT(60)
    <3> QED
      BY <2>5, <3>1, ZenonT(60) DEF ToldNext
  <2>7. ASSUME NEW b \in 0..(Visited - 1), NEW p \in DOMAIN KeysAt(b), BeforeNext(b, p)
        PROVE  Before(b, p) \/ (b = c /\ p = d)
    <3> DEFINE q(i) == KeysAt(i)
    <3>1. /\ KeysAt(b) \in Seq(Keys) /\ KeysAt(c) \in Seq(Keys) /\ KeysAt(bucket) \in Seq(Keys)
          /\ bucket \in 0..(Visited - 1) /\ place \in Nat \ {0}
      BY <2>3, EntryFacts, ZenonT(60) DEF TypeOK
    <3>2. /\ DOMAIN KeysAt(b) = 1..Len(KeysAt(b)) /\ Len(KeysAt(b)) \in Nat
          /\ DOMAIN KeysAt(c) = 1..Len(KeysAt(c)) /\ Len(KeysAt(c)) \in Nat
          /\ DOMAIN KeysAt(bucket) = 1..Len(KeysAt(bucket)) /\ Len(KeysAt(bucket)) \in Nat
      BY <3>1, SeqFacts, ZenonT(60)
    <3>3. Visited \in Nat
      BY CachedStringAssumption, SMTT(60) DEF Visited
    <3>4. /\ p \in Nat /\ d \in Nat /\ p >= 1
          /\ b \in Nat /\ c \in Nat /\ bucket \in Nat
          /\ b < c \/ (b = c /\ p <= d)
      BY <2>3, <2>7, <3>1, <3>2, <3>3, SMTT(60)
    <3>5. CASE c = bucket /\ d = place
      <4> HIDE DEF Visited
      <4> QED
        BY <3>1, <3>4, <3>5, SMTT(60)
    <3>6. CASE c > bucket /\ d = 1 /\ Passes(c)
      <4>1. place > Len(KeysAt(bucket)) /\ \A n \in (bucket + 1)..(c - 1) : KeysAt(n) = << >>
        BY <3>6, ZenonT(60) DEF Passes
      <4>2. CASE b < bucket \/ b = c
        BY <3>4, <3>6, <4>2, SMTT(60)
      <4>3. CASE b = bucket
        BY <3>1, <3>2, <3>4, <4>1, <4>3, SMTT(60)
      <4>4. CASE b > bucket /\ b < c
        <5>1. KeysAt(b) = << >>
          <6>1. b \in (bucket + 1)..(c - 1)
            BY <3>4, <4>4, SMTT(60)
          <6> QED
            BY <4>1, <6>1, ZenonT(60)
        <5>2. DOMAIN << >> = {}
          BY SMTT(60)
        <5> QED
          BY <5>1, <5>2, ZenonT(60)
      <4> QED
        BY <3>4, <4>2, <4>3, <4>4, SMTT(60)
    <3> QED
      BY <2>2, <3>5, <3>6, ZenonT(60) DEF Visits
  <2> QED
    BY <1>f, <1>h, <1>t, <2>1, <2>6, <2>7, ZenonT(60)
<1>5. CASE \A t \in Threads : ~PushMap(t) /\ ~PushMapDone(t) /\ ~PushEntry(t)
  <2> DEFINE Stays == visit' = visit /\ \A u \in Threads : pc'[u] = "map" => pc[u] = "map"
  <2>1. \A t \in Threads : Announce(t) \/ Use(t) => Stays
    BY ZenonT(60) DEF Announce, Use, TypeOK
  <2>2. \A t \in Threads, l \in Labels : Begins(t, l) => Stays
    BY CallTypes, ZenonT(60) DEF Begins
  <2>3. Setup \/ Destroy \/ UNCHANGED vars => Stays
    BY Zenon DEF Setup, Destroy, vars
  <2> HIDE DEF Stays
  <2>4. Stays
    BY <1>5, <1>i, <2>1, <2>2, <2>3, NextCases, Zenon
  <2> QED
    BY <1>1, <2>4, ZenonT(60) DEF Stays
<1> QED
  BY <1>2, <1>3, <1>4, <1>5, ZenonT(60)

\* A number stays mapped.
LEMMA MappedKept ==
  ASSUME TypeOK, MapsInv, CallInv, [Next]_vars, NEW h, Mapped(h)
  PROVE  Mapped(h)'
BY StreamGrows, ZenonT(60) DEF Mapped, IsMapping

\* The step of a single user, and that it never ran out of memory before.
LEMMA SingleUser ==
  ASSUME TypeOK, MapsInv, CallInv, [Next]_vars
  PROVE  /\ users \subseteq users' /\ (fails' = 0 => fails = 0)
         /\ \A t \in Threads : Insert(t) \/ Announce(t) \/ Use(t) \/ PushMap(t) \/ PushEntry(t)
              \/ PushMapDone(t) \/ (\E l \in Labels : Begins(t, l)) => t \in users'
<1>c. \A t \in Threads : pc[t] # "idle" => t \in users
  BY Zenon DEF CallInv, Call
<1>1. users \subseteq users'
  <2>1. \A t \in Threads : Insert(t) \/ Announce(t) \/ Use(t) \/ PushMap(t) \/ PushEntry(t)
          \/ PushMapDone(t) => users \subseteq users'
    BY ZenonT(60) DEF Insert, Announce, Use, PushMap, PushEntry, PushMapDone
  <2>2. \A t \in Threads, l \in Labels : Begins(t, l) => users \subseteq users'
    BY Zenon DEF Begins
  <2>3. Setup \/ Destroy \/ UNCHANGED vars => users \subseteq users'
    BY Zenon DEF Setup, Destroy, vars
  <2> QED
    BY <2>1, <2>2, <2>3, NextCases, ZenonT(60)
<1>2. fails' = 0 => fails = 0
  <2>1. \A t \in Threads : Insert(t) => (fails' = 0 => fails = 0)
    <3> SUFFICES ASSUME NEW t \in Threads, Insert(t), fails' = 0 PROVE fails = 0
      OBVIOUS
    <3>1. PICK ok \in BOOLEAN : Insertion(t, number[t], label[t], ok)
      BY InsertStep, ZenonT(60)
    <3>2. fails' = IF ok THEN fails ELSE fails + 1
      BY <3>1, ZenonT(60) DEF Insertion
    <3> QED
      BY <3>2, SMTT(60) DEF TypeOK
  <2>2. \A t \in Threads : Announce(t) \/ Use(t) \/ PushMap(t) \/ PushEntry(t)
          \/ PushMapDone(t) => fails' = fails
    BY Zenon DEF Announce, Use, PushMap, PushEntry, PushMapDone, counters
  <2>3. \A t \in Threads, l \in Labels : Begins(t, l) => fails' = fails
    BY Zenon DEF Begins
  <2>4. Setup \/ Destroy \/ UNCHANGED vars => fails' = fails
    BY Zenon DEF Setup, Destroy, vars, counters
  <2> QED
    BY <2>1, <2>2, <2>3, <2>4, NextCases, ZenonT(60)
<1>3. \A t \in Threads : Insert(t) \/ Announce(t) \/ Use(t) \/ PushEntry(t) \/ PushMapDone(t)
        => t \in users'
  BY <1>1, <1>c, ZenonT(60) DEF Insert, Announce, Use, PushEntry, PushMapDone
<1>4. \A t \in Threads : PushMap(t) => t \in users'
  BY Zenon DEF PushMap
<1>5. \A t \in Threads, l \in Labels : Begins(t, l) => t \in users'
  BY Zenon DEF Begins
<1> QED
  BY <1>1, <1>2, <1>3, <1>4, <1>5, ZenonT(60)

LEMMA OwnStep == TypeOK /\ MapsInv /\ CallInv /\ OwnInv /\ [Next]_vars => OwnInv'
<1> DEFINE Keyed(u) == \A h \in Numbers : Found(static, h) \/ Found(dynamic, h) =>
                         Mapped(h) \/ (pc[u] = "event" /\ number[u] = h)
           KeyedNext(u) == \A h \in Numbers : Found(static', h) \/ Found(dynamic', h) =>
                             Mapped(h)' \/ (pc'[u] = "event" /\ number'[u] = h)
<1> SUFFICES ASSUME TypeOK, MapsInv, CallInv, OwnInv, [Next]_vars,
                    NEW u \in Threads, users' \subseteq {u}, fails' = 0
             PROVE  KeyedNext(u) /\ (pc'[u] = "use" => Mapped(number[u])') /\ MappingBeforeUse'
  BY Zenon DEF OwnInv, Numbers
<1>o. users \subseteq {u} /\ fails = 0
  BY SingleUser, Zenon
<1>a. \A t \in Threads : Insert(t) \/ Announce(t) \/ Use(t) \/ PushMap(t) \/ PushEntry(t)
        \/ PushMapDone(t) \/ (\E l \in Labels : Begins(t, l)) => t = u
  BY SingleUser, Zenon
<1>i. Keyed(u) /\ (pc[u] = "use" => Mapped(number[u])) /\ MappingBeforeUse
  BY <1>o, Zenon DEF OwnInv
<1>m. \A h : Mapped(h) => Mapped(h)'
  BY MappedKept, ZenonT(60)
<1>k. \A h \in Numbers : h \in Keys
  BY CachedStringAssumption, SMTT(60) DEF Numbers, Keys
<1>b. MappingBeforeUse'
  <2> DEFINE Early(n) == \E m \in 1..(n - 1) : IsMapping(stream[m]) /\ stream[m][2] = stream[n][2]
             EarlyNext(n) == \E m \in 1..(n - 1) : IsMapping(stream'[m]) /\ stream'[m][2] = stream'[n][2]
  <2>1. \A n \in DOMAIN stream : stream[n][1] = "use" => Early(n)
    BY <1>i, Zenon DEF MappingBeforeUse
  <2>2. /\ DOMAIN stream = 1..Len(stream) /\ Len(stream) \in Nat
        /\ \A n \in DOMAIN stream : stream'[n] = stream[n]
    BY StreamGrows, Zenon
  <2>3. ASSUME NEW n \in DOMAIN stream, stream'[n][1] = "use"
        PROVE  EarlyNext(n)
    <3>1. PICK m \in 1..(n - 1) : IsMapping(stream[m]) /\ stream[m][2] = stream[n][2]
      BY <2>1, <2>2, <2>3, ZenonT(60)
    <3>2. m \in DOMAIN stream
      BY <2>2, <3>1, SMTT(60)
    <3>3. stream'[m] = stream[m] /\ stream'[n] = stream[n]
      BY <2>2, <3>2, ZenonT(60)
    <3>4. IsMapping(stream'[m]) /\ stream'[m][2] = stream'[n][2]
      BY <3>1, <3>3, ZenonT(60)
    <3> QED
      BY <3>1, <3>4, ZenonT(60)
  <2>4. CASE stream' = stream
    BY <2>3, <2>4, ZenonT(60) DEF MappingBeforeUse, IsMapping
  <2>5. ASSUME NEW k \in {"map", "again", "use"}, NEW h \in Nat, NEW l \in Labels,
               stream' = Append(stream, <<k, h, l>>),
               k = "use" => \E t \in Threads : Use(t) /\ h = number[t]
        PROVE  MappingBeforeUse'
    <3>1. /\ DOMAIN stream' = DOMAIN stream \cup {Len(stream) + 1}
          /\ stream'[Len(stream) + 1] = <<k, h, l>>
      BY <2>5, EventAppended, StreamType, ZenonT(60)
    <3>2. stream'[Len(stream) + 1][1] = k /\ stream'[Len(stream) + 1][2] = h
      BY <3>1, SMTT(60)
    <3>3. ASSUME k = "use"
          PROVE  EarlyNext(Len(stream) + 1)
      <4>1. Mapped(h)
        BY <1>a, <1>i, <2>5, <3>3, ZenonT(60) DEF Use
      <4>2. PICK m \in DOMAIN stream : IsMapping(stream[m]) /\ stream[m][2] = h
        BY <4>1, ZenonT(60) DEF Mapped
      <4>3. m \in 1..(Len(stream) + 1 - 1)
        BY <2>2, SMTT(60)
      <4>4. stream'[m] = stream[m]
        BY <2>2, Zenon
      <4>5. IsMapping(stream'[m]) /\ stream'[m][2] = stream'[Len(stream) + 1][2]
        BY <3>2, <4>2, <4>4, ZenonT(60)
      <4> QED
        BY <4>3, <4>5, SMTT(60)
    <3>4. \A n \in DOMAIN stream' : stream'[n][1] = "use" => EarlyNext(n)
      BY <2>3, <3>1, <3>2, <3>3, ZenonT(60)
    <3> QED
      BY <3>4, Zenon DEF MappingBeforeUse, IsMapping
  <2> QED
    BY <2>4, <2>5, EventStepFacts, ZenonT(60)
<1>1. ASSUME NEW t \in Threads, Insert(t)
      PROVE  KeyedNext(u) /\ (pc'[u] = "use" => Mapped(number[u])')
  <2>1. u = t
    BY <1>1, <1>a, ZenonT(60)
  <2> DEFINE h == number[u]
             l == label[u]
  <2>2. /\ l \in Labels /\ h = Hash[l] /\ h \in Keys /\ pc[u] = "insert"
        /\ \E ok \in BOOLEAN : Insertion(u, h, l, ok)
    BY <1>1, <2>1, InsertStep, ZenonT(60)
  <2>3. PICK ok \in BOOLEAN : Insertion(u, h, l, ok)
    BY <2>2, Zenon
  <2>4. ok
    <3>1. fails' = IF ok THEN fails ELSE fails + 1
      BY <2>3, Zenon DEF Insertion
    <3> QED
      BY <1>o, <3>1, SMTT(60)
  <2>5. /\ number'[u] = h
        /\ pc'[u] = IF ~Found(MapOf(l), h) THEN "event" ELSE "use"
    BY <2>3, <2>4, Zenon DEF Insertion, TypeOK
  <2>6. \A g \in Keys : Found(static', g) \/ Found(dynamic', g) =>
          Found(static, g) \/ Found(dynamic, g) \/ g = h
    BY <2>3, Zenon DEF Insertion
  <2>7. h \in Numbers /\ (Found(MapOf(l), h) => Found(static, h) \/ Found(dynamic, h))
    BY <2>2, Zenon DEF Numbers, MapOf
  <2>8. \A g \in Numbers : Found(static, g) \/ Found(dynamic, g) => Mapped(g)'
    BY <1>i, <1>m, <2>2, ZenonT(60)
  <2>9. KeyedNext(u)
    BY <1>k, <2>5, <2>6, <2>7, <2>8, ZenonT(60)
  <2>10. pc'[u] = "use" => Mapped(h)'
    BY <2>5, <2>7, <2>8, ZenonT(60)
  <2> QED
    BY <2>5, <2>9, <2>10, ZenonT(60) DEF Mapped
<1>2. CASE \A t \in Threads : ~Insert(t)
  <2>1. static' = static /\ dynamic' = dynamic
    BY <1>2, MapsSame, Zenon
  <2>2. ASSUME NEW t \in Threads, Announce(t)
        PROVE  KeyedNext(u) /\ (pc'[u] = "use" => Mapped(number[u])')
    <3>1. u = t /\ number' = number
      BY <1>a, <2>2, Zenon DEF Announce
    <3>2. number[u] \in Nat /\ label[u] \in Labels
      BY <2>2, <3>1, ZenonT(60) DEF Announce, CallInv, Call, TypeOK
    <3>3. stream' = Append(stream, <<"map", number[u], label[u]>>)
      BY <2>2, <3>1, Zenon DEF Announce, PushEvent
    <3>4. /\ Len(stream) + 1 \in DOMAIN stream'
          /\ stream'[Len(stream) + 1] = <<"map", number[u], label[u]>>
      BY <3>2, <3>3, EventAppended, StreamType, ZenonT(60)
    <3>5. IsMapping(stream'[Len(stream) + 1]) /\ stream'[Len(stream) + 1][2] = number[u]
      BY <3>4, SMTT(60) DEF IsMapping
    <3>6. \E n \in DOMAIN stream' : IsMapping(stream'[n]) /\ stream'[n][2] = number[u]
      BY <3>4, <3>5, Zenon
    <3>7. \A h : h = number[u] => Mapped(h)'
      BY <3>6, Zenon DEF Mapped, IsMapping
    <3>8. KeyedNext(u)
      BY <1>i, <1>m, <2>1, <3>7, ZenonT(60)
    <3> QED
      BY <3>1, <3>6, <3>8, ZenonT(60) DEF Mapped, IsMapping
  <2>3. ASSUME NEW t \in Threads, NEW l \in Labels, Begins(t, l)
        PROVE  KeyedNext(u) /\ (pc'[u] = "use" => Mapped(number[u])')
    <3>1. u = t /\ pc[u] = "idle"
      BY <1>a, <2>3, ZenonT(60) DEF Begins
    <3>2. \A h \in Numbers : Found(static, h) \/ Found(dynamic, h) => Mapped(h)'
      BY <1>i, <1>m, <3>1, ZenonT(60)
    <3>3. number'[u] = Hash[l] /\ Hash[l] \in Numbers
      BY <2>3, <3>1, ZenonT(60) DEF Begins, TypeOK, Numbers
    <3>4. pc'[u] = "use" => GetValue(dynamic, Hash[l]) # NoLabel
      BY <2>3, <3>1, ZenonT(60) DEF Begins, TypeOK
    <3>5. Found(dynamic, Hash[l]) <=> GetValue(dynamic, Hash[l]) # NoLabel
      <4>1. /\ Dynamic \subseteq Labels /\ dynamic \in [Buckets -> BucketSet(Dynamic)]
            /\ GoodMap(dynamic) /\ Hash[l] \in Keys
        BY <1>k, <3>3, ZenonT(60) DEF Labels, TypeOK, MapsInv
      <4> QED
        BY <4>1, GetFacts, ZenonT(60)
    <3>6. \A h : pc'[u] = "use" /\ h = number'[u] => Mapped(h)'
      BY <3>2, <3>3, <3>4, <3>5, ZenonT(60)
    <3>7. KeyedNext(u)
      BY <2>1, <3>2, ZenonT(60)
    <3> QED
      BY <3>6, <3>7, ZenonT(60) DEF Mapped
  <2>4. ASSUME pc[u] # "event", pc'[u] # "use" \/ (pc'[u] = pc[u] /\ number' = number)
        PROVE  KeyedNext(u) /\ (pc'[u] = "use" => Mapped(number[u])')
    <3>1. KeyedNext(u)
      BY <1>i, <1>m, <2>1, <2>4, ZenonT(60)
    <3>2. \A h : pc'[u] = "use" /\ h = number'[u] => Mapped(h)'
      BY <1>i, <1>m, <2>4, ZenonT(60)
    <3> QED
      BY <3>1, <3>2, ZenonT(60) DEF Mapped
  <2>5. ASSUME pc' = pc, number' = number
        PROVE  KeyedNext(u) /\ (pc'[u] = "use" => Mapped(number[u])')
    <3>1. KeyedNext(u)
      BY <1>i, <1>m, <2>1, <2>5, ZenonT(60)
    <3>2. \A h : pc'[u] = "use" /\ h = number'[u] => Mapped(h)'
      BY <1>i, <1>m, <2>5, ZenonT(60)
    <3> QED
      BY <3>1, <3>2, Zenon DEF Mapped
  <2>6. ASSUME NEW t \in Threads, Use(t) \/ PushMap(t) \/ PushMapDone(t)
        PROVE  pc[u] # "event" /\ pc'[u] # "use"
    <3>1. u = t
      BY <1>a, <2>6, ZenonT(60)
    <3> QED
      BY <2>6, <3>1, ZenonT(60) DEF Use, PushMap, MayUse, PushMapDone, TypeOK
  <2>7. \A t \in Threads : PushEntry(t) => pc' = pc /\ number' = number
    BY Zenon DEF PushEntry
  <2>8. Setup \/ Destroy \/ UNCHANGED vars => pc' = pc /\ number' = number
    BY Zenon DEF Setup, Destroy, vars
  <2> DEFINE Kept == KeyedNext(u) /\ (pc'[u] = "use" => Mapped(number[u])')
  <2>9. \A t \in Threads : Announce(t) \/ (\E l \in Labels : Begins(t, l)) => Kept
    BY <2>2, <2>3, ZenonT(60)
  <2>10. \A t \in Threads : Use(t) \/ PushMap(t) \/ PushMapDone(t) \/ PushEntry(t) => Kept
    BY <2>4, <2>5, <2>6, <2>7, ZenonT(60)
  <2>11. Setup \/ Destroy \/ UNCHANGED vars => Kept
    BY <2>5, <2>8, ZenonT(60)
  <2> HIDE DEF Kept
  <2>12. Kept
    BY <1>2, <2>9, <2>10, <2>11, NextCases, ZenonT(60)
  <2> QED
    BY <1>b, <2>12, ZenonT(60) DEF Kept
<1> HIDE DEF KeyedNext
<1> QED
  BY <1>1, <1>2, <1>b, ZenonT(60)

LEMMA CopyStep == TypeOK /\ MapsInv /\ CallInv /\ CopyInv /\ [Next]_vars => CopyInv'
<1> SUFFICES ASSUME TypeOK, MapsInv, CallInv, CopyInv, [Next]_vars PROVE CopyInv'
  OBVIOUS
<1> DEFINE Card == Cardinality(Entries(dynamic))
           CardNext == Cardinality(Entries(dynamic'))
           Adds(u) == pc[u] = "insert" /\ label[u] \in Dynamic
           AddsNext(u) == pc'[u] = "insert" /\ label'[u] \in Dynamic
<1>f. IsFiniteSet(users) /\ IsFiniteSet(Entries(dynamic))
  BY Zenon DEF CopyInv
<1>n. Card \in Nat /\ Cardinality({}) = 0
  BY <1>f, FS_CardinalityType, FS_EmptySet, ZenonT(60)
<1>u. /\ users \subseteq users' /\ (fails' = 0 => fails = 0)
      /\ \A t \in Threads : Insert(t) \/ Announce(t) \/ Use(t) \/ PushMap(t) \/ PushEntry(t)
           \/ PushMapDone(t) \/ (\E l \in Labels : Begins(t, l)) => t \in users'
  BY SingleUser, ZenonT(60)
<1>d. \A t \in Threads : pc[t] # "idle" => t \in users /\ alive /\ GetFeature("cached")
  BY ZenonT(60) DEF CallInv, Call
<1>1. IsFiniteSet(users')
  <2>1. \A t \in Threads : users' = users \cup {t} => IsFiniteSet(users')
    BY <1>f, FS_AddElement, ZenonT(60)
  <2>2. \A t \in Threads : Insert(t) \/ Announce(t) \/ Use(t) \/ PushEntry(t) \/ PushMapDone(t)
          => users' = users
    BY ZenonT(60) DEF Insert, Announce, Use, PushEntry, PushMapDone
  <2>3. \A t \in Threads : PushMap(t) => users' = users \cup {t}
    BY Zenon DEF PushMap
  <2>4. \A t \in Threads, l \in Labels : Begins(t, l) => users' = users \cup {t}
    BY Zenon DEF Begins
  <2>5. Setup \/ Destroy \/ UNCHANGED vars => users' = users
    BY Zenon DEF Setup, Destroy, vars
  <2> QED
    BY <1>f, <2>1, <2>2, <2>3, <2>4, <2>5, NextCases, ZenonT(60)
<1>2. IsFiniteSet(Entries(dynamic'))
  <2>1. ASSUME NEW t \in Threads, Insert(t)
        PROVE  \/ Entries(dynamic') = Entries(dynamic)
               \/ \E x : Entries(dynamic') = Entries(dynamic) \cup {x}
    BY <2>1, InsertStep, ZenonT(60) DEF Insertion
  <2>2. \A x : Entries(dynamic') = Entries(dynamic) \cup {x} => IsFiniteSet(Entries(dynamic'))
    BY <1>f, FS_AddElement, Zenon
  <2>3. CASE \A t \in Threads : ~Insert(t)
    BY <1>f, <2>3, MapsSame, ZenonT(60)
  <2> QED
    BY <1>f, <2>1, <2>2, <2>3, ZenonT(60)
<1>3. ASSUME users' = {}
      PROVE  copies' = 0 /\ Entries(dynamic') = {} /\ stream' = << >>
  <2>1. copies = 0 /\ Entries(dynamic) = {} /\ stream = << >>
    BY <1>3, <1>u, ZenonT(60) DEF CopyInv
  <2>2. Setup \/ Destroy \/ UNCHANGED vars
    BY <1>3, <1>u, NextCases, ZenonT(60)
  <2>3. dynamic' = dynamic /\ stream' = stream
    BY <2>2, Zenon DEF Setup, Destroy, vars, maps
  <2>4. CASE copies' = copies
    BY <2>1, <2>3, <2>4, ZenonT(60)
  <2>5. CASE Destroy
    <3>1. copies' = copies - Freed /\ Freed = 0
      BY <1>n, <2>1, <2>5, ZenonT(60) DEF Destroy, Freed
    <3>2. copies' = 0
      BY <2>1, <3>1, SMTT(60)
    <3> QED
      BY <2>1, <2>3, <3>2, ZenonT(60)
  <2> QED
    BY <2>2, <2>4, <2>5, ZenonT(60) DEF Setup, vars
<1>4. users' # {} /\ alive' => GetFeature("cached")'
  <2> SUFFICES ASSUME users' # {}, alive' PROVE GetFeature("cached")'
    OBVIOUS
  <2>1. ASSUME NEW t \in Threads,
               Insert(t) \/ Announce(t) \/ Use(t) \/ PushEntry(t) \/ PushMapDone(t)
        PROVE  UNCHANGED featureVars /\ GetFeature("cached")
    BY <1>d, <2>1, ZenonT(60) DEF Insert, Announce, Use, PushEntry, PushMapDone
  <2>2. ASSUME NEW t \in Threads, PushMap(t)
        PROVE  UNCHANGED featureVars /\ GetFeature("cached")
    BY <2>2, ZenonT(60) DEF PushMap, MayUse
  <2>3. ASSUME NEW t \in Threads, NEW l \in Labels, Begins(t, l)
        PROVE  UNCHANGED featureVars /\ GetFeature("cached")
    BY <2>3, ZenonT(60) DEF Begins
  <2>4. ~Setup /\ ~Destroy
    BY Zenon DEF Setup, Destroy
  <2>5. UNCHANGED vars => UNCHANGED featureVars /\ GetFeature("cached")
    BY Zenon DEF vars, CopyInv
  <2>6. UNCHANGED featureVars /\ GetFeature("cached")
    BY <2>1, <2>2, <2>3, <2>4, <2>5, NextCases, ZenonT(60)
  <2> QED
    BY <2>6, SameFeature, ZenonT(60)
<1>5. ~alive' => \A t \in Threads : pc'[t] = "idle"
  BY CallStep, ZenonT(60) DEF CallInv, Call
<1>6. ASSUME NEW u \in Threads, users' = {u}, fails' = 0
      PROVE  /\ AddsNext(u) => ~Found(dynamic', number'[u])
             /\ IF ~alive' THEN copies' = 0 ELSE copies' = CardNext + (IF AddsNext(u) THEN 1 ELSE 0)
  <2>a. \A t \in Threads : Insert(t) \/ Announce(t) \/ Use(t) \/ PushMap(t) \/ PushEntry(t)
          \/ PushMapDone(t) \/ (\E l \in Labels : Begins(t, l)) => t = u
    BY <1>6, <1>u, ZenonT(60)
  <2>b. users = {} \/ users = {u}
    BY <1>6, <1>u, Zenon
  <2>c. alive => copies = Card + (IF Adds(u) THEN 1 ELSE 0)
    <3>1. CASE users = {u}
      BY <1>6, <1>u, <3>1, ZenonT(60) DEF CopyInv
    <3>2. CASE users = {}
      <4>1. copies = 0 /\ Card = 0 /\ pc[u] = "idle"
        BY <1>d, <1>n, <3>2, ZenonT(60) DEF CopyInv
      <4> QED
        BY <4>1, SMTT(60)
    <3> QED
      BY <2>b, <3>1, <3>2, ZenonT(60)
  <2>1. CASE Setup
    <3>1. FALSE
      BY <1>6, <2>1, ZenonT(60) DEF Setup
    <3> QED
      BY <3>1, Zenon
  <2>2. CASE Destroy
    <3>1. /\ alive /\ ~alive' /\ pc[u] = "idle" /\ pc' = pc /\ users' = users
          /\ copies' = copies - Freed
      BY <2>2, ZenonT(60) DEF Destroy
    <3>2. Freed = Card
      BY <1>6, <3>1, ZenonT(60) DEF CopyInv, Freed
    <3>3. copies = Card + 0
      BY <2>c, <3>1, ZenonT(60)
    <3>4. copies' = 0
      <4> HIDE DEF Card
      <4> QED
        BY <1>n, <3>1, <3>2, <3>3, SMTT(60)
    <3> QED
      BY <3>1, <3>4, ZenonT(60)
  <2>3. CASE UNCHANGED vars
    BY <1>6, <2>3, ZenonT(60) DEF vars, maps, counters, CopyInv
  <2>4. ASSUME NEW t \in Threads, Insert(t)
        PROVE  alive' /\ ~AddsNext(u) /\ copies' = CardNext + 0
    <3> DEFINE h == number[u]
               l == label[u]
    <3>1. /\ t = u /\ l \in Labels /\ h = Hash[l] /\ h \in Keys /\ pc[u] = "insert"
          /\ \E ok \in BOOLEAN : Insertion(u, h, l, ok)
      BY <2>4, <2>a, InsertStep, ZenonT(60)
    <3>2. PICK ok \in BOOLEAN : Insertion(u, h, l, ok)
      BY <3>1, Zenon
    <3>3. ok
      <4>1. fails' = IF ok THEN fails ELSE fails + 1
        BY <3>2, Zenon DEF Insertion
      <4> QED
        BY <1>6, <1>u, <4>1, SMTT(60)
    <3>4. alive /\ users = {u}
      BY <1>d, <2>b, <3>1, ZenonT(60)
    <3>5. alive' = alive /\ copies' = copies /\ pc'[u] # "insert"
      BY <3>2, ZenonT(60) DEF Insertion, TypeOK
    <3>6. CASE l \in Dynamic
      <4>1. ~Found(dynamic, h)
        BY <1>6, <1>u, <3>1, <3>4, <3>6, ZenonT(60) DEF CopyInv
      <4>2. PICK x : x \notin Entries(dynamic) /\ Entries(dynamic') = Entries(dynamic) \cup {x}
        BY <3>2, <3>3, <3>6, <4>1, ZenonT(60) DEF Insertion
      <4>3. CardNext = Card + 1
        BY <1>f, <4>2, FS_AddElement, ZenonT(60)
      <4>4. copies = Card + 1
        BY <2>c, <3>1, <3>4, <3>6, ZenonT(60)
      <4>5. CardNext + 0 = Card + 1
        <5> HIDE DEF Card, CardNext
        <5> QED
          BY <1>n, <4>3, SMTT(60)
      <4> QED
        BY <3>4, <3>5, <4>4, <4>5, ZenonT(60)
    <3>7. CASE l \notin Dynamic
      <4>1. Entries(dynamic') = Entries(dynamic)
        BY <3>2, <3>7, ZenonT(60) DEF Insertion
      <4>2. copies = Card + 0
        BY <2>c, <3>4, <3>7, ZenonT(60)
      <4> QED
        BY <3>4, <3>5, <4>1, <4>2, ZenonT(60)
    <3> QED
      BY <3>6, <3>7, ZenonT(60)
  <2>5. ASSUME NEW t \in Threads,
               Announce(t) \/ Use(t) \/ PushEntry(t) \/ PushMapDone(t) \/ PushMap(t)
        PROVE  alive' /\ ~AddsNext(u) /\ copies' = CardNext + 0
    <3>1. t = u
      BY <2>5, <2>a, ZenonT(60)
    <3>2. alive /\ alive' = alive /\ copies' = copies /\ dynamic' = dynamic
      BY <1>d, <2>5, ZenonT(60) DEF Announce, Use, PushEntry, PushMapDone, PushMap, MayUse, maps
    <3>3. pc[u] # "insert" /\ pc'[u] # "insert"
      BY <2>5, <3>1, ZenonT(60) DEF Announce, Use, PushEntry, PushMapDone, PushMap, MayUse, TypeOK
    <3> QED
      BY <2>c, <3>2, <3>3, ZenonT(60)
  <2>6. ASSUME NEW t \in Threads, NEW l \in Labels, Begins(t, l)
        PROVE  /\ alive' /\ (AddsNext(u) => ~Found(dynamic', number'[u]))
               /\ copies' = CardNext + (IF AddsNext(u) THEN 1 ELSE 0)
    <3>1. t = u
      BY <2>6, <2>a, ZenonT(60)
    <3>2. alive /\ alive' = alive /\ dynamic' = dynamic /\ pc[u] = "idle"
      BY <2>6, <3>1, ZenonT(60) DEF Begins, maps
    <3>3. number'[u] = Hash[l] /\ label'[u] = l
      BY <2>6, <3>1, ZenonT(60) DEF Begins, TypeOK
    <3>4. IF pc'[u] = "insert" /\ l \in Dynamic
          THEN GetValue(dynamic, Hash[l]) = NoLabel /\ copies' = copies + 1
          ELSE copies' = copies
      BY <2>6, <3>1, ZenonT(60) DEF Begins, TypeOK
    <3>5. Found(dynamic, Hash[l]) <=> GetValue(dynamic, Hash[l]) # NoLabel
      <4>1. Hash[l] \in Keys
        BY CachedStringAssumption, SMTT(60) DEF Keys
      <4>2. /\ Dynamic \subseteq Labels /\ dynamic \in [Buckets -> BucketSet(Dynamic)]
            /\ GoodMap(dynamic)
        BY Zenon DEF Labels, TypeOK, MapsInv
      <4> QED
        BY <4>1, <4>2, GetFacts, ZenonT(60)
    <3>6. copies = Card + 0
      BY <2>c, <3>2, ZenonT(60)
    <3>7. copies = Card
      <4> HIDE DEF Card
      <4> QED
        BY <1>n, <3>6, SMTT(60)
    <3> QED
      BY <3>2, <3>3, <3>4, <3>5, <3>6, <3>7, ZenonT(60)
  <2> HIDE DEF CardNext, AddsNext
  <2>7. ASSUME alive', ~AddsNext(u), copies' = CardNext + 0
        PROVE  /\ AddsNext(u) => ~Found(dynamic', number'[u])
               /\ IF ~alive' THEN copies' = 0 ELSE copies' = CardNext + (IF AddsNext(u) THEN 1 ELSE 0)
    BY <2>7, Zenon
  <2> DEFINE Good == /\ AddsNext(u) => ~Found(dynamic', number'[u])
                     /\ IF ~alive' THEN copies' = 0
                        ELSE copies' = CardNext + (IF AddsNext(u) THEN 1 ELSE 0)
  <2>8. \A t \in Threads : Insert(t) \/ Announce(t) \/ Use(t) \/ PushEntry(t) \/ PushMapDone(t)
          \/ PushMap(t) => Good
    BY <2>4, <2>5, <2>7, ZenonT(60)
  <2>9. \A t \in Threads, l \in Labels : Begins(t, l) => Good
    BY <2>6, Zenon
  <2>10. Setup \/ Destroy \/ UNCHANGED vars => Good
    BY <2>1, <2>2, <2>3, ZenonT(60)
  <2> HIDE DEF Good
  <2>11. Good
    BY <2>8, <2>9, <2>10, NextCases, ZenonT(60)
  <2> QED
    BY <2>11, Zenon DEF Good
<1> QED
  BY <1>1, <1>2, <1>3, <1>4, <1>5, <1>6, ZenonT(60) DEF CopyInv, Entries

-----------------------------------------------------------------------------
(***************************************************************************)
(* The memory of the features.                                             *)
(***************************************************************************)

\* The blocks of a map, in the order of their allocation.
Blocks == {"object", "lock", "stack", "static", "dynamic"} \X Nat \X {"", "values", "keys", "data", "sizes"}

LEMMA MapBlock ==
  ASSUME NEW m \in {"static", "dynamic"}
  PROVE  /\ MapBlocks(m) \in Seq(Blocks) /\ Len(MapBlocks(m)) = Visited /\ Visited \in Nat
         /\ \A n \in 1..Visited : MapBlocks(m)[n] =
              <<m, (n + 1) \div 2, IF n % 2 = 1 THEN "values" ELSE "keys">>
<1>1. Visited \in Nat
  BY CachedStringAssumption, SMTT(60) DEF Visited
<1>2. ASSUME NEW n \in 1..Visited
      PROVE  <<m, (n + 1) \div 2, IF n % 2 = 1 THEN "values" ELSE "keys">> \in Blocks
  <2> DEFINE i == (n + 1) \div 2
             part == IF n % 2 = 1 THEN "values" ELSE "keys"
  <2>1. i \in Nat
    BY <1>1, SMTT(60)
  <2>2. part \in {"", "values", "keys", "data", "sizes"}
    BY Zenon
  <2> HIDE DEF i, part
  <2>3. m \in {"object", "lock", "stack", "static", "dynamic"}
    BY Zenon
  <2>4. \A A, C : m \in A /\ part \in C => <<m, i, part>> \in A \X Nat \X C
    BY <2>1, SMTT(60)
  <2> QED
    BY <2>2, <2>3, <2>4, ZenonT(60) DEF i, part, Blocks
<1>3. MapBlocks(m) = [n \in 1..Visited |->
                        <<m, (n + 1) \div 2, IF n % 2 = 1 THEN "values" ELSE "keys">>]
  BY Zenon DEF MapBlocks, Visited
<1>4. MapBlocks(m) \in [1..Visited -> Blocks]
  BY <1>2, <1>3, ZenonT(60)
<1> DEFINE q == MapBlocks(m)
<1> HIDE DEF Blocks, q, Visited
<1>5. q \in Seq(Blocks) /\ Len(q) = Visited
  <2>1. q \in [1..Visited -> Blocks]
    BY <1>4, Zenon DEF q
  <2> QED
    BY <1>1, <2>1, SMTT(60)
<1> QED
  BY <1>1, <1>3, <1>5, ZenonT(60) DEF q

\* ht_hash_map_init frees what it has allocated before, and ht_hash_map_deinit
\* all blocks.
LEMMA MapBlockFreed ==
  ASSUME NEW m \in {"static", "dynamic"}, NEW n \in 1..Visited
  PROVE  /\ MapBlocks(m)[n] \in MapDeinit(m)
         /\ \A i \in 1..(n - 1) :
              MapBlocks(m)[i] \in InitFails(m, MapBlocks(m)[n][2], MapBlocks(m)[n][3])
<1> DEFINE Part(i) == IF i % 2 = 1 THEN "values" ELSE "keys"
           Half(i) == (i + 1) \div 2
<1>1. Visited = 2 * BucketCount /\ BucketCount \in Nat /\ n \in Nat /\ n >= 1 /\ n <= Visited
  BY CachedStringAssumption, SMTT(60) DEF Visited
<1>2. \A i \in 1..n : MapBlocks(m)[i] = <<m, Half(i), Part(i)>>
  <2>1. \A i \in 1..n : i \in 1..Visited
    BY <1>1, SMT
  <2> QED
    BY <2>1, MapBlock, ZenonT(60)
<1>3. \A i \in 1..n : /\ Half(i) \in 1..BucketCount
                      /\ <<m, Half(i), Part(i)>> \in Bucket(m, Half(i))
  <2>1. \A i \in 1..n : Half(i) \in 1..BucketCount
    BY <1>1, SMT
  <2>2. \A i \in 1..n : <<m, Half(i), Part(i)>> \in Bucket(m, Half(i))
    BY Zenon DEF Bucket
  <2> QED
    BY <2>1, <2>2, Zenon
<1>4. n \in 1..n
  BY <1>1, SMTT(60)
<1>5. MapBlocks(m)[n] \in MapDeinit(m)
  <2> HIDE DEF Half, Part
  <2> QED
    BY <1>2, <1>3, <1>4, Zenon DEF MapDeinit
<1>6. ASSUME NEW i \in 1..(n - 1)
      PROVE  MapBlocks(m)[i] \in InitFails(m, Half(n), Part(n))
  <2>1. i \in 1..n
    BY <1>1, SMT
  <2>2. CASE Half(i) \in 1..(Half(n) - 1)
    <3> HIDE DEF Half, Part
    <3> QED
      BY <1>2, <1>3, <2>1, <2>2, ZenonT(60) DEF InitFails
  <2>3. CASE Half(i) \notin 1..(Half(n) - 1)
    <3>1. Half(i) = Half(n) /\ i % 2 = 1 /\ n % 2 # 1
      <4> DEFINE a == Half(i)
                 b == Half(n)
                 odd(k) == k % 2 = 1
      <4>1. i \in Nat /\ i >= 1 /\ i < n /\ a \in Nat /\ b \in Nat
        BY <1>1, SMTT(60)
      <4>2. 2 * a = IF odd(i) THEN i + 1 ELSE i
        BY <4>1, SMTT(60)
      <4>3. 2 * b = IF odd(n) THEN n + 1 ELSE n
        BY <1>1, SMTT(60)
      <4>4. a \notin 1..(b - 1)
        BY <2>3, ZenonT(60)
      <4> HIDE DEF Half, odd, a, b
      <4>5. a = b /\ odd(i) /\ ~odd(n)
        BY <1>1, <4>1, <4>2, <4>3, <4>4, SMTT(60)
      <4> QED
        BY <4>5, Zenon DEF a, b, odd
    <3>2. Part(i) = "values" /\ Part(n) = "keys"
      BY <3>1, Zenon
    <3> HIDE DEF Half, Part
    <3>3. MapBlocks(m)[i] = <<m, Half(n), "values">>
      BY <1>2, <2>1, <3>1, <3>2, ZenonT(60)
    <3>4. ASSUME NEW x, NEW part, part = "keys"
          PROVE  <<m, x, "values">> \in InitFails(m, x, part)
      BY <3>4, ZenonT(60) DEF InitFails
    <3> QED
      BY <3>2, <3>3, <3>4, ZenonT(60)
  <2> QED
    BY <2>2, <2>3, Zenon
<1>7. MapBlocks(m)[n][2] = Half(n) /\ MapBlocks(m)[n][3] = Part(n)
  <2>1. MapBlocks(m)[n] = <<m, Half(n), Part(n)>>
    BY <1>2, <1>4, ZenonT(60)
  <2> HIDE DEF Half, Part
  <2> QED
    BY <2>1, SMTT(60)
<1> HIDE DEF Half, Part
<1> QED
  BY <1>5, <1>6, <1>7, ZenonT(60)

\* The allocations of ht_feature_cached_string_create one by one.
CachedBlock(ts, n) ==
  \/ n = 1 /\ CachedAllocations(ts)[n] = Object
  \/ /\ n - 1 \in 1..Visited
     /\ CachedAllocations(ts)[n] = MapBlocks("static")[n - 1]
  \/ /\ n - 1 - Visited \in 1..Visited
     /\ CachedAllocations(ts)[n] = MapBlocks("dynamic")[n - 1 - Visited]
  \/ n = 2 * Visited + 2 /\ CachedAllocations(ts)[n] = Lock

LEMMA CachedBlocks ==
  ASSUME NEW ts \in BOOLEAN
  PROVE  /\ \A n \in DOMAIN CachedAllocations(ts) : n \in Nat /\ CachedBlock(ts, n)
         /\ \A n \in DOMAIN CachedAllocations(ts) : \A i \in 1..(n - 1) :
              i \in DOMAIN CachedAllocations(ts)
<1> DEFINE s == MapBlocks("static")
           d == MapBlocks("dynamic")
           o == <<Object>>
           k == IF ts THEN <<Lock>> ELSE << >>
           K == IF ts THEN 1 ELSE 0
<1>1. /\ s \in Seq(Blocks) /\ d \in Seq(Blocks) /\ Len(s) = Visited /\ Len(d) = Visited
      /\ Visited \in Nat
  BY MapBlock, Zenon
<1>2. Object \in Blocks /\ Lock \in Blocks
  <2>1. \A A, C, x, y : x \in A /\ y \in C => <<x, 0, y>> \in A \X Nat \X C
    BY SMT
  <2> QED
    BY <2>1, Zenon DEF Object, Lock, Blocks
<1>3. o \in Seq(Blocks) /\ Len(o) = 1 /\ o[1] = Object
  <2> HIDE DEF Blocks
  <2> QED
    BY <1>2, SMTT(60)
<1>4. k \in Seq(Blocks) /\ Len(k) = K /\ (ts => k[1] = Lock) /\ K \in {0, 1} /\ (K = 1 <=> ts)
  <2> HIDE DEF Blocks
  <2>1. <<Lock>> \in Seq(Blocks) /\ Len(<<Lock>>) = 1 /\ <<Lock>>[1] = Lock
    BY <1>2, SMTT(60)
  <2>2. << >> \in Seq(Blocks) /\ Len(<< >>) = 0
    BY SMTT(60)
  <2>3. CASE ts
    BY <2>1, <2>3, SMTT(60)
  <2>4. CASE ~ts
    BY <2>2, <2>4, SMTT(60)
  <2> QED
    BY <2>3, <2>4, ZenonT(60)
<1>5. CachedAllocations(ts) = o \o s \o d \o k
  BY Zenon DEF CachedAllocations
<1> HIDE DEF s, d, o, k, K, Blocks
<1> DEFINE a == o \o s
           b == a \o d
           c == b \o k
<1>6. /\ a \in Seq(Blocks) /\ Len(a) = 1 + Visited
      /\ \A i \in 1..(1 + Visited) : a[i] = IF i <= 1 THEN o[i] ELSE s[i - 1]
  <2>1. /\ o \o s \in Seq(Blocks) /\ Len(o \o s) = Len(o) + Len(s)
        /\ \A i \in 1..(Len(o) + Len(s)) :
             (o \o s)[i] = IF i <= Len(o) THEN o[i] ELSE s[i - Len(o)]
    BY <1>1, <1>3, CatFacts, Zenon
  <2> QED
    BY <1>1, <1>3, <2>1, ZenonT(60)
<1> HIDE DEF a
<1>7. /\ b \in Seq(Blocks) /\ Len(b) = 1 + Visited + Visited
      /\ \A i \in 1..(1 + Visited + Visited) :
           b[i] = IF i <= 1 + Visited THEN a[i] ELSE d[i - (1 + Visited)]
  <2>1. /\ a \o d \in Seq(Blocks) /\ Len(a \o d) = Len(a) + Len(d)
        /\ \A i \in 1..(Len(a) + Len(d)) :
             (a \o d)[i] = IF i <= Len(a) THEN a[i] ELSE d[i - Len(a)]
    BY <1>1, <1>6, CatFacts, ZenonT(60)
  <2> QED
    BY <1>1, <1>6, <2>1, Zenon
<1> HIDE DEF b
<1>8. /\ c \in Seq(Blocks) /\ Len(c) = 1 + Visited + Visited + K
      /\ \A i \in 1..(1 + Visited + Visited + K) :
           c[i] = IF i <= 1 + Visited + Visited THEN b[i] ELSE k[i - (1 + Visited + Visited)]
  <2>1. /\ b \o k \in Seq(Blocks) /\ Len(b \o k) = Len(b) + Len(k)
        /\ \A i \in 1..(Len(b) + Len(k)) :
             (b \o k)[i] = IF i <= Len(b) THEN b[i] ELSE k[i - Len(b)]
    BY <1>4, <1>7, CatFacts, SMTT(60)
  <2> QED
    BY <1>4, <1>7, <2>1, ZenonT(60)
<1>9. CachedAllocations(ts) = c
  BY <1>5, ZenonT(60) DEF a, b
<1> HIDE DEF c
<1>10. DOMAIN c = 1..(1 + Visited + Visited + K)
  BY <1>8, SeqFacts, ZenonT(60)
<1> HIDE DEF Visited
<1>11. ASSUME NEW n \in 1..(1 + Visited + Visited + K)
       PROVE  /\ n \in Nat
              /\ \/ n = 1 /\ c[n] = Object
                 \/ n - 1 \in 1..Visited /\ c[n] = s[n - 1]
                 \/ n - 1 - Visited \in 1..Visited /\ c[n] = d[n - 1 - Visited]
                 \/ n = 2 * Visited + 2 /\ c[n] = Lock
  <2>1. n \in Nat /\ n >= 1 /\ n <= 1 + Visited + Visited + K /\ K \in Nat
    BY <1>1, <1>4, SMTT(60)
  <2>2. CASE n = 1
    <3>1. c[1] = b[1] /\ b[1] = a[1] /\ a[1] = o[1]
      <4>1. 1 \in 1..(1 + Visited) /\ 1 \in 1..(1 + Visited + Visited)
            /\ 1 \in 1..(1 + Visited + Visited + K) /\ 1 <= 1 + Visited /\ 1 <= 1 /\ 1 <= 1 + Visited + Visited
        BY <1>1, <2>1, SMTT(60)
      <4> HIDE DEF o, K
      <4> QED
        BY <1>6, <1>7, <1>8, <4>1, ZenonT(60)
    <3> QED
      BY <1>3, <2>1, <2>2, <3>1, ZenonT(60)
  <2>3. CASE n > 1 /\ n <= 1 + Visited
    BY <1>1, <1>6, <1>7, <1>8, <2>1, <2>3, SMTT(60)
  <2>4. CASE n > 1 + Visited /\ n <= 1 + Visited + Visited
    <3>1. n - (1 + Visited) = n - 1 - Visited /\ n - 1 - Visited \in 1..Visited
      BY <1>1, <2>1, <2>4, SMTT(60)
    <3>2. c[n] = d[n - (1 + Visited)]
      BY <1>1, <1>7, <1>8, <2>1, <2>4, SMTT(60)
    <3> QED
      BY <2>1, <3>1, <3>2, ZenonT(60)
  <2>5. CASE n > 1 + Visited + Visited
    <3>1. n - (1 + Visited + Visited) = 1 /\ K = 1 /\ n = 2 * Visited + 2
      BY <1>1, <1>4, <2>1, <2>5, SMTT(60)
    <3>2. c[n] = k[n - (1 + Visited + Visited)]
      BY <1>1, <1>8, <2>1, <2>5, SMTT(60)
    <3> QED
      BY <1>4, <2>1, <3>1, <3>2, ZenonT(60)
  <2> QED
    BY <1>1, <2>1, <2>2, <2>3, <2>4, <2>5, SMTT(60)
<1>12. \A n \in 1..(1 + Visited + Visited + K) : \A i \in 1..(n - 1) :
         i \in 1..(1 + Visited + Visited + K)
  BY <1>1, <1>4, SMTT(60)
<1> QED
  BY <1>9, <1>10, <1>11, <1>12, ZenonT(60) DEF CachedBlock, s, d

\* What was allocated before a failure is freed, and a feature is destroyed as
\* a whole.
LEMMA AllocationsFreed ==
  ASSUME NEW f \in Features, NEW ts \in BOOLEAN
  PROVE  \A n \in DOMAIN Allocations(f, ts) :
           /\ Allocations(f, ts)[n] \in Destroyed(f)
           /\ \A i \in 1..(n - 1) : Allocations(f, ts)[i] \in FreedOnFailure(Allocations(f, ts)[n])
<1>1. CASE f = "callstack"
  <2> DEFINE x == <<"stack", 0, "data">>
             y == <<"stack", 0, "sizes">>
  <2>1. Allocations(f, ts) = <<Object, x, y>> /\ Destroyed(f) = {x, y} \cup {Object}
    BY <1>1, ZenonT(60) DEF Allocations, CallstackAllocations, Destroyed, StackDeinit
  <2>2. FreedOnFailure(x) = {Object} \cup {} /\ FreedOnFailure(y) = {Object} \cup {x}
    BY SMTT(60) DEF FreedOnFailure
  <2> HIDE DEF x, y
  <2> DEFINE q == <<Object, x, y>>
  <2>3. DOMAIN q = {1, 2, 3} /\ q[1] = Object /\ q[2] = x /\ q[3] = y
    BY SMT
  <2> HIDE DEF q
  <2>4. ASSUME NEW n \in {1, 2, 3}, NEW i \in 1..(n - 1)
        PROVE  q[i] \in FreedOnFailure(q[n])
    <3>1. (n = 2 /\ i = 1) \/ (n = 3 /\ i = 1) \/ (n = 3 /\ i = 2)
      BY <2>4, SMTT(60)
    <3> QED
      BY <2>2, <2>3, <3>1, ZenonT(60)
  <2>5. \A n \in {1, 2, 3} : q[n] \in {x, y} \cup {Object}
    BY <2>3, ZenonT(60)
  <2> QED
    BY <2>1, <2>3, <2>4, <2>5, ZenonT(60) DEF q
<1>2. CASE f = "cached"
  <2> DEFINE A == CachedAllocations(ts)
  <2>1. f # "callstack"
    BY <1>2, Zenon
  <2>2. /\ Allocations(f, ts) = A
        /\ Destroyed(f) = MapDeinit("dynamic") \cup MapDeinit("static") \cup {Lock, Object}
    BY <2>1, ZenonT(60) DEF Allocations, Destroyed
  <2>3. \A n \in DOMAIN A : n \in Nat /\ CachedBlock(ts, n) /\ \A i \in 1..(n - 1) : i \in DOMAIN A
    BY CachedBlocks, ZenonT(60)
  <2>4. /\ \A n \in 1..Visited : MapBlocks("static")[n] \in MapDeinit("static")
        /\ \A n \in 1..Visited : MapBlocks("dynamic")[n] \in MapDeinit("dynamic")
    BY MapBlockFreed, ZenonT(60)
  <2>5. Visited \in Nat
    BY CachedStringAssumption, SMTT(60) DEF Visited
  <2>6. ASSUME NEW n \in DOMAIN A
        PROVE  A[n] \in Destroyed(f)
    BY <2>2, <2>3, <2>4, <2>6, ZenonT(60) DEF CachedBlock
  <2>7. ASSUME NEW n \in DOMAIN A, NEW i \in 1..(n - 1)
        PROVE  A[i] \in FreedOnFailure(A[n])
    <3>1. n \in Nat /\ CachedBlock(ts, n) /\ i \in DOMAIN A
      BY <2>3, <2>7, ZenonT(60)
    <3>2. CachedBlock(ts, i)
      BY <2>3, <3>1, ZenonT(60)
    <3>3. i \in Nat /\ i >= 1 /\ i < n
      BY <2>7, <3>1, SMTT(60)
    <3> HIDE DEF Visited
    <3>4. CASE n = 1
      BY <3>3, <3>4, SMTT(60)
    <3>5. CASE n - 1 \in 1..Visited /\ A[n] = MapBlocks("static")[n - 1]
      <4> DEFINE e == MapBlocks("static")[n - 1]
      <4>1. e[1] = "static"
        BY <3>5, MapBlock, SMTT(60)
      <4>2. FreedOnFailure(e) = InitFails("static", e[2], e[3]) \cup {Object}
        <5> HIDE DEF e
        <5> QED
          BY <4>1, SMTT(60) DEF FreedOnFailure
      <4>3. A[i] = Object \/ (i - 1 \in 1..(n - 1 - 1) /\ A[i] = MapBlocks("static")[i - 1])
        <5>1. i # 2 * Visited + 2 /\ i - 1 - Visited \notin 1..Visited
          BY <2>5, <3>1, <3>3, <3>5, SMTT(60)
        <5>2. i - 1 \in 1..Visited => i - 1 \in 1..(n - 1 - 1)
          BY <2>5, <3>1, <3>3, SMTT(60)
        <5> QED
          BY <3>2, <5>1, <5>2, ZenonT(60) DEF CachedBlock
      <4>4. \A j \in 1..(n - 1 - 1) : MapBlocks("static")[j] \in InitFails("static", e[2], e[3])
        BY <3>5, MapBlockFreed, ZenonT(60)
      <4> QED
        BY <3>5, <4>2, <4>3, <4>4, ZenonT(60)
    <3>6. CASE n - 1 - Visited \in 1..Visited /\ A[n] = MapBlocks("dynamic")[n - 1 - Visited]
      <4> DEFINE e == MapBlocks("dynamic")[n - 1 - Visited]
      <4>1. e[1] = "dynamic"
        BY <3>6, MapBlock, SMTT(60)
      <4>2. FreedOnFailure(e) = InitFails("dynamic", e[2], e[3]) \cup MapDeinit("static") \cup {Object}
        <5> HIDE DEF e
        <5> QED
          BY <4>1, SMTT(60) DEF FreedOnFailure
      <4>3. \/ A[i] = Object \/ A[i] \in MapDeinit("static")
            \/ /\ i - 1 - Visited \in 1..(n - 1 - Visited - 1)
               /\ A[i] = MapBlocks("dynamic")[i - 1 - Visited]
        <5>1. i # 2 * Visited + 2
          BY <2>5, <3>1, <3>3, <3>6, SMTT(60)
        <5>2. i - 1 - Visited \in 1..Visited => i - 1 - Visited \in 1..(n - 1 - Visited - 1)
          BY <2>5, <3>1, <3>3, SMTT(60)
        <5> QED
          BY <2>4, <3>2, <5>1, <5>2, ZenonT(60) DEF CachedBlock
      <4>4. \A j \in 1..(n - 1 - Visited - 1) :
              MapBlocks("dynamic")[j] \in InitFails("dynamic", e[2], e[3])
        BY <3>6, MapBlockFreed, Zenon
      <4> QED
        BY <3>6, <4>2, <4>3, <4>4, ZenonT(60)
    <3>7. CASE n = 2 * Visited + 2 /\ A[n] = Lock
      <4>1. FreedOnFailure(Lock) = MapDeinit("dynamic") \cup MapDeinit("static") \cup {Object}
        BY SMTT(60) DEF FreedOnFailure, Lock
      <4>2. i # 2 * Visited + 2
        BY <2>5, <3>1, <3>3, <3>7, SMTT(60)
      <4>3. A[i] \in MapDeinit("dynamic") \cup MapDeinit("static") \cup {Object}
        BY <2>4, <3>2, <4>2, Zenon DEF CachedBlock
      <4> QED
        BY <3>7, <4>1, <4>3, ZenonT(60)
    <3> QED
      BY <3>1, <3>4, <3>5, <3>6, <3>7, ZenonT(60) DEF CachedBlock
  <2> QED
    BY <2>2, <2>6, <2>7, ZenonT(60)
<1> QED
  BY <1>1, <1>2, ZenonT(60) DEF Features

\* The blocks of feature f, allocated with lock if ts.
BlocksOf(f, ts) == Owned(f, Range(Allocations(f, ts)))

LEMMA HeapIs ==
  OwnsItsMemory <=> \A x : x \in heap <=> \E g \in Features : GetFeature(g) /\ x \in BlocksOf(g, safe)
BY Zenon DEF OwnsItsMemory, BlocksOf

LEMMA NothingLost ==
  ASSUME NEW f \in Features, NEW ts \in BOOLEAN
  PROVE  /\ Range(Allocations(f, ts)) \subseteq Destroyed(f)
         /\ BlocksOf(f, ts) \subseteq Owned(f, Destroyed(f))
<1>1. Range(Allocations(f, ts)) \subseteq Destroyed(f)
  BY AllocationsFreed, Zenon DEF Range
<1>2. \A A, C : A \subseteq C => Owned(f, A) \subseteq Owned(f, C)
  BY SMT DEF Owned
<1> QED
  BY <1>1, <1>2, Zenon DEF BlocksOf

LEMMA LockIrrelevant ==
  ASSUME NEW ts, NEW other
  PROVE  BlocksOf("callstack", ts) = BlocksOf("callstack", other)
BY Zenon DEF BlocksOf, Allocations

LEMMA FeatureStep == TypeOK /\ FeatureInv /\ [Next]_vars => FeatureInv'
<1> SUFFICES ASSUME TypeOK, FeatureInv, [Next]_vars PROVE FeatureInv'
  OBVIOUS
<1>t. /\ id \in [Features -> 0..MaxFeatures] /\ count \in Nat
      /\ slots \in [0..(MaxFeatures - 1) -> Features \cup {"none"}]
      /\ safe \in BOOLEAN /\ MaxFeatures \in Nat
  BY FeatureAssumption, Zenon DEF TypeOK, FeatureType
<1>d. \A f \in Features : id[f] # Invalid => id[f] \in DOMAIN slots
  BY <1>t, SMT DEF Invalid
<1>n. \A f \in Features : f # "none"
  BY Zenon DEF Features
<1>h. \A x : x \in heap <=> \E g \in Features : GetFeature(g) /\ x \in BlocksOf(g, safe)
  BY HeapIs, Zenon DEF FeatureInv
<1>p. ASSUME \A x : x \in heap' <=> \E g \in Features : GetFeature(g)' /\ x \in BlocksOf(g, safe')
      PROVE  OwnsItsMemory'
  BY <1>p, Zenon DEF OwnsItsMemory, BlocksOf
<1>1. CASE UNCHANGED featureVars
  <2>1. \A g : GetFeature(g)' <=> GetFeature(g)
    BY <1>1, Zenon DEF featureVars, GetFeature, Invalid
  <2>2. OwnsItsMemory'
    BY <1>1, <1>h, <1>p, <2>1, ZenonT(60) DEF featureVars
  <2> QED
    BY <1>1, <2>2, Zenon DEF featureVars, FeatureInv, Invalid
<1>2. CASE RegisterCoreFeatures
  <2> DEFINE Id(i) == IF i < MaxFeatures THEN i ELSE Invalid
  <2>1. /\ id = [f \in Features |-> Invalid]
        /\ id' = [f \in Features |-> IF f = "cached" THEN Id(count) ELSE Id(count + 1)]
        /\ slots' = slots /\ safe' = safe /\ heap' = heap
    BY <1>2, Zenon DEF RegisterCoreFeatures
  <2>2. \A i \in DOMAIN slots : slots[i] = "none"
    BY <2>1, ZenonT(60) DEF FeatureInv
  <2>3. Id(count) = Id(count + 1) => Id(count) = Invalid
    BY <1>t, SMTT(60) DEF Invalid
  <2>4. \A f \in Features : id'[f] = Invalid \/ id'[f] \in DOMAIN slots
    <3>1. \A i \in Nat : Id(i) = Invalid \/ Id(i) \in 0..(MaxFeatures - 1)
      BY <1>t, SMTT(60) DEF Invalid
    <3>2. count + 1 \in Nat
      BY <1>t, SMTT(60)
    <3> HIDE DEF Id
    <3> QED
      BY <1>t, <2>1, <3>1, <3>2, ZenonT(60)
  <2> HIDE DEF Id
  <2>5. id'["cached"] = id'["callstack"] => id'["cached"] = Invalid
    BY <2>1, <2>3, Zenon DEF Features
  <2>6. \A g \in Features : ~GetFeature(g) /\ ~GetFeature(g)'
    BY <1>n, <2>1, <2>2, <2>4, ZenonT(60) DEF GetFeature, Invalid
  <2>7. OwnsItsMemory'
    BY <1>h, <1>p, <2>1, <2>6, ZenonT(60)
  <2> QED
    BY <2>1, <2>2, <2>5, <2>7, ZenonT(60) DEF FeatureInv, Invalid
<1>3. ASSUME NEW f \in Features, NEW ts \in BOOLEAN, EnableFails(f, ts)
      PROVE  UNCHANGED featureVars
  <2> DEFINE A == Allocations(f, ts)
  <2>1. PICK n \in DOMAIN A :
          heap' = heap \cup Owned("lost", {A[i] : i \in 1..(n - 1)} \ FreedOnFailure(A[n]))
    BY <1>3, Zenon DEF EnableFails
  <2>2. {A[i] : i \in 1..(n - 1)} \ FreedOnFailure(A[n]) = {}
    BY AllocationsFreed, Zenon
  <2>3. Owned("lost", {}) = {}
    BY SMT DEF Owned
  <2>4. heap' = heap
    BY <2>1, <2>2, <2>3, ZenonT(60)
  <2> QED
    BY <1>3, <2>4, ZenonT(60) DEF EnableFails, featureVars
<1>4. ASSUME NEW f \in Features, NEW ts \in BOOLEAN, Enable(f, ts),
             ~(id[f] # Invalid /\ slots[id[f]] = "none")
      PROVE  UNCHANGED featureVars
  <2>1. heap' = heap \cup Owned("lost", Range(Allocations(f, ts)) \ Destroyed(f))
    BY <1>4, Zenon DEF Enable
  <2>2. Range(Allocations(f, ts)) \ Destroyed(f) = {}
    BY NothingLost, ZenonT(60)
  <2>3. Owned("lost", {}) = {}
    BY SMT DEF Owned
  <2>4. heap' = heap
    BY <2>1, <2>2, <2>3, ZenonT(60)
  <2> QED
    BY <1>4, <2>4, ZenonT(60) DEF Enable, featureVars
<1>5. ASSUME NEW f \in Features, NEW ts \in BOOLEAN, Enable(f, ts),
             id[f] # Invalid, slots[id[f]] = "none"
      PROVE  FeatureInv'
  <2>1. /\ slots' = [slots EXCEPT ![id[f]] = f]
        /\ safe' = IF f = "cached" THEN ts ELSE safe
        /\ heap' = heap \cup BlocksOf(f, ts)
        /\ id' = id
    BY <1>5, Zenon DEF Enable, BlocksOf
  <2>2. \A g \in Features : g # f => id[g] # id[f]
    BY <1>5, ZenonT(60) DEF FeatureInv, Features
  <2>3. \A g \in Features : GetFeature(g)' <=> GetFeature(g) \/ g = f
    <3>1. GetFeature(f)'
      BY <1>5, <1>d, <1>t, <2>1, ZenonT(60) DEF GetFeature, Invalid
    <3>2. ASSUME NEW g \in Features, g # f
          PROVE  GetFeature(g)' <=> GetFeature(g)
      <4>1. id[g] # Invalid => slots'[id[g]] = slots[id[g]]
        BY <1>d, <1>t, <2>1, <2>2, <3>2, ZenonT(60)
      <4> QED
        BY <2>1, <4>1, Zenon DEF GetFeature, Invalid
    <3> QED
      BY <3>1, <3>2, ZenonT(60)
  <2>4. ~GetFeature(f)
    BY <1>5, <1>n, Zenon DEF GetFeature
  <2>5. /\ BlocksOf(f, safe') = BlocksOf(f, ts)
        /\ \A g \in Features : g # f => BlocksOf(g, safe') = BlocksOf(g, safe)
    <3>1. CASE f = "cached"
      BY <2>1, <3>1, LockIrrelevant, ZenonT(60) DEF Features
    <3>2. CASE f = "callstack"
      <4>1. safe' = safe
        BY <2>1, <3>2, ZenonT(60)
      <4> QED
        BY <3>2, <4>1, LockIrrelevant, ZenonT(60)
    <3> QED
      BY <3>1, <3>2, Zenon DEF Features
  <2>6. \A x : x \in heap' <=> \E g \in Features : GetFeature(g)' /\ x \in BlocksOf(g, safe')
    <3>1. ASSUME NEW x
          PROVE  x \in heap' <=> x \in BlocksOf(f, ts)
                   \/ \E g \in Features : GetFeature(g) /\ x \in BlocksOf(g, safe)
      BY <1>h, <2>1, ZenonT(60)
    <3>2. ASSUME NEW x
          PROVE  (\E g \in Features : GetFeature(g)' /\ x \in BlocksOf(g, safe'))
                   <=> x \in BlocksOf(f, ts)
                         \/ \E g \in Features : GetFeature(g) /\ x \in BlocksOf(g, safe)
      BY <2>3, <2>4, <2>5, ZenonT(60)
    <3> QED
      BY <3>1, <3>2, ZenonT(60)
  <2>7. OwnsItsMemory'
    BY <1>p, <2>6, ZenonT(60)
  <2> QED
    BY <1>5, <2>1, <2>7, ZenonT(60) DEF FeatureInv, Invalid
<1>6. CASE Destroy
  <2>1. /\ heap' = heap \ UNION {Owned(f, Destroyed(f)) : f \in {g \in Features : GetFeature(g)}}
        /\ slots' = [i \in DOMAIN slots |-> "none"] /\ id' = id
    BY <1>6, Zenon DEF Destroy, DestroyFeatures
  <2>2. heap' = {}
    <3>1. ASSUME NEW x \in heap
          PROVE  \E g \in Features : GetFeature(g) /\ x \in Owned(g, Destroyed(g))
      BY <1>h, <1>t, NothingLost, ZenonT(60)
    <3> QED
      BY <2>1, <3>1, Zenon
  <2>3. \A g \in Features : ~GetFeature(g)'
    BY <1>d, <1>n, <2>1, ZenonT(60) DEF GetFeature, Invalid
  <2>4. OwnsItsMemory'
    BY <1>p, <2>2, <2>3, ZenonT(60)
  <2>5. \A i \in DOMAIN slots' : slots'[i] = "none"
    BY <2>1, Zenon
  <2> QED
    BY <2>1, <2>4, <2>5, ZenonT(60) DEF FeatureInv, Invalid
<1>7. CASE Setup
  BY <1>1, <1>2, <1>3, <1>4, <1>5, <1>7, ZenonT(60) DEF Setup
<1>8. \A t \in Threads : Insert(t) \/ Announce(t) \/ Use(t) \/ PushMap(t) \/ PushEntry(t)
        \/ PushMapDone(t) => UNCHANGED featureVars
  BY ZenonT(60) DEF Insert, Announce, Use, PushMap, PushEntry, PushMapDone
<1>9. \A t \in Threads, l \in Labels : Begins(t, l) => UNCHANGED featureVars
  BY Zenon DEF Begins
<1>10. UNCHANGED vars => UNCHANGED featureVars
  BY Zenon DEF vars
<1> QED
  BY <1>1, <1>6, <1>7, <1>8, <1>9, <1>10, NextCases, ZenonT(60)

-----------------------------------------------------------------------------
(***************************************************************************)
(* The theorems.                                                           *)
(***************************************************************************)

LEMMA MapInitFacts ==
  /\ \A L : MapInit \in [Buckets -> BucketSet(L)]
  /\ GoodMap(MapInit) /\ Entries(MapInit) = {}
  /\ \A h \in Keys : ~Found(MapInit, h)
<1> DEFINE bag == [data |-> << >>, cap |-> BucketCapacity, block |-> BucketCapacity]
           b == [keys |-> BagInit(BucketCapacity, 1), values |-> BagInit(BucketCapacity, 1)]
<1>0. BucketCapacity \in Nat /\ BucketCapacity >= 2
  BY CachedStringAssumption, SMTT(60)
<1>1. \A L : b \in BucketSet(L)
  <2>1. \A L : BagInit(BucketCapacity, 1) \in BagOf(L)
    BY <1>0, SMTT(60) DEF BagInit, BagOf
  <2> QED
    BY <2>1, SMTT(60) DEF BucketSet
<1>2. /\ b.keys.data = << >> /\ b.values.data = << >>
      /\ b.keys.cap = BucketCapacity /\ b.values.cap = BucketCapacity
  BY SMT DEF BagInit
<1>3. MapInit = [i \in Buckets |-> b]
  BY Zenon DEF MapInit
<1> HIDE DEF b
<1>4. Len(<< >>) = 0 /\ DOMAIN << >> = {}
  BY SMT
<1>5. GoodBucket(b)
  <2>1. Len(b.values.data) <= b.values.cap /\ b.values.cap >= 2
    BY <1>0, <1>2, <1>4, SMTT(60)
  <2> QED
    BY <1>2, <1>4, <2>1, ZenonT(60) DEF GoodBucket
<1>6. \A i \in Buckets : MapInit[i] = b
  BY <1>3, Zenon
<1>7. Entries(MapInit) = {}
  <2>1. \A i \in Buckets : DOMAIN MapInit[i].keys.data = {}
    BY <1>2, <1>4, <1>6, Zenon
  <2>2. \A i : {i} \X {} = {}
    BY SMT
  <2> QED
    BY <2>1, <2>2, Zenon DEF Entries
<1>8. \A h \in Keys : ~Found(MapInit, h)
  BY <1>2, <1>4, <1>6, BucketOfIn, ZenonT(60) DEF Found
<1> QED
  BY <1>1, <1>3, <1>5, <1>6, <1>7, <1>8, ZenonT(60) DEF GoodMap

LEMMA InitIInv == Init => IInv
<1> SUFFICES ASSUME Init PROVE IInv
  OBVIOUS
<1>1. /\ static = MapInit /\ dynamic = MapInit /\ overrun = FALSE /\ lock = Nobody
      /\ pc = [t \in Threads |-> "idle"] /\ users = {} /\ copies = 0 /\ stream = << >>
      /\ alive = TRUE
  BY Zenon DEF Init
<1>2. DOMAIN stream = {} /\ stream \in Seq(EventSet)
  <2>1. << >> \in Seq(EventSet) /\ DOMAIN << >> = {}
    <3> HIDE DEF EventSet
    <3> QED
      BY SMT
  <2> QED
    BY <1>1, <2>1, ZenonT(60)
<1>3. \A t \in Threads : pc[t] = "idle" /\ lock # t
  BY <1>1, CachedStringAssumption, Zenon
<1>4. FeatureType /\ FeatureInv
  <2>1. /\ id = [f \in Features |-> Invalid] /\ count \in OtherFeatures
        /\ slots = [i \in 0..(MaxFeatures - 1) |-> "none"] /\ safe = FALSE /\ heap = {}
    BY Zenon DEF Init, FeaturesInit
  <2>2. Invalid \in 0..MaxFeatures
    BY FeatureAssumption, SMTT(60) DEF Invalid
  <2>3. FeatureType
    BY <2>1, <2>2, FeatureAssumption, Zenon DEF FeatureType
  <2>4. \A g \in Features : ~GetFeature(g)
    BY <2>1, Zenon DEF GetFeature
  <2>5. OwnsItsMemory
    BY <2>1, <2>4, HeapIs, ZenonT(60)
  <2> QED
    BY <2>1, <2>3, <2>5, ZenonT(60) DEF FeatureInv, Features
<1>5. TypeOK
  <2>1. 0 \in 0..(Visited - 1) /\ 1 \in Nat \ {0} /\ 0 \in Nat
    BY CachedStringAssumption, SMTT(60) DEF Visited
  <2>2. label \in [Threads -> Labels \cup {NoLabel}] /\ number \in [Threads -> Nat]
    BY <2>1, Zenon DEF Init
  <2>3. pc \in [Threads -> {"idle", "insert", "event", "use", "map"}]
    BY <1>1, Zenon
  <2> QED
    BY <1>1, <1>2, <1>4, <2>1, <2>2, <2>3, MapInitFacts, ZenonT(60) DEF Init, TypeOK
<1>6. MapsInv
  BY <1>1, MapInitFacts, Zenon DEF MapsInv
<1>7. CallInv
  BY <1>3, Zenon DEF CallInv, Call
<1>8. EventInv /\ OnceInv /\ CursorInv
  BY <1>2, <1>3, Zenon DEF EventInv, OnceInv, CursorInv
<1>9. OwnInv
  <2>1. \A h \in Numbers : ~Found(static, h) /\ ~Found(dynamic, h)
    <3>1. \A h \in Numbers : h \in Keys
      BY CachedStringAssumption, SMTT(60) DEF Numbers, Keys
    <3> QED
      BY <1>1, <3>1, MapInitFacts, ZenonT(60)
  <2>2. MappingBeforeUse
    BY <1>2, Zenon DEF MappingBeforeUse
  <2> QED
    BY <1>3, <2>1, <2>2, ZenonT(60) DEF OwnInv
<1>10. CopyInv
  <2>1. IsFiniteSet(users) /\ Entries(dynamic) = {} /\ IsFiniteSet(Entries(dynamic))
    BY <1>1, MapInitFacts, FS_EmptySet, Zenon
  <2>2. \A u : users # {u}
    BY <1>1, Zenon
  <2> QED
    BY <1>1, <2>1, <2>2, Zenon DEF CopyInv
<1> QED
  BY <1>4, <1>5, <1>6, <1>7, <1>8, <1>9, <1>10, ZenonT(60) DEF IInv

\* Whatever the threads do, wherever memory runs out and however the hashes
\* collide, the lock, the two maps, the running push_map and the features of the
\* timeline keep to the inductive invariant.
THEOREM Invariant == Spec => []IInv
<1>1. IInv /\ [Next]_vars => IInv'
  BY TypeStep, CallStep, EventStep, OnceStep, CursorStep, OwnStep, CopyStep, FeatureStep, ZenonT(60)
     DEF IInv
<1> QED
  BY <1>1, InitIInv, PTL DEF Spec

\* ht_hash_map_insert keeps keys and values paired and no key twice, and writes
\* nothing behind a block when it takes back a key, for every number of buckets,
\* initial capacity and place where memory runs out.
THEOREM MapsSoundTheorem == Spec => []MapsSound
<1>1. IInv => MapsSound
  <2> SUFFICES ASSUME MapsInv PROVE MapsSound
    BY Zenon DEF IInv
  <2> QED
    BY Zenon DEF MapsInv, GoodMap, GoodBucket, MapsSound, IsPaired
<1> QED
  BY <1>1, Invariant, PTL

\* When ht_feature_cached_string_push_map has come to the end of both maps, it
\* has pushed every pair that the lookup finds, for any number of threads.
THEOREM MapCompleteTheorem == Spec => []MapComplete
<1>1. IInv => MapComplete
  <2> SUFFICES ASSUME TypeOK, MapsInv, CursorInv, NEW t \in Threads, pc[t] = "map", Passes(Visited),
                      NEW h \in Numbers, NEW l \in Labels,
                      GetValue(static, h) = l \/ GetValue(dynamic, h) = l
               PROVE  \E n \in (from + 1)..Len(stream) : stream[n] = <<"again", h, l>>
    BY Zenon DEF IInv, MapComplete
  <2>1. h \in Keys /\ BucketOf(h) \in Buckets
    <3>1. h \in Keys
      BY CachedStringAssumption, SMTT(60) DEF Numbers, Keys
    <3> QED
      BY <3>1, BucketOfIn, Zenon
  <2>2. Visited = 2 * BucketCount /\ BucketCount \in Nat /\ BucketCount >= 1
    BY CachedStringAssumption, SMT DEF Visited
  <2>3. \E b \in 0..(Visited - 1) : \E p \in DOMAIN KeysAt(b) :
          KeysAt(b)[p] = h /\ BucketAt(b).values.data[p] = l
    <3>1. CASE GetValue(static, h) = l
      <4>1. PICK p \in DOMAIN static[BucketOf(h)].keys.data :
              static[BucketOf(h)].keys.data[p] = h /\ static[BucketOf(h)].values.data[p] = l
        <5>1. /\ Static \subseteq Labels /\ static \in [Buckets -> BucketSet(Static)]
              /\ GoodMap(static)
          BY ZenonT(60) DEF Labels, TypeOK, MapsInv
        <5>2. \A k \in Labels : GetValue(static, h) = k =>
                \E p \in DOMAIN static[BucketOf(h)].keys.data :
                  /\ static[BucketOf(h)].keys.data[p] = h
                  /\ static[BucketOf(h)].values.data[p] = k
          BY <2>1, <5>1, GetFacts, SMTT(60)
        <5> QED
          BY <3>1, <5>2, Zenon
      <4>2. BucketOf(h) \in 0..(Visited - 1) /\ BucketOf(h) < BucketCount
        BY <2>1, <2>2, SMTT(60) DEF Buckets
      <4>3. BucketAt(BucketOf(h)) = static[BucketOf(h)]
        BY <4>2, Zenon DEF BucketAt
      <4> QED
        BY <4>1, <4>2, <4>3, Zenon DEF KeysAt
    <3>2. CASE GetValue(dynamic, h) = l
      <4>1. PICK p \in DOMAIN dynamic[BucketOf(h)].keys.data :
              dynamic[BucketOf(h)].keys.data[p] = h /\ dynamic[BucketOf(h)].values.data[p] = l
        <5>1. /\ Dynamic \subseteq Labels /\ dynamic \in [Buckets -> BucketSet(Dynamic)]
              /\ GoodMap(dynamic)
          BY ZenonT(60) DEF Labels, TypeOK, MapsInv
        <5>2. \A k \in Labels : GetValue(dynamic, h) = k =>
                \E p \in DOMAIN dynamic[BucketOf(h)].keys.data :
                  /\ dynamic[BucketOf(h)].keys.data[p] = h
                  /\ dynamic[BucketOf(h)].values.data[p] = k
          BY <2>1, <5>1, GetFacts, SMTT(60)
        <5> QED
          BY <3>2, <5>2, ZenonT(60)
      <4> DEFINE b == BucketOf(h) + BucketCount
      <4>2. b \in 0..(Visited - 1) /\ ~(b < BucketCount) /\ b - BucketCount = BucketOf(h)
        BY <2>1, <2>2, SMTT(60) DEF Buckets
      <4> HIDE DEF b
      <4>3. BucketAt(b) = dynamic[BucketOf(h)]
        BY <4>2, ZenonT(60) DEF BucketAt
      <4> QED
        BY <4>1, <4>2, <4>3, ZenonT(60) DEF KeysAt
    <3> QED
      BY <3>1, <3>2, Zenon
  <2>4. PICK b \in 0..(Visited - 1) : \E p \in DOMAIN KeysAt(b) :
          KeysAt(b)[p] = h /\ BucketAt(b).values.data[p] = l
    BY <2>3, ZenonT(60)
  <2>5. PICK p \in DOMAIN KeysAt(b) : KeysAt(b)[p] = h /\ BucketAt(b).values.data[p] = l
    BY <2>4, ZenonT(60)
  <2>6. b < bucket \/ (b = bucket /\ p < place)
    <3>1. KeysAt(b) \in Seq(Keys) /\ bucket \in 0..(Visited - 1) /\ place \in Nat
      BY EntryFacts, ZenonT(60) DEF TypeOK
    <3>2. /\ DOMAIN KeysAt(b) = 1..Len(KeysAt(b)) /\ Len(KeysAt(b)) \in Nat
      BY <3>1, SeqFacts, ZenonT(60)
    <3>3. place > Len(KeysAt(bucket)) /\ \A n \in (bucket + 1)..(Visited - 1) : KeysAt(n) = << >>
      BY Zenon DEF Passes
    <3>4. b \notin (bucket + 1)..(Visited - 1)
      <4>1. DOMAIN << >> = {}
        BY SMTT(60)
      <4> QED
        BY <3>3, <4>1, ZenonT(60)
    <3> HIDE DEF Visited
    <3>5. b < bucket \/ b = bucket
      BY <2>2, <3>1, <3>4, SMTT(60)
    <3>6. p <= Len(KeysAt(b)) /\ p \in Nat
      BY <3>2, SMTT(60)
    <3>7. b = bucket => p < place
      BY <3>1, <3>2, <3>3, <3>6, SMTT(60)
    <3> QED
      BY <3>5, <3>7, ZenonT(60)
  <2>7. \E n \in (from + 1)..Len(stream) :
          stream[n] = <<"again", KeysAt(b)[p], BucketAt(b).values.data[p]>>
    BY <2>6, Zenon DEF CursorInv
  <2> QED
    BY <2>5, <2>7, Zenon
<1> QED
  BY <1>1, Invariant, PTL

LEMMA OneUser ==
  ASSUME IsFiniteSet(users), users \subseteq Threads, Cardinality(users) <= 1
  PROVE  users = {} \/ \E u \in Threads : users = {u}
<1>1. Cardinality(users) \in Nat
  BY FS_CardinalityType, Zenon
<1>2. Cardinality(users) = 0 \/ Cardinality(users) = 1
  BY <1>1, SMTT(60)
<1> QED
  BY <1>2, FS_EmptySet, FS_Singleton, ZenonT(60)

\* A thread that is the only user of the timeline never pushes a number before
\* its mapping event, unless an insertion runs out of memory; also when two of
\* its labels have the same hash.
THEOREM OwnMappingBeforeUseTheorem == Spec => []OwnMappingBeforeUse
<1>1. IInv => OwnMappingBeforeUse
  <2> SUFFICES ASSUME IInv, Cardinality(users) <= 1, fails = 0 PROVE MappingBeforeUse
    BY Zenon DEF OwnMappingBeforeUse
  <2>1. users = {} \/ \E u \in Threads : users = {u}
    BY OneUser, Zenon DEF IInv, TypeOK, CopyInv
  <2>2. CASE \E u \in Threads : users = {u}
    BY <2>2, Zenon DEF IInv, OwnInv
  <2>3. CASE users = {}
    <3>1. stream = << >>
      BY <2>3, Zenon DEF IInv, CopyInv
    <3>2. DOMAIN << >> = {}
      BY SMTT(60)
    <3> QED
      BY <3>1, <3>2, ZenonT(60) DEF MappingBeforeUse
  <2> QED
    BY <2>1, <2>2, <2>3, ZenonT(60)
<1> QED
  BY <1>1, Invariant, PTL

\* Whichever allocation of ht_feature_*_enable fails, and whether or not the slot
\* takes the feature, exactly the blocks of the timeline's features are
\* allocated, for every number of slots and buckets; and ht_timeline_destroy
\* frees every copy of a label that a single user made.
THEOREM FeaturesOwnMemoryTheorem == Spec => []FeaturesOwnMemory
<1>1. IInv => FeaturesOwnMemory
  <2> SUFFICES ASSUME IInv, ~alive, Cardinality(users) <= 1, fails = 0 PROVE copies = 0
    BY Zenon DEF FeaturesOwnMemory, IInv, FeatureInv
  <2>1. users = {} \/ \E u \in Threads : users = {u}
    BY OneUser, Zenon DEF IInv, TypeOK, CopyInv
  <2> QED
    BY <2>1, Zenon DEF IInv, CopyInv
<1> QED
  BY <1>1, Invariant, PTL

\* When no two labels have the same hash, add_mapping announces a number at most
\* once, however the threads race, and every number means one label.
THEOREM MappingsRightTheorem ==
  ASSUME \A l, k \in Labels : Hash[l] = Hash[k] => l = k
  PROVE  Spec => []MappingsRight
<1>1. IInv => MappingsRight
  <2> SUFFICES ASSUME IInv, NEW n \in DOMAIN stream, NEW m \in DOMAIN stream,
                      stream[n][2] = stream[m][2]
               PROVE  /\ stream[n][1] = "map" /\ stream[m][1] = "map" => n = m
                      /\ stream[n][1] = "use" /\ IsMapping(stream[m]) => stream[n][3] = stream[m][3]
    BY Zenon DEF MappingsRight
  <2>1. /\ stream[n][3] \in Labels /\ stream[m][3] \in Labels
    BY StreamFields, ZenonT(60) DEF IInv, TypeOK
  <2>2. \A l \in Labels : Hash[l] # 0
    BY CachedStringAssumption, SMTT(60)
  <2>3. stream[n][1] = "map" => IsMapping(stream[n])
    BY Zenon DEF IsMapping
  <2>4. stream[n][1] = "use" => ~IsMapping(stream[n])
    BY Zenon DEF IsMapping
  <2>5. stream[m][1] = "map" => IsMapping(stream[m])
    BY Zenon DEF IsMapping
  <2>6. /\ IsMapping(stream[m]) => stream[m][2] = Hash[stream[m][3]]
        /\ IsMapping(stream[n]) => stream[n][2] = Hash[stream[n][3]]
        /\ ~IsMapping(stream[n]) => stream[n][2] \in {0, Hash[stream[n][3]]}
    BY Zenon DEF IInv, EventInv
  <2>7. ASSUME stream[n][1] = "map", stream[m][1] = "map"
        PROVE  n = m
    <3>1. stream[n][3] = stream[m][3]
      BY <2>1, <2>3, <2>5, <2>6, <2>7, ZenonT(60)
    <3>2. Announced(n, stream[m][2], stream[m][3])
      BY <2>7, <3>1, Zenon DEF Announced, SameKind
    <3> QED
      BY <2>7, <3>2, Zenon DEF IInv, OnceInv
  <2>8. ASSUME stream[n][1] = "use", IsMapping(stream[m])
        PROVE  stream[n][3] = stream[m][3]
    BY <2>1, <2>2, <2>4, <2>6, <2>8, ZenonT(60)
  <2> QED
    BY <2>7, <2>8, ZenonT(60)
<1> QED
  BY <1>1, Invariant, PTL

=============================================================================
