------------------------------ MODULE HashMap ------------------------------
(***************************************************************************)
(* HT_HashMap (hash_map.c): buckets, each with a bag of keys and a bag of  *)
(* values, in which a key and its value have the same place.  The keys are *)
(* hashes already.  Whether a bag can grow is a parameter of the insertion.*)
(***************************************************************************)
EXTENDS GrowingBag

CONSTANTS BucketCount,    \* number of buckets, 512 in the code
          BucketCapacity, \* initial capacity of their bags, 4 in the code
          NoLabel         \* NULL

Buckets == 0..(BucketCount - 1)

\* ht_hash_map_init, ht_hash_bucket_init
MapInit ==
  [i \in Buckets |-> [keys |-> BagInit(BucketCapacity, 1), values |-> BagInit(BucketCapacity, 1)]]

BucketOf(key) == key % BucketCount

\* A search that takes the first entry of the bucket for the key.
FindFirst(bucket, key) == IF bucket.keys.data = << >> THEN 0 ELSE 1

\* ht_hash_bucket_find_value: the place of the key, 0 if it is not there.
FindValue(bucket, key) ==
  LET places == {i \in DOMAIN bucket.keys.data : bucket.keys.data[i] = key}
  IN  IF places = {} THEN 0 ELSE CHOOSE i \in places : \A j \in places : i <= j

\* ht_hash_map_get_value
GetValue(map, key) ==
  LET b == map[BucketOf(key)] IN
  IF FindValue(b, key) = 0 THEN NoLabel ELSE b.values.data[FindValue(b, key)]

\* The key stays when its value cannot be stored.
TakeBackNot(keys) == keys

\* The key is taken back: ht_bag_remove_nth with the size of the bag as the
\* place, one behind the last key.
TakeBack(keys) == BagRemoveNth(keys, BucketCapacity, Len(keys.data) + 1, TRUE)

\* ht_hash_map_insert: the new map, whether the entry is in it, and whether
\* the take-back wrote inside the block.
MapInsert(map, key, value, okKey, okValue) ==
  LET n == BucketOf(key)
      b == map[n]
      i == FindValue(b, key)
      keys == BagAdd(b.keys, key, okKey)
  IN  IF i # 0
      THEN [map |-> [map EXCEPT ![n].values.data[i] = value], ok |-> TRUE, inside |-> TRUE]
      ELSE IF ~BagAdds(b.keys, okKey)
      THEN [map |-> map, ok |-> FALSE, inside |-> TRUE]
      ELSE IF BagAdds(b.values, okValue)
      THEN [map |-> [map EXCEPT ![n] = [keys |-> keys, values |-> BagAdd(b.values, value, okValue)]],
            ok |-> TRUE, inside |-> TRUE]
      ELSE [map |-> [map EXCEPT ![n].keys = TakeBack(keys)], ok |-> FALSE,
            inside |-> Len(keys.data) + 1 <= keys.cap]

\* The entries ht_hash_map_for_each visits, each by its bucket and its place.
Entries(map) == UNION {{i} \X DOMAIN map[i].keys.data : i \in Buckets}

\* Keys and values of every bucket go together, and no key is there twice.
IsPaired(map) ==
  \A i \in Buckets :
    /\ Len(map[i].keys.data) = Len(map[i].values.data)
    /\ \A j, k \in DOMAIN map[i].keys.data : map[i].keys.data[j] = map[i].keys.data[k] => j = k

=============================================================================
