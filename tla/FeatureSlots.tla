---------------------------- MODULE FeatureSlots ----------------------------
(***************************************************************************)
(* The features of a timeline: their ids (registry.c, feature.h), the      *)
(* construction of the two features of the library with every allocation   *)
(* that may fail (feature_callstack.c, feature_cached_string.c, stack.c,   *)
(* hash_map.c) and the slots of the timeline that own them (timeline.c).   *)
(*                                                                         *)
(* A block is a tuple <<part, bucket, member>>.                            *)
(***************************************************************************)
EXTENDS HashMap, Functions

CONSTANTS MaxFeatures, \* HT_TIMELINE_MAX_FEATURES
          OtherFeatures\* features a program may have registered before

ASSUME FeatureAssumption == MaxFeatures \in Nat /\ OtherFeatures \subseteq Nat

Features == {"cached", "callstack"}
Invalid == MaxFeatures

VARIABLES
  id,     \* klass->id of each feature
  count,  \* feature_count
  slots,  \* timeline->features: the feature in each slot, "none" for NULL
  safe,   \* the cached string feature has a lock
  heap    \* allocated blocks <<owner, block>>; owner is a feature, or "lost"

featureVars == <<id, count, slots, safe, heap>>

FeaturesInit ==
  /\ id = [f \in Features |-> Invalid]
  /\ count \in OtherFeatures
  /\ slots = [i \in 0..(MaxFeatures - 1) |-> "none"]
  /\ safe = FALSE
  /\ heap = {}

\* ht_registry_register_feature, for all features in the order of
\* ht_feature_register_core_features; a second call changes nothing.
RegisterCoreFeatures ==
  LET n == count + 1
      Id(i) == IF i < MaxFeatures THEN i ELSE Invalid
  IN  /\ id = [f \in Features |-> Invalid]
      /\ id' = [f \in Features |-> IF f = "cached" THEN Id(count) ELSE Id(n)]
      /\ count' = IF count + 2 < MaxFeatures THEN count + 2 ELSE MaxFeatures
      /\ UNCHANGED <<slots, safe, heap>>

\* ht_timeline_get_feature
GetFeature(f) == id[f] # Invalid /\ slots[id[f]] = f

-----------------------------------------------------------------------------
(* Construction.                                                           *)

Object == <<"object", 0, "">>
Lock == <<"lock", 0, "">>
Bucket(m, i) == {<<m, i, "values">>, <<m, i, "keys">>}
MapBlocks(m) ==
  [n \in 1..(2 * BucketCount) |-> <<m, (n + 1) \div 2, IF n % 2 = 1 THEN "values" ELSE "keys">>]
MapDeinit(m) == UNION {Bucket(m, i) : i \in 1..BucketCount}

\* The allocations of ht_feature_callstack_create, with ht_stack_init.
CallstackAllocations == <<Object, <<"stack", 0, "data">>, <<"stack", 0, "sizes">>>>

\* The allocations of ht_feature_cached_string_create, with ht_hash_map_init.
CachedAllocations(threadSafe) ==
  <<Object>> \o MapBlocks("static") \o MapBlocks("dynamic")
    \o (IF threadSafe THEN <<Lock>> ELSE << >>)

Allocations(f, threadSafe) ==
  IF f = "callstack" THEN CallstackAllocations ELSE CachedAllocations(threadSafe)

\* Faulty variant of InitFails: the bag of values of the bucket is forgotten.
InitFailsLeaky(m, i, member) == UNION {Bucket(m, j) : j \in 1..(i - 1)}

\* What ht_hash_map_init and ht_hash_bucket_init free when they fail.
InitFails(m, i, member) ==
  (UNION {Bucket(m, j) : j \in 1..(i - 1)})
    \cup (IF member = "keys" THEN {<<m, i, "values">>} ELSE {})

\* What the constructors free when the allocation of b fails.
FreedOnFailure(b) ==
  CASE b[1] = "object"  -> {}
    [] b[1] = "stack"   -> {Object} \cup (IF b[3] = "sizes" THEN {<<"stack", 0, "data">>} ELSE {})
    [] b[1] = "static"  -> InitFails("static", b[2], b[3]) \cup {Object}
    [] b[1] = "dynamic" -> InitFails("dynamic", b[2], b[3]) \cup MapDeinit("static") \cup {Object}
    [] b[1] = "lock"    -> MapDeinit("dynamic") \cup MapDeinit("static") \cup {Object}

\* ht_stack_deinit, and the two destructors; the cached string feature may
\* have no lock.
StackDeinit == {<<"stack", 0, "data">>, <<"stack", 0, "sizes">>}

Destroyed(f) ==
  IF f = "callstack" THEN StackDeinit \cup {Object}
  ELSE MapDeinit("dynamic") \cup MapDeinit("static") \cup {Lock, Object}

Owned(owner, blocks) == {owner} \X blocks

\* ht_feature_*_enable: an allocation fails.
EnableFails(f, threadSafe) ==
  /\ \E n \in DOMAIN Allocations(f, threadSafe) :
       LET done == {Allocations(f, threadSafe)[i] : i \in 1..(n - 1)}
       IN  heap' = heap \cup Owned("lost", done \ FreedOnFailure(Allocations(f, threadSafe)[n]))
  /\ UNCHANGED <<id, count, slots, safe>>

\* ht_feature_*_enable and ht_timeline_set_feature: the slot takes the feature,
\* unless it is taken or the feature has none; then the feature is destroyed.
Enable(f, threadSafe) ==
  LET blocks == Range(Allocations(f, threadSafe))
  IN  /\ IF id[f] # Invalid /\ slots[id[f]] = "none"
         THEN /\ slots' = [slots EXCEPT ![id[f]] = f]
              /\ safe' = IF f = "cached" THEN threadSafe ELSE safe
              /\ heap' = heap \cup Owned(f, blocks)
         ELSE /\ heap' = heap \cup Owned("lost", blocks \ Destroyed(f))
              /\ UNCHANGED <<slots, safe>>
      /\ UNCHANGED <<id, count>>

\* The loop over the features in ht_timeline_destroy.
DestroyFeatures ==
  /\ heap' = heap \ UNION {Owned(f, Destroyed(f)) : f \in {g \in Features : GetFeature(g)}}
  /\ slots' = [i \in DOMAIN slots |-> "none"]
  /\ UNCHANGED <<id, count, safe>>

\* What the timeline's features need, and nothing else, is allocated.
OwnsItsMemory ==
  heap = UNION {Owned(f, Range(Allocations(f, safe))) : f \in {g \in Features : GetFeature(g)}}

=============================================================================
