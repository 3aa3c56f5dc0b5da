---------------------------- MODULE CachedString ----------------------------
(***************************************************************************)
(* The cached string feature of a timeline (feature_cached_string.c).      *)
(*                                                                         *)
(* A label is mapped to a number once, a mapping event announces the pair, *)
(* and later events carry the number alone.  Static labels are mapped to   *)
(* their address, dynamic ones to their djb2 hash and copied.  The lock of *)
(* the feature protects its two hash maps; the mapping event is pushed     *)
(* after the lock has been released.  A feature without a lock is used by  *)
(* one thread.                                                             *)
(***************************************************************************)
EXTENDS FeatureSlots, FiniteSets

CONSTANTS Threads,    \* threads that use the timeline
          Static,     \* labels that are compile-time strings
          Dynamic,    \* the other labels
          Hash,       \* address of a static, djb2_hash of a dynamic label
          MaxUses,    \* bound on the calls of add_mapping and its variant
          MaxPushes,  \* bound on the calls of push_map
          MaxFails,   \* bound on the insertions that run out of memory
          Nobody

Labels == Static \cup Dynamic

ASSUME CachedStringAssumption ==
  /\ Static \cap Dynamic = {}
  /\ NoLabel \notin Labels /\ Nobody \notin Threads
  /\ Hash \in [Labels -> Nat \ {0}]
  /\ MaxUses \in Nat /\ MaxPushes \in Nat /\ MaxFails \in Nat
  /\ BucketCount \in Nat \ {0} /\ BucketCapacity \in Nat \ {0, 1}

VARIABLES
  alive,   \* the timeline exists
  lock,    \* holder of the feature's lock across steps: a running push_map
  static,  \* static_hashes
  dynamic, \* dynamic_hashes
  copies,  \* copies of dynamic labels that were not freed
  pc,      \* where each thread is
  label,   \* label[t]: the label thread t is mapping
  number,  \* number[t]: the number its call returns
  bucket,  \* the bucket the running push_map visits, counted over both maps
  place,   \* the entry of the bucket it pushes next
  from,    \* history: events of the timeline when it began
  stream,  \* events of the timeline: <<"map", hash, label>>, <<"again", hash,
           \* label>> from push_map, <<"use", hash, label the caller meant>>
  uses, pushes, fails,
  users,   \* history: threads that have used the feature
  overrun  \* history: an insertion wrote behind the block of a bag

maps == <<static, dynamic, overrun>>
visit == <<bucket, place, from>>
counters == <<uses, pushes, fails>>
vars == <<featureVars, alive, lock, maps, copies, pc, label, number, visit, stream, counters, users>>

Numbers == {Hash[l] : l \in Labels}

Init ==
  /\ FeaturesInit
  /\ alive = TRUE
  /\ lock = Nobody
  /\ static = MapInit /\ dynamic = MapInit /\ overrun = FALSE
  /\ copies = 0
  /\ pc = [t \in Threads |-> "idle"]
  /\ label = [t \in Threads |-> NoLabel]
  /\ number = [t \in Threads |-> 0]
  /\ bucket = 0 /\ place = 1 /\ from = 0
  /\ stream = << >>
  /\ uses = 0 /\ pushes = 0 /\ fails = 0
  /\ users = {}

\* ht_init, and the two enable functions on the timeline before it is used.
Setup ==
  /\ alive /\ users = {}
  /\ \/ RegisterCoreFeatures
     \/ \E f \in Features, threadSafe \in BOOLEAN :
          EnableFails(f, threadSafe) \/ Enable(f, threadSafe)
  /\ UNCHANGED <<alive, lock, maps, copies, pc, label, number, visit, stream, counters, users>>

\* The assertion of the functions, and what a feature without a lock demands.
MayUse(t) == /\ alive /\ pc[t] = "idle" /\ GetFeature("cached")
             /\ safe \/ users \subseteq {t}

\* Thread t enters one of the two functions with label l.
Begin(t, l, next) ==
  /\ MayUse(t) /\ uses < MaxUses
  /\ uses' = uses + 1
  /\ users' = users \cup {t}
  /\ label' = [label EXCEPT ![t] = l]
  /\ number' = [number EXCEPT ![t] = Hash[l]]
  /\ pc' = [pc EXCEPT ![t] = next]
  /\ UNCHANGED <<featureVars, alive, lock, maps, visit, stream, pushes, fails>>

\* ht_feature_cached_string_add_mapping: straight to the insertion.
AddMapping(t, l) ==
  /\ l \in Static
  /\ Begin(t, l, "insert")
  /\ UNCHANGED copies

\* ht_feature_cached_string_add_mapping_dynamic: the number is looked up
\* first, and if it is there nothing else happens; else the label is copied.
AddMappingDynamic(t, l) ==
  LET new == GetValue(dynamic, Hash[l]) = NoLabel
  IN  /\ l \in Dynamic
      /\ lock = Nobody
      /\ Begin(t, l, IF new THEN "insert" ELSE "use")
      /\ copies' = IF new THEN copies + 1 ELSE copies

\* Faulty variant: the event is never pushed.
AfterInsertNever(prev) == "use"

\* An event follows only an insertion that has found nothing.
AfterInsert(prev) == IF prev = NoLabel THEN "event" ELSE "use"

\* The critical section of add_mapping_: ht_hash_map_insert replaces what it
\* finds.  If a bag cannot grow, add_mapping_ returns 0; the dynamic variant
\* returns the hash nevertheless.
Insert(t) ==
  /\ pc[t] = "insert" /\ lock = Nobody
  /\ \E okKey, okValue \in IF fails < MaxFails THEN BOOLEAN ELSE {TRUE} :
       LET l == label[t]
           map == IF l \in Static THEN static ELSE dynamic
           r == MapInsert(map, Hash[l], l, okKey, okValue)
       IN  /\ static' = IF l \in Static THEN r.map ELSE static
           /\ dynamic' = IF l \in Static THEN dynamic ELSE r.map
           /\ overrun' = (overrun \/ ~r.inside)
           /\ fails' = IF r.ok THEN fails ELSE fails + 1
           /\ number' = [number EXCEPT ![t] = IF r.ok \/ l \in Dynamic THEN @ ELSE 0]
           /\ pc' = [pc EXCEPT ![t] = IF r.ok THEN AfterInsert(GetValue(map, Hash[l])) ELSE "use"]
  /\ UNCHANGED <<featureVars, alive, lock, copies, label, visit, stream, uses, pushes, users>>

PushEvent(kind, h, l) == stream' = Append(stream, <<kind, h, l>>)

\* HT_TIMELINE_PUSH_EVENT of the mapping event, after the lock was released.
Announce(t) ==
  /\ pc[t] = "event"
  /\ PushEvent("map", number[t], label[t])
  /\ pc' = [pc EXCEPT ![t] = "use"]
  /\ UNCHANGED <<featureVars, alive, lock, maps, copies, label, number, visit, counters, users>>

\* The caller pushes an event with the number (HT_TP_SCOPED_INT).
Use(t) ==
  /\ pc[t] = "use"
  /\ PushEvent("use", number[t], label[t])
  /\ label' = [label EXCEPT ![t] = NoLabel]
  /\ number' = [number EXCEPT ![t] = 0]
  /\ pc' = [pc EXCEPT ![t] = "idle"]
  /\ UNCHANGED <<featureVars, alive, lock, maps, copies, visit, counters, users>>

\* Faulty variant: the dynamic labels are forgotten.
VisitedStatic == BucketCount

\* The buckets of both maps.
Visited == 2 * BucketCount

BucketAt(n) == IF n < BucketCount THEN static[n] ELSE dynamic[n - BucketCount]
KeysAt(n) == BucketAt(n).keys.data

\* From its place the loop over the entries gets to bucket b without another one.
Passes(b) ==
  /\ place > Len(KeysAt(bucket))
  /\ \A n \in (bucket + 1)..(b - 1) : KeysAt(n) = << >>

\* ht_feature_cached_string_push_map: the lock is held until all is pushed.
PushMap(t) ==
  /\ MayUse(t) /\ pushes < MaxPushes /\ lock = Nobody
  /\ pushes' = pushes + 1
  /\ lock' = t
  /\ bucket' = 0 /\ place' = 1 /\ from' = Len(stream)
  /\ users' = users \cup {t}
  /\ pc' = [pc EXCEPT ![t] = "map"]
  /\ UNCHANGED <<featureVars, alive, maps, copies, label, number, stream, uses, fails>>

\* ht_feature_cached_string_push_event for entry p of bucket b.
PushAgain(b, p) ==
  /\ PushEvent("again", KeysAt(b)[p], BucketAt(b).values.data[p])
  /\ bucket' = b /\ place' = p + 1

\* ht_hash_map_for_each, for both maps: the next entry of the bucket, or the
\* first one of the next bucket that has any.
PushEntry(t) ==
  /\ pc[t] = "map"
  /\ \/ place <= Len(KeysAt(bucket)) /\ PushAgain(bucket, place)
     \/ \E b \in (bucket + 1)..(Visited - 1) :
          Passes(b) /\ KeysAt(b) # << >> /\ PushAgain(b, 1)
  /\ UNCHANGED <<featureVars, alive, lock, maps, copies, pc, label, number, from, counters,
                 users>>

PushMapDone(t) ==
  /\ pc[t] = "map" /\ Passes(Visited)
  /\ lock' = Nobody
  /\ bucket' = 0 /\ place' = 1 /\ from' = 0
  /\ pc' = [pc EXCEPT ![t] = "idle"]
  /\ UNCHANGED <<featureVars, alive, maps, copies, label, number, stream, counters, users>>

\* ht_feature_cached_string_destroy frees the labels in the dynamic map.
Freed == IF GetFeature("cached") THEN Cardinality(Entries(dynamic)) ELSE 0

\* ht_timeline_destroy, when no thread uses the timeline.
Destroy ==
  /\ alive /\ \A t \in Threads : pc[t] = "idle"
  /\ alive' = FALSE
  /\ DestroyFeatures
  /\ copies' = copies - Freed
  /\ UNCHANGED <<lock, maps, pc, label, number, visit, stream, counters, users>>

Work(t) ==
  Insert(t) \/ Announce(t) \/ Use(t) \/ PushEntry(t) \/ PushMapDone(t)

Next ==
  \/ Setup \/ Destroy
  \/ \E t \in Threads :
       \/ Work(t) \/ PushMap(t)
       \/ \E l \in Static : AddMapping(t, l)
       \/ \E l \in Dynamic : AddMappingDynamic(t, l)

Spec == Init /\ [][Next]_vars

\* A thread inside a function of the feature keeps running.
FairSpec == Spec /\ \A t \in Threads : WF_vars(Work(t))

-----------------------------------------------------------------------------
(***************************************************************************)
(* Properties.                                                             *)
(***************************************************************************)

IsMapping(x) == x[1] \in {"map", "again"}

\* "Later only hashes of the strings are used": an event with a number comes
\* after a mapping event of that number.
MappingBeforeUse ==
  \A n \in DOMAIN stream : stream[n][1] = "use" =>
    \E m \in 1..(n - 1) : IsMapping(stream[m]) /\ stream[m][2] = stream[n][2]

\* A thread that has the timeline to itself, as with the global timeline, never
\* pushes a number before its mapping event, unless memory runs out.
OwnMappingBeforeUse == Cardinality(users) <= 1 /\ fails = 0 => MappingBeforeUse

\* add_mapping announces a number at most once, although threads race between
\* the lookup, the insertion and the event; and a reader that knows all mapping
\* events resolves every number to the label its user meant.
MappingsRight ==
  \A n, m \in DOMAIN stream : stream[n][2] = stream[m][2] =>
    /\ stream[n][1] = "map" /\ stream[m][1] = "map" => n = m
    /\ stream[n][1] = "use" /\ IsMapping(stream[m]) => stream[n][3] = stream[m][3]

\* A number that was used is announced sooner or later, unless an insertion
\* runs out of memory.
EventuallyMapped ==
  \A h \in Numbers :
    (\E n \in DOMAIN stream : stream[n][1] = "use" /\ stream[n][2] = h)
      ~> \/ \E n \in DOMAIN stream : IsMapping(stream[n]) /\ stream[n][2] = h
         \/ fails > 0

\* push_map tells a listener that was registered just before it every number
\* that is in the maps when it returns: none is left out while others add
\* mappings.
MapComplete ==
  \A t \in Threads : pc[t] = "map" /\ Passes(Visited) =>
    \A h \in Numbers, l \in Labels : GetValue(static, h) = l \/ GetValue(dynamic, h) = l =>
      \E n \in (from + 1)..Len(stream) : stream[n] = <<"again", h, l>>

\* However insertions fail, the keys and the values of the maps stay paired:
\* ht_hash_map_insert takes back a key whose value could not be stored, and
\* though it names the place behind it, writes nothing behind the block.
MapsSound == IsPaired(static) /\ IsPaired(dynamic) /\ ~overrun

\* Whichever allocation of a feature fails, and whether or not its slot takes
\* it, exactly the blocks of the features of the timeline are allocated; a
\* timeline that one thread has used, with memory enough, leaves no copy of a
\* label behind when it is destroyed.
FeaturesOwnMemory ==
  /\ OwnsItsMemory
  /\ ~alive /\ Cardinality(users) <= 1 /\ fails = 0 => copies = 0

=============================================================================
