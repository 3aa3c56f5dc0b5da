------------------------ MODULE TaskSchedulerProofs ------------------------
(***************************************************************************)
(* Proofs about TaskScheduler, for any number of tasks, any periods and    *)
(* ticks of any length: what is in the bag, that a tick runs every due     *)
(* task once, and that both scheduling modes keep their promise.           *)
(***************************************************************************)
EXTENDS TaskScheduler, TLAPS

\* Sequences, in the form the provers use them.
LEMMA SeqFacts ==
  ASSUME NEW S, NEW s \in Seq(S)
  PROVE  Len(s) \in Nat /\ DOMAIN s = 1..Len(s) /\ \A k \in 1..Len(s) : s[k] \in S
OBVIOUS

LEMMA EmptyFacts ==
  ASSUME NEW S
  PROVE  << >> \in Seq(S) /\ Len(<< >>) = 0 /\ DOMAIN << >> = {}
OBVIOUS

LEMMA AppendFacts ==
  ASSUME NEW S, NEW s \in Seq(S), NEW x \in S
  PROVE  /\ Append(s, x) \in Seq(S) /\ Len(Append(s, x)) = Len(s) + 1
         /\ Append(s, x) = s \o <<x>>
         /\ \A k \in 1..Len(s) : Append(s, x)[k] = s[k]
         /\ Append(s, x)[Len(s) + 1] = x
OBVIOUS

\* A place in the bag that is not the last one is a place in the shorter bag.
LEMMA BelowLast == ASSUME NEW m \in Nat, NEW k \in 1..m, k # m PROVE k \in 1..(m - 1)
OBVIOUS

\* ht_bag_void_ptr_remove_nth: a bag without duplicates loses the n-th entry and
\* no other one, and gets no duplicates.
LEMMA RemoveNthSound ==
  ASSUME NEW S, NEW s \in Seq(S), IsInjective(s), NEW n \in DOMAIN s
  PROVE  /\ RemoveNth(s, n) \in Seq(S)
         /\ Len(RemoveNth(s, n)) = Len(s) - 1
         /\ \A k \in 1..(Len(s) - 1) : RemoveNth(s, n)[k] = IF k = n THEN s[Len(s)] ELSE s[k]
         /\ IsInjective(RemoveNth(s, n))
         /\ Range(RemoveNth(s, n)) = Range(s) \ {s[n]}
<1> DEFINE r == RemoveNth(s, n)
<1>1. Len(s) \in Nat /\ DOMAIN s = 1..Len(s) /\ \A k \in 1..Len(s) : s[k] \in S
  BY SeqFacts, Zenon
<1>2. Len(s) - 1 \in Nat
  BY <1>1
<1>3. \A k \in 1..(Len(s) - 1) : (IF k = n THEN s[Len(s)] ELSE s[k]) \in S
  BY <1>1, <1>2
<1>4. r \in Seq(S)
  BY <1>2, <1>3 DEF RemoveNth
<1>5. DOMAIN r = 1..(Len(s) - 1)
  BY Zenon DEF RemoveNth
<1>6. Len(r) = Len(s) - 1
  BY <1>2, <1>4, <1>5, SeqFacts
<1>7. \A k \in 1..(Len(s) - 1) : r[k] = IF k = n THEN s[Len(s)] ELSE s[k]
  BY Zenon DEF RemoveNth
<1> HIDE DEF r
<1>8. \A k, l \in 1..Len(s) : s[k] = s[l] => k = l
  BY <1>1, Zenon DEF IsInjective
<1>9. IsInjective(r)
  BY <1>1, <1>2, <1>5, <1>7, <1>8 DEF IsInjective
<1>10. Range(r) = Range(s) \ {s[n]}
  <2>1. ASSUME NEW x \in Range(r) PROVE x \in Range(s) \ {s[n]}
    <3>1. PICK k \in 1..(Len(s) - 1) : x = r[k]
      BY <2>1, <1>5, Zenon DEF Range
    <3>2. QED BY <1>1, <1>2, <1>7, <1>8, <3>1 DEF Range
  <2>2. ASSUME NEW x \in Range(s), x # s[n] PROVE x \in Range(r)
    <3>1. PICK k \in 1..Len(s) : x = s[k]
      BY <2>2, <1>1, Zenon DEF Range
    <3>2. CASE k = Len(s)
      <4>1. n \in 1..(Len(s) - 1) /\ r[n] = x
        BY <1>1, <1>2, <1>7, <2>2, <3>1, <3>2
      <4>2. QED BY <1>5, <4>1, Zenon DEF Range
    <3>3. CASE k # Len(s)
      <4>1. k \in 1..(Len(s) - 1) /\ r[k] = x
        <5>1. k \in 1..(Len(s) - 1)
          BY <1>1, <3>1, <3>3, BelowLast, Zenon
        <5>2. k # n
          BY <2>2, <3>1, Zenon
        <5>3. QED BY <1>7, <3>1, <5>1, <5>2, Zenon
      <4>2. QED BY <1>5, <4>1, ZenonT(60) DEF Range
    <3>4. QED BY <3>2, <3>3, Zenon
  <2>3. QED BY <2>1, <2>2, Zenon
<1>11. QED BY <1>4, <1>6, <1>7, <1>9, <1>10, Zenon DEF r

\* ht_bag_void_ptr_add of an entry that is not in the bag.
LEMMA AppendSound ==
  ASSUME NEW S, NEW s \in Seq(S), IsInjective(s), NEW x \in S, x \notin Range(s)
  PROVE  /\ Append(s, x) \in Seq(S)
         /\ Len(Append(s, x)) = Len(s) + 1
         /\ \A k \in 1..Len(s) : Append(s, x)[k] = s[k]
         /\ Append(s, x)[Len(s) + 1] = x
         /\ IsInjective(Append(s, x))
         /\ Range(Append(s, x)) = Range(s) \cup {x}
<1> DEFINE r == Append(s, x)
<1>1. Len(s) \in Nat /\ DOMAIN s = 1..Len(s)
  BY SeqFacts, Zenon
<1>2. /\ r \in Seq(S) /\ Len(r) = Len(s) + 1
      /\ \A k \in 1..Len(s) : r[k] = s[k]
      /\ r[Len(s) + 1] = x
  BY AppendFacts
<1>3. DOMAIN r = 1..(Len(s) + 1)
  BY <1>2, SeqFacts, Zenon
<1> HIDE DEF r
<1>4. \A k \in 1..Len(s) : s[k] # x
  BY <1>1, Zenon DEF Range
<1>5. \A k \in 1..(Len(s) + 1) : k \in 1..Len(s) \/ k = Len(s) + 1
  BY <1>1
<1>6. IsInjective(r)
  BY <1>1, <1>2, <1>3, <1>4, <1>5, Zenon DEF IsInjective
<1>7. Range(r) = Range(s) \cup {x}
  <2>1. ASSUME NEW y \in Range(r) PROVE y \in Range(s) \cup {x}
    BY <1>1, <1>2, <1>3, <1>5, Zenon DEF Range
  <2>2. ASSUME NEW y \in Range(s) \cup {x} PROVE y \in Range(r)
    <3>1. 1..Len(s) \subseteq DOMAIN r /\ Len(s) + 1 \in DOMAIN r
      BY <1>1, <1>3
    <3>2. QED BY <1>1, <1>2, <3>1, Zenon DEF Range
  <2>3. QED BY <2>1, <2>2, Zenon
<1>8. QED BY <1>2, <1>6, <1>7, Zenon DEF r

-----------------------------------------------------------------------------
\* The bag between two steps.

\* Its entries are ids that have been given out, at most one place each.
LEMMA BagFacts ==
  ASSUME TypeOK, BagIsLive
  PROVE  /\ Len(tasks) \in Nat /\ DOMAIN tasks = 1..Len(tasks)
         /\ Range(tasks) = {tasks[k] : k \in 1..Len(tasks)}
         /\ \A k \in 1..Len(tasks) :
              /\ tasks[k] \in Ids /\ tasks[k] < nextId
              /\ tasks[k] \in Range(tasks) /\ tasks[k] \notin freed \cup leaked
         /\ \A k, l \in 1..Len(tasks) : tasks[k] = tasks[l] => k = l
         /\ nextId \notin Range(tasks)
<1>1. Len(tasks) \in Nat /\ DOMAIN tasks = 1..Len(tasks) /\ \A k \in 1..Len(tasks) : tasks[k] \in Ids
  BY SeqFacts, Zenon DEF TypeOK
<1>2. Range(tasks) = {tasks[k] : k \in 1..Len(tasks)}
  BY <1>1, Zenon DEF Range
<1>3. \A k, l \in 1..Len(tasks) : tasks[k] = tasks[l] => k = l
  BY <1>1, Zenon DEF BagIsLive, IsInjective
<1>4. \A x \in Range(tasks) : x < nextId /\ x \notin freed \cup leaked
  BY DEF BagIsLive, TypeOK
<1>5. nextId \notin Range(tasks)
  BY <1>4 DEF TypeOK
<1>6. QED BY <1>1, <1>2, <1>3, <1>4, <1>5, Zenon

\* ht_task_scheduler_schedule_task adds a new id behind all the others.
LEMMA ScheduledBag ==
  ASSUME IInv, NEW m, NEW p, Schedule(m, p)
  PROVE  /\ nextId \in Ids /\ nextId \notin Range(tasks)
         /\ tasks' \in Seq(Ids) /\ Len(tasks') = Len(tasks) + 1
         /\ \A k \in 1..Len(tasks) : tasks'[k] = tasks[k]
         /\ tasks'[Len(tasks) + 1] = nextId
         /\ IsInjective(tasks') /\ Range(tasks') = Range(tasks) \cup {nextId}
<1>1. tasks \in Seq(Ids) /\ IsInjective(tasks)
  BY Zenon DEF IInv, TypeOK, BagIsLive
<1>2. nextId \in Ids
  BY TaskSchedulerAssumption DEF IInv, TypeOK, Schedule, Ids
<1>3. nextId \notin Range(tasks)
  BY BagFacts, Zenon DEF IInv
<1>4. tasks' = Append(tasks, nextId)
  BY Zenon DEF Schedule
<1>5. QED BY <1>1, <1>2, <1>3, <1>4, AppendSound

\* CallbackFalse and ht_task_scheduler_remove_task take one task out of the bag,
\* and the last one takes its place.
LEMMA RemovedBag ==
  ASSUME IInv, NEW n \in DOMAIN tasks, tasks' = RemoveNth(tasks, n)
  PROVE  /\ tasks' \in Seq(Ids) /\ Len(tasks') = Len(tasks) - 1
         /\ \A k \in 1..(Len(tasks) - 1) :
              tasks'[k] = IF k = n THEN tasks[Len(tasks)] ELSE tasks[k]
         /\ IsInjective(tasks') /\ Range(tasks') = Range(tasks) \ {tasks[n]}
<1>1. tasks \in Seq(Ids) /\ IsInjective(tasks)
  BY Zenon DEF IInv, TypeOK, BagIsLive
<1>2. QED BY <1>1, RemoveNthSound, SMTT(60)

\* A callback returns for the task at the place of the loop.
LEMMA ReturnedFacts ==
  ASSUME IInv, Returned
  PROVE  /\ i \in DOMAIN tasks /\ i \in 1..Len(tasks) /\ cur = tasks[i] /\ cur \in Ids
         /\ cur \in Range(tasks) /\ cur < nextId
         /\ due[cur] <= began
<1>1. i <= Len(tasks) /\ cur = tasks[i] /\ i \in Nat \ {0} /\ due[cur] <= began
  BY Zenon DEF IInv, TickInv, Returned, TypeOK
<1>2. QED BY <1>1, BagFacts DEF IInv

\* The types.
LEMMA TypeStep == IInv /\ [Next]_vars => TypeOK'
<1> SUFFICES ASSUME IInv, [Next]_vars PROVE TypeOK' BY Zenon
<1> USE DEF fields, history, loop
<1>t. TypeOK
  BY Zenon DEF IInv
<1>r. Range(tasks) \subseteq Ids /\ << >> \in Seq(Ids)
  BY <1>t, BagFacts, EmptyFacts, Zenon DEF IInv
<1> USE DEF TypeOK
<1>1. CASE Pass
  BY <1>t, <1>1, SMTT(60) DEF Pass
<1>2. CASE ScheduleFails
  <2>1. nextId \in Ids /\ nextId' \in 0..MaxTasks
    BY <1>t, <1>2, TaskSchedulerAssumption DEF ScheduleFails, Ids
  <2>2. QED BY <1>t, <1>2, <2>1, SMTT(60) DEF ScheduleFails
<1>3. CASE Destroy
  BY <1>t, <1>r, <1>3, Zenon DEF Destroy
<1>4. ASSUME NEW m \in {"ignore", "restart"}, NEW p \in Periods, Schedule(m, p)
      PROVE  TypeOK'
  <2>1. tasks' \in Seq(Ids) /\ nextId \in Ids /\ p \in Nat
    BY <1>4, TaskSchedulerAssumption, ScheduledBag, Zenon
  <2>2. nextId' \in 0..MaxTasks
    BY <1>t, <1>4, TaskSchedulerAssumption DEF Schedule
  <2>3. /\ mode' = [mode EXCEPT ![nextId] = m] /\ period' = [period EXCEPT ![nextId] = p]
        /\ due' = [due EXCEPT ![nextId] = now + p] /\ birth' = [birth EXCEPT ![nextId] = now]
        /\ UNCHANGED <<now, freed, leaked, pc, i, cur, began, expected, ran, ended, runs>>
    BY <1>4, Zenon DEF Schedule
  <2>4. /\ mode' \in [Ids -> {"ignore", "restart"}] /\ period' \in [Ids -> Nat]
        /\ due' \in [Ids -> Nat] /\ birth' \in [Ids -> Nat]
    <3>1. now \in Nat /\ now + p \in Nat
      BY <1>t, <2>1
    <3>2. QED BY <1>t, <2>1, <2>3, <3>1, Zenon
  <2>5. QED BY <1>t, <2>1, <2>2, <2>3, <2>4, Zenon
<1>5. ASSUME NEW x \in Ids, RemoveTask(x) PROVE TypeOK'
  <2>1. tasks' \in Seq(Ids)
    BY <1>5, RemovedBag, Zenon DEF RemoveTask
  <2>2. /\ freed' = freed \cup {x} /\ i' = 1
        /\ UNCHANGED <<now, nextId, mode, period, due, leaked, pc, cur, began, expected, ran,
                       birth, ended, runs>>
    BY <1>5, Zenon DEF RemoveTask
  <2>3. freed' \subseteq Ids /\ i' \in Nat \ {0}
    BY <1>t, <2>2
  <2>4. QED BY <1>t, <2>1, <2>2, <2>3, Zenon
<1>6. CASE TickBegin
  BY <1>t, <1>r, <1>6, SMTT(60) DEF TickBegin
<1>7. CASE TickSkip \/ TickEnd
  <2>1. /\ i' \in {i + 1, 1} /\ pc' \in {pc, "idle"}
        /\ expected' \in {expected, {}} /\ ran' \in {ran, {}}
        /\ UNCHANGED <<now, tasks, nextId, mode, period, due, freed, leaked, cur, began,
                       birth, ended, runs>>
    BY <1>7, Zenon DEF TickSkip, TickEnd
  <2>2. QED BY <1>t, <2>1, SMTT(60)
<1>8. CASE TickRun
  <2>1. tasks[i] \in Ids
    BY <1>t, <1>8, BagFacts DEF TickRun, IInv
  <2>2. QED BY <1>t, <1>8, <2>1, Zenon DEF TickRun
<1>9. CASE CallbackTrue
  <2>1. cur \in Ids
    BY <1>9, ReturnedFacts, Zenon DEF CallbackTrue
  <2>2. NextAction(cur) \in Nat
    BY <1>t, <2>1, SMTT(60) DEF NextAction
  <2>3. due' \in [Ids -> Nat] /\ ended' \in [Ids -> Nat]
    BY <1>t, <1>9, <2>1, <2>2, SMTT(60) DEF CallbackTrue, Returned
  <2>4. runs[cur] + 1 \in Nat /\ i' \in Nat \ {0}
    BY <1>t, <1>9, <2>1 DEF CallbackTrue
  <2>5. runs' \in [Ids -> Nat] /\ ran' \subseteq Ids
    BY <1>t, <1>9, <2>1, <2>4, Zenon DEF CallbackTrue, Returned
  <2>6. QED BY <1>t, <1>9, <2>3, <2>4, <2>5, Zenon DEF CallbackTrue, Returned
<1>10. CASE CallbackFalse
  <2>1. cur \in Ids /\ i \in DOMAIN tasks
    BY <1>10, ReturnedFacts, Zenon DEF CallbackFalse
  <2>2. tasks' \in Seq(Ids)
    BY <1>10, <2>1, RemovedBag, Zenon DEF CallbackFalse
  <2>3. /\ freed' = freed \cup {cur} /\ ran' = ran \cup {cur}
        /\ pc' = "scan" /\ cur' = NoTask
        /\ ended' = [ended EXCEPT ![cur] = now] /\ runs' = [runs EXCEPT ![cur] = @ + 1]
        /\ UNCHANGED <<now, nextId, mode, period, due, leaked, i, began, expected, birth>>
    BY <1>10, Zenon DEF CallbackFalse, Returned
  <2>4. ended' \in [Ids -> Nat] /\ runs' \in [Ids -> Nat]
    <3>1. ended \in [Ids -> Nat] /\ runs \in [Ids -> Nat] /\ now \in Nat
      BY <1>t, Zenon
    <3>2. QED BY <2>1, <2>3, <3>1
  <2>5. QED BY <1>t, <2>1, <2>2, <2>3, <2>4, Zenon
<1>11. CASE UNCHANGED vars
  BY <1>t, <1>11, Zenon DEF vars
<1>12. QED
  BY <1>1, <1>2, <1>3, <1>4, <1>5, <1>6, <1>7, <1>8, <1>9, <1>10, <1>11, Zenon DEF Next

\* BagIsLive and IdsInv: which ids are in the bag, freed or lost.
LEMMA BagStep == IInv /\ [Next]_vars => BagIsLive' /\ IdsInv'
<1> SUFFICES ASSUME IInv, [Next]_vars PROVE BagIsLive' /\ IdsInv' BY Zenon
<1> USE TaskSchedulerAssumption DEF fields, history, loop
<1>t. TypeOK /\ BagIsLive /\ IdsInv
  BY Zenon DEF IInv
<1>u. nextId \in Nat /\ Ids \subseteq Nat /\ runs \in [Ids -> Nat]
  BY <1>t DEF TypeOK, Ids
<1>1. CASE UNCHANGED <<tasks, nextId, freed, leaked, ran, runs>>
  BY <1>t, <1>1, Zenon DEF BagIsLive, IdsInv
<1>2. CASE Pass \/ TickSkip \/ TickRun \/ UNCHANGED vars
  BY <1>1, <1>2, Zenon DEF Pass, TickSkip, TickRun, vars
<1>3. CASE TickBegin \/ TickEnd
  BY <1>t, <1>3, Zenon DEF TickBegin, TickEnd, BagIsLive, IdsInv
<1>4. CASE ScheduleFails
  <2>1. nextId \in Ids
    BY <1>t, <1>4 DEF ScheduleFails, TypeOK, Ids
  <2>2. nextId \notin freed \cup leaked
    BY <1>t, <2>1 DEF IdsInv, TypeOK
  <2>3. 0..nextId = (0..(nextId - 1)) \cup {nextId}
    BY <1>u
  <2>4. nextId' = nextId + 1 /\ nextId' - 1 = nextId /\ leaked' = leaked \cup {nextId}
        /\ UNCHANGED <<tasks, freed, ran, runs>>
    BY <1>t, <1>4 DEF ScheduleFails, TypeOK
  <2>5. BagIsLive'
    BY <1>t, <2>2, <2>3, <2>4 DEF BagIsLive
  <2>6. IdsInv'
    BY <1>t, <1>u, <2>4 DEF IdsInv
  <2>7. QED BY <2>5, <2>6, Zenon
<1>5. ASSUME NEW m \in {"ignore", "restart"}, NEW p \in Periods, Schedule(m, p)
      PROVE  BagIsLive' /\ IdsInv'
  <2>1. nextId \in Ids /\ IsInjective(tasks') /\ Range(tasks') = Range(tasks) \cup {nextId}
    BY <1>5, ScheduledBag, Zenon
  <2>2. nextId \notin freed \cup leaked
    BY <1>t, <2>1 DEF IdsInv, TypeOK
  <2>3. 0..nextId = (0..(nextId - 1)) \cup {nextId}
    BY <1>u
  <2>4. nextId' = nextId + 1 /\ nextId' - 1 = nextId
        /\ UNCHANGED <<freed, leaked, ran, runs>>
    BY <1>t, <1>5 DEF Schedule, TypeOK
  <2>5. BagIsLive'
    BY <1>t, <2>1, <2>2, <2>3, <2>4 DEF BagIsLive
  <2>6. IdsInv'
    BY <1>t, <1>u, <2>4 DEF IdsInv
  <2>7. QED BY <2>5, <2>6, Zenon
<1>6. ASSUME NEW x \in Ids, RemoveTask(x) PROVE BagIsLive' /\ IdsInv'
  <2>1. PICK n \in DOMAIN tasks : tasks[n] = x /\ tasks' = RemoveNth(tasks, n)
    BY <1>6, Zenon DEF RemoveTask
  <2>2. IsInjective(tasks') /\ Range(tasks') = Range(tasks) \ {x}
    BY <2>1, RemovedBag, Zenon
  <2>3. x \in Range(tasks) /\ x < nextId
    BY <1>t, <2>1, BagFacts, Zenon
  <2>4. freed' = freed \cup {x} /\ UNCHANGED <<nextId, leaked, ran, runs>>
    BY <1>6, Zenon DEF RemoveTask
  <2>5. BagIsLive'
    BY <1>t, <2>2, <2>3, <2>4, Zenon DEF BagIsLive
  <2>6. IdsInv'
    BY <1>t, <1>u, <2>3, <2>4 DEF IdsInv
  <2>7. QED BY <2>5, <2>6, Zenon
<1>7. CASE Destroy
  <2>1. tasks' = << >> /\ freed' = freed \cup Range(tasks)
        /\ UNCHANGED <<nextId, leaked, ran, runs>>
    BY <1>7, Zenon DEF Destroy
  <2>2. IsInjective(<< >>) /\ Range(<< >>) = {}
    BY DEF IsInjective, Range
  <2>3. BagIsLive'
    BY <1>t, <2>1, <2>2, Zenon DEF BagIsLive
  <2>4. \A x \in Range(tasks) : x < nextId
    BY <1>t, BagFacts
  <2>5. IdsInv'
    BY <1>t, <1>u, <2>1, <2>4 DEF IdsInv
  <2>6. QED BY <2>3, <2>5
<1>8. CASE CallbackTrue
  <2>1. cur \in Ids /\ cur < nextId
    BY <1>8, ReturnedFacts, Zenon DEF CallbackTrue
  <2>2. ran' = ran \cup {cur} /\ runs' = [runs EXCEPT ![cur] = @ + 1]
        /\ UNCHANGED <<tasks, nextId, freed, leaked>>
    BY <1>8, Zenon DEF CallbackTrue, Returned
  <2>3. BagIsLive'
    BY <1>t, <2>2, Zenon DEF BagIsLive
  <2>4. IdsInv'
    BY <1>t, <1>u, <2>1, <2>2 DEF IdsInv
  <2>5. QED BY <2>3, <2>4
<1>9. CASE CallbackFalse
  <2>1. cur \in Ids /\ cur < nextId /\ cur \in Range(tasks)
        /\ i \in DOMAIN tasks /\ cur = tasks[i]
    BY <1>9, ReturnedFacts, Zenon DEF CallbackFalse
  <2>2. ran' = ran \cup {cur} /\ runs' = [runs EXCEPT ![cur] = @ + 1]
        /\ freed' = freed \cup {cur} /\ UNCHANGED <<nextId, leaked>>
    BY <1>9, Zenon DEF CallbackFalse, Returned
  <2>3. IsInjective(tasks') /\ Range(tasks') = Range(tasks) \ {cur}
    BY <1>9, <2>1, RemovedBag, Zenon DEF CallbackFalse
  <2>4. BagIsLive'
    BY <1>t, <2>1, <2>2, <2>3, Zenon DEF BagIsLive
  <2>5. IdsInv'
    BY <1>t, <1>u, <2>1, <2>2 DEF IdsInv
  <2>6. QED BY <2>4, <2>5
<1>10. QED
  BY <1>2, <1>3, <1>4, <1>5, <1>6, <1>7, <1>8, <1>9, Zenon DEF Next

\* TickInv: the loop misses no due task and meets none twice, whatever the
\* callbacks do to the bag.
LEMMA TickStep == IInv /\ [Next]_vars => TickInv'
<1> SUFFICES ASSUME IInv, [Next]_vars PROVE TickInv' OBVIOUS
<1> USE DEF fields, history, loop
<1>t. TypeOK /\ BagIsLive /\ TickInv
  BY Zenon DEF IInv
<1>b. /\ Len(tasks) \in Nat /\ i \in Nat \ {0} /\ now \in Nat /\ nextId \notin Range(tasks)
      /\ due \in [Ids -> Nat]
      /\ \A k \in 1..Len(tasks) : tasks[k] \in Ids /\ tasks[k] \in Range(tasks)
      /\ \A k, l \in 1..Len(tasks) : tasks[k] = tasks[l] => k = l
  BY <1>t, BagFacts, Zenon DEF TypeOK
<1>1. CASE pc' \notin {"scan", "callback"}
  BY <1>1, Zenon DEF TickInv
<1>2. CASE TickEnd \/ Destroy \/ \E x \in Ids : RemoveTask(x)
  BY <1>1, <1>2, Zenon DEF RemoveTask, TickEnd, Destroy
<1>3. CASE UNCHANGED <<tasks, due, loop>> /\ now' \in Nat /\ now' >= now
  <2>1. \A t \in expected : due[t] \in Nat
    BY <1>t, <1>b, Zenon DEF TypeOK
  <2>2. QED BY <1>t, <1>b, <1>3, <2>1 DEF TickInv
<1>4. CASE Pass \/ ScheduleFails \/ UNCHANGED vars
  BY <1>b, <1>3, <1>4 DEF Pass, ScheduleFails, vars
<1>5. ASSUME NEW m \in {"ignore", "restart"}, NEW p \in Periods, Schedule(m, p)
      PROVE  TickInv'
  <2>1. CASE pc \notin {"scan", "callback"}
    BY <1>1, <1>5, <2>1, Zenon DEF Schedule
  <2>2. CASE pc \in {"scan", "callback"}
    <3>1. /\ Len(tasks') = Len(tasks) + 1 /\ nextId \in Ids
          /\ \A k \in 1..Len(tasks) : tasks'[k] = tasks[k]
          /\ tasks'[Len(tasks) + 1] = nextId
      BY <1>5, ScheduledBag, Zenon
    <3>2. UNCHANGED <<now, pc, i, cur, began, expected, ran>>
      BY <1>5, Zenon DEF Schedule
    <3>3. \A x \in Ids : x # nextId => due'[x] = due[x]
      BY <1>5, <1>b, Zenon DEF Schedule
    <3>4. nextId \notin ran
      BY <3>1 DEF IInv, IdsInv, TypeOK, Ids
    <3>5. \A k \in i..(Len(tasks) + 1) : tasks'[k] \notin ran
      BY <1>t, <1>b, <2>2, <3>1, <3>4 DEF TickInv
    <3>6. ASSUME NEW t \in expected \ ran
          PROVE  due'[t] <= now /\ \E k \in i..(Len(tasks) + 1) : tasks'[k] = t
      <4>1. PICK k \in i..Len(tasks) : tasks[k] = t
        BY <1>t, <2>2, Zenon DEF TickInv
      <4>2. due[t] <= now
        BY <1>t, <2>2, Zenon DEF TickInv
      <4>3. k \in 1..Len(tasks) /\ k \in i..(Len(tasks) + 1)
        BY <1>b
      <4>4. t # nextId /\ t \in Ids /\ tasks'[k] = t
        BY <1>b, <3>1, <4>1, <4>3, Zenon
      <4>5. QED BY <3>3, <4>2, <4>3, <4>4, Zenon
    <3>7. ASSUME pc = "callback" PROVE i <= Len(tasks) + 1 /\ cur = tasks'[i] /\ due'[cur] <= began
      <4>1. i <= Len(tasks) /\ cur = tasks[i] /\ due[cur] <= began
        BY <1>t, <3>7, Zenon DEF TickInv
      <4>2. i \in 1..Len(tasks)
        BY <1>b, <4>1
      <4>3. cur # nextId /\ cur \in Ids /\ tasks'[i] = cur
        BY <1>b, <3>1, <4>1, <4>2, Zenon
      <4>4. QED BY <1>b, <3>3, <4>1, <4>3
    <3>8. QED BY <3>1, <3>2, <3>5, <3>6, <3>7, Zenon DEF TickInv
  <2>3. QED BY <2>1, <2>2, Zenon
<1>6. CASE TickBegin
  <2>1. /\ pc' = "scan" /\ i' = 1 /\ ran' = {} /\ expected' = {t \in Range(tasks) : due[t] <= now}
        /\ UNCHANGED <<now, tasks, due>>
    BY <1>6, Zenon DEF TickBegin
  <2>2. \A t \in Range(tasks) : \E k \in 1..Len(tasks) : tasks[k] = t
    BY <1>t, BagFacts
  <2>3. QED BY <2>1, <2>2, Zenon DEF TickInv
<1>7. CASE TickSkip
  <2>1. /\ pc = "scan" /\ i <= Len(tasks) /\ due[tasks[i]] > now /\ i' = i + 1
        /\ UNCHANGED <<now, tasks, due, pc, expected, ran>>
    BY <1>7, Zenon DEF TickSkip
  <2>2. \A k \in (i + 1)..Len(tasks) : tasks[k] \notin ran
    BY <1>t, <1>b, <2>1 DEF TickInv
  <2>3. ASSUME NEW t \in expected \ ran
        PROVE  due[t] <= now /\ \E k \in (i + 1)..Len(tasks) : tasks[k] = t
    <3>1. PICK k \in i..Len(tasks) : tasks[k] = t
      BY <1>t, <2>1, Zenon DEF TickInv
    <3>2. due[t] <= now
      BY <1>t, <2>1, Zenon DEF TickInv
    <3>3. t \in Ids /\ due[t] \in Nat
      BY <1>t, <1>b, Zenon DEF TypeOK
    <3>4. k # i
      BY <1>b, <2>1, <3>1, <3>2, <3>3
    <3>5. k \in (i + 1)..Len(tasks)
      BY <1>b, <3>4
    <3>6. QED BY <3>1, <3>2, <3>5, Zenon
  <2>4. QED BY <2>1, <2>2, <2>3, Zenon DEF TickInv
<1>8. CASE TickRun
  BY <1>t, <1>b, <1>8, Zenon DEF TickRun, TickInv
<1>9. CASE CallbackTrue
  <2>1. i \in 1..Len(tasks) /\ cur = tasks[i] /\ cur \in Ids /\ pc = "callback"
    BY <1>9, ReturnedFacts, Zenon DEF CallbackTrue, Returned
  <2>2. /\ pc' = "scan" /\ i' = i + 1 /\ ran' = ran \cup {cur}
        /\ due' = [due EXCEPT ![cur] = NextAction(cur)]
        /\ UNCHANGED <<now, tasks, expected>>
    BY <1>9, Zenon DEF CallbackTrue, Returned
  <2>3. \A k \in (i + 1)..Len(tasks) : tasks[k] \notin ran \cup {cur}
    BY <1>t, <1>b, <2>1 DEF TickInv
  <2>4. ASSUME NEW t \in expected \ (ran \cup {cur})
        PROVE  due'[t] <= now /\ \E k \in (i + 1)..Len(tasks) : tasks[k] = t
    <3>1. PICK k \in i..Len(tasks) : tasks[k] = t
      BY <1>t, <2>1, Zenon DEF TickInv
    <3>2. due[t] <= now
      BY <1>t, <2>1, Zenon DEF TickInv
    <3>3. k \in (i + 1)..Len(tasks)
      BY <1>b, <2>1, <3>1
    <3>4. t \in Ids /\ due'[t] = due[t]
      BY <1>t, <1>b, <2>1, <2>2, Zenon DEF TypeOK
    <3>5. QED BY <3>1, <3>2, <3>3, <3>4, Zenon
  <2>5. QED BY <2>2, <2>3, <2>4, Zenon DEF TickInv
<1>10. CASE CallbackFalse
  <2>1. i \in 1..Len(tasks) /\ cur = tasks[i] /\ cur \in Ids /\ pc = "callback" /\ i \in DOMAIN tasks
    BY <1>10, ReturnedFacts, Zenon DEF CallbackFalse, Returned
  <2>2. /\ pc' = "scan" /\ i' = i /\ ran' = ran \cup {cur}
        /\ tasks' = RemoveNth(tasks, i)
        /\ UNCHANGED <<now, due, expected>>
    BY <1>10, Zenon DEF CallbackFalse, Returned
  <2>3. /\ Len(tasks') = Len(tasks) - 1
        /\ \A k \in 1..(Len(tasks) - 1) : tasks'[k] = IF k = i THEN tasks[Len(tasks)] ELSE tasks[k]
    BY <2>1, <2>2, RemovedBag, Zenon
  <2>4. \A k \in (i + 1)..Len(tasks) : tasks[k] \notin ran \cup {cur}
    BY <1>t, <1>b, <2>1 DEF TickInv
  <2>5. \A k \in i..(Len(tasks) - 1) : tasks'[k] \notin ran \cup {cur}
    BY <1>b, <2>1, <2>3, <2>4
  <2>6. ASSUME NEW t \in expected \ (ran \cup {cur})
        PROVE  due[t] <= now /\ \E k \in i..(Len(tasks) - 1) : tasks'[k] = t
    <3>1. PICK k \in i..Len(tasks) : tasks[k] = t
      BY <1>t, <2>1, Zenon DEF TickInv
    <3>2. due[t] <= now
      BY <1>t, <2>1, Zenon DEF TickInv
    <3>3. k \in (i + 1)..Len(tasks)
      BY <1>b, <2>1, <3>1
    <3>4. CASE k = Len(tasks)
      <4>1. i \in i..(Len(tasks) - 1) /\ tasks'[i] = t
        BY <1>b, <2>1, <2>3, <3>1, <3>3, <3>4
      <4>2. QED BY <3>2, <4>1, Zenon
    <3>5. CASE k # Len(tasks)
      <4>1. k \in i..(Len(tasks) - 1) /\ k \in 1..(Len(tasks) - 1) /\ k # i
        BY <1>b, <3>3, <3>5
      <4>2. tasks'[k] = t
        BY <2>3, <3>1, <4>1, Zenon
      <4>3. QED BY <3>2, <4>1, <4>2, Zenon
    <3>6. QED BY <3>4, <3>5, Zenon
  <2>7. QED BY <2>2, <2>3, <2>5, <2>6, Zenon DEF TickInv
<1>11. QED
  BY <1>2, <1>4, <1>5, <1>6, <1>7, <1>8, <1>9, <1>10, Zenon DEF Next

\* RestartInv and ModesKept: when the tasks in the bag are due.
LEMMA ModesStep == IInv /\ [Next]_vars => RestartInv' /\ ModesKept'
<1> SUFFICES ASSUME IInv, [Next]_vars PROVE RestartInv' /\ ModesKept' BY Zenon
<1> USE DEF fields, history, loop
<1> DEFINE Ignoring(t) == mode[t] = "ignore" => due[t] = birth[t] + (runs[t] + 1) * period[t]
           Restarting(t) == mode[t] = "restart" /\ runs[t] > 0 => due[t] = ended[t] + period[t]
           Waited == pc = "callback" /\ mode[cur] = "restart" /\ runs[cur] > 0 =>
                       began >= ended[cur] + period[cur]
<1>t. TypeOK /\ BagIsLive /\ \A t \in Range(tasks) : t \in Ids /\ Ignoring(t) /\ Restarting(t)
  BY BagFacts, Zenon DEF IInv, RestartInv, ModesKept
<1>b. /\ Len(tasks) \in Nat /\ i \in Nat \ {0}
      /\ \A k \in 1..Len(tasks) : tasks[k] \in Ids /\ tasks[k] \in Range(tasks)
  BY <1>t, BagFacts, Zenon DEF TypeOK
<1>w. Waited
  BY Zenon DEF IInv, ModesKept
<1>q. (\A t \in Range(tasks)' : Ignoring(t)' /\ Restarting(t)') /\ Waited' =>
        RestartInv' /\ ModesKept'
  BY Zenon DEF RestartInv, ModesKept
<1>1. CASE /\ UNCHANGED <<mode, period, due, birth, ended, runs>>
           /\ Range(tasks)' \subseteq Range(tasks)
           /\ UNCHANGED <<pc, cur, began>> \/ pc' # "callback"
  BY <1>t, <1>w, <1>q, <1>1, Zenon
<1>2. CASE Pass \/ ScheduleFails \/ TickSkip \/ TickBegin \/ TickEnd \/ UNCHANGED vars
  BY <1>1, <1>2, Zenon DEF Pass, ScheduleFails, TickSkip, TickBegin, TickEnd, vars
<1>3. CASE Destroy
  <2>1. Range(tasks)' = {}
    BY <1>3 DEF Destroy, Range
  <2>2. QED BY <1>1, <1>3, <2>1, Zenon DEF Destroy
<1>4. ASSUME NEW x \in Ids, RemoveTask(x) PROVE RestartInv' /\ ModesKept'
  <2>1. PICK n \in DOMAIN tasks : tasks' = RemoveNth(tasks, n)
    BY <1>4, Zenon DEF RemoveTask
  <2>2. Range(tasks)' \subseteq Range(tasks)
    BY <2>1, RemovedBag, Zenon
  <2>3. QED BY <1>1, <1>4, <2>2, Zenon DEF RemoveTask
<1>5. CASE TickRun
  <2>1. /\ pc = "scan" /\ i <= Len(tasks) /\ due[tasks[i]] <= now /\ cur' = tasks[i] /\ began' = now
        /\ UNCHANGED <<tasks, mode, period, due, birth, ended, runs>>
    BY <1>5, Zenon DEF TickRun
  <2>2. tasks[i] \in Range(tasks) /\ tasks[i] \in Ids
    BY <1>b, <2>1
  <2>3. Restarting(tasks[i]) /\ due[tasks[i]] \in Nat /\ now \in Nat
    BY <1>t, <2>2, Zenon DEF TypeOK
  <2>4. Waited'
    BY <2>1, <2>3, Zenon
  <2>5. QED BY <1>t, <1>q, <2>1, <2>4, Zenon
<1>6. ASSUME NEW m \in {"ignore", "restart"}, NEW p \in Periods, Schedule(m, p)
      PROVE  RestartInv' /\ ModesKept'
  <2>1. nextId \in Ids /\ nextId \notin Range(tasks) /\ Range(tasks)' = Range(tasks) \cup {nextId}
    BY <1>6, ScheduledBag, Zenon
  <2>2. /\ mode' = [mode EXCEPT ![nextId] = m] /\ period' = [period EXCEPT ![nextId] = p]
        /\ due' = [due EXCEPT ![nextId] = now + p] /\ birth' = [birth EXCEPT ![nextId] = now]
        /\ UNCHANGED <<pc, cur, began, ended, runs>>
    BY <1>6, Zenon DEF Schedule
  <2>3. \A t \in Ids : t # nextId =>
          mode'[t] = mode[t] /\ period'[t] = period[t] /\ due'[t] = due[t] /\ birth'[t] = birth[t]
    BY <1>t, <2>2, Zenon DEF TypeOK
  <2>4. ASSUME NEW t \in Range(tasks) PROVE Ignoring(t)' /\ Restarting(t)'
    <3>1. t \in Ids /\ t # nextId /\ Ignoring(t) /\ Restarting(t)
      BY <1>t, <2>1, Zenon
    <3>2. QED BY <2>2, <2>3, <3>1, Zenon
  <2>5. ASSUME NEW t, t = nextId PROVE Ignoring(t)' /\ Restarting(t)'
    <3>1. runs[nextId] = 0
      BY <2>1 DEF IInv, IdsInv, TypeOK, Ids
    <3>2. /\ period'[t] = p /\ due'[t] = now + p /\ birth'[t] = now /\ runs'[t] = 0
          /\ p \in Nat /\ now \in Nat
      BY <1>t, <2>1, <2>2, <2>5, <3>1, TaskSchedulerAssumption, Zenon DEF TypeOK
    <3>3. QED BY <3>2
  <2>6. Waited'
    <3>1. CASE pc = "callback"
      <4>1. i <= Len(tasks) /\ cur = tasks[i]
        BY <3>1, Zenon DEF IInv, TickInv
      <4>2. cur \in Range(tasks) /\ cur \in Ids
        BY <1>b, <4>1
      <4>3. cur # nextId
        BY <2>1, <4>2, Zenon
      <4>4. QED BY <1>w, <2>2, <2>3, <4>2, <4>3, Zenon
    <3>2. CASE pc # "callback"
      BY <2>2, <3>2, Zenon
    <3>3. QED BY <3>1, <3>2, Zenon
  <2>7. QED BY <1>q, <2>1, <2>4, <2>5, <2>6, Zenon
<1>7. CASE CallbackTrue
  <2>1. cur \in Range(tasks) /\ cur \in Ids
    BY <1>7, ReturnedFacts, Zenon DEF CallbackTrue
  <2>2. /\ pc' = "scan" /\ due' = [due EXCEPT ![cur] = NextAction(cur)]
        /\ ended' = [ended EXCEPT ![cur] = now] /\ runs' = [runs EXCEPT ![cur] = @ + 1]
        /\ UNCHANGED <<tasks, mode, period, birth>>
    BY <1>7, Zenon DEF CallbackTrue, Returned
  <2>3. \A t \in Ids : t # cur => due'[t] = due[t] /\ ended'[t] = ended[t] /\ runs'[t] = runs[t]
    BY <1>t, <2>2, Zenon DEF TypeOK
  <2>4. ASSUME NEW t \in Range(tasks), t # cur PROVE Ignoring(t)' /\ Restarting(t)'
    BY <1>t, <2>2, <2>3, <2>4, Zenon
  <2>5. ASSUME NEW t, t = cur PROVE Ignoring(t)' /\ Restarting(t)'
    <3>1. /\ due'[t] = NextAction(t) /\ ended'[t] = now /\ runs'[t] = runs[t] + 1
          /\ mode'[t] = mode[t] /\ period'[t] = period[t] /\ birth'[t] = birth[t]
      BY <1>t, <2>1, <2>2, <2>5, Zenon DEF TypeOK
    <3>2. /\ runs[t] \in Nat /\ period[t] \in Nat /\ birth[t] \in Nat /\ due[t] \in Nat
          /\ mode[t] \in {"ignore", "restart"}
      BY <1>t, <2>1, <2>5, Zenon DEF TypeOK
    <3>3. CASE mode[t] = "ignore"
      <4>1. due[t] = birth[t] + (runs[t] + 1) * period[t] /\ due'[t] = due[t] + period[t]
        BY <1>t, <2>1, <2>5, <3>1, <3>3, Zenon DEF NextAction
      <4>2. \A n, q, a \in Nat : a + (n + 1) * q + q = a + (n + 1 + 1) * q
        OBVIOUS
      <4>3. birth[t] + (runs[t] + 1) * period[t] + period[t] =
              birth[t] + (runs[t] + 1 + 1) * period[t]
        BY <3>2, <4>2, ZenonT(60)
      <4>4. due'[t] = birth[t] + (runs[t] + 1 + 1) * period[t]
        BY <4>1, <4>3, Zenon
      <4>5. QED BY <3>1, <3>3, <4>4, Zenon
    <3>4. CASE mode[t] = "restart"
      BY <3>1, <3>4, Zenon DEF NextAction
    <3>5. QED BY <3>2, <3>3, <3>4, Zenon
  <2>6. QED BY <1>q, <2>2, <2>4, <2>5, Zenon
<1>8. CASE CallbackFalse
  <2>1. i \in DOMAIN tasks /\ cur = tasks[i] /\ cur \in Ids
    BY <1>8, ReturnedFacts, Zenon DEF CallbackFalse
  <2>2. /\ pc' = "scan" /\ tasks' = RemoveNth(tasks, i)
        /\ ended' = [ended EXCEPT ![cur] = now] /\ runs' = [runs EXCEPT ![cur] = @ + 1]
        /\ UNCHANGED <<mode, period, birth, due>>
    BY <1>8, Zenon DEF CallbackFalse, Returned
  <2>3. Range(tasks)' = Range(tasks) \ {cur}
    BY <2>1, <2>2, RemovedBag, Zenon
  <2>4. \A t \in Ids : t # cur => ended'[t] = ended[t] /\ runs'[t] = runs[t]
    BY <1>t, <2>2, Zenon DEF TypeOK
  <2>5. \A t \in Range(tasks)' : Ignoring(t)' /\ Restarting(t)'
    BY <1>t, <2>2, <2>3, <2>4, Zenon
  <2>6. QED BY <1>q, <2>2, <2>5, Zenon
<1>9. QED
  BY <1>2, <1>3, <1>4, <1>5, <1>6, <1>7, <1>8, Zenon DEF Next

LEMMA InitIInv == Init => IInv
<1> SUFFICES ASSUME Init PROVE IInv BY Zenon
<1> USE TaskSchedulerAssumption DEF Init
<1>1. IsInjective(<< >>) /\ Range(<< >>) = {} /\ << >> \in Seq(Ids)
  BY EmptyFacts, Zenon DEF IsInjective, Range
<1>2. TypeOK
  BY <1>1 DEF TypeOK
<1>3. IdsInv
  BY Zenon DEF IdsInv
<1>4. BagIsLive
  BY <1>1 DEF BagIsLive
<1>5. TickInv /\ RestartInv /\ ModesKept
  BY <1>1, Zenon DEF TickInv, RestartInv, ModesKept
<1>6. QED BY <1>2, <1>3, <1>4, <1>5, Zenon DEF IInv

-----------------------------------------------------------------------------
\* The inductive invariant holds of every behaviour of the scheduler.
THEOREM Invariant == Spec => []IInv
<1>1. IInv /\ [Next]_vars => IInv'
  BY TypeStep, BagStep, TickStep, ModesStep, Zenon DEF IInv
<1>2. QED BY InitIInv, <1>1, PTL DEF Spec

\* ht_task_scheduler_tick runs every task that was due when it was called, and
\* none twice, although its loop runs over a bag whose entries change places.
THEOREM EveryDueTaskOnceTheorem == Spec => []EveryDueTaskOnce
<1>1. IInv => EveryDueTaskOnce
  <2> SUFFICES ASSUME IInv PROVE EveryDueTaskOnce BY Zenon
  <2>1. Len(tasks) \in Nat /\ i \in Nat
    BY BagFacts, Zenon DEF IInv, TypeOK
  <2>2. ASSUME pc = "scan", i > Len(tasks) PROVE expected \subseteq ran
    <3>1. i..Len(tasks) = {}
      BY <2>1, <2>2
    <3>2. QED BY <2>2, <3>1, Zenon DEF IInv, TickInv
  <2>3. ASSUME pc = "callback" PROVE cur \notin ran
    <3>1. i \in i..Len(tasks)
      BY <2>1, <2>3 DEF IInv, TickInv
    <3>2. QED BY <2>3, <3>1, Zenon DEF IInv, TickInv
  <2>4. QED BY <2>2, <2>3, Zenon DEF EveryDueTaskOnce
<1>2. QED BY Invariant, <1>1, PTL

\* The bag holds every task that was scheduled and not freed once, and no
\* pointer to a freed one.
THEOREM BagIsLiveTheorem == Spec => []BagIsLive
<1>1. IInv => BagIsLive
  BY Zenon DEF IInv
<1>2. QED BY Invariant, <1>1, PTL

\* Both scheduling modes keep their promise, whatever the delays of ticks and
\* the length of callbacks.
THEOREM ModesKeptTheorem == Spec => []ModesKept
<1>1. IInv => ModesKept
  BY Zenon DEF IInv
<1>2. QED BY Invariant, <1>1, PTL

=============================================================================
