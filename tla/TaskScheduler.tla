--------------------------- MODULE TaskScheduler ---------------------------
(***************************************************************************)
(* The task scheduler (task_scheduler.c).                                  *)
(*                                                                         *)
(* One thread schedules and removes tasks and calls tick, whose loop runs  *)
(* over a bag of tasks while callbacks take time, schedule new tasks and   *)
(* have their own task removed.  The clock runs all the time.              *)
(***************************************************************************)
EXTENDS Naturals, Sequences, Functions

CONSTANTS Periods,   \* periods tasks are scheduled with
          InitTaskCount, \* DEFAULT_INIT_TASK_COUNT_: the bag has room for so many
          MaxTasks,  \* bound on the tasks scheduled; next_task_id's limit
          MaxTime,   \* bound on the clock
          MaxTicks,  \* bound on the calls of tick
          NoTask

Ids == 0..(MaxTasks - 1)

ASSUME TaskSchedulerAssumption ==
  /\ Periods \subseteq Nat
  /\ InitTaskCount \in Nat
  /\ MaxTasks \in Nat /\ MaxTime \in Nat /\ MaxTicks \in Nat
  /\ NoTask \notin Ids

VARIABLES
  now,       \* the monotonic clock
  tasks,     \* the bag: ids of the tasks its pointers point to
  nextId,    \* next_task_id
  mode, period, due,  \* fields of each task; due is next_action_ts
  freed,     \* ids of the tasks that were freed
  leaked,    \* ids of the tasks no pointer points to
  pc,        \* "idle", "scan" in the loop of tick, "callback" in a callback;
             \* "destroyed"
  i,         \* the loop variable, from 1
  cur,       \* the task whose callback runs
  ticks,     \* calls of tick so far
  began,     \* history: when it was called
  expected,  \* history: tasks that were due when tick was called
  ran,       \* history: tasks tick has run
  birth,     \* history: when each task was scheduled
  ended,     \* history: when its last callback returned
  runs       \* history: how many callbacks have returned

vars == <<now, tasks, nextId, mode, period, due, freed, leaked, pc, i, cur,
          ticks, began, expected, ran, birth, ended, runs>>

fields  == <<mode, period, birth, leaked>>
history == <<ended, runs>>
loop    == <<pc, i, cur, ticks, began, expected, ran>>

Init ==
  /\ now = 0
  /\ tasks = << >> /\ nextId = 0
  /\ mode = [t \in Ids |-> "ignore"]
  /\ period = [t \in Ids |-> 0]
  /\ due = [t \in Ids |-> 0]
  /\ freed = {} /\ leaked = {}
  /\ pc = "idle" /\ i = 1 /\ cur = NoTask /\ ticks = 0 /\ began = 0
  /\ expected = {} /\ ran = {}
  /\ birth = [t \in Ids |-> 0]
  /\ ended = [t \in Ids |-> 0]
  /\ runs = [t \in Ids |-> 0]

\* ht_monotonic_clock_get_timestamp returns later values later.
Pass ==
  /\ now < MaxTime /\ pc # "destroyed"
  /\ now' = now + 1
  /\ UNCHANGED <<tasks, nextId, fields, due, freed, loop, history>>

\* ht_task_scheduler_schedule_task, also from a callback.  At the limit of
\* the ids, or without memory for the task, nothing changes.
Schedule(m, p) ==
  /\ pc \in {"idle", "callback"}
  /\ nextId < MaxTasks
  /\ tasks' = Append(tasks, nextId)
  /\ nextId' = nextId + 1
  /\ mode' = [mode EXCEPT ![nextId] = m]
  /\ period' = [period EXCEPT ![nextId] = p]
  /\ due' = [due EXCEPT ![nextId] = now + p]
  /\ birth' = [birth EXCEPT ![nextId] = now]
  /\ UNCHANGED <<now, freed, leaked, loop, history>>

\* The bag cannot grow: the id is used up and the task is never freed.
ScheduleFails ==
  /\ pc \in {"idle", "callback"}
  /\ nextId < MaxTasks /\ Len(tasks) >= InitTaskCount
  /\ nextId' = nextId + 1
  /\ leaked' = leaked \cup {nextId}
  /\ UNCHANGED <<now, tasks, mode, period, birth, due, freed, loop, history>>

\* Faulty variant of RemoveNth: nothing takes the place of the removed entry.
RemoveNthLast(s, n) == SubSeq(s, 1, Len(s) - 1)

\* ht_bag_void_ptr_remove_nth: the last entry takes the place of the n-th.
RemoveNth(s, n) ==
  [k \in 1..(Len(s) - 1) |-> IF k = n THEN s[Len(s)] ELSE s[k]]

\* ht_task_scheduler_remove_task, between two ticks.
RemoveTask(t) ==
  /\ pc = "idle"
  /\ \E n \in DOMAIN tasks :
       /\ tasks[n] = t
       /\ tasks' = RemoveNth(tasks, n)
  /\ freed' = freed \cup {t}
  /\ i' = 1
  /\ UNCHANGED <<now, nextId, fields, due, pc, cur, ticks, began, expected, ran,
                 history>>

\* ht_task_scheduler_tick is called.
TickBegin ==
  /\ pc = "idle" /\ ticks < MaxTicks
  /\ pc' = "scan"
  /\ ticks' = ticks + 1
  /\ i' = 1
  /\ ran' = {}
  /\ expected' = {t \in Range(tasks) : due[t] <= now}
  /\ UNCHANGED <<now, tasks, nextId, fields, due, freed, cur, began, history>>

\* A task that is not due yet.
TickSkip ==
  /\ pc = "scan" /\ i <= Len(tasks)
  /\ due[tasks[i]] > now
  /\ i' = i + 1
  /\ UNCHANGED <<now, tasks, nextId, fields, due, freed, pc, cur, ticks, began,
                 expected, ran, history>>

\* A task that is due: its callback is called.
TickRun ==
  /\ pc = "scan" /\ i <= Len(tasks)
  /\ due[tasks[i]] <= now
  /\ cur' = tasks[i]
  /\ began' = now
  /\ pc' = "callback"
  /\ UNCHANGED <<now, tasks, nextId, fields, due, freed, i, ticks, expected, ran,
                 history>>

Returned ==
  /\ pc = "callback"
  /\ pc' = "scan"
  /\ cur' = NoTask
  /\ ran' = ran \cup {cur}
  /\ ended' = [ended EXCEPT ![cur] = now]
  /\ runs' = [runs EXCEPT ![cur] = @ + 1]
  /\ UNCHANGED <<now, nextId, fields, ticks, began, expected>>

\* Faulty variant of CallbackFalse: the place of the removed task is not
\* visited again.
CallbackFalseSkipping ==
  /\ Returned
  /\ tasks' = RemoveNth(tasks, i)
  /\ freed' = freed \cup {cur}
  /\ i' = i + 1
  /\ UNCHANGED due

\* The callback returns HT_FALSE: the task is removed and freed, and the task
\* that takes its place is visited next.
CallbackFalse ==
  /\ Returned
  /\ tasks' = RemoveNth(tasks, i)
  /\ freed' = freed \cup {cur}
  /\ i' = i
  /\ UNCHANGED due

\* Faulty variant of NextAction: the timer starts when the callback is called.
NextActionFromStart(t) ==
  IF mode[t] = "ignore" THEN due[t] + period[t] ELSE began + period[t]

\* next_action_ts after a callback.
NextAction(t) ==
  IF mode[t] = "ignore" THEN due[t] + period[t] ELSE now + period[t]

\* The callback returns HT_TRUE: the task is scheduled again.
CallbackTrue ==
  /\ Returned
  /\ due' = [due EXCEPT ![cur] = NextAction(cur)]
  /\ i' = i + 1
  /\ UNCHANGED <<tasks, freed>>

TickEnd ==
  /\ pc = "scan" /\ i > Len(tasks)
  /\ pc' = "idle"
  /\ i' = 1
  /\ expected' = {} /\ ran' = {}
  /\ UNCHANGED <<now, tasks, nextId, fields, due, freed, cur, ticks, began,
                 history>>

\* ht_task_scheduler_destroy.
Destroy ==
  /\ pc = "idle"
  /\ pc' = "destroyed"
  /\ tasks' = << >>
  /\ freed' = freed \cup Range(tasks)
  /\ UNCHANGED <<now, nextId, fields, due, i, cur, ticks, began, expected, ran,
                 history>>

Next ==
  \/ Pass \/ ScheduleFails \/ Destroy
  \/ \E m \in {"ignore", "restart"}, p \in Periods : Schedule(m, p)
  \/ \E t \in Ids : RemoveTask(t)
  \/ TickBegin \/ TickSkip \/ TickRun \/ TickEnd
  \/ CallbackTrue \/ CallbackFalse

Spec == Init /\ [][Next]_vars

-----------------------------------------------------------------------------
(***************************************************************************)
(* Properties.                                                             *)
(***************************************************************************)

\* A tick runs every task that was due when it was called, and none twice,
\* although tasks change places in the bag while the loop runs over it.
EveryDueTaskOnce ==
  /\ pc = "scan" /\ i > Len(tasks) => expected \subseteq ran
  /\ pc = "callback" => cur \notin ran

\* The bag holds each task that was scheduled and not freed exactly once, but
\* for the ones it had no room for: no pointer to a freed task is left in it,
\* and destroying the scheduler frees all of them.
BagIsLive ==
  /\ IsInjective(tasks)
  /\ Range(tasks) = (0..(nextId - 1)) \ (freed \cup leaked)
  /\ freed \cap leaked = {}

\* HT_TASK_SCHEDULING_RESTART_TIMER: at least the period passes between the
\* end of a callback and the next call, whatever the delays.
\* HT_TASK_SCHEDULING_IGNORE_DELAYS: the n-th call is due n periods after the
\* task was scheduled; delays of ticks and callbacks do not add up.
ModesKept ==
  /\ pc = "callback" /\ mode[cur] = "restart" /\ runs[cur] > 0 =>
       began >= ended[cur] + period[cur]
  /\ \A t \in Range(tasks) : mode[t] = "ignore" =>
       due[t] = birth[t] + (runs[t] + 1) * period[t]

-----------------------------------------------------------------------------
\* What the proofs of the properties rest on.

\* The types of the variables.
TypeOK ==
  /\ now \in Nat
  /\ tasks \in Seq(Ids)
  /\ nextId \in 0..MaxTasks
  /\ mode \in [Ids -> {"ignore", "restart"}]
  /\ period \in [Ids -> Nat] /\ due \in [Ids -> Nat]
  /\ freed \subseteq Ids /\ leaked \subseteq Ids
  /\ pc \in {"idle", "scan", "callback", "destroyed"}
  /\ i \in Nat \ {0}
  /\ cur \in Ids \cup {NoTask}
  /\ began \in Nat
  /\ expected \subseteq Ids /\ ran \subseteq Ids
  /\ birth \in [Ids -> Nat] /\ ended \in [Ids -> Nat] /\ runs \in [Ids -> Nat]

\* An id that has not been given out belongs to no task.
IdsInv ==
  \A t \in Ids : t >= nextId => t \notin freed \cup leaked \cup ran /\ runs[t] = 0

\* The loop of tick: the tasks it has not reached have not run; the ones that
\* were due when it began have run, or are due and still ahead of it, although
\* the last task of the bag may take a place the loop has reached.
TickInv ==
  pc \in {"scan", "callback"} =>
    /\ \A k \in i..Len(tasks) : tasks[k] \notin ran
    /\ \A t \in expected \ ran :
         due[t] <= now /\ \E k \in i..Len(tasks) : tasks[k] = t
    /\ pc = "callback" => i <= Len(tasks) /\ cur = tasks[i] /\ due[cur] <= began

\* HT_TASK_SCHEDULING_RESTART_TIMER: due is counted from the end of the last
\* callback.
RestartInv ==
  \A t \in Range(tasks) : mode[t] = "restart" /\ runs[t] > 0 =>
    due[t] = ended[t] + period[t]

\* The inductive invariant.
IInv ==
  /\ TypeOK
  /\ IdsInv
  /\ BagIsLive
  /\ TickInv
  /\ RestartInv
  /\ ModesKept

=============================================================================
