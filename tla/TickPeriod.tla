----------------------------- MODULE TickPeriod -----------------------------
(***************************************************************************)
(* The tick period a task scheduler proposes for the tasks in its bag      *)
(* (task_scheduler.c): _greatest_common_divisor and                        *)
(* ht_task_scheduler_get_optimal_tick_period.                              *)
(***************************************************************************)
EXTENDS TaskScheduler, SequencesExt, FiniteSetsExt

\* Faulty variant of Gcd: the loop makes one iteration.
GcdOnce(a, b) == IF b = 0 THEN a ELSE IF a % b = 0 THEN b ELSE a % b

\* The loop of the code: the larger of its arguments shrinks every time.
Euclid[a \in Nat, b \in Nat] == IF b = 0 THEN a ELSE Euclid[b, a % b]

Gcd(a, b) == Euclid[a, b]

OptimalTickPeriod(s) ==
  FoldLeft(LAMBDA perfect, t : IF period[t] = 0 THEN perfect
                               ELSE IF perfect = 0 THEN period[t]
                               ELSE Gcd(perfect, period[t]),
           0, s)

-----------------------------------------------------------------------------
\* The tick period proposed for the tasks is the greatest number that divides
\* all their periods other than 0.
OptimalTickIsGcd ==
  LET ps == {period[t] : t \in Range(tasks)} \ {0}
      common == {d \in 1..Max(ps \cup {1}) : \A p \in ps : p % d = 0}
  IN OptimalTickPeriod(tasks) = IF ps = {} THEN 0 ELSE Max(common)

=============================================================================
