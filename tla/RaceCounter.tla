----------------------------- MODULE RaceCounter -----------------------------
(***************************************************************************)
(* The demonstration of task2/race_condition_moment.c: two threads         *)
(* increment one counter under a mutex, main joins both and prints it.     *)
(* An increment is a load and a store: without the mutex the other thread  *)
(* may store in between.  That both pthread_create succeed is assumed.     *)
(***************************************************************************)
EXTENDS Integers

CONSTANTS
  Arguments,   \* bound: the numbers of increments the user may ask for
  INT_MAX

ASSUME CounterAssumption == Arguments \subseteq Int /\ INT_MAX \in Nat

Threads == {1, 2}
NoThread == 0

VARIABLES
  main_pc,         \* where main is,
  joined,          \* how many threads it has created, and later joined,
  num_increments, printed,
  counter, counter_mutex,
  pc, i, loaded    \* where each thread is in increment_counter, its loop
                   \* counter, and the value of counter it has read

main_vars == <<main_pc, joined, num_increments, printed>>
thread_vars == <<pc, i, loaded>>
vars == <<main_vars, counter, counter_mutex, thread_vars>>

Init ==
  /\ main_pc = "atoi" /\ joined = 0 /\ num_increments = 0 /\ printed = 0
  /\ counter = 0 /\ counter_mutex = NoThread
  /\ pc = [t \in Threads |-> "none"]
  /\ i = [t \in Threads |-> 0]
  /\ loaded = [t \in Threads |-> 0]
-----------------------------------------------------------------------------
(* main *)

MainRead ==
  /\ main_pc = "atoi" /\ main_pc' = "create"
  /\ num_increments' \in Arguments
  /\ UNCHANGED <<joined, printed, counter, counter_mutex, thread_vars>>

(* pthread_create, of thread1 and then of thread2 *)
MainCreate ==
  /\ main_pc = "create"
  /\ pc' = [pc EXCEPT ![joined + 1] = "test"]
  /\ \/ joined = 0 /\ joined' = 1 /\ UNCHANGED main_pc
     \/ joined = 1 /\ joined' = 0 /\ main_pc' = "join"
  /\ UNCHANGED <<num_increments, printed, counter, counter_mutex, i, loaded>>

(* Mutant: thread2 not joined (line 40). *)
MainJoinFirst ==
  /\ main_pc = "join"
  /\ pc[1] = "ended"
  /\ joined' = 2 /\ main_pc' = "print"
  /\ UNCHANGED <<num_increments, printed, counter, counter_mutex, thread_vars>>

(* pthread_join, of thread1 and then of thread2 *)
MainJoin ==
  /\ main_pc = "join"
  /\ pc[joined + 1] = "ended"
  /\ joined' = joined + 1
  /\ main_pc' = IF joined = 1 THEN "print" ELSE "join"
  /\ UNCHANGED <<num_increments, printed, counter, counter_mutex, thread_vars>>

(* The counter is read without the mutex. *)
MainPrint ==
  /\ main_pc = "print" /\ main_pc' = "done"
  /\ printed' = counter
  /\ UNCHANGED <<joined, num_increments, counter, counter_mutex, thread_vars>>

MainStep == MainRead \/ MainCreate \/ MainJoin \/ MainPrint
-----------------------------------------------------------------------------
(* increment_counter *)

Go(t, from, to) == pc[t] = from /\ pc' = [pc EXCEPT ![t] = to]

(* i < num_increments *)
Test(t) ==
  /\ Go(t, "test", IF i[t] < num_increments THEN "lock" ELSE "ended")
  /\ UNCHANGED <<main_vars, counter, counter_mutex, i, loaded>>

(* Mutant: no mutex (line 15 left out). *)
LockForgotten(t) ==
  /\ Go(t, "lock", "load")
  /\ UNCHANGED <<main_vars, counter, counter_mutex, i, loaded>>

Lock(t) ==
  /\ Go(t, "lock", "load")
  /\ counter_mutex = NoThread /\ counter_mutex' = t
  /\ UNCHANGED <<main_vars, counter, i, loaded>>

(* counter++: the load, *)
Load(t) ==
  /\ Go(t, "load", "store")
  /\ loaded' = [loaded EXCEPT ![t] = counter]
  /\ UNCHANGED <<main_vars, counter, counter_mutex, i>>

(* then the store of one more, which an int does not hold after INT_MAX: C *)
(* leaves that undefined, the machine wraps around.                        *)
Store(t) ==
  /\ Go(t, "store", "unlock")
  /\ counter' = IF loaded[t] = INT_MAX THEN -INT_MAX - 1 ELSE loaded[t] + 1
  /\ UNCHANGED <<main_vars, counter_mutex, i, loaded>>

(* The unlock, and i++ *)
Unlock(t) ==
  /\ Go(t, "unlock", "test")
  /\ counter_mutex' = NoThread
  /\ i' = [i EXCEPT ![t] = @ + 1]
  /\ UNCHANGED <<main_vars, counter, loaded>>

ThreadStep(t) == Test(t) \/ Lock(t) \/ Load(t) \/ Store(t) \/ Unlock(t)

Terminated == main_pc = "done" /\ UNCHANGED vars

Next == MainStep \/ (\E t \in Threads : ThreadStep(t)) \/ Terminated

Spec == Init /\ [][Next]_vars
-----------------------------------------------------------------------------
(* Properties *)

(* How many increments the program is to make: none for a negative number. *)
Wanted == IF num_increments < 0 THEN 0 ELSE 2 * num_increments

(* While nobody holds the mutex the counter is the number of increments    *)
(* both threads have made: none is lost (race_condition_moment.c:15).      *)
NoneLost ==
  Wanted <= INT_MAX /\ counter_mutex = NoThread => counter = i[1] + i[2]

(* answer.txt, "Ideally counter would be 2 * num_increments": what main    *)
(* reads without the mutex and prints (race_condition_moment.c:42) is that *)
(* number, as long as an int holds it, however the threads interleave and  *)
(* even when one has ended before the other starts.                        *)
FinalCount == main_pc = "done" /\ Wanted <= INT_MAX => printed = Wanted
=============================================================================
