-------------------------- MODULE RaceCounterProofs --------------------------
(* Theorems about RaceCounter, for any set of arguments and any INT_MAX.   *)
EXTENDS RaceCounter, TLAPS

(* Every variable stays in its type, and no thread makes more increments   *)
(* than it was asked for (race_condition_moment.c:13).                     *)
CounterTypeOK ==
  /\ main_pc \in {"atoi", "create", "join", "print", "done"}
  /\ joined \in 0 .. 2
  /\ num_increments \in Int /\ printed \in Int
  /\ counter \in Int
  /\ counter_mutex \in Threads \cup {NoThread}
  /\ pc \in [Threads -> {"none", "test", "lock", "load", "store", "unlock",
                         "ended"}]
  /\ i \in [Threads -> Nat] /\ loaded \in [Threads -> Int]
  /\ \A t \in Threads : 2 * i[t] <= Wanted

(* The increments thread t has stored. *)
Made(t) == i[t] + (IF pc[t] = "unlock" THEN 1 ELSE 0)

(* The mutex is held by the thread between its lock and its unlock, and    *)
(* what that thread has loaded is still the counter when it stores.        *)
HeldInv ==
  \A t \in Threads :
    /\ pc[t] \in {"load", "store", "unlock"} <=> counter_mutex = t
    /\ pc[t] = "store" => loaded[t] = counter

(* What each place of the loop says of its counter. *)
LoopInv ==
  \A t \in Threads :
    /\ pc[t] = "none" => i[t] = 0
    /\ pc[t] \in {"lock", "load", "store", "unlock"} => 2 * i[t] < Wanted
    /\ pc[t] = "ended" => 2 * i[t] = Wanted

(* Which threads are created, and which have ended, at main's places. *)
MainInv ==
  /\ main_pc = "atoi" => counter = 0 /\ \A t \in Threads : pc[t] = "none"
  /\ main_pc \in {"atoi", "create"} =>
       joined \in {0, 1} /\ \A t \in Threads : joined < t => pc[t] = "none"
  /\ main_pc = "join" => joined \in {0, 1} /\ (joined = 1 => pc[1] = "ended")
  /\ main_pc \in {"print", "done"} => \A t \in Threads : pc[t] = "ended"
  /\ main_pc = "done" => printed = counter

CountInv == Wanted <= INT_MAX => counter = Made(1) + Made(2)

CounterInv == CounterTypeOK /\ HeldInv /\ LoopInv /\ MainInv /\ CountInv

LEMMA InitInv == Init => CounterInv
  BY CounterAssumption DEF Init, CounterInv, CounterTypeOK, HeldInv, LoopInv,
     MainInv, CountInv, Made, Wanted, Threads, NoThread

(* Main's steps change the counter of no thread; the argument is read      *)
(* before any thread exists.                                               *)
LEMMA MainKeepsInv == CounterInv /\ MainStep => CounterInv'
<1> SUFFICES ASSUME CounterInv, MainStep PROVE CounterInv'
  OBVIOUS
<1> USE CounterAssumption DEF CounterInv, CounterTypeOK, HeldInv, LoopInv,
        MainInv, CountInv, Made, Wanted, Threads, NoThread, thread_vars
<1>1. CASE MainRead
  <2>1. /\ num_increments' \in Int
        /\ \A t \in Threads : pc[t] = "none" /\ i[t] = 0
    BY <1>1 DEF MainRead
  <2>2. CounterTypeOK' /\ HeldInv' /\ LoopInv' /\ MainInv'
    BY <1>1, <2>1 DEF MainRead
  <2>3. CountInv'
    BY <1>1, <2>1 DEF MainRead
  <2>4. QED
    BY <2>2, <2>3
<1>2. CASE MainCreate
  BY <1>2 DEF MainCreate
<1>3. CASE MainJoin
  BY <1>3 DEF MainJoin
<1>4. CASE MainPrint
  BY <1>4 DEF MainPrint
<1>5. QED
  BY <1>1, <1>2, <1>3, <1>4 DEF MainStep

(* A thread's steps: the store adds one because nobody else stored since   *)
(* the load.                                                               *)
LEMMA ThreadKeepsInv ==
  ASSUME CounterInv, NEW t \in Threads, ThreadStep(t)
  PROVE  CounterInv'
<1> USE CounterAssumption DEF CounterInv, CounterTypeOK, HeldInv, LoopInv,
        MainInv, CountInv, Made, Wanted, Threads, NoThread, main_vars, Go
<1>1. CASE Test(t)
  BY <1>1 DEF Test
<1>2. CASE Lock(t)
  BY <1>2 DEF Lock
<1>3. CASE Load(t)
  BY <1>3 DEF Load
<1>4. CASE Store(t)
  BY <1>4 DEF Store
<1>5. CASE Unlock(t)
  BY <1>5 DEF Unlock
<1>6. QED
  BY <1>1, <1>2, <1>3, <1>4, <1>5 DEF ThreadStep

LEMMA StepInv == CounterInv /\ [Next]_vars => CounterInv'
<1> SUFFICES ASSUME CounterInv, [Next]_vars PROVE CounterInv'
  OBVIOUS
<1>1. CASE UNCHANGED vars
  BY <1>1 DEF vars, main_vars, thread_vars, CounterInv, CounterTypeOK, HeldInv,
     LoopInv, MainInv, CountInv, Made, Wanted
<1>2. CASE MainStep
  BY <1>2, MainKeepsInv
<1>3. CASE \E t \in Threads : ThreadStep(t)
  BY <1>3, ThreadKeepsInv
<1>4. QED
  BY <1>1, <1>2, <1>3 DEF Next, Terminated

LEMMA InvHolds == Spec => []CounterInv
  BY InitInv, StepInv, PTL DEF Spec

(* No increment is lost: whenever the mutex is free the counter is the     *)
(* number of increments made (race_condition_moment.c:15-17).              *)
THEOREM NoIncrementLost == Spec => []NoneLost
<1>1. CounterInv => NoneLost
  BY DEF CounterInv, CountInv, HeldInv, CounterTypeOK, NoneLost, Made, Threads,
     NoThread
<1>2. QED
  BY <1>1, InvHolds, PTL

(* What main prints is twice the argument (race_condition_moment.c:42). *)
THEOREM FinalCountCorrect == Spec => []FinalCount
<1>1. CounterInv => FinalCount
  BY DEF CounterInv, CountInv, LoopInv, MainInv, CounterTypeOK, FinalCount,
     Made, Wanted, Threads
<1>2. QED
  BY <1>1, InvHolds, PTL
=============================================================================
