-------------------------- MODULE WorkerPoolProofs --------------------------
(***************************************************************************)
(* Proofs about the worker pool, for any number of workers and of tasks,   *)
(* any chunk size and any limit of chunks.  They rest on the inductive     *)
(* invariant QInv of the queue, which main and the workers keep because    *)
(* they only call its functions.                                           *)
(***************************************************************************)
EXTENDS WorkerPool, ChunkedQueueTheorems

-----------------------------------------------------------------------------
(* The inductive invariant *)

(* The chunks are those QInv describes until WP_free frees them. *)
QueueInv == TypeOK /\ (main_pc # "done" => QInv)

ControlInv ==
  /\ main_pc \in {"spawn", "enqueue", "stop", "join", "check", "free", "done",
                 "exit1", "lost"}
  /\ i \in Nat
  /\ main_pc = "enqueue" => i <= task_count
  /\ main_pc # "enqueue" => i <= thread_count
  /\ worker_pc \in [Workers -> {"unborn", "missing", "loop", "func",
                               "register", "dying", "exited"}]
  /\ main_pc = "spawn" =>
       \A w \in i + 1 .. thread_count : worker_pc[w] = "unborn"

(* How many wrappers main has offered to the queue. *)
Made ==
  IF main_pc = "spawn" THEN 0
  ELSE IF main_pc = "enqueue" THEN i
  ELSE IF main_pc = "stop" THEN task_count + i
  ELSE task_count + thread_count

(* The points of QUEUE_add before the wrapper is in the queue. *)
BeforePut == {"add_lock", "add_test", "add_sleep", "add_woken"}

(* Main is the only writer: the wrappers enter the queue in their order,   *)
(* all but the one main has in hand are in it, and they leave in order.    *)
MainInv ==
  /\ pc[Main] \in AddPC \cup {"idle"}
  /\ pc[Main] \in AddPC =>
       main_pc \in {"enqueue", "stop"} /\ task[Main] = Made
  /\ pc[Main] = "idle" => task[Main] = NULL
  /\ Len(added) = IF pc[Main] \in BeforePut THEN Made - 1 ELSE Made
  /\ \A n \in 1 .. Len(added) : added[n] = n
  /\ Len(taken) <= Len(added)
  /\ \A n \in 1 .. Len(taken) : taken[n] = n

(* Where a worker is, in its loop and in QUEUE_get, and what it holds. *)
WorkerInv ==
  \A w \in Workers :
    /\ pc[w] \in GetPC \cup {"idle"}
    /\ worker_pc[w] # "loop" => pc[w] = "idle"
    /\ worker_pc[w] \in {"unborn", "missing", "exited"} => task[w] = NULL
    /\ worker_pc[w] \in {"func", "register"} => task[w] \in ExecTasks
    /\ worker_pc[w] = "dying" => task[w] \in KillTasks

(* A worker holds one of the wrappers taken, and no two hold the same one. *)
HoldInv ==
  \A w \in Workers :
    task[w] # NULL =>
      /\ task[w] \in 1 .. Len(taken)
      /\ \A v \in Workers \ {w} : task[v] # task[w]

Using(k) ==
  \E w \in Workers : task[w] = k /\ worker_pc[w] \in {"loop", "func"}

(* What was taken and is not used any more is freed, and its func was run. *)
FreedInv ==
  /\ freed = {k \in 1 .. Len(taken) : ~Using(k)}
  /\ executed = [k \in ExecTasks |-> IF k \in freed THEN 1 ELSE 0]

(* The workers that took a WP_KILL: as many as left the queue. *)
Killed ==
  {w \in Workers : \/ worker_pc[w] \in {"dying", "exited"}
                   \/ worker_pc[w] = "loop" /\ task[w] \in KillTasks}
KillInv ==
  Cardinality(Killed) =
    IF Len(taken) > task_count THEN Len(taken) - task_count ELSE 0

(* The workers QUEUE_get counted as dispatched and that have not           *)
(* registered yet.                                                         *)
Dispatched == {w \in Workers : pc[w] = "idle" /\ task[w] # NULL}
CountInv == dispatched = Cardinality(Dispatched)

Gone(w) == worker_pc[w] \in {"exited", "missing"}
JoinInv ==
  /\ main_pc = "join" => \A w \in 1 .. i : Gone(w)
  /\ main_pc \in {"check", "free", "done", "exit1"} =>
       \A w \in Workers : Gone(w)
  /\ main_pc = "exit1" => Missing
  /\ main_pc \in {"free", "done"} => ~Missing

(* Main sleeps on a full queue, or a worker is about to wake it. *)
SleepInv ==
  pc[Main] = "add_sleep" =>
    Full \/ \E w \in Workers : pc[w] = "get_signal"

PoolInv ==
  /\ QueueInv /\ ControlInv /\ MainInv /\ WorkerInv /\ HoldInv /\ FreedInv
  /\ KillInv /\ CountInv /\ JoinInv /\ SleepInv
-----------------------------------------------------------------------------
(* Lemmas *)

LEMMA PoolConstants ==
  /\ thread_count \in Nat \ {0} /\ task_count \in Nat
  /\ Threads = Workers \cup {Main} /\ Main \notin Workers
  /\ Items = 1 .. task_count + thread_count
  /\ ExecTasks \subseteq Items /\ KillTasks \subseteq Items
  /\ \A k \in Items : k \in ExecTasks <=> k <= task_count
  /\ \A k \in Items : k \in KillTasks <=> k > task_count
  /\ NULL \notin Items /\ NULL \notin Threads
<1> USE PoolAssumption, QueueAssumption
<1>1. /\ thread_count \in Nat \ {0} /\ task_count \in Nat
      /\ Threads = Workers \cup {Main} /\ Main \notin Workers
      /\ NULL \notin Items /\ NULL \notin Threads
  BY DEF Threads
<1>2. Items = 1 .. task_count + thread_count
  BY DEF ExecTasks, KillTasks
<1>3. ExecTasks \subseteq Items /\ KillTasks \subseteq Items
  OBVIOUS
<1>4. \A k \in Items : k \in ExecTasks <=> k <= task_count
  BY <1>2 DEF ExecTasks
<1>5. \A k \in Items : k \in KillTasks <=> k > task_count
  BY <1>2 DEF KillTasks
<1>. QED
  BY <1>1, <1>2, <1>3, <1>4, <1>5

LEMMA WorkersCount ==
  IsFiniteSet(Workers) /\ Cardinality(Workers) = thread_count
  BY PoolConstants, FS_Interval DEF Workers

(* Sets of workers are finite, and their size changes by one with one of   *)
(* their members.                                                          *)
LEMMA WorkerSets ==
  ASSUME NEW S \in SUBSET Workers
  PROVE  /\ IsFiniteSet(S) /\ Cardinality(S) \in 0 .. thread_count
         /\ Cardinality(S) = thread_count => S = Workers
         /\ Cardinality(S) = 0 <=> S = {}
         /\ \A w : w \notin S =>
              Cardinality(S \cup {w}) = Cardinality(S) + 1
         /\ \A w \in S : Cardinality(S \ {w}) = Cardinality(S) - 1
<1>2. /\ IsFiniteSet(S) /\ Cardinality(S) <= thread_count
      /\ Cardinality(S) = thread_count => S = Workers
  BY WorkersCount, FS_Subset
<1>3. Cardinality(S) \in Nat
  BY <1>2, FS_CardinalityType
<1>4. Cardinality(S) = 0 <=> S = {}
  BY <1>2, FS_EmptySet
<1>5. \A w : w \notin S => Cardinality(S \cup {w}) = Cardinality(S) + 1
  BY <1>2, FS_AddElement
<1>6. \A w \in S : Cardinality(S \ {w}) = Cardinality(S) - 1
  BY <1>2, FS_RemoveElement
<1>. QED
  BY <1>2, <1>3, <1>4, <1>5, <1>6, PoolConstants

(* What the invariant says of the variables' types, in one place. *)
LEMMA PoolTypes ==
  ASSUME PoolInv
  PROVE  /\ pc \in [Threads -> GetPC \cup AddPC \cup {"idle"}]
         /\ task \in [Threads -> Items \cup {NULL}]
         /\ dispatched \in Int
         /\ added \in Seq(Items) /\ taken \in Seq(Items)
         /\ Len(added) \in Nat /\ Len(taken) \in Nat
         /\ Len(taken) <= Len(added)
         /\ 1 .. Len(added) \subseteq Items /\ 1 .. Len(taken) \subseteq Items
         /\ worker_pc \in [Workers -> {"unborn", "missing", "loop", "func",
                                       "register", "dying", "exited"}]
<1>1. /\ added \in Seq(Items) /\ taken \in Seq(Items)
      /\ Len(taken) <= Len(added)
      /\ \A n \in 1 .. Len(added) : added[n] = n
  BY DEF PoolInv, QueueInv, MainInv, TypeOK
<1>2. 1 .. Len(added) \subseteq Items
  <2>1. \A n \in 1 .. Len(added) : added[n] \in Items
    BY <1>1
  <2>. QED
    BY <1>1, <2>1
<1>. QED
  BY <1>1, <1>2 DEF PoolInv, QueueInv, ControlInv, TypeOK

(* Once main has freed the pool no thread moves any more. *)
LEMMA DoneIsOver ==
  ASSUME PoolInv, main_pc = "done", PoolNext
  PROVE  UNCHANGED all_vars
<1> USE PoolConstants
<1>1. /\ \A w \in Workers : Gone(w) /\ pc[w] = "idle"
      /\ pc[Main] = "idle"
  BY DEF PoolInv, JoinInv, WorkerInv, MainInv, Gone
<1>2. ~MainStep
  BY DEF MainStep, MainSpawn, MainEnqueue, MainStop, MainJoin, MainCheck,
         MainFree, Turn, Leave
<1>3. \A w \in Workers : ~WorkerStep(w)
  BY <1>1 DEF WorkerStep, WorkerGet, WorkerRun, WorkerRan, WorkerRegister,
              WorkerKilled, WorkerExit, Returned, Gone
<1>4. \A t \in Threads : ~InQueue(t) /\ ~Spurious(t)
  BY <1>1 DEF InQueue, Spurious, QueueStep, GetStep, AddStep, SpuriousWakeup,
              GetLock, GetWait, GetTake, GetSignal, GetCount, AddLock, AddWait,
              AddPut, AddSignal, Lock
<1>. QED
  BY <1>2, <1>3, <1>4 DEF PoolNext, Terminated

(* The list of chunks after QUEUE_free is still one of chunks. *)
LEMMA FreeChunkType ==
  ASSUME NEW heap \in Seq(Chunk), NEW c \in Nat
  PROVE  /\ FreeChunk(heap, c) \in Seq(Chunk)
         /\ Len(FreeChunk(heap, c)) = Len(heap)
<1>1. \A b \in Chunk : [b EXCEPT !.freed = TRUE] \in Chunk
  BY DEF Chunk
<1>2. FreeChunk(heap, c) \in [1 .. Len(heap) -> Chunk]
  <2>1. heap \in [1 .. Len(heap) -> Chunk]
    OBVIOUS
  <2>. QED
    BY <1>1, <2>1 DEF FreeChunk
<1>. QED
  BY <1>2

(* The invariant holds initially. *)
LEMMA InitPoolInv == PoolInit => PoolInv
<1> SUFFICES ASSUME PoolInit PROVE PoolInv
  OBVIOUS
<1> USE PoolConstants DEF PoolInit
<1>1. QueueInv
  BY InitQInv DEF QueueInv, QInv
<1>2. /\ \A t \in Threads : pc[t] = "idle" /\ task[t] = NULL
      /\ Len(added) = 0 /\ Len(taken) = 0 /\ dispatched = 0
      /\ \A w \in Workers : worker_pc[w] = "unborn"
  BY DEF Init
<1>3. ControlInv
  BY DEF ControlInv, Workers
<1>4. MainInv
  BY <1>2 DEF MainInv, AddPC, BeforePut, Made
<1>5. WorkerInv /\ HoldInv /\ JoinInv /\ SleepInv
  BY <1>2 DEF WorkerInv, HoldInv, JoinInv, SleepInv
<1>6. FreedInv
  BY <1>2 DEF FreedInv
<1>7. KillInv
  <2>1. Killed = {}
    BY <1>2 DEF Killed
  <2>. QED
    BY <1>2, <2>1, FS_EmptySet DEF KillInv
<1>8. CountInv
  <2>1. Dispatched = {}
    BY <1>2 DEF Dispatched
  <2>. QED
    BY <1>2, <2>1, FS_EmptySet DEF CountInv
<1>. QED
  BY <1>1, <1>3, <1>4, <1>5, <1>6, <1>7, <1>8 DEF PoolInv

(* Main and the workers only touch the queue through its functions, until  *)
(* main frees it.                                                          *)
LEMMA QueueKept ==
  ASSUME PoolInv, PoolNext
  PROVE  QueueInv'
<1> USE PoolConstants
<1>1. CASE main_pc = "done"
  BY <1>1, DoneIsOver
  DEF all_vars, vars, pool_vars, PoolInv, QueueInv, TypeOK
<1>2. CASE main_pc # "done" /\ MainFree
  <2>1. QInv
    BY <1>2 DEF PoolInv, QueueInv
  <2>2. chunk \in Seq(Chunk) /\ front \in Nat
    BY <2>1 DEF QInv, TypeOK
  <2>3. chunk' \in Seq(Chunk) /\ Len(chunk') = Len(chunk)
    BY <1>2, <2>2, FreeChunkType DEF MainFree
  <2>. QED
    BY <1>2, <2>1, <2>3 DEF MainFree, QueueInv, QInv, TypeOK
<1>3. CASE main_pc # "done" /\ ~MainFree
  <2>1. QInv
    BY <1>3 DEF PoolInv, QueueInv
  <2>2. ASSUME UNCHANGED vars PROVE QInv'
    <3>1. TypeOK' /\ MutexInv' /\ HandInv'
      BY <2>1, <2>2 DEF vars, QInv, TypeOK, MutexInv, HandInv
    <3>2. ListInv' /\ SlotsInv'
      BY <2>1, <2>2 DEF vars, QInv, ListInv, SlotsInv
    <3>. QED
      BY <3>1, <3>2 DEF QInv
  <2>3. ASSUME MainStep PROVE QInv'
    <3>1. CASE UNCHANGED vars
      BY <2>2, <3>1
    <3>2. CASE AddCall(Main, i + 1) /\ i < task_count
      <4>1. i + 1 \in Items
        BY <3>2 DEF PoolInv, ControlInv
      <4>. QED
        BY <2>1, <3>2, <4>1, OutsideKeepsQInv
    <3>3. CASE AddCall(Main, task_count + i + 1) /\ i < thread_count
      <4>1. task_count + i + 1 \in Items
        BY <3>3 DEF PoolInv, ControlInv
      <4>. QED
        BY <2>1, <3>3, <4>1, OutsideKeepsQInv
    <3>. QED
      BY <1>3, <2>3, <3>1, <3>2, <3>3
      DEF MainStep, MainSpawn, MainEnqueue, MainStop, MainJoin, MainCheck,
          Turn, Leave
  <2>4. ASSUME NEW w \in Workers, WorkerStep(w) PROVE QInv'
    <3>1. \/ UNCHANGED vars \/ GetCall(w) \/ RegisterCompletion(w)
      BY <2>4 DEF WorkerStep, WorkerGet, WorkerRun, WorkerRan, WorkerRegister,
                  WorkerKilled, WorkerExit
    <3>. QED
      BY <2>1, <2>2, <3>1, OutsideKeepsQInv
  <2>5. ASSUME NEW t \in Threads, InQueue(t) \/ Spurious(t) PROVE QInv'
    BY <2>1, <2>5, LockKeepsQInv, WaitKeepsQInv, SignalKeepsQInv,
       OutsideKeepsQInv, CriticalKeepsQInv
    DEF InQueue, Spurious, QueueStep, GetStep, AddStep
  <2>6. QInv'
    BY <2>2, <2>3, <2>4, <2>5 DEF PoolNext, Terminated, all_vars
  <2>. QED
    BY <2>6 DEF QueueInv, QInv
<1>. QED
  BY <1>1, <1>2, <1>3
-----------------------------------------------------------------------------
(* The workers' steps *)

(* What a worker does in QUEUE_get except for taking the wrapper: nothing  *)
(* moves but its own pc, the count of dispatched tasks when QUEUE_get      *)
(* returns, and main when it is woken.                                     *)
WorkerMoves(w) ==
  /\ WorkerGet(w) \/ Spurious(w) \/ InQueue(w)
  /\ ~GetTake(w)

LEMMA WorkerMovesEffect ==
  ASSUME PoolInv, NEW w \in Workers, WorkerMoves(w)
  PROVE  /\ main_pc # "done"
         /\ UNCHANGED <<list, task, added, taken, pool_vars>>
         /\ worker_pc[w] = "loop"
         /\ pc'[w] \in GetPC \cup {"idle"}
         /\ \A u \in Workers \ {w} : pc'[u] = pc[u]
         /\ \/ pc'[Main] = pc[Main] /\ pc[w] # "get_signal"
            \/ pc'[Main] = pc[Main] /\ pc[Main] # "add_sleep"
            \/ pc'[Main] = "add_woken" /\ pc[Main] = "add_sleep"
         /\ \/ /\ pc[w] = "idle" => task[w] = NULL
               /\ pc'[w] # "idle"
               /\ dispatched' = dispatched
            \/ /\ pc[w] # "idle" /\ task[w] # NULL
               /\ pc'[w] = "idle"
               /\ dispatched' = dispatched + 1
<1> USE PoolConstants
<1>1. w \in Threads /\ w # Main /\ Main \in Threads
  OBVIOUS
<1>2. /\ pc \in [Threads -> GetPC \cup AddPC \cup {"idle"}]
      /\ pc[w] \in GetPC \cup {"idle"} /\ pc[Main] \in AddPC \cup {"idle"}
      /\ worker_pc[w] # "loop" => pc[w] = "idle"
  BY PoolTypes DEF PoolInv, MainInv, WorkerInv
<1>3. pc[w] # "idle" \/ worker_pc[w] = "loop"
  BY <1>2 DEF WorkerMoves, WorkerGet, Spurious, InQueue, SpuriousWakeup,
              QueueStep, GetStep, AddStep, GetLock, GetWait, GetSignal,
              GetCount, AddLock, AddWait, AddPut, AddSignal, Lock
<1>4. main_pc # "done"
  BY <1>2, <1>3 DEF PoolInv, JoinInv, Gone
<1>5. worker_pc[w] = "loop"
  BY <1>2, <1>3
<1>6. \/ WorkerGet(w) \/ Spurious(w)
      \/ /\ GetLock(w) \/ GetWait(w) \/ GetSignal(w) \/ GetCount(w)
         /\ UNCHANGED pool_vars
  BY <1>2 DEF WorkerMoves, InQueue, QueueStep, GetStep, AddStep, AddLock,
              AddWait, AddPut, AddSignal, Lock, GetPC
<1>7. CASE \/ WorkerGet(w) \/ Spurious(w)
           \/ (GetLock(w) \/ GetWait(w)) /\ UNCHANGED pool_vars
  BY <1>1, <1>2, <1>4, <1>5, <1>7
  DEF WorkerGet, Spurious, SpuriousWakeup, GetLock, GetWait, GetCall, Lock,
      CondWait, GetPC, AddPC
<1>8. CASE GetSignal(w) /\ UNCHANGED pool_vars
  <2>1. /\ pc[w] = "get_signal"
        /\ UNCHANGED <<list, dispatched, task, added, taken, pool_vars>>
        /\ \/ /\ \A s \in Threads : pc[s] # "add_sleep"
              /\ pc' = [pc EXCEPT ![w] = "get_count"]
           \/ \E s \in Threads :
                /\ pc[s] = "add_sleep"
                /\ pc' = [pc EXCEPT ![w] = "get_count", ![s] = "add_woken"]
    BY <1>8 DEF GetSignal, SignalAndUnlock, At
  <2>2. \A s \in Threads : pc[s] = "add_sleep" => s = Main
    BY DEF PoolInv, WorkerInv, GetPC
  <2>3. \/ /\ pc[Main] # "add_sleep"
           /\ pc' = [pc EXCEPT ![w] = "get_count"]
        \/ /\ pc[Main] = "add_sleep"
           /\ pc' = [pc EXCEPT ![w] = "get_count", ![Main] = "add_woken"]
    BY <1>1, <2>1, <2>2
  <2>. QED
    BY <1>1, <1>2, <1>4, <1>5, <2>1, <2>3 DEF GetPC
<1>9. CASE GetCount(w) /\ UNCHANGED pool_vars
  <2>1. task[w] # NULL
    BY <1>1, <1>4, <1>9
    DEF GetCount, PoolInv, QueueInv, QInv, HandInv
  <2>. QED
    BY <1>1, <1>2, <1>4, <1>5, <1>9, <2>1 DEF GetCount
<1>. QED
  BY <1>6, <1>7, <1>8, <1>9

LEMMA WorkerMovesKeeps ==
  ASSUME PoolInv, PoolNext, NEW w \in Workers, WorkerMoves(w)
  PROVE  PoolInv'
<1> USE PoolConstants
<1>1. /\ UNCHANGED <<list, task, added, taken, pool_vars>>
      /\ worker_pc[w] = "loop"
      /\ pc'[w] \in GetPC \cup {"idle"}
      /\ \A u \in Workers \ {w} : pc'[u] = pc[u]
      /\ \/ pc'[Main] = pc[Main] /\ pc[w] # "get_signal"
         \/ pc'[Main] = pc[Main] /\ pc[Main] # "add_sleep"
         \/ pc'[Main] = "add_woken" /\ pc[Main] = "add_sleep"
  BY WorkerMovesEffect
<1>2. QueueInv'
  BY QueueKept
<1>3. ControlInv' /\ JoinInv' /\ HoldInv' /\ FreedInv' /\ KillInv'
  BY <1>1 DEF PoolInv, ControlInv, JoinInv, HoldInv, FreedInv, KillInv,
              Killed, Using, Missing, Gone, pool_vars
<1>4. MainInv'
  BY <1>1 DEF PoolInv, MainInv, Made, BeforePut, AddPC, pool_vars
<1>5. WorkerInv'
  BY <1>1 DEF PoolInv, WorkerInv, pool_vars
<1>6. SleepInv'
  BY <1>1 DEF PoolInv, SleepInv, Full, list
<1>7. CountInv'
  <2>1. Dispatched \in SUBSET Workers /\ dispatched = Cardinality(Dispatched)
    BY DEF Dispatched, PoolInv, CountInv
  <2>2. CASE /\ pc[w] = "idle" => task[w] = NULL
             /\ pc'[w] # "idle"
             /\ dispatched' = dispatched
    <3>1. Dispatched' = Dispatched
      BY <1>1, <2>2 DEF Dispatched
    <3>. QED
      BY <2>1, <2>2, <3>1 DEF CountInv
  <2>3. CASE /\ pc[w] # "idle" /\ task[w] # NULL
             /\ pc'[w] = "idle"
             /\ dispatched' = dispatched + 1
    <3>1. Dispatched' = Dispatched \cup {w} /\ w \notin Dispatched
      BY <1>1, <2>3 DEF Dispatched
    <3>. QED
      BY <2>1, <2>3, <3>1, WorkerSets DEF CountInv
  <2>. QED
    BY <2>2, <2>3, WorkerMovesEffect
<1>. QED
  BY <1>2, <1>3, <1>4, <1>5, <1>6, <1>7 DEF PoolInv

(* Taking a wrapper: the oldest one in the queue, which nobody holds yet. *)
LEMMA WorkerTakesEffect ==
  ASSUME PoolInv, NEW w \in Workers, InQueue(w), GetTake(w)
  PROVE  LET k == Len(taken) + 1
         IN  /\ k <= Len(added) /\ k \in Items
             /\ task' = [task EXCEPT ![w] = k]
             /\ Len(taken') = k /\ taken'[k] = k
             /\ \A n \in 1 .. Len(taken) : taken'[n] = taken[n]
             /\ pc' = [pc EXCEPT ![w] = "get_signal"]
             /\ worker_pc[w] = "loop" /\ task[w] = NULL
             /\ main_pc # "done"
             /\ UNCHANGED <<dispatched, added, pool_vars>>
<1> USE PoolConstants
<1> DEFINE k == Len(taken) + 1
           got == chunk[front].tasks[chunk[front].next]
<1>1. w \in Threads /\ pc[w] = "get_test" /\ ~Empty
  BY DEF GetTake
<1>2. worker_pc[w] = "loop" /\ main_pc # "done"
  BY <1>1 DEF PoolInv, WorkerInv, JoinInv, Gone
<1>3. QInv
  BY <1>2 DEF PoolInv, QueueInv
<1>4. task[w] = NULL
  BY <1>1, <1>3 DEF QInv, HandInv, GetPC
<1>5. got = added[k] /\ got \in Items /\ Len(taken) < Len(added)
  BY <1>1, <1>3, HeadOfQueue
<1>6. added \in Seq(Items) /\ taken \in Seq(Items)
  BY PoolTypes
<1>7. k <= Len(added) /\ added[k] = k
  BY <1>5, <1>6 DEF PoolInv, MainInv
<1>8. /\ task' = [task EXCEPT ![w] = got] /\ taken' = Append(taken, got)
      /\ pc' = [pc EXCEPT ![w] = "get_signal"]
      /\ UNCHANGED <<dispatched, added, pool_vars>>
  BY DEF GetTake, InQueue
<1> HIDE DEF got
<1>9. /\ Len(taken') = k /\ taken'[k] = got
      /\ \A n \in 1 .. Len(taken) : taken'[n] = taken[n]
  BY <1>5, <1>6, <1>8
<1>. QED
  BY <1>2, <1>4, <1>5, <1>7, <1>8, <1>9

LEMMA WorkerTakesKeeps ==
  ASSUME PoolInv, PoolNext, NEW w \in Workers, InQueue(w), GetTake(w)
  PROVE  PoolInv'
<1> DEFINE k == Len(taken) + 1
<1> USE PoolConstants
<1>1. /\ k <= Len(added) /\ k \in Items
      /\ task' = [task EXCEPT ![w] = k]
      /\ Len(taken') = k /\ taken'[k] = k
      /\ \A n \in 1 .. Len(taken) : taken'[n] = taken[n]
      /\ pc' = [pc EXCEPT ![w] = "get_signal"]
      /\ worker_pc[w] = "loop" /\ task[w] = NULL
      /\ UNCHANGED <<dispatched, added, pool_vars>>
  BY WorkerTakesEffect
<1>2. /\ pc \in [Threads -> GetPC \cup AddPC \cup {"idle"}]
      /\ task \in [Threads -> Items \cup {NULL}]
      /\ Len(taken) \in Nat /\ Len(added) \in Nat
  BY PoolTypes
<1>3. /\ \A t \in Threads \ {w} : pc'[t] = pc[t] /\ task'[t] = task[t]
      /\ pc'[w] = "get_signal" /\ task'[w] = k
  BY <1>1, <1>2
<1>4. \A u \in Workers : task[u] # k
  BY <1>1, <1>2 DEF PoolInv, HoldInv
<1> HIDE DEF k
<1>5. QueueInv'
  BY QueueKept
<1>6. ControlInv' /\ JoinInv'
  BY <1>1 DEF PoolInv, ControlInv, JoinInv, Missing, Gone, pool_vars
<1>7. MainInv'
  <2>1. \A n \in 1 .. Len(taken') : taken'[n] = n
    BY <1>1, <1>2 DEF PoolInv, MainInv, k
  <2>. QED
    BY <1>1, <1>2, <1>3, <2>1
    DEF PoolInv, MainInv, Made, BeforePut, AddPC, pool_vars
<1>8. WorkerInv'
  BY <1>1, <1>3 DEF PoolInv, WorkerInv, pool_vars, GetPC
<1>9. HoldInv'
  <2>1. ASSUME NEW u \in Workers, task'[u] # NULL
        PROVE  /\ task'[u] \in 1 .. Len(taken')
               /\ \A v \in Workers \ {u} : task'[v] # task'[u]
    <3>1. CASE u = w
      BY <1>1, <1>2, <1>3, <1>4, <3>1 DEF k
    <3>2. CASE u # w
      BY <1>1, <1>2, <1>3, <1>4, <2>1, <3>2 DEF k, PoolInv, HoldInv
    <3>. QED
      BY <3>1, <3>2
  <2>. QED
    BY <2>1 DEF HoldInv
<1>10. FreedInv'
  <2>1. \A n \in Items : Using(n)' <=> (Using(n) \/ n = k)
    BY <1>1, <1>3 DEF Using, pool_vars
  <2>2. 1 .. Len(taken') = (1 .. Len(taken)) \cup {k}
    BY <1>1, <1>2 DEF k
  <2>3. k \notin 1 .. Len(taken) /\ 1 .. Len(taken') \subseteq Items
    BY <1>1, <1>2 DEF k
  <2>4. {n \in 1 .. Len(taken') : ~Using(n)'}
          = {n \in 1 .. Len(taken) : ~Using(n)}
    BY <2>1, <2>2, <2>3
  <2>. QED
    BY <1>1, <2>4 DEF PoolInv, FreedInv, pool_vars
<1>11. KillInv'
  <2>1. Killed \in SUBSET Workers
    BY DEF Killed
  <2>2. Cardinality(Killed) =
          IF Len(taken) > task_count THEN Len(taken) - task_count ELSE 0
    BY DEF PoolInv, KillInv
  <2>3. w \notin Killed
    BY <1>1 DEF Killed
  <2>4. CASE k \in KillTasks
    <3>1. Killed' = Killed \cup {w}
      BY <1>1, <1>3, <2>4 DEF Killed, pool_vars
    <3>. QED
      <4>1. Cardinality(Killed') = Cardinality(Killed) + 1
        BY <2>1, <2>3, <3>1, WorkerSets
      <4>. QED
        BY <1>1, <1>2, <2>2, <2>4, <4>1 DEF KillInv, k
  <2>5. CASE k \notin KillTasks
    <3>1. Killed' = Killed
      BY <1>1, <1>3, <2>5 DEF Killed, pool_vars
    <3>. QED
      BY <1>1, <1>2, <2>2, <2>5, <3>1 DEF KillInv, k
  <2>. QED
    BY <2>4, <2>5
<1>12. CountInv'
  <2>1. Dispatched' = Dispatched
    BY <1>1, <1>3 DEF Dispatched
  <2>. QED
    BY <1>1, <2>1 DEF PoolInv, CountInv
<1>13. SleepInv'
  BY <1>3 DEF SleepInv
<1>. QED
  BY <1>5, <1>6, <1>7, <1>8, <1>9, <1>10, <1>11, <1>12, <1>13 DEF PoolInv

(* The worker's own steps: its wrapper is used, freed and registered.      *)
LEMMA WorkerUsesKeeps ==
  ASSUME PoolInv, PoolNext, NEW w \in Workers,
         WorkerRun(w) \/ WorkerRan(w) \/ WorkerKilled(w)
  PROVE  PoolInv'
<1> USE PoolConstants
<1>1. /\ worker_pc[w] \in {"loop", "func"} /\ pc[w] = "idle"
      /\ task[w] \in Items
      /\ UNCHANGED <<vars, main_pc, i>>
      /\ \/ /\ worker_pc[w] = "loop" /\ task[w] \in ExecTasks
            /\ worker_pc' = [worker_pc EXCEPT ![w] = "func"]
            /\ UNCHANGED <<executed, freed>>
         \/ /\ worker_pc[w] = "func" /\ task[w] \in ExecTasks
            /\ worker_pc' = [worker_pc EXCEPT ![w] = "register"]
            /\ executed' = [executed EXCEPT ![task[w]] = @ + 1]
            /\ freed' = freed \cup {task[w]}
         \/ /\ worker_pc[w] = "loop" /\ task[w] \in KillTasks
            /\ worker_pc' = [worker_pc EXCEPT ![w] = "dying"]
            /\ freed' = freed \cup {task[w]}
            /\ UNCHANGED executed
  BY DEF WorkerRun, WorkerRan, WorkerKilled, Returned, PoolInv, WorkerInv
<1>2. UNCHANGED <<chunk, front, back, live_chunk_count, dispatched, rw_mutex,
                  pc, task, added, taken>>
  BY <1>1 DEF vars
<1>3. /\ worker_pc \in [Workers -> {"unborn", "missing", "loop", "func",
                                   "register", "dying", "exited"}]
      /\ Len(taken) \in Nat /\ Len(added) \in Nat
  BY PoolTypes
<1>4. /\ worker_pc' \in [Workers -> {"unborn", "missing", "loop", "func",
                                    "register", "dying", "exited"}]
      /\ \A u \in Workers \ {w} : worker_pc'[u] = worker_pc[u]
      /\ worker_pc'[w] \in {"func", "register", "dying"}
  BY <1>1, <1>3
<1>5. QueueInv'
  BY QueueKept
<1>6. ControlInv' /\ JoinInv'
  <2>1. ControlInv'
    <3>1. main_pc = "spawn" => w \notin i + 1 .. thread_count
      BY <1>1 DEF PoolInv, ControlInv
    <3>2. i \in Nat
      BY DEF PoolInv, ControlInv
    <3>. QED
      BY <1>1, <1>4, <3>1, <3>2 DEF PoolInv, ControlInv, Workers
  <2>2. JoinInv'
    <3>1. /\ main_pc = "join" => w \notin 1 .. i
          /\ main_pc \notin {"check", "free", "done", "exit1"}
      BY <1>1 DEF PoolInv, JoinInv, Gone
    <3>. QED
      BY <1>1, <1>4, <3>1 DEF PoolInv, ControlInv, JoinInv, Gone, Workers
  <2>. QED
    BY <2>1, <2>2
<1>7. MainInv' /\ HoldInv' /\ SleepInv' /\ CountInv'
  BY <1>1, <1>2 DEF PoolInv, MainInv, HoldInv, SleepInv, CountInv, Made,
                    Dispatched, Full
<1>8. WorkerInv'
  BY <1>1, <1>2, <1>3, <1>4 DEF PoolInv, WorkerInv
<1>9. KillInv'
  <2>1. Killed' = Killed
    BY <1>1, <1>2, <1>3, <1>4 DEF Killed
  <2>. QED
    BY <1>2, <2>1 DEF PoolInv, KillInv
<1>10. FreedInv'
  <2>1. Using(task[w]) /\ task[w] \in 1 .. Len(taken)
    BY <1>1 DEF Using, PoolInv, HoldInv
  <2>2. \A u \in Workers \ {w} : task[u] # task[w]
    BY <1>1 DEF PoolInv, HoldInv
  <2>3. CASE worker_pc'[w] = "func"
    <3>1. \A n : Using(n)' <=> Using(n)
      BY <1>1, <1>2, <1>3, <1>4, <2>3 DEF Using
    <3>2. UNCHANGED <<executed, freed>>
      BY <1>1, <1>3, <2>3
    <3>. QED
      BY <1>2, <3>1, <3>2 DEF PoolInv, FreedInv
  <2>4. CASE worker_pc'[w] # "func"
    <3>1. \A n : Using(n)' <=> (Using(n) /\ n # task[w])
      BY <1>1, <1>2, <1>3, <1>4, <2>2, <2>4 DEF Using
    <3>2. freed' = freed \cup {task[w]}
      BY <1>1, <1>3, <2>4
    <3>3. freed' = {n \in 1 .. Len(taken') : ~Using(n)'}
      BY <1>2, <2>1, <3>1, <3>2 DEF PoolInv, FreedInv
    <3>4. executed = [k \in ExecTasks |-> IF k \in freed THEN 1 ELSE 0]
      BY DEF PoolInv, FreedInv
    <3>5. task[w] \notin freed
      BY <2>1 DEF PoolInv, FreedInv
    <3>6. CASE task[w] \in ExecTasks
      <4>1. executed' = [executed EXCEPT ![task[w]] = @ + 1]
        BY <1>1, <1>3, <2>4, <3>6
      <4>2. executed' =
              [k \in ExecTasks |-> IF k = task[w] THEN 1
                                   ELSE IF k \in freed THEN 1 ELSE 0]
        <5>1. executed[task[w]] = 0
          BY <3>4, <3>5, <3>6, Zenon
        <5>2. executed' = [executed EXCEPT ![task[w]] = 1]
          BY <4>1, <5>1
        <5>. QED
          BY <3>4, <3>6, <5>2
      <4>. QED
        BY <3>2, <3>3, <4>2 DEF FreedInv
    <3>7. CASE task[w] \notin ExecTasks
      <4>1. UNCHANGED executed
        BY <1>1, <3>7
      <4>. QED
        BY <3>2, <3>3, <3>4, <3>7, <4>1 DEF FreedInv
    <3>. QED
      BY <3>6, <3>7
  <2>. QED
    BY <2>3, <2>4
<1>. QED
  BY <1>5, <1>6, <1>7, <1>8, <1>9, <1>10 DEF PoolInv

(* Registering: the wrapper leaves the worker's hand. *)
LEMMA WorkerRegistersKeeps ==
  ASSUME PoolInv, PoolNext, NEW w \in Workers,
         WorkerRegister(w) \/ WorkerExit(w)
  PROVE  PoolInv'
<1> USE PoolConstants
<1>1. /\ pc[w] = "idle" /\ task[w] # NULL /\ dispatched' = dispatched - 1
      /\ task' = [task EXCEPT ![w] = NULL]
      /\ UNCHANGED <<list, rw_mutex, pc, added, taken, main_pc, i, executed,
                     freed>>
      /\ \/ worker_pc[w] = "register" /\ task[w] \in ExecTasks
            /\ worker_pc' = [worker_pc EXCEPT ![w] = "loop"]
         \/ worker_pc[w] = "dying"
            /\ worker_pc' = [worker_pc EXCEPT ![w] = "exited"]
  BY DEF WorkerRegister, WorkerExit, RegisterCompletion, PoolInv, WorkerInv
<1>2. /\ worker_pc \in [Workers -> {"unborn", "missing", "loop", "func",
                                   "register", "dying", "exited"}]
      /\ task \in [Threads -> Items \cup {NULL}]
      /\ Len(taken) \in Nat
  BY PoolTypes
<1>3. /\ worker_pc' \in [Workers -> {"unborn", "missing", "loop", "func",
                                    "register", "dying", "exited"}]
      /\ \A u \in Workers \ {w} : worker_pc'[u] = worker_pc[u]
      /\ \A t \in Threads \ {w} : task'[t] = task[t]
      /\ task'[w] = NULL
      /\ \/ /\ worker_pc[w] = "register" /\ worker_pc'[w] = "loop"
            /\ task[w] \in ExecTasks
         \/ worker_pc[w] = "dying" /\ worker_pc'[w] = "exited"
  BY <1>1, <1>2
<1>4. QueueInv'
  BY QueueKept
<1>5. ControlInv'
  <2>1. main_pc = "spawn" => w \notin i + 1 .. thread_count
    BY <1>3 DEF PoolInv, ControlInv
  <2>2. i \in Nat
    BY DEF PoolInv, ControlInv
  <2>. QED
    BY <1>1, <1>3, <2>1, <2>2 DEF PoolInv, ControlInv, Workers
<1>6. MainInv'
  BY <1>1, <1>3 DEF PoolInv, MainInv, Made
<1>7. WorkerInv' /\ HoldInv' /\ SleepInv'
  BY <1>1, <1>3 DEF PoolInv, WorkerInv, HoldInv, SleepInv, Full, list
<1>8. FreedInv'
  <2>1. \A n \in 1 .. Len(taken) : Using(n)' <=> Using(n)
    <3>1. NULL \notin 1 .. Len(taken)
      BY PoolTypes, PoolConstants
    <3>. QED
      BY <1>3, <3>1 DEF Using
  <2>. QED
    BY <1>1, <2>1 DEF PoolInv, FreedInv
<1>9. KillInv'
  <2>1. Killed' = Killed
    BY <1>1, <1>3 DEF Killed
  <2>. QED
    BY <1>1, <2>1 DEF PoolInv, KillInv
<1>10. CountInv'
  <2>1. Dispatched \in SUBSET Workers /\ w \in Dispatched
    BY <1>1 DEF Dispatched
  <2>2. Dispatched' = Dispatched \ {w}
    BY <1>1, <1>3 DEF Dispatched
  <2>. QED
    BY <1>1, <2>1, <2>2, WorkerSets DEF PoolInv, CountInv
<1>11. JoinInv'
  <2>1. /\ main_pc = "join" => w \notin 1 .. i
        /\ main_pc \notin {"check", "free", "done", "exit1"}
    BY <1>1 DEF PoolInv, JoinInv, Gone
  <2>. QED
    BY <1>1, <1>3, <2>1 DEF PoolInv, ControlInv, JoinInv, Gone, Workers
<1>. QED
  BY <1>4, <1>5, <1>6, <1>7, <1>8, <1>9, <1>10, <1>11 DEF PoolInv

LEMMA WorkerKeeps ==
  ASSUME PoolInv, PoolNext, NEW w \in Workers,
         WorkerStep(w) \/ InQueue(w) \/ Spurious(w)
  PROVE  PoolInv'
<1>1. CASE WorkerMoves(w)
  BY <1>1, WorkerMovesKeeps
<1>2. CASE InQueue(w) /\ GetTake(w)
  BY <1>2, WorkerTakesKeeps
<1>3. CASE WorkerRun(w) \/ WorkerRan(w) \/ WorkerKilled(w)
  BY <1>3, WorkerUsesKeeps
<1>4. CASE WorkerRegister(w) \/ WorkerExit(w)
  BY <1>4, WorkerRegistersKeeps
<1>5. CASE WorkerGet(w) \/ Spurious(w)
  <2>1. ~GetTake(w)
    <3>1. pc[w] # "get_test"
      BY <1>5 DEF WorkerGet, GetCall, Spurious, SpuriousWakeup
    <3>. QED
      BY <3>1 DEF GetTake
  <2>. QED
    BY <1>1, <1>5, <2>1 DEF WorkerMoves
<1>. QED
  BY <1>1, <1>2, <1>3, <1>4, <1>5 DEF WorkerStep, WorkerMoves
-----------------------------------------------------------------------------
(* Main's steps *)

(* In QUEUE_add: main waits for room, puts its wrapper in and returns. *)
LEMMA MainMovesKeeps ==
  ASSUME PoolInv, PoolNext, InQueue(Main) \/ Spurious(Main)
  PROVE  PoolInv'
<1> USE PoolConstants
<1>1. Main \in Threads /\ pc[Main] \in AddPC \cup {"idle"}
  BY DEF PoolInv, MainInv
<1>2. /\ pc \in [Threads -> GetPC \cup AddPC \cup {"idle"}]
      /\ task \in [Threads -> Items \cup {NULL}]
      /\ added \in Seq(Items) /\ Len(added) \in Nat /\ Len(taken) \in Nat
      /\ Len(taken) <= Len(added)
  BY PoolTypes
<1>3. /\ UNCHANGED pool_vars
      /\ \/ AddLock(Main) \/ AddWait(Main) \/ AddPut(Main) \/ AddSignal(Main)
         \/ SpuriousWakeup(Main) /\ pc[Main] = "add_sleep"
  BY <1>1 DEF InQueue, Spurious, SpuriousWakeup, QueueStep, GetStep, AddStep,
              GetLock, GetWait, GetTake, GetSignal, GetCount, Lock, AddPC
<1>4. /\ pc[Main] \in AddPC /\ main_pc \in {"enqueue", "stop"}
      /\ task[Main] = Made /\ Made \in Items
      /\ Len(added) = IF pc[Main] \in BeforePut THEN Made - 1 ELSE Made
  <2>1. pc[Main] \in AddPC
    BY <1>3 DEF AddLock, AddWait, AddPut, AddSignal, Lock, AddPC
  <2>2. task[Main] \in Items
    BY <1>1, <2>1 DEF PoolInv, QueueInv, QInv, HandInv, MainInv
  <2>. QED
    BY <2>1, <2>2 DEF PoolInv, MainInv
<1>5. QueueInv'
  BY QueueKept
<1>6. ControlInv' /\ JoinInv'
  BY <1>3 DEF PoolInv, ControlInv, JoinInv, Missing, Gone, pool_vars
<1>7. CASE AddLock(Main) \/ AddWait(Main) \/ SpuriousWakeup(Main)
  <2>1. /\ UNCHANGED <<list, dispatched, task, added, taken>>
        /\ pc'[Main] \in BeforePut /\ pc[Main] \in BeforePut
        /\ \A u \in Workers : pc'[u] = pc[u]
        /\ pc'[Main] = "add_sleep" => Full
    BY <1>1, <1>2, <1>4, <1>7
    DEF AddLock, AddWait, SpuriousWakeup, Lock, CondWait, BeforePut, AddPC
  <2>2. MainInv'
    BY <1>3, <1>4, <2>1
    DEF PoolInv, MainInv, Made, pool_vars, BeforePut, AddPC
  <2>3. WorkerInv' /\ HoldInv' /\ FreedInv' /\ KillInv' /\ CountInv'
    BY <1>3, <2>1
    DEF PoolInv, WorkerInv, HoldInv, FreedInv, KillInv, CountInv, Using,
        Killed, Dispatched, pool_vars
  <2>4. SleepInv'
    BY <2>1 DEF SleepInv, Full, list
  <2>. QED
    BY <1>5, <1>6, <2>2, <2>3, <2>4 DEF PoolInv
<1>8. CASE AddPut(Main)
  <2>1. /\ added' = Append(added, Made) /\ pc[Main] = "add_test"
        /\ UNCHANGED <<dispatched, task, taken>>
        /\ pc' = [pc EXCEPT ![Main] = "add_signal"]
    BY <1>4, <1>8 DEF AddPut
  <2>2. /\ Len(added') = Len(added) + 1 /\ added'[Len(added) + 1] = Made
        /\ \A n \in 1 .. Len(added) : added'[n] = added[n]
    BY <1>2, <1>4, <2>1
  <2>3. pc'[Main] = "add_signal" /\ \A u \in Workers : pc'[u] = pc[u]
    BY <1>1, <1>2, <2>1
  <2>4. Made = Len(added) + 1
    BY <1>2, <1>4, <2>1 DEF BeforePut
  <2>5. MainInv'
    <3>1. Made' = Made /\ main_pc' = main_pc
      BY <1>3 DEF Made, pool_vars
    <3>2. ASSUME NEW n \in 1 .. Len(added')
          PROVE  added'[n] = n
      <4>1. CASE n = Len(added) + 1
        BY <2>2, <2>4, <4>1
      <4>2. CASE n # Len(added) + 1
        <5>1. n \in 1 .. Len(added)
          BY <1>2, <2>2, <4>2
        <5>. QED
          BY <2>2, <5>1 DEF PoolInv, MainInv
      <4>. QED
        BY <4>1, <4>2
    <3>3. \A n \in 1 .. Len(taken') : taken'[n] = n
      BY <2>1 DEF PoolInv, MainInv
    <3>. QED
      BY <1>2, <1>4, <2>1, <2>2, <2>3, <2>4, <3>1, <3>2, <3>3
      DEF MainInv, BeforePut, AddPC
  <2>6. WorkerInv' /\ HoldInv' /\ FreedInv' /\ KillInv' /\ CountInv'
    BY <1>3, <2>1, <2>3
    DEF PoolInv, WorkerInv, HoldInv, FreedInv, KillInv, CountInv, Using,
        Killed, Dispatched, pool_vars
  <2>7. SleepInv'
    BY <2>3 DEF SleepInv
  <2>. QED
    BY <1>5, <1>6, <2>5, <2>6, <2>7 DEF PoolInv
<1>9. CASE AddSignal(Main)
  <2>1. /\ pc[Main] = "add_signal"
        /\ task' = [task EXCEPT ![Main] = NULL]
        /\ UNCHANGED <<list, dispatched, added, taken>>
        /\ \/ pc' = [pc EXCEPT ![Main] = "idle"]
           \/ \E s \in Threads :
                /\ pc[s] = "get_sleep"
                /\ pc' = [pc EXCEPT ![Main] = "idle", ![s] = "get_woken"]
    BY <1>9 DEF AddSignal, SignalAndUnlock, At
  <2>2. /\ pc'[Main] = "idle" /\ task'[Main] = NULL
        /\ \A u \in Workers :
             /\ task'[u] = task[u]
             /\ \/ pc'[u] = pc[u]
                \/ pc[u] = "get_sleep" /\ pc'[u] = "get_woken"
    BY <1>1, <1>2, <2>1
  <2>3. MainInv'
    BY <1>3, <1>4, <2>1, <2>2
    DEF PoolInv, MainInv, Made, BeforePut, AddPC, pool_vars
  <2>4. WorkerInv' /\ HoldInv'
    BY <1>3, <2>1, <2>2 DEF PoolInv, WorkerInv, HoldInv, pool_vars, GetPC
  <2>5. FreedInv' /\ KillInv' /\ CountInv'
    <3>1. /\ \A n : Using(n)' <=> Using(n)
          /\ Killed' = Killed /\ Dispatched' = Dispatched
      BY <1>3, <2>2 DEF Using, Killed, Dispatched, pool_vars
    <3>. QED
      BY <1>3, <2>1, <3>1
      DEF PoolInv, FreedInv, KillInv, CountInv, pool_vars
  <2>6. SleepInv'
    BY <2>2 DEF SleepInv
  <2>. QED
    BY <1>5, <1>6, <2>3, <2>4, <2>5, <2>6 DEF PoolInv
<1>. QED
  BY <1>3, <1>7, <1>8, <1>9

(* WP_enqueue_task and WP_request_stop offer the next wrapper. *)
LEMMA MainOffersKeeps ==
  ASSUME PoolInv, PoolNext, NEW k,
         \/ main_pc = "enqueue" /\ i < task_count /\ k = i + 1
         \/ main_pc = "stop" /\ i < thread_count /\ k = task_count + i + 1,
         AddCall(Main, k), i' = i + 1,
         UNCHANGED <<main_pc, worker_pc, executed, freed>>
  PROVE  PoolInv'
<1> USE PoolConstants
<1>1. /\ pc \in [Threads -> GetPC \cup AddPC \cup {"idle"}]
      /\ task \in [Threads -> Items \cup {NULL}]
      /\ Len(added) \in Nat /\ i \in Nat
  BY PoolTypes DEF PoolInv, ControlInv
<1>2. /\ pc[Main] = "idle" /\ pc'[Main] = "add_lock" /\ task'[Main] = k
      /\ UNCHANGED <<list, dispatched, added, taken>>
      /\ \A u \in Workers : pc'[u] = pc[u] /\ task'[u] = task[u]
  BY <1>1 DEF AddCall
<1>3. QueueInv'
  BY QueueKept
<1>4. ControlInv' /\ JoinInv'
  BY <1>1 DEF PoolInv, ControlInv, JoinInv
<1>5. MainInv'
  <2>1. Len(added) = Made /\ Made' = Made + 1 /\ k = Made + 1
    BY <1>1, <1>2 DEF PoolInv, MainInv, Made, BeforePut
  <2>. QED
    BY <1>1, <1>2, <2>1 DEF PoolInv, MainInv, BeforePut, AddPC
<1>6. WorkerInv' /\ HoldInv' /\ SleepInv'
  BY <1>2 DEF PoolInv, WorkerInv, HoldInv, SleepInv
<1>7. FreedInv' /\ KillInv' /\ CountInv'
  <2>1. /\ \A n : Using(n)' <=> Using(n)
        /\ Killed' = Killed /\ Dispatched' = Dispatched
    BY <1>2 DEF Using, Killed, Dispatched
  <2>. QED
    BY <1>2, <2>1 DEF PoolInv, FreedInv, KillInv, CountInv
<1>. QED
  BY <1>3, <1>4, <1>5, <1>6, <1>7 DEF PoolInv

(* WP_create starts, or fails to start, the next worker. *)
LEMMA MainSpawnsKeeps ==
  ASSUME PoolInv, PoolNext, Turn("spawn", thread_count), MainSpawn
  PROVE  PoolInv'
<1> USE PoolConstants
<1>1. /\ main_pc = "spawn" /\ i < thread_count /\ i' = i + 1 /\ i \in Nat
      /\ UNCHANGED <<vars, main_pc, executed, freed>>
      /\ \/ worker_pc' = [worker_pc EXCEPT ![i + 1] = "loop"]
         \/ worker_pc' = [worker_pc EXCEPT ![i + 1] = "missing"]
  BY DEF MainSpawn, Turn, Leave, PoolInv, ControlInv
<1>2. i + 1 \in Workers /\ worker_pc[i + 1] = "unborn"
  BY <1>1 DEF Workers, PoolInv, ControlInv
<1>3. UNCHANGED <<chunk, front, back, live_chunk_count, dispatched, rw_mutex,
                  pc, task, added, taken>>
  BY <1>1 DEF vars
<1>4. task[i + 1] = NULL /\ pc[i + 1] = "idle"
  BY <1>2 DEF PoolInv, WorkerInv
<1>5. /\ worker_pc' \in [Workers -> {"unborn", "missing", "loop", "func",
                                    "register", "dying", "exited"}]
      /\ \A u \in Workers \ {i + 1} : worker_pc'[u] = worker_pc[u]
      /\ worker_pc'[i + 1] \in {"loop", "missing"}
  BY <1>1, <1>2, PoolTypes
<1>6. QueueInv'
  BY QueueKept
<1>7. ControlInv'
  BY <1>1, <1>5 DEF PoolInv, ControlInv, Workers
<1>8. MainInv' /\ HoldInv' /\ SleepInv' /\ JoinInv' /\ CountInv'
  BY <1>1, <1>3 DEF PoolInv, MainInv, HoldInv, SleepInv, JoinInv, CountInv,
                    Made, Full, Dispatched
<1>9. WorkerInv'
  BY <1>3, <1>4, <1>5 DEF PoolInv, WorkerInv
<1>10. FreedInv' /\ KillInv'
  <2>1. \A n \in 1 .. Len(taken) : Using(n)' <=> Using(n)
    BY <1>3, <1>4, <1>5, PoolTypes DEF Using
  <2>2. Killed' = Killed
    BY <1>2, <1>3, <1>4, <1>5 DEF Killed
  <2>. QED
    BY <1>1, <1>3, <2>1, <2>2 DEF PoolInv, FreedInv, KillInv
<1>. QED
  BY <1>6, <1>7, <1>8, <1>9, <1>10 DEF PoolInv

(* The steps of main that touch neither the queue nor a worker. *)
LEMMA MainControlsKeeps ==
  ASSUME PoolInv, PoolNext, main_pc # "done",
         UNCHANGED <<front, back, live_chunk_count, dispatched, pc, task,
                     added, taken, worker_pc, executed, freed>>,
         chunk' = chunk \/ pc[Main] = "idle",
         Made' = Made,
         pc[Main] \in AddPC => main_pc' = main_pc,
         ControlInv', JoinInv'
  PROVE  PoolInv'
<1>1. QueueInv'
  BY QueueKept
<1>2. MainInv'
  BY DEF PoolInv, MainInv
<1>3. WorkerInv' /\ HoldInv' /\ CountInv' /\ KillInv' /\ FreedInv' /\ SleepInv'
  BY DEF PoolInv, WorkerInv, HoldInv, CountInv, KillInv, FreedInv, SleepInv,
         Killed, Dispatched, Using, Full
<1>. QED
  BY <1>1, <1>2, <1>3 DEF PoolInv

(* Main goes on to its next phase: all the workers started, all the tasks  *)
(* enqueued, all the WP_KILLs enqueued, all the workers joined.            *)
LEMMA MainLeavesKeeps ==
  ASSUME PoolInv, PoolNext,
         \/ Leave("spawn", thread_count, "enqueue")
         \/ pc[Main] = "idle" /\ Leave("enqueue", task_count, "stop")
         \/ pc[Main] = "idle" /\ Leave("stop", thread_count, "join")
         \/ Leave("join", thread_count, "check")
  PROVE  PoolInv'
<1> USE PoolConstants
<1>1. /\ UNCHANGED <<chunk, front, back, live_chunk_count, dispatched, pc,
                     task, added, taken, worker_pc, executed, freed>>
      /\ i' = 0 /\ main_pc # "done"
      /\ \/ main_pc = "spawn" /\ i = thread_count /\ main_pc' = "enqueue"
         \/ main_pc = "enqueue" /\ i = task_count /\ main_pc' = "stop"
         \/ main_pc = "stop" /\ i = thread_count /\ main_pc' = "join"
         \/ main_pc = "join" /\ i = thread_count /\ main_pc' = "check"
  BY DEF Leave, vars
<1>2. Made' = Made
  BY <1>1 DEF Made
<1>3. pc[Main] = "idle"
  BY <1>1 DEF PoolInv, MainInv, Leave
<1>4. ControlInv'
  BY <1>1 DEF PoolInv, ControlInv
<1>5. JoinInv'
  BY <1>1 DEF PoolInv, JoinInv, Gone, Workers
<1>. QED
  BY <1>1, <1>2, <1>3, <1>4, <1>5, MainControlsKeeps DEF AddPC

LEMMA MainJoinsKeeps ==
  ASSUME PoolInv, PoolNext, MainJoin
  PROVE  PoolInv'
<1> USE PoolConstants
<1>1. CASE Leave("join", thread_count, "check")
  BY <1>1, MainLeavesKeeps
<1>2. CASE ~Leave("join", thread_count, "check")
  <2>1. /\ UNCHANGED <<vars, worker_pc, executed, freed>>
        /\ main_pc = "join" /\ i < thread_count
        /\ \/ /\ main_pc' = "join" /\ i' = i + 1
              /\ Gone(i + 1)
           \/ main_pc' = "lost" /\ i' = i
    BY <1>2 DEF MainJoin, Turn, Gone
  <2>2. UNCHANGED <<chunk, front, back, live_chunk_count, dispatched, pc, task,
                    added, taken, worker_pc, executed, freed>>
    BY <2>1 DEF vars
  <2>3. Made' = Made /\ pc[Main] \notin AddPC /\ i \in Nat
    BY <2>1 DEF Made, PoolInv, MainInv, ControlInv
  <2>4. ControlInv'
    BY <2>1, <2>3 DEF PoolInv, ControlInv
  <2>5. JoinInv'
    BY <2>1, <2>3 DEF PoolInv, JoinInv, Gone
  <2>. QED
    BY <2>1, <2>2, <2>3, <2>4, <2>5, MainControlsKeeps
<1>. QED
  BY <1>1, <1>2

(* What the checks on the chunks (parallel.c:91-98) say: everything that   *)
(* was put in the queue was taken out.                                     *)
LEMMA ChunksTell ==
  ASSUME QInv
  PROVE  /\ live_chunk_count = 1 /\ chunk[back].filled = chunk[back].next
         <=> Len(taken) = Len(added)
<1> USE QueueAssumption
<1>1. /\ chunk \in Seq(Chunk) /\ front \in 1 .. Len(chunk)
      /\ back \in 1 .. Len(chunk) /\ front <= back
      /\ added \in Seq(Items) /\ taken \in Seq(Items)
      /\ live_chunk_count = back - front + 1
  BY DEF QInv, TypeOK, ListInv
<1>2. chunk[front] \in Chunk /\ chunk[back] \in Chunk
  BY <1>1
<1>3. /\ chunk[front].next \in Nat /\ chunk[back].filled \in Nat
      /\ chunk[back].next \in Nat
      /\ chunk[front].next < ChunkSize
      /\ front < back => chunk[back].filled > 0
  <2>1. /\ chunk[front].next \in Nat /\ chunk[back].filled \in Nat
        /\ chunk[back].next \in Nat
    BY <1>2 DEF Chunk
  <2>2. /\ chunk[front].next < ChunkSize
        /\ front < back => chunk[back].filled > 0
    BY DEF QInv, ListInv
  <2>. QED
    BY <2>1, <2>2
<1>4. /\ Len(added) = First(back) + chunk[back].filled
      /\ Len(taken) = First(front) + chunk[front].next
  BY DEF QInv, SlotsInv
<1>5. First(front) \in Nat /\ First(back) \in Nat
  BY <1>1, FirstSlot
<1>6. CASE front = back
  BY <1>1, <1>3, <1>4, <1>5, <1>6
<1>7. CASE front < back
  <2>1. First(front) + ChunkSize <= First(back)
    BY <1>1, <1>7, FirstSlot
  <2>2. Len(taken) < First(front) + ChunkSize
    BY <1>3, <1>4, <1>5
  <2>3. First(back) < Len(added)
    BY <1>3, <1>4, <1>5, <1>7
  <2>4. Len(taken) \in Nat /\ Len(added) \in Nat
    BY <1>1
  <2>5. Len(taken) < Len(added)
    BY <1>5, <2>1, <2>2, <2>3, <2>4
  <2>. QED
    BY <1>1, <1>7, <2>5
<1>. QED
  BY <1>1, <1>6, <1>7

(* What main's sanity checks tell when all the workers are joined.         *)
LEMMA ChecksTell ==
  ASSUME PoolInv, main_pc = "check"
  PROVE  QueueDrained <=> ~Missing
<1> USE PoolConstants
<1>1. QInv /\ \A w \in Workers : Gone(w)
  BY DEF PoolInv, QueueInv, JoinInv
<1>2. Len(added) = task_count + thread_count
  BY DEF PoolInv, MainInv, Made, AddPC, BeforePut
<1>3. dispatched = 0
  <2>1. Dispatched = {}
    BY <1>1 DEF Dispatched, Gone, PoolInv, WorkerInv
  <2>. QED
    BY <2>1, FS_EmptySet DEF PoolInv, CountInv
<1>4. QueueDrained <=> Len(taken) = Len(added)
  BY <1>1, <1>3, ChunksTell DEF QueueDrained
<1>5. Killed = {w \in Workers : worker_pc[w] # "missing"}
  BY <1>1 DEF Killed, Gone
<1>6. Missing <=> Killed # Workers
  BY <1>5 DEF Missing
<1>8. Killed # Workers <=> Cardinality(Killed) # thread_count
  BY <1>5, WorkersCount, WorkerSets
<1>9. Cardinality(Killed) = thread_count <=> Len(taken) = Len(added)
  <2>1. Len(taken) \in Nat
    BY PoolTypes
  <2>2. CASE Len(taken) > task_count
    <3>1. Cardinality(Killed) = Len(taken) - task_count
      BY <2>2 DEF PoolInv, KillInv
    <3>. QED
      BY <1>2, <2>1, <3>1
  <2>3. CASE Len(taken) <= task_count
    <3>1. Cardinality(Killed) = 0
      BY <2>1, <2>3 DEF PoolInv, KillInv
    <3>. QED
      BY <1>2, <2>1, <2>3, <3>1
  <2>. QED
    BY <2>1, <2>2, <2>3
<1>. QED
  BY <1>4, <1>6, <1>8, <1>9

LEMMA MainEndsKeeps ==
  ASSUME PoolInv, PoolNext, MainCheck \/ MainFree
  PROVE  PoolInv'
<1> USE PoolConstants
<1>1. /\ UNCHANGED <<front, back, live_chunk_count, dispatched, pc, task,
                     added, taken, worker_pc, executed, freed, i>>
      /\ main_pc # "done"
      /\ \/ /\ main_pc = "check" /\ chunk' = chunk
            /\ main_pc' = IF QueueDrained THEN "free" ELSE "exit1"
         \/ main_pc = "free" /\ main_pc' = "done"
  BY DEF MainCheck, MainFree, vars
<1>2. Made' = Made
  BY <1>1 DEF Made
<1>3. pc[Main] = "idle"
  BY <1>1 DEF PoolInv, MainInv
<1>4. ControlInv'
  BY <1>1 DEF PoolInv, ControlInv
<1>5. JoinInv'
  BY <1>1, ChecksTell DEF PoolInv, JoinInv, Gone, Missing
<1>. QED
  BY <1>1, <1>2, <1>3, <1>4, <1>5, MainControlsKeeps DEF AddPC

LEMMA MainKeeps ==
  ASSUME PoolInv, PoolNext, MainStep
  PROVE  PoolInv'
<1>1. CASE MainSpawn
  BY <1>1, MainSpawnsKeeps, MainLeavesKeeps DEF MainSpawn
<1>2. CASE MainEnqueue
  BY <1>2, MainOffersKeeps, MainLeavesKeeps DEF MainEnqueue, Turn
<1>3. CASE MainStop
  BY <1>3, MainOffersKeeps, MainLeavesKeeps DEF MainStop, Turn
<1>4. CASE MainJoin
  BY <1>4, MainJoinsKeeps
<1>5. CASE MainCheck \/ MainFree
  BY <1>5, MainEndsKeeps
<1>. QED
  BY <1>1, <1>2, <1>3, <1>4, <1>5 DEF MainStep

LEMMA StepPoolInv == PoolInv /\ [PoolNext]_all_vars => PoolInv'
<1> SUFFICES ASSUME PoolInv, [PoolNext]_all_vars PROVE PoolInv'
  OBVIOUS
<1> USE PoolConstants
<1>1. CASE UNCHANGED all_vars
  <2>1. QueueInv'
    BY <1>1
    DEF all_vars, vars, pool_vars, PoolInv, QueueInv, QInv, TypeOK, MutexInv,
        HandInv, ListInv, SlotsInv
  <2>2. ControlInv' /\ MainInv' /\ WorkerInv' /\ HoldInv' /\ FreedInv'
    BY <1>1
    DEF all_vars, vars, pool_vars, PoolInv, ControlInv, MainInv, WorkerInv,
        HoldInv, FreedInv, Made, Using
  <2>3. KillInv' /\ CountInv' /\ JoinInv' /\ SleepInv'
    BY <1>1
    DEF all_vars, vars, pool_vars, PoolInv, KillInv, CountInv, JoinInv,
        SleepInv, Killed, Dispatched, Missing, Gone, Full
  <2>. QED
    BY <2>1, <2>2, <2>3 DEF PoolInv
<1>2. CASE PoolNext /\ MainStep
  BY <1>2, MainKeeps
<1>3. ASSUME PoolNext, NEW w \in Workers, WorkerStep(w) PROVE PoolInv'
  BY <1>3, WorkerKeeps
<1>4. ASSUME PoolNext, NEW t \in Threads, InQueue(t) \/ Spurious(t)
      PROVE  PoolInv'
  <2>1. CASE t \in Workers
    BY <1>4, <2>1, WorkerKeeps
  <2>2. CASE t = Main
    BY <1>4, <2>2, MainMovesKeeps
  <2>. QED
    BY <2>1, <2>2
<1>. QED
  BY <1>1, <1>2, <1>3, <1>4 DEF PoolNext, Terminated
-----------------------------------------------------------------------------
(* Theorems *)

(* Main, the workers and the queue stay in step, whoever is scheduled and  *)
(* whichever of the pthread_create fail: what the invariant says of the    *)
(* wrappers in the queue, in the workers' hands and freed.                 *)
THEOREM PoolInvHolds == PoolSpec => []PoolInv
  BY InitPoolInv, StepPoolInv, PTL DEF PoolSpec

(* The pool's variables stay in their types, and so do the queue's.        *)
THEOREM PoolTypeCorrect == PoolSpec => []PoolTypeOK
<1>1. PoolInv => PoolTypeOK
  <2> SUFFICES ASSUME PoolInv PROVE PoolTypeOK
    OBVIOUS
  <2> USE PoolConstants
  <2>1. /\ freed = {k \in 1 .. Len(taken) : ~Using(k)}
        /\ executed = [k \in ExecTasks |-> IF k \in freed THEN 1 ELSE 0]
    BY DEF PoolInv, FreedInv
  <2>2. freed \subseteq Items
    BY <2>1, PoolTypes
  <2>3. executed \in [ExecTasks -> Nat]
    BY <2>1
  <2>4. i \in 0 .. task_count + thread_count
    BY DEF PoolInv, ControlInv
  <2>. QED
    BY <2>2, <2>3, <2>4 DEF PoolTypeOK, PoolInv, QueueInv, ControlInv
<1>. QED
  BY <1>1, PoolInvHolds, PTL

(* With some worker that took a WP_KILL, the queue has handed out all the  *)
(* tasks that were enqueued before it.                                     *)
LEMMA KilledAfterTasks ==
  ASSUME PoolInv, Killed # {}
  PROVE  ExecTasks \subseteq 1 .. Len(taken)
<1>1. Cardinality(Killed) # 0
  BY WorkerSets DEF Killed
<1>2. Len(taken) > task_count /\ Len(taken) \in Nat
  BY <1>1, PoolTypes DEF PoolInv, KillInv
<1>. QED
  BY <1>2, PoolConstants DEF ExecTasks

(* A worker is killed only once every task was taken by some worker: the   *)
(* WP_KILLs are the last to enter the queue (worker_pool.c:15).            *)
THEOREM TasksBeforeKills == PoolSpec => []KillsLast
<1>1. PoolInv => KillsLast
  <2> SUFFICES ASSUME PoolInv,
                      NEW w \in Workers, worker_pc[w] \in {"dying", "exited"},
                      NEW k \in ExecTasks
               PROVE  \E n \in DOMAIN taken : taken[n] = k
    BY DEF KillsLast
  <2>1. k \in 1 .. Len(taken)
    BY KilledAfterTasks DEF Killed
  <2>2. taken[k] = k /\ DOMAIN taken = 1 .. Len(taken)
    BY <2>1, PoolTypes DEF PoolInv, MainInv
  <2>. QED
    BY <2>1, <2>2
<1>. QED
  BY <1>1, PoolInvHolds, PTL

(* When all the workers are joined and one was started, every task was     *)
(* taken and is not used any more.                                         *)
LEMMA JoinedMeansFreed ==
  ASSUME PoolInv, ~Nobody, \A w \in Workers : Gone(w)
  PROVE  ExecTasks \subseteq freed
<1>1. Killed # {}
  BY DEF Nobody, Killed, Gone
<1>2. \A k : ~Using(k)
  BY DEF Using, Gone
<1>. QED
  BY <1>1, <1>2, KilledAfterTasks DEF PoolInv, FreedInv

(* No task is run twice, and all have run when WP_join returns, if anybody *)
(* was started to run them (parallel.c:74).                                *)
THEOREM TasksRunOnce == PoolSpec => []RunOnce
<1>1. PoolInv => RunOnce
  <2> SUFFICES ASSUME PoolInv PROVE RunOnce
    OBVIOUS
  <2>1. \A k \in ExecTasks :
          executed[k] <= 1 /\ (k \in freed => executed[k] = 1)
    BY DEF PoolInv, FreedInv
  <2>2. ASSUME main_pc \in {"check", "free", "done"}, ~Nobody
        PROVE  ExecTasks \subseteq freed
    BY <2>2, JoinedMeansFreed DEF PoolInv, JoinInv
  <2>. QED
    BY <2>1, <2>2 DEF RunOnce
<1>. QED
  BY <1>1, PoolInvHolds, PTL

(* The sanity checks of parallel.c:87-98 fail exactly when some worker was *)
(* not started, whoever took which WP_KILL.                                *)
THEOREM SanityChecksExact == PoolSpec => []ChecksExact
<1>1. PoolInv => ChecksExact
  BY DEF PoolInv, JoinInv, ChecksExact
<1>. QED
  BY <1>1, PoolInvHolds, PTL

(* A wrapper is freed by the worker that took it, once and after its last  *)
(* use, and with all the workers started every wrapper is freed.           *)
THEOREM WrappersFreedOnce == PoolSpec => []WrapperLifetime
<1>1. PoolInv => WrapperLifetime
  <2> SUFFICES ASSUME PoolInv PROVE WrapperLifetime
    OBVIOUS
  <2> USE PoolConstants
  <2>1. freed = {k \in 1 .. Len(taken) : ~Using(k)}
    BY DEF PoolInv, FreedInv
  <2>2. ASSUME NEW n \in Len(taken) + 1 .. Len(added)
        PROVE  added[n] \notin freed
    <3>1. n \in 1 .. Len(added) /\ n \notin 1 .. Len(taken)
      BY PoolTypes
    <3>. QED
      BY <2>1, <3>1 DEF PoolInv, MainInv
  <2>3. ASSUME NEW w \in Workers, worker_pc[w] \in {"loop", "func"}
        PROVE  task[w] \notin freed
    BY <2>1, <2>3 DEF Using
  <2>4. ASSUME main_pc \in {"check", "free", "done"}, ~Missing
        PROVE  freed = Items
    <3>1. Killed = Workers
      BY <2>4 DEF Killed, Missing, PoolInv, JoinInv, Gone
    <3>3. Len(taken) = task_count + thread_count
      BY <3>1, WorkersCount, PoolTypes DEF PoolInv, KillInv
    <3>4. \A k : ~Using(k)
      BY <2>4 DEF Using, PoolInv, JoinInv, Gone
    <3>. QED
      BY <2>1, <3>3, <3>4
  <2>. QED
    BY <2>2, <2>3, <2>4 DEF WrapperLifetime
<1>. QED
  BY <1>1, PoolInvHolds, PTL

(* Main sleeps in QUEUE_add only while the queue is full or its wake-up is *)
(* on the way (queue.c:115, 133): true of the pool, whose queue has one    *)
(* writer, though not of every use of the queue.                           *)
THEOREM ProducerSleepsOnlyWhenFull == PoolSpec => []MainSleepsOnlyWhenFull
<1>1. PoolInv => MainSleepsOnlyWhenFull
  <2> SUFFICES ASSUME PoolInv, At({"add_sleep"}) # {}
               PROVE  Full \/ At({"add_woken", "add_test", "get_signal"}) # {}
    BY DEF MainSleepsOnlyWhenFull, SleepingWriterMeansFull
  <2>1. pc[Main] = "add_sleep"
    BY PoolConstants DEF At, PoolInv, WorkerInv, GetPC
  <2>. QED
    BY <2>1, PoolConstants DEF At, PoolInv, SleepInv
<1>. QED
  BY <1>1, PoolInvHolds, PTL
-----------------------------------------------------------------------------
(* The pool implements TaskPool *)

StatusIn(k, fr, nt, na) ==
  IF k \in fr THEN "done"
  ELSE IF k <= nt THEN "running"
  ELSE IF k <= na THEN "queued"
  ELSE "new"

(* The refinement mapping, said of how far the queue's history has come. *)
LEMMA StatusRead ==
  ASSUME NEW fr, NEW ex, NEW tk \in Seq(Items), NEW ad \in Seq(Items),
         ex = [k \in ExecTasks |-> IF k \in fr THEN 1 ELSE 0],
         \A n \in 1 .. Len(tk) : tk[n] = n,
         \A n \in 1 .. Len(ad) : ad[n] = n
  PROVE  [k \in ExecTasks |->
            IF ex[k] > 0 THEN "done"
            ELSE IF Listed(k, tk) THEN "running"
            ELSE IF Listed(k, ad) THEN "queued"
            ELSE "new"]
           = [k \in ExecTasks |-> StatusIn(k, fr, Len(tk), Len(ad))]
<1>1. ASSUME NEW k \in ExecTasks, NEW s \in Seq(Items),
             \A n \in 1 .. Len(s) : s[n] = n
      PROVE  Listed(k, s) <=> k <= Len(s)
  <2>1. DOMAIN s = 1 .. Len(s) /\ Len(s) \in Nat
    OBVIOUS
  <2>2. k \in Nat /\ k >= 1
    BY PoolConstants DEF ExecTasks
  <2>3. k <= Len(s) <=> k \in 1 .. Len(s)
    BY <2>1, <2>2
  <2>. QED
    BY <1>1, <2>1, <2>3 DEF Listed
<1>2. ASSUME NEW k \in ExecTasks
      PROVE  ex[k] > 0 <=> k \in fr
  <2>1. ex[k] = IF k \in fr THEN 1 ELSE 0
    BY Zenon
  <2>. QED
    BY <2>1
<1>3. ASSUME NEW k \in ExecTasks
      PROVE  (IF ex[k] > 0 THEN "done"
              ELSE IF Listed(k, tk) THEN "running"
              ELSE IF Listed(k, ad) THEN "queued"
              ELSE "new") = StatusIn(k, fr, Len(tk), Len(ad))
  <2>1. Listed(k, tk) <=> k <= Len(tk)
    BY <1>1
  <2>2. Listed(k, ad) <=> k <= Len(ad)
    BY <1>1
  <2>. QED
    BY <1>2, <2>1, <2>2 DEF StatusIn
<1>. QED
  BY <1>3

LEMMA TaskStatusIs ==
  /\ PoolInv => TaskStatus =
       [k \in ExecTasks |-> StatusIn(k, freed, Len(taken), Len(added))]
  /\ PoolInv' => TaskStatus' =
       [k \in ExecTasks |-> StatusIn(k, freed', Len(taken'), Len(added'))]
<1>1. ASSUME PoolInv
      PROVE  TaskStatus =
               [k \in ExecTasks |-> StatusIn(k, freed, Len(taken), Len(added))]
  <2>1. /\ executed = [k \in ExecTasks |-> IF k \in freed THEN 1 ELSE 0]
        /\ taken \in Seq(Items) /\ added \in Seq(Items)
        /\ \A n \in 1 .. Len(taken) : taken[n] = n
        /\ \A n \in 1 .. Len(added) : added[n] = n
    BY <1>1 DEF PoolInv, FreedInv, MainInv, QueueInv, TypeOK
  <2>. QED
    BY <2>1, StatusRead DEF TaskStatus
<1>2. ASSUME PoolInv'
      PROVE  TaskStatus' =
               [k \in ExecTasks |->
                  StatusIn(k, freed', Len(taken'), Len(added'))]
  <2>1. /\ executed' = [k \in ExecTasks |-> IF k \in freed' THEN 1 ELSE 0]
        /\ taken' \in Seq(Items) /\ added' \in Seq(Items)
        /\ \A n \in 1 .. Len(taken') : taken'[n] = n
        /\ \A n \in 1 .. Len(added') : added'[n] = n
    BY <1>2 DEF PoolInv, FreedInv, MainInv, QueueInv, TypeOK
  <2>. QED
    BY <2>1, StatusRead DEF TaskStatus
<1>. QED
  BY <1>1, <1>2

(* Nobody is started by a step other than main's pthread_create.           *)
LEMMA JoinedKept ==
  ASSUME main_pc' = main_pc,
         \A u \in Workers : worker_pc'[u] = "missing" <=> worker_pc[u] = "missing"
  PROVE  Joined' <=> Joined
  BY DEF Joined, Nobody

(* What a step does to the two variables of the abstract specification,    *)
(* when it is not one of the four below.                                   *)
LEMMA Unseen ==
  ASSUME PoolInv, PoolInv',
         \A k \in ExecTasks :
           /\ k \in freed' <=> k \in freed
           /\ k <= Len(taken') <=> k <= Len(taken)
           /\ k <= Len(added') <=> k <= Len(added),
         Joined' <=> Joined
  PROVE  UNCHANGED <<TaskStatus, Joined>>
<1>1. \A k \in ExecTasks :
        StatusIn(k, freed', Len(taken'), Len(added'))
          = StatusIn(k, freed, Len(taken), Len(added))
  BY DEF StatusIn
<1>2. TaskStatus' = TaskStatus
  BY <1>1, TaskStatusIs
<1>3. Joined \in BOOLEAN /\ Joined' \in BOOLEAN
  BY DEF Joined
<1>4. Joined' = Joined
  BY <1>3, Zenon
<1>. QED
  BY <1>2, <1>4

(* A task put in the queue is enqueued, *)
LEMMA PutIsEnqueue ==
  ASSUME PoolInv, PoolInv', NEW k \in ExecTasks,
         k = Len(added) + 1, Len(added') = k,
         UNCHANGED <<taken, freed>>, Joined' <=> Joined
  PROVE  Pool!Enqueue(k)
<1> USE PoolConstants
<1>1. /\ \A j \in ExecTasks :
           TaskStatus[j] = StatusIn(j, freed, Len(taken), Len(added))
      /\ TaskStatus' =
           [j \in ExecTasks |-> StatusIn(j, freed', Len(taken'), Len(added'))]
      /\ TaskStatus =
           [j \in ExecTasks |-> StatusIn(j, freed, Len(taken), Len(added))]
  BY TaskStatusIs
<1>2. /\ Len(added) \in Nat /\ Len(taken) \in Nat /\ Len(taken) <= Len(added)
      /\ \A j \in ExecTasks : j \in Nat
      /\ \A j \in freed : j <= Len(taken)
  BY PoolTypes DEF PoolInv, FreedInv, ExecTasks
<1>3. TaskStatus[k] = "new"
  BY <1>1, <1>2 DEF StatusIn
<1>4. \A j \in ExecTasks : j < k => TaskStatus[j] # "new"
  BY <1>1, <1>2 DEF StatusIn
<1>5. TaskStatus' = [TaskStatus EXCEPT ![k] = "queued"]
  <2>1. \A j \in ExecTasks \ {k} :
          StatusIn(j, freed', Len(taken'), Len(added'))
            = StatusIn(j, freed, Len(taken), Len(added))
    BY <1>2 DEF StatusIn
  <2>2. StatusIn(k, freed', Len(taken'), Len(added')) = "queued"
    BY <1>2 DEF StatusIn
  <2>. QED
    BY <1>1, <2>1, <2>2
<1>6. Joined' = Joined
  <2>1. Joined \in BOOLEAN /\ Joined' \in BOOLEAN
    BY DEF Joined
  <2>. QED
    BY <2>1, Zenon
<1>. QED
  BY <1>3, <1>4, <1>5, <1>6 DEF Pool!Enqueue, Pool!In, Pool!Earlier

(* a task taken is started: those that run are held by the other workers,  *)
LEMMA TakeIsStart ==
  ASSUME PoolInv, PoolInv', NEW w \in Workers, task[w] = NULL,
         NEW k \in ExecTasks,
         k = Len(taken) + 1, Len(taken') = k, k <= Len(added),
         UNCHANGED <<added, freed>>, Joined' <=> Joined
  PROVE  Pool!Start(k)
<1> USE PoolConstants
<1>1. /\ \A j \in ExecTasks :
           TaskStatus[j] = StatusIn(j, freed, Len(taken), Len(added))
      /\ TaskStatus' =
           [j \in ExecTasks |-> StatusIn(j, freed', Len(taken'), Len(added'))]
      /\ TaskStatus =
           [j \in ExecTasks |-> StatusIn(j, freed, Len(taken), Len(added))]
  BY TaskStatusIs
<1>2. /\ Len(added) \in Nat /\ Len(taken) \in Nat /\ Len(taken) <= Len(added)
      /\ \A j \in ExecTasks : j \in Nat
      /\ \A j \in freed : j <= Len(taken)
      /\ freed = {j \in 1 .. Len(taken) : ~Using(j)}
  BY PoolTypes DEF PoolInv, FreedInv, ExecTasks
<1>3. TaskStatus[k] = "queued"
  BY <1>1, <1>2 DEF StatusIn
<1>4. \A j \in ExecTasks : j < k => TaskStatus[j] # "queued"
  BY <1>1, <1>2 DEF StatusIn
<1>5. TaskStatus' = [TaskStatus EXCEPT ![k] = "running"]
  <2>1. \A j \in ExecTasks \ {k} :
          StatusIn(j, freed', Len(taken'), Len(added'))
            = StatusIn(j, freed, Len(taken), Len(added))
    BY <1>2 DEF StatusIn
  <2>2. StatusIn(k, freed', Len(taken'), Len(added')) = "running"
    BY <1>2 DEF StatusIn
  <2>. QED
    BY <1>1, <2>1, <2>2
<1>6. Joined' = Joined
  <2>1. Joined \in BOOLEAN /\ Joined' \in BOOLEAN
    BY DEF Joined
  <2>. QED
    BY <2>1, Zenon
<1>7. Cardinality(Pool!In("running")) < thread_count
  <2>. DEFINE R == Pool!In("running")
              holder == [j \in R |-> CHOOSE u \in Workers : task[u] = j]
  <2>1. ASSUME NEW j \in R
        PROVE  \E u \in Workers \ {w} : task[u] = j
    <3>1. j \in ExecTasks /\ TaskStatus[j] = "running"
      BY DEF Pool!In
    <3>2. j \in 1 .. Len(taken) /\ j \notin freed
      BY <1>1, <1>2, <3>1 DEF StatusIn, ExecTasks
    <3>3. j # NULL /\ Using(j)
      BY <1>2, <3>1, <3>2
    <3>. QED
      BY <3>3 DEF Using
  <2>2. \A j \in R : holder[j] \in Workers \ {w} /\ task[holder[j]] = j
    <3>1. ASSUME NEW j \in R
          PROVE  holder[j] \in Workers /\ task[holder[j]] = j
      BY <2>1
    <3>2. NULL \notin R
      BY DEF Pool!In
    <3>. QED
      BY <3>1, <3>2
  <2>3. holder \in Injection(R, Workers \ {w})
    <3>1. holder \in [R -> Workers \ {w}]
      BY <2>2
    <3>2. \A a, b \in R : holder[a] = holder[b] => a = b
      BY <2>2
    <3>. HIDE DEF R, holder
    <3>. QED
      BY <3>1, <3>2 DEF Injection, IsInjective
  <2>4. /\ IsFiniteSet(Workers \ {w})
        /\ Cardinality(Workers \ {w}) = thread_count - 1
    <3>. HIDE DEF R, holder
    <3>. QED
      BY WorkersCount, FS_RemoveElement
  <2>5. /\ IsFiniteSet(R)
        /\ Cardinality(R) <= thread_count - 1
    <3>. HIDE DEF R, holder
    <3>. QED
      BY <2>3, <2>4, FS_Injection
  <2>6. Cardinality(R) \in Nat
    BY <2>5, FS_CardinalityType
  <2>. QED
    BY <2>5, <2>6
<1>8. Pool!In("queued") \cap Pool!Earlier(k) = {}
  BY <1>4 DEF Pool!In, Pool!Earlier
<1>9. Pool!Cardinality(Pool!In("running")) = Cardinality(Pool!In("running"))
  BY DEF Pool!Cardinality, Cardinality
<1>. QED
  BY <1>3, <1>5, <1>6, <1>7, <1>8, <1>9 DEF Pool!Start

(* a task that has run is finished, *)
LEMMA RanIsFinish ==
  ASSUME PoolInv, PoolInv', NEW k \in ExecTasks,
         k \in 1 .. Len(taken), k \notin freed, freed' = freed \cup {k},
         UNCHANGED <<added, taken>>, Joined' <=> Joined
  PROVE  Pool!Finish(k)
<1> USE PoolConstants
<1>1. /\ TaskStatus' =
           [j \in ExecTasks |-> StatusIn(j, freed', Len(taken'), Len(added'))]
      /\ TaskStatus =
           [j \in ExecTasks |-> StatusIn(j, freed, Len(taken), Len(added))]
  BY TaskStatusIs
<1>2. TaskStatus[k] = "running"
  BY <1>1, PoolTypes DEF StatusIn
<1>3. TaskStatus' = [TaskStatus EXCEPT ![k] = "done"]
  <2>1. \A j \in ExecTasks \ {k} :
          StatusIn(j, freed', Len(taken'), Len(added'))
            = StatusIn(j, freed, Len(taken), Len(added))
    BY DEF StatusIn
  <2>2. StatusIn(k, freed', Len(taken'), Len(added')) = "done"
    BY DEF StatusIn
  <2>. QED
    BY <1>1, <2>1, <2>2
<1>4. Joined' = Joined
  <2>1. Joined \in BOOLEAN /\ Joined' \in BOOLEAN
    BY DEF Joined
  <2>. QED
    BY <2>1, Zenon
<1>. QED
  BY <1>2, <1>3, <1>4 DEF Pool!Finish

(* and when all the workers are joined the pool is joined.                 *)
LEMMA LeaveIsJoin ==
  ASSUME PoolInv, PoolInv', \A w \in Workers : Gone(w), ~Nobody,
         UNCHANGED <<added, taken, freed>>, Joined'
  PROVE  Pool!Join
<1>1. /\ TaskStatus' =
           [j \in ExecTasks |-> StatusIn(j, freed', Len(taken'), Len(added'))]
      /\ TaskStatus =
           [j \in ExecTasks |-> StatusIn(j, freed, Len(taken), Len(added))]
  BY TaskStatusIs
<1>2. ExecTasks \subseteq freed
  BY JoinedMeansFreed
<1>3. \A k \in ExecTasks : TaskStatus[k] = "done"
  BY <1>1, <1>2 DEF StatusIn
<1>4. TaskStatus' = TaskStatus
  BY <1>1
<1>5. Joined' = TRUE
  <2>1. Joined' \in BOOLEAN
    BY DEF Joined
  <2>. QED
    BY <2>1, Zenon
<1>. QED
  BY <1>3, <1>4, <1>5 DEF Pool!Join, Pool!In

LEMMA WorkerRefines ==
  ASSUME PoolInv, PoolInv', NEW w \in Workers,
         WorkerStep(w) \/ InQueue(w) \/ Spurious(w)
  PROVE  [Pool!Next]_(Pool!vars)
<1> USE PoolConstants
<1>1. CASE WorkerStep(w)
  <2>1. /\ UNCHANGED <<added, taken, main_pc>>
        /\ \/ UNCHANGED worker_pc
           \/ \E s \in {"func", "register", "loop", "dying", "exited"} :
                worker_pc[w] # "missing" /\ worker_pc' = [worker_pc EXCEPT ![w] = s]
        /\ \/ UNCHANGED freed
           \/ worker_pc[w] = "func" /\ freed' = freed \cup {task[w]}
           \/ task[w] \in KillTasks /\ freed' = freed \cup {task[w]}
    BY <1>1 DEF WorkerStep, WorkerGet, WorkerRun, WorkerRan, WorkerRegister,
                WorkerKilled, WorkerExit, Returned, GetCall,
                RegisterCompletion, vars, pool_vars
  <2>2. Joined' <=> Joined
    <3>1. \A u \in Workers :
            worker_pc'[u] = "missing" <=> worker_pc[u] = "missing"
      BY <2>1, PoolTypes
    <3>. QED
      BY <2>1, <3>1, JoinedKept
  <2>3. CASE UNCHANGED freed
    BY <2>1, <2>2, <2>3, Unseen DEF Pool!vars
  <2>4. CASE task[w] \in KillTasks /\ freed' = freed \cup {task[w]}
    <3>1. task[w] \notin ExecTasks
      BY <2>4 DEF ExecTasks, KillTasks
    <3>. QED
      BY <2>1, <2>2, <2>4, <3>1, Unseen DEF Pool!vars
  <2>5. CASE worker_pc[w] = "func" /\ freed' = freed \cup {task[w]}
    <3>1. task[w] \in ExecTasks /\ Using(task[w])
      BY <2>5 DEF PoolInv, WorkerInv, Using
    <3>2. task[w] \in 1 .. Len(taken)
      BY <3>1 DEF PoolInv, HoldInv
    <3>3. task[w] \notin freed
      BY <3>1 DEF PoolInv, FreedInv
    <3>4. Pool!Finish(task[w])
      BY <2>1, <2>2, <2>5, <3>1, <3>2, <3>3, RanIsFinish
    <3>. QED
      BY <3>1, <3>4 DEF Pool!Next
  <2>. QED
    BY <2>1, <2>3, <2>4, <2>5
<1>2. CASE InQueue(w) /\ GetTake(w)
  <2>. DEFINE k == Len(taken) + 1
  <2>1. /\ k <= Len(added) /\ k \in Items /\ Len(taken') = k
        /\ task[w] = NULL /\ UNCHANGED <<added, pool_vars>>
    BY <1>2, WorkerTakesEffect
  <2>2. Joined' <=> Joined
    BY <2>1, JoinedKept DEF pool_vars
  <2>3. CASE k \in ExecTasks
    <3>1. Pool!Start(k)
      BY <2>1, <2>2, <2>3, TakeIsStart DEF pool_vars
    <3>. QED
      BY <2>3, <3>1 DEF Pool!Next
  <2>4. CASE k \notin ExecTasks
    <3>1. k > task_count /\ Len(taken) \in Nat /\ \A n \in ExecTasks : n <= task_count
      BY <2>1, <2>4, PoolTypes DEF ExecTasks
    <3>2. \A n \in ExecTasks : n <= Len(taken') <=> n <= Len(taken)
      BY <2>1, <3>1 DEF ExecTasks
    <3>. QED
      BY <2>1, <2>2, <3>2, Unseen DEF pool_vars, Pool!vars
  <2>. QED
    BY <2>3, <2>4
<1>3. CASE WorkerMoves(w)
  <2>1. UNCHANGED <<added, taken, pool_vars>>
    BY <1>3, WorkerMovesEffect
  <2>2. Joined' <=> Joined
    BY <2>1, JoinedKept DEF pool_vars
  <2>. QED
    BY <2>1, <2>2, Unseen DEF pool_vars, Pool!vars
<1>4. CASE Spurious(w) /\ GetTake(w)
  BY <1>4 DEF Spurious, SpuriousWakeup, GetTake
<1>. QED
  BY <1>1, <1>2, <1>3, <1>4 DEF WorkerMoves

LEMMA MainRefines ==
  ASSUME PoolInv, PoolInv', MainStep \/ InQueue(Main) \/ Spurious(Main)
  PROVE  [Pool!Next]_(Pool!vars)
<1> USE PoolConstants
<1>1. CASE InQueue(Main) /\ AddPut(Main)
  <2>. DEFINE k == Len(added) + 1
  <2>1. /\ pc[Main] = "add_test" /\ added' = Append(added, task[Main])
        /\ UNCHANGED <<taken, pool_vars>>
    BY <1>1 DEF InQueue, AddPut
  <2>2. /\ added \in Seq(Items) /\ Len(added) \in Nat /\ task[Main] = Made
        /\ Len(added) = Made - 1 /\ main_pc \in {"enqueue", "stop"}
        /\ i \in Nat
    BY <2>1, PoolTypes DEF PoolInv, MainInv, ControlInv, BeforePut, AddPC
  <2>3. Len(added') = k /\ Made = k
    BY <2>1, <2>2 DEF Made
  <2>4. Joined' <=> Joined
    BY <2>1, JoinedKept DEF pool_vars
  <2>5. CASE k \in ExecTasks
    <3>1. Pool!Enqueue(k)
      BY <2>1, <2>3, <2>4, <2>5, PutIsEnqueue DEF pool_vars
    <3>. QED
      BY <2>5, <3>1 DEF Pool!Next
  <2>6. CASE k \notin ExecTasks
    <3>1. k > task_count
      BY <2>2, <2>6 DEF ExecTasks
    <3>2. \A n \in ExecTasks : n <= Len(added') <=> n <= Len(added)
      BY <2>2, <2>3, <3>1 DEF ExecTasks
    <3>. QED
      BY <2>1, <2>4, <3>2, Unseen DEF pool_vars, Pool!vars
  <2>. QED
    BY <2>5, <2>6
<1>2. CASE (InQueue(Main) \/ Spurious(Main)) /\ ~AddPut(Main)
  <2>1. UNCHANGED <<added, taken, pool_vars>>
    <3>1. pc[Main] \in AddPC \cup {"idle"}
      BY DEF PoolInv, MainInv
    <3>. QED
      BY <1>2, <3>1
      DEF InQueue, Spurious, SpuriousWakeup, QueueStep, GetStep, AddStep,
          GetLock, GetWait, GetTake, GetSignal, GetCount, AddLock, AddWait,
          AddSignal, Lock, CondWait, AddPC
  <2>2. Joined' <=> Joined
    BY <2>1, JoinedKept DEF pool_vars
  <2>. QED
    BY <2>1, <2>2, Unseen DEF pool_vars, Pool!vars
<1>3. CASE MainStep
  <2>1. UNCHANGED <<added, taken, freed>>
    BY <1>3
    DEF MainStep, MainSpawn, MainEnqueue, MainStop, MainJoin, MainCheck,
        MainFree, Leave, AddCall, vars
  <2>2. CASE Leave("join", thread_count, "check")
    <3>1. /\ ~Joined /\ (Joined' <=> ~Nobody)
          /\ \A w \in Workers : Gone(w)
      BY <2>2 DEF Leave, Joined, Nobody, PoolInv, JoinInv, Workers
    <3>2. CASE Nobody
      BY <2>1, <3>1, <3>2, Unseen DEF Pool!vars
    <3>3. CASE ~Nobody
      BY <2>1, <3>1, <3>3, LeaveIsJoin DEF Pool!Next
    <3>. QED
      BY <3>2, <3>3
  <2>3. CASE ~Leave("join", thread_count, "check")
    <3>1. Joined' <=> Joined
      BY <1>3, <2>3
      DEF MainStep, MainSpawn, MainEnqueue, MainStop, MainJoin, MainCheck,
          MainFree, Turn, Leave, Joined, Nobody
    <3>. QED
      BY <2>1, <3>1, Unseen DEF Pool!vars
  <2>. QED
    BY <2>2, <2>3
<1>4. CASE Spurious(Main) /\ AddPut(Main)
  BY <1>4 DEF Spurious, SpuriousWakeup, AddPut
<1>. QED
  BY <1>1, <1>2, <1>3, <1>4

(* The pool keeps what worker_pool.h promises, said by TaskPool: each task *)
(* runs once, they are started in the order they were enqueued, never more *)
(* of them than there are workers, and WP_join returns after the last one  *)
(* (worker_pool.c:9-34, 104-116).                                          *)
THEOREM PoolRefinesTaskPool == PoolSpec => ImplementsTaskPool
<1>1. PoolInit => Pool!Init
  <2> SUFFICES ASSUME PoolInit PROVE Pool!Init
    OBVIOUS
  <2>1. /\ executed = [k \in ExecTasks |-> 0] /\ taken = <<>> /\ added = <<>>
        /\ main_pc = "spawn"
    BY DEF PoolInit, Init
  <2>2. \A k : ~Listed(k, taken) /\ ~Listed(k, added)
    BY <2>1 DEF Listed
  <2>3. TaskStatus = [k \in ExecTasks |-> "new"]
    BY <2>1, <2>2 DEF TaskStatus
  <2>4. Joined = FALSE
    BY <2>1 DEF Joined
  <2>. QED
    BY <2>3, <2>4 DEF Pool!Init
<1>2. PoolInv /\ PoolInv' /\ [PoolNext]_all_vars => [Pool!Next]_(Pool!vars)
  <2> SUFFICES ASSUME PoolInv, PoolInv', [PoolNext]_all_vars
               PROVE  [Pool!Next]_(Pool!vars)
    OBVIOUS
  <2>1. CASE UNCHANGED all_vars
    BY <2>1 DEF all_vars, vars, pool_vars, TaskStatus, Joined, Nobody,
                Pool!vars
  <2>2. CASE PoolNext
    <3>1. ASSUME NEW t \in Threads, InQueue(t) \/ Spurious(t)
          PROVE  [Pool!Next]_(Pool!vars)
      BY <3>1, PoolConstants, WorkerRefines, MainRefines
    <3>. QED
      BY <2>1, <2>2, <3>1, WorkerRefines, MainRefines DEF PoolNext, Terminated
  <2>. QED
    BY <2>1, <2>2
<1>. QED
  BY <1>1, <1>2, PoolInvHolds, PTL DEF PoolSpec, ImplementsTaskPool, Pool!Spec
-----------------------------------------------------------------------------
(***************************************************************************)
(* The pool as a client of the queue: nobody is left waiting.              *)
(***************************************************************************)

(* A wrapper main is about to offer is a new one. *)
LEMMA WrapperIsFresh ==
  ASSUME PoolInv, pc[Main] = "idle", NEW k \in Items, k = Made + 1
  PROVE  k \notin Issued
<1> USE PoolConstants
<1>1. /\ Len(added) = Made /\ Len(added) \in Nat /\ Len(taken) <= Len(added)
      /\ Len(taken) \in Nat /\ DOMAIN added = 1 .. Len(added)
      /\ \A n \in 1 .. Len(added) : added[n] = n
  BY PoolTypes DEF PoolInv, MainInv, BeforePut
<1>2. \A n \in DOMAIN added : added[n] # k
  BY <1>1
<1>3. \A w \in Workers : task[w] # NULL => task[w] \in 1 .. Len(taken)
  BY DEF PoolInv, HoldInv
<1>4. \A w \in Workers : task[w] # k
  BY <1>1, <1>3
<1>5. task[Main] # k
  BY DEF PoolInv, MainInv
<1>. QED
  BY <1>2, <1>4, <1>5 DEF Issued

(* Until it is freed, the queue of the pool makes the steps that queue.c   *)
(* makes with any clients: all that is proved of ChunkedQueue holds of it. *)
LEMMA PoolStepIsQueueStep ==
  ASSUME PoolInv, [PoolNext]_all_vars, main_pc' # "done"
  PROVE  [Next]_vars
<1> USE PoolConstants
<1>1. Main \in Producers /\ \A w \in Workers : w \in Consumers
  BY PoolAssumption
<1>2. ASSUME MainStep PROVE [Next]_vars
  <2>1. CASE UNCHANGED vars
    BY <2>1
  <2>2. CASE /\ main_pc = "enqueue" /\ i < task_count /\ pc[Main] = "idle"
             /\ AddCall(Main, i + 1)
    <3>1. i + 1 \in Items /\ i + 1 = Made + 1
      BY <2>2 DEF PoolInv, ControlInv, Made
    <3>2. i + 1 \notin Issued
      BY <2>2, <3>1, WrapperIsFresh
    <3>. QED
      BY <1>1, <2>2, <3>1, <3>2 DEF Next
  <2>3. CASE /\ main_pc = "stop" /\ i < thread_count /\ pc[Main] = "idle"
             /\ AddCall(Main, task_count + i + 1)
    <3>1. i \in Nat
      BY DEF PoolInv, ControlInv
    <3>2. Made = task_count + i
      BY <2>3 DEF Made
    <3>3. task_count + i + 1 \in Items /\ task_count + i + 1 = Made + 1
      BY <2>3, <3>1, <3>2
    <3>4. task_count + i + 1 \notin Issued
      BY <2>3, <3>3, WrapperIsFresh
    <3>. QED
      BY <1>1, <2>3, <3>3, <3>4 DEF Next
  <2>. QED
    BY <1>2, <2>1, <2>2, <2>3
    DEF MainStep, MainSpawn, MainEnqueue, MainStop, MainJoin, MainCheck,
        MainFree, Turn, Leave
<1>3. ASSUME NEW w \in Workers, WorkerStep(w) PROVE [Next]_vars
  <2>1. \/ UNCHANGED vars \/ GetCall(w) \/ RegisterCompletion(w)
    BY <1>3 DEF WorkerStep, WorkerGet, WorkerRun, WorkerRan, WorkerRegister,
                WorkerKilled, WorkerExit
  <2>. QED
    BY <1>1, <2>1 DEF Next
<1>4. ASSUME NEW t \in Threads, InQueue(t) \/ Spurious(t) PROVE [Next]_vars
  BY <1>4 DEF InQueue, Spurious, Next
<1>. QED
  BY <1>2, <1>3, <1>4 DEF PoolNext, Terminated, all_vars

(* No wake-up is lost in the pool (queue.c:115, 151). *)
WakeInv == main_pc # "done" => ReadersCovered /\ WritersCovered

LEMMA WakeInvHolds == PoolSpec => []WakeInv
<1>1. PoolInit => WakeInv
  BY DEF PoolInit, Init, WakeInv, ReadersCovered, WritersCovered, At
<1>2. PoolInv /\ WakeInv /\ [PoolNext]_all_vars => WakeInv'
  <2>. SUFFICES ASSUME PoolInv, WakeInv, [PoolNext]_all_vars, main_pc' # "done"
                PROVE  ReadersCovered' /\ WritersCovered'
    BY DEF WakeInv
  <2>1. main_pc # "done"
    BY DoneIsOver DEF all_vars, pool_vars
  <2>2. QInv /\ ReadersCovered /\ WritersCovered
    BY <2>1 DEF PoolInv, QueueInv, WakeInv
  <2>. QED
    BY <2>2, PoolStepIsQueueStep, StepReadersCovered, StepWritersCovered
<1>. QED
  BY <1>1, <1>2, PoolInvHolds, PTL DEF PoolSpec

(* The thread sleeps on a condition or waits for the mutex that somebody   *)
(* holds.                                                                  *)
Waits(t) ==
  \/ pc[t] \in {"get_sleep", "add_sleep"}
  \/ /\ pc[t] \in {"get_lock", "get_woken", "add_lock", "add_woken"}
     /\ rw_mutex # NULL

(* Main waits in pthread_join for a worker that has not ended.             *)
Joining == main_pc = "join" /\ i < thread_count /\ ~Gone(i + 1)

(* Everybody waits for somebody else, or is no more.                       *)
EverybodyWaits ==
  /\ \A w \in Workers : Gone(w) \/ Waits(w)
  /\ Waits(Main) \/ Joining

AllAsleep ==
  /\ \A w \in Workers : Gone(w) \/ pc[w] = "get_sleep"
  /\ pc[Main] = "add_sleep" \/ Joining

(* Who holds the mutex waits for nobody, so all who wait are asleep.       *)
LEMMA WaitersSleep ==
  ASSUME PoolInv, EverybodyWaits
  PROVE  AllAsleep
<1> USE PoolConstants
<1>1. main_pc # "done" /\ pc[Main] \in AddPC \cup {"idle"}
  BY DEF EverybodyWaits, Waits, Joining, PoolInv, MainInv, AddPC
<1>2. \A w \in Workers : pc[w] \in GetPC \cup {"idle"}
  BY DEF PoolInv, WorkerInv
<1>3. QInv
  BY <1>1 DEF PoolInv, QueueInv
<1>4. \A t \in Threads : pc[t] \notin HoldingPC
  <2>1. \A w \in Workers : Gone(w) => pc[w] = "idle"
    BY DEF Gone, PoolInv, WorkerInv
  <2>2. Joining => pc[Main] = "idle"
    BY DEF Joining, PoolInv, MainInv
  <2>. QED
    BY <2>1, <2>2 DEF EverybodyWaits, Waits, HoldingPC
<1>5. rw_mutex = NULL
  <2>1. rw_mutex \in Threads \cup {NULL}
    BY <1>3 DEF QInv, TypeOK
  <2>2. \A t \in Threads : rw_mutex # t
    BY <1>3, <1>4 DEF QInv, MutexInv
  <2>. QED
    BY <2>1, <2>2
<1>. QED
  BY <1>1, <1>2, <1>5 DEF EverybodyWaits, Waits, AllAsleep, GetPC, AddPC

LEMMA OnlyTheGoneWait ==
  ASSUME PoolInv, WakeInv, AllAsleep
  PROVE  pc[Main] = "add_sleep" /\ Missing /\ \A w \in Workers : Gone(w)
<1> USE PoolConstants
<1>1. main_pc # "done" /\ (pc[Main] = "add_sleep" \/ pc[Main] = "idle")
      /\ Len(taken) \in Nat /\ Len(added) \in Nat
      /\ Len(taken) <= Len(added)
  <2>1. main_pc = "join" => pc[Main] = "idle"
    BY DEF PoolInv, MainInv
  <2>2. pc[Main] = "add_sleep" => main_pc \in {"enqueue", "stop"}
    BY DEF PoolInv, MainInv, AddPC
  <2>. QED
    BY <2>1, <2>2, PoolTypes DEF AllAsleep, Joining
<1>2. \A t \in Threads : pc[t] \in {"idle", "get_sleep", "add_sleep"}
  BY <1>1 DEF AllAsleep, Joining, Gone, PoolInv, WorkerInv
<1>3. ForReaders = {} /\ ForWriters = {}
  BY <1>2 DEF ForReaders, ForWriters, At
<1>4. ASSUME NEW w \in Workers, ~Gone(w) PROVE Len(taken) = Len(added)
  <2>1. At({"get_sleep"}) # {}
    BY <1>4 DEF AllAsleep, Joining, At
  <2>2. Pending <= Cardinality(ForReaders)
    BY <1>1, <2>1 DEF WakeInv, ReadersCovered, ForReaders
  <2>3. Pending <= 0
    BY <1>3, <2>2, FS_EmptySet
  <2>. QED
    BY <1>1, <2>3 DEF Pending
<1>5. ASSUME Len(taken) = task_count + thread_count
      PROVE  \A w \in Workers : worker_pc[w] \notin {"missing", "unborn"} /\
                                pc[w] # "get_sleep"
  <2>1. Cardinality(Killed) = thread_count
    BY <1>5 DEF PoolInv, KillInv
  <2>2. Killed = Workers
    BY <2>1, WorkerSets DEF Killed
  <2>3. ASSUME NEW w \in Workers, worker_pc[w] = "loop", task[w] # NULL
        PROVE  pc[w] # "get_sleep"
    <3>1. QInv
      BY <1>1 DEF PoolInv, QueueInv
    <3>. QED
      BY <2>3, <3>1 DEF QInv, HandInv, GetPC
  <2>. QED
    BY <2>2, <2>3 DEF Killed, PoolInv, WorkerInv
<1>6. main_pc # "join" \/ ~(i < thread_count /\ ~Gone(i + 1))
  <2>. SUFFICES ASSUME main_pc = "join", i < thread_count, ~Gone(i + 1)
                PROVE  FALSE
    OBVIOUS
  <2>1. i + 1 \in Workers
    BY DEF PoolInv, ControlInv, Workers
  <2>2. Len(taken) = Len(added)
    BY <1>4, <2>1
  <2>3. Len(added) = task_count + thread_count
    BY DEF PoolInv, MainInv, Made, AddPC, BeforePut
  <2>. QED
    BY <1>5, <2>1, <2>2, <2>3 DEF AllAsleep, Joining
<1>7. pc[Main] = "add_sleep"
  BY <1>6 DEF AllAsleep, Joining
<1>8. Len(taken) < Len(added)
  <2>1. At({"add_sleep"}) # {}
    BY <1>7 DEF At
  <2>2. Pending > 0
    BY <1>1, <1>3, <2>1 DEF WakeInv, WritersCovered, ForWriters
  <2>. QED
    BY <1>1, <2>2 DEF Pending
<1>9. \A w \in Workers : Gone(w)
  BY <1>1, <1>4, <1>8
<1>10. ASSUME ~Missing PROVE FALSE
  <2>1. Killed = Workers
    BY <1>9, <1>10 DEF Gone, Missing, Killed
  <2>2. Len(taken) = task_count + thread_count
    BY <1>1, <2>1, WorkersCount DEF PoolInv, KillInv
  <2>3. Len(added) <= task_count + thread_count
    <3>1. Len(added) \in 1 .. Len(added)
      BY <1>1, <1>8
    <3>2. Len(added) \in Items
      BY <3>1, PoolTypes
    <3>. QED
      BY <3>2
  <2>. QED
    BY <1>1, <1>8, <2>2, <2>3
<1>. QED
  BY <1>7, <1>9, <1>10

(* The pool never comes to a standstill: with all its workers started main *)
(* and the workers never all wait for each other, whatever the sizes of    *)
(* the queue (queue.c:92, 135, worker_pool.c:114).  With some missing, main *)
(* can be left waiting for room in the queue once the others have gone.    *)
OnlyForTheMissing ==
  EverybodyWaits =>
    pc[Main] = "add_sleep" /\ Missing /\ \A w \in Workers : Gone(w)

(* The state formula above holds throughout (worker_pool.c:103-117). *)
THEOREM NoStandstill == PoolSpec => []OnlyForTheMissing
<1>1. PoolInv /\ WakeInv => OnlyForTheMissing
  BY WaitersSleep, OnlyTheGoneWait DEF OnlyForTheMissing
<1>. QED
  BY <1>1, PoolInvHolds, WakeInvHolds, PTL
=============================================================================
