----------------------------- MODULE WorkerPool -----------------------------
(***************************************************************************)
(* The worker pool of task2/matrix_mul/worker_pool.c, driven by the main   *)
(* function of task2/matrix_mul/parallel.c: it spawns the workers, enqueues *)
(* its tasks, asks the workers to stop, joins them, checks the queue and    *)
(* frees everything.                                                       *)
(*                                                                         *)
(* Main is the queue's only producer and the workers are its consumers.    *)
(* The wrappers main allocates are numbered in order: 1 .. task_count are  *)
(* WP_EXEC, the thread_count that follow are WP_KILL.                      *)
(***************************************************************************)
EXTENDS ChunkedQueue

CONSTANTS
  Main, thread_count, task_count,
  ThreadsMayFail      \* whether pthread_create can fail

Workers == 1 .. thread_count
ExecTasks == 1 .. task_count
KillTasks == task_count + 1 .. task_count + thread_count

ASSUME PoolAssumption ==
  /\ thread_count \in Nat \ {0}
  /\ task_count \in Nat
  /\ Main \notin Workers
  /\ Producers = {Main}
  /\ Consumers = Workers
  /\ Items = ExecTasks \cup KillTasks
  /\ ThreadsMayFail \in BOOLEAN

VARIABLES
  main_pc,      \* the phase main is in
  i,            \* its loop counter in that phase
  worker_pc,    \* where each worker is in _WP_run_helper_function
  executed,     \* history: how many times func was run on each task
  freed         \* the wrappers that were freed

pool_vars == <<main_pc, i, worker_pc, executed, freed>>
all_vars == <<vars, pool_vars>>

PoolInit ==
  /\ Init
  /\ main_pc = "spawn"
  /\ i = 0
  /\ worker_pc = [w \in Workers |-> "unborn"]
  /\ executed = [k \in ExecTasks |-> 0]
  /\ freed = {}
-----------------------------------------------------------------------------
(* The worker: _WP_run_helper_function *)

WorkerGet(w) ==
  /\ worker_pc[w] = "loop"
  /\ GetCall(w)
  /\ UNCHANGED pool_vars

Returned(w) == worker_pc[w] = "loop" /\ pc[w] = "idle" /\ task[w] # NULL

(* Mutant: the wrapper freed before func is called on its task. *)
WorkerRunFreed(w) ==
  /\ Returned(w)
  /\ task[w] \in ExecTasks
  /\ freed' = freed \cup {task[w]}
  /\ worker_pc' = [worker_pc EXCEPT ![w] = "func"]
  /\ UNCHANGED <<vars, main_pc, i, executed>>

(* WP_EXEC: func(tw->task) is called, *)
WorkerRun(w) ==
  /\ Returned(w)
  /\ task[w] \in ExecTasks
  /\ worker_pc' = [worker_pc EXCEPT ![w] = "func"]
  /\ UNCHANGED <<vars, main_pc, i, executed, freed>>

(* returns, and the task and its wrapper are freed. *)
WorkerRan(w) ==
  /\ worker_pc[w] = "func"
  /\ executed' = [executed EXCEPT ![task[w]] = @ + 1]
  /\ freed' = freed \cup {task[w]}
  /\ worker_pc' = [worker_pc EXCEPT ![w] = "register"]
  /\ UNCHANGED <<vars, main_pc, i>>

WorkerRegister(w) ==
  /\ worker_pc[w] = "register"
  /\ RegisterCompletion(w)
  /\ worker_pc' = [worker_pc EXCEPT ![w] = "loop"]
  /\ UNCHANGED <<main_pc, i, executed, freed>>

(* WP_KILL: the wrapper is freed, *)
WorkerKilled(w) ==
  /\ Returned(w)
  /\ task[w] \in KillTasks
  /\ freed' = freed \cup {task[w]}
  /\ worker_pc' = [worker_pc EXCEPT ![w] = "dying"]
  /\ UNCHANGED <<vars, main_pc, i, executed>>

(* Mutant: the WP_KILL not registered as completed (line 18). *)
WorkerExitUnregistered(w) ==
  /\ worker_pc[w] = "dying"
  /\ task' = [task EXCEPT ![w] = NULL]
  /\ worker_pc' = [worker_pc EXCEPT ![w] = "exited"]
  /\ UNCHANGED <<list, dispatched, rw_mutex, pc, added, taken, main_pc, i,
                 executed, freed>>

(* its completion registered, and the thread returns. *)
WorkerExit(w) ==
  /\ worker_pc[w] = "dying"
  /\ RegisterCompletion(w)
  /\ worker_pc' = [worker_pc EXCEPT ![w] = "exited"]
  /\ UNCHANGED <<main_pc, i, executed, freed>>
-----------------------------------------------------------------------------
(* Main *)

(* A phase that is a loop of n turns: one turn, or on to the next phase.   *)
Turn(phase, n) == main_pc = phase /\ i < n /\ i' = i + 1 /\ UNCHANGED main_pc
Leave(phase, n, next) ==
  /\ main_pc = phase /\ i = n
  /\ main_pc' = next /\ i' = 0
  /\ UNCHANGED <<vars, worker_pc, executed, freed>>

(* WP_create: one pthread_create per worker, whose result nobody looks at. *)
MainSpawn ==
  \/ /\ Turn("spawn", thread_count)
     /\ \/ worker_pc' = [worker_pc EXCEPT ![i + 1] = "loop"]
        \/ /\ ThreadsMayFail
           /\ worker_pc' = [worker_pc EXCEPT ![i + 1] = "missing"]
     /\ UNCHANGED <<vars, executed, freed>>
  \/ Leave("spawn", thread_count, "enqueue")

(* Mutant: the last task not enqueued. *)
MainEnqueueOneLess ==
  /\ pc[Main] = "idle"
  /\ \/ /\ Turn("enqueue", task_count - 1)
        /\ AddCall(Main, i + 1)
        /\ UNCHANGED <<worker_pc, executed, freed>>
     \/ Leave("enqueue", task_count - 1, "stop")

(* WP_enqueue_task, called for every chunk of every multiplication: the    *)
(* turn is over when QUEUE_add has returned.                               *)
MainEnqueue ==
  /\ pc[Main] = "idle"
  /\ \/ /\ Turn("enqueue", task_count)
        /\ AddCall(Main, i + 1)
        /\ UNCHANGED <<worker_pc, executed, freed>>
     \/ Leave("enqueue", task_count, "stop")

(* Mutant: one WP_KILL too few. *)
MainStopOneLess ==
  /\ pc[Main] = "idle"
  /\ \/ /\ Turn("stop", thread_count - 1)
        /\ AddCall(Main, task_count + i + 1)
        /\ UNCHANGED <<worker_pc, executed, freed>>
     \/ Leave("stop", thread_count - 1, "join")

(* WP_request_stop: as many WP_KILL wrappers as there are workers. *)
MainStop ==
  /\ pc[Main] = "idle"
  /\ \/ /\ Turn("stop", thread_count)
        /\ AddCall(Main, task_count + i + 1)
        /\ UNCHANGED <<worker_pc, executed, freed>>
     \/ Leave("stop", thread_count, "join")

(* Mutant: the last worker not joined. *)
MainJoinOneLess ==
  \/ /\ Turn("join", thread_count - 1)
     /\ worker_pc[i + 1] \in {"exited", "missing"}
     /\ UNCHANGED <<vars, worker_pc, executed, freed>>
  \/ Leave("join", thread_count - 1, "check")

(* WP_join: pthread_join blocks until that worker has returned.  For one   *)
(* that was never started the identifier was never written: the call       *)
(* returns an error, or main crashes or blocks for ever.                   *)
MainJoin ==
  \/ /\ Turn("join", thread_count)
     /\ worker_pc[i + 1] \in {"exited", "missing"}
     /\ UNCHANGED <<vars, worker_pc, executed, freed>>
  \/ /\ main_pc = "join" /\ i < thread_count
     /\ worker_pc[i + 1] = "missing"
     /\ main_pc' = "lost"
     /\ UNCHANGED <<vars, i, worker_pc, executed, freed>>
  \/ Leave("join", thread_count, "check")

(* The three sanity checks of parallel.c; exit(1) when one fails. *)
QueueDrained ==
  /\ dispatched = 0
  /\ live_chunk_count = 1
  /\ chunk[back].filled = chunk[back].next

MainCheck ==
  /\ main_pc = "check"
  /\ main_pc' = IF QueueDrained THEN "free" ELSE "exit1"
  /\ UNCHANGED <<vars, i, worker_pc, executed, freed>>

(* WP_free: QUEUE_free frees the chunks, then the rest goes. *)
MainFree ==
  /\ main_pc = "free"
  /\ chunk' = FreeChunk(chunk, front)
  /\ main_pc' = "done"
  /\ UNCHANGED <<front, back, live_chunk_count, dispatched, rw_mutex, pc, task,
                 added, taken, i, worker_pc, executed, freed>>
-----------------------------------------------------------------------------
MainStep ==
  MainSpawn \/ MainEnqueue \/ MainStop \/ MainJoin \/ MainCheck \/ MainFree

WorkerStep(w) ==
  \/ WorkerGet(w) \/ WorkerRun(w) \/ WorkerRan(w) \/ WorkerRegister(w)
  \/ WorkerKilled(w) \/ WorkerExit(w)

(* A thread inside QUEUE_get or QUEUE_add. *)
InQueue(t) == QueueStep(t) /\ UNCHANGED pool_vars
Spurious(t) == SpuriousWakeup(t) /\ UNCHANGED pool_vars

(* main has returned, or exited, or is lost: it makes no more steps. *)
Terminated == main_pc \in {"done", "exit1", "lost"} /\ UNCHANGED all_vars

PoolNext ==
  \/ MainStep
  \/ \E w \in Workers : WorkerStep(w)
  \/ \E t \in Threads : InQueue(t) \/ Spurious(t)
  \/ Terminated

PoolSpec == PoolInit /\ [][PoolNext]_all_vars

(* The operating system runs every thread that can run. *)
PoolFairness ==
  /\ WF_all_vars(MainStep \/ InQueue(Main))
  /\ \A w \in Workers : WF_all_vars(WorkerStep(w) \/ InQueue(w))

PoolFairSpec == PoolSpec /\ PoolFairness
-----------------------------------------------------------------------------
(* Properties *)

Missing == \E w \in Workers : worker_pc[w] = "missing"
Nobody == \A w \in Workers : worker_pc[w] = "missing"

(* The pool's variables stay in their types, and so do the queue's. *)
PoolTypeOK ==
  /\ TypeOK
  /\ main_pc \in {"spawn", "enqueue", "stop", "join", "check", "free", "done",
                 "exit1", "lost"}
  /\ i \in 0 .. task_count + thread_count
  /\ worker_pc \in [Workers -> {"unborn", "missing", "loop", "func",
                               "register", "dying", "exited"}]
  /\ executed \in [ExecTasks -> Nat]
  /\ freed \subseteq Items

(* The sanity checks main makes after the join (parallel.c:87-98) fail     *)
(* exactly when some worker was not started (worker_pool.c:64): with all   *)
(* of them the queue is drained, all its chunks but one are freed and      *)
(* every completion is registered, whoever took which WP_KILL; with one    *)
(* missing its WP_KILL is found, and main never reports a success.         *)
ChecksExact ==
  /\ main_pc = "exit1" => Missing
  /\ main_pc \in {"free", "done"} => ~Missing

(* No task is run twice, and when WP_join returns all of them have run, if *)
(* there is anybody to run them, so that the products main prints          *)
(* (parallel.c:74) are complete.                                           *)
RunOnce ==
  /\ \A k \in ExecTasks : executed[k] <= 1
  /\ (main_pc \in {"check", "free", "done"} /\ ~Nobody) =>
       \A k \in ExecTasks : executed[k] = 1

(* A worker is killed (worker_pool.c:15) only once every task has been     *)
(* taken by some worker: no WP_KILL overtakes a task in the queue.         *)
KillsLast ==
  (\E w \in Workers : worker_pc[w] \in {"dying", "exited"}) =>
    \A k \in ExecTasks : \E n \in DOMAIN taken : taken[n] = k

(* A wrapper is freed once, by the worker that took it, after its last     *)
(* use, and all of them are freed before the pool is.                      *)
WrapperLifetime ==
  /\ \A n \in Len(taken) + 1 .. Len(added) : added[n] \notin freed
  /\ \A w \in Workers :
       worker_pc[w] \in {"loop", "func"} => task[w] \notin freed
  /\ main_pc \in {"check", "free", "done"} /\ ~Missing => freed = Items

(* With main as the only writer a sleeping QUEUE_add means a full queue,   *)
(* or a wake-up that is on its way: the pool never stalls its producer     *)
(* with room to spare.                                                     *)
MainSleepsOnlyWhenFull == SleepingWriterMeansFull

(* WP_request_stop and WP_join do end: main reaches its return, or with a  *)
(* worker missing its failure, as long as anybody was started, the queue   *)
(* has room for the WP_KILLs that nobody is there to take (queue.h: it has *)
(* a million slots), and the waits stop returning without a signal from    *)
(* some moment on.                                                         *)
Termination ==
  <>[][\A t \in Threads : ~SpuriousWakeup(t)]_all_vars =>
    <>(\/ main_pc = "done"
       \/ Missing /\ main_pc \in {"exit1", "lost"}
       \/ Nobody)

(* The pool implements its abstract specification: a task starts when a    *)
(* worker takes it off the queue and is done when func has returned.       *)
Listed(k, seq) == \E n \in DOMAIN seq : seq[n] = k

TaskStatus ==
  [k \in ExecTasks |->
     IF executed[k] > 0 THEN "done"
     ELSE IF Listed(k, taken) THEN "running"
     ELSE IF Listed(k, added) THEN "queued"
     ELSE "new"]
Joined == main_pc \in {"check", "free", "done", "exit1"} /\ ~Nobody

Pool == INSTANCE TaskPool WITH
  Tasks <- ExecTasks, Workers <- thread_count,
  status <- TaskStatus, joined <- Joined

ImplementsTaskPool == Pool!Spec
=============================================================================
