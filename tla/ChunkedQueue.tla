---------------------------- MODULE ChunkedQueue ----------------------------
(***************************************************************************)
(* The thread-safe task queue of task2/matrix_mul/queue.c.                 *)
(*                                                                         *)
(* The queue is a linked list of chunks.  A chunk is an array of           *)
(* ChunkSize slots with a write index `filled' and a read index `next'.    *)
(* QUEUE_add writes at the back and links a new chunk when the back one is *)
(* full; QUEUE_get reads at the front and frees a chunk once all its slots *)
(* are read.  Every access is under rw_mutex; two condition variables      *)
(* block readers of an empty queue and writers of a full one.              *)
(*                                                                         *)
(* A call is a short program of a thread: pc[t] says where thread t is in  *)
(* it ("idle" when it is in none).  A chunk is named by its rank in the    *)
(* order of allocation and stays in `chunk' after it is freed, so that a   *)
(* use of a freed chunk is visible.                                        *)
(***************************************************************************)
EXTENDS Integers, Sequences, FiniteSets

CONSTANTS
  Producers,      \* the threads that call QUEUE_add
  Consumers,      \* the threads that call QUEUE_get
  Items,          \* the task pointers: each is one malloc, added at most once
  ChunkSize,      \* _QUEUE_CHUNK_SIZE
  MaxLiveChunks,  \* _QUEUE_MAX_LIVE_CHUNKS
  NULL            \* no task, no thread

Threads == Producers \cup Consumers

ASSUME QueueAssumption ==
  /\ IsFiniteSet(Threads)
  /\ ChunkSize \in Nat \ {0}
  /\ MaxLiveChunks \in Nat \ {0}
  /\ NULL \notin Items \cup Threads

VARIABLES
  chunk,             \* every chunk ever allocated, in order of allocation
  front, back,       \* queue->front, queue->back
  live_chunk_count,
  dispatched,
  rw_mutex,          \* the thread that holds rw_mutex, or NULL
  pc,                \* where each thread is inside the queue's functions
  task,              \* the task pointer each thread has in hand, or NULL
  added, taken       \* history: the tasks in the order they entered and left

vars == <<chunk, front, back, live_chunk_count, dispatched, rw_mutex, pc,
          task, added, taken>>
list == <<chunk, front, back, live_chunk_count>>

NoChunk == 0         \* the NULL chunk pointer
Slots == 0 .. ChunkSize - 1

GetPC == {"get_lock", "get_test", "get_sleep", "get_woken", "get_signal",
          "get_count"}
AddPC == {"add_lock", "add_test", "add_sleep", "add_woken", "add_signal"}
HoldingPC == {"get_test", "get_signal", "add_test", "add_signal"}
At(labels) == {t \in Threads : pc[t] \in labels}

Chunk == [tasks : [Slots -> Items \cup {NULL}], filled : 0 .. ChunkSize,
          next : 0 .. ChunkSize, next_chunk : Nat, freed : BOOLEAN]

(* QUEUE_create_chunk: the slots are malloc'ed and not written. *)
NewChunk == [tasks |-> [s \in Slots |-> NULL], filled |-> 0, next |-> 0,
             next_chunk |-> NoChunk, freed |-> FALSE]

(* The chunks on the list that starts at c: a chunk is only ever linked to *)
(* the one allocated right after it.                                       *)
Chain(heap, c) ==
  {i \in DOMAIN heap :
     i >= c /\ \A k \in c .. i - 1 : heap[k].next_chunk = k + 1}

(* QUEUE_free_chunk: frees c and, recursively, the chunks linked after it. *)
FreeChunk(heap, c) ==
  [i \in DOMAIN heap |->
     IF i \in Chain(heap, c) THEN [heap[i] EXCEPT !.freed = TRUE] ELSE heap[i]]

(* Mutant: line 91 with > for >=, a read one past the write index. *)
EmptyOffByOne == chunk[front].next > chunk[front].filled
Empty == chunk[front].next >= chunk[front].filled
(* Mutant: line 133 with > for >=, one chunk over the limit. *)
FullOffByOne ==
  chunk[back].filled >= ChunkSize /\ live_chunk_count > MaxLiveChunks
Full == chunk[back].filled >= ChunkSize /\ live_chunk_count >= MaxLiveChunks
-----------------------------------------------------------------------------
(* QUEUE_create *)
Init ==
  /\ chunk = <<NewChunk>>
  /\ front = 1 /\ back = 1
  /\ live_chunk_count = 1
  /\ dispatched = 0
  /\ rw_mutex = NULL
  /\ pc = [t \in Threads |-> "idle"]
  /\ task = [t \in Threads |-> NULL]
  /\ added = <<>> /\ taken = <<>>

(* pthread_mutex_lock(&queue->rw_mutex), or the same lock taken again when *)
(* pthread_cond_wait returns.                                              *)
Lock(t, from, to) ==
  /\ pc[t] \in from
  /\ rw_mutex = NULL
  /\ rw_mutex' = t
  /\ pc' = [pc EXCEPT ![t] = to]
  /\ UNCHANGED <<list, dispatched, task, added, taken>>

(* pthread_cond_wait: releases the mutex and falls asleep in one step. *)
CondWait(t, sleep) ==
  /\ rw_mutex' = NULL
  /\ pc' = [pc EXCEPT ![t] = sleep]
  /\ UNCHANGED <<list, dispatched, task, added, taken>>

(* pthread_cond_signal then pthread_mutex_unlock: one of the threads that  *)
(* sleep at `sleep' is woken, if there is one; t goes on to `to'.          *)
SignalAndUnlock(t, to, sleep, woken) ==
  /\ rw_mutex' = NULL
  /\ \/ /\ At({sleep}) = {}
        /\ pc' = [pc EXCEPT ![t] = to]
     \/ \E s \in At({sleep}) : pc' = [pc EXCEPT ![t] = to, ![s] = woken]
-----------------------------------------------------------------------------
(* QUEUE_get *)
GetCall(t) ==
  /\ pc[t] = "idle" /\ task[t] = NULL
  /\ pc' = [pc EXCEPT ![t] = "get_lock"]
  /\ UNCHANGED <<list, dispatched, rw_mutex, task, added, taken>>

GetLock(t) == Lock(t, {"get_lock", "get_woken"}, "get_test")

GetWait(t) ==
  /\ pc[t] = "get_test"
  /\ Empty
  /\ CondWait(t, "get_sleep")

(* Mutant: the NULL test of line 102 forgotten. *)
RetireFrontUnreplaced ==
  /\ chunk' = FreeChunk([chunk EXCEPT ![front].next = @ + 1,
                                     ![front].next_chunk = NoChunk], front)
  /\ front' = chunk[front].next_chunk
  /\ live_chunk_count' = live_chunk_count - 1
  /\ UNCHANGED back

(* Mutant: the link not cut before the chunk is freed (line 100). *)
RetireFrontUncut ==
  LET succ == chunk[front].next_chunk
      rest == FreeChunk([chunk EXCEPT ![front].next = @ + 1], front)
  IN  \/ /\ succ = NoChunk
         /\ chunk' = Append(rest, NewChunk)
         /\ front' = Len(chunk) + 1
         /\ back' = front'
         /\ UNCHANGED live_chunk_count
      \/ /\ succ # NoChunk
         /\ chunk' = rest
         /\ front' = succ
         /\ live_chunk_count' = live_chunk_count - 1
         /\ UNCHANGED back

(* The front chunk is used up: it leaves the list and is freed.  When it   *)
(* was the only one a new chunk takes its place and the count stays.       *)
RetireFront ==
  LET succ == chunk[front].next_chunk
      rest == FreeChunk([chunk EXCEPT ![front].next = @ + 1,
                                      ![front].next_chunk = NoChunk], front)
  IN  \/ /\ succ = NoChunk
         /\ chunk' = Append(rest, NewChunk)
         /\ front' = Len(chunk) + 1
         /\ back' = front'
         /\ UNCHANGED live_chunk_count
      \/ /\ succ # NoChunk
         /\ chunk' = rest
         /\ front' = succ
         /\ live_chunk_count' = live_chunk_count - 1
         /\ UNCHANGED back

GetTake(t) ==
  /\ pc[t] = "get_test"
  /\ ~Empty
  /\ LET got == chunk[front].tasks[chunk[front].next]
     IN  /\ task' = [task EXCEPT ![t] = got]
         /\ taken' = Append(taken, got)
  /\ IF chunk[front].next + 1 >= ChunkSize
     THEN RetireFront
     ELSE /\ chunk' = [chunk EXCEPT ![front].next = @ + 1]
          /\ UNCHANGED <<front, back, live_chunk_count>>
  /\ pc' = [pc EXCEPT ![t] = "get_signal"]
  /\ UNCHANGED <<dispatched, rw_mutex, added>>

(* Mutant: line 115 signals only when the queue was full before the task   *)
(* was taken: of two writers asleep one is never woken.                    *)
GetSignalIfWasFull(t) ==
  LET before == IF chunk[front].next = 0 THEN live_chunk_count + 1
                ELSE live_chunk_count
  IN  /\ pc[t] = "get_signal"
      /\ IF chunk[back].filled >= ChunkSize /\ before >= MaxLiveChunks
         THEN SignalAndUnlock(t, "get_count", "add_sleep", "add_woken")
         ELSE rw_mutex' = NULL /\ pc' = [pc EXCEPT ![t] = "get_count"]
      /\ UNCHANGED <<list, dispatched, task, added, taken>>

(* Mutant: line 115 signals the other condition. *)
GetSignalSwapped(t) ==
  /\ pc[t] = "get_signal"
  /\ SignalAndUnlock(t, "get_count", "get_sleep", "get_woken")
  /\ UNCHANGED <<list, dispatched, task, added, taken>>

GetSignal(t) ==
  /\ pc[t] = "get_signal"
  /\ SignalAndUnlock(t, "get_count", "add_sleep", "add_woken")
  /\ UNCHANGED <<list, dispatched, task, added, taken>>

GetCount(t) ==
  /\ pc[t] = "get_count"
  /\ dispatched' = dispatched + 1
  /\ pc' = [pc EXCEPT ![t] = "idle"]
  /\ UNCHANGED <<list, rw_mutex, task, added, taken>>

(* QUEUE_register_completion, called once by whoever got a task. *)
RegisterCompletion(t) ==
  /\ pc[t] = "idle" /\ task[t] # NULL
  /\ dispatched' = dispatched - 1
  /\ task' = [task EXCEPT ![t] = NULL]
  /\ UNCHANGED <<list, rw_mutex, pc, added, taken>>
-----------------------------------------------------------------------------
(* QUEUE_add *)
AddCall(t, x) ==
  /\ pc[t] = "idle" /\ task[t] = NULL
  /\ task' = [task EXCEPT ![t] = x]
  /\ pc' = [pc EXCEPT ![t] = "add_lock"]
  /\ UNCHANGED <<list, dispatched, rw_mutex, added, taken>>

AddLock(t) == Lock(t, {"add_lock", "add_woken"}, "add_test")

AddWait(t) ==
  /\ pc[t] = "add_test"
  /\ Full
  /\ CondWait(t, "add_sleep")

(* The back chunk is full: a new one that holds x is linked after it. *)
PutInNewChunk(x) ==
  /\ chunk[back].filled >= ChunkSize
  /\ chunk' = Append([chunk EXCEPT ![back].next_chunk = Len(chunk) + 1],
                     [NewChunk EXCEPT !.tasks[0] = x, !.filled = 1])
  /\ back' = Len(chunk) + 1
  /\ live_chunk_count' = live_chunk_count + 1

PutInBack(x) ==
  /\ chunk[back].filled < ChunkSize
  /\ chunk' = [chunk EXCEPT ![back].tasks[chunk[back].filled] = x,
                            ![back].filled = @ + 1]
  /\ UNCHANGED <<back, live_chunk_count>>

AddPut(t) ==
  /\ pc[t] = "add_test"
  /\ ~Full
  /\ PutInNewChunk(task[t]) \/ PutInBack(task[t])
  /\ added' = Append(added, task[t])
  /\ pc' = [pc EXCEPT ![t] = "add_signal"]
  /\ UNCHANGED <<front, dispatched, rw_mutex, task, taken>>

(* Mutant: line 151 signals only when the queue was empty before. *)
AddSignalIfWasEmpty(t) ==
  /\ pc[t] = "add_signal"
  /\ IF Len(added) - Len(taken) = 1
     THEN SignalAndUnlock(t, "idle", "get_sleep", "get_woken")
     ELSE rw_mutex' = NULL /\ pc' = [pc EXCEPT ![t] = "idle"]
  /\ task' = [task EXCEPT ![t] = NULL]
  /\ UNCHANGED <<list, dispatched, added, taken>>

AddSignal(t) ==
  /\ pc[t] = "add_signal"
  /\ SignalAndUnlock(t, "idle", "get_sleep", "get_woken")
  /\ task' = [task EXCEPT ![t] = NULL]
  /\ UNCHANGED <<list, dispatched, added, taken>>
-----------------------------------------------------------------------------
(* pthread_cond_wait may return though nobody signalled. *)
SpuriousWakeup(t) ==
  /\ \/ pc[t] = "get_sleep" /\ pc' = [pc EXCEPT ![t] = "get_woken"]
     \/ pc[t] = "add_sleep" /\ pc' = [pc EXCEPT ![t] = "add_woken"]
  /\ UNCHANGED <<list, dispatched, rw_mutex, task, added, taken>>

(* What thread t does inside a call, once it has made it. *)
GetStep(t) ==
  GetLock(t) \/ GetWait(t) \/ GetTake(t) \/ GetSignal(t) \/ GetCount(t)
AddStep(t) == AddLock(t) \/ AddWait(t) \/ AddPut(t) \/ AddSignal(t)
QueueStep(t) == GetStep(t) \/ AddStep(t)

Issued == {added[i] : i \in DOMAIN added} \cup {task[t] : t \in Threads}

(* The clients of a queue used on its own: producers add fresh tasks in    *)
(* any order, consumers get a task, finish it and come back for more.      *)
Next ==
  \/ \E t \in Threads : QueueStep(t) \/ SpuriousWakeup(t)
  \/ \E t \in Consumers : GetCall(t) \/ RegisterCompletion(t)
  \/ \E t \in Producers, x \in Items \ Issued : AddCall(t, x)

Spec == Init /\ [][Next]_vars

(* Every thread is scheduled, and a consumer always comes back. *)
Fairness ==
  /\ \A t \in Threads : WF_vars(QueueStep(t))
  /\ \A t \in Consumers : WF_vars(GetCall(t) \/ RegisterCompletion(t))

FairSpec == Spec /\ Fairness
-----------------------------------------------------------------------------
(* Properties *)

Pending == Len(added) - Len(taken)
Live == {i \in DOMAIN chunk : ~chunk[i].freed}

(* Every variable of the queue stays in its type. *)
TypeOK ==
  /\ chunk \in Seq(Chunk)
  /\ front \in 1 .. Len(chunk) /\ back \in 1 .. Len(chunk)
  /\ live_chunk_count \in Nat
  /\ dispatched \in Int
  /\ rw_mutex \in Threads \cup {NULL}
  /\ pc \in [Threads -> GetPC \cup AddPC \cup {"idle"}]
  /\ task \in [Threads -> Items \cup {NULL}]
  /\ added \in Seq(Items) /\ taken \in Seq(Items)

(* The list that starts at queue->front ends at queue->back and is exactly *)
(* what is allocated: no chunk is leaked, none is used after it is freed.  *)
(* live_chunk_count counts it and stays in its limit, which is what the    *)
(* writers' wait (queue.c:133) and the check at exit (parallel.c:91) need. *)
ListExact ==
  /\ Live = Chain(chunk, front)
  /\ back \in Live /\ chunk[back].next_chunk = NoChunk
  /\ live_chunk_count = Cardinality(Live)
  /\ live_chunk_count <= MaxLiveChunks

(* Whatever the threads interleave, tasks leave the queue in the order     *)
(* they entered it, none lost and none handed out twice.                   *)
Fifo ==
  /\ Len(taken) <= Len(added)
  /\ taken = SubSeq(added, 1, Len(taken))

(* No wake-up of a reader is lost: while a consumer sleeps, each task in   *)
(* the queue has a consumer or a signal of its own on the way to it, so    *)
(* one signal per task added (queue.c:151) is enough even when a consumer  *)
(* that never slept takes the task first.                                  *)
ReadersCovered ==
  At({"get_sleep"}) # {} =>
    Pending <= Cardinality(At({"get_woken", "get_test", "add_signal"}))

(* No wake-up of a writer is lost for good: while a producer sleeps, the   *)
(* queue holds a task, whose consumer will signal (queue.c:115), or a      *)
(* signal is on its way.  With ReadersCovered it excludes the state in     *)
(* which readers and writers all sleep.                                    *)
WritersCovered ==
  At({"add_sleep"}) # {} =>
    Pending > 0 \/ At({"add_woken", "add_test", "get_signal"}) # {}

(* Every task offered to the queue eventually enters it and is handed to a *)
(* consumer, even when the queue is full at first and producers compete    *)
(* for the room, as long as the waits stop returning without a signal from *)
(* some moment on.  As tasks are finitely many and stay taken, it is the   *)
(* same to say that again and again all that was offered has been taken.   *)
AllTaken == Issued \ {NULL} \subseteq {taken[i] : i \in DOMAIN taken}

EventuallyTaken ==
  <>[][\A t \in Threads : ~SpuriousWakeup(t)]_vars => []<>AllTaken

(* QUEUE_add (queue.c:126) "blocks until the queue is not full": a producer *)
(* that still sleeps, and that nobody is about to wake, sleeps because the  *)
(* queue is full.                                                           *)
SleepingWriterMeansFull ==
  At({"add_sleep"}) # {} =>
    Full \/ At({"add_woken", "add_test", "get_signal"}) # {}
=============================================================================
