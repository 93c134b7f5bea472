# A verification project for PC-Project-2024-MTR

The repository is a set of small concurrent C and C++ programs: a parallel
matrix multiplication with its own task queue and worker pool
(`src/task2/matrix_mul`), a threaded server that streams songs
(`src/task3`), a chat server and client (`src/hw`), a container
(`src/task1`) and a demonstration of a lost update
(`src/task2/race_condition_moment.c`).  This directory holds TLA+
specifications translated from that code, TLC configurations that check them on
small instances, and TLAPS proofs for every instance.

    tlc -workers 4 -config MCQueue.cfg MCChunkedQueue.tla
    tlapm ChunkedQueueProofs.tla

`PROJECT.json` lists the components, the runs, for every definition the lines of
source it stands for, the hazards of the code and the properties aimed at them.

## 1. The system

| component | state | operations | who shares it with whom |
|---|---|---|---|
| task queue (`queue.c`) | linked list of chunks, each with a write index `filled` and a read index `next`; `live_chunk_count`, `dispatched`; `rw_mutex` and two conditions | `QUEUE_create`, `QUEUE_add`, `QUEUE_get`, `QUEUE_register_completion`, `QUEUE_free` | any number of producers and consumers, under `rw_mutex` |
| worker pool (`worker_pool.c`) | the queue, the thread identifiers | `WP_create`, `WP_enqueue_task`, `WP_request_stop`, `WP_join`, `WP_free`; the workers' loop | main is the queue's producer, the workers its consumers; a `WP_KILL` wrapper per worker travels through the same queue |
| parallel multiplication (`parallel.c`) | operand and product arrays, one `MultiplicationTask` per chunk of a product | `request_multiplication`, `sub_multiplication_handler`, `main` | the handlers write the product arrays without a lock |
| sequential multiplication (`sequential.c`) | the same arrays | `multiply`, `main` | nothing: it is the reference the parallel program is compared with |
| matrix helpers, options (`matrix.c`, `common.c`, `options.c`) | none of their own | `MATRIX_idx`, `MATRIX_create`, ... | called by both programs |
| song server (`task3/server.c`) | `stop`, `server_socket`, `live_handlers_count` under a mutex with a condition, a thread per connection | accept loop, `inthand` (SIGINT), `handle_client`, `close_client` | main, its signal handler and the handlers; TCP to the clients |
| song client (`task3/client.c`) | one socket | ask for a song, play the stream | the server |
| chat server (`hw/server.cpp`) | `users`, `live_users`, `running`, a mutex and a condition, a thread per client | accept loop, login with a timeout, broadcast, commands, shutdown | accept thread, client threads and main |
| chat client (`hw/client.cpp`) | one socket, `chat_active` | sender loop, receiver thread | the chat server |
| Tank (`task1`) | a resizable array: `data`, `filled`, `max_capacity` | constructor, `push_back`, `pop_back`, `at`, `resize`, `free_array`, destructor, `accumulate` on a copy | nobody: sequential |
| race demonstration (`race_condition_moment.c`) | one counter and its mutex | increments by two threads under a mutex | the two threads |
| trial programs, scripts, data | - | - | - |

What is hard in it, and what makes each part correct:

* **Task queue.** A chunk is retired, unlinked and freed by one thread while
  others add at the back, which may be the same chunk.  Two conditions share one
  mutex and every operation wakes *one* thread of the other side, so a signal too
  few, or one taken by the wrong thread, can leave everybody asleep.  Correct
  means: tasks leave in the order they entered, exactly once; the list is exactly
  what is allocated; no wake-up is lost; every offered task is taken.
* **Worker pool.** Termination is a message in the same FIFO queue as the work.
  Correct means: every task is run exactly once and before any worker is killed;
  join returns; the three sanity checks `parallel.c` makes on the unlocked queue
  always pass; wrappers are freed once and not used afterwards.
* **Multiplication.** Lock-free sharing of the product arrays is sound only if
  the tasks partition the cells.  Correct means: no two running handlers are at
  one cell; the result is that of the sequential program.
* **Song server.** The admission count is tested and raised in two separate
  critical sections; clients vanish at any moment; Ctrl+C arrives at any moment.
  Correct means: the limit holds; main's wake-up is not lost; connections are
  served; the server survives its clients and stops when asked.
* **Chat server.** `users` is shared without a lock; a client refused for its
  name is closed and then handled anyway; the accept loop's condition is notified
  without its mutex; shutdown iterates over a map the handlers modify; descriptors
  are reused.  Correct means: the limit holds, the count of users is exact, a
  thread uses only its own client's socket, the map names who is on line and
  nobody who is deleted, the accept loop is never left asleep, a silent client is
  kicked, and Ctrl+C ends the server.
* **Race demonstration.** An increment is a load and a store.  Correct means: none
  is lost, and the number main reads without the mutex is the final one.
* **Tank.** Correct means: it behaves as an array without capacities, its block is
  as large as it believes and freed once, and the capacity follows the size
  without moving the array at every call.

## 2. Modules

| module | models | built on |
|---|---|---|
| `BoundedFifo` | the promise of `queue.h`: a blocking bounded FIFO queue | |
| `ChunkedQueue` | `queue.c`, statement by statement between blocking points | |
| `ChunkedQueueRefinement` | the mapping from `ChunkedQueue` to `BoundedFifo` | both |
| `ChunkedQueueProofs`, `ChunkedQueueTheorems` | theorems about `ChunkedQueue`: its inductive invariant; chunks, wake-ups and the refinement | TLAPS |
| `TaskPool` | the promise of `worker_pool.h` | |
| `WorkerPool`, `WorkerPoolProofs` | `worker_pool.c` driven by the `main` of `parallel.c`, and theorems about it | extends `ChunkedQueue` (the proofs `ChunkedQueueTheorems`); refines `TaskPool`; TLAPS |
| `ParallelMultiply`, `ParallelMultiplyProofs` | `request_multiplication`, `sub_multiplication_handler`, the two `main`s, and theorems about them | uses `TaskPool` as its pool; TLAPS |
| `StreamServer`, `StreamServerProofs` | `task3/server.c` with `client.c` as its environment, and theorems about it | TLAPS |
| `ChatServer`, `ChatServerProofs` | `hw/server.cpp` with `hw/client.cpp` as its environment, and theorems about it | TLAPS |
| `RaceCounter`, `RaceCounterProofs` | `race_condition_moment.c`, and theorems about it | TLAPS |
| `GrowableArray` | the promise of `Tank.h` | |
| `Tank`, `TankProofs` | `Tank.cpp` on a small heap, and theorems about it | refines `GrowableArray`; TLAPS |
| `MC*` | values for the constants | |

### The queue

`pc[t]` is the place of thread `t` in `QUEUE_get` or `QUEUE_add`: waiting for
the mutex (`*_lock`), at the test of the loop (`*_test`), asleep on the condition
(`*_sleep`), woken and waiting for the mutex again (`*_woken`), about to signal
and unlock (`*_signal`), about to raise `dispatched` (`get_count`).  Between
`lock` and `unlock` nothing another thread can see happens but at these places,
so what lies between two of them is one action.  `pthread_cond_wait` releases the
mutex and sleeps in one step, as POSIX requires; `pthread_cond_signal` wakes any
one sleeper; `SpuriousWakeup` lets a wait return for nothing at any time.
`dispatched` is an atomic integer changed outside the mutex and has a step of
its own.

A chunk is named by its rank in allocation order and stays in `chunk`, marked
`freed`, so that a leak, a use after free or an address mixed up is a state that
can be told apart.  `FreeChunk` frees recursively along `next_chunk` as the code
does, which is why the link must be cut first.  `added` and `taken` are history.
The calls are made by `GetCall` and `AddCall`; in `Next` producers offer fresh
tasks in any order and consumers complete what they take.

### The pool

`WorkerPool` composes the queue's actions with main and the workers.  Main's loops
(`pthread_create`, enqueue, kill wrappers, join) advance by one turn a step; a
turn that calls `QUEUE_add` is over when main is out of it.  Wrappers are numbered
in the order main makes them, so `ExecTasks` are followed by `KillTasks`.
`QueueDrained` is the conjunction of the checks at `parallel.c:87-98` and leads to
`exit1` when false.  `MainFree` is `QUEUE_free`.  Any `pthread_create` may fail:
its worker is `missing`, nobody looks at the result, and joining it reads an
identifier that was never written, which returns an error or leaves main `lost`
(crashed or blocked).

### The multiplication

The pool is `TaskPool`, which `WorkerPool` is shown to implement.  A handler
clears a cell, adds one term a step and moves on to the next cell, all
interleaved with the other handlers; `local` holds its `idx`, `row`, `col` and
the inner loop's counter.  Products start with `Garbage`, as `malloc` leaves
them.  Entries are integers, as in the code (`long long int`); that a product may
overflow is left out.  The reference, `multiply`, is `sequential.c`: its inner loop
is the recursive function of `ScalarProduct`.

### The song server

`main_pc` is main's place from `socket()` to `return`; the critical sections on
`live_handlers_count_mutex` are single steps as nothing in them blocks but the
wait.  `link` is what the server's side of a connection knows of the client:
`up`, `fin` (the client closed), `epipe` (it answered data with a reset, the
next send raises SIGPIPE), `reset` (sends fail).  The song is `to_send` chunks and
`Window` of them fit the socket buffers.  A client connects, may be slow, may be
killed at any moment, or may never answer its prompt.  SIGINT runs `inthand`
between any two steps of main.  Main frees the song paths without waiting for the
handlers; one that opens its song after that finds the path still there or takes
the process down (`HandlerUseFreed`).

### The chat server

`handler[c]` is the place of the thread of connection `c` in `handle_client`:
`welcome`, `name`, then `check`, `insert` and `online` (the three statements of
`register_client`), the broadcasts `joined`, `text` and `left`, `wait` and `list`
in the loop, `unregister` and `erase` (the two statements of `unregister_client`),
and `close`, `notify` (the parts of `close_`) at the end; `refused` and
`refused_notify` are the `close_` at line 290.  Each read and each write of the
map or of a client that another thread may see is a step.  `main_pc` is main's:
the predicate (`pred`), the wait (`falling`, `asleep`), `accept`, `start` (the
increment), `counted` (the test of `running`, then `std::thread`, which may throw
and end the process) and `closing` (the shutdown loop).  That main tests `running`
in the head of the loop, in the predicate and after it is one step: nothing
between the three depends on it but where main leaves.  So is its own `close_`, in
the shutdown loop and before it: nobody reads the count or waits any more.  The
shutdown loop reads an entry (`main_visiting`) and closes the client it found in
two steps, between which that client's thread may delete it.

`refused` and `replaced` are history: the clients whose name was taken, and the
names under which one client's entry was written over another's, because two
threads had both found the name free.

Sockets are descriptor numbers: `sock[c]` is what the `Client` holds, `owner[f]`
whose connection the number stands for now, and `accept` takes the lowest free
one, so a descriptor used after it was closed reaches the client accepted since.
`link` is as in the song server.  `inbox` holds the one string that `recv` would
return; a user types the next message once the last is read, since several
received at once are one other text to the server.  A client whose connection is
closed stops (`ClientStops`), and one may be killed at any moment.  An empty line
typed for a name sends nothing, so the server hears a silent client until the
next line.

The races on `std::map` are undefined behaviour.  The model lets the operations of
two threads take effect in any order and, in every state in which one thread
writes the map while another uses it, or a broadcast or the shutdown loop holds a
client that was deleted after it was read, lets the process die (`Crash`).  A
process that goes on with a corrupted map is left out.  `broadcast` walks the map by key, one entry a step, so that an entry
inserted or erased under it is met or missed as its key says.

### The race demonstration

`pc[t]` is a thread's place in its loop: `test`, `lock`, `load`, `store`, `unlock`.
`counter++` is the two steps `load` and `store`; without the lock another thread's
store can fall between them.  The store wraps at `INT_MAX`, and the properties are
stated for numbers an `int` holds.

### The Tank

`live` are the blocks `malloc` and `realloc` have handed out, `slots` their
contents.  `realloc` always moves, so a pointer kept across it would be seen; with
no bytes it frees.  A failed `assert` ends the run (`aborted`), a touch of freed
memory makes it `undefined`.  Calls come in any order, those of an illegal index or
on an empty array included.  `accumulate` takes its parameter by value, so it has
the same `data`, and its destructor frees them.  `asked`, `resized` and `copied`
are history.

## 3. Runs

| run | question | instance | states |
|---|---|---|---|
| `queue` | types, exact list, FIFO, no lost wake-up; implements `BoundedFifo`; every offered task is taken | 2 producers, 2 consumers, 6 tasks, chunks of 2, at most 2 chunks | 322 411 |
| `worker_pool` | sanity checks exact, run once, kills last, wrapper lifetime, termination, implements `TaskPool` | 3 workers, any of which may be missing, 4 tasks, chunks of 2, at most 2 | 260 586 |
| `parallel_multiply` | disjoint writes, row and column counting, exact products | order 2, 2 operations, chunks of 3 cells, 2 workers | 27 104 |
| `stream_safety` | admission limit, main not stranded | 3 clients, limit 2, songs of up to 2 chunks, one Ctrl+C, `pthread_create` may fail | 2 185 808 (with symmetry) |
| `stream_liveness` | connections served, handlers end, Ctrl+C ends the loop | 2 clients, limit 1, songs of up to 1 chunk, one Ctrl+C | 62 190 |
| `stream_interrupt` | *violated*: every Ctrl+C stops the server | as above | |
| `chat_safety` | limit, exact count, own sockets, exact registry, no dangling entry | 3 clients, limit 2, the second may take the first's name; one message, empty line, killed client or Ctrl+C | 1 855 546 |
| `chat_liveness` | silent clients are kicked, Ctrl+C ends the server | 2 clients of one name, limit 2, two events | 163 179 |
| `chat_same_name` | *violated*: the limit | 4 clients, limit 2, two of one name | |
| `chat_sleeping_acceptor` | *violated*: main sleeps only when full | 2 clients, limit 1 | |
| `race_counter` | no deadlock, no increment lost, the final count | -1, 0, 3 or 4 increments, `INT_MAX` 7 | 1 643 |
| `tank` | types, exact heap, defined unless copied, half used, no thrashing, implements `GrowableArray` | up to 5 elements of 2 values, capacities 0, 3, 4, indices -1, 0, 2, 5 | 396 788 |

**Why the bounds are enough.** In the queue, six tasks on chunks of two with two
live chunks pass through every regime: a full list of four tasks with both writers
asleep, who offer the other two and compete for the room, a front chunk retired
with a successor and without one, both readers asleep.  Five would not do: a get
that signals a writer only when the queue was full breaks `EventuallyTaken` with six
tasks and not with five.
`MCChunkedQueue` offers the tasks in the order of their numbers, which loses
nothing: any other choice of fresh tasks only renames them.  A task stolen from a
woken consumer while two others sleep needs three consumers, which `worker_pool`
has (`Termination` fails if a wake-up is lost there); the safety properties are
proved for every instance anyway.  In the pool, four tasks and three kills overflow the capacity of
four, so main sleeps in the enqueue loop and in the stop loop; any set of workers
may be missing.  In the
multiplication, chunks of 3 in a matrix of 4 cells give a chunk that crosses a row
end, a short last chunk that starts in the middle of a row, and two operations in
flight.  In the server, three clients against a limit of two fill the server and
leave one waiting; the bounds on chunks and on Ctrl+C keep the runs finite.  In the
chat server too, three clients against a limit of two fill the server, keep one
waiting for the place and the descriptor of another, and make two threads meet at
the map; logins and waits may time out at any moment, so clients leave on every
way even with the one event (`MaxEvents`) the run affords.  Two events, say a
message while a client is killed, are out of it.  Clients connect in the order of
their numbers, which is how they are named, and `SomeNames` makes the map's order
another one.  The liveness run has room for both its clients, so that whatever
delays one is not the wait for a place, two events, so that a user may type an empty
line and then another, and one name, so that the two clash once both have given it.  In `race_counter` four increments by each
thread pass `INT_MAX`, three do not.  In `tank`, five elements and the capacities
0, 3 and 4 pass through the growths 0 to 1, 1 to 2, 2 to 4, 3 to 6 and 4 to 8 and
the shrinkings back, odd capacities included.

**Symmetry** is used in `stream_safety` only, over the clients, which the
specification does not compare.

**Deadlock** is checked in `worker_pool`, `parallel_multiply` and `race_counter`,
which stutter explicitly when main has returned.  The other models stop when the environment
has nothing more to do (all tasks taken and the consumers asleep, all clients gone
and main in `accept`), so there the absence of a deadlock is stated by
`ReadersCovered`, `WritersCovered`, `EventuallyTaken`, `MainNotStranded` and
`Served` instead.  In the chat server it is what `chat_sleeping_acceptor` is about.
A Tank stops when it is destroyed or its program aborted.

**Fairness.** Weak fairness of each thread's next step: the operating system runs
a thread that can run.  A thread waiting for a mutex is given weak fairness only, so it
may lose the race for ever if others keep taking the mutex; the finite number of
tasks is what makes the liveness properties hold without strong fairness.
`SpuriousWakeup` has none, and the liveness properties of the queue and the pool
assume that from some moment on no wait returns for nothing: POSIX allows such
returns, and an execution made of nothing else proves nothing about this code.
Users are fair in `FairSpec` of the server (they answer the prompt, let the song
play or kill the client): a handler blocks in `recv` and `send` for as long
as they like, there is no timeout in the code.  That leaves out an input that ends
at the prompt and a buffer that happens to hold nothing (`client.c:75` ignores what
`fgets` returns): such a client waits for a song it never asked for.  In the chat server nothing is asked
of the users: only main and the clients' threads are fair, and the timeout does the
rest.  A step that a thread may take because its wait timed out is fair as part
of that thread: the wait ends some day, with a message or without.

### Where the code and its comments disagree

* `stream_interrupt`.  "We exit the while loop when Ctrl+C" (`server.c:162`),
  but `stop = 0` at line 116 comes after the handler was installed at line 77: a
  Ctrl+C in between closes the socket and is forgotten, and `accept` fails for
  ever.
* `chat_same_name`.  The header promises a limit on concurrent clients
  (`hw/server.cpp:9`).  The refusal of a name at line 290 lacks the `return` of
  lines 281 and 285, so the client is closed and counted down a second time at
  line 322, and the server admits one client more than its limit.  The properties
  of `chat_safety` that this breaks hold under `NobodyRefused`: no client was refused
  so far.  Two clients of one name do not break them as long as both get in, one by
  one or at once.
* `chat_sleeping_acceptor`.  `wait_till_can_accept` "holds the thread until the
  server can accept more users or the server is closed" (`hw/server.cpp:180`), but
  `close_` (line 250) and `handle_sig` (line 192) change the predicate and notify
  without the mutex: between test and wait the notification is lost.

Seen while reading and not the subject of a run: `QUEUE_get` signals one writer per
*task* while room is made by the whole *chunk* (`queue.c:115`), so of several
producers one may stay asleep beside a queue with room until a later get
(`WritersCovered` shows it is not for good, `MainSleepsOnlyWhenFull` that
`parallel.c`, with one producer, is not affected).  The song client tells its user
to kill it to change the song (`client.c:76`), and `send` to a client that is gone
raises SIGPIPE, which ends the server and everybody's song: the error path at
`server.c:233` is not reached after a reset (the model has the step, main is
`killed`).  Ctrl+C at full load waits for a
handler, hence for a user (`server.c:120`; `StopsWhenAsked` needs the clients'
fairness); a `pthread_create` that fails leaves the count raised and the socket open for ever
(`server.c:159`; `MainNotStranded` counts those places); handlers may use
`song_paths` and main's frame after main freed them (`server.c:164`);
`server_socket` is closed twice; `worker_pool.c:64` ignores `pthread_create`
(`ChecksExact` shows that the checks notice, if main gets there: the `WP_KILL`s of
missing workers stay in the queue, and if it had no room for them main would sleep in `QUEUE_add`
for ever.  `NoStandstill` proves that this is the only way in which main and the workers
can all wait for each other.  The code has a million slots for sixteen of them, the run
four for three).  `accumulate` copies a Tank with its
pointer (`Tank.cpp:66`), so that the end of `test.cpp` frees its data twice, and
"less than half" (`Tank.h:43`) is half rounded down, so that a capacity of one may
stay with nothing in it.  In the chat server: two threads can both find a name free and
register it (line 128), after which the client whose entry was replaced hears no
broadcast, and the first of the two to leave takes the other off the list
(`RegistryExact` excepts such names); a login that times out never gets the message of line 284;
a client that gives no name is never deleted (281); the shutdown loop closes
clients whose threads close them again; and SIGPIPE kills this server as well.

**What the properties excuse.**  Where the code does go wrong the model has the
step, and the property that would fail says so in its hypothesis.  `HandlersEnd`
excuses a server killed by SIGPIPE, `StopsWhenAsked` and `Served` a client that
never answers.  `DefinedUnlessCopied` says nothing of a Tank passed to
`accumulate`, whose data are freed twice.  `AdmissionLimitUnlessRefused`,
`LiveUsersExact` and `SocketsOwned` except runs in which a client was refused for
its name, `RegistryExact` a name two threads found free at once.  `NoDanglingEntry`
speaks of what the map holds, not of a pointer read from it before its client was
deleted, in a broadcast (line 140) or in the shutdown loop (363): that is a `Crash`.

## 4. Proofs

Every invariant the runs check, the one action property and the three refinements
are proved for every value of the constants.  The assumptions are those the modules
name: `QueueAssumption` (finitely many threads, positive `ChunkSize` and
`MaxLiveChunks`, `NULL` not a thread or a task), `PoolAssumption`,
`MultiplyAssumption` and `OperandsAssumption`, `StreamAssumption`, `ChatAssumption`
(finitely many clients, a positive limit), `TankAssumption` and
`CounterAssumption`.  TLC evaluates them in the runs.

| module | theorem | says |
|---|---|---|
| `ChunkedQueueProofs` | `TypeCorrect` | `Spec => []TypeOK` |
| | `FifoOrder` | `Spec => []Fifo` |
| `ChunkedQueueTheorems` | `NoChunkLeaked` | `Spec => []ListExact` |
| | `NoReaderForgotten` | `Spec => []ReadersCovered` |
| | `NoWriterForgotten` | `Spec => []WritersCovered` |
| | `ReadersAndWritersNeverAllSleep` | `Spec => []SomebodyAwake` |
| | `QueueRefinesFifo` | `Spec => ImplementsFifo` |
| `WorkerPoolProofs` | `PoolTypeCorrect` | `PoolSpec => []PoolTypeOK` |
| | `TasksRunOnce` | `PoolSpec => []RunOnce` |
| | `TasksBeforeKills` | `PoolSpec => []KillsLast` |
| | `SanityChecksExact` | `PoolSpec => []ChecksExact` |
| | `WrappersFreedOnce` | `PoolSpec => []WrapperLifetime` |
| | `ProducerSleepsOnlyWhenFull` | `PoolSpec => []MainSleepsOnlyWhenFull` |
| | `PoolRefinesTaskPool` | `PoolSpec => ImplementsTaskPool` |
| | `NoStandstill` | `PoolSpec => []OnlyForTheMissing` |
| `ParallelMultiplyProofs` | `MultTypeCorrect` | `Spec => []MultTypeOK` |
| | `HandlersWriteApart` | `Spec => []NoSharedCell` |
| | `ParallelIsSequential` | `Spec => []ProductsExact` |
| `StreamServerProofs` | `StreamTypeCorrect` | `Spec => []StreamTypeOK` |
| | `ClientLimitHolds` | `Spec => []AtMostMax` |
| | `WakeupIsNotLost` | `Spec => []MainNotStranded` |
| `ChatServerProofs` | `ChatTypeCorrect` | `Spec => []ChatTypeOK` |
| | `CountIsExact` | `Spec => []LiveUsersExact` |
| | `AdmissionIsLimited` | `Spec => []AdmissionLimitUnlessRefused` |
| | `DescriptorsAreOwned` | `Spec => []SocketsOwned` |
| | `RegistryIsExact` | `Spec => []RegistryExact` |
| | `NobodyDangles` | `Spec => []NoDanglingEntry` |
| `RaceCounterProofs` | `NoIncrementLost` | `Spec => []NoneLost` |
| | `FinalCountCorrect` | `Spec => []FinalCount` |
| `TankProofs` | `TankTypeCorrect` | `Spec => []TankTypeOK` |
| | `NoBlockLeaked` | `Spec => []HeapExact` |
| | `OnlyCopiesMisbehave` | `Spec => []DefinedUnlessCopied` |
| | `HalfIsUsed` | `Spec => []HalfUsed` |
| | `GrowthAndShrinkingApart` | `Spec => NoThrashing` |
| | `TankRefinesArray` | `Spec => ImplementsArray` |

Each module has one inductive invariant, a conjunction of named parts, which TLC
checked on the instance of the run before it was proved; a lemma per action, or
per kind of action, shows that a step keeps it, and the theorems are read off it.

### The queue

`Fifo` is not inductive: that the next task handed out is the next one added
depends on where both are stored.  The inductive invariant is

    QInv == TypeOK /\ MutexInv /\ HandInv /\ ListInv /\ SlotsInv

* `MutexInv`: a thread is in a critical section iff it holds `rw_mutex`.
* `HandInv`: which threads have a task in hand, so that what is put in a slot, and
  what is taken from one, is a task.
* `ListInv`: the live chunks are those of rank `front` to `back`; all but the last
  are full, all but the first unread, and `front` is not read to its end.
* `SlotsInv`: slot `s` of chunk `i` holds the task added as number
  `First(i) + s + 1`, where `First(i)` counts the slots of the chunks before, and
  the read position counts the tasks taken.

`GetTakeKeepsList` has the three cases of a get (the chunk is not finished,
finished with a successor, finished without), `AddPutKeepsList` the two of an add.
`FreeOne` is where the cut of the link at `queue.c:100` matters: it shows the
recursive free frees one chunk.  `FirstSlot` holds the reasoning about products.

The wake-up properties are inductive relative to `QInv`, by one fact (lemma
`Tests`): the queue is empty exactly when no task is pending, and a full queue is
never empty.  So a reader goes to sleep only when nothing is pending and owes
nobody anything; a take removes one reader on the way and one task; a put adds one
of each; a signal puts a sleeper in the signaller's place.  A writer goes to sleep
only when a task is pending, and the reader that takes the last one is itself about
to signal.  `NoReaderForgotten` counts threads, and is where finiteness of
`Threads` is used.  Together they exclude the deadlock of two conditions on one
mutex: where a reader and a writer sleep, somebody is on the way who will wake one
(`ReadersAndWritersNeverAllSleep`).

The refinement: `SlotsHoldPending` says that the slots between the two indices,
chunk after chunk, are as many as the pending tasks and hold them in order.  So the
abstract queue, which is computed from chunks, is `added` without what was `taken`
(`ContentInv`), and no step but the two that change these histories moves it
(`ContentsUntouched`).  `AddPut` is the abstract put, and needs that fewer tasks are
pending than all chunks have slots (`RoomUnlessFull`); `GetTake` is the abstract
get; calls and completions are the abstract ones; the rest stutters.  `RoleInv`
says that only producers are in `QUEUE_add` and only consumers in `QUEUE_get`.

### The pool

    PoolInv == QueueInv /\ ControlInv /\ MainInv /\ WorkerInv /\ HoldInv /\ FreedInv
               /\ KillInv /\ CountInv /\ JoinInv /\ SleepInv

`QueueInv` is the queue's `QInv` until `WP_free`: main and the workers move the
queue's variables only by its functions, so the queue's lemmas carry over.
`MainInv` is the heart: main is the only producer, so the number a wrapper has is its
place in `added`, and hence in `taken`.  Then the kill wrappers come out last, and
`KillInv` counts the workers that took one.  `HoldInv` (no two workers hold one
wrapper) and `FreedInv` (what was taken and is not in use was freed, and run if it
was a task) give the lifetime and run-once.  `CountInv` says what `dispatched` is,
which is what the checks read.  If every worker started, all have ended after the join, as many
kills as workers were taken, hence every wrapper, and the checks pass; if one is
missing, at most the others' kills were taken, so a wrapper is left and the first check
fails (`JoinInv`).  `SleepInv` is about main alone, and false of a queue with two
writers.

The queue has no proof of its own here.  Until `WP_free` every step of the pool is
one of `ChunkedQueue`'s `Next` (`PoolStepIsQueueStep`; the one thing to show is that
a wrapper main offers is a new one, `WrapperIsFresh`), so the lemmas that say a step
keeps the readers and the writers covered carry over (`WakeInv`).  `NoStandstill`
puts the two halves together.  It says in which states everybody waits, for the mutex, on a
condition or in `pthread_join`, for somebody else (`EverybodyWaits`).  Who holds the
mutex waits for nobody, so all who wait are asleep (`WaitersSleep`), and nobody is on
the way to signal.  A worker asleep then means that nothing is pending, so main
is not in `QUEUE_add` but in the join, all kills have been taken, and the worker would
have taken one.  What is left, without a missing worker, is that all are gone and main
waits in `QUEUE_add`; but all the kills were taken, so main has nothing left to add.

### The multiplication

    MultInv == VarTypes /\ ProgressInv /\ OrderInv /\ CoverInv
               /\ PositionInv /\ ResultInv /\ JoinInv

`OrderInv` lays the tasks one behind the other and main behind all of them, so no two
share a cell; `CoverInv` says that they leave out none.  `PositionInv` keeps a
handler within its chunk and its row and column in step with its index, also across
the end of a row.  `ResultInv` says that a handler's cells so far are final and the
one it is at has the terms added so far; `OrderInv` is why no other handler disturbs
that.  `ProgressInv` bounds the number of tasks, by the only reasoning about
quotients.

What a recursive definition computes is usually out of the prover's reach, as the
induction theorems take an operator as their parameter.  `SumExists` needs it once,
to show that the sum of `sequential.c` exists, and does without: were there a length
without a sum, there would be a least one (`WFMin`, from the well-foundedness of `<`
on `Nat`), and the sum of one term less would extend to it.  `TermsAddUp` then gives
the equation of the loop.

### The song server

    StreamInv == StreamTypeOK /\ PlaceInv /\ CountInv

`PlaceInv` says that a connection is in one place at a time, in the backlog, in
main's hand or with a thread whose end of the socket is open until `close_client`.
`CountInv` says that the count is the number of connections raised and not yet
lowered, *and* that it has room for one from the test at line 119 to the increment
at line 152, which is why testing and raising in two critical sections does no harm:
only main raises it.  While main sleeps the count is at the limit, since the handler that
lowers it also wakes main, in the same critical section.

### The chat server

    ChatInv == VarTypes /\ PlaceInv /\ ThreadInv /\ RegistryInv /\ SocketInv /\ CountInv

`VarTypes` is `ChatTypeOK` without the parts that follow (the lower bound of
`live_users`, and that `accept` finds a descriptor).  `ThreadInv` says what each place in
`handle_client` knows of the client's name and state.  `RegistryInv` is about the
clients that are `Enrolled`, on line or between the two writes that enter a client
(lines 129 and 130) or take it out (135 and 136): whom the map names is enrolled and
goes by the key, always; and who is enrolled is the one the map names, unless the name
is in `replaced`.  An erasure under a name that was never written over thus takes out
the client that unregisters, and nobody else.  `SocketInv` says that a thread's
descriptor is its client's; while the server stops, main may have closed it, and
nothing is accepted that could take its number.  `SocketInv` and the exact count of
`CountInv` hold under `NobodyRefused`, which is as it must be: the run `chat_same_name`
is the counterexample without it.  Who was refused stays refused, so a step that ends with
nobody refused started so, and the hypothesis is as inductive as the rest.
`TypedInv`, inductive by itself, says that a name that was sent is not empty.

### The race demonstration and the Tank

`CounterInv` says, besides types, who holds the mutex at which place and that what
its holder has loaded is the counter still (`HeldInv`), what each place says of the
loop counter (`LoopInv`) and which threads have ended (`MainInv`); then the counter
is the sum of what both have stored (`CountInv`), also while one of them is in the
middle of it.

`TankInv` adds to `TankTypeOK` that no block but `data`'s is allocated and that it
has `max_capacity` slots (`HeapInv`), and where the size lies after a growth and
after a shrinking (`SizeInv`), which is why neither can follow the other.
`ReallocKeepsHeap` is the lemma on `realloc`, which needs a third block to move to.
For the refinement, `MovedKeeps` says that moving keeps the elements that fit, and
`SameElements` reduces the equality of sequences to that of their elements.

### Model-checked only

All liveness (`EventuallyTaken`, `Termination`, `Served`, `HandlersEnd`,
`StopsWhenAsked`, `SilentKicked`, `ShutdownEnds`): the prover does not do liveness
under fairness.  The absence of deadlock in `worker_pool`, `parallel_multiply` and
`race_counter` as TLC checks it speaks of `ENABLED`; of the pool `NoStandstill` proves
what it comes to, that in no state all wait, with the one exception it names.  That `ParallelMultiply` may take
`TaskPool` for `WorkerPool` rests on `PoolRefinesTaskPool` and on `func` touching
nothing of the pool; the composition itself is not a theorem.

## 5. Not modelled, and why

* Failures of `malloc`, which all end in `exit(1)`; the contents of the files;
  logging, timing, options and reading the song directory, which are sequential
  start-up code.
* The width of the sizes in `MATRIX_create`, of the products' entries and of the
  Tank's capacity.
* The order in which threads get a contended mutex or a signal: any of them may.
* Descriptor numbers in the song server, requests that arrive in pieces, and
  `recv` errors.
* In the chat server: what a corrupted map would do beyond killing the process, a
  thread blocked in `recv` on a descriptor another thread closes, failures of
  `accept` other than the shutdown.
* The two threads of the chat client.  They share `chat_active`, which is a plain
  `bool` polled without a lock (`client.cpp:59`), and are given the address of a
  parameter that is gone when they read it (`client.cpp:118`); what they do is up
  to the compiler, and a model of it would be a model of one build.
* `task3/trial` (one connection, one message each way), the Python scripts and the
  data files: nothing concurrent and no state.

## 6. Plan

Written so far, in this order: the queue and its abstract specification; the pool
on top of it; the multiplication on top of the abstract pool; the song server; the
queue's proofs; the chat server; missing workers in the pool; the chat server's
liveness; the race demonstration and the Tank with their proofs; the proofs about
the pool, the multiplication and the two servers; the three refinements; the pool's
freedom from deadlock.  To come:

1. That `ParallelMultiply` over `WorkerPool` is `ParallelMultiply` over `TaskPool`, as a
   theorem about a module that composes the two.
2. What is left of the chat server's invariants once a client was refused: which
   of `LiveUsersExact` and `SocketsOwned` still hold of the others.
