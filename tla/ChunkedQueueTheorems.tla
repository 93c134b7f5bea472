------------------------ MODULE ChunkedQueueTheorems ------------------------
(***************************************************************************)
(* Proofs that the queue leaks no chunk, loses no wake-up and implements   *)
(* the bounded FIFO queue, on top of its inductive invariant QInv.         *)
(***************************************************************************)
EXTENDS ChunkedQueueProofs, ChunkedQueueRefinement

Sleepers(l) == At({l})

(* The threads a sleeping reader may count on, and those a writer may.     *)
ForReaders == At({"get_woken", "get_test", "add_signal"})
ForWriters == At({"add_woken", "add_test", "get_signal"})
-----------------------------------------------------------------------------
(* Lemmas *)

LEMMA AtFinite ==
  ASSUME NEW f, NEW labels
  PROVE  /\ IsFiniteSet({t \in Threads : f[t] \in labels})
         /\ Cardinality({t \in Threads : f[t] \in labels}) \in Nat
<1>1. {t \in Threads : f[t] \in labels} \in SUBSET Threads
  OBVIOUS
<1>2. IsFiniteSet({t \in Threads : f[t] \in labels})
  BY <1>1, FS_Subset, QueueAssumption
<1>. QED
  BY <1>2, FS_CardinalityType

(* The tests of the two loops (queue.c:91 and 133), said of the number of  *)
(* tasks in the queue: it is empty exactly when that is zero, and a full   *)
(* queue always holds a task, so that readers and writers never both wait  *)
(* for good reason.                                                        *)
LEMMA Tests ==
  ASSUME QInv
  PROVE  /\ added \in Seq(Items) /\ taken \in Seq(Items)
         /\ Pending \in Nat
         /\ Empty => Pending = 0
         /\ Full => Pending > 0
<1> USE QueueAssumption
<1>1. /\ chunk \in Seq(Chunk) /\ front \in 1 .. Len(chunk)
      /\ back \in 1 .. Len(chunk) /\ front <= back
      /\ added \in Seq(Items) /\ taken \in Seq(Items)
  BY DEF QInv, TypeOK, ListInv
<1>2. chunk[front] \in Chunk /\ chunk[back] \in Chunk
  BY <1>1
<1>3. /\ chunk[front].next \in Nat /\ chunk[front].filled \in Nat
      /\ chunk[back].filled \in Nat
      /\ chunk[front].next <= chunk[front].filled
      /\ chunk[front].next < ChunkSize
      /\ front < back => chunk[front].filled = ChunkSize
  <2>1. /\ chunk[front].next \in Nat /\ chunk[front].filled \in Nat
        /\ chunk[back].filled \in Nat
    BY <1>2 DEF Chunk
  <2>2. /\ chunk[front].next <= chunk[front].filled
        /\ chunk[front].next < ChunkSize
        /\ front < back => chunk[front].filled = ChunkSize
    BY <1>1 DEF QInv, ListInv
  <2>. QED
    BY <2>1, <2>2
<1>4. /\ Len(added) = First(back) + chunk[back].filled
      /\ Len(taken) = First(front) + chunk[front].next
  BY DEF QInv, SlotsInv
<1>5. ~Empty => Pending > 0
  BY <1>1, HeadOfQueue DEF Pending
<1>6. ASSUME Empty PROVE Pending = 0
  <2>1. front = back
    BY <1>1, <1>3, <1>6 DEF Empty
  <2>2. chunk[front].next = chunk[back].filled
    BY <1>3, <1>6, <2>1 DEF Empty
  <2>3. Len(added) = Len(taken)
    BY <1>4, <2>1, <2>2
  <2>. QED
    BY <1>1, <2>3 DEF Pending
<1>7. Full => ~Empty
  BY <1>1, <1>3 DEF Full, Empty
<1>. QED
  BY <1>1, <1>5, <1>6, <1>7 DEF Pending

(* What the two steps inside the critical sections do to the count. *)
LEMMA PendingSteps ==
  ASSUME QInv, NEW t \in Threads
  PROVE  /\ GetTake(t) => Pending' = Pending - 1
         /\ AddPut(t) => Pending' = Pending + 1
<1>1. added \in Seq(Items) /\ taken \in Seq(Items)
  BY Tests
<1>2. ASSUME GetTake(t) PROVE Pending' = Pending - 1
  <2>. DEFINE got == chunk[front].tasks[chunk[front].next]
  <2>1. taken' = Append(taken, got) /\ added' = added /\ ~Empty
    BY <1>2 DEF GetTake
  <2>2. got \in Items
    BY <2>1, HeadOfQueue
  <2>. HIDE DEF got
  <2>3. Len(taken') = Len(taken) + 1
    BY <1>1, <2>1, <2>2
  <2>. QED
    BY <1>1, <2>1, <2>3 DEF Pending
<1>3. ASSUME AddPut(t) PROVE Pending' = Pending + 1
  <2>1. added' = Append(added, task[t]) /\ taken' = taken
    BY <1>3 DEF AddPut
  <2>2. task[t] \in Items
    BY <1>3 DEF AddPut, QInv, HandInv, AddPC
  <2>3. Len(added') = Len(added) + 1
    BY <1>1, <2>1, <2>2
  <2>. QED
    BY <1>1, <2>1, <2>3 DEF Pending
<1>. QED
  BY <1>2, <1>3

(* The steps that add no sleeper and take nobody from those on the way. *)
Harmless ==
  /\ Sleepers("get_sleep")' \subseteq Sleepers("get_sleep")
  /\ ForReaders \subseteq ForReaders'
  /\ UNCHANGED <<added, taken>>

LEMMA HarmlessSteps ==
  ASSUME QInv, NEW t \in Threads,
         \/ GetLock(t) \/ AddLock(t) \/ AddWait(t) \/ GetSignal(t)
         \/ GetCount(t) \/ GetCall(t) \/ RegisterCompletion(t)
         \/ SpuriousWakeup(t) \/ \E x \in Items : AddCall(t, x)
  PROVE  Harmless
<1>1. pc \in [Threads -> GetPC \cup AddPC \cup {"idle"}]
  BY DEF QInv, TypeOK
<1>2. CASE GetLock(t) \/ AddLock(t)
  BY <1>1, <1>2
  DEF GetLock, AddLock, Lock, Harmless, Sleepers, ForReaders, At
<1>3. CASE AddWait(t)
  BY <1>1, <1>3 DEF AddWait, CondWait, Harmless, Sleepers, ForReaders, At
<1>4. CASE GetSignal(t)
  <2>1. /\ pc[t] = "get_signal" /\ UNCHANGED <<added, taken>>
        /\ \/ pc' = [pc EXCEPT ![t] = "get_count"]
           \/ \E s \in Threads :
                /\ pc[s] = "add_sleep"
                /\ pc' = [pc EXCEPT ![t] = "get_count", ![s] = "add_woken"]
    BY <1>4 DEF GetSignal, SignalAndUnlock, At
  <2>2. \A u \in Threads :
          \/ pc'[u] = pc[u]
          \/ pc[u] = "get_signal" /\ pc'[u] = "get_count"
          \/ pc[u] = "add_sleep" /\ pc'[u] = "add_woken"
    BY <1>1, <2>1
  <2>. QED
    BY <2>1, <2>2 DEF Harmless, Sleepers, ForReaders, At
<1>5. CASE \/ GetCount(t) \/ GetCall(t) \/ RegisterCompletion(t)
           \/ SpuriousWakeup(t) \/ \E x \in Items : AddCall(t, x)
  BY <1>1, <1>5
  DEF GetCount, GetCall, RegisterCompletion, SpuriousWakeup, AddCall,
      Harmless, Sleepers, ForReaders, At
<1>. QED
  BY <1>2, <1>3, <1>4, <1>5
-----------------------------------------------------------------------------
(* No wake-up of a reader is lost *)

LEMMA HarmlessForReaders ==
  ASSUME QInv, ReadersCovered, Harmless
  PROVE  ReadersCovered'
<1>1. Pending' = Pending /\ Pending \in Nat
  BY Tests DEF Harmless, Pending
<1>2. /\ IsFiniteSet(ForReaders') /\ Cardinality(ForReaders') \in Nat
      /\ Cardinality(ForReaders) \in Nat
  BY AtFinite DEF ForReaders, At
<1>3. Cardinality(ForReaders) <= Cardinality(ForReaders')
  BY <1>2, FS_Subset DEF Harmless
<1>4. Sleepers("get_sleep")' # {} => Pending <= Cardinality(ForReaders)
  BY DEF ReadersCovered, Harmless, Sleepers, ForReaders
<1>5. Sleepers("get_sleep")' # {} => Pending' <= Cardinality(ForReaders')
  BY <1>1, <1>2, <1>3, <1>4
<1>. QED
  BY <1>5 DEF ReadersCovered, Sleepers, ForReaders

(* A reader that finds the queue empty and sleeps leaves none behind. *)
LEMMA GetWaitForReaders ==
  ASSUME QInv, NEW t \in Threads, GetWait(t)
  PROVE  ReadersCovered'
<1>1. Pending' = 0
  BY Tests DEF GetWait, CondWait, Pending
<1>2. Cardinality(ForReaders') \in Nat
  BY AtFinite DEF ForReaders, At
<1>. QED
  BY <1>1, <1>2 DEF ReadersCovered, ForReaders

(* A reader that takes a task is one fewer on the way to one task fewer. *)
LEMMA GetTakeForReaders ==
  ASSUME QInv, ReadersCovered, NEW t \in Threads, GetTake(t)
  PROVE  ReadersCovered'
<1>1. /\ pc \in [Threads -> GetPC \cup AddPC \cup {"idle"}]
      /\ pc[t] = "get_test" /\ pc' = [pc EXCEPT ![t] = "get_signal"]
  BY DEF GetTake, QInv, TypeOK
<1>2. /\ t \in ForReaders /\ ForReaders' = ForReaders \ {t}
      /\ Sleepers("get_sleep")' = Sleepers("get_sleep")
  BY <1>1 DEF ForReaders, Sleepers, At
<1>3. IsFiniteSet(ForReaders) /\ Cardinality(ForReaders) \in Nat
  BY AtFinite DEF ForReaders, At
<1>4. Cardinality(ForReaders') = Cardinality(ForReaders) - 1
  BY <1>2, <1>3, FS_RemoveElement
<1>5. Pending' = Pending - 1 /\ Pending \in Nat
  BY PendingSteps, Tests
<1>6. Sleepers("get_sleep")' # {} => Pending' <= Cardinality(ForReaders')
  BY <1>2, <1>3, <1>4, <1>5 DEF ReadersCovered, Sleepers, ForReaders
<1>. QED
  BY <1>6 DEF ReadersCovered, Sleepers, ForReaders

(* A writer that adds a task will signal for it. *)
LEMMA AddPutForReaders ==
  ASSUME QInv, ReadersCovered, NEW t \in Threads, AddPut(t)
  PROVE  ReadersCovered'
<1>1. /\ pc \in [Threads -> GetPC \cup AddPC \cup {"idle"}]
      /\ pc[t] = "add_test" /\ pc' = [pc EXCEPT ![t] = "add_signal"]
  BY DEF AddPut, QInv, TypeOK
<1>2. /\ t \notin ForReaders /\ ForReaders' = ForReaders \cup {t}
      /\ Sleepers("get_sleep")' = Sleepers("get_sleep")
  BY <1>1 DEF ForReaders, Sleepers, At
<1>3. IsFiniteSet(ForReaders) /\ Cardinality(ForReaders) \in Nat
  BY AtFinite DEF ForReaders, At
<1>4. Cardinality(ForReaders') = Cardinality(ForReaders) + 1
  BY <1>2, <1>3, FS_AddElement
<1>5. Pending' = Pending + 1 /\ Pending \in Nat
  BY PendingSteps, Tests
<1>6. Sleepers("get_sleep")' # {} => Pending' <= Cardinality(ForReaders')
  BY <1>2, <1>3, <1>4, <1>5 DEF ReadersCovered, Sleepers, ForReaders
<1>. QED
  BY <1>6 DEF ReadersCovered, Sleepers, ForReaders

(* Its signal puts a sleeper in its place, if there is one. *)
LEMMA AddSignalForReaders ==
  ASSUME QInv, ReadersCovered, NEW t \in Threads, AddSignal(t)
  PROVE  ReadersCovered'
<1>1. /\ pc \in [Threads -> GetPC \cup AddPC \cup {"idle"}]
      /\ pc[t] = "add_signal" /\ Pending' = Pending
  BY DEF AddSignal, QInv, TypeOK, Pending
<1>2. CASE /\ Sleepers("get_sleep") = {}
           /\ pc' = [pc EXCEPT ![t] = "idle"]
  <2>1. Sleepers("get_sleep")' = {}
    BY <1>1, <1>2 DEF Sleepers, At
  <2>. QED
    BY <2>1 DEF ReadersCovered, Sleepers
<1>3. CASE \E s \in Sleepers("get_sleep") :
             pc' = [pc EXCEPT ![t] = "idle", ![s] = "get_woken"]
  <2>1. PICK s \in Sleepers("get_sleep") :
          pc' = [pc EXCEPT ![t] = "idle", ![s] = "get_woken"]
    BY <1>3
  <2>2. s \in Threads /\ pc[s] = "get_sleep" /\ s # t
    BY <1>1, <2>1 DEF Sleepers, At
  <2>3. /\ pc'[t] = "idle" /\ pc'[s] = "get_woken"
        /\ \A u \in Threads \ {s, t} : pc'[u] = pc[u]
    BY <1>1, <2>1, <2>2
  <2>4. /\ ForReaders' = (ForReaders \ {t}) \cup {s}
        /\ t \in ForReaders /\ s \notin ForReaders
    BY <1>1, <2>2, <2>3 DEF ForReaders, At
  <2>5. IsFiniteSet(ForReaders) /\ Cardinality(ForReaders) \in Nat
    BY AtFinite DEF ForReaders, At
  <2>6. /\ IsFiniteSet(ForReaders \ {t})
        /\ Cardinality(ForReaders \ {t}) = Cardinality(ForReaders) - 1
    BY <2>4, <2>5, FS_RemoveElement
  <2>7. Cardinality(ForReaders') = Cardinality(ForReaders)
    <3>. DEFINE rest == ForReaders \ {t}
    <3>1. s \notin rest /\ ForReaders' = rest \cup {s} /\ IsFiniteSet(rest)
      BY <2>4, <2>6
    <3>2. Cardinality(rest) = Cardinality(ForReaders) - 1
      BY <2>6
    <3>. HIDE DEF rest
    <3>3. Cardinality(rest \cup {s}) = Cardinality(rest) + 1
      BY <3>1, FS_AddElement
    <3>. QED
      BY <2>5, <3>1, <3>2, <3>3
  <2>8. Pending <= Cardinality(ForReaders)
    BY <2>1 DEF ReadersCovered, Sleepers, ForReaders
  <2>9. Pending' <= Cardinality(ForReaders')
    BY <1>1, <2>7, <2>8
  <2>. QED
    BY <2>9 DEF ReadersCovered, ForReaders
<1>. QED
  BY <1>2, <1>3 DEF AddSignal, SignalAndUnlock, Sleepers

(* Every step is one of the five kinds above. *)
LEMMA StepKinds ==
  ASSUME QInv, [Next]_vars
  PROVE  \/ Harmless
         \/ \E t \in Threads :
              GetWait(t) \/ GetTake(t) \/ AddPut(t) \/ AddSignal(t)
<1>1. CASE UNCHANGED vars
  BY <1>1 DEF vars, Harmless, Sleepers, ForReaders, At
<1>2. ASSUME NEW t \in Threads, QueueStep(t) \/ SpuriousWakeup(t)
      PROVE  \/ Harmless
             \/ GetWait(t) \/ GetTake(t) \/ AddPut(t) \/ AddSignal(t)
  BY <1>2, HarmlessSteps DEF QueueStep, GetStep, AddStep
<1>3. ASSUME NEW t \in Consumers, GetCall(t) \/ RegisterCompletion(t)
      PROVE  Harmless
  BY <1>3, HarmlessSteps DEF Threads
<1>4. ASSUME NEW t \in Producers, NEW x \in Items \ Issued, AddCall(t, x)
      PROVE  Harmless
  BY <1>4, HarmlessSteps DEF Threads
<1>. QED
  BY <1>1, <1>2, <1>3, <1>4 DEF Next

LEMMA StepReadersCovered ==
  QInv /\ ReadersCovered /\ [Next]_vars => ReadersCovered'
  BY StepKinds, HarmlessForReaders, GetWaitForReaders, GetTakeForReaders,
     AddPutForReaders, AddSignalForReaders

(* While a consumer sleeps every task in the queue has a consumer, or a    *)
(* producer's signal, of its own on the way to it: one pthread_cond_signal *)
(* per task (queue.c:151) is enough, for any number of threads.            *)
THEOREM NoReaderForgotten == Spec => []ReadersCovered
<1>1. Init => ReadersCovered
  BY DEF Init, ReadersCovered, At
<1>. QED
  BY <1>1, StepReadersCovered, QInvHolds, PTL DEF Spec
-----------------------------------------------------------------------------
(* No wake-up of a writer is lost for good *)

LEMMA StepWritersCovered ==
  QInv /\ WritersCovered /\ [Next]_vars => WritersCovered'
<1> SUFFICES ASSUME QInv, WritersCovered, [Next]_vars
             PROVE  WritersCovered'
  OBVIOUS
<1>1. pc \in [Threads -> GetPC \cup AddPC \cup {"idle"}]
  BY DEF QInv, TypeOK
<1>2. /\ added \in Seq(Items) /\ taken \in Seq(Items)
      /\ Pending \in Nat
  BY Tests
<1>3. CASE UNCHANGED vars
  BY <1>3 DEF vars, WritersCovered, At, Pending
<1>4. ASSUME NEW t \in Threads, AddWait(t)
      PROVE  WritersCovered'
  <2>1. Pending' > 0
    BY <1>4, Tests DEF AddWait, CondWait, Pending
  <2>. QED
    BY <2>1 DEF WritersCovered
<1>5. ASSUME NEW t \in Threads, GetTake(t)
      PROVE  WritersCovered'
  <2>1. pc'[t] = "get_signal"
    BY <1>1, <1>5 DEF GetTake
  <2>. QED
    BY <2>1 DEF WritersCovered, At
<1>6. ASSUME NEW t \in Threads, AddPut(t)
      PROVE  WritersCovered'
  <2>1. Pending' = Pending + 1
    BY <1>6, PendingSteps
  <2>2. Pending' > 0
    BY <1>2, <2>1
  <2>. QED
    BY <2>2 DEF WritersCovered
<1>7. ASSUME NEW t \in Threads, GetSignal(t)
      PROVE  WritersCovered'
  <2>1. CASE At({"add_sleep"}) = {} /\ pc' = [pc EXCEPT ![t] = "get_count"]
    BY <1>1, <2>1 DEF WritersCovered, At
  <2>2. CASE \E s \in At({"add_sleep"}) :
               pc' = [pc EXCEPT ![t] = "get_count", ![s] = "add_woken"]
    <3>1. PICK s \in At({"add_sleep"}) :
            pc' = [pc EXCEPT ![t] = "get_count", ![s] = "add_woken"]
      BY <2>2
    <3>2. s \in Threads /\ pc'[s] = "add_woken"
      BY <1>1, <3>1 DEF At
    <3>. QED
      BY <3>2 DEF WritersCovered, At
  <2>. QED
    BY <1>7, <2>1, <2>2 DEF GetSignal, SignalAndUnlock
<1>8. ASSUME NEW t \in Threads,
             \/ GetLock(t) \/ AddLock(t) \/ GetWait(t) \/ AddSignal(t)
             \/ GetCount(t) \/ GetCall(t) \/ RegisterCompletion(t)
             \/ SpuriousWakeup(t) \/ \E x \in Items : AddCall(t, x)
      PROVE  WritersCovered'
  <2>1. /\ UNCHANGED <<added, taken>>
        /\ \A u \in Threads :
             /\ pc'[u] = "add_sleep" => pc[u] = "add_sleep"
             /\ pc[u] \in {"add_woken", "add_test", "get_signal"} =>
                  pc'[u] \in {"add_woken", "add_test", "get_signal"}
    <3>1. CASE AddSignal(t)
      <4>1. /\ pc[t] = "add_signal"
            /\ \/ pc' = [pc EXCEPT ![t] = "idle"]
               \/ \E s \in Threads :
                    /\ pc[s] = "get_sleep"
                    /\ pc' = [pc EXCEPT ![t] = "idle", ![s] = "get_woken"]
        BY <3>1 DEF AddSignal, SignalAndUnlock, At
      <4>2. \A u \in Threads :
              \/ pc'[u] = pc[u]
              \/ pc[u] = "add_signal" /\ pc'[u] = "idle"
              \/ pc[u] = "get_sleep" /\ pc'[u] = "get_woken"
        BY <1>1, <4>1
      <4>. QED
        BY <3>1, <4>2 DEF AddSignal
    <3>2. CASE GetLock(t) \/ AddLock(t) \/ GetWait(t)
      BY <1>1, <3>2 DEF GetLock, AddLock, Lock, GetWait, CondWait
    <3>3. CASE \/ GetCount(t) \/ GetCall(t) \/ RegisterCompletion(t)
               \/ SpuriousWakeup(t) \/ \E x \in Items : AddCall(t, x)
      BY <1>1, <3>3
      DEF GetCount, GetCall, RegisterCompletion, SpuriousWakeup, AddCall
    <3>. QED
      BY <1>8, <3>1, <3>2, <3>3
  <2>. QED
    BY <2>1 DEF WritersCovered, At, Pending
<1>9. ASSUME NEW t \in Threads, QueueStep(t) \/ SpuriousWakeup(t)
      PROVE  WritersCovered'
  BY <1>4, <1>5, <1>6, <1>7, <1>8, <1>9 DEF QueueStep, GetStep, AddStep
<1>10. ASSUME NEW t \in Consumers, GetCall(t) \/ RegisterCompletion(t)
       PROVE  WritersCovered'
  BY <1>8, <1>10 DEF Threads
<1>11. ASSUME NEW t \in Producers, NEW x \in Items \ Issued, AddCall(t, x)
       PROVE  WritersCovered'
  BY <1>8, <1>11 DEF Threads
<1>. QED
  BY <1>3, <1>9, <1>10, <1>11 DEF Next

(* While a producer sleeps the queue holds a task, so that a consumer will *)
(* come and signal (queue.c:115), or somebody is on the way already.       *)
THEOREM NoWriterForgotten == Spec => []WritersCovered
<1>1. Init => WritersCovered
  BY DEF Init, WritersCovered, At
<1>. QED
  BY <1>1, StepWritersCovered, QInvHolds, PTL DEF Spec
-----------------------------------------------------------------------------
(* While a consumer and a producer sleep some thread is awake inside the   *)
(* queue, and will test again or signal: the two loops (queue.c:91, 133)   *)
(* never wait for each other, though each signals only one thread.         *)
SomebodyAwake ==
  At({"get_sleep"}) # {} /\ At({"add_sleep"}) # {} =>
    ForReaders \cup ForWriters # {}

(* The state formula above holds throughout (queue.c:92, 135). *)
THEOREM ReadersAndWritersNeverAllSleep == Spec => []SomebodyAwake
<1>1. QInv /\ ReadersCovered /\ WritersCovered => SomebodyAwake
  <2>. SUFFICES ASSUME QInv, ReadersCovered, WritersCovered,
                       At({"get_sleep"}) # {}, At({"add_sleep"}) # {},
                       ForReaders = {}, ForWriters = {}
                PROVE  FALSE
    BY DEF SomebodyAwake
  <2>1. Pending <= 0
    BY FS_EmptySet DEF ReadersCovered, ForReaders
  <2>2. Pending > 0 /\ Pending \in Nat
    BY Tests DEF WritersCovered, ForWriters
  <2>. QED
    BY <2>1, <2>2
<1>. QED
  BY <1>1, QInvHolds, NoReaderForgotten, NoWriterForgotten, PTL
-----------------------------------------------------------------------------
(* The chunks allocated and not freed are those on the list from           *)
(* queue->front to queue->back, live_chunk_count is their number and stays *)
(* in its limit (queue.c:133, parallel.c:91).                              *)
THEOREM NoChunkLeaked == Spec => []ListExact
<1>1. QInv => ListExact
  <2> SUFFICES ASSUME QInv PROVE ListExact
    OBVIOUS
  <2>1. /\ chunk \in Seq(Chunk)
        /\ front \in 1 .. Len(chunk) /\ back = Len(chunk) /\ front <= back
        /\ \A k \in 1 .. Len(chunk) :
             /\ chunk[k].freed <=> k < front
             /\ front <= k /\ k < back => chunk[k].next_chunk = k + 1
        /\ chunk[back].next_chunk = NoChunk
        /\ live_chunk_count = back - front + 1
        /\ live_chunk_count <= MaxLiveChunks
    BY DEF QInv, TypeOK, ListInv
  <2>2. DOMAIN chunk = 1 .. Len(chunk)
    BY <2>1
  <2>3. Live = front .. back
    BY <2>1, <2>2 DEF Live
  <2>4. Chain(chunk, front) = front .. back
    <3>1. ASSUME NEW k \in front .. back PROVE k \in Chain(chunk, front)
      <4>1. \A j \in front .. k - 1 : chunk[j].next_chunk = j + 1
        BY <2>1
      <4>. QED
        BY <2>1, <2>2, <4>1 DEF Chain
    <3>2. ASSUME NEW k \in Chain(chunk, front) PROVE k \in front .. back
      BY <2>1, <2>2 DEF Chain
    <3>. QED
      BY <3>1, <3>2
  <2>5. Cardinality(front .. back) = back - front + 1
    BY <2>1, FS_Interval
  <2>. QED
    BY <2>1, <2>3, <2>4, <2>5 DEF ListExact
<1>. QED
  BY <1>1, QInvHolds, PTL
-----------------------------------------------------------------------------
(***************************************************************************)
(* The queue keeps the promise of BoundedFifo: what is stored in the slots *)
(* is what has been added and not yet taken.                               *)
(***************************************************************************)

LEMMA SlotNumber ==
  ASSUME NEW pos \in Nat
  PROVE  /\ pos \div ChunkSize \in Nat /\ pos % ChunkSize \in Slots
         /\ pos = (pos \div ChunkSize) * ChunkSize + (pos % ChunkSize)
<1>1. ChunkSize \in Nat \ {0}
  BY QueueAssumption
<1>. QED
  BY <1>1, Z3 DEF Slots

LEMMA FirstIs == \A i : First(i) = (i - 1) * ChunkSize
BY Zenon DEF First

(* The abstract queue. *)
Contents == [k \in 1 .. Stored |-> StoredAt(k)]

(* The slots between the two indices, chunk after chunk, are as many as    *)
(* the pending tasks and hold them in order.                               *)
LEMMA SlotsHoldPending ==
  ASSUME QInv
  PROVE  /\ Stored = Pending
         /\ \A k \in 1 .. Pending : StoredAt(k) = added[Len(taken) + k]
<1>. DEFINE C == ChunkSize
            next == chunk[front].next
            filled == chunk[back].filled
<1>1. /\ chunk \in Seq(Chunk) /\ front \in 1 .. Len(chunk)
      /\ back \in 1 .. Len(chunk) /\ front =< back
      /\ added \in Seq(Items) /\ taken \in Seq(Items)
  BY DEF QInv, TypeOK, ListInv
<1>2. front \in Nat \ {0} /\ back \in Nat \ {0} /\ C \in Nat \ {0}
      /\ Len(added) \in Nat /\ Len(taken) \in Nat
  BY <1>1, QueueAssumption
<1>3. next \in Nat /\ filled \in Nat
  <2>1. chunk[front] \in Chunk /\ chunk[back] \in Chunk
    BY <1>1
  <2>. QED
    BY <1>2, <2>1 DEF Chunk
<1>4. Len(added) = First(back) + filled /\ Len(taken) = First(front) + next
  BY DEF QInv, SlotsInv
<1>5. ASSUME NEW j \in Nat
      PROVE  /\ First(front + j) = First(front) + j * C
             /\ First(front + j) \in Nat /\ First(front) \in Nat /\ j * C \in Nat
  <2>1. ((front + j) - 1) * C = (front - 1) * C + j * C
    BY <1>2
  <2>2. (front - 1) * C \in Nat /\ j * C \in Nat
    BY <1>2
  <2>3. First(front + j) = ((front + j) - 1) * C /\ First(front) = (front - 1) * C
    <3>1. First(front + j) = ((front + j) - 1) * ChunkSize
      BY Zenon, FirstIs
    <3>2. First(front) = (front - 1) * ChunkSize
      BY Zenon, FirstIs
    <3>. QED
      BY Zenon, <3>1, <3>2
  <2>. HIDE DEF C
  <2>4. First(front + j) = First(front) + j * C
    BY <2>1, <2>3
  <2>5. First(front) \in Nat /\ First(front) + j * C \in Nat
    BY <2>2, <2>3
  <2>. QED
    BY <2>2, <2>4, <2>5
<1>6. Stored = Pending
  <2>1. back - front \in Nat /\ front + (back - front) = back
    BY <1>1, <1>2
  <2>2. First(back) = First(front) + (back - front) * C
    BY <1>5, <2>1
  <2>3. First(front) \in Nat /\ (back - front) * C \in Nat
    BY <1>5, <2>1
  <2>4. Stored = (back - front) * C + filled - next
    BY DEF Stored
  <2>. HIDE DEF C, next, filled
  <2>. QED
    BY <1>3, <1>4, <2>2, <2>3, <2>4 DEF Pending
<1>7. ASSUME NEW k \in 1 .. Pending
      PROVE  StoredAt(k) = added[Len(taken) + k]
  <2>. DEFINE pos == next + k - 1
              j == pos \div C
              s == pos % C
              i == front + j
  <2>1. Pending \in Int /\ k \in Nat \ {0} /\ Len(taken) + k =< Len(added)
    BY <1>2 DEF Pending
  <2>2. pos \in Nat
    BY <1>3, <2>1
  <2>3. j \in Nat /\ s \in Slots /\ pos = j * C + s
    BY <2>2, SlotNumber
  <2>4. StoredAt(k) = chunk[i].tasks[s]
    BY DEF StoredAt
  <2>5. s \in Nat /\ s < C
    BY <1>2, <2>3 DEF Slots
  <2>6. First(i) + s + 1 = Len(taken) + k
    <3>1. First(i) = First(front) + j * C /\ First(front) \in Nat /\ j * C \in Nat
      BY <1>5, <2>3
    <3>2. next + k - 1 = j * C + s
      BY <2>3
    <3>. DEFINE p == j * C
    <3>3. /\ p \in Nat /\ First(front) \in Nat /\ next + k - 1 = p + s
          /\ First(i) = First(front) + p
      BY <3>1, <3>2, Zenon
    <3>. DEFINE f == First(front)
    <3>4. f \in Nat /\ First(i) = f + p /\ Len(taken) = f + next
      BY <1>4, <3>3
    <3>5. /\ next \in Nat /\ s \in Nat /\ k \in Nat
          /\ p \in Nat /\ f \in Nat /\ next + k - 1 = p + s
      BY <1>3, <2>1, <2>5, <3>3, <3>4
    <3>. HIDE DEF C, next, j, s, i, p, f
    <3>6. p + s + 1 = next + k
      BY <3>5
    <3>. QED
      BY <3>4, <3>5, <3>6
  <2>7. i \in Nat \ {0} /\ front =< i /\ First(i) \in Nat
    <3>1. j \in Nat
      BY <2>3
    <3>. HIDE DEF j
    <3>2. First(front + j) \in Nat
      BY <1>5, <3>1
    <3>. QED
      BY <1>2, <3>1, <3>2
  <2>. HIDE DEF pos, j, s, i
  <2>8. i =< back
    <3>1. SUFFICES ASSUME back < i PROVE FALSE
      BY <1>2, <2>7
    <3>2. First(back) + C =< First(i)
      BY <1>2, <2>7, <3>1, FirstSlot
    <3>3. filled =< C
      <4>1. chunk[back] \in Chunk
        BY <1>1
      <4>. QED
        BY <1>2, <4>1 DEF Chunk
    <3>4. First(back) \in Nat
      BY <1>2, FirstSlot
    <3>. HIDE DEF C, filled
    <3>. QED
      BY <1>2, <1>3, <1>4, <2>1, <2>5, <2>6, <2>7, <3>2, <3>3, <3>4
  <2>9. s < chunk[i].filled
    <3>1. CASE i < back
      <4>1. chunk[i].filled = C
        BY <1>1, <2>7, <3>1 DEF QInv, ListInv
      <4>. QED
        BY <2>5, <4>1
    <3>2. CASE i = back
      <4>1. First(back) \in Nat
        BY <1>2, FirstSlot
      <4>. HIDE DEF filled
      <4>2. s < filled
        BY <1>3, <1>4, <2>1, <2>5, <2>6, <3>2, <4>1
      <4>. QED
        BY <3>2, <4>2 DEF filled
    <3>. QED
      BY <1>2, <2>7, <2>8, <3>1, <3>2
  <2>10. chunk[i].tasks[s] = added[First(i) + s + 1]
    BY <1>2, <2>3, <2>7, <2>8, <2>9 DEF QInv, SlotsInv
  <2>. QED
    BY <2>4, <2>6, <2>10
<1>. QED
  BY <1>6, <1>7

(* The abstract queue, said of the history. *)
LEMMA ContentsPending ==
  ASSUME QInv
  PROVE  /\ Pending \in Nat
         /\ Contents = [k \in 1 .. Pending |-> added[Len(taken) + k]]
         /\ Contents \in Seq(Items) /\ Len(Contents) = Pending
<1>1. added \in Seq(Items) /\ taken \in Seq(Items) /\ Pending \in Nat
  BY Tests
<1>2. Contents = [k \in 1 .. Pending |-> added[Len(taken) + k]]
  BY SlotsHoldPending DEF Contents
<1>3. \A k \in 1 .. Pending : added[Len(taken) + k] \in Items
  <2>1. \A k \in 1 .. Pending : Len(taken) + k \in 1 .. Len(added)
    BY <1>1 DEF Pending
  <2>. QED
    BY <1>1, <2>1
<1>4. Contents \in [1 .. Pending -> Items]
  BY <1>2, <1>3
<1>5. Contents \in Seq(Items)
  BY <1>1, <1>4
<1>6. Len(Contents) = Pending
  BY <1>1, <1>2
<1>. QED
  BY <1>1, <1>2, <1>5, <1>6

(* A list that is not full has room for a task. *)
LEMMA RoomUnlessFull ==
  ASSUME QInv, ~Full
  PROVE  Pending < ChunkSize * MaxLiveChunks
<1>. DEFINE C == ChunkSize
            M == MaxLiveChunks
            live == back - front
            next == chunk[front].next
            filled == chunk[back].filled
<1>1. /\ chunk \in Seq(Chunk) /\ front \in 1 .. Len(chunk)
      /\ back \in 1 .. Len(chunk) /\ front =< back
      /\ live_chunk_count = back - front + 1 /\ live_chunk_count =< M
  BY DEF QInv, TypeOK, ListInv
<1>2. C \in Nat \ {0} /\ M \in Nat \ {0} /\ live \in Nat /\ live + 1 =< M
  BY <1>1, QueueAssumption
<1>3. next \in Nat /\ filled \in 0 .. C
  <2>1. chunk[front] \in Chunk /\ chunk[back] \in Chunk
    BY <1>1
  <2>. QED
    BY <1>2, <2>1 DEF Chunk
<1>4. Pending = live * C + filled - next
  BY SlotsHoldPending DEF Stored
<1>5. filled < C \/ live + 1 < M
  BY <1>1, <1>2, <1>3, QueueAssumption DEF Full
<1>. HIDE DEF C, M, live, next, filled
<1>6. (live + 1) * C =< M * C
  BY <1>2, Z3
<1>7. (live + 1) * C = live * C + C /\ live * C \in Nat /\ M * C \in Nat
      /\ C * M = M * C
  BY <1>2
<1>8. live + 1 < M => (live + 2) * C =< M * C
  BY <1>2, Z3
<1>9. (live + 2) * C = live * C + C + C
  BY <1>2
<1>10. live * C + filled - next < C * M
  BY <1>2, <1>3, <1>5, <1>6, <1>7, <1>8, <1>9
<1>. QED
  BY <1>4, <1>10 DEF C, M

(* The abstract variables of a thread. *)
OfferOf == [t \in Threads |-> IF pc[t] \in Offered THEN task[t] ELSE NULL]
GotOf == [t \in Threads |-> IF pc[t] \in Taken THEN task[t] ELSE NULL]

(* Who is in QUEUE_add is a producer, who is in QUEUE_get or has taken a   *)
(* task a consumer.                                                        *)
RoleInv ==
  \A t \in Threads :
    /\ pc[t] \in AddPC => t \in Producers
    /\ pc[t] \in GetPC \/ (pc[t] = "idle" /\ task[t] # NULL) => t \in Consumers

ContentInv == Contents = [k \in 1 .. Pending |-> added[Len(taken) + k]]

FifoInv == QInv /\ RoleInv /\ ContentInv

LEMMA StepRoleInv == QInv /\ RoleInv /\ [Next]_vars => RoleInv'
<1> SUFFICES ASSUME QInv, RoleInv, [Next]_vars PROVE RoleInv'
  OBVIOUS
<1>1. QInv /\ RoleInv
  OBVIOUS
<1>2. /\ pc \in [Threads -> GetPC \cup AddPC \cup {"idle"}]
      /\ task \in [Threads -> Items \cup {NULL}]
  BY <1>1 DEF QInv, TypeOK
<1>3. CASE UNCHANGED vars
  BY <1>1, <1>3 DEF vars, RoleInv
<1>4. ASSUME NEW t \in Threads, GetStep(t) \/ AddStep(t) \/ SpuriousWakeup(t)
      PROVE  RoleInv'
  <2>1. CASE GetSignal(t)
    <3>1. task' = task
      BY <2>1 DEF GetSignal
    <3>2. \A u \in Threads : \/ pc'[u] = pc[u]
                             \/ pc[u] \in GetPC /\ pc'[u] = "get_count"
                             \/ pc[u] = "add_sleep" /\ pc'[u] = "add_woken"
      BY <1>2, <2>1 DEF GetSignal, SignalAndUnlock, At, GetPC
    <3>. QED
      BY <1>1, <3>1, <3>2 DEF RoleInv, GetPC, AddPC
  <2>2. CASE AddSignal(t)
    <3>1. /\ \A u \in Threads : \/ pc'[u] = pc[u]
                                \/ u = t /\ pc'[u] = "idle"
                                \/ pc[u] = "get_sleep" /\ pc'[u] = "get_woken"
      BY <1>2, <2>2 DEF AddSignal, SignalAndUnlock, At
    <3>2. task'[t] = NULL /\ \A u \in Threads \ {t} : task'[u] = task[u]
      BY <1>2, <2>2 DEF AddSignal
    <3>3. pc[t] = "add_signal" /\ pc'[t] = "idle"
      BY <1>2, <2>2 DEF AddSignal, SignalAndUnlock, At
    <3>. QED
      BY <1>1, <3>1, <3>2, <3>3 DEF RoleInv, GetPC, AddPC
  <2>3. CASE GetTake(t)
    BY <1>1, <1>2, <2>3 DEF GetTake, RoleInv, GetPC, AddPC
  <2>4. CASE AddPut(t)
    BY <1>1, <1>2, <2>4 DEF AddPut, RoleInv, GetPC, AddPC
  <2>5. CASE GetLock(t) \/ AddLock(t) \/ GetWait(t) \/ AddWait(t) \/ GetCount(t)
             \/ SpuriousWakeup(t)
    BY <1>1, <1>2, <2>5 DEF GetLock, AddLock, Lock, GetWait, AddWait, CondWait,
       GetCount, SpuriousWakeup, RoleInv, GetPC, AddPC
  <2>. QED
    BY <1>4, <2>1, <2>2, <2>3, <2>4, <2>5 DEF GetStep, AddStep
<1>5. ASSUME NEW t \in Consumers, GetCall(t) \/ RegisterCompletion(t)
      PROVE  RoleInv'
  <2>1. t \in Threads
    BY DEF Threads
  <2>. QED
    BY <1>1, <1>2, <1>5, <2>1 DEF GetCall, RegisterCompletion, RoleInv, GetPC, AddPC
<1>6. ASSUME NEW t \in Producers, NEW x \in Items, AddCall(t, x)
      PROVE  RoleInv'
  <2>1. t \in Threads
    BY DEF Threads
  <2>. QED
    BY <1>1, <1>2, <1>6, <2>1 DEF AddCall, RoleInv, GetPC, AddPC
<1>. QED
  BY <1>3, <1>4, <1>5, <1>6 DEF Next, QueueStep

LEMMA FifoInvHolds == Spec => []FifoInv
<1>1. Init => RoleInv
  BY DEF Init, RoleInv, GetPC, AddPC
<1>2. Spec => []RoleInv
  BY <1>1, QInvHolds, StepRoleInv, PTL DEF Spec
<1>3. QInv => ContentInv
  BY ContentsPending DEF ContentInv
<1>4. QInv /\ RoleInv /\ ContentInv => FifoInv
  BY DEF FifoInv
<1>. QED
  BY <1>2, <1>3, <1>4, QInvHolds, PTL

AbstractStep == [Fifo_!Next]_(Fifo_!vars)

(* A step that adds and takes nothing leaves the abstract queue alone. *)
LEMMA ContentsUntouched ==
  ASSUME FifoInv, FifoInv', UNCHANGED <<added, taken>>
  PROVE  Contents' = Contents
BY DEF FifoInv, ContentInv, Pending

(* QUEUE_add takes effect when the slot is written, *)
LEMMA AddPutRefines ==
  ASSUME FifoInv, FifoInv', NEW t \in Threads, AddPut(t)
  PROVE  t \in Producers /\ Fifo_!Put(t)
<1>1. QInv /\ QInv' /\ RoleInv
  BY DEF FifoInv
<1>2. /\ pc \in [Threads -> GetPC \cup AddPC \cup {"idle"}]
      /\ task \in [Threads -> Items \cup {NULL}]
      /\ task[t] \in Items /\ task[t] # NULL
  BY <1>1, QueueAssumption DEF QInv, TypeOK, HandInv, AddPut, AddPC
<1>3. /\ pc[t] = "add_test" /\ ~Full /\ added' = Append(added, task[t])
      /\ pc' = [pc EXCEPT ![t] = "add_signal"]
      /\ taken' = taken /\ task' = task
  BY DEF AddPut
<1>4. OfferOf[t] = task[t] /\ OfferOf' = [OfferOf EXCEPT ![t] = NULL]
  BY <1>2, <1>3 DEF OfferOf, Offered
<1>5. GotOf' = GotOf
  BY <1>2, <1>3 DEF GotOf, Taken
<1>6. Len(Contents) < ChunkSize * MaxLiveChunks
  BY <1>1, <1>3, ContentsPending, RoomUnlessFull
<1>7. Contents' = Append(Contents, task[t])
  <2>1. /\ added \in Seq(Items) /\ taken \in Seq(Items) /\ Pending \in Nat
        /\ Contents = [k \in 1 .. Pending |-> added[Len(taken) + k]]
        /\ Contents \in Seq(Items) /\ Len(Contents) = Pending
    BY <1>1, Tests, ContentsPending
  <2>2. Contents' = [k \in 1 .. Pending' |-> added'[Len(taken') + k]]
    BY DEF FifoInv, ContentInv
  <2>3. /\ Len(added') = Len(added) + 1 /\ added'[Len(added) + 1] = task[t]
        /\ \A n \in 1 .. Len(added) : added'[n] = added[n]
    BY <1>2, <1>3, <2>1
  <2>4. Pending' = Pending + 1 /\ Len(taken) + Pending + 1 = Len(added) + 1
    BY <1>3, <2>1, <2>3 DEF Pending
  <2>5. ASSUME NEW k \in 1 .. Pending + 1
        PROVE  added'[Len(taken) + k] = IF k = Pending + 1 THEN task[t] ELSE Contents[k]
    <3>1. CASE k = Pending + 1
      <4>1. Len(taken) + k = Len(added) + 1
        BY <2>1, <2>4, <3>1
      <4>. QED
        BY <2>3, <3>1, <4>1
    <3>2. CASE k # Pending + 1
      <4>1. k \in 1 .. Pending /\ Len(taken) + k \in 1 .. Len(added)
        BY <2>1, <2>4, <3>2
      <4>. QED
        BY <2>1, <2>3, <3>2, <4>1
    <3>. QED
      BY <3>1, <3>2
  <2>6. Append(Contents, task[t]) =
          [k \in 1 .. Pending + 1 |-> IF k = Pending + 1 THEN task[t] ELSE Contents[k]]
    BY <1>2, <2>1
  <2>. QED
    BY <1>3, <2>2, <2>4, <2>5, <2>6
<1>8. t \in Producers
  BY <1>1, <1>3 DEF RoleInv, AddPC
<1>. QED
  BY <1>2, <1>4, <1>5, <1>6, <1>7, <1>8 DEF Fifo_!Put, Contents, OfferOf, GotOf

(* and QUEUE_get when it is read. *)
LEMMA GetTakeRefines ==
  ASSUME FifoInv, FifoInv', NEW t \in Threads, GetTake(t)
  PROVE  t \in Consumers /\ Fifo_!Get(t)
<1>. DEFINE x == added[Len(taken) + 1]
<1>1. QInv /\ QInv' /\ RoleInv
  BY DEF FifoInv
<1>2. /\ pc \in [Threads -> GetPC \cup AddPC \cup {"idle"}]
      /\ task \in [Threads -> Items \cup {NULL}]
  BY <1>1 DEF QInv, TypeOK
<1>3. /\ pc[t] = "get_test" /\ ~Empty
      /\ pc' = [pc EXCEPT ![t] = "get_signal"] /\ added' = added
  BY DEF GetTake
<1>4. x \in Items /\ Len(taken) < Len(added)
      /\ chunk[front].tasks[chunk[front].next] = x
  BY <1>1, <1>3, HeadOfQueue
<1>5. task' = [task EXCEPT ![t] = x] /\ taken' = Append(taken, x)
  BY <1>4 DEF GetTake
<1>. HIDE DEF x
<1>6. GotOf[t] = NULL /\ OfferOf[t] = NULL /\ GotOf' = [GotOf EXCEPT ![t] = x]
  BY <1>2, <1>3, <1>5 DEF GotOf, OfferOf, Taken, Offered
<1>7. OfferOf' = OfferOf
  BY <1>2, <1>3, <1>5 DEF OfferOf, Offered
<1>8. /\ added \in Seq(Items) /\ taken \in Seq(Items) /\ Pending \in Nat
      /\ Contents = [k \in 1 .. Pending |-> added[Len(taken) + k]]
      /\ Contents \in Seq(Items) /\ Len(Contents) = Pending
  BY <1>1, Tests, ContentsPending
<1>9. Pending > 0 /\ Contents # <<>> /\ Head(Contents) = x
  <2>1. Pending > 0 /\ 1 \in 1 .. Pending
    BY <1>4, <1>8 DEF Pending
  <2>2. Contents # <<>>
    <3>1. Len(Contents) = Pending /\ Len(<<>>) = 0
      BY <1>8
    <3>. QED
      BY <2>1, <3>1
  <2>3. Head(Contents) = Contents[1]
    BY <1>8, <2>2
  <2>4. Contents[1] = added[Len(taken) + 1]
    BY <1>8, <2>1
  <2>. QED
    BY <2>1, <2>2, <2>3, <2>4 DEF x
<1>10. Contents' = Tail(Contents)
  <2>1. Contents' = [k \in 1 .. Pending' |-> added'[Len(taken') + k]]
    BY DEF FifoInv, ContentInv
  <2>2. Len(taken') = Len(taken) + 1 /\ Pending' = Pending - 1
    BY <1>3, <1>4, <1>5, <1>8 DEF Pending
  <2>3. Tail(Contents) = [k \in 1 .. Pending - 1 |-> Contents[k + 1]]
    BY <1>8, <1>9
  <2>4. ASSUME NEW k \in 1 .. Pending - 1
        PROVE  added'[Len(taken') + k] = Contents[k + 1]
    <3>1. k + 1 \in 1 .. Pending /\ Len(taken') + k = Len(taken) + (k + 1)
      BY <1>8, <2>2
    <3>. QED
      BY <1>3, <1>8, <3>1
  <2>. QED
    BY <2>1, <2>2, <2>3, <2>4
<1>11. t \in Consumers
  BY <1>1, <1>3 DEF RoleInv, GetPC
<1>. QED
  BY <1>6, <1>7, <1>9, <1>10, <1>11 DEF Fifo_!Get, Contents, OfferOf, GotOf

(* The other steps inside the functions change nothing abstract. *)
LEMMA InnerRefines ==
  ASSUME FifoInv, FifoInv', NEW t \in Threads,
         \/ GetLock(t) \/ GetWait(t) \/ GetSignal(t) \/ GetCount(t)
         \/ AddLock(t) \/ AddWait(t) \/ AddSignal(t) \/ SpuriousWakeup(t)
  PROVE  UNCHANGED Fifo_!vars
<1>1. QInv /\ QInv'
  BY DEF FifoInv
<1>2. /\ pc \in [Threads -> GetPC \cup AddPC \cup {"idle"}]
      /\ task \in [Threads -> Items \cup {NULL}]
  BY <1>1 DEF QInv, TypeOK
<1>3. UNCHANGED <<added, taken>>
  BY DEF GetLock, AddLock, Lock, GetWait, AddWait, CondWait, GetSignal,
         SignalAndUnlock, GetCount, AddSignal, SpuriousWakeup
<1>4. Contents' = Contents
  BY <1>3, ContentsUntouched
<1>5. CASE AddSignal(t)
  <2>1. task' = [task EXCEPT ![t] = NULL] /\ pc[t] = "add_signal" /\ pc'[t] = "idle"
    BY <1>2, <1>5 DEF AddSignal, SignalAndUnlock, At
  <2>2. \A u \in Threads \ {t} : \/ pc'[u] = pc[u]
                                 \/ pc[u] = "get_sleep" /\ pc'[u] = "get_woken"
    BY <1>2, <1>5 DEF AddSignal, SignalAndUnlock, At
  <2>3. OfferOf' = OfferOf /\ GotOf' = GotOf
    BY <1>2, <2>1, <2>2 DEF OfferOf, GotOf, Offered, Taken
  <2>. QED
    BY <1>4, <2>3 DEF Fifo_!vars, Contents, OfferOf, GotOf
<1>6. CASE GetSignal(t)
  <2>1. task' = task /\ pc[t] = "get_signal" /\ pc'[t] = "get_count"
    BY <1>2, <1>6 DEF GetSignal, SignalAndUnlock, At
  <2>2. \A u \in Threads \ {t} : \/ pc'[u] = pc[u]
                                 \/ pc[u] = "add_sleep" /\ pc'[u] = "add_woken"
    BY <1>2, <1>6 DEF GetSignal, SignalAndUnlock, At
  <2>3. OfferOf' = OfferOf /\ GotOf' = GotOf
    BY <1>2, <2>1, <2>2 DEF OfferOf, GotOf, Offered, Taken
  <2>. QED
    BY <1>4, <2>3 DEF Fifo_!vars, Contents, OfferOf, GotOf
<1>7. CASE ~AddSignal(t) /\ ~GetSignal(t)
  <2>1. /\ task' = task
        /\ \E to : pc' = [pc EXCEPT ![t] = to]
             /\ (pc[t] \in Offered <=> to \in Offered)
             /\ (pc[t] \in Taken <=> to \in Taken)
    BY <1>7 DEF GetLock, AddLock, Lock, GetWait, AddWait, CondWait, GetCount,
                SpuriousWakeup, Offered, Taken
  <2>2. OfferOf' = OfferOf /\ GotOf' = GotOf
    BY <1>2, <2>1 DEF OfferOf, GotOf
  <2>. QED
    BY <1>4, <2>2 DEF Fifo_!vars, Contents, OfferOf, GotOf
<1>. QED
  BY <1>5, <1>6, <1>7

(* The calls themselves. *)
LEMMA CallsRefine ==
  ASSUME FifoInv, FifoInv'
  PROVE  /\ \A t \in Producers, x \in Items : AddCall(t, x) => Fifo_!Offer(t, x)
         /\ \A t \in Consumers : GetCall(t) => UNCHANGED Fifo_!vars
         /\ \A t \in Consumers : RegisterCompletion(t) => Fifo_!Complete(t)
<1>1. QInv /\ QInv'
  BY DEF FifoInv
<1>2. /\ pc \in [Threads -> GetPC \cup AddPC \cup {"idle"}]
      /\ task \in [Threads -> Items \cup {NULL}]
  BY <1>1 DEF QInv, TypeOK
<1>3. UNCHANGED <<added, taken>> => Contents' = Contents
  BY ContentsUntouched
<1>4. ASSUME NEW t \in Producers, NEW x \in Items, AddCall(t, x)
      PROVE  Fifo_!Offer(t, x)
  <2>1. /\ t \in Threads /\ pc[t] = "idle" /\ task[t] = NULL
        /\ task' = [task EXCEPT ![t] = x] /\ pc' = [pc EXCEPT ![t] = "add_lock"]
        /\ UNCHANGED <<added, taken>>
    BY <1>4 DEF AddCall, Threads
  <2>2. OfferOf[t] = NULL /\ GotOf[t] = NULL
    BY <2>1 DEF OfferOf, GotOf, Offered
  <2>3. OfferOf' = [OfferOf EXCEPT ![t] = x] /\ GotOf' = GotOf
    BY <1>2, <2>1 DEF OfferOf, GotOf, Offered, Taken
  <2>. QED
    BY <1>3, <2>1, <2>2, <2>3 DEF Fifo_!Offer, Contents, OfferOf, GotOf
<1>5. ASSUME NEW t \in Consumers, GetCall(t)
      PROVE  UNCHANGED Fifo_!vars
  <2>1. /\ t \in Threads /\ pc[t] = "idle" /\ task[t] = NULL
        /\ task' = task /\ pc' = [pc EXCEPT ![t] = "get_lock"]
        /\ UNCHANGED <<added, taken>>
    BY <1>5 DEF GetCall, Threads
  <2>2. OfferOf' = OfferOf /\ GotOf' = GotOf
    BY <1>2, <2>1 DEF OfferOf, GotOf, Offered, Taken
  <2>. QED
    BY <1>3, <2>1, <2>2 DEF Fifo_!vars, Contents, OfferOf, GotOf
<1>6. ASSUME NEW t \in Consumers, RegisterCompletion(t)
      PROVE  Fifo_!Complete(t)
  <2>1. /\ t \in Threads /\ pc[t] = "idle" /\ task[t] # NULL
        /\ task' = [task EXCEPT ![t] = NULL] /\ pc' = pc
        /\ UNCHANGED <<added, taken>>
    BY <1>6 DEF RegisterCompletion, Threads
  <2>2. GotOf[t] # NULL /\ GotOf' = [GotOf EXCEPT ![t] = NULL] /\ OfferOf' = OfferOf
    BY <1>2, <2>1 DEF OfferOf, GotOf, Offered, Taken
  <2>. QED
    BY <1>3, <2>1, <2>2 DEF Fifo_!Complete, Contents, OfferOf, GotOf
<1>. QED
  BY <1>4, <1>5, <1>6

(* queue.c implements the bounded FIFO queue that queue.h promises: a task *)
(* enters at the moment its slot is written and leaves at the moment the   *)
(* slot is read (queue.c:96, 140, 148), in that order, and never are there *)
(* more of them than all the chunks have slots.                            *)
THEOREM QueueRefinesFifo == Spec => ImplementsFifo
<1>1. Init => Fifo_!Init
  <2>. SUFFICES ASSUME Init PROVE Fifo_!Init
    OBVIOUS
  <2>1. QInv
    BY InitQInv
  <2>2. Pending = 0
    BY DEF Init, Pending
  <2>3. Contents \in Seq(Items) /\ Len(Contents) = 0
    BY <2>1, <2>2, ContentsPending
  <2>4. Contents = <<>>
    BY <2>3
  <2>5. /\ OfferOf = [t \in Threads |-> NULL]
        /\ GotOf = [t \in Threads |-> NULL]
    BY DEF Init, OfferOf, GotOf
  <2>. QED
    BY <2>4, <2>5 DEF Fifo_!Init, Fifo_!Threads, Threads, Contents, OfferOf, GotOf
<1>2. FifoInv /\ FifoInv' /\ [Next]_vars => AbstractStep
  <2>. SUFFICES ASSUME FifoInv, FifoInv', [Next]_vars PROVE AbstractStep
    OBVIOUS
  <2>1. CASE UNCHANGED vars
    BY <2>1 DEF vars, list, AbstractStep, Fifo_!vars, Stored, StoredAt
  <2>2. ASSUME NEW t \in Threads, QueueStep(t) \/ SpuriousWakeup(t)
        PROVE  AbstractStep
    <3>1. CASE AddPut(t)
      BY <3>1, AddPutRefines DEF AbstractStep, Fifo_!Next
    <3>2. CASE GetTake(t)
      BY <3>2, GetTakeRefines DEF AbstractStep, Fifo_!Next
    <3>3. CASE ~AddPut(t) /\ ~GetTake(t)
      BY <2>2, <3>3, InnerRefines DEF AbstractStep, QueueStep, GetStep, AddStep
    <3>. QED
      BY <3>1, <3>2, <3>3
  <2>3. ASSUME NEW t \in Consumers, GetCall(t) \/ RegisterCompletion(t)
        PROVE  AbstractStep
    BY <2>3, CallsRefine DEF AbstractStep, Fifo_!Next
  <2>4. ASSUME NEW t \in Producers, NEW x \in Items, AddCall(t, x)
        PROVE  AbstractStep
    BY <2>4, CallsRefine DEF AbstractStep, Fifo_!Next
  <2>. QED
    BY <2>1, <2>2, <2>3, <2>4 DEF Next
<1>. QED
  BY <1>1, <1>2, FifoInvHolds, PTL DEF Spec, ImplementsFifo, Fifo_!Spec, AbstractStep
=============================================================================
