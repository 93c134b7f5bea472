------------------------- MODULE ChunkedQueueProofs -------------------------
(***************************************************************************)
(* Proofs about the queue, for any threads, tasks, chunk size and limit.   *)
(***************************************************************************)
EXTENDS ChunkedQueue, FiniteSetTheorems, TLAPS

-----------------------------------------------------------------------------
(* The inductive invariant *)

(* Whoever is in a critical section holds the mutex, and nobody else. *)
MutexInv == \A t \in Threads : pc[t] \in HoldingPC <=> rw_mutex = t

(* Which threads have a task in hand. *)
HandInv ==
  \A t \in Threads :
    /\ pc[t] \in AddPC \cup {"get_signal", "get_count"} => task[t] \in Items
    /\ pc[t] \in GetPC \ {"get_signal", "get_count"} => task[t] = NULL

(* The live chunks are those allocated from front to back; the inner ones  *)
(* are full, only the front one has been read from.                        *)
ListInv ==
  /\ front <= back /\ back = Len(chunk)
  /\ \A i \in 1 .. Len(chunk) :
       /\ chunk[i].freed <=> i < front
       /\ front <= i /\ i < back =>
            chunk[i].next_chunk = i + 1 /\ chunk[i].filled = ChunkSize
       /\ front < i => chunk[i].next = 0
  /\ chunk[back].next_chunk = NoChunk
  /\ chunk[front].next <= chunk[front].filled
  /\ chunk[front].next < ChunkSize
  /\ front < back => chunk[back].filled > 0
  /\ live_chunk_count = back - front + 1
  /\ live_chunk_count <= MaxLiveChunks

(* How many slots the chunks before the i-th have. *)
First(i) == (i - 1) * ChunkSize

(* Slot s of the i-th chunk holds the task added as number                 *)
(* First(i) + s + 1: every chunk before the back one was filled.           *)
SlotsInv ==
  /\ Len(added) = First(back) + chunk[back].filled
  /\ Len(taken) = First(front) + chunk[front].next
  /\ \A i \in front .. back : \A s \in Slots :
       s < chunk[i].filled =>
         chunk[i].tasks[s] = added[First(i) + s + 1]
  /\ \A n \in 1 .. Len(taken) : n <= Len(added) /\ taken[n] = added[n]

QInv == TypeOK /\ MutexInv /\ HandInv /\ ListInv /\ SlotsInv
-----------------------------------------------------------------------------
(* Lemmas about the list *)

(* Cutting the link of a chunk before it is freed (queue.c:100) frees that *)
(* chunk and no other.                                                     *)
LEMMA FreeOne ==
  ASSUME NEW heap \in Seq(Chunk), NEW c \in 1 .. Len(heap),
         heap[c].next_chunk = NoChunk
  PROVE  FreeChunk(heap, c) =
           [i \in 1 .. Len(heap) |->
              IF i = c THEN [heap[i] EXCEPT !.freed = TRUE] ELSE heap[i]]
<1>1. Chain(heap, c) = {c}
  <2>1. DOMAIN heap = 1 .. Len(heap)
    OBVIOUS
  <2>2. ASSUME NEW i \in 1 .. Len(heap), i \in Chain(heap, c), i # c
        PROVE  FALSE
    <3>1. c \in c .. i - 1
      BY <2>2 DEF Chain
    <3>2. heap[c].next_chunk = c + 1
      BY <2>2, <3>1 DEF Chain
    <3>. QED
      BY <3>2 DEF NoChunk
  <2>3. c \in Chain(heap, c)
    BY <2>1 DEF Chain
  <2>. QED
    BY <2>1, <2>2, <2>3 DEF Chain
<1>. QED
  BY <1>1 DEF FreeChunk

(* The chunks follow each other without a gap.  This is the only place     *)
(* where a product is reasoned about.                                      *)
LEMMA FirstSlot ==
  ASSUME NEW i \in Nat \ {0}
  PROVE  /\ First(1) = 0
         /\ First(i) \in Nat
         /\ First(i + 1) = First(i) + ChunkSize
         /\ \A j \in Nat : i < j => First(i) + ChunkSize <= First(j)
<1> USE QueueAssumption
<1>1. First(1) = 0
  BY DEF First
<1>2. First(i) \in Nat
  BY DEF First
<1>3. First(i + 1) = First(i) + ChunkSize
  BY DEF First
<1>4. ASSUME NEW j \in Nat, i < j
      PROVE  First(i) + ChunkSize <= First(j)
  <2>. DEFINE d == j - 1 - i
  <2>1. d \in Nat /\ j - 1 = i + d
    BY <1>4
  <2>2. d * ChunkSize \in Nat
    BY <2>1
  <2>3. (i + d) * ChunkSize = i * ChunkSize + d * ChunkSize
    BY <2>1
  <2>4. First(i + 1) = i * ChunkSize
    BY DEF First
  <2>5. i * ChunkSize \in Nat
    OBVIOUS
  <2>. HIDE DEF d
  <2>6. First(j) = First(i + 1) + d * ChunkSize
    BY <2>1, <2>3, <2>4 DEF First
  <2>. DEFINE e == d * ChunkSize
  <2>7. e \in Nat /\ First(j) = First(i + 1) + e /\ First(i + 1) \in Nat
    BY <2>2, <2>4, <2>5, <2>6
  <2>. HIDE DEF e
  <2>. QED
    BY <1>2, <1>3, <2>7
<1>. QED
  BY <1>1, <1>2, <1>3, <1>4

(* Writing one element of a sequence. *)
LEMMA WriteOne ==
  ASSUME NEW S, NEW s \in Seq(S), NEW k \in 1 .. Len(s), NEW v \in S,
         NEW w, w = [s EXCEPT ![k] = v]
  PROVE  /\ w \in Seq(S) /\ Len(w) = Len(s) /\ w[k] = v
         /\ \A i \in 1 .. Len(s) : i # k => w[i] = s[i]
<1>1. s \in [1 .. Len(s) -> S]
  OBVIOUS
<1>2. w \in [1 .. Len(s) -> S]
  BY <1>1
<1>3. w \in Seq(S) /\ Len(w) = Len(s)
  BY <1>2
<1>. QED
  BY <1>1, <1>3

LEMMA NewChunkType == NewChunk \in Chunk
  BY QueueAssumption DEF NewChunk, Chunk, Slots, NoChunk
-----------------------------------------------------------------------------
(* The invariant holds initially *)

LEMMA InitQInv == Init => QInv
<1> SUFFICES ASSUME Init PROVE QInv
  OBVIOUS
<1> USE QueueAssumption DEF Init, NoChunk
<1>1. chunk \in Seq(Chunk) /\ Len(chunk) = 1 /\ chunk[1] = NewChunk
  BY NewChunkType
<1>2. TypeOK
  BY <1>1 DEF TypeOK
<1>3. MutexInv /\ HandInv
  BY DEF MutexInv, HandInv, HoldingPC, AddPC, GetPC, Threads
<1>4. ListInv
  BY <1>1 DEF ListInv, NewChunk
<1>5. SlotsInv
  <2>1. chunk[1].filled = 0 /\ chunk[1].next = 0
    BY <1>1 DEF NewChunk
  <2>2. Len(added) = 0 /\ Len(taken) = 0 /\ front = 1 /\ back = 1
    OBVIOUS
  <2>3. First(1) = 0
    BY FirstSlot
  <2>4. \A i \in front .. back : \A s \in Slots : ~(s < chunk[i].filled)
    BY <2>1, <2>2 DEF Slots
  <2>. QED
    BY <2>1, <2>2, <2>3, <2>4 DEF SlotsInv
<1>. QED
  BY <1>2, <1>3, <1>4, <1>5 DEF QInv
-----------------------------------------------------------------------------
(* QUEUE_get takes a task *)

(* What the slot at the read index holds: the oldest task not yet taken. *)
LEMMA HeadOfQueue ==
  ASSUME QInv, ~Empty
  PROVE  /\ chunk[front] \in Chunk
         /\ chunk[front].next \in Slots
         /\ Len(taken) < Len(added)
         /\ chunk[front].tasks[chunk[front].next] = added[Len(taken) + 1]
         /\ added[Len(taken) + 1] \in Items
<1> USE QueueAssumption
<1>1. /\ chunk \in Seq(Chunk) /\ front \in 1 .. Len(chunk)
      /\ back \in 1 .. Len(chunk) /\ front <= back
      /\ added \in Seq(Items) /\ taken \in Seq(Items)
  BY DEF QInv, TypeOK, ListInv
<1>2. chunk[front] \in Chunk /\ chunk[back] \in Chunk
  BY <1>1
<1>3. /\ chunk[front].next \in Nat /\ chunk[front].filled \in Nat
      /\ chunk[front].next < ChunkSize
      /\ chunk[front].next < chunk[front].filled
      /\ chunk[back].filled \in Nat
  <2>1. /\ chunk[front].next \in Nat /\ chunk[front].filled \in 0 .. ChunkSize
        /\ chunk[front].next \in 0 .. ChunkSize
        /\ chunk[back].filled \in Nat
    BY <1>2 DEF Chunk
  <2>2. chunk[front].next < ChunkSize /\ chunk[front].next <= chunk[front].filled
    BY DEF QInv, ListInv
  <2>3. chunk[front].next < chunk[front].filled
    BY <2>1 DEF Empty
  <2>. QED
    BY <2>1, <2>2, <2>3
<1>4. chunk[front].next \in Slots
  BY <1>3 DEF Slots
<1>5. Len(taken) + 1 = First(front) + chunk[front].next + 1
  BY DEF QInv, SlotsInv
<1>6. chunk[front].tasks[chunk[front].next] = added[Len(taken) + 1]
  BY <1>1, <1>3, <1>4, <1>5 DEF QInv, SlotsInv
<1>7. Len(taken) < Len(added)
  <2>1. Len(added) = First(back) + chunk[back].filled
    BY DEF QInv, SlotsInv
  <2>2. CASE front = back
    <3>1. front \in Nat \ {0} /\ Len(taken) \in Nat /\ Len(added) \in Nat
      BY <1>1
    <3>2. First(front) \in Nat
      BY <3>1, FirstSlot
    <3>3. /\ Len(taken) = First(front) + chunk[front].next
          /\ Len(added) = First(front) + chunk[front].filled
      BY <2>1, <2>2 DEF QInv, SlotsInv
    <3>4. /\ chunk[front].next \in Nat /\ chunk[front].filled \in Nat
          /\ chunk[front].next < chunk[front].filled
      BY <1>3
    <3>. QED
      BY <3>2, <3>3, <3>4
  <2>3. CASE front < back
    <3>1. /\ First(front) \in Nat /\ First(back) \in Nat
          /\ First(front) + ChunkSize <= First(back)
      BY <1>1, <2>3, FirstSlot
    <3>2. Len(taken) \in Nat /\ Len(added) \in Nat
      BY <1>1
    <3>3. Len(taken) = First(front) + chunk[front].next
      BY DEF QInv, SlotsInv
    <3>4. Len(taken) < First(front) + ChunkSize
      BY <1>3, <3>1, <3>3
    <3>5. First(back) <= Len(added)
      BY <1>3, <2>1, <3>1
    <3>. QED
      BY <3>1, <3>2, <3>4, <3>5, QueueAssumption
  <2>. QED
    BY <1>1, <2>2, <2>3
<1>. QED
  BY <1>1, <1>2, <1>4, <1>6, <1>7

(* The list after the front chunk is read to its end and freed. *)
Retired ==
  FreeChunk([chunk EXCEPT ![front].next = @ + 1,
                          ![front].next_chunk = NoChunk], front)

LEMMA RetiredShape ==
  ASSUME QInv, ~Empty
  PROVE  /\ Retired \in Seq(Chunk)
         /\ Len(Retired) = Len(chunk)
         /\ \A i \in 1 .. Len(chunk) : i # front => Retired[i] = chunk[i]
         /\ Retired[front].freed
<1> DEFINE cut == [chunk EXCEPT ![front].next = @ + 1,
                                ![front].next_chunk = NoChunk]
           gone == [cut[front] EXCEPT !.freed = TRUE]
<1> USE QueueAssumption
<1>1. chunk \in Seq(Chunk) /\ front \in 1 .. Len(chunk)
  BY DEF QInv, TypeOK
<1>2. /\ chunk[front] \in Chunk
      /\ chunk[front].next + 1 \in 0 .. ChunkSize
  BY HeadOfQueue DEF Slots
<1>3. /\ Len(cut) = Len(chunk)
      /\ cut[front] = [[chunk[front] EXCEPT !.next = @ + 1]
                         EXCEPT !.next_chunk = NoChunk]
      /\ \A i \in 1 .. Len(chunk) : i # front => cut[i] = chunk[i]
      /\ cut \in [1 .. Len(chunk) -> {cut[i] : i \in 1 .. Len(chunk)}]
  <2>1. /\ cut \in [1 .. Len(chunk) -> {cut[i] : i \in 1 .. Len(chunk)}]
        /\ DOMAIN cut = 1 .. Len(chunk)
    BY <1>1
  <2>. QED
    BY <1>1, <2>1
<1>4. cut[front] \in Chunk /\ cut[front].next_chunk = NoChunk
  <2>. DEFINE read == [chunk[front] EXCEPT !.next = @ + 1]
  <2>1. read \in Chunk
    BY <1>2 DEF Chunk
  <2>2. cut[front] = [read EXCEPT !.next_chunk = NoChunk]
    BY <1>3
  <2>. HIDE DEF read, cut
  <2>3. cut[front].next_chunk = NoChunk
    BY <2>1, <2>2 DEF Chunk
  <2>. QED
    BY <2>1, <2>2, <2>3 DEF Chunk, NoChunk
<1>5. cut \in Seq(Chunk)
  <2>. HIDE DEF cut
  <2>1. ASSUME NEW i \in 1 .. Len(chunk)
        PROVE  cut[i] \in Chunk
    <3>1. chunk[i] \in Chunk
      BY <1>1
    <3>2. CASE i = front
      BY <1>4, <3>2
    <3>3. CASE i # front
      BY <1>3, <3>1, <3>3
    <3>. QED
      BY <3>2, <3>3
  <2>2. cut \in [1 .. Len(chunk) -> Chunk]
    BY <1>3, <2>1
  <2>. QED
    BY <1>1, <2>2
<1>6. gone \in Chunk /\ gone.freed
  BY <1>4 DEF Chunk
<1>7. Retired = [i \in 1 .. Len(cut) |-> IF i = front THEN gone ELSE cut[i]]
  <2>. HIDE DEF cut
  <2>1. front \in 1 .. Len(cut)
    BY <1>1, <1>3
  <2>2. FreeChunk(cut, front) =
          [i \in 1 .. Len(cut) |->
             IF i = front THEN [cut[i] EXCEPT !.freed = TRUE] ELSE cut[i]]
    BY <1>4, <1>5, <2>1, FreeOne
  <2>3. Retired = FreeChunk(cut, front)
    BY DEF Retired, cut
  <2>. QED
    BY <2>2, <2>3
<1>. HIDE DEF cut, gone
<1>. QED
  BY <1>1, <1>3, <1>5, <1>6, <1>7

(* The part of TypeOK, ListInv and SlotsInv that is about the list. *)
LEMMA GetTakeKeepsList ==
  ASSUME QInv, NEW t \in Threads, GetTake(t)
  PROVE  TypeOK' /\ ListInv' /\ SlotsInv'
<1> DEFINE n == chunk[front].next
           got == chunk[front].tasks[n]
<1> USE QueueAssumption
<1>1. /\ chunk \in Seq(Chunk) /\ front \in 1 .. Len(chunk)
      /\ front <= back /\ back = Len(chunk)
      /\ added \in Seq(Items) /\ taken \in Seq(Items)
      /\ live_chunk_count \in Nat
  BY DEF QInv, TypeOK, ListInv
<1>2. ~Empty
  BY DEF GetTake
<1>3. /\ chunk[front] \in Chunk /\ n \in Slots
      /\ Len(taken) < Len(added)
      /\ got = added[Len(taken) + 1] /\ got \in Items
  BY <1>2, HeadOfQueue
<1>4. /\ \A i \in 1 .. Len(chunk) :
           chunk[i].filled \in 0 .. ChunkSize /\ chunk[i].next \in 0 .. ChunkSize
      /\ n < chunk[front].filled
  <2>1. \A i \in 1 .. Len(chunk) : chunk[i] \in Chunk
    BY <1>1
  <2>2. \A i \in 1 .. Len(chunk) :
           chunk[i].filled \in 0 .. ChunkSize /\ chunk[i].next \in 0 .. ChunkSize
    BY <2>1 DEF Chunk
  <2>3. n < chunk[front].filled
    <3>1. n \in Nat /\ chunk[front].filled \in Nat
      BY <1>1, <2>2
    <3>. QED
      BY <1>2, <3>1 DEF Empty
  <2>. QED
    BY <2>2, <2>3
<1>5. /\ task' = [task EXCEPT ![t] = got]
      /\ taken' = Append(taken, got)
      /\ pc' = [pc EXCEPT ![t] = "get_signal"]
      /\ UNCHANGED <<dispatched, rw_mutex, added>>
  BY DEF GetTake
<1>6. /\ taken' \in Seq(Items) /\ Len(taken') = Len(taken) + 1
      /\ \A k \in 1 .. Len(taken') : k <= Len(added) /\ taken'[k] = added[k]
  <2>1. /\ taken' \in Seq(Items) /\ Len(taken') = Len(taken) + 1
        /\ taken'[Len(taken) + 1] = got
        /\ \A k \in 1 .. Len(taken) : taken'[k] = taken[k]
    BY <1>1, <1>3, <1>5
  <2>2. \A k \in 1 .. Len(taken) : k <= Len(added) /\ taken[k] = added[k]
    BY DEF QInv, SlotsInv
  <2>. QED
    BY <1>1, <1>3, <2>1, <2>2
<1>7. /\ dispatched' \in Int
      /\ rw_mutex' \in Threads \cup {NULL}
      /\ pc' \in [Threads -> GetPC \cup AddPC \cup {"idle"}]
      /\ task' \in [Threads -> Items \cup {NULL}]
      /\ added' \in Seq(Items)
  BY <1>3, <1>5 DEF QInv, TypeOK, GetPC
<1> HIDE DEF n, got
<1>8. CASE n + 1 < ChunkSize
  <2>1. /\ chunk' = [chunk EXCEPT ![front].next = @ + 1]
        /\ UNCHANGED <<front, back, live_chunk_count>>
    BY <1>3, <1>8 DEF GetTake, n, Slots
  <2>2. /\ Len(chunk') = Len(chunk)
        /\ chunk'[front] = [chunk[front] EXCEPT !.next = @ + 1]
        /\ \A i \in 1 .. Len(chunk) : i # front => chunk'[i] = chunk[i]
    BY <1>1, <2>1
  <2>3. chunk'[front] \in Chunk /\ chunk'[front].next = n + 1
    <3>1. chunk[front].next + 1 \in 0 .. ChunkSize
      BY <1>3 DEF n, Slots
    <3>. QED
      BY <1>3, <2>2, <3>1 DEF Chunk, n
  <2>4. chunk' \in Seq(Chunk)
    BY <1>1, <2>1, <2>2, <2>3
  <2>5. \A i \in 1 .. Len(chunk) :
          /\ chunk'[i].filled = chunk[i].filled
          /\ chunk'[i].tasks = chunk[i].tasks
          /\ chunk'[i].next_chunk = chunk[i].next_chunk
          /\ chunk'[i].freed = chunk[i].freed
    BY <1>1, <1>3, <2>2 DEF Chunk
  <2>6. TypeOK'
    BY <1>1, <1>6, <1>7, <2>1, <2>2, <2>4 DEF TypeOK
  <2>7. ListInv'
    <3>1. ListInv
      BY DEF QInv
    <3>2. n \in Nat /\ n + 1 <= chunk[front].filled
      BY <1>1, <1>3, <1>4 DEF Slots
    <3>3. ASSUME NEW i \in 1 .. Len(chunk), front < i
          PROVE  chunk'[i].next = 0
      <4>1. chunk'[i] = chunk[i]
        BY <1>1, <2>2, <3>3
      <4>. QED
        BY <3>1, <3>3, <4>1 DEF ListInv
    <3>4. \A i \in 1 .. Len(chunk) :
            /\ chunk'[i].freed <=> i < front
            /\ front <= i /\ i < back =>
                 chunk'[i].next_chunk = i + 1 /\ chunk'[i].filled = ChunkSize
      BY <2>5, <3>1 DEF ListInv
    <3>. QED
      BY <1>1, <1>8, <2>1, <2>2, <2>3, <2>5, <3>1, <3>2, <3>3, <3>4
      DEF ListInv
  <2>8. SlotsInv'
    <3>1. Len(added') = First(back') + chunk'[back'].filled
      BY <1>1, <1>5, <2>1, <2>5 DEF QInv, SlotsInv
    <3>2. Len(taken') = First(front') + chunk'[front'].next
      <4>1. front \in Nat \ {0} /\ n \in Nat
        BY <1>1, <1>3 DEF Slots
      <4>2. First(front) \in Nat
        BY <4>1, FirstSlot
      <4>3. Len(taken) = First(front) + n
        BY DEF QInv, SlotsInv, n
      <4>4. Len(taken') = Len(taken) + 1 /\ front' = front
        BY <1>6, <2>1
      <4>. QED
        BY <2>3, <4>1, <4>2, <4>3, <4>4
    <3>3. ASSUME NEW i \in front' .. back', NEW s \in Slots,
                 s < chunk'[i].filled
          PROVE  chunk'[i].tasks[s] = added'[First(i) + s + 1]
      BY <1>1, <1>5, <2>1, <2>5, <3>3 DEF QInv, SlotsInv
    <3>. QED
      BY <1>5, <1>6, <3>1, <3>2, <3>3 DEF SlotsInv
  <2>. QED
    BY <2>6, <2>7, <2>8
<1>9. CASE n + 1 >= ChunkSize
  <2>1. RetireFront
    BY <1>9 DEF GetTake, n
  <2>2. n + 1 = ChunkSize /\ chunk[front].filled = ChunkSize
    BY <1>1, <1>3, <1>4, <1>9 DEF Slots
  <2>3. /\ Retired \in Seq(Chunk) /\ Len(Retired) = Len(chunk)
        /\ \A i \in 1 .. Len(chunk) : i # front => Retired[i] = chunk[i]
        /\ Retired[front].freed
    BY <1>2, RetiredShape
  <2>4. Len(taken') = First(front + 1)
    <3>1. First(front + 1) = First(front) + ChunkSize /\ First(front) \in Nat
      BY <1>1, FirstSlot
    <3>2. Len(taken) = First(front) + n /\ n \in Nat
      BY <1>3 DEF QInv, SlotsInv, n, Slots
    <3>3. Len(taken') = Len(taken) + 1 /\ n + 1 = ChunkSize
      BY <1>6, <2>2
    <3>. QED
      BY <3>1, <3>2, <3>3
  <2>5. CASE chunk[front].next_chunk = NoChunk
    <3>1. /\ chunk' = Append(Retired, NewChunk)
          /\ front' = Len(chunk) + 1
          /\ back' = Len(chunk) + 1
          /\ UNCHANGED live_chunk_count
      BY <2>1, <2>5 DEF RetireFront, Retired
    <3>2. front = back
      BY <1>1, <2>5 DEF QInv, ListInv, NoChunk
    <3>3. /\ chunk' \in Seq(Chunk) /\ Len(chunk') = Len(chunk) + 1
          /\ chunk'[Len(chunk) + 1] = NewChunk
          /\ \A i \in 1 .. Len(chunk) : chunk'[i] = Retired[i]
      BY <2>3, <3>1, NewChunkType
    <3>4. TypeOK'
      BY <1>1, <1>6, <1>7, <3>1, <3>3 DEF TypeOK
    <3>5. ListInv'
      BY <1>1, <2>3, <3>1, <3>2, <3>3 DEF QInv, ListInv, NewChunk, NoChunk
    <3>6. SlotsInv'
      <4>1. Len(added') = First(back') + chunk'[back'].filled
        <5>1. /\ First(back') = First(back) + ChunkSize
              /\ First(back) \in Nat
          BY <1>1, <3>1, FirstSlot
        <5>2. Len(added) = First(back) + ChunkSize
          BY <2>2, <3>2 DEF QInv, SlotsInv
        <5>. QED
          BY <1>5, <3>1, <3>3, <5>1, <5>2 DEF NewChunk
      <4>2. Len(taken') = First(front') + chunk'[front'].next
        <5>1. front' = front + 1 /\ First(front + 1) \in Nat
          BY <1>1, <3>1, <3>2, FirstSlot
        <5>. QED
          BY <2>4, <3>1, <3>3, <5>1 DEF NewChunk
      <4>3. chunk'[front'].filled = 0
        BY <3>1, <3>3 DEF NewChunk
      <4>4. \A i \in front' .. back' : i = front'
        BY <1>1, <3>1
      <4>5. \A i \in front' .. back' : \A s \in Slots :
              ~(s < chunk'[i].filled)
        BY <4>3, <4>4 DEF Slots
      <4>. QED
        BY <1>5, <1>6, <4>1, <4>2, <4>5 DEF SlotsInv
    <3>. QED
      BY <3>4, <3>5, <3>6
  <2>6. CASE chunk[front].next_chunk # NoChunk
    <3>1. front < back /\ chunk[front].next_chunk = front + 1
      BY <1>1, <2>6 DEF QInv, ListInv
    <3>2. /\ chunk' = Retired
          /\ front' = front + 1
          /\ live_chunk_count' = live_chunk_count - 1
          /\ UNCHANGED back
      BY <2>1, <2>6, <3>1 DEF RetireFront, Retired
    <3>3. live_chunk_count' \in Nat
      BY <1>1, <3>1, <3>2 DEF QInv, ListInv
    <3>4. TypeOK'
      BY <1>1, <1>6, <1>7, <2>3, <3>1, <3>2, <3>3 DEF TypeOK
    <3>5. chunk'[front'].next = 0 /\ chunk'[front'].filled > 0
      <4>1. ListInv
        BY DEF QInv
      <4>2. /\ front + 1 \in 1 .. Len(chunk) /\ front + 1 # front
            /\ chunk'[front'] = chunk[front + 1]
        BY <1>1, <2>3, <3>1, <3>2
      <4>3. chunk[front + 1].next = 0
        BY <1>1, <4>1, <4>2 DEF ListInv
      <4>4. CASE front + 1 = back
        BY <3>1, <4>1, <4>2, <4>3, <4>4 DEF ListInv
      <4>5. CASE front + 1 < back
        <5>1. chunk[front + 1].filled = ChunkSize
          BY <1>1, <4>1, <4>2, <4>5 DEF ListInv
        <5>. QED
          BY <4>2, <4>3, <5>1
      <4>. QED
        BY <1>1, <3>1, <4>4, <4>5
    <3>6. ListInv'
      <4>1. ListInv
        BY DEF QInv
      <4>2. chunk'[front].freed
        BY <2>3, <3>2
      <4>3. \A i \in 1 .. Len(chunk) :
              /\ chunk'[i].freed <=> i < front + 1
              /\ front + 1 <= i /\ i < back =>
                   chunk'[i].next_chunk = i + 1 /\ chunk'[i].filled = ChunkSize
              /\ front + 1 < i => chunk'[i].next = 0
        <5>. SUFFICES ASSUME NEW i \in 1 .. Len(chunk)
                      PROVE  /\ chunk'[i].freed <=> i < front + 1
                             /\ front + 1 <= i /\ i < back =>
                                  /\ chunk'[i].next_chunk = i + 1
                                  /\ chunk'[i].filled = ChunkSize
                             /\ front + 1 < i => chunk'[i].next = 0
          OBVIOUS
        <5>1. CASE i = front
          BY <1>1, <4>2, <5>1
        <5>2. CASE i # front
          <6>1. chunk'[i] = chunk[i]
            BY <2>3, <3>2, <5>2
          <6>. QED
            BY <1>1, <4>1, <5>2, <6>1 DEF ListInv
        <5>. QED
          BY <5>1, <5>2
      <4>4. chunk'[back] = chunk[back]
        BY <1>1, <2>3, <3>1, <3>2
      <4>5. /\ front' <= back' /\ back' = Len(chunk')
            /\ chunk'[back'].next_chunk = NoChunk
            /\ front' < back' => chunk'[back'].filled > 0
        BY <1>1, <2>3, <3>1, <3>2, <4>1, <4>4 DEF ListInv
      <4>6. /\ chunk'[front'].next <= chunk'[front'].filled
            /\ chunk'[front'].next < ChunkSize
        <5>1. /\ front + 1 \in 1 .. Len(chunk)
              /\ chunk'[front'] = chunk[front + 1]
          BY <1>1, <2>3, <3>1, <3>2
        <5>2. chunk[front + 1].filled \in 0 .. ChunkSize
          BY <1>4, <5>1
        <5>. QED
          BY <3>5, <5>1, <5>2
      <4>7. /\ live_chunk_count' = back' - front' + 1
            /\ live_chunk_count' <= MaxLiveChunks
        BY <1>1, <3>2, <4>1 DEF ListInv
      <4>8. Len(chunk') = Len(chunk)
        BY <2>3, <3>2
      <4>. QED
        BY <3>2, <4>3, <4>5, <4>6, <4>7, <4>8 DEF ListInv
    <3>7. SlotsInv'
      <4>1. Len(added') = First(back') + chunk'[back'].filled
        BY <1>1, <1>5, <2>3, <3>1, <3>2 DEF QInv, SlotsInv
      <4>2. Len(taken') = First(front') + chunk'[front'].next
        <5>1. front + 1 \in Nat \ {0}
          BY <1>1
        <5>2. First(front + 1) \in Nat
          BY <5>1, FirstSlot
        <5>. QED
          BY <2>4, <3>2, <3>5, <5>2
      <4>3. ASSUME NEW i \in front' .. back', NEW s \in Slots,
                   s < chunk'[i].filled
            PROVE  chunk'[i].tasks[s] = added'[First(i) + s + 1]
        <5>1. i \in front .. back /\ i \in 1 .. Len(chunk) /\ i # front
          BY <1>1, <3>2
        <5>2. chunk'[i] = chunk[i]
          BY <2>3, <3>2, <5>1
        <5>3. chunk[i].tasks[s] = added[First(i) + s + 1]
          BY <4>3, <5>1, <5>2 DEF QInv, SlotsInv
        <5>. QED
          BY <1>5, <5>2, <5>3
      <4>. QED
        BY <1>5, <1>6, <4>1, <4>2, <4>3 DEF SlotsInv
    <3>. QED
      BY <3>4, <3>6, <3>7
  <2>. QED
    BY <2>5, <2>6
<1>. QED
  BY <1>3, <1>8, <1>9 DEF n, Slots
-----------------------------------------------------------------------------
(* QUEUE_add puts a task *)

LEMMA AddPutKeepsList ==
  ASSUME QInv, NEW t \in Threads, AddPut(t)
  PROVE  TypeOK' /\ ListInv' /\ SlotsInv'
<1> DEFINE x == task[t]
           m == chunk[back].filled
           base == First(back)
<1> USE QueueAssumption
<1>1. /\ chunk \in Seq(Chunk) /\ front \in 1 .. Len(chunk)
      /\ front <= back /\ back = Len(chunk)
      /\ added \in Seq(Items) /\ taken \in Seq(Items)
      /\ live_chunk_count \in Nat
  BY DEF QInv, TypeOK, ListInv
<1>2. x \in Items
  BY DEF AddPut, QInv, HandInv, AddPC
<1>3. chunk[back] \in Chunk /\ chunk[front] \in Chunk /\ m \in 0 .. ChunkSize
  <2>1. back \in 1 .. Len(chunk)
    BY <1>1
  <2>2. chunk[back] \in Chunk /\ chunk[front] \in Chunk
    BY <1>1, <2>1
  <2>. QED
    BY <2>2 DEF Chunk
<1>4. /\ added' = Append(added, x)
      /\ pc' = [pc EXCEPT ![t] = "add_signal"]
      /\ UNCHANGED <<front, dispatched, rw_mutex, task, taken>>
  BY DEF AddPut
<1>5. /\ added' \in Seq(Items) /\ Len(added') = Len(added) + 1
      /\ added'[Len(added) + 1] = x
      /\ \A k \in 1 .. Len(added) : added'[k] = added[k]
  BY <1>1, <1>2, <1>4
<1>6. /\ dispatched' \in Int
      /\ rw_mutex' \in Threads \cup {NULL}
      /\ pc' \in [Threads -> GetPC \cup AddPC \cup {"idle"}]
      /\ task' \in [Threads -> Items \cup {NULL}]
      /\ taken' \in Seq(Items)
  BY <1>4 DEF QInv, TypeOK, AddPC
<1>7. ASSUME NEW k \in 1 .. Len(taken')
      PROVE  k <= Len(added') /\ taken'[k] = added'[k]
  <2>1. k \in 1 .. Len(taken) /\ k <= Len(added) /\ taken[k] = added[k]
    BY <1>4 DEF QInv, SlotsInv
  <2>2. k \in 1 .. Len(added)
    BY <1>1, <2>1
  <2>. QED
    BY <1>1, <1>4, <1>5, <2>1, <2>2
<1>8. base \in Nat /\ Len(added) = base + m
  <2>1. back \in Nat \ {0}
    BY <1>1
  <2>. QED
    BY <2>1, FirstSlot DEF QInv, SlotsInv
<1>9. /\ ListInv
      /\ Len(taken) = First(front) + chunk[front].next
      /\ \A i \in front .. back : \A s \in Slots :
           s < chunk[i].filled =>
             /\ chunk[i].tasks[s] = added[First(i) + s + 1]
             /\ First(i) + s + 1 \in 1 .. Len(added)
  <2>1. /\ ListInv
        /\ Len(taken) = First(front) + chunk[front].next
    BY DEF QInv, SlotsInv
  <2>2. ASSUME NEW i \in front .. back, NEW s \in Slots, s < chunk[i].filled
        PROVE  /\ chunk[i].tasks[s] = added[First(i) + s + 1]
               /\ First(i) + s + 1 \in 1 .. Len(added)
    <3>1. chunk[i].tasks[s] = added[First(i) + s + 1]
      BY <2>2 DEF QInv, SlotsInv
    <3>2. First(i) \in Nat /\ i \in Nat \ {0} /\ s \in Nat /\ s < ChunkSize
      <4>1. i \in Nat \ {0} /\ s \in Nat /\ s < ChunkSize
        BY <1>1 DEF Slots
      <4>. QED
        BY <4>1, FirstSlot
    <3>3. First(i) + s < base + m
      <4>1. base \in Nat /\ m \in Nat
        BY <1>3, <1>8
      <4>2. CASE i = back
        <5>1. First(i) = base /\ s < m
          BY <2>2, <4>2
        <5>. HIDE DEF base, m
        <5>. QED
          BY <3>2, <4>1, <5>1
      <4>3. CASE i < back
        <5>1. First(i) + ChunkSize <= base
          BY <1>1, <3>2, <4>3, FirstSlot
        <5>. HIDE DEF base, m
        <5>. QED
          BY <3>2, <4>1, <5>1
      <4>. QED
        BY <1>1, <3>2, <4>2, <4>3
    <3>4. First(i) + s + 1 \in 1 .. Len(added)
      <4>1. Len(added) = base + m /\ base \in Nat /\ m \in Nat
        BY <1>3, <1>8
      <4>. HIDE DEF base, m
      <4>. QED
        BY <3>2, <3>3, <4>1
    <3>. QED
      BY <3>1, <3>4
  <2>. QED
    BY <2>1, <2>2
<1>10. CASE PutInBack(x)
  <2>1. /\ m < ChunkSize
        /\ chunk' = [chunk EXCEPT ![back].tasks[m] = x, ![back].filled = @ + 1]
        /\ UNCHANGED <<back, live_chunk_count>>
    BY <1>10 DEF PutInBack
  <2>. DEFINE put == [chunk[back] EXCEPT !.tasks[m] = x]
              new == [put EXCEPT !.filled = @ + 1]
  <2>2. /\ new \in Chunk
        /\ new.filled = m + 1
        /\ new.tasks = [chunk[back].tasks EXCEPT ![m] = x]
        /\ new.next = chunk[back].next
        /\ new.next_chunk = chunk[back].next_chunk
        /\ new.freed = chunk[back].freed
    <3>1. m \in Slots /\ m + 1 \in 0 .. ChunkSize
      BY <1>3, <2>1 DEF Slots
    <3>2. /\ put \in Chunk
          /\ put.tasks = [chunk[back].tasks EXCEPT ![m] = x]
          /\ put.filled = m /\ put.next = chunk[back].next
          /\ put.next_chunk = chunk[back].next_chunk
          /\ put.freed = chunk[back].freed
      BY <1>2, <1>3, <3>1 DEF Chunk
    <3>. HIDE DEF put
    <3>. QED
      BY <3>1, <3>2 DEF Chunk
  <2>3. chunk' = [chunk EXCEPT ![back] = new]
    BY <1>1, <2>1
  <2>. HIDE DEF new
  <2>4. /\ chunk' \in Seq(Chunk) /\ Len(chunk') = Len(chunk)
        /\ chunk'[back] = new
        /\ \A i \in 1 .. Len(chunk) : i # back => chunk'[i] = chunk[i]
    <3>1. back \in 1 .. Len(chunk)
      BY <1>1
    <3>. QED
      BY <1>1, <2>2, <2>3, <3>1, WriteOne
  <2>5. TypeOK'
    BY <1>1, <1>4, <1>5, <1>6, <2>1, <2>4 DEF TypeOK
  <2>6. ListInv'
    <3>1. ASSUME NEW i \in 1 .. Len(chunk)
          PROVE  /\ chunk'[i].freed <=> i < front
                 /\ front <= i /\ i < back =>
                      /\ chunk'[i].next_chunk = i + 1
                      /\ chunk'[i].filled = ChunkSize
                 /\ front < i => chunk'[i].next = 0
      <4>1. CASE i = back
        BY <1>1, <1>9, <2>2, <2>4, <4>1 DEF ListInv
      <4>2. CASE i # back
        BY <1>9, <2>4, <4>2 DEF ListInv
      <4>. QED
        BY <4>1, <4>2
    <3>2. /\ chunk'[front].next = chunk[front].next
          /\ chunk[front].filled <= chunk'[front].filled
          /\ chunk'[front].filled \in Nat
      <4>1. CASE front = back
        <5>1. chunk'[front] = new /\ chunk[front] = chunk[back]
          BY <2>4, <4>1
        <5>. QED
          BY <1>3, <2>2, <5>1
      <4>2. CASE front # back
        <5>1. chunk'[front] = chunk[front]
          BY <1>1, <2>4, <4>2
        <5>2. chunk[front].filled \in Nat
          BY <1>3 DEF Chunk
        <5>. QED
          BY <5>1, <5>2
      <4>. QED
        BY <4>1, <4>2
    <3>3. /\ chunk'[front].next <= chunk'[front].filled
          /\ chunk'[front].next < ChunkSize
      <4>1. chunk[front].next \in Nat /\ chunk[front].filled \in Nat
        BY <1>3 DEF Chunk
      <4>2. /\ chunk[front].next <= chunk[front].filled
            /\ chunk[front].next < ChunkSize
        BY <1>9 DEF ListInv
      <4>. QED
        BY <3>2, <4>1, <4>2
    <3>4. chunk'[back].next_chunk = NoChunk /\ chunk'[back].filled > 0
      BY <1>3, <1>9, <2>2, <2>4 DEF ListInv
    <3>. QED
      BY <1>1, <1>4, <1>9, <2>1, <2>4, <3>1, <3>3, <3>4 DEF ListInv
  <2>7. SlotsInv'
    <3>1. Len(added') = First(back') + chunk'[back'].filled
      <4>1. Len(added') = base + (m + 1)
        <5>. HIDE DEF base
        <5>. QED
          BY <1>3, <1>5, <1>8
      <4>. QED
        BY <2>1, <2>2, <2>4, <4>1
    <3>2. Len(taken') = First(front') + chunk'[front'].next
      <4>1. chunk'[front].next = chunk[front].next
        BY <1>1, <2>2, <2>4
      <4>. QED
        BY <1>4, <1>9, <4>1
    <3>3. ASSUME NEW i \in front' .. back', NEW s \in Slots,
                 s < chunk'[i].filled
          PROVE  chunk'[i].tasks[s] = added'[First(i) + s + 1]
      <4>1. CASE i = back /\ s = m
        <5>1. chunk'[i].tasks[s] = x
          BY <1>3, <2>2, <2>4, <4>1 DEF Chunk
        <5>2. First(i) + s + 1 = Len(added) + 1
          BY <1>8, <4>1
        <5>. QED
          BY <1>5, <5>1, <5>2
      <4>2. CASE ~(i = back /\ s = m)
        <5>1. s < chunk[i].filled /\ chunk'[i].tasks[s] = chunk[i].tasks[s]
          <6>1. CASE i = back
            <7>1. s < m + 1 /\ s # m /\ s \in Nat
              BY <2>2, <2>4, <3>3, <4>2, <6>1 DEF Slots
            <7>2. s < m
              BY <1>3, <7>1
            <7>3. chunk[back].tasks \in [Slots -> Items \cup {NULL}]
              BY <1>3 DEF Chunk
            <7>4. chunk'[i].tasks[s] = chunk[back].tasks[s]
              BY <2>2, <2>4, <6>1, <7>1, <7>3
            <7>. QED
              BY <6>1, <7>2, <7>4
          <6>2. CASE i # back
            BY <1>1, <1>4, <2>1, <2>4, <3>3, <6>2
          <6>. QED
            BY <6>1, <6>2
        <5>. QED
          BY <1>4, <1>5, <1>9, <2>1, <5>1
      <4>. QED
        BY <4>1, <4>2
    <3>. QED
      BY <1>7, <3>1, <3>2, <3>3 DEF SlotsInv
  <2>. QED
    BY <2>5, <2>6, <2>7
<1>11. CASE PutInNewChunk(x)
  <2>. DEFINE full == [chunk EXCEPT ![back].next_chunk = Len(chunk) + 1]
              fresh == [NewChunk EXCEPT !.tasks[0] = x, !.filled = 1]
  <2>1. /\ m = ChunkSize
        /\ chunk' = Append(full, fresh)
        /\ back' = Len(chunk) + 1
        /\ live_chunk_count' = live_chunk_count + 1
    BY <1>3, <1>11 DEF PutInNewChunk
  <2>2. /\ fresh \in Chunk
        /\ fresh.tasks[0] = x /\ fresh.filled = 1 /\ fresh.next = 0
        /\ fresh.next_chunk = NoChunk /\ ~fresh.freed
    <3>. DEFINE put == [NewChunk EXCEPT !.tasks[0] = x]
    <3>1. 0 \in Slots /\ 1 \in 0 .. ChunkSize
      BY DEF Slots
    <3>2. /\ put \in Chunk /\ put.tasks[0] = x /\ put.next = 0
          /\ put.next_chunk = NoChunk /\ ~put.freed
      BY <1>2, <3>1, NewChunkType DEF NewChunk, Chunk
    <3>3. fresh = [put EXCEPT !.filled = 1]
      BY DEF NewChunk
    <3>. HIDE DEF put, fresh
    <3>. QED
      BY <3>1, <3>2, <3>3 DEF Chunk
  <2>. DEFINE linked == [chunk[back] EXCEPT !.next_chunk = Len(chunk) + 1]
  <2>3. /\ linked \in Chunk
        /\ linked.next_chunk = back + 1
        /\ linked.filled = chunk[back].filled
        /\ linked.tasks = chunk[back].tasks
        /\ linked.next = chunk[back].next
        /\ linked.freed = chunk[back].freed
    <3>1. Len(chunk) + 1 \in Nat /\ Len(chunk) + 1 = back + 1
      BY <1>1
    <3>2. chunk[back] \in Chunk
      BY <1>3
    <3>. QED
      BY <3>1, <3>2 DEF Chunk
  <2>4. full = [chunk EXCEPT ![back] = linked]
    BY <1>1
  <2>. HIDE DEF full, fresh, linked
  <2>5. /\ full \in Seq(Chunk) /\ Len(full) = Len(chunk)
        /\ full[back] = linked
        /\ \A i \in 1 .. Len(chunk) : i # back => full[i] = chunk[i]
    <3>1. back \in 1 .. Len(chunk)
      BY <1>1
    <3>. QED
      BY <1>1, <2>3, <2>4, <3>1, WriteOne
  <2>6. /\ chunk' \in Seq(Chunk) /\ Len(chunk') = Len(chunk) + 1
        /\ chunk'[Len(chunk) + 1] = fresh
        /\ \A i \in 1 .. Len(chunk) : chunk'[i] = full[i]
    BY <2>1, <2>2, <2>5
  <2>7. \A i \in 1 .. Len(chunk) :
          /\ chunk'[i].filled = chunk[i].filled
          /\ chunk'[i].tasks = chunk[i].tasks
          /\ chunk'[i].next = chunk[i].next
          /\ chunk'[i].freed = chunk[i].freed
          /\ i # back => chunk'[i].next_chunk = chunk[i].next_chunk
    BY <2>3, <2>5, <2>6
  <2>8. TypeOK'
    BY <1>1, <1>4, <1>5, <1>6, <2>1, <2>6 DEF TypeOK
  <2>9. ListInv'
    <3>1. ASSUME NEW i \in 1 .. Len(chunk')
          PROVE  /\ chunk'[i].freed <=> i < front
                 /\ front <= i /\ i < back' =>
                      /\ chunk'[i].next_chunk = i + 1
                      /\ chunk'[i].filled = ChunkSize
                 /\ front < i => chunk'[i].next = 0
      <4>1. CASE i = back + 1
        BY <1>1, <2>1, <2>2, <2>6, <4>1
      <4>2. CASE i = back
        BY <1>1, <1>9, <2>1, <2>3, <2>5, <2>6, <2>7, <4>2 DEF ListInv
      <4>3. CASE i < back
        <5>1. i \in 1 .. Len(chunk) /\ i # back
          BY <1>1, <2>6, <4>3
        <5>2. /\ chunk[i].freed <=> i < front
              /\ front <= i => /\ chunk[i].next_chunk = i + 1
                               /\ chunk[i].filled = ChunkSize
              /\ front < i => chunk[i].next = 0
          BY <1>9, <4>3, <5>1 DEF ListInv
        <5>. QED
          BY <2>7, <5>1, <5>2
      <4>. QED
        BY <1>1, <2>6, <4>1, <4>2, <4>3
    <3>2. live_chunk_count < MaxLiveChunks
      BY <1>1, <1>3, <2>1 DEF AddPut, Full
    <3>3. /\ chunk'[front].next <= chunk'[front].filled
          /\ chunk'[front].next < ChunkSize
      BY <1>1, <1>9, <2>7 DEF ListInv
    <3>4. /\ live_chunk_count' = back' - front' + 1
          /\ live_chunk_count' <= MaxLiveChunks
      <4>1. live_chunk_count = back - front + 1 /\ MaxLiveChunks \in Nat
        BY <1>9 DEF ListInv
      <4>. QED
        BY <1>1, <1>4, <2>1, <3>2, <4>1
    <3>5. /\ front' <= back' /\ back' = Len(chunk')
          /\ chunk'[back'].next_chunk = NoChunk
          /\ chunk'[back'].filled > 0
      BY <1>1, <1>4, <2>1, <2>2, <2>6
    <3>. QED
      BY <1>4, <3>1, <3>3, <3>4, <3>5 DEF ListInv
  <2>10. SlotsInv'
    <3>1. First(back + 1) = Len(added)
      <4>1. First(back + 1) = base + ChunkSize
        BY <1>1, FirstSlot
      <4>. QED
        BY <1>8, <2>1, <4>1
    <3>2. Len(added') = First(back') + chunk'[back'].filled
      BY <1>1, <1>5, <2>1, <2>2, <2>6, <3>1
    <3>3. Len(taken') = First(front') + chunk'[front'].next
      BY <1>1, <1>4, <1>9, <2>7
    <3>4. ASSUME NEW i \in front' .. back', NEW s \in Slots,
                 s < chunk'[i].filled
          PROVE  chunk'[i].tasks[s] = added'[First(i) + s + 1]
      <4>1. CASE i = back + 1
        <5>1. s = 0 /\ chunk'[i].tasks[s] = x
          BY <1>1, <2>2, <2>6, <3>4, <4>1 DEF Slots
        <5>2. First(i) + s + 1 = Len(added) + 1
          <6>1. Len(added) \in Nat /\ First(i) = Len(added)
            BY <1>1, <3>1, <4>1
          <6>. QED
            BY <5>1, <6>1
        <5>. QED
          BY <1>5, <5>1, <5>2
      <4>2. CASE i # back + 1
        <5>1. i \in front .. back /\ i \in 1 .. Len(chunk)
          BY <1>1, <1>4, <2>1, <4>2
        <5>2. /\ s < chunk[i].filled
              /\ chunk'[i].tasks[s] = chunk[i].tasks[s]
          BY <2>7, <3>4, <5>1
        <5>. QED
          BY <1>5, <1>9, <5>1, <5>2
      <4>. QED
        BY <4>1, <4>2
    <3>. QED
      BY <1>7, <3>2, <3>3, <3>4 DEF SlotsInv
  <2>. QED
    BY <2>8, <2>9, <2>10
<1>. QED
  BY <1>10, <1>11 DEF AddPut
-----------------------------------------------------------------------------
(* The other steps leave the list and the history alone. *)

LEMMA ListUntouched ==
  ASSUME QInv, UNCHANGED <<list, added, taken>>,
         dispatched' \in Int, rw_mutex' \in Threads \cup {NULL},
         pc' \in [Threads -> GetPC \cup AddPC \cup {"idle"}],
         task' \in [Threads -> Items \cup {NULL}]
  PROVE  TypeOK' /\ ListInv' /\ SlotsInv'
<1>1. TypeOK'
  BY DEF QInv, TypeOK, list
<1>2. ListInv'
  BY DEF QInv, ListInv, list
<1>3. SlotsInv'
  BY DEF QInv, SlotsInv, list
<1>. QED
  BY <1>1, <1>2, <1>3

(* Taking the mutex. *)
LEMMA LockKeepsQInv ==
  ASSUME QInv, NEW t \in Threads, GetLock(t) \/ AddLock(t)
  PROVE  QInv'
<1> USE QueueAssumption
<1>1. /\ rw_mutex = NULL /\ rw_mutex' = t
      /\ UNCHANGED <<list, dispatched, task, added, taken>>
      /\ \/ /\ pc[t] \in {"get_lock", "get_woken"}
            /\ pc' = [pc EXCEPT ![t] = "get_test"]
         \/ /\ pc[t] \in {"add_lock", "add_woken"}
            /\ pc' = [pc EXCEPT ![t] = "add_test"]
  BY DEF GetLock, AddLock, Lock
<1>2. pc \in [Threads -> GetPC \cup AddPC \cup {"idle"}]
  BY DEF QInv, TypeOK
<1>3. TypeOK' /\ ListInv' /\ SlotsInv'
  BY <1>1, <1>2, ListUntouched DEF QInv, TypeOK, GetPC, AddPC
<1>4. MutexInv'
  BY <1>1, <1>2 DEF QInv, MutexInv, HoldingPC
<1>5. HandInv'
  BY <1>1, <1>2 DEF QInv, HandInv, GetPC, AddPC
<1>. QED
  BY <1>3, <1>4, <1>5 DEF QInv

(* Releasing it to sleep. *)
LEMMA WaitKeepsQInv ==
  ASSUME QInv, NEW t \in Threads, GetWait(t) \/ AddWait(t)
  PROVE  QInv'
<1> USE QueueAssumption
<1>1. /\ rw_mutex' = NULL
      /\ UNCHANGED <<list, dispatched, task, added, taken>>
      /\ \/ pc[t] = "get_test" /\ pc' = [pc EXCEPT ![t] = "get_sleep"]
         \/ pc[t] = "add_test" /\ pc' = [pc EXCEPT ![t] = "add_sleep"]
  BY DEF GetWait, AddWait, CondWait
<1>2. pc \in [Threads -> GetPC \cup AddPC \cup {"idle"}]
  BY DEF QInv, TypeOK
<1>3. TypeOK' /\ ListInv' /\ SlotsInv'
  BY <1>1, <1>2, ListUntouched DEF QInv, TypeOK, GetPC, AddPC
<1>4. MutexInv'
  BY <1>1, <1>2 DEF QInv, MutexInv, HoldingPC
<1>5. HandInv'
  BY <1>1, <1>2 DEF QInv, HandInv, GetPC, AddPC
<1>. QED
  BY <1>3, <1>4, <1>5 DEF QInv

(* Signalling: at most one sleeper of the given kind wakes up. *)
LEMMA SignalKeepsQInv ==
  ASSUME QInv, NEW t \in Threads, GetSignal(t) \/ AddSignal(t)
  PROVE  QInv'
<1> USE QueueAssumption
<1>1. pc \in [Threads -> GetPC \cup AddPC \cup {"idle"}]
  BY DEF QInv, TypeOK
<1>2. /\ rw_mutex' = NULL /\ pc[t] \in {"get_signal", "add_signal"}
      /\ UNCHANGED <<list, dispatched, added, taken>>
  BY DEF GetSignal, AddSignal, SignalAndUnlock
<1>3. CASE GetSignal(t)
  <2>1. /\ pc[t] = "get_signal" /\ task' = task
        /\ \/ pc' = [pc EXCEPT ![t] = "get_count"]
           \/ \E s \in Threads :
                /\ pc[s] = "add_sleep"
                /\ pc' = [pc EXCEPT ![t] = "get_count", ![s] = "add_woken"]
    BY <1>3 DEF GetSignal, SignalAndUnlock, At
  <2>2. /\ pc' \in [Threads -> GetPC \cup AddPC \cup {"idle"}]
        /\ pc'[t] = "get_count"
        /\ \A u \in Threads \ {t} :
             \/ pc'[u] = pc[u]
             \/ pc[u] = "add_sleep" /\ pc'[u] = "add_woken"
    BY <1>1, <2>1 DEF GetPC, AddPC
  <2>3. TypeOK' /\ ListInv' /\ SlotsInv'
    BY <1>2, <2>1, <2>2, ListUntouched DEF QInv, TypeOK
  <2>4. MutexInv'
    BY <1>2, <2>1, <2>2 DEF QInv, MutexInv, HoldingPC
  <2>5. HandInv'
    BY <1>1, <2>1, <2>2 DEF QInv, HandInv, GetPC, AddPC
  <2>. QED
    BY <2>3, <2>4, <2>5 DEF QInv
<1>4. CASE AddSignal(t)
  <2>1. /\ pc[t] = "add_signal" /\ task' = [task EXCEPT ![t] = NULL]
        /\ \/ pc' = [pc EXCEPT ![t] = "idle"]
           \/ \E s \in Threads :
                /\ pc[s] = "get_sleep"
                /\ pc' = [pc EXCEPT ![t] = "idle", ![s] = "get_woken"]
    BY <1>4 DEF AddSignal, SignalAndUnlock, At
  <2>2. /\ pc' \in [Threads -> GetPC \cup AddPC \cup {"idle"}]
        /\ pc'[t] = "idle"
        /\ \A u \in Threads \ {t} :
             \/ pc'[u] = pc[u]
             \/ pc[u] = "get_sleep" /\ pc'[u] = "get_woken"
    BY <1>1, <2>1 DEF GetPC, AddPC
  <2>3. /\ task' \in [Threads -> Items \cup {NULL}]
        /\ \A u \in Threads \ {t} : task'[u] = task[u]
    BY <2>1 DEF QInv, TypeOK
  <2>4. TypeOK' /\ ListInv' /\ SlotsInv'
    BY <1>2, <2>2, <2>3, ListUntouched DEF QInv, TypeOK
  <2>5. MutexInv'
    BY <1>2, <2>1, <2>2 DEF QInv, MutexInv, HoldingPC
  <2>6. HandInv'
    BY <1>1, <2>2, <2>3 DEF QInv, HandInv, GetPC, AddPC
  <2>. QED
    BY <2>4, <2>5, <2>6 DEF QInv
<1>. QED
  BY <1>3, <1>4

(* Steps outside the critical sections. *)
LEMMA OutsideKeepsQInv ==
  ASSUME QInv, NEW t \in Threads,
         \/ GetCall(t) \/ GetCount(t) \/ RegisterCompletion(t)
         \/ SpuriousWakeup(t) \/ \E x \in Items : AddCall(t, x)
  PROVE  QInv'
<1> USE QueueAssumption
<1>1. /\ pc \in [Threads -> GetPC \cup AddPC \cup {"idle"}]
      /\ task \in [Threads -> Items \cup {NULL}] /\ dispatched \in Int
  BY DEF QInv, TypeOK
<1>2. /\ UNCHANGED <<list, rw_mutex, added, taken>>
      /\ dispatched' \in Int
      /\ task' \in [Threads -> Items \cup {NULL}]
      /\ pc' \in [Threads -> GetPC \cup AddPC \cup {"idle"}]
      /\ \A u \in Threads \ {t} : pc'[u] = pc[u] /\ task'[u] = task[u]
      /\ pc[t] \notin HoldingPC /\ pc'[t] \notin HoldingPC
  BY <1>1 DEF GetCall, GetCount, RegisterCompletion, SpuriousWakeup, AddCall,
              GetPC, AddPC, HoldingPC
<1>3. \/ /\ pc'[t] \in {"get_lock", "get_woken"} /\ task'[t] = task[t]
         /\ task[t] = NULL
      \/ pc'[t] = "idle"
      \/ pc'[t] \in AddPC /\ task'[t] \in Items
  BY <1>1 DEF GetCall, GetCount, RegisterCompletion, SpuriousWakeup, AddCall,
              GetPC, AddPC, QInv, HandInv
<1>4. TypeOK' /\ ListInv' /\ SlotsInv'
  BY <1>2, ListUntouched DEF QInv, TypeOK
<1>5. MutexInv'
  BY <1>2 DEF QInv, MutexInv
<1>6. HandInv'
  BY <1>2, <1>3 DEF QInv, HandInv, GetPC, AddPC
<1>. QED
  BY <1>4, <1>5, <1>6 DEF QInv

(* GetTake and AddPut, all of the invariant. *)
LEMMA CriticalKeepsQInv ==
  ASSUME QInv, NEW t \in Threads, GetTake(t) \/ AddPut(t)
  PROVE  QInv'
<1> USE QueueAssumption
<1>1. /\ pc \in [Threads -> GetPC \cup AddPC \cup {"idle"}]
      /\ task \in [Threads -> Items \cup {NULL}]
  BY DEF QInv, TypeOK
<1>2. TypeOK' /\ ListInv' /\ SlotsInv'
  BY GetTakeKeepsList, AddPutKeepsList
<1>3. /\ pc[t] \in HoldingPC /\ pc'[t] \in HoldingPC
      /\ rw_mutex' = rw_mutex
      /\ \A u \in Threads \ {t} : pc'[u] = pc[u] /\ task'[u] = task[u]
  BY <1>1 DEF GetTake, AddPut, HoldingPC
<1>4. \/ pc'[t] = "get_signal" /\ task'[t] \in Items
      \/ pc'[t] = "add_signal" /\ task'[t] \in Items
  <2>1. CASE GetTake(t)
    <3>1. ~Empty
      BY <2>1 DEF GetTake
    <3>2. chunk[front].tasks[chunk[front].next] \in Items
      BY <3>1, HeadOfQueue
    <3>. QED
      BY <1>1, <2>1, <3>2 DEF GetTake
  <2>2. CASE AddPut(t)
    BY <1>1, <2>2 DEF AddPut, QInv, HandInv, AddPC
  <2>. QED
    BY <2>1, <2>2
<1>5. MutexInv'
  BY <1>3 DEF QInv, MutexInv
<1>6. HandInv'
  BY <1>3, <1>4 DEF QInv, HandInv, GetPC, AddPC
<1>. QED
  BY <1>2, <1>5, <1>6 DEF QInv
-----------------------------------------------------------------------------
(* Theorems *)

LEMMA StepQInv == QInv /\ [Next]_vars => QInv'
<1> SUFFICES ASSUME QInv, [Next]_vars PROVE QInv'
  OBVIOUS
<1>1. CASE UNCHANGED vars
  BY <1>1 DEF vars, QInv, TypeOK, MutexInv, HandInv, ListInv, SlotsInv
<1>2. ASSUME NEW t \in Threads, QueueStep(t) \/ SpuriousWakeup(t)
      PROVE  QInv'
  BY <1>2, LockKeepsQInv, WaitKeepsQInv, SignalKeepsQInv, OutsideKeepsQInv,
     CriticalKeepsQInv
  DEF QueueStep, GetStep, AddStep
<1>3. ASSUME NEW t \in Consumers, GetCall(t) \/ RegisterCompletion(t)
      PROVE  QInv'
  BY <1>3, OutsideKeepsQInv DEF Threads
<1>4. ASSUME NEW t \in Producers, NEW x \in Items \ Issued, AddCall(t, x)
      PROVE  QInv'
  BY <1>4, OutsideKeepsQInv DEF Threads
<1>. QED
  BY <1>1, <1>2, <1>3, <1>4 DEF Next

(* The shape of the list, what its slots hold, who holds the mutex and who *)
(* has a task in hand stay as QInv says through every call of QUEUE_add    *)
(* and QUEUE_get, whatever the threads interleave.                         *)
THEOREM QInvHolds == Spec => []QInv
  BY InitQInv, StepQInv, PTL DEF Spec

(* Every variable of the queue stays in its type, whatever the number of   *)
(* threads and tasks, the chunk size and the limit of live chunks: in      *)
(* particular front and back always name a chunk (queue.c:91, 133).        *)
THEOREM TypeCorrect == Spec => []TypeOK
<1>1. QInv => TypeOK
  BY DEF QInv
<1>. QED
  BY <1>1, QInvHolds, PTL

(* The tasks leave the queue in the order they entered it, none lost and   *)
(* none handed out twice: the read and write indices of the chunks never   *)
(* cross, whatever the threads interleave (queue.c:96 and 148).            *)
THEOREM FifoOrder == Spec => []Fifo
<1>1. QInv => Fifo
  <2> SUFFICES ASSUME QInv PROVE Fifo
    OBVIOUS
  <2>1. /\ added \in Seq(Items) /\ taken \in Seq(Items)
        /\ \A n \in 1 .. Len(taken) : n <= Len(added) /\ taken[n] = added[n]
    BY DEF QInv, TypeOK, SlotsInv
  <2>2. Len(taken) <= Len(added)
    BY <2>1
  <2>3. taken = SubSeq(added, 1, Len(taken))
    <3>. DEFINE s == SubSeq(added, 1, Len(taken))
    <3>1. /\ s \in Seq(Items) /\ Len(s) = Len(taken)
          /\ \A n \in 1 .. Len(taken) : s[n] = added[n]
      BY <2>1, <2>2
    <3>. HIDE DEF s
    <3>. QED
      BY <2>1, <3>1
  <2>. QED
    BY <2>2, <2>3 DEF Fifo
<1>. QED
  BY <1>1, QInvHolds, PTL
=============================================================================
