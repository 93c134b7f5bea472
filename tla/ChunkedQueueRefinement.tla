----------------------- MODULE ChunkedQueueRefinement -----------------------
(***************************************************************************)
(* The chunked queue implements the bounded FIFO queue.  The abstract      *)
(* queue is read off the slots of the live chunks, from the read index of  *)
(* the front one to the write index of the back one.                       *)
(***************************************************************************)
EXTENDS ChunkedQueue

Stored ==
  (back - front) * ChunkSize + chunk[back].filled - chunk[front].next

(* The k-th task in the queue: its slot, counted from the front chunk. *)
StoredAt(k) ==
  LET pos == chunk[front].next + k - 1
  IN  chunk[front + (pos \div ChunkSize)].tasks[pos % ChunkSize]

Offered == {"add_lock", "add_test", "add_sleep", "add_woken"}
Taken == {"get_signal", "get_count", "idle"}

Fifo_ == INSTANCE BoundedFifo WITH
  Capacity <- ChunkSize * MaxLiveChunks,
  q <- [k \in 1 .. Stored |-> StoredAt(k)],
  offer <- [t \in Threads |-> IF pc[t] \in Offered THEN task[t] ELSE NULL],
  got <- [t \in Threads |-> IF pc[t] \in Taken THEN task[t] ELSE NULL]

(* Each step of the code is an abstract step or changes nothing abstract:  *)
(* the calls are linearizable at the moment the slot is read or written,   *)
(* the queue is FIFO and never holds more than all its chunks can.         *)
ImplementsFifo == Fifo_!Spec
=============================================================================
