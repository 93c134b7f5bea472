----------------------------- MODULE BoundedFifo -----------------------------
(***************************************************************************)
(* What task2/matrix_mul/queue.h promises: a thread safe, bounded, first   *)
(* in first out queue.  A call is two or three visible steps: a thread     *)
(* offers a task, the task enters the queue at one instant; a task leaves  *)
(* the queue at one instant and is then the taker's until it is done with  *)
(* it.  Chunks, mutexes and condition variables are not visible.           *)
(***************************************************************************)
EXTENDS Integers, Sequences

CONSTANTS Producers, Consumers, Items, Capacity, NULL

VARIABLES
  q,      \* the tasks in the queue, oldest first
  offer,  \* the task each thread waits to see in the queue, or NULL
  got     \* the task each thread has taken and not completed, or NULL

vars == <<q, offer, got>>
Threads == Producers \cup Consumers

Init ==
  /\ q = <<>>
  /\ offer = [t \in Threads |-> NULL]
  /\ got = [t \in Threads |-> NULL]

Offer(t, x) ==
  /\ offer[t] = NULL /\ got[t] = NULL
  /\ offer' = [offer EXCEPT ![t] = x]
  /\ UNCHANGED <<q, got>>

(* A put blocks while the queue is at capacity. *)
Put(t) ==
  /\ offer[t] # NULL
  /\ Len(q) < Capacity
  /\ q' = Append(q, offer[t])
  /\ offer' = [offer EXCEPT ![t] = NULL]
  /\ UNCHANGED got

(* A get blocks while the queue is empty. *)
Get(t) ==
  /\ got[t] = NULL /\ offer[t] = NULL
  /\ q # <<>>
  /\ got' = [got EXCEPT ![t] = Head(q)]
  /\ q' = Tail(q)
  /\ UNCHANGED offer

Complete(t) ==
  /\ got[t] # NULL
  /\ got' = [got EXCEPT ![t] = NULL]
  /\ UNCHANGED <<q, offer>>

Next ==
  \/ \E t \in Producers : (\E x \in Items : Offer(t, x)) \/ Put(t)
  \/ \E t \in Consumers : Get(t) \/ Complete(t)

Spec == Init /\ [][Next]_vars
=============================================================================
