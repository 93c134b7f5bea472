------------------------------ MODULE TaskPool ------------------------------
(***************************************************************************)
(* What task2/matrix_mul/worker_pool.h promises to its caller: every task  *)
(* enqueued is run once, by one of a fixed number of workers, tasks are    *)
(* started in the order they were enqueued, and joining the pool returns   *)
(* only when all of them have been run.                                    *)
(***************************************************************************)
EXTENDS Integers, FiniteSets

CONSTANTS Tasks,    \* the tasks 1 .. n, in the order they are enqueued
          Workers   \* how many tasks may run at once

VARIABLES status, joined
vars == <<status, joined>>

In(s) == {k \in Tasks : status[k] = s}
Earlier(k) == {j \in Tasks : j < k}

Init ==
  /\ status = [k \in Tasks |-> "new"]
  /\ joined = FALSE

Enqueue(k) ==
  /\ status[k] = "new"
  /\ In("new") \cap Earlier(k) = {}
  /\ status' = [status EXCEPT ![k] = "queued"]
  /\ UNCHANGED joined

Start(k) ==
  /\ status[k] = "queued"
  /\ In("queued") \cap Earlier(k) = {}
  /\ Cardinality(In("running")) < Workers
  /\ status' = [status EXCEPT ![k] = "running"]
  /\ UNCHANGED joined

Finish(k) ==
  /\ status[k] = "running"
  /\ status' = [status EXCEPT ![k] = "done"]
  /\ UNCHANGED joined

Join ==
  /\ In("done") = Tasks
  /\ joined' = TRUE
  /\ UNCHANGED status

Next == Join \/ \E k \in Tasks : Enqueue(k) \/ Start(k) \/ Finish(k)

Spec == Init /\ [][Next]_vars
=============================================================================
