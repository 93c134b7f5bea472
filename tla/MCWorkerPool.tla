---------------------------- MODULE MCWorkerPool ----------------------------
(* A pool of two or three workers and a few tasks, over a queue of two     *)
(* chunks of two slots: main has to wait for room, chunks are linked,      *)
(* retired and replaced, and the WP_KILLs span two chunks.                 *)
EXTENDS WorkerPool

MCMain == 0
MCWorkers == 1 .. thread_count
MCItems == 1 .. task_count + thread_count
MCProducers == {0}
=============================================================================
