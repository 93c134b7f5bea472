-------------------------- MODULE ParallelMultiply --------------------------
(***************************************************************************)
(* The multiplications of task2/matrix_mul/parallel.c: main cuts the       *)
(* product of every operation into tasks of TASK_CHUNK_SIZE cells, and the *)
(* workers of the pool compute the cells of their tasks concurrently, all  *)
(* of them writing the same product array.  The pool is the abstract one   *)
(* (TaskPool), which WorkerPool implements.                                *)
(***************************************************************************)
EXTENDS Integers, Sequences, FiniteSets

CONSTANTS
  matrix_order, operations,   \* struct Options
  TASK_CHUNK_SIZE,
  WORKER_POOL_THREAD_COUNT,
  Operands,                   \* the matrices the operands are drawn from
  Garbage                     \* what malloc'ed memory holds: any integer

ASSUME MultiplyAssumption ==
  /\ matrix_order \in Nat \ {0}
  /\ operations \in Nat \ {0}
  /\ TASK_CHUNK_SIZE \in Nat \ {0}
  /\ WORKER_POOL_THREAD_COUNT \in Nat \ {0}

(* All matrices are square: OPTIONS_set gives one order (parallel.c:54). *)
cols == matrix_order
max_idx == matrix_order * matrix_order
Cells == 0 .. max_idx - 1
Ops == 1 .. operations

ASSUME OperandsAssumption ==
  Garbage \in Int /\ \A m \in Operands : m \in [Cells -> Int]

MATRIX_idx(row, col) == row * cols + col

(* How many tasks request_multiplication cuts one product into. *)
TasksPerOp == (max_idx + TASK_CHUNK_SIZE - 1) \div TASK_CHUNK_SIZE
AllTasks == 1 .. operations * TasksPerOp

VARIABLES
  operand_as, operand_bs, products,  \* the three arrays of matrices
  op, idx,        \* the operation main is at, and its loop in it
  tasks,          \* the MultiplicationTasks made so far
  local,          \* the locals of sub_multiplication_handler, per task
  status, joined  \* the pool

mult_vars == <<operand_as, operand_bs, products, op, idx, tasks, local,
               status, joined>>

Pool == INSTANCE TaskPool WITH Tasks <- AllTasks,
                               Workers <- WORKER_POOL_THREAD_COUNT

Running(n) == status[n] = "running"
-----------------------------------------------------------------------------
Init ==
  /\ operand_as \in [Ops -> Operands]
  /\ operand_bs \in [Ops -> Operands]
  /\ products = [o \in Ops |-> [c \in Cells |-> Garbage]]
  /\ op = 1 /\ idx = 0
  /\ tasks = <<>>
  /\ local = <<>>
  /\ Pool!Init

(* Mutant: the last chunk not cut at the end of the matrix. *)
EnqueueChunkUnclamped ==
  /\ op <= operations
  /\ idx < max_idx
  /\ tasks' = Append(tasks, [op |-> op, start_idx |-> idx,
                             end_idx |-> idx + TASK_CHUNK_SIZE])
  /\ local' = Append(local, [idx |-> 0, row |-> 0, col |-> 0, k |-> 0])
  /\ Pool!Enqueue(Len(tasks) + 1)
  /\ idx' = idx + TASK_CHUNK_SIZE
  /\ UNCHANGED <<operand_as, operand_bs, products, op>>

(* Mutant: chunks that overlap in one cell. *)
EnqueueChunkOverlapping ==
  /\ op <= operations
  /\ idx < max_idx
  /\ tasks' = Append(tasks,
       [op |-> op, start_idx |-> idx,
        end_idx |-> IF max_idx - idx >= TASK_CHUNK_SIZE
                    THEN idx + TASK_CHUNK_SIZE ELSE max_idx])
  /\ local' = Append(local, [idx |-> 0, row |-> 0, col |-> 0, k |-> 0])
  /\ Pool!Enqueue(Len(tasks) + 1)
  /\ idx' = idx + TASK_CHUNK_SIZE - 1
  /\ UNCHANGED <<operand_as, operand_bs, products, op>>

(* request_multiplication: one turn of its loop, for operation op.  The    *)
(* last chunk ends with the matrix.                                        *)
EnqueueChunk ==
  /\ op <= operations
  /\ idx < max_idx
  /\ tasks' = Append(tasks,
       [op |-> op, start_idx |-> idx,
        end_idx |-> IF max_idx - idx >= TASK_CHUNK_SIZE
                    THEN idx + TASK_CHUNK_SIZE ELSE max_idx])
  /\ local' = Append(local, [idx |-> 0, row |-> 0, col |-> 0, k |-> 0])
  /\ Pool!Enqueue(Len(tasks) + 1)
  /\ idx' = idx + TASK_CHUNK_SIZE
  /\ UNCHANGED <<operand_as, operand_bs, products, op>>

(* It returns, and main goes on to the next operation. *)
NextOperation ==
  /\ op <= operations
  /\ idx >= max_idx
  /\ op' = op + 1 /\ idx' = 0
  /\ UNCHANGED <<operand_as, operand_bs, products, tasks, local, status, joined>>

(* WP_request_stop and WP_join, once everything is enqueued. *)
Join ==
  /\ op > operations
  /\ ~joined
  /\ Pool!Join
  /\ UNCHANGED <<operand_as, operand_bs, products, op, idx, tasks, local>>
-----------------------------------------------------------------------------
(* sub_multiplication_handler *)

StartTask(n) ==
  /\ Pool!Start(n)
  /\ local' = [local EXCEPT ![n] =
       [idx |-> tasks[n].start_idx,
        row |-> tasks[n].start_idx \div cols,
        col |-> tasks[n].start_idx % cols,
        k |-> -1]]
  /\ UNCHANGED <<operand_as, operand_bs, products, op, idx, tasks>>

Computing(n) == Running(n) /\ local[n].idx < tasks[n].end_idx

(* Mutant: the cell not cleared first. *)
ClearCellForgotten(n) ==
  /\ Computing(n)
  /\ local[n].k = -1
  /\ local' = [local EXCEPT ![n].k = 0]
  /\ UNCHANGED <<operand_as, operand_bs, products, op, idx, tasks, status,
                 joined>>

(* The cell is set to 0 (k = -1 until then), *)
ClearCell(n) ==
  /\ Computing(n)
  /\ local[n].k = -1
  /\ products' = [products EXCEPT ![tasks[n].op][local[n].idx] = 0]
  /\ local' = [local EXCEPT ![n].k = 0]
  /\ UNCHANGED <<operand_as, operand_bs, op, idx, tasks, status, joined>>

(* the terms of the scalar product are added to it one by one, *)
AddTerm(n) ==
  /\ Computing(n)
  /\ local[n].k \in 0 .. cols - 1
  /\ LET l == local[n]
         o == tasks[n].op
     IN  products' = [products EXCEPT ![o][l.idx] =
           @ + operand_as[o][MATRIX_idx(l.row, l.k)]
               * operand_bs[o][MATRIX_idx(l.k, l.col)]]
  /\ local' = [local EXCEPT ![n].k = @ + 1]
  /\ UNCHANGED <<operand_as, operand_bs, op, idx, tasks, status, joined>>

(* and the handler moves on to the next cell, in the next row after the    *)
(* last column.                                                            *)
NextCell(n) ==
  /\ Computing(n)
  /\ local[n].k = cols
  /\ LET wraps == local[n].col + 1 = cols
     IN  local' = [local EXCEPT ![n] =
           [idx |-> @.idx + 1,
            col |-> IF wraps THEN 0 ELSE @.col + 1,
            row |-> IF wraps THEN @.row + 1 ELSE @.row,
            k |-> -1]]
  /\ UNCHANGED <<operand_as, operand_bs, products, op, idx, tasks, status, joined>>

FinishTask(n) ==
  /\ Running(n)
  /\ local[n].idx >= tasks[n].end_idx
  /\ Pool!Finish(n)
  /\ UNCHANGED <<operand_as, operand_bs, products, op, idx, tasks, local>>

HandlerStep(n) == ClearCell(n) \/ AddTerm(n) \/ NextCell(n) \/ FinishTask(n)

Next ==
  \/ EnqueueChunk \/ NextOperation \/ Join
  \/ \E n \in DOMAIN tasks : StartTask(n) \/ HandlerStep(n)
  \/ joined /\ UNCHANGED mult_vars

Spec == Init /\ [][Next]_mult_vars
-----------------------------------------------------------------------------
(* Properties *)

(* The loop over k of sequential.c, after n of its turns: the first n      *)
(* terms of the scalar product of a row of a and a column of b.            *)
ScalarProduct(a, b, row, col, n) ==
  LET sum[k \in 0 .. cols] ==
        IF k = 0 THEN 0
        ELSE sum[k - 1] + a[MATRIX_idx(row, k - 1)] * b[MATRIX_idx(k - 1, col)]
  IN  sum[n]

(* The product sequential.c computes, cell by cell on one thread. *)
multiply(a, b) ==
  [c \in Cells |-> ScalarProduct(a, b, c \div cols, c % cols, cols)]

Task == [op : Ops, start_idx : Cells, end_idx : 1 .. max_idx]
Local == [idx : 0 .. max_idx, row : 0 .. matrix_order, col : Cells,
          k : -1 .. matrix_order]

(* The row and column the handler counts along (parallel.c:124-128) are    *)
(* those of the cell it writes, across the ends of rows.                   *)
IndexInStep ==
  \A n \in DOMAIN tasks :
    Computing(n) => /\ MATRIX_idx(local[n].row, local[n].col) = local[n].idx
                    /\ local[n].col < cols

(* Every variable stays in its type, and row and column in step with the   *)
(* index; in particular idx, row and col never leave the matrix and no more  *)
(* tasks are made than request_multiplication can count.                   *)
MultTypeOK ==
  /\ operand_as \in [Ops -> Operands] /\ operand_bs \in [Ops -> Operands]
  /\ products \in [Ops -> [Cells -> Int]]
  /\ op \in 1 .. operations + 1 /\ idx \in Nat
  /\ tasks \in Seq(Task)
  /\ Len(tasks) <= operations * TasksPerOp
  /\ local \in Seq(Local) /\ Len(local) = Len(tasks)
  /\ IndexInStep
  /\ status \in [AllTasks -> {"new", "queued", "running", "done"}]
  /\ joined \in BOOLEAN

(* Two handlers that run at the same time are never at the same cell of    *)
(* the same product: their unsynchronised writes to res->data              *)
(* (parallel.c:120,122) do not race.                                       *)
NoSharedCell ==
  \A m, n \in DOMAIN tasks :
    /\ m # n /\ Computing(m) /\ Computing(n)
    /\ tasks[m].op = tasks[n].op
    => local[m].idx # local[n].idx

(* When main has joined the pool every product is the one sequential.c     *)
(* computes, whatever the memory held before.                              *)
ProductsExact ==
  joined => \A o \in Ops : products[o] = multiply(operand_as[o], operand_bs[o])
=============================================================================
