-------------------------- MODULE ParallelMultiplyProofs ---------------------
(***************************************************************************)
(* Theorems about ParallelMultiply, for every order, number of operations, *)
(* size of the chunks, number of workers and operands: the handlers never  *)
(* meet in a cell, and the products are those of sequential.c.             *)
(***************************************************************************)
EXTENDS ParallelMultiply, SequenceTheorems, WellFoundedInduction, TLAPS

Done(n) == status[n] = "done"

(* Main has cut idx \div TASK_CHUNK_SIZE chunks off the operation it is at *)
(* and every operation before into TasksPerOp.                             *)
ProgressInv ==
  /\ op > operations => idx = 0
  /\ \E j \in 0 .. TasksPerOp :
       /\ idx = TASK_CHUNK_SIZE * j
       /\ Len(tasks) = (op - 1) * TasksPerOp + j

(* Where main has not yet got to in the products. *)
BehindMain(o, c) == o < op \/ (o = op /\ c < idx)

(* The tasks lie one behind the other, and main behind all of them, *)
OrderInv ==
  /\ \A n \in DOMAIN tasks :
       /\ tasks[n].start_idx < tasks[n].end_idx
       /\ \/ tasks[n].op < op
          \/ tasks[n].op = op /\ tasks[n].end_idx <= idx
  /\ \A m, n \in DOMAIN tasks :
       m < n => \/ tasks[m].op < tasks[n].op
                \/ /\ tasks[m].op = tasks[n].op
                   /\ tasks[m].end_idx <= tasks[n].start_idx

(* and leave no cell out. *)
InTask(n, o, c) ==
  tasks[n].op = o /\ tasks[n].start_idx <= c /\ c < tasks[n].end_idx

CoverInv ==
  \A o \in Ops, c \in Cells :
    BehindMain(o, c) => \E n \in DOMAIN tasks : InTask(n, o, c)

(* A handler stays in its chunk, row and column in step with the index,    *)
(* also when it has just passed the last cell.                             *)
PositionOf(n) ==
  Running(n) =>
    /\ tasks[n].start_idx <= local[n].idx /\ local[n].idx <= tasks[n].end_idx
    /\ MATRIX_idx(local[n].row, local[n].col) = local[n].idx
    /\ local[n].col < cols

PositionInv == \A n \in DOMAIN tasks : PositionOf(n)

Exact(o, c) == products[o][c] = multiply(operand_as[o], operand_bs[o])[c]

(* What a handler has done: the cells behind it are final, the one it is   *)
(* at has the terms added so far.                                          *)
ResultOf(n) ==
  LET o == tasks[n].op
  IN  /\ Done(n) => \A c \in tasks[n].start_idx .. tasks[n].end_idx - 1 :
                      Exact(o, c)
      /\ Running(n) => \A c \in tasks[n].start_idx .. local[n].idx - 1 :
                         Exact(o, c)
      /\ Computing(n) /\ local[n].k # -1 =>
           products[o][local[n].idx] =
             ScalarProduct(operand_as[o], operand_bs[o],
                           local[n].row, local[n].col, local[n].k)

ResultInv == \A n \in DOMAIN tasks : ResultOf(n)

JoinInv == joined => op > operations /\ \A n \in AllTasks : Done(n)

(* MultTypeOK without IndexInStep, which follows from PositionInv. *)
VarTypes ==
  /\ operand_as \in [Ops -> Operands] /\ operand_bs \in [Ops -> Operands]
  /\ products \in [Ops -> [Cells -> Int]]
  /\ op \in 1 .. operations + 1 /\ idx \in Nat
  /\ tasks \in Seq(Task)
  /\ Len(tasks) <= operations * TasksPerOp
  /\ local \in Seq(Local) /\ Len(local) = Len(tasks)
  /\ status \in [AllTasks -> {"new", "queued", "running", "done"}]
  /\ joined \in BOOLEAN

MultInv ==
  /\ VarTypes /\ ProgressInv /\ OrderInv /\ CoverInv
  /\ PositionInv /\ ResultInv /\ JoinInv
-----------------------------------------------------------------------------
(***************************************************************************)
(* Arithmetic                                                              *)
(***************************************************************************)

(* A product with a positive number keeps the order, strictly. *)
LEMMA ProductOrder ==
  ASSUME NEW a \in Int, NEW b \in Int, NEW c \in Nat \ {0}
  PROVE  /\ c * a < c * b => a < b
         /\ a =< b => c * a =< c * b
<1>1. a =< b => c * a =< c * b
  BY Z3
<1>2. b =< a => c * b =< c * a
  BY Z3
<1>3. c * a \in Int /\ c * b \in Int
  OBVIOUS
<1>. QED
  BY <1>1, <1>2, <1>3

(* Quotient and remainder, *)
LEMMA Division ==
  ASSUME NEW x \in Nat, NEW c \in Nat \ {0}
  PROVE  /\ x \div c \in Nat
         /\ x % c \in 0 .. c - 1
         /\ x = (x \div c) * c + (x % c)
  BY Z3

(* and that there are no others. *)
LEMMA DivisionUnique ==
  ASSUME NEW x \in Nat, NEW c \in Nat \ {0},
         NEW q \in Int, NEW r \in 0 .. c - 1, x = q * c + r
  PROVE  q = x \div c /\ r = x % c
<1>. DEFINE d == x \div c
            e == x % c
<1>1. d \in Nat /\ e \in 0 .. c - 1 /\ x = d * c + e
  BY Division
<1>. HIDE DEF d, e
<1>2. c * q = q * c /\ c * d = d * c /\ c * (q + 1) = c * q + c
      /\ c * (d + 1) = c * d + c
  BY <1>1
<1>3. c * q < c * (d + 1) /\ c * d < c * (q + 1)
  <2>1. c * q \in Int /\ c * d \in Int
    BY <1>1
  <2>. QED
    BY <1>1, <1>2, <2>1
<1>4. q < d + 1 /\ d < q + 1
  BY <1>1, <1>3, ProductOrder
<1>5. q = d
  BY <1>1, <1>4
<1>6. r = e
  <2>1. q * c \in Int
    OBVIOUS
  <2>. QED
    BY <1>1, <1>5, <2>1
<1>. QED
  BY <1>5, <1>6 DEF d, e

(* The chunks cover a product, and all but the last lie within it. *)
LEMMA ChunkCount ==
  /\ max_idx \in Nat \ {0}
  /\ TasksPerOp \in Nat
  /\ TASK_CHUNK_SIZE * TasksPerOp >= max_idx
  /\ TASK_CHUNK_SIZE * (TasksPerOp - 1) < max_idx
<1>. DEFINE C == TASK_CHUNK_SIZE
            x == max_idx + C - 1
<1>1. max_idx \in Nat \ {0} /\ C \in Nat \ {0}
  BY MultiplyAssumption DEF max_idx
<1>2. x \in Nat
  BY <1>1
<1>3. /\ TasksPerOp \in Nat
      /\ x % C \in 0 .. C - 1
      /\ x = TasksPerOp * C + (x % C)
  BY <1>1, <1>2, Division DEF TasksPerOp
<1>4. C * TasksPerOp = TasksPerOp * C /\ C * (TasksPerOp - 1) = C * TasksPerOp - C
  BY <1>1, <1>3
<1>5. C * TasksPerOp \in Int
  BY <1>1, <1>3
<1>. HIDE DEF C
<1>6. C * TasksPerOp >= max_idx /\ C * (TasksPerOp - 1) < max_idx
  BY <1>1, <1>3, <1>4, <1>5
<1>. QED
  BY <1>1, <1>3, <1>6 DEF C

(* The index of a cell, from its row and column. *)
LEMMA CellIndex ==
  ASSUME NEW row \in 0 .. matrix_order - 1, NEW col \in 0 .. matrix_order - 1
  PROVE  MATRIX_idx(row, col) \in Cells
<1>1. matrix_order \in Nat \ {0}
  BY MultiplyAssumption
<1>2. matrix_order * (row + 1) =< matrix_order * matrix_order
  BY <1>1, ProductOrder
<1>3. matrix_order * (row + 1) = row * matrix_order + matrix_order
  BY <1>1
<1>4. row * matrix_order \in Nat
  BY <1>1
<1>5. row * matrix_order + col \in 0 .. matrix_order * matrix_order - 1
  BY <1>1, <1>2, <1>3, <1>4
<1>. QED
  BY <1>5 DEF MATRIX_idx, Cells, cols, max_idx

(* An index within the matrix has its row within it. *)
LEMMA RowInMatrix ==
  ASSUME NEW row \in Int, NEW col \in 0 .. matrix_order - 1, NEW i \in 0 .. max_idx,
         MATRIX_idx(row, col) = i
  PROVE  /\ row \in 0 .. matrix_order
         /\ i < max_idx => row \in 0 .. matrix_order - 1
<1>1. matrix_order \in Nat \ {0}
  BY MultiplyAssumption
<1>2. i = row * matrix_order + col /\ i =< matrix_order * matrix_order
  BY DEF MATRIX_idx, cols, max_idx
<1>3. matrix_order * row = row * matrix_order
      /\ matrix_order * (row + 1) = row * matrix_order + matrix_order
  BY <1>1
<1>4. row * matrix_order \in Int /\ matrix_order * matrix_order \in Int
  BY <1>1
<1>5. i \in Nat
  BY <1>1 DEF max_idx
<1>6. matrix_order * row =< matrix_order * matrix_order
  BY <1>1, <1>2, <1>3, <1>4, <1>5
<1>7. matrix_order * 0 < matrix_order * (row + 1)
  BY <1>1, <1>2, <1>3, <1>4, <1>5
<1>8. 0 < row + 1
  BY <1>1, <1>7, ProductOrder
<1>9. row < matrix_order + 1
  <2>1. matrix_order * row < matrix_order * (matrix_order + 1)
    <3>1. matrix_order * (matrix_order + 1) = matrix_order * matrix_order + matrix_order
      BY <1>1
    <3>. QED
      BY <1>1, <1>3, <1>4, <1>6, <3>1
  <2>. QED
    BY <1>1, <2>1, ProductOrder
<1>10. ASSUME i < max_idx PROVE row < matrix_order
  <2>1. matrix_order * row < matrix_order * matrix_order
    BY <1>1, <1>2, <1>3, <1>4, <1>5, <1>10 DEF max_idx
  <2>. QED
    BY <1>1, <2>1, ProductOrder
<1>. QED
  BY <1>1, <1>8, <1>9, <1>10
-----------------------------------------------------------------------------
(***************************************************************************)
(* The sum of sequential.c                                                 *)
(***************************************************************************)

(* The sums of the first k of the terms t, for k up to n. *)
IsSum(s, t, n) ==
  s = [k \in 0 .. n |-> IF k = 0 THEN 0 ELSE s[k - 1] + t[k - 1]]

(* There are such sums: were there none for some n, there would be a least *)
(* n without, and the sums for n - 1 would extend to it.                   *)
LEMMA SumExists ==
  ASSUME NEW t, NEW n \in Nat
  PROVE  \E s : IsSum(s, t, n)
<1>. DEFINE Bad == {m \in Nat : ~\E s : IsSum(s, t, m)}
            R == OpToRel(<, Nat)
<1>1. SUFFICES ASSUME Bad # {} PROVE FALSE
  OBVIOUS
<1>2. IsWellFoundedOn(R, Nat)
  BY NatLessThanWellFounded
<1>3. \A i, j \in Nat : i < j => <<i, j>> \in R
  BY DEF OpToRel
<1>. HIDE DEF R
<1>4. PICK m \in Bad : \A i \in Bad : <<i, m>> \notin R
  <2>1. Bad \subseteq Nat
    OBVIOUS
  <2>. HIDE DEF Bad
  <2>. QED
    BY <1>1, <1>2, <2>1, WFMin, Zenon
<1>5. m \in Nat /\ ~\E s : IsSum(s, t, m)
  OBVIOUS
<1>6. CASE m = 0
  <2>. DEFINE s == [k \in 0 .. m |-> 0]
  <2>1. s = [k \in 0 .. m |-> IF k = 0 THEN 0 ELSE s[k - 1] + t[k - 1]]
    BY <1>6
  <2>. HIDE DEF s
  <2>. QED
    BY <1>5, <2>1 DEF IsSum
<1>7. CASE m # 0
  <2>1. m - 1 \in Nat /\ m - 1 < m
    BY <1>5, <1>7
  <2>2. m - 1 \notin Bad
    BY <1>3, <1>4, <1>5, <2>1
  <2>3. PICK s : IsSum(s, t, m - 1)
    BY <2>1, <2>2
  <2>4. s = [k \in 0 .. m - 1 |-> IF k = 0 THEN 0 ELSE s[k - 1] + t[k - 1]]
    BY <2>3 DEF IsSum
  <2>. DEFINE r == [k \in 0 .. m |-> IF k = m THEN s[m - 1] + t[m - 1] ELSE s[k]]
  <2>5. \A k \in 0 .. m - 1 : r[k] = s[k]
    BY <1>5
  <2>6. ASSUME NEW k \in 0 .. m
        PROVE  r[k] = IF k = 0 THEN 0 ELSE r[k - 1] + t[k - 1]
    <3>1. CASE k = m
      <4>1. r[k] = s[m - 1] + t[m - 1]
        BY <3>1
      <4>2. r[m - 1] = s[m - 1]
        BY <2>1, <2>5
      <4>. HIDE DEF r
      <4>. QED
        BY <1>7, <3>1, <4>1, <4>2
    <3>2. CASE k # m
      <4>1. k \in 0 .. m - 1
        BY <1>5, <3>2
      <4>2. s[k] = IF k = 0 THEN 0 ELSE s[k - 1] + t[k - 1]
        BY <2>4, <4>1
      <4>3. k # 0 => k - 1 \in 0 .. m - 1
        BY <4>1
      <4>4. k # 0 => r[k - 1] = s[k - 1]
        BY <2>5, <4>3
      <4>5. r[k] = s[k]
        BY <2>5, <4>1
      <4>. HIDE DEF r
      <4>. QED
        BY <4>2, <4>4, <4>5
    <3>. QED
      BY <3>1, <3>2
  <2>7. r = [k \in 0 .. m |-> r[k]]
    OBVIOUS
  <2>. HIDE DEF r
  <2>8. r = [k \in 0 .. m |-> IF k = 0 THEN 0 ELSE r[k - 1] + t[k - 1]]
    BY <2>6, <2>7
  <2>. QED
    BY <1>5, <2>8 DEF IsSum
<1>. QED
  BY <1>6, <1>7

Term(a, b, row, col, k) == a[MATRIX_idx(row, k)] * b[MATRIX_idx(k, col)]

(* ScalarProduct adds up term by term, as its definition says. *)
LEMMA TermsAddUp ==
  ASSUME NEW a, NEW b, NEW row, NEW col
  PROVE  /\ ScalarProduct(a, b, row, col, 0) = 0
         /\ \A k \in 0 .. cols - 1 :
              ScalarProduct(a, b, row, col, k + 1) =
                ScalarProduct(a, b, row, col, k) + Term(a, b, row, col, k)
<1>. DEFINE t == [k \in 0 .. cols |-> Term(a, b, row, col, k)]
            Unfolds(s) == s = [k \in 0 .. cols |->
              IF k = 0 THEN 0 ELSE s[k - 1] +
                a[MATRIX_idx(row, k - 1)] * b[MATRIX_idx(k - 1, col)]]
            sum == CHOOSE s : Unfolds(s)
<1>1. cols \in Nat \ {0}
  BY MultiplyAssumption DEF cols
<1>2. PICK s : IsSum(s, t, cols)
  BY <1>1, SumExists
<1>3. \A k \in 0 .. cols : k # 0 => t[k - 1] = Term(a, b, row, col, k - 1)
  BY <1>1
<1>. HIDE DEF t
<1>4. \A k \in 0 .. cols :
        (IF k = 0 THEN 0 ELSE s[k - 1] + t[k - 1]) =
        (IF k = 0 THEN 0 ELSE s[k - 1] +
           a[MATRIX_idx(row, k - 1)] * b[MATRIX_idx(k - 1, col)])
  BY <1>3 DEF Term
<1>5. Unfolds(s)
  BY <1>2, <1>4 DEF IsSum
<1>6. Unfolds(sum)
  BY <1>5, Zenon
<1>7. \A n : ScalarProduct(a, b, row, col, n) = sum[n]
  BY Zenon DEF ScalarProduct
<1>. HIDE DEF sum
<1>8. \A k \in 0 .. cols : sum[k] =
        IF k = 0 THEN 0 ELSE sum[k - 1] +
          a[MATRIX_idx(row, k - 1)] * b[MATRIX_idx(k - 1, col)]
  BY <1>6
<1>9. sum[0] = 0
  BY <1>1, <1>8
<1>10. ASSUME NEW k \in 0 .. cols - 1
       PROVE  sum[k + 1] = sum[k] + Term(a, b, row, col, k)
  <2>1. k + 1 \in 0 .. cols /\ k + 1 # 0 /\ (k + 1) - 1 = k
    BY <1>1
  <2>. QED
    BY <1>8, <2>1 DEF Term
<1>. QED
  BY <1>7, <1>9, <1>10
-----------------------------------------------------------------------------
(***************************************************************************)
(* Main                                                                    *)
(***************************************************************************)

LEMMA Sizes ==
  /\ max_idx \in Nat \ {0} /\ cols \in Nat \ {0} /\ cols =< max_idx
  /\ Cells = 0 .. max_idx - 1
  /\ operations \in Nat \ {0} /\ Ops = 1 .. operations
  /\ TASK_CHUNK_SIZE \in Nat \ {0}
  /\ TasksPerOp \in Nat /\ operations * TasksPerOp \in Nat
  /\ AllTasks = 1 .. operations * TasksPerOp
<1>1. matrix_order \in Nat \ {0} /\ max_idx \in Nat \ {0}
  BY MultiplyAssumption, ChunkCount
<1>2. matrix_order * 1 =< matrix_order * matrix_order
  BY <1>1, ProductOrder
<1>3. cols =< max_idx
  BY <1>1, <1>2 DEF cols, max_idx
<1>4. TasksPerOp \in Nat
  BY ChunkCount
<1>5. operations * TasksPerOp \in Nat
  BY <1>4, MultiplyAssumption
<1>. QED
  BY <1>1, <1>3, <1>4, <1>5, MultiplyAssumption DEF cols, Cells, Ops, AllTasks

(* What VarTypes says of a task that has been made. *)
LEMMA TaskTypes ==
  ASSUME VarTypes
  PROVE  /\ Len(tasks) \in Nat /\ DOMAIN tasks = 1 .. Len(tasks)
         /\ DOMAIN tasks \subseteq AllTasks /\ DOMAIN local = DOMAIN tasks
         /\ \A n \in DOMAIN tasks : tasks[n] \in Task /\ local[n] \in Local
<1>1. tasks \in Seq(Task) /\ local \in Seq(Local) /\ Len(local) = Len(tasks)
  BY DEF VarTypes
<1>2. Len(tasks) \in Nat /\ DOMAIN tasks = 1 .. Len(tasks) /\ DOMAIN local = DOMAIN tasks
  BY <1>1
<1>3. DOMAIN tasks \subseteq AllTasks
  BY <1>2, Sizes DEF VarTypes
<1>4. \A n \in DOMAIN tasks : tasks[n] \in Task /\ local[n] \in Local
  BY <1>1, <1>2
<1>. QED
  BY <1>2, <1>3, <1>4

LEMMA InitMult ==
  ASSUME Init
  PROVE  MultInv
<1>1. /\ operand_as \in [Ops -> Operands] /\ operand_bs \in [Ops -> Operands]
      /\ products = [o \in Ops |-> [c \in Cells |-> Garbage]]
      /\ op = 1 /\ idx = 0 /\ tasks = <<>> /\ local = <<>>
      /\ status = [n \in AllTasks |-> "new"] /\ joined = FALSE
  BY DEF Init, Pool!Init
<1>2. Len(tasks) = 0 /\ Len(local) = 0 /\ DOMAIN tasks = {}
  BY <1>1
<1>3. VarTypes
  <2>1. tasks \in Seq(Task) /\ local \in Seq(Local)
    BY <1>1, EmptySeq
  <2>2. products \in [Ops -> [Cells -> Int]]
    BY <1>1, OperandsAssumption
  <2>3. op \in 1 .. operations + 1 /\ idx \in Nat
    BY <1>1, Sizes
  <2>4. Len(tasks) =< operations * TasksPerOp
    BY <1>2, Sizes
  <2>5. status \in [AllTasks -> {"new", "queued", "running", "done"}]
        /\ joined \in BOOLEAN
    BY <1>1
  <2>. QED
    BY <1>1, <1>2, <2>1, <2>2, <2>3, <2>4, <2>5 DEF VarTypes
<1>4. ProgressInv
  <2>1. op =< operations
    BY <1>1, Sizes
  <2>2. /\ 0 \in 0 .. TasksPerOp /\ idx = TASK_CHUNK_SIZE * 0
        /\ Len(tasks) = (op - 1) * TasksPerOp + 0
    BY <1>1, <1>2, Sizes
  <2>. QED
    BY <1>1, <2>2, Zenon DEF ProgressInv
<1>5. CoverInv
  BY <1>1, Sizes DEF CoverInv, BehindMain
<1>. QED
  BY <1>1, <1>2, <1>3, <1>4, <1>5
     DEF MultInv, OrderInv, PositionInv, ResultInv, JoinInv

(* Main cuts another chunk. *)
NewTask == [op |-> op, start_idx |-> idx,
            end_idx |-> IF max_idx - idx >= TASK_CHUNK_SIZE
                        THEN idx + TASK_CHUNK_SIZE ELSE max_idx]
NewLocal == [idx |-> 0, row |-> 0, col |-> 0, k |-> 0]

LEMMA EnqueueStep ==
  ASSUME MultInv, EnqueueChunk
  PROVE  MultInv'
<1>0. PICK N : N = Len(tasks) + 1
  OBVIOUS
<1>1. /\ op =< operations /\ idx < max_idx
      /\ tasks' = Append(tasks, NewTask) /\ local' = Append(local, NewLocal)
      /\ status[N] = "new" /\ status' = [status EXCEPT ![N] = "queued"]
      /\ idx' = idx + TASK_CHUNK_SIZE
      /\ UNCHANGED <<operand_as, operand_bs, products, op, joined>>
  BY <1>0 DEF EnqueueChunk, Pool!Enqueue, NewTask, NewLocal
<1>2. VarTypes /\ ProgressInv /\ OrderInv /\ CoverInv /\ PositionInv /\ ResultInv /\ JoinInv
  BY DEF MultInv
<1>3. /\ op \in Ops /\ idx \in Nat /\ tasks \in Seq(Task) /\ local \in Seq(Local)
      /\ Len(local) = Len(tasks) /\ Len(tasks) \in Nat
      /\ DOMAIN tasks = 1 .. Len(tasks)
  BY <1>1, <1>2, Sizes, TaskTypes DEF VarTypes
<1>4. PICK j \in 0 .. TasksPerOp :
         idx = TASK_CHUNK_SIZE * j /\ Len(tasks) = (op - 1) * TasksPerOp + j
  BY <1>2, Zenon DEF ProgressInv
<1>5. j < TasksPerOp
  <2>1. max_idx =< TASK_CHUNK_SIZE * TasksPerOp
    BY ChunkCount
  <2>2. TASK_CHUNK_SIZE * TasksPerOp \in Int /\ TASK_CHUNK_SIZE * j \in Int
        /\ max_idx \in Int
    BY Sizes
  <2>3. TASK_CHUNK_SIZE * j < TASK_CHUNK_SIZE * TasksPerOp
    BY <1>1, <1>4, <2>1, <2>2
  <2>. QED
    BY <2>3, ProductOrder, Sizes
<1>6. N =< operations * TasksPerOp
  <2>1. (op - 1) * TasksPerOp + TasksPerOp = op * TasksPerOp
    BY <1>3, Sizes
  <2>2. op * TasksPerOp =< operations * TasksPerOp
    BY <1>3, Sizes, Z3
  <2>3. (op - 1) * TasksPerOp \in Int /\ op * TasksPerOp \in Int
    BY <1>3, Sizes
  <2>. QED
    BY <1>0, <1>4, <1>5, <2>1, <2>2, <2>3, Sizes
<1>7. N \in AllTasks
  BY <1>0, <1>3, <1>6, Sizes
<1>8. /\ NewTask \in Task /\ NewTask.op = op
      /\ NewTask.start_idx = idx
      /\ idx < NewTask.end_idx /\ NewTask.end_idx =< max_idx
      /\ NewTask.end_idx =< idx + TASK_CHUNK_SIZE
      /\ NewTask.end_idx = max_idx \/ NewTask.end_idx = idx + TASK_CHUNK_SIZE
  BY <1>1, <1>3, Sizes DEF NewTask, Task
<1>9. NewLocal \in Local
  <2>1. 0 \in Cells /\ 0 \in 0 .. max_idx /\ 0 \in 0 .. matrix_order
        /\ 0 \in -1 .. matrix_order
    BY Sizes, MultiplyAssumption
  <2>. QED
    BY <2>1 DEF NewLocal, Local
<1>10. /\ tasks' \in Seq(Task) /\ Len(tasks') = N /\ tasks'[N] = NewTask
       /\ \A n \in DOMAIN tasks : tasks'[n] = tasks[n]
  BY <1>0, <1>1, <1>3, <1>8, AppendProperties
<1>11. /\ local' \in Seq(Local) /\ Len(local') = N /\ local'[N] = NewLocal
       /\ \A n \in DOMAIN tasks : local'[n] = local[n]
  BY <1>0, <1>1, <1>3, <1>9, AppendProperties
<1>12. /\ DOMAIN tasks' = DOMAIN tasks \cup {N}
       /\ \A n \in DOMAIN tasks : n < N /\ n # N
  BY <1>0, <1>3, <1>10
<1>13. /\ status' \in [AllTasks -> {"new", "queued", "running", "done"}]
       /\ status'[N] = "queued"
       /\ \A n \in DOMAIN tasks : status'[n] = status[n]
  <2>1. status \in [AllTasks -> {"new", "queued", "running", "done"}]
    BY <1>2 DEF VarTypes
  <2>2. DOMAIN tasks \subseteq AllTasks
    BY <1>2, TaskTypes
  <2>. QED
    BY <1>1, <1>7, <1>12, <2>1, <2>2
<1>14. VarTypes'
  <2>1. idx' \in Nat
    BY <1>1, <1>3, Sizes
  <2>. QED
    BY <1>1, <1>2, <1>6, <1>10, <1>11, <1>13, <2>1
       DEF VarTypes, Task, Local, Ops, Cells, TasksPerOp, AllTasks, max_idx
<1>15. ProgressInv'
  <2>1. j + 1 \in 0 .. TasksPerOp
    BY <1>5, Sizes
  <2>2. idx' = TASK_CHUNK_SIZE * (j + 1)
    BY <1>1, <1>4, Sizes
  <2>3. Len(tasks') = (op' - 1) * TasksPerOp + (j + 1)
    <3>1. (op - 1) * TasksPerOp \in Int
      BY <1>3, Sizes
    <3>. QED
      BY <1>0, <1>1, <1>4, <1>10, <3>1, Sizes
  <2>4. ~(op' > operations)
    BY <1>1, <1>3, Sizes
  <2>5. (\E i \in 0 .. TasksPerOp : /\ idx = TASK_CHUNK_SIZE * i
                                    /\ Len(tasks) = (op - 1) * TasksPerOp + i)'
    BY <2>1, <2>2, <2>3
  <2>. QED
    BY <2>4, <2>5 DEF ProgressInv
<1>16. OrderInv'
  <2>1. ASSUME NEW n \in DOMAIN tasks'
        PROVE  /\ tasks'[n].start_idx < tasks'[n].end_idx
               /\ \/ tasks'[n].op < op'
                  \/ tasks'[n].op = op' /\ tasks'[n].end_idx =< idx'
    <3>1. CASE n = N
      BY <1>1, <1>8, <1>10, <3>1
    <3>2. CASE n \in DOMAIN tasks
      <4>1. tasks[n].end_idx \in Nat
        BY <1>2, <3>2, TaskTypes DEF Task
      <4>2. /\ tasks[n].start_idx < tasks[n].end_idx
            /\ tasks[n].op < op \/ (tasks[n].op = op /\ tasks[n].end_idx =< idx)
        BY <1>2, <3>2 DEF OrderInv
      <4>. QED
        BY <1>1, <1>3, <1>10, <3>2, <4>1, <4>2, Sizes
    <3>. QED
      BY <1>12, <3>1, <3>2
  <2>2. ASSUME NEW m \in DOMAIN tasks', NEW n \in DOMAIN tasks', m < n
        PROVE  \/ tasks'[m].op < tasks'[n].op
               \/ /\ tasks'[m].op = tasks'[n].op
                  /\ tasks'[m].end_idx =< tasks'[n].start_idx
    <3>1. CASE n \in DOMAIN tasks
      <4>1. m \in DOMAIN tasks
        BY <1>0, <1>3, <1>12, <2>2, <3>1
      <4>2. \/ tasks[m].op < tasks[n].op
            \/ tasks[m].op = tasks[n].op /\ tasks[m].end_idx =< tasks[n].start_idx
        BY <1>2, <2>2, <3>1, <4>1 DEF OrderInv
      <4>. QED
        BY <1>10, <3>1, <4>1, <4>2
    <3>2. CASE n = N
      <4>1. m \in DOMAIN tasks
        BY <1>0, <1>3, <1>12, <2>2, <3>2
      <4>2. tasks[m].op < op \/ (tasks[m].op = op /\ tasks[m].end_idx =< idx)
        BY <1>2, <4>1 DEF OrderInv
      <4>. QED
        BY <1>8, <1>10, <3>2, <4>1, <4>2
    <3>. QED
      BY <1>12, <3>1, <3>2
  <2>. QED
    BY <2>1, <2>2 DEF OrderInv
<1>17. CoverInv'
  <2>1. ASSUME NEW o \in Ops, NEW c \in Cells, BehindMain(o, c)'
        PROVE  (\E n \in DOMAIN tasks : InTask(n, o, c))'
    <3>1. CASE BehindMain(o, c)
      <4>1. PICK n \in DOMAIN tasks : InTask(n, o, c)
        BY <1>2, <3>1 DEF CoverInv
      <4>2. n \in DOMAIN tasks' /\ InTask(n, o, c)'
        BY <1>10, <1>12, <4>1 DEF InTask
      <4>. QED
        BY <4>2
    <3>2. CASE ~BehindMain(o, c)
      <4>1. o = op /\ idx =< c /\ c < idx + TASK_CHUNK_SIZE /\ c < max_idx
        BY <1>1, <1>3, <2>1, <3>2, Sizes DEF BehindMain
      <4>2. N \in DOMAIN tasks' /\ InTask(N, o, c)'
        BY <1>8, <1>10, <1>12, <4>1 DEF InTask
      <4>. QED
        BY <4>2
    <3>. QED
      BY <3>1, <3>2
  <2>. QED
    BY <2>1 DEF CoverInv, Ops, Cells, max_idx
<1>18. PositionInv'
  <2>1. ASSUME NEW n \in DOMAIN tasks'
        PROVE  PositionOf(n)'
    <3>1. CASE n = N
      BY <1>13, <3>1 DEF PositionOf, Running
    <3>2. CASE n \in DOMAIN tasks
      BY <1>2, <1>10, <1>11, <1>13, <3>2 DEF PositionInv, PositionOf, Running
    <3>. QED
      BY <1>12, <3>1, <3>2
  <2>. QED
    BY <2>1 DEF PositionInv
<1>19. ResultInv'
  <2>1. ASSUME NEW n \in DOMAIN tasks'
        PROVE  ResultOf(n)'
    <3>1. CASE n = N
      BY <1>13, <3>1 DEF ResultOf, Running, Computing, Done
    <3>2. CASE n \in DOMAIN tasks
      BY <1>1, <1>2, <1>10, <1>11, <1>13, <3>2
         DEF ResultInv, ResultOf, Running, Computing, Done, Exact
    <3>. QED
      BY <1>12, <3>1, <3>2
  <2>. QED
    BY <2>1 DEF ResultInv
<1>20. JoinInv'
  BY <1>1, <1>2, <1>3, Sizes DEF JoinInv
<1>. QED
  BY <1>14, <1>15, <1>16, <1>17, <1>18, <1>19, <1>20 DEF MultInv
(* Main goes on to the next operation: it has cut all the chunks of this   *)
(* one, and they cover it.                                                 *)
LEMMA NextOperationStep ==
  ASSUME MultInv, NextOperation
  PROVE  MultInv'
<1>1. /\ op =< operations /\ idx >= max_idx /\ op' = op + 1 /\ idx' = 0
      /\ UNCHANGED <<operand_as, operand_bs, products, tasks, local, status, joined>>
  BY DEF NextOperation
<1>2. VarTypes /\ ProgressInv /\ OrderInv /\ CoverInv /\ PositionInv /\ ResultInv /\ JoinInv
  BY DEF MultInv
<1>3. op \in Ops /\ idx \in Nat /\ Len(tasks) \in Nat
  BY <1>1, <1>2, Sizes, TaskTypes DEF VarTypes
<1>4. VarTypes'
  <2>1. op' \in 1 .. operations + 1 /\ idx' \in Nat
    BY <1>1, <1>3, Sizes
  <2>. QED
    BY <1>1, <1>2, <2>1
       DEF VarTypes, Task, Local, Ops, Cells, TasksPerOp, AllTasks, max_idx
<1>5. PICK j \in 0 .. TasksPerOp :
         idx = TASK_CHUNK_SIZE * j /\ Len(tasks) = (op - 1) * TasksPerOp + j
  BY <1>2, Zenon DEF ProgressInv
<1>6. j = TasksPerOp
  <2>1. TASK_CHUNK_SIZE * (TasksPerOp - 1) < max_idx
    BY ChunkCount
  <2>2. TASK_CHUNK_SIZE * (TasksPerOp - 1) \in Int /\ TASK_CHUNK_SIZE * j \in Int
        /\ max_idx \in Int
    BY Sizes
  <2>3. TASK_CHUNK_SIZE * (TasksPerOp - 1) < TASK_CHUNK_SIZE * j
    BY <1>1, <1>5, <2>1, <2>2
  <2>4. TasksPerOp - 1 < j
    BY <2>3, ProductOrder, Sizes
  <2>. QED
    BY <2>4, Sizes
<1>7. ProgressInv'
  <2>1. 0 \in 0 .. TasksPerOp /\ idx' = TASK_CHUNK_SIZE * 0
    BY <1>1, Sizes
  <2>2. Len(tasks') = (op' - 1) * TasksPerOp + 0
    <3>1. (op - 1) * TasksPerOp + TasksPerOp = op * TasksPerOp
      BY <1>3, Sizes
    <3>2. op' - 1 = op /\ op * TasksPerOp + 0 = op * TasksPerOp
      BY <1>1, <1>3, Sizes
    <3>. QED
      BY <1>1, <1>5, <1>6, <3>1, <3>2
  <2>3. (\E i \in 0 .. TasksPerOp : /\ idx = TASK_CHUNK_SIZE * i
                                    /\ Len(tasks) = (op - 1) * TasksPerOp + i)'
    BY <2>1, <2>2
  <2>. QED
    BY <1>1, <2>3 DEF ProgressInv
<1>8. OrderInv'
  <2>1. ASSUME NEW n \in DOMAIN tasks
        PROVE  tasks[n].op < op'
    <3>1. tasks[n].op \in Ops
      BY <1>2, TaskTypes DEF Task
    <3>2. tasks[n].op =< op
      BY <1>2, <1>3, <3>1, Sizes DEF OrderInv
    <3>. QED
      BY <1>1, <1>3, <3>1, <3>2, Sizes
  <2>. QED
    BY <1>1, <1>2, <2>1 DEF OrderInv
<1>9. CoverInv'
  <2>1. ASSUME NEW o \in Ops, NEW c \in Cells, BehindMain(o, c)'
        PROVE  BehindMain(o, c)
    BY <1>1, <1>3, <2>1, Sizes DEF BehindMain
  <2>. QED
    BY <1>1, <1>2, <2>1 DEF CoverInv, InTask, Ops, Cells, max_idx
<1>10. PositionInv' /\ ResultInv'
  BY <1>1, <1>2
     DEF PositionInv, PositionOf, ResultInv, ResultOf, Running, Computing, Done, Exact
<1>11. JoinInv'
  BY <1>1, <1>2, <1>3, Sizes DEF JoinInv, Done, AllTasks, TasksPerOp, max_idx
<1>. QED
  BY <1>4, <1>7, <1>8, <1>9, <1>10, <1>11 DEF MultInv

LEMMA JoinStep ==
  ASSUME MultInv, Join
  PROVE  MultInv'
<1>1. /\ op > operations /\ joined' = TRUE
      /\ {n \in AllTasks : status[n] = "done"} = AllTasks
      /\ UNCHANGED <<operand_as, operand_bs, products, op, idx, tasks, local, status>>
  BY DEF Join, Pool!Join, Pool!In
<1>2. JoinInv'
  BY <1>1 DEF JoinInv, Done, AllTasks, TasksPerOp, max_idx
<1>3. VarTypes' /\ ProgressInv' /\ OrderInv' /\ CoverInv'
  BY <1>1 DEF MultInv, VarTypes, ProgressInv, OrderInv, CoverInv, BehindMain, InTask,
              Task, Local, Ops, Cells, TasksPerOp, AllTasks, max_idx
<1>4. PositionInv' /\ ResultInv'
  BY <1>1 DEF MultInv, PositionInv, PositionOf, ResultInv, ResultOf, Running,
              Computing, Done, Exact
<1>. QED
  BY <1>2, <1>3, <1>4 DEF MultInv
-----------------------------------------------------------------------------
(***************************************************************************)
(* The handlers                                                            *)
(***************************************************************************)

(* A step of a handler leaves what main has done alone. *)
LEMMA HandlerFrame ==
  ASSUME MultInv, UNCHANGED <<operand_as, operand_bs, op, idx, tasks, joined>>
  PROVE  ProgressInv' /\ OrderInv' /\ CoverInv'
BY DEF MultInv, ProgressInv, OrderInv, CoverInv, BehindMain, InTask, Ops, Cells,
       TasksPerOp, max_idx

(* A running handler is not one main has joined. *)
LEMMA NotJoined ==
  ASSUME MultInv, NEW n \in DOMAIN tasks, status[n] # "done"
  PROVE  ~joined
<1>1. n \in AllTasks
  BY TaskTypes DEF MultInv
<1>. QED
  BY <1>1 DEF MultInv, JoinInv, Done

(* Two tasks have no cell in common. *)
LEMMA TasksApart ==
  ASSUME MultInv, NEW m \in DOMAIN tasks, NEW n \in DOMAIN tasks, m # n,
         NEW o, NEW c \in Int, InTask(m, o, c)
  PROVE  ~InTask(n, o, c)
<1>1. VarTypes /\ OrderInv
  BY DEF MultInv
<1>2. /\ tasks[m].op \in Nat /\ tasks[n].op \in Nat
      /\ tasks[m].start_idx \in Nat /\ tasks[m].end_idx \in Nat
      /\ tasks[n].start_idx \in Nat /\ tasks[n].end_idx \in Nat
  BY <1>1, TaskTypes, Sizes DEF Task
<1>3. m \in Nat /\ n \in Nat
  BY <1>1, TaskTypes
<1>4. CASE m < n
  <2>1. \/ tasks[m].op < tasks[n].op
        \/ tasks[m].op = tasks[n].op /\ tasks[m].end_idx =< tasks[n].start_idx
    BY <1>1, <1>4 DEF OrderInv
  <2>. QED
    BY <1>2, <2>1 DEF InTask
<1>5. CASE n < m
  <2>1. \/ tasks[n].op < tasks[m].op
        \/ tasks[n].op = tasks[m].op /\ tasks[n].end_idx =< tasks[m].start_idx
    BY <1>1, <1>5 DEF OrderInv
  <2>. QED
    BY <1>2, <2>1 DEF InTask
<1>. QED
  BY <1>3, <1>4, <1>5

(* Where a handler is, its task is, and its row and column are those of    *)
(* the cell: what it computes is what sequential.c computes there.         *)
LEMMA AtACell ==
  ASSUME MultInv, NEW n \in DOMAIN tasks, Computing(n)
  PROVE  LET l == local[n]
             o == tasks[n].op
         IN  /\ o \in Ops /\ l.idx \in Cells /\ l \in Local
             /\ InTask(n, o, l.idx)
             /\ l.row \in 0 .. matrix_order - 1 /\ l.col \in 0 .. matrix_order - 1
             /\ MATRIX_idx(l.row, l.col) = l.idx
             /\ multiply(operand_as[o], operand_bs[o])[l.idx] =
                  ScalarProduct(operand_as[o], operand_bs[o], l.row, l.col, cols)
<1>. DEFINE l == local[n]
            o == tasks[n].op
<1>1. VarTypes /\ PositionOf(n) /\ Running(n) /\ l.idx < tasks[n].end_idx
  BY DEF MultInv, PositionInv, Computing
<1>2. /\ o \in Ops /\ l \in Local /\ l.idx \in 0 .. max_idx /\ l.row \in Nat
      /\ l.col \in Nat /\ tasks[n].end_idx \in 1 .. max_idx
      /\ tasks[n].start_idx \in Nat
  BY <1>1, TaskTypes, Sizes DEF Task, Local
<1>3. l.idx \in Cells /\ l.idx \in Nat /\ l.idx < max_idx
  BY <1>1, <1>2, Sizes
<1>4. InTask(n, o, l.idx)
  BY <1>1 DEF InTask, PositionOf
<1>5. l.col \in 0 .. matrix_order - 1 /\ MATRIX_idx(l.row, l.col) = l.idx
  BY <1>1, <1>2, Sizes DEF PositionOf, cols
<1>6. l.row \in 0 .. matrix_order - 1
  BY <1>2, <1>3, <1>5, RowInMatrix
<1>7. l.row = l.idx \div cols /\ l.col = l.idx % cols
  <2>1. l.idx = l.row * cols + l.col
    BY <1>5 DEF MATRIX_idx
  <2>2. cols \in Nat \ {0} /\ l.col \in 0 .. cols - 1 /\ l.row \in Int
    BY <1>2, <1>5, Sizes DEF cols
  <2>. HIDE DEF l
  <2>. QED
    BY <1>3, <2>1, <2>2, DivisionUnique
<1>8. multiply(operand_as[o], operand_bs[o])[l.idx] =
        ScalarProduct(operand_as[o], operand_bs[o], l.row, l.col, cols)
  BY <1>3, <1>7 DEF multiply
<1>. QED
  BY <1>2, <1>3, <1>4, <1>5, <1>6, <1>8
(* What a handler writes in its own chunk is nothing to the others. *)
LEMMA OthersUndisturbed ==
  ASSUME MultInv, NEW n \in DOMAIN tasks,
         UNCHANGED <<operand_as, operand_bs, tasks>>,
         \A o \in Ops, c \in Cells :
           ~InTask(n, o, c) => products'[o][c] = products[o][c],
         NEW m \in DOMAIN tasks, m # n,
         status'[m] = status[m], local'[m] = local[m]
  PROVE  PositionOf(m)' /\ ResultOf(m)'
<1>. DEFINE t == tasks[m]
<1>1. VarTypes /\ PositionOf(m) /\ ResultOf(m)
  BY DEF MultInv, PositionInv, ResultInv
<1>2. /\ t.op \in Ops /\ t.start_idx \in Nat /\ t.end_idx \in 1 .. max_idx
      /\ local[m].idx \in Nat
  <2>1. tasks[m] \in Task /\ local[m] \in Local
    BY <1>1, TaskTypes
  <2>. QED
    BY <2>1, Sizes DEF Task, Local
<1>3. ASSUME NEW c \in t.start_idx .. t.end_idx - 1
      PROVE  products'[t.op][c] = products[t.op][c]
  <2>1. c \in Cells /\ c \in Int
    BY <1>2, Sizes
  <2>2. InTask(m, t.op, c)
    BY <1>2 DEF InTask
  <2>3. ~InTask(n, t.op, c)
    BY <2>1, <2>2, TasksApart
  <2>. QED
    BY <1>2, <2>1, <2>3
<1>4. PositionOf(m)'
  BY <1>1 DEF PositionOf, Running
<1>5. ASSUME Done(m)', NEW c \in t.start_idx .. t.end_idx - 1
      PROVE  Exact(t.op, c)'
  BY <1>1, <1>3, <1>5 DEF ResultOf, Done, Exact
<1>6. ASSUME Running(m)', NEW c \in t.start_idx .. local[m].idx - 1
      PROVE  Exact(t.op, c)'
  <2>1. Running(m) /\ local[m].idx =< t.end_idx
    BY <1>1, <1>6 DEF Running, PositionOf
  <2>2. c \in t.start_idx .. t.end_idx - 1
    BY <1>2, <2>1
  <2>3. Exact(t.op, c)
    BY <1>1, <2>1 DEF ResultOf
  <2>. QED
    BY <1>3, <2>2, <2>3 DEF Exact
<1>7. ASSUME Computing(m)', local'[m].k # -1
      PROVE  products'[t.op][local'[m].idx] =
               ScalarProduct(operand_as'[t.op], operand_bs'[t.op], local'[m].row,
                             local'[m].col, local'[m].k)
  <2>1. Computing(m) /\ local[m].k # -1
    BY <1>7 DEF Computing, Running
  <2>2. local[m].idx \in t.start_idx .. t.end_idx - 1
    BY <1>1, <1>2, <2>1 DEF PositionOf, Computing
  <2>. QED
    BY <1>1, <1>3, <2>1, <2>2 DEF ResultOf
<1>. QED
  BY <1>4, <1>5, <1>6, <1>7 DEF ResultOf

(* Putting something in the locals of one task. *)
LEMMA LocalSet ==
  ASSUME VarTypes, NEW n \in DOMAIN tasks, NEW r \in Local,
         local' = [local EXCEPT ![n] = r]
  PROVE  /\ local' \in Seq(Local) /\ Len(local') = Len(local)
         /\ local'[n] = r
         /\ \A m \in DOMAIN tasks : m # n => local'[m] = local[m]
<1>1. local \in Seq(Local) /\ DOMAIN tasks = 1 .. Len(local)
  BY TaskTypes DEF VarTypes
<1>. QED
  BY <1>1, ExceptSeq

(* The invariant is kept by a step of a handler that keeps the types and   *)
(* its own position and result.                                            *)
LEMMA HandlerKeeps ==
  ASSUME MultInv, NEW n \in DOMAIN tasks,
         UNCHANGED <<operand_as, operand_bs, op, idx, tasks, joined>>, ~joined,
         VarTypes',
         \A o \in Ops, c \in Cells :
           ~InTask(n, o, c) => products'[o][c] = products[o][c],
         \A m \in DOMAIN tasks :
           m # n => status'[m] = status[m] /\ local'[m] = local[m],
         PositionOf(n)', ResultOf(n)'
  PROVE  MultInv'
<1>1. ProgressInv' /\ OrderInv' /\ CoverInv'
  BY HandlerFrame
<1>2. \A m \in DOMAIN tasks : PositionOf(m)' /\ ResultOf(m)'
  BY OthersUndisturbed
<1>3. JoinInv'
  BY DEF JoinInv
<1>. QED
  BY <1>1, <1>2, <1>3 DEF MultInv, PositionInv, ResultInv

LEMMA StartTaskStep ==
  ASSUME MultInv, NEW n \in DOMAIN tasks, StartTask(n)
  PROVE  MultInv'
<1>. DEFINE r == [idx |-> tasks[n].start_idx, row |-> tasks[n].start_idx \div cols,
                  col |-> tasks[n].start_idx % cols, k |-> -1]
<1>1. /\ status[n] = "queued" /\ status' = [status EXCEPT ![n] = "running"]
      /\ local' = [local EXCEPT ![n] = r]
      /\ UNCHANGED <<operand_as, operand_bs, products, op, idx, tasks, joined>>
  BY DEF StartTask, Pool!Start
<1>2. VarTypes /\ OrderInv
  BY DEF MultInv
<1>3. n \in AllTasks /\ tasks[n].start_idx \in Cells /\ tasks[n].end_idx \in 1 .. max_idx
  BY <1>2, TaskTypes DEF Task
<1>4. /\ r.col \in 0 .. cols - 1
      /\ MATRIX_idx(r.row, r.col) = r.idx
      /\ r.row \in Nat
  <2>. DEFINE x == tasks[n].start_idx
  <2>1. x \in Nat /\ cols \in Nat \ {0}
    BY <1>3, Sizes
  <2>. HIDE DEF x
  <2>2. x \div cols \in Nat /\ x % cols \in 0 .. cols - 1
        /\ x = (x \div cols) * cols + (x % cols)
    BY <2>1, Division
  <2>. QED
    BY <2>2 DEF MATRIX_idx, x
<1>5. r.row \in 0 .. matrix_order
  BY <1>3, <1>4, RowInMatrix, Sizes DEF cols
<1>6. r \in Local
  <2>1. r.idx \in 0 .. max_idx /\ r.col \in Cells /\ r.k \in -1 .. matrix_order
    BY <1>3, <1>4, Sizes DEF cols
  <2>. QED
    BY <1>5, <2>1 DEF Local
<1>7. /\ local' \in Seq(Local) /\ Len(local') = Len(local) /\ local'[n] = r
      /\ \A m \in DOMAIN tasks : m # n => local'[m] = local[m]
  BY <1>1, <1>2, <1>6, LocalSet
<1>8. /\ status' \in [AllTasks -> {"new", "queued", "running", "done"}]
      /\ status'[n] = "running"
      /\ \A m \in DOMAIN tasks : m # n => status'[m] = status[m]
  <2>1. status \in [AllTasks -> {"new", "queued", "running", "done"}]
        /\ DOMAIN tasks \subseteq AllTasks
    BY <1>2, TaskTypes DEF VarTypes
  <2>. QED
    BY <1>1, <1>3, <2>1
<1>9. VarTypes'
  BY <1>1, <1>2, <1>7, <1>8
     DEF VarTypes, Task, Local, Ops, Cells, TasksPerOp, AllTasks, max_idx
<1>10. tasks[n].start_idx < tasks[n].end_idx
  BY <1>2 DEF OrderInv
<1>11. PositionOf(n)'
  <2>1. tasks[n].start_idx =< tasks[n].start_idx
    BY <1>3, Sizes
  <2>2. r.col < cols
    BY <1>4, Sizes
  <2>3. tasks[n].start_idx =< tasks[n].end_idx
    BY <1>3, <1>10, Sizes
  <2>. HIDE DEF r
  <2>4. r.idx = tasks[n].start_idx
    BY DEF r
  <2>. QED
    BY <1>1, <1>4, <1>7, <2>1, <2>2, <2>3, <2>4
       DEF PositionOf, MATRIX_idx, cols
<1>12. ResultOf(n)'
  <2>1. tasks[n].start_idx .. local'[n].idx - 1 = {}
    BY <1>3, <1>7, Sizes
  <2>2. local'[n].k = -1
    BY <1>7
  <2>. QED
    BY <1>1, <1>8, <2>1, <2>2 DEF ResultOf, Done, Running
<1>13. ~joined
  BY <1>1, NotJoined
<1>. QED
  BY <1>1, <1>7, <1>8, <1>9, <1>11, <1>12, <1>13, HandlerKeeps

LEMMA ClearCellStep ==
  ASSUME MultInv, NEW n \in DOMAIN tasks, ClearCell(n)
  PROVE  MultInv'
<1>. DEFINE l == local[n]
            o == tasks[n].op
            r == [l EXCEPT !.k = 0]
<1>1. /\ Computing(n) /\ l.k = -1
      /\ products' = [products EXCEPT ![o][l.idx] = 0]
      /\ local' = [local EXCEPT ![n] = r]
      /\ UNCHANGED <<operand_as, operand_bs, op, idx, tasks, status, joined>>
  BY DEF ClearCell
<1>2. VarTypes /\ PositionOf(n) /\ ResultOf(n) /\ status[n] = "running"
  BY <1>1 DEF MultInv, PositionInv, ResultInv, Computing, Running
<1>3. o \in Ops /\ l.idx \in Cells /\ l \in Local /\ InTask(n, o, l.idx)
  BY <1>1, AtACell
<1>4. r \in Local /\ r.idx = l.idx /\ r.row = l.row /\ r.col = l.col /\ r.k = 0
  <2>1. 0 \in -1 .. matrix_order
    BY MultiplyAssumption
  <2>. QED
    BY <1>3, <2>1 DEF Local
<1>5. /\ local' \in Seq(Local) /\ Len(local') = Len(local) /\ local'[n] = r
      /\ \A m \in DOMAIN tasks : m # n => local'[m] = local[m]
  BY <1>1, <1>2, <1>4, LocalSet
<1>6. /\ products' \in [Ops -> [Cells -> Int]]
      /\ products'[o][l.idx] = 0
      /\ \A p \in Ops, c \in Cells :
           ~(p = o /\ c = l.idx) => products'[p][c] = products[p][c]
  <2>1. products \in [Ops -> [Cells -> Int]]
    BY <1>2 DEF VarTypes
  <2>. HIDE DEF l, o, r
  <2>. QED
    BY <1>1, <1>3, <2>1
<1>7. VarTypes'
  BY <1>1, <1>2, <1>5, <1>6
     DEF VarTypes, Task, Local, Ops, Cells, TasksPerOp, AllTasks, max_idx
<1>8. PositionOf(n)'
  BY <1>1, <1>2, <1>4, <1>5 DEF PositionOf, Running, MATRIX_idx, cols
<1>9. ResultOf(n)'
  <2>1. ASSUME NEW c \in tasks[n].start_idx .. local'[n].idx - 1
        PROVE  Exact(o, c)'
    <3>1. Exact(o, c)
      BY <1>2, <1>4, <1>5 DEF ResultOf, Running
    <3>2. c \in Cells /\ c # l.idx
      <4>1. tasks[n].start_idx \in Nat
        BY <1>2, TaskTypes, Sizes DEF Task
      <4>2. local'[n].idx = l.idx
        BY <1>4, <1>5
      <4>3. l.idx \in Nat /\ l.idx =< max_idx - 1 /\ max_idx \in Nat
        BY <1>3, Sizes
      <4>4. c \in Int /\ 0 =< c /\ c < l.idx
        BY <2>1, <4>1, <4>2, <4>3
      <4>5. c \in 0 .. max_idx - 1 /\ c # l.idx
        BY <4>3, <4>4
      <4>. QED
        BY <4>5, Sizes
    <3>. QED
      BY <1>1, <1>3, <1>6, <3>1, <3>2 DEF Exact
  <2>2. products'[o][local'[n].idx] =
          ScalarProduct(operand_as[o], operand_bs[o], l.row, l.col, 0)
    BY <1>4, <1>5, <1>6, TermsAddUp
  <2>. QED
    BY <1>1, <1>2, <1>4, <1>5, <2>1, <2>2 DEF ResultOf, Done
<1>10. ~joined
  BY <1>2, NotJoined
<1>11. \A p \in Ops, c \in Cells :
         ~InTask(n, p, c) => products'[p][c] = products[p][c]
  BY <1>3, <1>6
<1>. QED
  BY <1>1, <1>5, <1>7, <1>8, <1>9, <1>10, <1>11, HandlerKeeps
LEMMA AddTermStep ==
  ASSUME MultInv, NEW n \in DOMAIN tasks, AddTerm(n)
  PROVE  MultInv'
<1>. DEFINE l == local[n]
            o == tasks[n].op
            a == operand_as[o]
            b == operand_bs[o]
            term == Term(a, b, l.row, l.col, l.k)
            r == [l EXCEPT !.k = l.k + 1]
<1>1. /\ Computing(n) /\ l.k \in 0 .. cols - 1
      /\ products' = [products EXCEPT ![o][l.idx] = products[o][l.idx] + term]
      /\ local' = [local EXCEPT ![n] = r]
      /\ UNCHANGED <<operand_as, operand_bs, op, idx, tasks, status, joined>>
  BY DEF AddTerm, Term
<1>2. VarTypes /\ PositionOf(n) /\ ResultOf(n) /\ status[n] = "running"
  BY <1>1 DEF MultInv, PositionInv, ResultInv, Computing, Running
<1>3. /\ o \in Ops /\ l.idx \in Cells /\ l \in Local /\ InTask(n, o, l.idx)
      /\ l.row \in 0 .. matrix_order - 1 /\ l.col \in 0 .. matrix_order - 1
  BY <1>1, AtACell
<1>4. r \in Local /\ r.idx = l.idx /\ r.row = l.row /\ r.col = l.col /\ r.k = l.k + 1
      /\ r.k # -1
  <2>1. cols = matrix_order /\ cols \in Nat
    BY Sizes DEF cols
  <2>2. l.k + 1 \in -1 .. matrix_order /\ l.k + 1 # -1
    BY <1>1, <2>1
  <2>. QED
    BY <1>3, <2>2 DEF Local
<1>5. /\ local' \in Seq(Local) /\ Len(local') = Len(local) /\ local'[n] = r
      /\ \A m \in DOMAIN tasks : m # n => local'[m] = local[m]
  BY <1>1, <1>2, <1>4, LocalSet
<1>6. term \in Int
  <2>1. MATRIX_idx(l.row, l.k) \in Cells /\ MATRIX_idx(l.k, l.col) \in Cells
    BY <1>1, <1>3, CellIndex DEF cols
  <2>2. a \in [Cells -> Int] /\ b \in [Cells -> Int]
    BY <1>2, <1>3, OperandsAssumption DEF VarTypes
  <2>3. a[MATRIX_idx(l.row, l.k)] \in Int /\ b[MATRIX_idx(l.k, l.col)] \in Int
    BY <2>1, <2>2
  <2>. HIDE DEF a, b, l
  <2>. QED
    BY <2>3 DEF Term
<1>7. /\ products' \in [Ops -> [Cells -> Int]]
      /\ products'[o][l.idx] = products[o][l.idx] + term
      /\ \A p \in Ops, c \in Cells :
           ~(p = o /\ c = l.idx) => products'[p][c] = products[p][c]
  <2>1. products \in [Ops -> [Cells -> Int]]
    BY <1>2 DEF VarTypes
  <2>2. products[o][l.idx] + term \in Int
    BY <1>3, <1>6, <2>1
  <2>. HIDE DEF l, o, r, term
  <2>. QED
    BY <1>1, <1>3, <2>1, <2>2
<1>8. VarTypes'
  BY <1>1, <1>2, <1>5, <1>7
     DEF VarTypes, Task, Local, Ops, Cells, TasksPerOp, AllTasks, max_idx
<1>9. PositionOf(n)'
  BY <1>1, <1>2, <1>4, <1>5 DEF PositionOf, Running, MATRIX_idx, cols
<1>10. ResultOf(n)'
  <2>1. ASSUME NEW c \in tasks[n].start_idx .. local'[n].idx - 1
        PROVE  Exact(o, c)'
    <3>1. Exact(o, c)
      BY <1>2, <1>4, <1>5 DEF ResultOf, Running
    <3>2. c \in Cells /\ c # l.idx
      <4>1. tasks[n].start_idx \in Nat
        BY <1>2, TaskTypes, Sizes DEF Task
      <4>2. local'[n].idx = l.idx
        BY <1>4, <1>5
      <4>3. l.idx \in Nat /\ l.idx =< max_idx - 1 /\ max_idx \in Nat
        BY <1>3, Sizes
      <4>4. c \in Int /\ 0 =< c /\ c < l.idx
        BY <2>1, <4>1, <4>2, <4>3
      <4>5. c \in 0 .. max_idx - 1 /\ c # l.idx
        BY <4>3, <4>4
      <4>. QED
        BY <4>5, Sizes
    <3>. QED
      BY <1>1, <1>3, <1>7, <3>1, <3>2 DEF Exact
  <2>2. products[o][l.idx] = ScalarProduct(a, b, l.row, l.col, l.k)
    <3>1. l.k # -1
      BY <1>1
    <3>. QED
      BY <1>1, <1>2, <3>1 DEF ResultOf
  <2>3. ScalarProduct(a, b, l.row, l.col, l.k + 1) =
          ScalarProduct(a, b, l.row, l.col, l.k) + term
    <3>. HIDE DEF a, b, l
    <3>. QED
      BY <1>1, TermsAddUp
  <2>4. products'[o][local'[n].idx] =
          ScalarProduct(operand_as'[o], operand_bs'[o], local'[n].row,
                        local'[n].col, local'[n].k)
    BY <1>1, <1>4, <1>5, <1>7, <2>2, <2>3
  <2>. QED
    BY <1>1, <1>2, <2>1, <2>4 DEF ResultOf, Done
<1>11. ~joined
  BY <1>2, NotJoined
<1>12. \A p \in Ops, c \in Cells :
         ~InTask(n, p, c) => products'[p][c] = products[p][c]
  BY <1>3, <1>7
<1>. QED
  BY <1>1, <1>5, <1>8, <1>9, <1>10, <1>11, <1>12, HandlerKeeps

(* The cell is complete when the handler leaves it; the row ends where the *)
(* columns do.                                                             *)
LEMMA NextCellStep ==
  ASSUME MultInv, NEW n \in DOMAIN tasks, NextCell(n)
  PROVE  MultInv'
<1>. DEFINE l == local[n]
            o == tasks[n].op
            wraps == l.col + 1 = cols
            r == [idx |-> l.idx + 1,
                  col |-> IF wraps THEN 0 ELSE l.col + 1,
                  row |-> IF wraps THEN l.row + 1 ELSE l.row,
                  k |-> -1]
<1>1. /\ Computing(n) /\ l.k = cols
      /\ local' = [local EXCEPT ![n] = r]
      /\ UNCHANGED <<operand_as, operand_bs, products, op, idx, tasks, status, joined>>
  BY DEF NextCell
<1>2. VarTypes /\ PositionOf(n) /\ ResultOf(n) /\ status[n] = "running"
  BY <1>1 DEF MultInv, PositionInv, ResultInv, Computing, Running
<1>3. /\ o \in Ops /\ l.idx \in Cells /\ l \in Local /\ InTask(n, o, l.idx)
      /\ l.row \in 0 .. matrix_order - 1 /\ l.col \in 0 .. matrix_order - 1
      /\ MATRIX_idx(l.row, l.col) = l.idx
      /\ multiply(operand_as[o], operand_bs[o])[l.idx] =
           ScalarProduct(operand_as[o], operand_bs[o], l.row, l.col, cols)
  BY <1>1, AtACell
<1>4. tasks[n].start_idx \in Nat /\ tasks[n].end_idx \in 1 .. max_idx
      /\ l.idx \in Nat /\ l.idx < tasks[n].end_idx /\ tasks[n].start_idx =< l.idx
  BY <1>1, <1>2, <1>3, TaskTypes, Sizes DEF Task, Computing, PositionOf, Running
<1>5. cols = matrix_order /\ cols \in Nat \ {0}
  BY Sizes DEF cols
<1>6. /\ r.col \in 0 .. cols - 1 /\ MATRIX_idx(r.row, r.col) = l.idx + 1
      /\ r.row \in Nat
  <2>1. l.row * cols \in Nat /\ (l.row + 1) * cols = l.row * cols + cols
    BY <1>3, <1>5
  <2>2. l.idx = l.row * cols + l.col
    BY <1>3 DEF MATRIX_idx
  <2>3. CASE wraps
    <3>1. r.row = l.row + 1 /\ r.col = 0
      BY <2>3
    <3>. HIDE DEF r, l
    <3>. QED
      BY <1>3, <1>5, <2>1, <2>2, <2>3, <3>1 DEF MATRIX_idx, l
  <2>4. CASE ~wraps
    <3>1. r.row = l.row /\ r.col = l.col + 1
      BY <2>4
    <3>. QED
      BY <1>3, <1>5, <2>1, <2>2, <2>4, <3>1 DEF MATRIX_idx
  <2>. QED
    BY <2>3, <2>4
<1>7. l.idx + 1 \in 0 .. max_idx
  BY <1>3, Sizes
<1>8. r.row \in 0 .. matrix_order
  BY <1>5, <1>6, <1>7, RowInMatrix
<1>9. r \in Local
  <2>1. r.col \in Cells
    BY <1>5, <1>6, Sizes
  <2>2. -1 \in -1 .. matrix_order
    BY <1>5
  <2>3. r = [idx |-> l.idx + 1, col |-> r.col, row |-> r.row, k |-> -1]
    OBVIOUS
  <2>. QED
    BY <1>7, <1>8, <2>1, <2>2, <2>3, Zenon DEF Local
<1>10. /\ local' \in Seq(Local) /\ Len(local') = Len(local) /\ local'[n] = r
       /\ \A m \in DOMAIN tasks : m # n => local'[m] = local[m]
  <2>. HIDE DEF r
  <2>. QED
    BY <1>1, <1>2, <1>9, LocalSet
<1>11. r.idx = l.idx + 1 /\ r.k = -1
  OBVIOUS
<1>12. products[o][l.idx] = multiply(operand_as[o], operand_bs[o])[l.idx]
  <2>1. l.k # -1
    BY <1>1, <1>5
  <2>. QED
    BY <1>1, <1>2, <1>3, <2>1 DEF ResultOf
<1>. HIDE DEF r
<1>13. VarTypes'
  BY <1>1, <1>2, <1>10
     DEF VarTypes, Task, Local, Ops, Cells, TasksPerOp, AllTasks, max_idx
<1>14. PositionOf(n)'
  <2>1. r.col < cols /\ tasks[n].start_idx =< l.idx + 1 /\ l.idx + 1 =< tasks[n].end_idx
    BY <1>4, <1>5, <1>6
  <2>. QED
    BY <1>1, <1>6, <1>10, <1>11, <2>1 DEF PositionOf, MATRIX_idx, cols
<1>15. ResultOf(n)'
  <2>1. ASSUME NEW c \in tasks[n].start_idx .. local'[n].idx - 1
        PROVE  Exact(o, c)'
    <3>1. c = l.idx \/ c \in tasks[n].start_idx .. l.idx - 1
      BY <1>4, <1>10, <1>11
    <3>2. Exact(o, c)
      BY <1>2, <1>12, <3>1 DEF ResultOf, Running, Exact
    <3>. QED
      BY <1>1, <3>2 DEF Exact
  <2>. QED
    BY <1>1, <1>2, <1>10, <1>11, <2>1 DEF ResultOf, Done
<1>16. ~joined
  BY <1>2, NotJoined
<1>. QED
  BY <1>1, <1>10, <1>13, <1>14, <1>15, <1>16, HandlerKeeps

LEMMA FinishTaskStep ==
  ASSUME MultInv, NEW n \in DOMAIN tasks, FinishTask(n)
  PROVE  MultInv'
<1>1. /\ status[n] = "running" /\ status' = [status EXCEPT ![n] = "done"]
      /\ local[n].idx >= tasks[n].end_idx
      /\ UNCHANGED <<operand_as, operand_bs, products, op, idx, tasks, local, joined>>
  BY DEF FinishTask, Pool!Finish
<1>2. VarTypes /\ PositionOf(n) /\ ResultOf(n)
  BY DEF MultInv, PositionInv, ResultInv
<1>3. /\ status' \in [AllTasks -> {"new", "queued", "running", "done"}]
      /\ status'[n] = "done"
      /\ \A m \in DOMAIN tasks : m # n => status'[m] = status[m]
  <2>1. status \in [AllTasks -> {"new", "queued", "running", "done"}]
        /\ DOMAIN tasks \subseteq AllTasks
    BY <1>2, TaskTypes DEF VarTypes
  <2>. QED
    BY <1>1, <2>1
<1>4. VarTypes'
  BY <1>1, <1>2, <1>3
     DEF VarTypes, Task, Local, Ops, Cells, TasksPerOp, AllTasks, max_idx
<1>5. PositionOf(n)'
  BY <1>3 DEF PositionOf, Running
<1>6. ResultOf(n)'
  <2>1. local[n].idx = tasks[n].end_idx
    <3>1. local[n].idx \in Nat /\ tasks[n].end_idx \in Nat
      <4>1. tasks[n] \in Task /\ local[n] \in Local
        BY <1>2, TaskTypes
      <4>. QED
        BY <4>1, Sizes DEF Task, Local
    <3>. QED
      BY <1>1, <1>2, <3>1 DEF PositionOf, Running
  <2>2. \A c \in tasks[n].start_idx .. tasks[n].end_idx - 1 : Exact(tasks[n].op, c)
    BY <1>1, <1>2, <2>1 DEF ResultOf, Running
  <2>. QED
    BY <1>1, <1>3, <2>2 DEF ResultOf, Running, Computing, Exact
<1>7. ~joined
  BY <1>1, NotJoined
<1>. QED
  BY <1>1, <1>3, <1>4, <1>5, <1>6, <1>7, HandlerKeeps
-----------------------------------------------------------------------------
(***************************************************************************)
(* The theorems                                                            *)
(***************************************************************************)

(* The inductive invariant of the multiplication: how far main is, what it *)
(* has cut, where the handlers are and what they have written.             *)
THEOREM MultInvHolds == Spec => []MultInv
<1>1. Init => MultInv
  BY InitMult
<1>2. MultInv /\ [Next]_mult_vars => MultInv'
  <2>. SUFFICES ASSUME MultInv, [Next]_mult_vars
                PROVE  MultInv'
    OBVIOUS
  <2>1. CASE EnqueueChunk
    BY <2>1, EnqueueStep
  <2>2. CASE NextOperation
    BY <2>2, NextOperationStep
  <2>3. CASE Join
    BY <2>3, JoinStep
  <2>4. ASSUME NEW n \in DOMAIN tasks, StartTask(n) \/ HandlerStep(n)
        PROVE  MultInv'
    BY <2>4, StartTaskStep, ClearCellStep, AddTermStep, NextCellStep, FinishTaskStep
       DEF HandlerStep
  <2>5. CASE UNCHANGED mult_vars
    <3>1. UNCHANGED <<operand_as, operand_bs, products, op, idx, tasks, local, status, joined>>
      BY <2>5 DEF mult_vars
    <3>2. VarTypes' /\ JoinInv' /\ PositionInv' /\ ResultInv'
      BY <3>1 DEF MultInv, VarTypes, JoinInv, PositionInv, PositionOf, ResultInv, ResultOf,
                  Running, Computing, Done, Exact,
                  Task, Local, Ops, Cells, TasksPerOp, AllTasks, max_idx
    <3>. QED
      BY <3>1, <3>2, HandlerFrame DEF MultInv
  <2>. QED
    BY <2>1, <2>2, <2>3, <2>4, <2>5 DEF Next
<1>. QED
  BY <1>1, <1>2, PTL DEF Spec

(* Every variable stays in its type; main makes no more tasks than the     *)
(* rounded-up quotient of request_multiplication says, and the row and the *)
(* column a handler counts along are those of the cell it writes, across   *)
(* the ends of rows (parallel.c:124-128).                                  *)
THEOREM MultTypeCorrect == Spec => []MultTypeOK
<1>1. MultInv => MultTypeOK
  <2>. SUFFICES ASSUME MultInv PROVE MultTypeOK
    OBVIOUS
  <2>1. VarTypes /\ PositionInv
    BY DEF MultInv
  <2>2. IndexInStep
    BY <2>1 DEF IndexInStep, PositionInv, PositionOf, Computing
  <2>. QED
    BY <2>1, <2>2 DEF VarTypes, MultTypeOK
<1>. QED
  BY <1>1, MultInvHolds, PTL

(* However many workers run, no two of them write the same cell: the       *)
(* product arrays need no lock (parallel.c:120, 122).                      *)
THEOREM HandlersWriteApart == Spec => []NoSharedCell
<1>1. MultInv => NoSharedCell
  <2>. SUFFICES ASSUME MultInv, NEW m \in DOMAIN tasks, NEW n \in DOMAIN tasks,
                       m # n, Computing(m), Computing(n), tasks[m].op = tasks[n].op
                PROVE  local[m].idx # local[n].idx
    BY DEF NoSharedCell
  <2>1. InTask(m, tasks[m].op, local[m].idx) /\ local[m].idx \in Int
    BY AtACell, Sizes
  <2>2. InTask(n, tasks[m].op, local[n].idx)
    BY AtACell
  <2>3. ~InTask(n, tasks[m].op, local[m].idx)
    BY <2>1, TasksApart
  <2>. QED
    BY <2>2, <2>3
<1>. QED
  BY <1>1, MultInvHolds, PTL

(* Parallel and sequential program agree: when WP_join has returned every  *)
(* product is the one sequential.c computes from the same operands, for    *)
(* any order, any size of the chunks, any number of workers, and whatever  *)
(* the memory of the products held before (parallel.c:119-123).            *)
THEOREM ParallelIsSequential == Spec => []ProductsExact
<1>1. MultInv => ProductsExact
  <2>. SUFFICES ASSUME MultInv, joined, NEW o \in Ops
                PROVE  products[o] = multiply(operand_as[o], operand_bs[o])
    BY DEF ProductsExact
  <2>1. VarTypes /\ CoverInv /\ ResultInv /\ op > operations
        /\ \A n \in AllTasks : Done(n)
    BY DEF MultInv, JoinInv
  <2>2. ASSUME NEW c \in Cells
        PROVE  products[o][c] = multiply(operand_as[o], operand_bs[o])[c]
    <3>1. BehindMain(o, c)
      BY <2>1, Sizes DEF BehindMain, VarTypes
    <3>2. PICK n \in DOMAIN tasks : InTask(n, o, c)
      BY <2>1, <3>1 DEF CoverInv
    <3>3. Done(n) /\ ResultOf(n)
      BY <2>1, TaskTypes DEF ResultInv
    <3>4. tasks[n].op = o /\ c \in tasks[n].start_idx .. tasks[n].end_idx - 1
      <4>1. tasks[n].start_idx \in Nat /\ tasks[n].end_idx \in Nat /\ c \in Nat
        BY <2>1, TaskTypes, Sizes DEF Task
      <4>. QED
        BY <3>2, <4>1 DEF InTask
    <3>. QED
      BY <3>3, <3>4 DEF ResultOf, Exact
  <2>3. products[o] \in [Cells -> Int]
    BY <2>1 DEF VarTypes
  <2>4. multiply(operand_as[o], operand_bs[o]) =
          [c \in Cells |-> multiply(operand_as[o], operand_bs[o])[c]]
    BY DEF multiply
  <2>. QED
    BY <2>2, <2>3, <2>4
<1>. QED
  BY <1>1, MultInvHolds, PTL
=============================================================================
