-------------------------------- MODULE Tank --------------------------------
(***************************************************************************)
(* The resizable array of task1/Tank.cpp, used by one thread that makes    *)
(* any legal or illegal sequence of calls on one Tank and passes it to     *)
(* accumulate.                                                             *)
(*                                                                         *)
(* The heap is a few blocks with their contents; realloc always moves.  A  *)
(* failed assertion aborts the program.  A use of memory that was freed is *)
(* undefined and ends the run.  Failures of malloc are left out.           *)
(***************************************************************************)
EXTENDS Integers, Sequences, Functions

CONSTANTS
  Values,       \* the elements
  Capacities,   \* bound: the capacities asked for
  Indices,      \* bound: the indices asked for
  MaxItems      \* bound: the elements pushed

ASSUME TankAssumption ==
  /\ Values \subseteq Int /\ Capacities \subseteq Nat /\ Indices \subseteq Int
  /\ MaxItems \in Nat

NULL == 0
Unset == 0           \* what malloc and realloc leave in a slot
Blocks == 1 .. 3

VARIABLES
  data, filled, max_capacity,   \* class Tank
  live, slots,                  \* the blocks allocated, and their contents
  result,                       \* what the last call returned
  status,
  resized, asked, copied        \* history: whether the last push or pop grew
                                \* or shrank the array, whether its capacity
                                \* was asked for, whether it was copied

tank == <<data, filled, max_capacity>>
heap == <<live, slots>>
history == <<resized, asked, copied>>
vars == <<tank, heap, result, status, history>>

(* The constructor *)
Init ==
  /\ max_capacity \in Capacities /\ filled = 0
  /\ data = 1 /\ live = {1}
  /\ slots = [b \in Blocks |->
                IF b = 1 THEN [k \in 1 .. max_capacity |-> Unset] ELSE <<>>]
  /\ result = 0 /\ status = "running"
  /\ resized = "no" /\ copied = FALSE
  /\ asked \in BOOLEAN /\ (asked <=> max_capacity > 0)

Dangling == data # NULL /\ data \notin live
Usable == status = "running" /\ ~Dangling

Block == IF data = NULL THEN <<>> ELSE slots[data]
Elements == SubSeq(Block, 1, filled)
Fresh == CHOOSE b \in Blocks : b \notin live \cup {data}
-----------------------------------------------------------------------------
(* Mutant: a new block, and the old one not freed. *)
ReallocLeaking(block) ==
  /\ data' = Fresh
  /\ live' = live \cup {Fresh}
  /\ slots' = [slots EXCEPT ![Fresh] = block]

(* realloc to a block of these contents; to no bytes, it frees a block that *)
(* there is, and allocates one of no bytes where there is none.            *)
Realloc(block) ==
  /\ data' = IF block = <<>> /\ data # NULL THEN NULL ELSE Fresh
  /\ live' = (live \ {data}) \cup ({data'} \ {NULL})
  /\ slots' = [slots EXCEPT ![Fresh] = block]

(* The contents moved to a block of n slots *)
Moved(n) == [k \in 1 .. n |-> IF k <= Len(Block) THEN Block[k] ELSE Unset]

(* assert(condition) *)
Assert(condition) == condition /\ UNCHANGED status
Fails(condition) ==
  /\ status = "running" /\ ~condition
  /\ status' = "aborted"
  /\ UNCHANGED <<tank, heap, result, history>>

Resize(n) ==
  \/ Fails(filled <= n)
  \/ /\ Usable /\ Assert(filled <= n)
     /\ max_capacity' = n /\ asked' = TRUE /\ resized' = "no"
     /\ Realloc(Moved(n))
     /\ UNCHANGED <<filled, result, copied>>

PushUpTo(x, limit) ==
  /\ Usable /\ filled < MaxItems
  /\ filled' = filled + 1
  /\ \/ /\ filled >= limit
        /\ max_capacity' = IF max_capacity > 0 THEN 2 * max_capacity ELSE 1
        /\ Realloc([Moved(max_capacity') EXCEPT ![filled + 1] = x])
        /\ resized' = "grown"
     \/ /\ filled < limit
        /\ slots' = [slots EXCEPT ![data][filled + 1] = x]
        /\ resized' = "no"
        /\ UNCHANGED <<data, max_capacity, live>>
  /\ UNCHANGED <<result, status, asked, copied>>

(* Mutant: line 30 with > for >=. *)
PushBackOffByOne(x) == PushUpTo(x, max_capacity + 1)

PushBack(x) == PushUpTo(x, max_capacity)

PopShrinking(minimum) ==
  \/ Fails(filled > 0)
  \/ /\ Usable /\ Assert(filled > 0)
     /\ result' = Block[filled]
     /\ filled' = filled - 1
     /\ \/ /\ filled' < minimum
           /\ max_capacity' = max_capacity \div 2
           /\ Realloc(Moved(max_capacity'))
           /\ resized' = "shrunk"
        \/ /\ filled' >= minimum
           /\ resized' = "no"
           /\ UNCHANGED <<data, max_capacity, heap>>
     /\ UNCHANGED <<asked, copied>>

(* Mutants: line 39 with <= for <; lines 39-41 left out. *)
PopBackEager == PopShrinking(max_capacity \div 2 + 1)
PopBackNoShrink == PopShrinking(0)

PopBack == PopShrinking(max_capacity \div 2)

(* at, and operator[]: the index is converted to an unsigned number, so a  *)
(* negative one fails the assertion too.                                   *)
AtUpTo(index, limit) ==
  \/ Fails(index \in 0 .. limit)
  \/ /\ Usable /\ Assert(index \in 0 .. limit)
     /\ result' = (Block \o <<Unset>>)[index + 1]
     /\ UNCHANGED <<tank, heap, history>>

(* Mutant: line 46 with <= for <. *)
AtOffByOne(index) == AtUpTo(index, filled)

At(index) == AtUpTo(index, filled - 1)

FreeAndPoint(to) ==
  /\ filled' = 0 /\ max_capacity' = 0 /\ data' = to
  /\ live' = live \ {data}
  /\ asked' = FALSE /\ resized' = "no"
  /\ UNCHANGED <<slots, result, copied>>

(* Mutant: line 58 left out. *)
FreeArrayKeepingData == FreeAndPoint(data)

FreeArray == FreeAndPoint(NULL)

Clear == Usable /\ FreeArray /\ UNCHANGED status

(* The destructor *)
Destroy == Usable /\ FreeArray /\ status' = "destroyed"

(* accumulate(v): the parameter is a copy of v's members, so that its      *)
(* destructor frees v's data.                                              *)
Accumulate ==
  /\ Usable
  /\ result' = SumFunction(Elements)
  /\ live' = live \ {data}
  /\ copied' = TRUE
  /\ UNCHANGED <<tank, slots, status, resized, asked>>

(* Any later call that touches the data after the copy freed them: a push, *)
(* a pop, at, resize, or the second free, by free_array or the destructor. *)
UseFreed ==
  /\ status = "running" /\ Dangling
  /\ status' = "undefined"
  /\ UNCHANGED <<tank, heap, result, history>>
-----------------------------------------------------------------------------
Next ==
  \/ \E x \in Values : PushBack(x)
  \/ \E n \in Capacities : Resize(n)
  \/ \E index \in Indices : At(index)
  \/ PopBack \/ Clear \/ Destroy \/ Accumulate \/ UseFreed

Spec == Init /\ [][Next]_vars
-----------------------------------------------------------------------------
(* Properties *)

(* Every variable stays in its type, and the elements fit the capacity     *)
(* (Tank.cpp:33 writes without a check).                                   *)
TankTypeOK ==
  /\ data \in Blocks \cup {NULL} /\ max_capacity \in Nat
  /\ filled \in 0 .. max_capacity
  /\ live \subseteq Blocks
  /\ slots \in [Blocks -> Seq(Values \cup {Unset})]
  /\ status \in {"running", "aborted", "undefined", "destroyed"}
  /\ resized \in {"no", "grown", "shrunk"}
  /\ asked \in BOOLEAN /\ copied \in BOOLEAN

(* Through any growing, shrinking and freeing, the one block allocated is  *)
(* the one data points at, and it is as large as max_capacity says, until  *)
(* the Tank is copied (Tank.cpp:15-23, 54-59).                             *)
HeapExact ==
  ~copied => live = {data} \ {NULL} /\ Len(Block) = max_capacity

(* A Tank that was not passed to accumulate never touches memory that was  *)
(* freed: free_array may be called twice, and before the destructor        *)
(* (Tank.cpp:58, 62).  Of one that was it says nothing: its data are freed *)
(* by the copy (66, 72), and again by the Tank itself.                     *)
DefinedUnlessCopied == status = "undefined" => copied

(* "Reallocates to a smaller array if its size is less than half the       *)
(* allocated space" (Tank.h:43): unless its capacity was asked for, half   *)
(* of the array, rounded down as line 39 does, is used whatever was pushed *)
(* and popped.  Of a capacity of one that is nothing.                      *)
HalfUsed == ~asked => filled >= max_capacity \div 2

(* At the edges of the capacity the array does not grow and shrink in      *)
(* turn: a pop next to a push that grew it does not shrink it, nor a push  *)
(* next to a pop that shrank it grow it (Tank.cpp:30, 39).                 *)
NoThrashing ==
  [][~(resized = "grown" /\ resized' = "shrunk")
       /\ ~(resized = "shrunk" /\ resized' = "grown")]_vars

(* The elements and what the calls return are those of an array without    *)
(* capacities, however often it was moved, until the Tank misbehaves.      *)
Array == INSTANCE GrowableArray WITH items <- Elements

ImplementsArray == Array!Spec
=============================================================================
