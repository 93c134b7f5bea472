----------------------------- MODULE TankProofs -----------------------------
(* Theorems about Tank, for any elements, capacities, indices and number   *)
(* of elements.                                                            *)
EXTENDS Tank, SequenceTheorems, TLAPS

(* At most one block is allocated, data's, and it has max_capacity slots;  *)
(* it is missing only after a copy freed it.                               *)
HeapInv ==
  /\ live \subseteq {data} \ {NULL}
  /\ Len(Block) = max_capacity
  /\ ~copied => live = {data} \ {NULL}
  /\ status = "undefined" => copied

(* Where the size lies between the two bounds, after a growth and after a  *)
(* shrinking.                                                              *)
SizeInv ==
  /\ HalfUsed
  /\ resized = "grown" => filled > max_capacity \div 2
  /\ resized = "shrunk" => filled < max_capacity

TankInv == TankTypeOK /\ HeapInv /\ SizeInv

Content == Values \cup {Unset}

LEMMA InitInv == Init => TankInv
<1> SUFFICES ASSUME Init PROVE TankInv
  OBVIOUS
<1>1. max_capacity \in Nat /\ data = 1 /\ slots[1] = [k \in 1 .. max_capacity |-> Unset]
  BY TankAssumption DEF Init, Blocks
<1>2. slots[1] \in Seq(Content) /\ Len(slots[1]) = max_capacity
  BY <1>1 DEF Content
<1>3. TankTypeOK
  <2>1. slots \in [Blocks -> Seq(Content)]
    <3>1. \A b \in Blocks : b # 1 => slots[b] = <<>>
      BY DEF Init
    <3>2. <<>> \in Seq(Content)
      OBVIOUS
    <3>3. \A b \in Blocks : slots[b] \in Seq(Content)
      BY <1>2, <3>1, <3>2
    <3>4. QED
      BY <3>3 DEF Init
  <2>2. data \in Blocks /\ live \subseteq Blocks /\ filled \in 0 .. max_capacity
    BY <1>1 DEF Init, Blocks
  <2>3. asked \in BOOLEAN /\ copied \in BOOLEAN
    BY <1>1 DEF Init
  <2>4. QED
    BY <1>1, <2>1, <2>2, <2>3 DEF Init, TankTypeOK, Content
<1>4. HeapInv
  BY <1>1, <1>2 DEF Init, HeapInv, Block, NULL
<1>5. SizeInv
  <2>1. filled = 0 /\ resized = "no" /\ (asked <=> max_capacity > 0)
    BY <1>1 DEF Init
  <2>2. ~asked => max_capacity = 0
    BY <1>1, <2>1
  <2>3. QED
    BY <2>1, <2>2 DEF SizeInv, HalfUsed
<1>6. QED
  BY <1>3, <1>4, <1>5 DEF TankInv

(* The contents moved to n slots, however many there were. *)
LEMMA MovedIsBlock ==
  ASSUME TankTypeOK, NEW n \in Nat
  PROVE  Moved(n) \in Seq(Content) /\ Len(Moved(n)) = n
<1>1. Block \in Seq(Content)
  BY DEF TankTypeOK, Block, Content
<1>2. \A k \in 1 .. n :
        (IF k <= Len(Block) THEN Block[k] ELSE Unset) \in Content
  BY <1>1 DEF Content
<1>3. QED
  BY <1>2 DEF Moved

(* There is a block to move to, and only it is allocated afterwards. *)
LEMMA ReallocKeepsHeap ==
  ASSUME TankInv, Usable, NEW block \in Seq(Content), Realloc(block)
  PROVE  /\ data' \in Blocks \cup {NULL}
         /\ live' = {data'} \ {NULL} /\ live' \subseteq Blocks
         /\ slots' \in [Blocks -> Seq(Content)]
         /\ Block' = block
<1>1. Fresh \in Blocks /\ Fresh \notin live \cup {data}
  <2>1. live \subseteq {data}
    BY DEF TankInv, HeapInv
  <2>2. \E b \in Blocks : b \notin live \cup {data}
    BY <2>1, 1 \in Blocks, 2 \in Blocks DEF Blocks
  <2>3. QED
    BY <2>2 DEF Fresh
<1>2. slots' = [slots EXCEPT ![Fresh] = block]
  BY DEF Realloc
<1>3. slots' \in [Blocks -> Seq(Content)] /\ slots'[Fresh] = block
  BY <1>1, <1>2 DEF TankInv, TankTypeOK, Content
<1>4. live' = {data'} \ {NULL}
  BY DEF TankInv, HeapInv, Realloc
<1>5. CASE block = <<>> /\ data # NULL
  BY <1>3, <1>4, <1>5 DEF Realloc, Block
<1>6. CASE ~(block = <<>> /\ data # NULL)
  <2>1. data' = Fresh /\ Fresh # NULL
    BY <1>1, <1>6 DEF Realloc, Blocks, NULL
  <2>2. QED
    BY <1>1, <1>3, <1>4, <2>1 DEF Block
<1>7. QED
  BY <1>5, <1>6
-----------------------------------------------------------------------------
(* Each call keeps the invariant. *)

LEMMA FailsKeepsInv ==
  ASSUME TankInv, NEW condition, Fails(condition)
  PROVE  TankInv'
BY DEF TankInv, TankTypeOK, HeapInv, SizeInv, HalfUsed, Block, Fails, tank, heap,
   history

LEMMA ResizeKeepsInv ==
  ASSUME TankInv, NEW n \in Capacities, Resize(n)
  PROVE  TankInv'
<1>1. CASE Fails(filled <= n)
  BY <1>1, FailsKeepsInv
<1>2. CASE ~Fails(filled <= n)
  <2>1. /\ Usable /\ filled <= n /\ Realloc(Moved(n))
        /\ max_capacity' = n /\ asked' = TRUE /\ resized' = "no"
        /\ UNCHANGED <<filled, copied, status>>
    BY <1>2 DEF Resize, Assert
  <2>2. n \in Nat /\ Moved(n) \in Seq(Content) /\ Len(Moved(n)) = n
    BY TankAssumption, MovedIsBlock DEF TankInv
  <2>3. /\ data' \in Blocks \cup {NULL}
        /\ live' = {data'} \ {NULL} /\ live' \subseteq Blocks
        /\ slots' \in [Blocks -> Seq(Content)]
        /\ Block' = Moved(n)
    BY <2>1, <2>2, ReallocKeepsHeap
  <2>4. TankTypeOK' /\ HeapInv' /\ SizeInv'
    BY <2>1, <2>2, <2>3 DEF TankInv, TankTypeOK, HeapInv, SizeInv, HalfUsed,
       Content
  <2>5. QED
    BY <2>4 DEF TankInv
<1>3. QED
  BY <1>1, <1>2

LEMMA PushKeepsInv ==
  ASSUME TankInv, NEW x \in Values, PushBack(x)
  PROVE  TankInv'
<1>1. /\ Usable /\ filled' = filled + 1
      /\ filled \in Nat /\ max_capacity \in Nat /\ filled <= max_capacity
      /\ UNCHANGED <<status, asked, copied>>
  BY DEF PushBack, PushUpTo, TankInv, TankTypeOK
<1>2. CASE filled >= max_capacity
  <2> DEFINE n == IF max_capacity > 0 THEN 2 * max_capacity ELSE 1
             moved == [Moved(n) EXCEPT ![filled + 1] = x]
  <2>1. max_capacity' = n /\ resized' = "grown" /\ Realloc(moved)
    BY <1>1, <1>2 DEF PushBack, PushUpTo
  <2>2. n \in Nat /\ filled + 1 \in 1 .. n /\ filled + 1 > n \div 2
    BY <1>1, <1>2
  <2>3. Moved(n) \in Seq(Content) /\ Len(Moved(n)) = n
    BY <2>2, MovedIsBlock DEF TankInv
  <2>4. moved \in Seq(Content) /\ Len(moved) = n
    BY <2>2, <2>3 DEF Content
  <2>5. /\ data' \in Blocks \cup {NULL}
        /\ live' = {data'} \ {NULL} /\ live' \subseteq Blocks
        /\ slots' \in [Blocks -> Seq(Content)]
        /\ Block' = moved
    BY <1>1, <2>1, <2>4, ReallocKeepsHeap
  <2> HIDE DEF n, moved
  <2>6. TankTypeOK' /\ HeapInv' /\ SizeInv'
    BY <1>1, <2>1, <2>2, <2>4, <2>5 DEF TankInv, TankTypeOK, HeapInv, SizeInv,
       HalfUsed, Content
  <2>7. QED
    BY <2>6 DEF TankInv
<1>3. CASE filled < max_capacity
  <2>1. /\ slots' = [slots EXCEPT ![data][filled + 1] = x]
        /\ resized' = "no"
        /\ UNCHANGED <<data, max_capacity, live>>
    BY <1>1, <1>3 DEF PushBack, PushUpTo
  <2>2. data # NULL /\ data \in Blocks
    BY <1>1, <1>3 DEF TankInv, TankTypeOK, HeapInv, Block
  <2>3. slots[data] \in Seq(Content) /\ Len(slots[data]) = max_capacity
    BY <2>2 DEF TankInv, TankTypeOK, HeapInv, Block, Content
  <2>4. /\ [slots[data] EXCEPT ![filled + 1] = x] \in Seq(Content)
        /\ Len([slots[data] EXCEPT ![filled + 1] = x]) = max_capacity
    BY <1>1, <1>3, <2>3 DEF Content
  <2>5. /\ slots' \in [Blocks -> Seq(Content)]
        /\ Block' = [slots[data] EXCEPT ![filled + 1] = x]
    BY <2>1, <2>2, <2>4 DEF TankInv, TankTypeOK, Block, Content
  <2>6. TankTypeOK' /\ HeapInv' /\ SizeInv'
    BY <1>1, <1>3, <2>1, <2>4, <2>5 DEF TankInv, TankTypeOK, HeapInv, SizeInv,
       HalfUsed, Content
  <2>7. QED
    BY <2>6 DEF TankInv
<1>4. QED
  BY <1>1, <1>2, <1>3

LEMMA PopKeepsInv ==
  ASSUME TankInv, PopBack
  PROVE  TankInv'
<1>1. CASE Fails(filled > 0)
  BY <1>1, FailsKeepsInv
<1>2. CASE ~Fails(filled > 0)
  <2>1. /\ Usable /\ filled > 0 /\ filled' = filled - 1
        /\ filled \in Nat /\ max_capacity \in Nat /\ filled <= max_capacity
        /\ UNCHANGED <<status, asked, copied>>
    BY <1>2 DEF PopBack, PopShrinking, Assert, TankInv, TankTypeOK
  <2>2. CASE filled' < max_capacity \div 2
    <3> DEFINE n == max_capacity \div 2
    <3>1. max_capacity' = n /\ resized' = "shrunk" /\ Realloc(Moved(n))
      BY <1>2, <2>1, <2>2 DEF PopBack, PopShrinking
    <3>2. n \in Nat /\ filled' < n /\ n <= max_capacity
      BY <2>1, <2>2
    <3>3. Moved(n) \in Seq(Content) /\ Len(Moved(n)) = n
      BY <3>2, MovedIsBlock DEF TankInv
    <3>4. /\ data' \in Blocks \cup {NULL}
          /\ live' = {data'} \ {NULL} /\ live' \subseteq Blocks
          /\ slots' \in [Blocks -> Seq(Content)]
          /\ Block' = Moved(n)
      BY <2>1, <3>1, <3>3, ReallocKeepsHeap
    <3>5. ~asked => filled' >= n \div 2
      BY <2>1, <2>2 DEF TankInv, SizeInv, HalfUsed
    <3> HIDE DEF n
    <3>6. TankTypeOK' /\ HeapInv' /\ SizeInv'
      BY <2>1, <3>1, <3>2, <3>3, <3>4, <3>5 DEF TankInv, TankTypeOK, HeapInv,
         SizeInv, HalfUsed, Content
    <3>7. QED
      BY <3>6 DEF TankInv
  <2>3. CASE filled' >= max_capacity \div 2
    <3>1. resized' = "no" /\ UNCHANGED <<data, max_capacity, heap>>
      BY <1>2, <2>1, <2>3 DEF PopBack, PopShrinking
    <3>2. TankTypeOK' /\ HeapInv' /\ SizeInv'
      BY <2>1, <2>3, <3>1 DEF TankInv, TankTypeOK, HeapInv, SizeInv, HalfUsed,
         Block, heap
    <3>3. QED
      BY <3>2 DEF TankInv
  <2>4. QED
    BY <2>1, <2>2, <2>3
<1>3. QED
  BY <1>1, <1>2

LEMMA FreeKeepsInv ==
  ASSUME TankInv, FreeArray, status' \in {status, "destroyed"}
  PROVE  TankInv'
<1>1. Len(<<>>) = 0 /\ 0 \div 2 = 0
  OBVIOUS
<1>2. /\ filled' = 0 /\ max_capacity' = 0 /\ data' = NULL /\ live' = live \ {data}
      /\ asked' = FALSE /\ resized' = "no" /\ copied' = copied /\ slots' = slots
  BY DEF FreeArray, FreeAndPoint
<1>3. TankTypeOK'
  <2>1. 0 \in Nat /\ 0 \in 0 .. 0
    OBVIOUS
  <2>2. status' \in {"running", "aborted", "undefined", "destroyed"}
    BY DEF TankInv, TankTypeOK
  <2>3. slots' \in [Blocks -> Seq(Values \cup {Unset})]
    BY <1>2 DEF TankInv, TankTypeOK
  <2>4. live' \subseteq Blocks
    BY <1>2 DEF TankInv, TankTypeOK
  <2>5. asked' \in BOOLEAN
    BY <1>2
  <2>6. copied' \in BOOLEAN
    BY <1>2 DEF TankInv, TankTypeOK
  <2>7. QED
    BY <1>2, <2>1, <2>2, <2>3, <2>4, <2>5, <2>6 DEF TankTypeOK
<1>4. HeapInv'
  <2>1. Block' = <<>>
    BY <1>2 DEF Block
  <2>2. live' = {}
    BY <1>2 DEF TankInv, HeapInv
  <2>3. status' = "undefined" => copied'
    BY <1>2 DEF TankInv, HeapInv
  <2>4. QED
    BY <1>1, <1>2, <2>1, <2>2, <2>3 DEF HeapInv
<1>5. SizeInv'
  BY <1>1, <1>2 DEF SizeInv, HalfUsed
<1>6. QED
  BY <1>3, <1>4, <1>5 DEF TankInv

LEMMA StepInv == TankInv /\ [Next]_vars => TankInv'
<1> SUFFICES ASSUME TankInv, [Next]_vars PROVE TankInv'
  OBVIOUS
<1>1. CASE \E x \in Values : PushBack(x)
  BY <1>1, PushKeepsInv
<1>2. CASE \E n \in Capacities : Resize(n)
  BY <1>2, ResizeKeepsInv
<1>3. CASE \E index \in Indices : At(index)
  <2> PICK index \in Indices : At(index)
    BY <1>3
  <2>1. CASE Fails(index \in 0 .. filled - 1)
    BY <2>1, FailsKeepsInv
  <2>2. CASE ~Fails(index \in 0 .. filled - 1)
    BY <2>2 DEF At, AtUpTo, Assert, TankInv, TankTypeOK, HeapInv, SizeInv,
       HalfUsed, Block, tank, heap, history
  <2>3. QED
    BY <2>1, <2>2
<1>4. CASE PopBack
  BY <1>4, PopKeepsInv
<1>5. CASE Clear
  BY <1>5, FreeKeepsInv DEF Clear
<1>6. CASE Destroy
  BY <1>6, FreeKeepsInv DEF Destroy
<1>7. CASE Accumulate
  BY <1>7 DEF Accumulate, TankInv, TankTypeOK, HeapInv, SizeInv, HalfUsed, Block,
     tank
<1>8. CASE UseFreed
  BY <1>8 DEF UseFreed, Dangling, TankInv, TankTypeOK, HeapInv, SizeInv,
     HalfUsed, Block, tank, heap, history
<1>9. CASE UNCHANGED vars
  BY <1>9 DEF vars, TankInv, TankTypeOK, HeapInv, SizeInv, HalfUsed, Block, tank,
     heap, history
<1>10. QED
  BY <1>1, <1>2, <1>3, <1>4, <1>5, <1>6, <1>7, <1>8, <1>9 DEF Next

LEMMA InvHolds == Spec => []TankInv
  BY InitInv, StepInv, PTL DEF Spec
-----------------------------------------------------------------------------
(* The Tank stays in its types and its elements in its capacity, so that   *)
(* push_back writes inside its block (Tank.cpp:33).                        *)
THEOREM TankTypeCorrect == Spec => []TankTypeOK
<1>1. TankInv => TankTypeOK
  BY DEF TankInv
<1>2. QED
  BY <1>1, InvHolds, PTL

(* No block is leaked, and data's is as large as max_capacity says         *)
(* (Tank.cpp:15-23, 54-59).                                                *)
THEOREM NoBlockLeaked == Spec => []HeapExact
<1>1. TankInv => HeapExact
  BY DEF TankInv, HeapInv, HeapExact
<1>2. QED
  BY <1>1, InvHolds, PTL

(* Only a Tank that was copied is used after its data were freed, or frees *)
(* them twice (Tank.cpp:58, 62).                                           *)
THEOREM OnlyCopiesMisbehave == Spec => []DefinedUnlessCopied
<1>1. TankInv => DefinedUnlessCopied
  BY DEF TankInv, HeapInv, DefinedUnlessCopied
<1>2. QED
  BY <1>1, InvHolds, PTL

(* Unless its capacity was asked for, by the constructor or by resize,     *)
(* half of a Tank's array, rounded down, is used, whatever was pushed and  *)
(* popped (Tank.cpp:30, 39).                                               *)
THEOREM HalfIsUsed == Spec => []HalfUsed
<1>1. TankInv => HalfUsed
  BY DEF TankInv, SizeInv
<1>2. QED
  BY <1>1, InvHolds, PTL

(* A growth and a shrinking are never next to each other (Tank.cpp:30,     *)
(* 39).                                                                    *)
THEOREM GrowthAndShrinkingApart == Spec => NoThrashing
<1>1. TankInv /\ [Next]_vars =>
        [~(resized = "grown" /\ resized' = "shrunk")
           /\ ~(resized = "shrunk" /\ resized' = "grown")]_vars
  <2> SUFFICES ASSUME TankInv, Next, resized # "no"
               PROVE  ~(resized = "grown" /\ resized' = "shrunk")
                        /\ ~(resized = "shrunk" /\ resized' = "grown")
    BY DEF Next
  <2>1. CASE \E x \in Values : PushBack(x)
    BY <2>1 DEF PushBack, PushUpTo, TankInv, SizeInv, TankTypeOK
  <2>2. CASE PopBack
    BY <2>2 DEF PopBack, PopShrinking, Fails, history, TankInv, SizeInv,
       TankTypeOK
  <2>3. CASE ~PopBack /\ ~\E x \in Values : PushBack(x)
    BY <2>3 DEF Next, Resize, At, AtUpTo, Clear, Destroy, FreeArray,
       FreeAndPoint, Accumulate, UseFreed, Fails, Assert, history
  <2>4. QED
    BY <2>1, <2>2, <2>3
<1>2. QED
  BY <1>1, InvHolds, PTL DEF Spec, NoThrashing
-----------------------------------------------------------------------------
(***************************************************************************)
(* The Tank implements the growable array of Tank.h.                       *)
(***************************************************************************)

(* The first n slots of a block. *)
LEMMA Prefix ==
  ASSUME NEW block \in Seq(Content), NEW n \in 0 .. Len(block)
  PROVE  /\ SubSeq(block, 1, n) \in Seq(Content)
         /\ Len(SubSeq(block, 1, n)) = n
         /\ \A k \in 1 .. n : SubSeq(block, 1, n)[k] = block[k]
<1>1. \A k \in 1 .. n : block[k] \in Content
  OBVIOUS
<1>2. 1 \in Int /\ n \in Int
  OBVIOUS
<1>3. /\ SubSeq(block, 1, n) \in Seq(Content)
      /\ Len(SubSeq(block, 1, n)) = IF 1 <= n THEN n - 1 + 1 ELSE 0
      /\ \A k \in 1 .. n - 1 + 1 : SubSeq(block, 1, n)[k] = block[1 + k - 1]
  BY <1>1, <1>2, SubSeqProperties
<1>. HIDE DEF Content
<1>4. n \in Nat
  OBVIOUS
<1>. QED
  BY <1>3, <1>4

(* Two sequences of the same length with the same elements are the same. *)
LEMMA SameElements ==
  ASSUME NEW s \in Seq(Content), NEW r \in Seq(Content), Len(s) = Len(r),
         \A k \in 1 .. Len(s) : s[k] = r[k]
  PROVE  s = r
BY SeqEqual

(* What the elements are, as long as the Tank has a block. *)
LEMMA ElementsTyped ==
  ASSUME TankInv
  PROVE  /\ Block \in Seq(Content) /\ filled \in 0 .. Len(Block)
         /\ Elements \in Seq(Content) /\ Len(Elements) = filled
         /\ \A k \in 1 .. filled : Elements[k] = Block[k]
<1>1. Block \in Seq(Content) /\ filled \in 0 .. Len(Block)
  BY DEF TankInv, TankTypeOK, HeapInv, Block, Content
<1>. QED
  BY <1>1, Prefix DEF Elements

(* The elements after a call that moved or changed the block. *)
LEMMA ElementsNext ==
  ASSUME NEW block \in Seq(Content), NEW n \in 0 .. Len(block),
         Block' = block, filled' = n
  PROVE  /\ Elements' \in Seq(Content) /\ Len(Elements') = n
         /\ \A k \in 1 .. n : Elements'[k] = block[k]
<1>1. Elements' = SubSeq(block, 1, n)
  BY DEF Elements
<1>. QED
  BY <1>1, Prefix

(* Moving keeps the elements that fit. *)
LEMMA MovedKeeps ==
  ASSUME TankInv, NEW n \in Nat, NEW k \in 1 .. n, k <= filled
  PROVE  Moved(n)[k] = Elements[k]
BY ElementsTyped DEF Moved

(* SumFunction, inside GrowableArray and outside. *)
LEMMA SameSum == \A s : Array!SumFunction(s) = SumFunction(s)
BY DEF Array!SumFunction, SumFunction, Array!SumFunctionOnSet, SumFunctionOnSet,
   Array!FoldFunctionOnSet, FoldFunctionOnSet, Array!MapThenFoldSet,
   MapThenFoldSet

LEMMA ResizeRefines ==
  ASSUME TankInv, NEW n \in Capacities, Resize(n)
  PROVE  UNCHANGED Array!vars
<1>1. CASE Fails(filled <= n)
  BY <1>1 DEF Fails, Array!vars, Elements, Block, tank, heap
<1>2. CASE ~Fails(filled <= n)
  <2>1. /\ Usable /\ filled <= n /\ Realloc(Moved(n))
        /\ UNCHANGED <<filled, result>>
    BY <1>2 DEF Resize, Assert
  <2>2. n \in Nat /\ Moved(n) \in Seq(Content) /\ Len(Moved(n)) = n
    BY TankAssumption, MovedIsBlock DEF TankInv
  <2>3. Block' = Moved(n)
    BY <2>1, <2>2, ReallocKeepsHeap
  <2>4. Elements' = Elements
    <3>1. Elements \in Seq(Content) /\ Len(Elements) = filled /\ filled \in 0 .. n
      BY <2>1, <2>2, ElementsTyped
    <3>2. /\ Elements' \in Seq(Content) /\ Len(Elements') = filled
          /\ \A k \in 1 .. filled : Elements'[k] = Moved(n)[k]
      BY <2>1, <2>2, <2>3, <3>1, ElementsNext
    <3>3. \A k \in 1 .. filled : k \in 1 .. n /\ k <= filled
      BY <2>2, <3>1
    <3>4. \A k \in 1 .. filled : Elements'[k] = Elements[k]
      BY <2>2, <3>2, <3>3, MovedKeeps
    <3>. QED
      BY <3>1, <3>2, <3>4, SameElements
  <2>. QED
    BY <2>1, <2>4 DEF Array!vars
<1>. QED
  BY <1>1, <1>2

LEMMA PushRefines ==
  ASSUME TankInv, NEW x \in Values, PushBack(x)
  PROVE  Array!Push(x)
<1>1. /\ Usable /\ filled' = filled + 1 /\ result' = result
      /\ filled \in Nat /\ max_capacity \in Nat /\ filled <= max_capacity
      /\ x \in Content
  BY DEF PushBack, PushUpTo, TankInv, TankTypeOK, Content
<1>2. \E block \in Seq(Content) :
        /\ Block' = block /\ filled + 1 \in 1 .. Len(block)
        /\ block[filled + 1] = x
        /\ \A k \in 1 .. filled : block[k] = Elements[k]
  <2>1. CASE filled >= max_capacity
    <3> DEFINE n == IF max_capacity > 0 THEN 2 * max_capacity ELSE 1
               moved == [Moved(n) EXCEPT ![filled + 1] = x]
    <3>1. max_capacity' = n /\ Realloc(moved)
      BY <1>1, <2>1 DEF PushBack, PushUpTo
    <3>2. n \in Nat /\ filled + 1 \in 1 .. n
      BY <1>1, <2>1
    <3>3. Moved(n) \in Seq(Content) /\ Len(Moved(n)) = n
      BY <3>2, MovedIsBlock DEF TankInv
    <3>4. moved \in Seq(Content) /\ Len(moved) = n
      BY <1>1, <3>2, <3>3
    <3>5. Block' = moved
      BY <1>1, <3>1, <3>4, ReallocKeepsHeap
    <3>6. moved[filled + 1] = x
      BY <3>2, <3>3
    <3>7. ASSUME NEW k \in 1 .. filled PROVE moved[k] = Elements[k]
      <4>1. k \in 1 .. n /\ k # filled + 1 /\ k <= filled
        BY <1>1, <3>2
      <4>2. moved[k] = Moved(n)[k]
        BY <3>3, <4>1
      <4> HIDE DEF n, moved
      <4>. QED
        BY <3>2, <4>1, <4>2, MovedKeeps
    <3> HIDE DEF n, moved
    <3>. QED
      BY <3>2, <3>4, <3>5, <3>6, <3>7
  <2>2. CASE filled < max_capacity
    <3> DEFINE block == [slots[data] EXCEPT ![filled + 1] = x]
    <3>1. slots' = [slots EXCEPT ![data][filled + 1] = x] /\ data' = data
      BY <1>1, <2>2 DEF PushBack, PushUpTo
    <3>2. data # NULL /\ data \in Blocks
      BY <1>1, <2>2 DEF TankInv, TankTypeOK, HeapInv, Block
    <3>3. slots[data] \in Seq(Content) /\ Len(slots[data]) = max_capacity
      BY <3>2 DEF TankInv, TankTypeOK, HeapInv, Block, Content
    <3>4. filled + 1 \in 1 .. max_capacity
      BY <1>1, <2>2
    <3>5. block \in Seq(Content) /\ Len(block) = max_capacity /\ block[filled + 1] = x
      BY <1>1, <3>3, <3>4
    <3>6. Block' = block
      BY <3>1, <3>2 DEF Block, TankInv, TankTypeOK
    <3>7. ASSUME NEW k \in 1 .. filled PROVE block[k] = Elements[k]
      <4>1. k # filled + 1 /\ k \in 1 .. max_capacity
        BY <1>1
      <4>2. block[k] = slots[data][k]
        BY <3>3, <4>1
      <4> HIDE DEF block
      <4>. QED
        BY <3>2, <4>2, ElementsTyped DEF Block
    <3> HIDE DEF block
    <3>. QED
      BY <3>4, <3>5, <3>6, <3>7
  <2>. QED
    BY <1>1, <2>1, <2>2
<1>3. PICK block \in Seq(Content) :
        /\ Block' = block /\ filled + 1 \in 1 .. Len(block)
        /\ block[filled + 1] = x
        /\ \A k \in 1 .. filled : block[k] = Elements[k]
  BY <1>2
<1>4. /\ Elements' \in Seq(Content) /\ Len(Elements') = filled + 1
      /\ \A k \in 1 .. filled + 1 : Elements'[k] = block[k]
  <2>1. filled + 1 \in 0 .. Len(block)
    BY <1>3
  <2>. QED
    BY <1>1, <1>3, <2>1, ElementsNext
<1>5. Elements \in Seq(Content) /\ Len(Elements) = filled
  BY ElementsTyped
<1>6. Elements' = Append(Elements, x)
  <2>1. /\ Append(Elements, x) \in Seq(Content)
        /\ Len(Append(Elements, x)) = filled + 1
        /\ Append(Elements, x)[filled + 1] = x
        /\ \A k \in 1 .. filled : Append(Elements, x)[k] = Elements[k]
    <3> HIDE DEF Content
    <3>. QED
      BY <1>1, <1>5, AppendProperties
  <2>2. ASSUME NEW k \in 1 .. filled + 1
        PROVE  Elements'[k] = Append(Elements, x)[k]
    <3>1. k = filled + 1 \/ k \in 1 .. filled
      BY <1>1
    <3>. QED
      BY <1>3, <1>4, <2>1, <3>1
  <2>. QED
    BY <1>4, <2>1, <2>2, SameElements
<1>. QED
  BY <1>1, <1>6 DEF Array!Push

LEMMA PopRefines ==
  ASSUME TankInv, PopBack
  PROVE  Array!Pop \/ UNCHANGED Array!vars
<1>1. CASE Fails(filled > 0)
  BY <1>1 DEF Fails, Array!vars, Elements, Block, tank, heap
<1>2. CASE ~Fails(filled > 0)
  <2>1. /\ Usable /\ filled > 0 /\ filled' = filled - 1
        /\ filled \in Nat /\ max_capacity \in Nat /\ filled <= max_capacity
        /\ result' = Block[filled]
    BY <1>2 DEF PopBack, PopShrinking, Assert, TankInv, TankTypeOK
  <2>2. /\ Elements \in Seq(Content) /\ Len(Elements) = filled
        /\ \A k \in 1 .. filled : Elements[k] = Block[k]
        /\ Block \in Seq(Content) /\ filled \in 0 .. Len(Block)
    BY ElementsTyped
  <2>3. \E block \in Seq(Content) :
          /\ Block' = block /\ filled - 1 \in 0 .. Len(block)
          /\ \A k \in 1 .. filled - 1 : block[k] = Elements[k]
    <3>1. CASE filled' < max_capacity \div 2
      <4> DEFINE n == max_capacity \div 2
      <4>1. Realloc(Moved(n))
        BY <1>2, <2>1, <3>1 DEF PopBack, PopShrinking
      <4>2. n \in Nat /\ filled - 1 < n
        BY <2>1, <3>1
      <4> HIDE DEF n
      <4>3. Moved(n) \in Seq(Content) /\ Len(Moved(n)) = n
        BY <4>2, MovedIsBlock DEF TankInv
      <4>4. Block' = Moved(n)
        BY <2>1, <4>1, <4>3, ReallocKeepsHeap
      <4>5. filled - 1 \in 0 .. n
        BY <2>1, <4>2
      <4>6. \A k \in 1 .. filled - 1 : k \in 1 .. n /\ k <= filled
        BY <2>1, <4>2
      <4>7. \A k \in 1 .. filled - 1 : Moved(n)[k] = Elements[k]
        BY <4>2, <4>6, MovedKeeps
      <4>. QED
        BY <4>3, <4>4, <4>5, <4>7
    <3>2. CASE filled' >= max_capacity \div 2
      <4>1. UNCHANGED <<data, heap>>
        BY <1>2, <2>1, <3>2 DEF PopBack, PopShrinking
      <4>2. Block' = Block
        BY <4>1 DEF Block, heap
      <4>3. filled - 1 \in 0 .. Len(Block)
        BY <2>1, <2>2
      <4>4. \A k \in 1 .. filled - 1 : Block[k] = Elements[k]
        BY <2>1, <2>2
      <4>. QED
        BY <2>2, <4>2, <4>3, <4>4
    <3>. QED
      BY <2>1, <3>1, <3>2
  <2>4. PICK block \in Seq(Content) :
          /\ Block' = block /\ filled - 1 \in 0 .. Len(block)
          /\ \A k \in 1 .. filled - 1 : block[k] = Elements[k]
    BY <2>3
  <2>5. /\ Elements' \in Seq(Content) /\ Len(Elements') = filled - 1
        /\ \A k \in 1 .. filled - 1 : Elements'[k] = block[k]
    BY <2>1, <2>4, ElementsNext
  <2>6. /\ SubSeq(Elements, 1, filled - 1) \in Seq(Content)
        /\ Len(SubSeq(Elements, 1, filled - 1)) = filled - 1
        /\ \A k \in 1 .. filled - 1 :
             SubSeq(Elements, 1, filled - 1)[k] = Elements[k]
    <3>1. filled - 1 \in 0 .. Len(Elements)
      BY <2>1, <2>2
    <3>. QED
      BY <2>2, <3>1, Prefix
  <2>7. Elements' = SubSeq(Elements, 1, filled - 1)
    BY <2>4, <2>5, <2>6, SameElements
  <2>8. Elements # <<>> /\ result' = Elements[Len(Elements)]
    <3>1. filled \in 1 .. filled /\ Len(<<>>) = 0
      BY <2>1
    <3>. QED
      BY <2>1, <2>2, <3>1
  <2>. QED
    BY <2>2, <2>7, <2>8 DEF Array!Pop
<1>. QED
  BY <1>1, <1>2

LEMMA AtRefines ==
  ASSUME TankInv, NEW index \in Indices, At(index)
  PROVE  (\E k \in DOMAIN Elements : Array!At(k)) \/ UNCHANGED Array!vars
<1>1. CASE Fails(index \in 0 .. filled - 1)
  BY <1>1 DEF Fails, Array!vars, Elements, Block, tank, heap
<1>2. CASE ~Fails(index \in 0 .. filled - 1)
  <2>1. /\ index \in 0 .. filled - 1
        /\ result' = (Block \o <<Unset>>)[index + 1]
        /\ UNCHANGED <<tank, heap>>
    BY <1>2 DEF At, AtUpTo, Assert
  <2>2. /\ Elements \in Seq(Content) /\ Len(Elements) = filled
        /\ \A k \in 1 .. filled : Elements[k] = Block[k]
        /\ Block \in Seq(Content) /\ filled \in 0 .. Len(Block)
    BY ElementsTyped
  <2>3. index + 1 \in 1 .. filled /\ index + 1 \in 1 .. Len(Block)
    BY <2>1, <2>2
  <2>4. (Block \o <<Unset>>)[index + 1] = Block[index + 1]
    BY <2>2, <2>3
  <2>5. Elements' = Elements
    BY <2>1 DEF Elements, Block, tank, heap
  <2>6. index + 1 \in DOMAIN Elements
    BY <2>2, <2>3
  <2>7. result' = Elements[index + 1]
    BY <2>1, <2>2, <2>3, <2>4
  <2>. QED
    BY <2>5, <2>6, <2>7 DEF Array!At
<1>. QED
  BY <1>1, <1>2

LEMMA FreeRefines ==
  ASSUME FreeArray
  PROVE  Array!Clear
<1>1. filled' = 0 /\ result' = result
  BY DEF FreeArray, FreeAndPoint
<1>2. Elements' = SubSeq(Block', 1, 0)
  BY <1>1 DEF Elements
<1>3. Elements' = <<>>
  BY <1>2, SubSeqEmpty
<1>. QED
  BY <1>1, <1>3 DEF Array!Clear

LEMMA AccumulateRefines ==
  ASSUME Accumulate
  PROVE  Array!Sum
BY SameSum DEF Accumulate, Array!Sum, Elements, Block, tank

(* Whatever is pushed, popped, resized, copied and cleared, the elements   *)
(* of a Tank and what its calls return are those of a sequence without     *)
(* capacities (Tank.cpp:15-52), also while their block is moved.           *)
THEOREM TankRefinesArray == Spec => ImplementsArray
<1>1. Init => Array!Init
  <2>. SUFFICES ASSUME Init PROVE Array!Init
    OBVIOUS
  <2>1. filled = 0 /\ result = 0
    BY DEF Init
  <2>2. Elements = <<>>
    BY <2>1, SubSeqEmpty DEF Elements
  <2>. QED
    BY <2>1, <2>2 DEF Array!Init
<1>2. TankInv /\ [Next]_vars => [Array!Next]_(Array!vars)
  <2>. SUFFICES ASSUME TankInv, [Next]_vars
                PROVE  Array!Next \/ UNCHANGED Array!vars
    OBVIOUS
  <2>1. CASE \E x \in Values : PushBack(x)
    BY <2>1, PushRefines DEF Array!Next
  <2>2. CASE \E n \in Capacities : Resize(n)
    BY <2>2, ResizeRefines
  <2>3. CASE \E index \in Indices : At(index)
    BY <2>3, AtRefines DEF Array!Next
  <2>4. CASE PopBack
    BY <2>4, PopRefines DEF Array!Next
  <2>5. CASE Clear \/ Destroy
    BY <2>5, FreeRefines DEF Clear, Destroy, Array!Next
  <2>6. CASE Accumulate
    BY <2>6, AccumulateRefines DEF Array!Next
  <2>7. CASE UseFreed
    BY <2>7 DEF UseFreed, Array!vars, Elements, Block, tank, heap
  <2>8. CASE UNCHANGED vars
    BY <2>8 DEF vars, Array!vars, Elements, Block, tank, heap
  <2>. QED
    BY <2>1, <2>2, <2>3, <2>4, <2>5, <2>6, <2>7, <2>8 DEF Next
<1>. QED
  BY <1>1, <1>2, InvHolds, PTL DEF Spec, ImplementsArray, Array!Spec
=============================================================================
