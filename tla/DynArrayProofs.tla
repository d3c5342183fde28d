--------------------------- MODULE DynArrayProofs ----------------------------
(* What DynArray promises for elements of every size, any number of blocks *)
(* and every outcome of malloc.                                            *)
EXTENDS DynArray, SequenceTheorems, TLAPS

(* Bytes: the zeroes of a new block and the values pushed.                 *)
Bytes == Values \cup {0}

(* A heap of one block.                                                    *)
Only(b, bytes) == [x \in {b} |-> bytes]

(* The block the array owns holds at least the bytes the array believes    *)
(* to own, and there is no other block.                                    *)
Owned ==
  /\ data \in Blocks \cup {NULL} /\ pos \in Nat /\ size \in Nat /\ pos <= size
  /\ DOMAIN heap = {data} \ {NULL}
  /\ IF data = NULL THEN size = 0
     ELSE /\ heap = Only(data, heap[data])
          /\ heap[data] \in Seq(Bytes) /\ size <= Len(heap[data])

(* The bytes in use are those that were pushed.                            *)
Kept ==
  /\ pushed \in Seq(Values) /\ pos = Len(pushed)
  /\ \A k \in 1 .. pos : heap[data][k] = pushed[k]

Inv == Owned /\ Kept

(* The block is replaced: the bytes in use are in the new one.             *)
LEMMA ReallocatedOutcomes ==
  ASSUME NEW ptr \in Blocks, NEW bytes \in Seq(Bytes),
         NEW old_size \in Nat, NEW new_size \in Nat,
         old_size <= Len(bytes), old_size <= new_size,
         NEW h, h = Only(ptr, bytes),
         NEW o \in Reallocated(h, ptr, old_size, new_size)
  PROVE  \/ o = Outcome(1, ptr, h)
         \/ \E b \in Blocks, new \in Seq(Bytes) :
              /\ o = Outcome(0, b, Only(b, new)) /\ Len(new) = new_size
              /\ \A k \in 1 .. old_size : new[k] = bytes[k]
<1> SUFFICES ASSUME o # Outcome(1, ptr, h)
             PROVE  \E b \in Blocks, new \in Seq(Bytes) :
                      /\ o = Outcome(0, b, Only(b, new)) /\ Len(new) = new_size
                      /\ \A k \in 1 .. old_size : new[k] = bytes[k]
  OBVIOUS
<1>1. PICK b \in Blocks \ DOMAIN h :
        o = Outcome(0, b, With(Without(h, ptr), b, Moved(h[ptr], old_size, new_size)))
  BY DEF Reallocated
<1> DEFINE new == Moved(bytes, old_size, new_size)
<1>2. SmallerOf(new_size, old_size) = old_size
  BY DEF SmallerOf
<1>3. \A k \in 1 .. new_size : (IF k <= old_size THEN bytes[k] ELSE 0) \in Bytes
  BY DEF Bytes
<1>4. /\ new \in Seq(Bytes) /\ Len(new) = new_size
      /\ \A k \in 1 .. old_size : new[k] = bytes[k]
  BY <1>2, <1>3 DEF Moved
<1>5. h[ptr] = bytes /\ DOMAIN h = {ptr}
  BY DEF Only
<1>6. DOMAIN Without(h, ptr) = {}
  BY <1>5 DEF Without, Restrict
<1> HIDE DEF new
<1>7. With(Without(h, ptr), b, new) = Only(b, new)
  BY <1>6 DEF With, Only
<1>8. o = Outcome(0, b, Only(b, new))
  BY <1>1, <1>5, <1>7 DEF new
<1> QED
  BY <1>1, <1>4, <1>8

(* Every way ft_realloc may end: a larger block with the old contents, the *)
(* array as it was, or an array that was null with a block of its own.     *)
LEMMA ReallocOutcomes ==
  ASSUME Owned, NEW new_size \in Nat, size <= new_size,
         NEW o \in ft_realloc(heap, data, size, new_size)
  PROVE  \/ \E b \in Blocks, new \in Seq(Bytes) :
              /\ o = Outcome(0, b, Only(b, new)) /\ Len(new) = new_size
              /\ \A k \in 1 .. size : new[k] = heap[data][k]
         \/ o = Outcome(1, data, heap)
         \/ /\ data = NULL
            /\ \E b \in Blocks, new \in Seq(Bytes) : o = Outcome(1, b, Only(b, new))
<1>1. CASE data # NULL
  <2>1. o \in Reallocated(heap, data, size, new_size)
    BY <1>1 DEF ft_realloc
  <2>2. /\ data \in Blocks /\ heap[data] \in Seq(Bytes) /\ size \in Nat
        /\ size <= Len(heap[data]) /\ heap = Only(data, heap[data])
    BY <1>1 DEF Owned
  <2>3. \/ o = Outcome(1, data, heap)
        \/ \E b \in Blocks, new \in Seq(Bytes) :
             /\ o = Outcome(0, b, Only(b, new)) /\ Len(new) = new_size
             /\ \A k \in 1 .. size : new[k] = heap[data][k]
    BY <2>1, <2>2, ReallocatedOutcomes
  <2> QED
    BY <2>3
<1>2. CASE data = NULL
  <2>1. CASE o = Outcome(1, NULL, heap)
    BY <1>2, <2>1
  <2>2. CASE o # Outcome(1, NULL, heap)
    <3>1. PICK b \in Blocks \ DOMAIN heap :
            o \in Reallocated(With(heap, b, Zeroes(new_size)), b, size, new_size)
      BY <1>2, <2>2 DEF ft_realloc
    <3>2. Zeroes(new_size) \in Seq(Bytes) /\ Len(Zeroes(new_size)) = new_size
      BY DEF Zeroes, Bytes
    <3>3. DOMAIN heap = {} /\ size = 0
      BY <1>2 DEF Owned
    <3>4. With(heap, b, Zeroes(new_size)) = Only(b, Zeroes(new_size))
      BY <3>3 DEF With, Only
    <3>5. /\ size \in Nat /\ size <= Len(Zeroes(new_size)) /\ \A k \in 1 .. size : FALSE
      BY <3>2, <3>3
    <3> DEFINE h == Only(b, Zeroes(new_size))
    <3>6. o \in Reallocated(h, b, size, new_size)
      BY <3>1, <3>4
    <3>7. \/ o = Outcome(1, b, h)
          \/ \E c \in Blocks, new \in Seq(Bytes) :
               /\ o = Outcome(0, c, Only(c, new)) /\ Len(new) = new_size
               /\ \A k \in 1 .. size : new[k] = Zeroes(new_size)[k]
      BY <3>2, <3>5, <3>6, ReallocatedOutcomes
    <3> HIDE DEF h
    <3>8. CASE o = Outcome(1, b, h)
      BY <1>2, <3>2, <3>8 DEF h
    <3>9. ASSUME NEW c \in Blocks, NEW new \in Seq(Bytes),
                 o = Outcome(0, c, Only(c, new)), Len(new) = new_size
          PROVE  \E b2 \in Blocks, new2 \in Seq(Bytes) :
                   /\ o = Outcome(0, b2, Only(b2, new2)) /\ Len(new2) = new_size
                   /\ \A k \in 1 .. size : new2[k] = heap[data][k]
      BY <3>5, <3>9
    <3> QED
      BY <3>7, <3>8, <3>9
  <2> QED
    BY <2>1, <2>2
<1> QED
  BY <1>1, <1>2
-----------------------------------------------------------------------------
(* An element is stored behind the bytes in use, in the block and in the   *)
(* history alike.                                                          *)
LEMMA StoredIsPushed ==
  ASSUME Kept, pos \in Nat, NEW bytes \in Seq(Bytes), NEW v \in Values, NEW w \in Widths,
         pos + w <= Len(bytes), \A k \in 1 .. pos : bytes[k] = pushed[k]
  PROVE  /\ Stored(bytes, pos, v, w) \in Seq(Bytes)
         /\ Len(Stored(bytes, pos, v, w)) = Len(bytes)
         /\ pushed \o Element(v, w) \in Seq(Values)
         /\ Len(pushed \o Element(v, w)) = pos + w
         /\ \A k \in 1 .. pos + w :
              Stored(bytes, pos, v, w)[k] = (pushed \o Element(v, w))[k]
<1>1. w \in Nat \ {0} /\ Len(bytes) \in Nat
  BY DynArrayAssumption
<1>2. Element(v, w) \in Seq(Values) /\ Len(Element(v, w)) = w
      /\ \A k \in 1 .. w : Element(v, w)[k] = v
  BY <1>1 DEF Element
<1>3. \A k \in 1 .. Len(bytes) : (IF k \in pos + 1 .. pos + w THEN v ELSE bytes[k]) \in Bytes
  BY DEF Bytes
<1>4. /\ Stored(bytes, pos, v, w) \in Seq(Bytes)
      /\ Len(Stored(bytes, pos, v, w)) = Len(bytes)
      /\ \A k \in 1 .. Len(bytes) :
           Stored(bytes, pos, v, w)[k] = IF k \in pos + 1 .. pos + w THEN v ELSE bytes[k]
  BY <1>1, <1>3 DEF Stored
<1>5. /\ pushed \in Seq(Values) /\ pos = Len(pushed)
  BY DEF Kept
<1>6. /\ pushed \o Element(v, w) \in Seq(Values)
      /\ Len(pushed \o Element(v, w)) = pos + w
      /\ \A k \in 1 .. pos + w :
           (pushed \o Element(v, w))[k] = IF k <= pos THEN pushed[k] ELSE Element(v, w)[k - pos]
  <2> DEFINE e == Element(v, w)
  <2>1. e \in Seq(Values) /\ Len(e) = w
    BY <1>2
  <2> HIDE DEF e
  <2>2. /\ pushed \o e \in Seq(Values)
        /\ Len(pushed \o e) = Len(pushed) + Len(e)
        /\ \A k \in 1 .. Len(pushed) + Len(e) :
             (pushed \o e)[k] = IF k <= Len(pushed) THEN pushed[k] ELSE e[k - Len(pushed)]
    BY <1>5, <2>1, ConcatProperties
  <2>3. /\ pushed \o e \in Seq(Values)
        /\ Len(pushed \o e) = pos + w
        /\ \A k \in 1 .. pos + w :
             (pushed \o e)[k] = IF k <= pos THEN pushed[k] ELSE e[k - pos]
    BY <1>5, <2>1, <2>2
  <2> QED
    BY <2>3 DEF e
<1>7. ASSUME NEW k \in 1 .. pos + w
      PROVE  Stored(bytes, pos, v, w)[k] = (pushed \o Element(v, w))[k]
  <2>1. k \in 1 .. Len(bytes) /\ k \in Nat
    BY <1>1
  <2>2. CASE k <= pos
    BY <1>1, <1>4, <1>6, <2>1, <2>2
  <2>3. CASE k > pos
    <3>1. k - pos \in 1 .. w /\ k \in pos + 1 .. pos + w
      BY <1>1, <2>3
    <3> QED
      BY <1>2, <1>4, <1>6, <2>1, <2>3, <3>1
  <2>4. k <= pos \/ k > pos
    BY <2>1
  <2> QED
    BY <2>2, <2>3, <2>4
<1> QED
  BY <1>4, <1>6, <1>7

(* The array after a step: its one block and what it holds.                *)
LEMMA OwnsBlock ==
  ASSUME NEW b \in Blocks, NEW bytes \in Seq(Bytes),
         data' = b, heap' = Only(b, bytes),
         pos' \in Nat, size' \in Nat, pos' <= size', size' <= Len(bytes)
  PROVE  Owned' /\ heap'[data'] = bytes
BY DynArrayAssumption DEF Owned, Only

LEMMA StoredInOnly ==
  ASSUME NEW b, NEW bytes, NEW v, NEW w
  PROVE  [Only(b, bytes) EXCEPT ![b] = Stored(@, pos, v, w)] = Only(b, Stored(bytes, pos, v, w))
BY DEF Only

LEMMA PushInPlaceInv ==
  ASSUME Inv, NEW v \in Values, NEW w \in Widths, PushInPlace(v, w)
  PROVE  Inv'
<1>1. w \in Nat \ {0} /\ pos \in Nat /\ size \in Nat /\ pos + w <= size
  BY DynArrayAssumption DEF Inv, Owned, PushInPlace, NeedsRoom
<1>2. /\ data \in Blocks /\ heap = Only(data, heap[data])
      /\ heap[data] \in Seq(Bytes) /\ size <= Len(heap[data])
  BY <1>1 DEF Inv, Owned
<1> DEFINE bytes == Stored(heap[data], pos, v, w)
<1>3. /\ bytes \in Seq(Bytes) /\ Len(bytes) = Len(heap[data])
      /\ pushed \o Element(v, w) \in Seq(Values)
      /\ Len(pushed \o Element(v, w)) = pos + w
      /\ \A k \in 1 .. pos + w : bytes[k] = (pushed \o Element(v, w))[k]
  <2>1. Kept /\ pos + w <= Len(heap[data]) /\ \A k \in 1 .. pos : heap[data][k] = pushed[k]
    BY <1>1, <1>2 DEF Inv, Kept
  <2> QED
    BY <1>1, <1>2, <2>1, StoredIsPushed
<1>4. heap' = Only(data, bytes)
  <2>1. heap' = [heap EXCEPT ![data] = Stored(@, pos, v, w)]
    BY DEF PushInPlace
  <2>2. heap' = [Only(data, heap[data]) EXCEPT ![data] = Stored(@, pos, v, w)]
    BY <1>2, <2>1
  <2> QED
    BY <2>2, StoredInOnly
<1>5. data' = data /\ size' = size /\ pos' = pos + w /\ pushed' = pushed \o Element(v, w)
  BY DEF PushInPlace
<1> HIDE DEF bytes
<1>6. Owned' /\ heap'[data'] = bytes
  BY <1>1, <1>2, <1>3, <1>4, <1>5, OwnsBlock
<1>7. Kept'
  BY <1>3, <1>5, <1>6 DEF Kept
<1> QED
  BY <1>6, <1>7 DEF Inv

(* A call of ft_realloc that fails keeps the array what it was.            *)
LEMMA FailedGrowthInv ==
  ASSUME Inv, NEW new_size \in Nat, size <= new_size,
         NEW o \in ft_realloc(heap, data, size, new_size), o.r # 0,
         data' = o.p, heap' = o.h, size' = size, pos' = pos, pushed' = pushed
  PROVE  Inv' /\ (data # NULL => data' = data /\ heap' = heap)
<1>1. Owned /\ Kept
  BY DEF Inv
<1>2. \/ o = Outcome(1, data, heap)
      \/ /\ data = NULL
         /\ \E b \in Blocks, new \in Seq(Bytes) : o = Outcome(1, b, Only(b, new))
  <2>1. \A b, h : Outcome(0, b, h).r = 0
    BY DEF Outcome
  <2> QED
    BY <1>1, <2>1, ReallocOutcomes
<1>3. CASE o = Outcome(1, data, heap)
  <2>1. data' = data /\ heap' = heap
    BY <1>3 DEF Outcome
  <2> QED
    BY <1>1, <2>1 DEF Inv, Owned, Kept
<1>4. ASSUME data = NULL, NEW b \in Blocks, NEW new \in Seq(Bytes),
             o = Outcome(1, b, Only(b, new))
      PROVE  Inv' /\ data = NULL
  <2>1. data' = b /\ heap' = Only(b, new)
    BY <1>4 DEF Outcome
  <2>2. size = 0 /\ pos = 0
    BY <1>1, <1>4 DEF Owned
  <2>3. /\ pos' \in Nat /\ size' \in Nat /\ pos' <= size' /\ size' <= Len(new)
    BY <2>2
  <2>4. Owned'
    BY <2>1, <2>3, OwnsBlock
  <2>5. Kept'
    BY <1>1, <2>2 DEF Kept
  <2> QED
    BY <1>4, <2>4, <2>5 DEF Inv
<1> QED
  BY <1>2, <1>3, <1>4

(* One that succeeds gives a block with the bytes in use in their place.   *)
LEMMA GrownBlock ==
  ASSUME Inv, NEW new_size \in Nat, size <= new_size,
         NEW o \in ft_realloc(heap, data, size, new_size), o.r = 0
  PROVE  \E b \in Blocks, new \in Seq(Bytes) :
           /\ o.p = b /\ o.h = Only(b, new) /\ Len(new) = new_size
           /\ \A k \in 1 .. pos : new[k] = pushed[k]
<1>1. Owned /\ Kept
  BY DEF Inv
<1>2. \E b \in Blocks, new \in Seq(Bytes) :
        /\ o = Outcome(0, b, Only(b, new)) /\ Len(new) = new_size
        /\ \A k \in 1 .. size : new[k] = heap[data][k]
  <2>1. \A b, h : Outcome(1, b, h).r = 1
    BY DEF Outcome
  <2> QED
    BY <1>1, <2>1, ReallocOutcomes
<1>3. PICK b \in Blocks, new \in Seq(Bytes) :
        /\ o = Outcome(0, b, Only(b, new)) /\ Len(new) = new_size
        /\ \A k \in 1 .. size : new[k] = heap[data][k]
  BY <1>2
<1>4. o.p = b /\ o.h = Only(b, new)
  BY <1>3 DEF Outcome
<1>5. pos \in Nat /\ size \in Nat /\ pos <= size
  BY <1>1 DEF Owned
<1>6. \A k \in 1 .. pos : new[k] = pushed[k]
  BY <1>1, <1>3, <1>5 DEF Kept
<1> QED
  BY <1>3, <1>4, <1>6

LEMMA PushGrowingInv ==
  ASSUME Inv, NEW v \in Values, NEW w \in Widths, PushGrowing(v, w)
  PROVE  Inv' /\ (result' # 0 => /\ UNCHANGED <<pos, size, pushed>>
                                 /\ data # NULL => UNCHANGED <<data, heap>>)
<1> DEFINE new_size == (pos + w) * 2
<1>1. /\ w \in Nat \ {0} /\ pos \in Nat /\ size \in Nat
      /\ size <= new_size /\ new_size \in Nat /\ pos + w <= new_size
  BY DynArrayAssumption DEF Inv, Owned, PushGrowing, NeedsRoom
<1>2. PICK o \in ft_realloc(heap, data, size, new_size) :
        IF o.r = 0
        THEN /\ data' = o.p /\ size' = new_size /\ result' = 0
             /\ heap' = [o.h EXCEPT ![o.p] = Stored(@, pos, v, w)]
             /\ pos' = pos + w /\ pushed' = pushed \o Element(v, w)
        ELSE Grow(o, new_size) /\ UNCHANGED <<pos, pushed>>
  BY DEF PushGrowing
<1> HIDE DEF new_size
<1>3. CASE o.r = 0
  <2>1. PICK b \in Blocks, new \in Seq(Bytes) :
          /\ o.p = b /\ o.h = Only(b, new) /\ Len(new) = new_size
          /\ \A k \in 1 .. pos : new[k] = pushed[k]
    BY <1>1, <1>3, GrownBlock
  <2> DEFINE bytes == Stored(new, pos, v, w)
  <2>2. Kept /\ pos + w <= Len(new)
    BY <1>1, <2>1 DEF Inv
  <2>3. /\ bytes \in Seq(Bytes) /\ Len(bytes) = new_size
        /\ pushed \o Element(v, w) \in Seq(Values)
        /\ Len(pushed \o Element(v, w)) = pos + w
        /\ \A k \in 1 .. pos + w : bytes[k] = (pushed \o Element(v, w))[k]
    BY <1>1, <2>1, <2>2, StoredIsPushed
  <2>4. heap' = Only(b, bytes) /\ data' = b
    <3>1. heap' = [Only(b, new) EXCEPT ![b] = Stored(@, pos, v, w)]
      BY <1>2, <1>3, <2>1
    <3>2. data' = b
      BY <1>2, <1>3, <2>1
    <3> QED
      BY <3>1, <3>2, StoredInOnly
  <2>5. size' = new_size /\ pos' = pos + w /\ pushed' = pushed \o Element(v, w) /\ result' = 0
    BY <1>2, <1>3
  <2> HIDE DEF bytes
  <2>6. Owned' /\ heap'[data'] = bytes
    <3>1. bytes \in Seq(Bytes) /\ size' <= Len(bytes)
      BY <1>1, <2>3, <2>5
    <3>2. pos' \in Nat /\ size' \in Nat /\ pos' <= size'
      BY <1>1, <2>5
    <3> QED
      BY <2>4, <3>1, <3>2, OwnsBlock
  <2>7. Kept'
    BY <2>3, <2>5, <2>6 DEF Kept
  <2> QED
    BY <2>5, <2>6, <2>7 DEF Inv
<1>4. CASE o.r # 0
  <2>1. data' = o.p /\ heap' = o.h /\ size' = size /\ pos' = pos /\ pushed' = pushed
    BY <1>2, <1>4 DEF Grow
  <2> QED
    BY <1>1, <1>4, <2>1, FailedGrowthInv
<1> QED
  BY <1>3, <1>4

LEMMA DoubleInv ==
  ASSUME Inv, ft_realloc_array
  PROVE  Inv' /\ (result' # 0 => /\ UNCHANGED <<pos, size, pushed>>
                                 /\ data # NULL => UNCHANGED <<data, heap>>)
<1>1. /\ pos \in Nat /\ size \in Nat /\ pos <= size
      /\ Doubled \in Nat /\ size <= Doubled
  BY DynArrayAssumption DEF Inv, Owned, Doubled
<1>2. PICK o \in ft_realloc(heap, data, size, Doubled) : Grow(o, Doubled)
  BY DEF ft_realloc_array
<1>3. pos' = pos /\ pushed' = pushed
  BY DEF ft_realloc_array
<1>4. CASE o.r = 0
  <2>1. PICK b \in Blocks, new \in Seq(Bytes) :
          /\ o.p = b /\ o.h = Only(b, new) /\ Len(new) = Doubled
          /\ \A k \in 1 .. pos : new[k] = pushed[k]
    BY <1>1, <1>4, GrownBlock
  <2>2. data' = b /\ heap' = Only(b, new) /\ size' = Doubled /\ result' = 0
    BY <1>2, <1>4, <2>1 DEF Grow
  <2>3. pos' \in Nat /\ size' \in Nat /\ pos' <= size' /\ size' <= Len(new)
    BY <1>1, <1>3, <2>1, <2>2
  <2>4. Owned' /\ heap'[data'] = new
    BY <2>2, <2>3, OwnsBlock
  <2>5. Kept'
    BY <1>3, <2>1, <2>4 DEF Inv, Kept
  <2> QED
    BY <2>2, <2>4, <2>5 DEF Inv
<1>5. CASE o.r # 0
  <2>1. data' = o.p /\ heap' = o.h /\ size' = size
    BY <1>2, <1>5 DEF Grow
  <2> QED
    BY <1>1, <1>3, <1>5, <2>1, FailedGrowthInv
<1> QED
  BY <1>4, <1>5

LEMMA FreeInv ==
  ASSUME Inv, free_array
  PROVE  Inv'
<1>1. data' = NULL /\ pos' = 0 /\ size' = 0 /\ pushed' = << >>
  BY DEF free_array
<1>2. DOMAIN heap' = {}
  BY DEF free_array, Inv, Owned, Without, Restrict
<1>3. Owned'
  BY <1>1, <1>2 DEF Owned
<1>4. Kept'
  BY <1>1 DEF Kept
<1> QED
  BY <1>3, <1>4 DEF Inv

LEMMA InitInv == Init => Inv
<1> SUFFICES ASSUME Init PROVE Inv
  OBVIOUS
<1>1. Owned
  BY DEF Init, Owned
<1>2. Kept
  BY DEF Init, Kept
<1> QED
  BY <1>1, <1>2 DEF Inv

(* What one step does: it keeps the invariant, and when it fails it leaves *)
(* the array as it was.                                                    *)
LEMMA StepInv ==
  ASSUME Inv, [Next]_vars
  PROVE  /\ Inv'
         /\ \/ /\ result' # 0 => /\ UNCHANGED <<pos, size, pushed>>
                                 /\ data # NULL => UNCHANGED <<data, heap>>
            \/ UNCHANGED vars
<1>1. ASSUME NEW v \in Values, NEW w \in Widths, PushInPlace(v, w)
      PROVE  Inv' /\ result' = 0
  BY <1>1, PushInPlaceInv DEF PushInPlace
<1>2. ASSUME NEW v \in Values, NEW w \in Widths, PushGrowing(v, w)
      PROVE  Inv' /\ (result' # 0 => /\ UNCHANGED <<pos, size, pushed>>
                                     /\ data # NULL => UNCHANGED <<data, heap>>)
  BY <1>2, PushGrowingInv
<1>3. CASE ft_realloc_array
  BY <1>3, DoubleInv
<1>4. CASE free_array
  BY <1>4, FreeInv DEF free_array
<1>5. CASE UNCHANGED vars
  BY <1>5 DEF vars, Inv, Owned, Kept
<1> QED
  BY <1>1, <1>2, <1>3, <1>4, <1>5 DEF Next

LEMMA Invariance == Spec => []Inv
<1>1. Inv /\ [Next]_vars => Inv'
  BY StepInv
<1> QED
  BY InitInv, <1>1, PTL DEF Spec
-----------------------------------------------------------------------------
(* array_push and its callers never write or read behind the block they    *)
(* own, whatever malloc answered before.                                   *)
THEOREM HonestCapacity == Spec => []CapacityHonest
<1>1. Inv => CapacityHonest
  BY DEF Inv, Owned, CapacityHonest
<1> QED
  BY <1>1, Invariance, PTL

(* The elements pushed by disp_sections and store_symtab survive every     *)
(* growth, of any size.                                                    *)
THEOREM KeptContents == Spec => []ContentsKept
<1>1. Inv => ContentsKept
  BY DEF Inv, Kept, ContentsKept
<1> QED
  BY <1>1, Invariance, PTL

(* Neither ft_realloc nor free_arrays loses a block.                       *)
THEOREM NoBlockLost == Spec => []OneBlock
<1>1. Inv => OneBlock
  BY DEF Inv, Owned, OneBlock
<1> QED
  BY <1>1, Invariance, PTL

(* A failed growth is harmless, as the comment of ft_realloc promises.     *)
THEOREM HarmlessFailure == Spec => FailureHarmless
<1>1. Inv /\ [Next]_vars =>
        [ result' # 0 => /\ UNCHANGED <<pos, size, pushed>>
                         /\ data # NULL => UNCHANGED <<data, heap>> ]_vars
  BY StepInv
<1> QED
  BY <1>1, Invariance, PTL DEF Spec, FailureHarmless
=============================================================================
