------------------------------ MODULE DynArray -------------------------------
(***************************************************************************)
(* The growable array of libft and of the tools: t_array, array_push,      *)
(* free_arrays (tools.c), ft_realloc and ft_realloc_array (ft_realloc.c).  *)
(*                                                                         *)
(* The heap maps each block that is allocated to its bytes.  malloc may    *)
(* fail at every call.  An element is `width` bytes of the same value.     *)
(***************************************************************************)
EXTENDS Naturals, Sequences, Functions

CONSTANTS
  Blocks,      \* the addresses malloc may return
  NULL,        \* the null pointer
  Values,      \* the byte values pushed
  Widths,      \* the sizes of the elements pushed
  FirstDouble, \* 32, what ft_realloc_double makes of an empty array
  MaxSize      \* bound on array->size

ASSUME DynArrayAssumption ==
  /\ NULL \notin Blocks
  /\ Values \subseteq Nat
  /\ Widths \subseteq Nat \ {0}
  /\ FirstDouble \in Nat \ {0} /\ MaxSize \in Nat

VARIABLES
  heap,    \* the blocks allocated and their bytes
  data,    \* array->data
  pos,     \* array->pos, the bytes used
  size,    \* array->size, the bytes the array believes to own
  result,  \* what the last call returned
  pushed   \* history: the bytes pushed since the array was last empty

vars == <<heap, data, pos, size, result, pushed>>

Init ==
  /\ heap = << >> /\ data = NULL /\ pos = 0 /\ size = 0
  /\ result = 0 /\ pushed = << >>

SmallerOf(a, b) == IF a <= b THEN a ELSE b

(* ft_memalloc, when malloc succeeds: n zero bytes.                        *)
Zeroes(n) == [k \in 1 .. n |-> 0]

With(h, b, bytes) == [x \in DOMAIN h \cup {b} |-> IF x = b THEN bytes ELSE h[x]]

(* free                                                                    *)
Without(h, b) == Restrict(h, DOMAIN h \ {b})

(* A wrong copy: one byte less than the array holds.                       *)
MovedShort(bytes, old_size, new_size) ==
  [k \in 1 .. new_size |-> IF k < SmallerOf(new_size, old_size) THEN bytes[k] ELSE 0]

(* The new block: ft_memmove(mem, *ptr, MIN(new_size, old_size)).          *)
Moved(bytes, old_size, new_size) ==
  [k \in 1 .. new_size |-> IF k <= SmallerOf(new_size, old_size) THEN bytes[k] ELSE 0]

(* What a call of ft_realloc ends in: its result, *ptr and the heap.       *)
Outcome(r, p, h) == [r |-> r, p |-> p, h |-> h]

(* A wrong version: the block that is replaced is not freed.               *)
ReallocatedLeaking(h, ptr, old_size, new_size) ==
  {Outcome(1, ptr, h)} \cup
  {Outcome(0, b, With(h, b, Moved(h[ptr], old_size, new_size))) : b \in Blocks \ DOMAIN h}

(* The block at ptr is replaced by a new one, or malloc fails.             *)
Reallocated(h, ptr, old_size, new_size) ==
  {Outcome(1, ptr, h)} \cup
  {Outcome(0, b, With(Without(h, ptr), b, Moved(h[ptr], old_size, new_size))) :
     b \in Blocks \ DOMAIN h}

(* ft_realloc: a null pointer is first given a block of the new size, so   *)
(* that two blocks are asked for, and when the second one cannot be had    *)
(* the first one stays.                                                    *)
ft_realloc(h, ptr, old_size, new_size) ==
  IF ptr # NULL THEN Reallocated(h, ptr, old_size, new_size)
  ELSE {Outcome(1, NULL, h)} \cup
       UNION {Reallocated(With(h, b, Zeroes(new_size)), b, old_size, new_size) :
                b \in Blocks \ DOMAIN h}

(* A wrong version: the size is noted whether or not the block was had.    *)
GrowBlindly(o, new_size) ==
  /\ data' = o.p /\ heap' = o.h /\ result' = o.r /\ size' = new_size

(* The callers of ft_realloc note the new size only when it succeeded.     *)
Grow(o, new_size) ==
  /\ data' = o.p /\ heap' = o.h /\ result' = o.r
  /\ size' = IF o.r = 0 THEN new_size ELSE size

Element(v, w) == [k \in 1 .. w |-> v]

(* ft_memcpy(array->data + array->pos, data, size)                         *)
Stored(bytes, at, v, w) ==
  [k \in 1 .. Len(bytes) |-> IF k \in at + 1 .. at + w THEN v ELSE bytes[k]]

(* A wrong test: the array is grown when it is full, not when it would be. *)
NeedsRoomLate(new_pos) == pos >= size

(* new_pos > array->size                                                   *)
NeedsRoom(new_pos) == new_pos > size

(* array_push, when there is room ...                                      *)
PushInPlace(v, w) ==
  /\ ~NeedsRoom(pos + w)
  /\ heap' = [heap EXCEPT ![data] = Stored(@, pos, v, w)]
  /\ pos' = pos + w /\ pushed' = pushed \o Element(v, w) /\ result' = 0
  /\ UNCHANGED <<data, size>>

(* ... and when the array has to be grown to twice what is needed.         *)
PushGrowing(v, w) ==
  LET new_size == (pos + w) * 2
  IN  /\ NeedsRoom(pos + w) /\ new_size <= MaxSize
      /\ \E o \in ft_realloc(heap, data, size, new_size) :
           IF o.r = 0
           THEN /\ data' = o.p /\ size' = new_size /\ result' = 0
                /\ heap' = [o.h EXCEPT ![o.p] = Stored(@, pos, v, w)]
                /\ pos' = pos + w /\ pushed' = pushed \o Element(v, w)
           ELSE Grow(o, new_size) /\ UNCHANGED <<pos, pushed>>

(* ft_realloc_array, ft_realloc_double.                                    *)
Doubled == IF size = 0 THEN FirstDouble ELSE size * 2

ft_realloc_array ==
  /\ Doubled <= MaxSize
  /\ \E o \in ft_realloc(heap, data, size, Doubled) : Grow(o, Doubled)
  /\ UNCHANGED <<pos, pushed>>

(* free_arrays, for one of the two arrays; disp_object then makes a new    *)
(* one for the next object.                                                *)
free_array ==
  /\ heap' = IF data = NULL THEN heap ELSE Without(heap, data)
  /\ data' = NULL /\ pos' = 0 /\ size' = 0 /\ pushed' = << >> /\ result' = 0

Next ==
  \/ \E v \in Values, w \in Widths : PushInPlace(v, w) \/ PushGrowing(v, w)
  \/ ft_realloc_array
  \/ free_array

Spec == Init /\ [][Next]_vars
-----------------------------------------------------------------------------
(* The array never believes to own more bytes than its block has, also     *)
(* after a failed growth, nor to use more than it owns.                    *)
CapacityHonest ==
  /\ pos <= size
  /\ IF data = NULL THEN size = 0 ELSE data \in DOMAIN heap /\ size <= Len(heap[data])

(* What was pushed is what the array holds, through every growth.          *)
ContentsKept ==
  /\ pos = Len(pushed)
  /\ \A k \in 1 .. pos : heap[data][k] = pushed[k]

(* No block is lost and none freed that is still in use: at any time the   *)
(* array's block is the only one.                                          *)
OneBlock == DOMAIN heap = {data} \ {NULL}

(* If malloc should fail, the data is unaffected and a non-zero value is   *)
(* returned (ft_realloc.c): a call that fails leaves the array as it was,  *)
(* but for the block that an empty array may have got.                     *)
FailureHarmless ==
  [][ result' # 0 => /\ UNCHANGED <<pos, size, pushed>>
                     /\ data # NULL => UNCHANGED <<data, heap>> ]_vars

(* What the comment on ft_realloc_double says: "if old_size is null or     *)
(* negative, it will set to 2", so that an empty array which is doubled    *)
(* has two bytes.                                                          *)
EmptyDoublesToTwo ==
  [][ ft_realloc_array /\ size = 0 /\ size' # 0 => size' = 2 ]_vars
=============================================================================
