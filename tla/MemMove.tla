------------------------------- MODULE MemMove -------------------------------
(***************************************************************************)
(* ft_memmove, one byte at a time (ft_memmove.c): the copy that every      *)
(* other copy in libft and in the tools rests on.  The two regions may     *)
(* overlap in any way.                                                     *)
(***************************************************************************)
EXTENDS Naturals

CONSTANTS
  Size,  \* the size of the memory
  Byte   \* the values of a byte

ASSUME SizeAssumption == Size \in Nat

Addr == 0 .. Size - 1

VARIABLES
  mem,            \* the memory
  dst, src, len,  \* the arguments
  i,              \* the counter of the loop
  before          \* history: the memory when the function was called

vars == <<mem, dst, src, len, i, before>>

(* A wrong direction: the test is the other way round.                     *)
BackwardsSwapped == src > dst

(* source < destin: from the end to the start.                             *)
Backwards == src < dst

Init ==
  /\ mem \in [Addr -> Byte] /\ before = mem
  /\ dst \in 0 .. Size /\ src \in 0 .. Size /\ len \in 0 .. Size
  /\ dst + len <= Size /\ src + len <= Size
  /\ i = IF Backwards THEN len ELSE 0

CopyDown ==
  /\ Backwards /\ i > 0
  /\ mem' = [mem EXCEPT ![dst + i - 1] = mem[src + i - 1]]
  /\ i' = i - 1
  /\ UNCHANGED <<dst, src, len, before>>

CopyUp ==
  /\ ~Backwards /\ src # dst /\ i < len
  /\ mem' = [mem EXCEPT ![dst + i] = mem[src + i]]
  /\ i' = i + 1
  /\ UNCHANGED <<dst, src, len, before>>

Next == CopyDown \/ CopyUp

Spec == Init /\ [][Next]_vars

Done == src # dst => i = IF Backwards THEN 0 ELSE len
-----------------------------------------------------------------------------
TypeOK ==
  /\ mem \in [Addr -> Byte] /\ before \in [Addr -> Byte]
  /\ dst \in Nat /\ src \in Nat /\ len \in Nat /\ i \in 0 .. len
  /\ dst + len <= Size /\ src + len <= Size

(* The destination ends up with what the source held when the function was *)
(* called, however the two overlap, and no other byte is touched.          *)
CopiedAtOnce ==
  Done => \A p \in Addr :
    mem[p] = IF p \in dst .. dst + len - 1 THEN before[src + (p - dst)] ELSE before[p]

(* The bytes copied so far; those still to be copied are as they were.     *)
Progress ==
  /\ src < dst => \A p \in Addr :
       mem[p] = IF p \in dst + i .. dst + len - 1 THEN before[src + (p - dst)] ELSE before[p]
  /\ src > dst => \A p \in Addr :
       mem[p] = IF p \in dst .. dst + i - 1 THEN before[src + (p - dst)] ELSE before[p]
  /\ src = dst => mem = before
=============================================================================
