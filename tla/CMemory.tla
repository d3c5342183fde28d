------------------------------- MODULE CMemory -------------------------------
(***************************************************************************)
(* The libft functions that write to memory they are given: copying,       *)
(* appending, filling and clearing.  One memory holds all the strings and  *)
(* blocks; a call is made where its arguments meet what C asks of them,    *)
(* whatever the destination holds.                                         *)
(*                                                                         *)
(* Until is a loop that looks at one place after another; a place outside  *)
(* the memory has no value, and TLC stops at it.                           *)
(***************************************************************************)
EXTENDS Integers, Sequences

CONSTANTS
  Size,   \* the size of the memory
  Chars   \* the characters, 0 among them

Addr == 0 .. Size - 1
NUL == 0

VARIABLES
  mem,   \* the memory
  call   \* the call made: its arguments, its result and the memory before it

vars == <<mem, call>>

None == << >>

Init == mem \in [Addr -> Chars] /\ call = None
-----------------------------------------------------------------------------
(* The first i, from the given one on, at which the loop stops.            *)
Until(Stop(_), i) ==
  LET f[j \in Nat] == IF Stop(j) THEN j ELSE f[j + 1] IN f[i]

MIN(a, b) == IF a < b THEN a ELSE b

ft_strlen(m, s) == Until(LAMBDA p : m[p] = NUL, s) - s

(* The memory with the bytes Value(p) at the places p in S.                *)
Write(m, S, Value(_)) == [p \in Addr |-> IF p \in S THEN Value(p) ELSE m[p]]

(* A wrong copy: without the loop that clears the old tail.                *)
ft_strcpy_head(m, dst, src) ==
  LET i == ft_strlen(m, src)
  IN  Write(m, dst .. dst + i - 1, LAMBDA p : m[src + (p - dst)])

(* while (dst[i]): no NUL is written as such, but all is cleared from p    *)
(* up to the first NUL, in the block or behind it; at Size memory ends.    *)
ClearedTo(m, p) == Until(LAMBDA q : q = Size \/ m[q] = NUL, p)

ft_strcpy(m, dst, src) ==
  LET i == ft_strlen(m, src)
  IN  Write(m, dst .. ClearedTo(m, dst + i) - 1,
            LAMBDA p : IF p < dst + i THEN m[src + (p - dst)] ELSE NUL)

(* A wrong padding: n bytes after the string instead of up to n.           *)
ft_strncpy_pads(m, s1, s2, n) ==
  LET i == Until(LAMBDA k : k = n \/ m[s2 + k] = NUL, 0)
  IN  Write(m, s1 .. s1 + i + n - 1, LAMBDA p : IF p < s1 + i THEN m[s2 + (p - s1)] ELSE NUL)

ft_strncpy(m, s1, s2, n) ==
  LET i == Until(LAMBDA k : k = n \/ m[s2 + k] = NUL, 0)
  IN  Write(m, s1 .. s1 + n - 1, LAMBDA p : IF p < s1 + i THEN m[s2 + (p - s1)] ELSE NUL)

(* The characters of s2 up to count, and a NUL, after the string s1.       *)
AppendTo(m, s1, s2, count) ==
  LET end == s1 + ft_strlen(m, s1)
  IN  Write(m, end .. end + count, LAMBDA p : IF p < end + count THEN m[s2 + (p - end)] ELSE NUL)

ft_strcat(m, s1, s2) == AppendTo(m, s1, s2, ft_strlen(m, s2))

ft_strncat(m, s1, s2, n) == AppendTo(m, s1, s2, Until(LAMBDA i : m[s2 + i] = NUL \/ i >= n, 0))

ft_strlcat(m, dst, src, size) ==
  LET j == ft_strlen(m, dst)
  IN  IF size < j THEN [mem |-> m, ret |-> ft_strlen(m, src) + size]
      ELSE [mem |-> AppendTo(m, dst, src, Until(LAMBDA i : m[src + i] = NUL \/ size <= j + i + 1, 0)),
            ret |-> j + ft_strlen(m, src)]

ft_strclr(m, s) == Write(m, s .. s + ft_strlen(m, s) - 1, LAMBDA p : NUL)

ft_memset(m, b, c, len) == Write(m, b .. b + len - 1, LAMBDA p : c)

(* The malloc'ed block at str is as long as asked for, without a NUL more. *)
ft_strnew(m, str, size) == ft_memset(m, str, NUL, size)

(* ft_memmove as a whole; the module MemMove has its loop.                 *)
ft_memmove(m, dst, src, len) == Write(m, dst .. dst + len - 1, LAMBDA p : m[src + (p - dst)])

(* A wrong copy: the character that ends it is not copied.                 *)
ft_memccpy_before(m, dst, src, c, n) ==
  LET i == Until(LAMBDA k : k = n \/ m[src + k] = c, 0)
  IN  [mem |-> ft_memmove(m, dst, src, i), ret |-> IF i = n THEN -1 ELSE dst + i + 1]

(* The result is the place after the copy of c, or -1 for NULL.            *)
ft_memccpy(m, dst, src, c, n) ==
  LET i == Until(LAMBDA k : k = n \/ m[src + k] = c, 0)
  IN  IF i = n THEN [mem |-> ft_memmove(m, dst, src, n), ret |-> -1]
      ELSE [mem |-> ft_memmove(m, dst, src, i + 1), ret |-> dst + i + 1]

(* The malloc'ed block at ptr holds whatever the memory held.  ft_strcat   *)
(* is not reached if ft_strcpy has run to the end of memory.               *)
ft_strjoin(m, ptr, s1, s2) ==
  LET copied == ft_strcpy(m, ptr, s1)
  IN  IF ClearedTo(m, ptr + ft_strlen(m, s1)) = Size THEN copied ELSE ft_strcat(copied, ptr, s2)
-----------------------------------------------------------------------------
(* The string at a.                                                        *)
Str(m, a) == [k \in 1 .. ft_strlen(m, a) |-> m[a + k - 1]]

IsString(a) == \E p \in Addr : p >= a /\ mem[p] = NUL

(* The n bytes at a are in the memory and not among the m bytes at b.      *)
Block(a, n, b, m) == a + n <= Size /\ (a + n <= b \/ b + m <= a)

StrBlock(a, n, s) == IsString(s) /\ Block(a, n, s, ft_strlen(mem, s) + 1)

(* The function has been called with a block of n bytes at dst; expected   *)
(* is what the C standard wants there, wanted the result it wants.  From   *)
(* cleared on ft_strcpy has looked for a NUL, then the string at second    *)
(* was read; both are Size where there is no such thing.                   *)
Made(dst, n, expected, wanted, m, ret, cleared, second) ==
  /\ mem' = m
  /\ call' = [dst |-> dst, n |-> n, expected |-> expected, wanted |-> wanted,
              ret |-> ret, before |-> mem, cleared |-> cleared, second |-> second]

Call(dst, n, expected, wanted, m, ret) == Made(dst, n, expected, wanted, m, ret, Size, Size)

(* Nothing is returned from a call that has run off the memory.            *)
Fault == -2

AfterCopy(dst, end) == IF ClearedTo(mem, end) = Size THEN Fault ELSE dst

Terminated(s) == s \o <<NUL>>
Prefix(s, n) == SubSeq(s, 1, MIN(n, Len(s)))

(* The block has room for the string and its NUL.                          *)
Strcpy(dst, src, n) ==
  /\ StrBlock(dst, n, src)
  /\ LET end == dst + ft_strlen(mem, src)
     IN  /\ end < dst + n
         /\ Made(dst, n, Terminated(Str(mem, src)), dst, ft_strcpy(mem, dst, src),
                 AfterCopy(dst, end), end, Size)

Strncpy(dst, src, n) ==
  /\ StrBlock(dst, n, src)
  /\ LET s == Str(mem, src)
     IN  Call(dst, n, [k \in 1 .. n |-> IF k <= Len(s) THEN s[k] ELSE NUL], dst,
              ft_strncpy(mem, dst, src, n), dst)

Strncat(dst, src, n) ==
  /\ IsString(dst) /\ IsString(src)
  /\ LET s == Terminated(Str(mem, dst) \o Prefix(Str(mem, src), n))
     IN  /\ StrBlock(dst, Len(s), src)
         /\ Call(dst, Len(s), s, dst, ft_strncat(mem, dst, src, n), dst)

Strcat(dst, src) ==
  /\ IsString(dst) /\ IsString(src)
  /\ LET s == Terminated(Str(mem, dst) \o Str(mem, src))
     IN  /\ StrBlock(dst, Len(s), src)
         /\ Call(dst, Len(s), s, dst, ft_strcat(mem, dst, src), dst)

Strlcat(dst, src, n) ==
  /\ IsString(dst) /\ StrBlock(dst, n, src) /\ StrBlock(dst, ft_strlen(mem, dst) + 1, src)
  /\ LET d == Str(mem, dst)
         s == Str(mem, src)
         r == ft_strlcat(mem, dst, src, n)
     IN  Call(dst, n, Terminated(IF n > Len(d) THEN Prefix(d \o s, n - 1) ELSE d),
              MIN(n, Len(d)) + Len(s), r.mem, r.ret)

Strclr(dst) ==
  /\ IsString(dst)
  /\ LET n == ft_strlen(mem, dst)
     IN  Call(dst, n, [k \in 1 .. n + 1 |-> NUL], 0, ft_strclr(mem, dst), 0)

Memset(dst, n, c) ==
  /\ dst + n <= Size
  /\ Call(dst, n, [k \in 1 .. n |-> c], dst, ft_memset(mem, dst, c, n), dst)

Strnew(ptr, n) ==
  /\ ptr + n <= Size
  /\ Call(ptr, n, [k \in 1 .. n |-> NUL], ptr, ft_strnew(mem, ptr, n), ptr)

Memccpy(dst, src, n, c) ==
  /\ src + n <= Size /\ Block(dst, n, src, n)
  /\ LET found == {k \in 1 .. n : mem[src + k - 1] = c}
         k     == IF found = {} THEN n ELSE CHOOSE k \in found : \A l \in found : k <= l
         r     == ft_memccpy(mem, dst, src, c, n)
     IN  Call(dst, n, [l \in 1 .. k |-> mem[src + l - 1]],
              IF found = {} THEN -1 ELSE dst + k, r.mem, r.ret)

(* malloc returned the block at ptr, with anything in it.                  *)
Strjoin(ptr, s1, s2) ==
  /\ IsString(s1) /\ IsString(s2)
  /\ LET s   == Terminated(Str(mem, s1) \o Str(mem, s2))
         end == ptr + ft_strlen(mem, s1)
     IN  /\ StrBlock(ptr, Len(s), s1) /\ StrBlock(ptr, Len(s), s2)
         /\ Made(ptr, Len(s), s, ptr, ft_strjoin(mem, ptr, s1, s2), AfterCopy(ptr, end), end, s2)

Next ==
  /\ call = None
  /\ \E dst, src \in Addr :
       \/ Strcat(dst, src)
       \/ src = dst /\ Strclr(dst)
       \/ \E s2 \in Addr : Strjoin(dst, src, s2)
       \/ \E n \in 0 .. Size :
            \/ Strcpy(dst, src, n) \/ Strncpy(dst, src, n)
            \/ Strncat(dst, src, n) \/ Strlcat(dst, src, n)
            \/ src = dst /\ Strnew(dst, n)
            \/ \E c \in Chars : Memccpy(dst, src, n, c)
            \/ \E c \in Chars : src = dst /\ Memset(dst, n, c)

Spec == Init /\ [][Next]_vars
-----------------------------------------------------------------------------
(* There was no NUL from where ft_strcpy clears to the end of memory.       *)
Faulted ==
  call.cleared < Size /\ \A q \in call.cleared .. Size - 1 : call.before[q] # NUL

(* The bytes behind the block that no NUL parts from where ft_strcpy       *)
(* clears.                                                                 *)
Overrun ==
  {p \in Addr : /\ p >= call.cleared /\ p >= call.dst + call.n
                /\ \A q \in call.cleared .. p : call.before[q] # NUL}

(* The second string of ft_strjoin is lost.                                *)
SecondLost == Faulted \/ call.second \in Overrun

(* Every function leaves at its destination, and returns, what the C       *)
(* standard says, whatever was in the memory before, with one exception:   *)
(* ft_strjoin leaves the first string alone if, in a block with no NUL     *)
(* behind that one, ft_strcpy ran into the second string or off the        *)
(* memory; only in the latter case nothing is returned.                    *)
WritesWhatItShould ==
  call # None =>
    /\ \A k \in 1 .. Len(call.expected) :
         LET p == call.dst + k - 1
         IN  mem[p] = IF SecondLost /\ p >= call.cleared THEN NUL ELSE call.expected[k]
    /\ call.ret = IF Faulted THEN Fault ELSE call.wanted

(* No function touches a byte outside the block it was given, but for      *)
(* ft_strcpy, alone or in ft_strjoin: if the block had no NUL from the end *)
(* of the copy on, it clears what follows the block up to the next NUL,    *)
(* and not a byte more.                                                    *)
StaysInBlock ==
  call # None =>
    \A p \in Addr \ (call.dst .. call.dst + call.n - 1) :
      mem[p] = IF p \in Overrun THEN NUL ELSE call.before[p]

(* Writing functions do what C wants of them, in the block they were given *)
(* and nowhere else; the exceptions are those of ft_strcpy, exactly.       *)
BlocksAsInC == WritesWhatItShould /\ StaysInBlock
=============================================================================
